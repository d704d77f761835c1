------------------------------ MODULE MCAnalyze ------------------------------
EXTENDS Analyze

CONSTANTS w1, w2, f1, f2, f3

MCWorker == {w1, w2}
MCFile == {f1, f2, f3}
=============================================================================
