SPECIFICATION FairSweepSpec
CONSTANTS
  w1 = w1
  w2 = w2
  f1 = f1
  f2 = f2
  f3 = f3
  NoFile = NoFile
  Worker <- MCWorker
  File <- MCFile
INVARIANTS
  SweepInv
  ReportComplete
PROPERTIES
  SweepReturns
CHECK_DEADLOCK FALSE
