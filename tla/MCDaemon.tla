------------------------------- MODULE MCDaemon -------------------------------
EXTENDS Daemon

CONSTANTS w1, w2, s1, v1

MCWorker == {w1, w2}
OneWorker == {w1}
OneStem == {s1}
OneVersion == {v1}

\* Releases worth an encode.
MCFacts == [v \in Version |-> [codec |-> "h264", height |-> 1080,
                               dolbyVision |-> FALSE, transfer |-> "bt709"]]

\* A library of one film, and an empty one: a release arrives later.
OneMkv == [p \in Path |-> IF p = [stem |-> s1, ext |-> "mkv"] THEN Orig(v1) ELSE NoFile]
Nothing == [p \in Path |-> NoFile]
=============================================================================
