------------------------------ MODULE MCPipeline ------------------------------
EXTENDS Pipeline, FiniteSets

CONSTANTS w1, w2, s1, s2, s3, v1, v2, v3

MCWorker == {w1, w2}
OneWorker == {w1}
OneStem == {s1}
ThreeStems == {s1, s2, s3}
TwoVersions == {v1, v2}
ThreeVersions == {v1, v2, v3}

\* An h264 release is worth an encode, a Dolby Vision one is not.
MCFacts == [v \in Version |->
              [codec |-> "h264", height |-> IF v = v3 THEN 2160 ELSE 1080,
               dolbyVision |-> v = v3, transfer |-> "bt709"]]

\* Libraries: a file at each of the given paths, nothing elsewhere.
At(s, e) == [stem |-> s, ext |-> e]
Holding(files) == [p \in Path |-> IF \E f \in files : f[1] = p
                                  THEN Orig((CHOOSE f \in files : f[1] = p)[2])
                                  ELSE NoFile]

\* One film as .mkv, one whose final name differs from its own, one that is left alone.
ThreeFilms == Holding({<<At(s1, "mkv"), v1>>, <<At(s2, "mp4"), v2>>, <<At(s3, "mkv"), v3>>})
\* Two files of one stem.
SameStemTwice == Holding({<<At(s1, "mp4"), v1>>, <<At(s1, "mkv"), v2>>})
=============================================================================
