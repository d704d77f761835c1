SPECIFICATION PipelineSpec
CONSTANTS
  w1 = w1
  w2 = w2
  s1 = s1
  s2 = s2
  s3 = s3
  v1 = v1
  v2 = v2
  v3 = v3
  NoFile = NoFile
  Worker <- OneWorker
  Stem <- OneStem
  Version <- TwoVersions
  Facts <- MCFacts
  Initial <- SameStemTwice
  CrossDevice = FALSE
  Exclusive = TRUE
  Faults = FALSE
  Crashes = FALSE
INVARIANTS
  OriginalsKept
CHECK_DEADLOCK FALSE
