SPECIFICATION PipelineSpec
CONSTANTS
  w1 = w1
  w2 = w2
  s1 = s1
  s2 = s2
  s3 = s3
  v1 = v1
  v2 = v2
  v3 = v3
  NoFile = NoFile
  Worker <- MCWorker
  Stem <- ThreeStems
  Version <- ThreeVersions
  Facts <- MCFacts
  Initial <- ThreeFilms
  CrossDevice = FALSE
  Exclusive = TRUE
  Faults = TRUE
  Crashes = TRUE
INVARIANTS
  PipelineInv
  BrokenCopyHasOriginal
  SwapVerified
  ReportIsTrue
PROPERTIES
  ImplementsSafeReplace
CHECK_DEADLOCK FALSE
