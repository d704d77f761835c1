SPECIFICATION FairDaemonSpec
CONSTANTS
  w1 = w1
  w2 = w2
  s1 = s1
  v1 = v1
  NoFile = NoFile
  Worker <- OneWorker
  Stem <- OneStem
  Version <- OneVersion
  Facts <- MCFacts
  Initial <- Nothing
  CrossDevice = FALSE
  Exclusive = FALSE
  Faults = FALSE
  Crashes = FALSE
  Upgrades = TRUE
  OtherOpens = TRUE
INVARIANTS
  NoLitter
PROPERTIES
  ProcessFileReturns
  SwapCompletes
  EveryFileIsEncoded
  ShutdownCompletes
