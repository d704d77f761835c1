SPECIFICATION DaemonSpec
CONSTANTS
  w1 = w1
  w2 = w2
  s1 = s1
  v1 = v1
  NoFile = NoFile
  Worker <- MCWorker
  Stem <- OneStem
  Version <- OneVersion
  Facts <- MCFacts
  Initial <- OneMkv
  CrossDevice = FALSE
  Exclusive = FALSE
  Faults = TRUE
  Crashes = TRUE
  Upgrades = FALSE
  OtherOpens = FALSE
INVARIANTS
  DaemonInv
  OriginalsKept
  NoEncodeInVault
  DoneIsTrue
