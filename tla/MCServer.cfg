SPECIFICATION FairServerSpec
CONSTANTS
  w1 = w1
  w2 = w2
  h1 = h1
  h2 = h2
  k1 = k1
  k2 = k2
  Worker <- MCWorker
  Handler <- MCHandler
  Key <- TwoKeys
  Request <- MCRequest
  WebhookToken = "secret"
  NoToken = ""
  PathMappings <- MCMappings
  Continuation <- MCContinuation
  FileAt <- MCFileAt
  Faults = FALSE
  Locked = TRUE
  OtherOpens = FALSE
INVARIANTS
  QueueInv
  JobHeldOnce
  ServerInv
  StatusIsConsistent
  QueuedIsImported
PROPERTIES
  ImplementsLedger
  EveryJobEnds
  ServeEnds
