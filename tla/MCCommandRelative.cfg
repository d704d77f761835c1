SPECIFICATION CommandSpec
CONSTANTS
  f1 = f1
  f2 = f2
  f3 = f3
  w1 = w1
  w2 = w2
  Home <- MCHome
  QuarantineRoot <- Root
  Invocation <- Relative
  DaemonCwd <- Slash
  Left <- LeftAlone
  Worker <- Workers
INVARIANTS
  EveryOriginalExists
