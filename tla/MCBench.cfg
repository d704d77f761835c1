SPECIFICATION FairBenchSpec
CONSTANTS
  Arguments <- MCArguments
  Values <- MCValues
  Clip <- MCClip
INVARIANTS
  BenchInv
  ProcessesReaped
  LengthsMatch
  RowsAreTrue
  KeptAreOwn
PROPERTIES
  BenchEnds
  InterruptEnds
CHECK_DEADLOCK FALSE
