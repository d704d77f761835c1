SPECIFICATION CycleSpec
CONSTANTS
  Release <- MCRelease
  MaxEncodes = 2
INVARIANTS
  EncodedAtMostOnce
  DolbyVisionUntouched
  UHDHDRIsReattached
  HDR10RecordsSurvive
  ReportExplainsDecision
CHECK_DEADLOCK FALSE
