\* The client finishes and the upstream does not.
CONSTANTS
  Cap = 1
  SndCap = 1
  Bytes <- TwoAndNone
  IdleLimit = 1
  Resetting = {}
SPECIFICATION FairSpec
PROPERTIES IdleSessionsClose
CHECK_DEADLOCK FALSE
