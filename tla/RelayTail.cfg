\* A client that sends more than a buffer and finishes.
CONSTANTS
  Cap = 1
  SndCap = 1
  Bytes <- TwoAndNone
  IdleLimit = 1
  Resetting = {}
SPECIFICATION Spec
INVARIANTS ShutdownAfterLastByte
CHECK_DEADLOCK FALSE
