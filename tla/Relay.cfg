\* Three bytes and one through buffers of two and sockets of one; the client
\* may reset, the upstream may refuse; the properties say what they assume of
\* the remote ends.
CONSTANTS
  Cap = 2
  SndCap = 1
  Bytes <- ThreeAndOne
  IdleLimit = 1
  Resetting = {0}
SPECIFICATION FairSpec
INVARIANTS RelayIntact DrainedBeforeShutdown ArtifactHoldsNextBytes
PROPERTIES QuietSessionsTimeOut BytesMoveOn FinishedSessionsClose
CHECK_DEADLOCK FALSE
