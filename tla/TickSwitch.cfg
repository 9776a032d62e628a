\* A file writer and a sysfs writer switch ticking on and off; the module loads and unloads.
CONSTANTS
  FileWriters <- FileWriter
  SysfsWriters <- SysfsWriter
  MinTickMs = 1
  MaxTickMs = 2
  DefaultTickMs = 1
  GenerationModulus = 2
  NoOwner = NoOwner
  f1 = f1
  s1 = s1
  TickMsInputs <- TickMsArguments
SPECIFICATION FairSpec
INVARIANTS TypeOK
PROPERTIES CancelReturnsQuiet CancelReturnsUnlessTickWaits TicksFollowSwitch
\* The system stops once the module is unloaded, or in the lock cycle of
\* "interactive 0".
CHECK_DEADLOCK FALSE
