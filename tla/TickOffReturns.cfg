\* "interactive 0" against the tick work.
CONSTANTS
  FileWriters <- FileWriter
  SysfsWriters <- Nobody
  MinTickMs = 1
  MaxTickMs = 2
  DefaultTickMs = 1
  GenerationModulus = 2
  NoOwner = NoOwner
  f1 = f1
  s1 = s1
  TickMsInputs <- TickMsArguments
SPECIFICATION FairSpec
PROPERTIES InteractiveOffReturns
\* The system stops once the module is unloaded, or in the lock cycle of
\* "interactive 0".
CHECK_DEADLOCK FALSE
