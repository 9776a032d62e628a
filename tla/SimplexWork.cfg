\* Two files, one sysfs writer, loading and unloading; the ladders in full.
CONSTANTS
  c1 = c1
  c2 = c2
  s1 = s1
  loader = loader
  badCfg = badCfg
  page = page
  other = other
  NoReport = NoReport
  Clients = {c1, c2}
  Stores = {s1}
  Loader = loader
  LoadCfg <- Defaults
  LoadBase <- PageBase
  Cfgs <- UserCfgs
  BadCfgs = {badCfg}
  Keys = {page, other}
  Ratios <- BaseRatios
  Ladder <- LaddersOfInputs
  Levels <- LevelsOfPairs
SPECIFICATION FairSpec
CHECK_DEADLOCK FALSE
INVARIANTS ReturnedWritesReported FilesKeepQueue GoneIsQuiet
PROPERTIES CallsReturn ImplementsService DuoLadderSound LadderAddsUp
