\* Three nodes with every order of add, del, link, unlink, online, tick and
\* seed, and a pair table of two; energies are pinned (MaxPpm = 2, no gain) and
\* the generation does not count, so the graph and the table are explored.
CONSTANTS
  MaxNodes = 3
  MaxPairs = 2
  MaxPairId = 2
  GenerationModulus = 1
  PulseModulus = 1
  MaxPpm = 2
  TickGain = 0
  LinkGain = 0
  EnergyFloor = 1
  HealthDrop = 1
  HealthFloor = 2
  ClientIds <- AllIdsAndOne
  OnlineInputs <- BothWays
  EnergyInputs <- NoInputs
  HealthInputs <- NoInputs
  PulseInputs <- NoInputs
  Modes = {crossed}
  Hooks <- NoInputs
SPECIFICATION Spec
INVARIANTS LinksWellFormed
PROPERTIES ImplementsGraph SeedEstablishesDefaults NoPairIdReuse
