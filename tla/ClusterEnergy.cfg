\* Energies and healths move: ticks, commands and pulses on one pair.
CONSTANTS
  MaxNodes = 3
  MaxPairs = 1
  MaxPairId = 1
  GenerationModulus = 2
  PulseModulus = 2
  MaxPpm = 4
  TickGain = 1
  LinkGain = 1
  EnergyFloor = 1
  HealthDrop = 2
  HealthFloor = 4
  ClientIds <- TwoIds
  OnlineInputs <- NoInputs
  EnergyInputs <- High
  HealthInputs <- High
  PulseInputs <- LowAndHigh
  Modes = {crossed}
  Hooks = {h1}
SPECIFICATION MirrorSpec
INVARIANTS LadderFresh MirrorTracksCluster
PROPERTIES PulseContracts GenerationCoversNodes
