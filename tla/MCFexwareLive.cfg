\* One key, under fairness.
CONSTANTS
  KeyRollOver = 2
  Base = Base
  Fn = Fn
  LayerIds <- BaseOnly
  BootLayer = Base
  NoReport = NoReport
  SpillTargets <- Padding
  Layers <- OneLetter
  keys <- MCKeys
  NumPositions = 1
  Hold = 1
  TickModulus = 1
  PollSteps <- EveryTick
  FaultyHalves <- NoFaults
  KeyQueueLength = 1
  EventQueueLength = 1
SPECIFICATION FairSpec
PROPERTIES GateReopens ScanCatchesUp HostLetsGo
