\* One key, two layers, a reboot: the tasks keep their own specifications.
CONSTANTS
  KeyRollOver = 2
  Base = Base
  Fn = Fn
  LayerIds <- MCLayerIds
  BootLayer = Base
  NoReport = NoReport
  SpillTargets <- Padding
  Layers <- LetterThenReset
  keys <- MCKeys
  NumPositions = 1
  Hold = 1
  TickModulus = 1
  PollSteps <- EveryTick
  FaultyHalves <- NoFaults
  KeyQueueLength = 1
  EventQueueLength = 2
SPECIFICATION Spec
INVARIANTS NoStuckKey
PROPERTIES HidTaskSpec KeyTaskSpec
