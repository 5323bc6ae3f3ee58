\* A key that types or changes the layer: violated.
CONSTANTS
  KeyRollOver = 2
  Base = Base
  Fn = Fn
  LayerIds <- MCLayerIds
  BootLayer = Base
  NoReport = NoReport
  SpillTargets <- Padding
  Layers <- LetterOrLayer
  keys <- MCKeys
  NumPositions = 1
  Hold = 1
  TickModulus = 3
  PollSteps <- EveryTick
  FaultyHalves <- NoFaults
  KeyQueueLength = 1
  EventQueueLength = 1
SPECIFICATION Spec
INVARIANTS LayerNeedsNoMutex
