\* Two keys, hold bindings in one of two keymaps: violated.
CONSTANTS
  KeyRollOver = 2
  Plain = Plain
  Base = Base
  Fn = Fn
  LayerIds <- MixedLayerIds
  BootLayer = Base
  Layers <- MixedLayers
  keys <- MCKeys
  NumPositions = 2
  Hold = 1
  TickModulus = 3
  PollSteps <- EveryTick
  FaultyHalves = {}
  KeyQueueLength = 1
  EventQueueLength = 1
SPECIFICATION Spec
PROPERTIES HoldOnlyWhileDown
