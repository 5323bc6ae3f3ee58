\* Two keys, hold bindings in every keymap but the first; holds last one poll, ticks
\* wrap at three.
CONSTANTS
  KeyRollOver = 2
  Plain = Plain
  Base = Base
  Fn = Fn
  LayerIds <- HoldLayerIds
  BootLayer = Plain
  Layers <- HoldLayers
  keys <- MCKeys
  NumPositions = 2
  Hold = 1
  TickModulus = 3
  PollSteps <- EveryTick
  FaultyHalves = {}
  KeyQueueLength = 1
  EventQueueLength = 1
SPECIFICATION Spec
INVARIANTS TypeOK TimersOfDownKeys OneDoPerPress
PROPERTIES HoldOnlyWhileDown EveryPressCounts
