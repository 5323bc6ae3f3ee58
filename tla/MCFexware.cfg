\* Two keys that share a code, garbage reads of both, the modifiers behind
\* the slots.
CONSTANTS
  KeyRollOver = 2
  Base = Base
  Fn = Fn
  LayerIds <- BaseOnly
  BootLayer = Base
  NoReport = NoReport
  SpillTargets <- Modifiers
  Layers <- SameLetter
  keys <- MCKeys
  NumPositions = 2
  Hold = 1
  TickModulus = 1
  PollSteps <- EveryTick
  FaultyHalves <- BothHalves
  KeyQueueLength = 1
  EventQueueLength = 2
SPECIFICATION Spec
INVARIANTS NoStuckKey SlotForEveryKey
CONSTRAINT NothingLost
