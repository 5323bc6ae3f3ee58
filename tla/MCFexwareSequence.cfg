\* A key that types two letters: violated.
CONSTANTS
  KeyRollOver = 2
  Base = Base
  Fn = Fn
  LayerIds <- BaseOnly
  BootLayer = Base
  NoReport = NoReport
  SpillTargets <- Padding
  Layers <- TwoLetters
  keys <- MCKeys
  NumPositions = 1
  Hold = 1
  TickModulus = 1
  PollSteps <- EveryTick
  FaultyHalves <- NoFaults
  KeyQueueLength = 1
  EventQueueLength = 2
SPECIFICATION Spec
INVARIANTS SequenceKeysApart
