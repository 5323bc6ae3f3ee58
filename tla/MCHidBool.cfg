\* The gate after a bus reset with a report in flight: violated.
CONSTANTS
  KeyRollOver = 2
  Base = Base
  Fn = Fn
  LayerIds <- MCLayerIds
  BootLayer = Base
  NoReport = NoReport
  SpillTargets <- AnyTarget
  EventQueueLength = 1
  EventMessages <- FewMessages
SPECIFICATION FairSpec
PROPERTIES BoolWorks
