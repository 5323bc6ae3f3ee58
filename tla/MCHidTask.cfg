\* Safety of the usb-hid task: two slots, a queue of one message.
CONSTANTS
  KeyRollOver = 2
  Base = Base
  Fn = Fn
  LayerIds <- MCLayerIds
  BootLayer = Base
  NoReport = NoReport
  SpillTargets <- AnyTarget
  EventQueueLength = 1
  EventMessages <- MCEventMessages
SPECIFICATION Spec
INVARIANTS TypeOK OneReportInFlight HostInSync
PROPERTIES WedgeOnlyOffBus WedgedForGood
