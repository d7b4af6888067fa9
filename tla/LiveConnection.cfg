SPECIFICATION FairSpec
CONSTANTS
  Profiles <- PluginProfiles
  LateMessages = TRUE
  MaxSignals = 1
  MaxCalls = 0
  MaxLosses = 1
  MaxFailures = 2
PROPERTIES
  FairPromise
  AutoReconnects
  QueuesDrain
  DisconnectReturnsWhileUp
CHECK_DEADLOCK FALSE
