SPECIFICATION FairSpec
CONSTANTS
  Profiles <- OnlySession
  LateMessages = FALSE
  MaxSignals = 0
  MaxCalls = 0
  MaxLosses = 1
  MaxFailures = 0
PROPERTY
  DisconnectReturns
CHECK_DEADLOCK FALSE
