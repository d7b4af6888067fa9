SPECIFICATION Spec
CONSTANTS
  Profiles <- OnlySystem
  LateMessages = FALSE
  MaxSignals = 1
  MaxCalls = 0
  MaxLosses = 0
  MaxFailures = 0
INVARIANT
  NoSignalLost
CHECK_DEADLOCK FALSE
