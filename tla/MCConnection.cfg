SPECIFICATION Spec
CONSTANTS
  Profiles <- AllProfiles
  LateMessages = TRUE
  MaxSignals = 2
  MaxCalls = 1
  MaxLosses = 2
  MaxFailures = 1
INVARIANTS
  TypeOK
  StatusIsTrue
  NeverStranded
  QueuesServed
  RegisteredTogether
  LossReported
PROPERTIES
  Promise
  LifeLed
CHECK_DEADLOCK FALSE
