SPECIFICATION FairSpec
CONSTANTS
  Workers = {w1, w2}
  MaxProviders = 1
  MaxOsds = 1
  MaxImages = 2
  WaitTicks = 2
  CancelTicks = 4
INVARIANTS
  Handover
  KilledOnlyIfFed
PROPERTY
  Announced
CHECK_DEADLOCK FALSE
