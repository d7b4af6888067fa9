SPECIFICATION Spec
CONSTANTS
  Workers = {w1}
  MaxProviders = 2
  MaxOsds = 2
  MaxImages = 1
  WaitTicks = 1
  CancelTicks = 1
INVARIANTS
  TypeOK
  NeverSleepsOnMessage
  ImagesKept
CHECK_DEADLOCK FALSE
