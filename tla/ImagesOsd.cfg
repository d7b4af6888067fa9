SPECIFICATION Spec
CONSTANTS
  Workers = {w1, w2}
  MaxProviders = 2
  MaxOsds = 2
  MaxImages = 1
  WaitTicks = 1
  CancelTicks = 1
INVARIANT ImagesInOrder
CHECK_DEADLOCK FALSE
