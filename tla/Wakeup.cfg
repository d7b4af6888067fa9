SPECIFICATION Spec
CONSTANTS
  MaxHooks = 0
  MaxTime = 2
  Horizon = 2
  MinEventTimeout = 1
  Patience = 2
INVARIANT
  WakeupReported
