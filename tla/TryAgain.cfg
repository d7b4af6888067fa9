SPECIFICATION Spec
CONSTANTS
  MaxHooks = 1
  MaxTime = 1
  Horizon = 1
  MinEventTimeout = 1
  Patience = 2
INVARIANT
  TryAgainReplied
