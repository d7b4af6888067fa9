SPECIFICATION FairSpec
CONSTANTS
  MaxHooks = 2
  MaxTime = 2
  Horizon = 3
  MinEventTimeout = 1
  Patience = 2
INVARIANTS
  TypeOK
  ReadyMeansApproved
  StillQuiet
  WakeupAgrees
  HooksFinish
PROPERTY
  Answered
