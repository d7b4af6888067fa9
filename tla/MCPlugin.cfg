SPECIFICATION FairSpec
CONSTANTS
  MaxWatchers = 3
  MaxTrouble = 2
  Addresses <- MCAddresses
  Names = {n1}
  MaxChanges = 2
  MaxEvents = 2
  Options <- MCOptions
  Devices <- MCDevices
  NullDevice = 2
  MaxCommands = 3
  MaxRequests = 2
  MaxMethods = 1
INVARIANTS
  TypeOK
  WatchersServed
  FollowsFile
  ServiceWithdrawn
  RequestServedOnce
  TornDownInOrder
PROPERTIES
  StopReturns
  LivesLed
CHECK_DEADLOCK FALSE
