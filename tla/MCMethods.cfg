SPECIFICATION Spec
CONSTANTS
  w1 = w1
  w2 = w2
  r1 = r1
  r2 = r2
  d1 = d1
  Workers = {w1, w2}
  Offers <- MCOffers
  ChannelList <- MCChannelList
  MaxVolume = 2
  Bound = {"bound"}
  Parsed = {"parsed"}
  Unknown = {"unknown"}
  Values = {"1", "2"}
  Starts = {1, 2}
  Recordings = {r1, r2}
  Events = {"ChannelChange", "Recording"}
  Directories = {d1}
  Skins = {"sttng", "lcars"}
  Plugins = {"epgsearch"}
  MaxMessages = 1
INVARIANTS
  TypeOK
  RefusedChangesNothing
  QuestionAnswered
  SetupSaved
  ReplayTold
  LocksLetGo
CHECK_DEADLOCK FALSE
