--------------------------- MODULE Methods_proofs ---------------------------
(***************************************************************************)
(* The methods of all interfaces, for any number of threads and calls and  *)
(* any channels, settings, recordings and values: the types, the locks,    *)
(* the refusals, the questions, the settings, and what is replayed.  The   *)
(* methods are about sixty actions of one model; what the pool has to know *)
(* of each - which steps it goes to and which locks it takes - is proved   *)
(* once, action by action, as Effect, and what an interface keeps of its   *)
(* own needs only its own actions after that.                              *)
(***************************************************************************)
EXTENDS Methods, FiniteSetTheorems, SequenceTheorems, TLAPS

-----------------------------------------------------------------------------
(***************************************************************************)
(* The calls and the locks. Each call is at a step of its own method,      *)
(* names a method with arguments that a caller may give, and the locks of  *)
(* VDR's lists are held as VDR's own lock allows.                          *)
(***************************************************************************)

\* The fields of a thread's entry in call.
Fields == {"method", "arg", "at", "code", "value"}

\* How a lock is held,
Modes == {"read", "write"}

\* and which, and for how long: until the function is left, or a key removed.
Keys == [lock : Locks, mode : Modes, until : {"left", "removed"}]

\* At step s of a call of method m: which method has which steps.
OnTheWay(m, s) ==
  \/ s = "idle" /\ m = "none"
  \/ s \in {"queued", "replied"} /\ m # "none"
  \/ s \in {"ask", "asking"} /\ m = "Remote.AskUser"
  \/ s = "switch" /\ m = "Remote.SwitchChannel"
  \/ s \in {"assigned", "saved", "loaded", "stored"} /\ m = "Setup.Set"
  \/ s = "parsed" /\ m = "Timers.New"
  \/ s \in {"stop", "choose", "launch"} /\ m = "Recordings.Play"
  \/ s = "clear" /\ m = "Epg.ClearEPG"
  \/ s = "crashed" /\ m \in {"Epg.ClearEPG", "Status.IsReplaying"}
  \/ s = "put" /\ m = "Epg.PutEntry"
  \/ s = "read" /\ m = "Epg.PutFile"
  \/ s = "entries" /\ m \in {"Epg.Now", "Epg.Next", "Epg.At"}
  \/ s = "remove" /\ m \in {"Epg.ClearEPG", "Epg.Now", "Epg.Next", "Epg.At"}

\* The steps at which a thread may hold a lock.
Holding == {"switch", "entries", "stop", "choose", "launch", "remove", "replied"}

\* The steps that wait until a lock is granted.
Blocking == {"queued", "parsed", "put", "read"}

\* What callers may call, the method nobody has included.
Possible == KnownCalls \union {UnknownCall}

\* What is known of every call.
CallInv ==
  /\ offered \in Offers /\ calls \in 0..offered.calls
  /\ DOMAIN call = Workers
  /\ \A w \in Workers :
       /\ DOMAIN call[w] = Fields
       /\ OnTheWay(call[w].method, call[w].at)
       /\ call[w].at # "idle" => \E c \in Possible : call[w].method = c.method /\ call[w].arg = c.arg

\* A lock has one writer or many readers.
Exclusive ==
  \A a, b \in Workers \union {VDR} : a # b =>
    \A h \in holds[a], g \in holds[b] : h.lock = g.lock => h.mode = "read" /\ g.mode = "read"

\* Locks are held rightly, and only by who is in the middle of a call; the one
\* that a key keeps is held at the step that removes the key, and at no other.
LockInv ==
  /\ holds \in [Workers \union {VDR} -> SUBSET Keys]
  /\ Exclusive
  /\ \A w \in Workers :
       /\ holds[w] # {} => call[w].at \in Holding
       /\ \A h \in holds[w] : h.until = "removed" => call[w].at = "remove" /\ h.lock = "schedules"

\* A step of w that leaves its method, its arguments and the other calls alone.
Passes(w) ==
  /\ offered' = offered /\ calls' = calls /\ DOMAIN call' = Workers
  /\ \A v \in Workers \ {w} : call'[v] = call[v]
  /\ DOMAIN call'[w] = Fields
  /\ call'[w].method = call[w].method /\ call'[w].arg = call[w].arg

-----------------------------------------------------------------------------
(***************************************************************************)
(* What a method's step does to its call and to the locks.                 *)
(***************************************************************************)

\* Going on to a step of the method is such a step.
LEMMA GoPasses ==
  ASSUME CallInv, NEW w \in Workers, NEW step, Go(w, step)
  PROVE  Passes(w) /\ call'[w].at = step /\ call'[w].code = call[w].code /\ call'[w].value = call[w].value
BY DEF CallInv, Go, Same, Passes, Fields

\* So is an answer with a value (object.c, ReturnMethod),
LEMMA ReturnPasses ==
  ASSUME CallInv, NEW w \in Workers, NEW code, NEW value, Return(w, code, value)
  PROVE  Passes(w) /\ call'[w].at = "replied" /\ call'[w].code = code /\ call'[w].value = value
BY DEF CallInv, Return, Same, Passes, Fields

\* an answer with a code only (helper.c, SendReply),
LEMMA ReplyPasses ==
  ASSUME CallInv, NEW w \in Workers, NEW code, SendReply(w, code)
  PROVE  Passes(w) /\ call'[w].at = "replied" /\ call'[w].code = code
BY ReturnPasses DEF SendReply

\* and an answer that is sent while a key is still to be removed.
LEMMA RemovePasses ==
  ASSUME CallInv, NEW w \in Workers, NEW code, NEW value, ReplyThenRemove(w, code, value)
  PROVE  Passes(w) /\ call'[w].at = "remove" /\ call'[w].code = code /\ call'[w].value = value
BY DEF CallInv, ReplyThenRemove, Same, Passes, Fields

\* and so one before the file is read.
LEMMA ReadPasses ==
  ASSUME CallInv, NEW w \in Workers, ReplyThenRead(w)
  PROVE  Passes(w) /\ call'[w].at = "read" /\ call'[w].code = 0
BY DEF CallInv, ReplyThenRead, Same, Passes, Fields

\* The names of the methods in channel.c,
ChannelsMethods ==
  {"Channels.Count", "Channels.Current", "Channels.GetFromTo", "Channels.List"}

\* and that its calls are calls of these.
LEMMA ChannelsOffered == \A c \in ChannelsCalls : c.method \in ChannelsMethods
BY DEF ChannelsCalls, ChannelsMethods

\* The names of the methods in remote.c,
RemoteMethods ==
  {"Remote.CallPlugin", "Remote.Enable", "Remote.Disable", "Remote.Status",
       "Remote.GetVolume", "Remote.HitKey", "Remote.HitKeys", "Remote.AskUser",
       "Remote.SwitchChannel", "Remote.SetVolume"}

\* and that its calls are calls of these.
LEMMA RemoteOffered == \A c \in RemoteCalls : c.method \in RemoteMethods
BY DEF RemoteCalls, RemoteMethods

\* The names of the methods in setup.c,
SetupMethods ==
  {"Setup.Set", "Setup.Get", "Setup.List", "Setup.Del"}

\* and that its calls are calls of these.
LEMMA SetupOffered == \A c \in SetupCalls : c.method \in SetupMethods
BY DEF SetupCalls, SetupMethods

\* The names of the methods in timer.c,
TimersMethods ==
  {"Timers.List", "Timers.ListDetailed", "Timers.Next", "Timers.New", "Timers.Delete"}

\* and that its calls are calls of these.
LEMMA TimersOffered == \A c \in TimersCalls : c.method \in TimersMethods
BY DEF TimersCalls, TimersMethods

\* The names of the methods in status.c,
StatusMethods ==
  {"Status.IsReplaying"}

\* and that its calls are calls of these.
LEMMA StatusOffered == \A c \in StatusCalls : c.method \in StatusMethods
BY DEF StatusCalls, StatusMethods

\* The names of the methods in recording.c,
RecordingsMethods ==
  {"Recordings.Get", "Recordings.List", "Recordings.Update", "Recordings.ListExtra",
       "Recordings.ClearExtra", "Recordings.Play", "Recordings.ChangeName",
       "Recordings.AddExtra", "Recordings.DeleteExtra"}

\* and that its calls are calls of these.
LEMMA RecordingsOffered == \A c \in RecordingsCalls : c.method \in RecordingsMethods
BY DEF RecordingsCalls, RecordingsMethods

\* The names of the methods in epg.c,
EpgMethods ==
  {"Epg.DisableScanner", "Epg.EnableScanner", "Epg.ClearEPG", "Epg.PutEntry", "Epg.PutFile",
       "Epg.Now", "Epg.Next", "Epg.At"}

\* and that its calls are calls of these.
LEMMA EpgOffered == \A c \in EpgCalls : c.method \in EpgMethods
BY DEF EpgCalls, EpgMethods

\* The names of the methods in skin.c, plugin.c and device.c,
DeskMethods ==
  {"Skin.CurrentSkin", "Skin.ListSkins", "Plugins.List", "Devices.GetPrimary",
       "Devices.GetNullDevice", "Devices.List", "Skin.SetSkin", "Skin.QueueMessage",
       "Plugins.SVDRPCommand", "Plugins.Service", "Devices.RequestPrimary"}

\* and that their calls are calls of these.
LEMMA DeskOffered == \A c \in DeskCalls : c.method \in DeskMethods
BY DEF DeskCalls, DeskMethods

\* No method is called like the mark of a thread that has no call.
LEMMA NoneKnown == \A c \in Possible : c.method # "none"
<1>1. \A c \in Possible : c.method \in ChannelsMethods \union RemoteMethods \union SetupMethods \union
      TimersMethods \union
      StatusMethods \union RecordingsMethods \union EpgMethods \union DeskMethods \union {"Unknown.Method"}
  BY ChannelsOffered, RemoteOffered, SetupOffered, TimersOffered, StatusOffered, RecordingsOffered,
     EpgOffered, DeskOffered
     DEF Possible, KnownCalls, UnknownCall
<1> QED
  BY <1>1
  DEF ChannelsMethods, RemoteMethods, SetupMethods, TimersMethods, StatusMethods, RecordingsMethods,
      EpgMethods, DeskMethods

\* The invariant of the pool.
PoolInv == CallInv /\ LockInv

\* w is granted lock l.
Takes(w, l, mode, until) ==
  /\ Grants(l, mode) /\ l \in Locks /\ mode \in Modes
  /\ holds' = [holds EXCEPT ![w] = @ \union {[lock |-> l, mode |-> mode, until |-> until]}]

\* All that a step of a method does to its call and to the locks: it takes a
\* lock, or takes the schedules with a key, or removes the key, or leaves locks
\* alone.
Effect(w) ==
  /\ Passes(w) /\ call[w].at \notin {"idle", "replied"} /\ call'[w].at \notin {"idle", "queued"}
  /\ OnTheWay(call[w].method, call'[w].at)
  /\ \/ call[w].at # "remove" /\ call'[w].at # "remove"
        /\ (holds' = holds
           \/ (call'[w].at \in Holding /\ \E l \in Locks, mode \in Modes : Takes(w, l, mode, "left")))
     \/ call[w].at # "remove" /\ call'[w].at = "remove"
        /\ \E mode \in Modes : Takes(w, "schedules", mode, "removed")
     \/ call[w].at = "remove" /\ call'[w].at = "replied" /\ holds' = Removed(w, "schedules")

\* LOCK_..._READ and LOCK_..._WRITE take a lock until the function is left.
LEMMA LockedTakes ==
  ASSUME NEW w, NEW l \in Locks, NEW mode \in Modes, Locked(w, l, mode)
  PROVE  Takes(w, l, mode, "left")
BY DEF Locked, Takes

\* A lock that is taken with a cStateKey stays until the key is removed.
LEMMA LockedWithKeyTakes ==
  ASSUME NEW w, NEW mode \in Modes, LockedWithKey(w, "schedules", mode)
  PROVE  Takes(w, "schedules", mode, "removed")
BY DEF LockedWithKey, Takes, Locks

\* w answers its call.
Replies(w) == \E code, value : Return(w, code, value)

\* An answer with a value is an answer,
LEMMA ReturnReplies == \A w, code, value : Return(w, code, value) => Replies(w)
BY DEF Replies

\* and so is one with a code only.
LEMMA SendReplyReplies == \A w, code : SendReply(w, code) => Replies(w)
BY DEF Replies, SendReply

\* An answer changes nothing else of the calls.
LEMMA RepliesPasses ==
  ASSUME CallInv, NEW w \in Workers, Replies(w)
  PROVE  Passes(w) /\ call'[w].at = "replied"
BY ReturnPasses DEF Replies

\* A thread is at a step of its method.
LEMMA OnWay == ASSUME CallInv, NEW w \in Workers PROVE OnTheWay(call[w].method, call[w].at)
BY DEF CallInv

\* Every step of a method of the channels has that effect.
LEMMA ChannelsEffect == ASSUME CallInv, NEW w \in Workers, ChannelsMethod(w) PROVE Effect(w)
<1>1. CASE Count(w)
  BY <1>1, OnWay, GoPasses, ReturnPasses, ReplyPasses, RemovePasses, LockedTakes, LockedWithKeyTakes
     DEF Count, Reads, Effect, Runs, At, OnTheWay, Locks, Modes, Holding
<1>2. CASE Current(w)
  BY <1>2, OnWay, GoPasses, ReturnPasses, ReplyPasses, RemovePasses, LockedTakes, LockedWithKeyTakes
     DEF Current, Reads, Effect, Runs, At, OnTheWay, Locks, Modes, Holding
<1>3. CASE GetFromTo(w)
  <2>1. Replies(w) BY <1>3, ReturnReplies, ZenonT(60) DEF GetFromTo
  <2>2. Reads(w, "Channels.GetFromTo") BY <1>3, Zenon DEF GetFromTo
  <2> QED BY <2>1, <2>2, OnWay, RepliesPasses, LockedTakes
          DEF Reads, Effect, Runs, At, OnTheWay, Locks, Modes, Holding
<1>4. CASE ChannelsList(w)
  <2>0. \A found : Everything(w, found) => Replies(w) BY DEF Everything, Replies
  <2>1. Replies(w) BY ZenonT(30), <1>4, <2>0 DEF ChannelsList, Replies, Return, Reads
  <2>2. Runs(w, "Channels.List") /\ Locked(w, "channels", "read") BY <1>4 DEF ChannelsList, Reads
  <2> QED
    BY <2>1, <2>2, OnWay, RepliesPasses, GoPasses, LockedTakes
    DEF Effect, OnTheWay, Runs, At, Locks, Modes, Holding
<1> QED BY <1>1, <1>2, <1>3, <1>4 DEF ChannelsMethod

\* Every step of a method of the remote control has that effect.
LEMMA RemoteEffect == ASSUME CallInv, NEW w \in Workers, RemoteMethod(w) PROVE Effect(w)
<1>1. CASE CallPlugin(w)
  BY <1>1, OnWay, GoPasses, ReturnPasses, ReplyPasses, RemovePasses, LockedTakes, LockedWithKeyTakes
     DEF CallPlugin, Effect, Runs, At, OnTheWay, Locks, Modes, Holding
<1>2. CASE SetEnabled(w)
  BY <1>2, OnWay, GoPasses, ReturnPasses, ReplyPasses, RemovePasses, LockedTakes, LockedWithKeyTakes
     DEF SetEnabled, Effect, Runs, At, OnTheWay, Locks, Modes, Holding
<1>3. CASE RemoteStatus(w)
  BY <1>3, OnWay, GoPasses, ReturnPasses, ReplyPasses, RemovePasses, LockedTakes, LockedWithKeyTakes
     DEF RemoteStatus, Effect, Runs, At, OnTheWay, Locks, Modes, Holding
<1>4. CASE HitKey(w)
  BY <1>4, OnWay, GoPasses, ReturnPasses, ReplyPasses, RemovePasses, LockedTakes, LockedWithKeyTakes
     DEF HitKey, Effect, Runs, At, OnTheWay, Locks, Modes, Holding
<1>5. CASE HitKeys(w)
  BY <1>5, OnWay, GoPasses, ReturnPasses, ReplyPasses, RemovePasses, LockedTakes, LockedWithKeyTakes
     DEF HitKeys, Effect, Runs, At, OnTheWay, Locks, Modes, Holding
<1>6. CASE AskTest(w)
  BY <1>6, OnWay, GoPasses, ReturnPasses, ReplyPasses, RemovePasses, LockedTakes, LockedWithKeyTakes
     DEF AskTest, Effect, Runs, At, OnTheWay, Locks, Modes, Holding
<1>7. CASE AskOpen(w)
  <2>1. Passes(w) /\ call'[w].at = "asking" BY <1>7 DEF AskOpen, Same, Passes, CallInv, Fields
  <2>2. At(w, "ask") /\ holds' = holds BY <1>7 DEF AskOpen
  <2> QED BY <2>1, <2>2, OnWay DEF Effect, OnTheWay, Runs, At
<1>8. CASE AskCall(w)
  BY <1>8, OnWay, GoPasses, ReturnPasses, ReplyPasses, RemovePasses, LockedTakes, LockedWithKeyTakes
     DEF AskCall, Effect, Runs, At, OnTheWay, Locks, Modes, Holding
<1>9. CASE SwitchLocks(w)
  BY <1>9, OnWay, GoPasses, ReturnPasses, ReplyPasses, RemovePasses, LockedTakes, LockedWithKeyTakes
     DEF SwitchLocks, Effect, Runs, At, OnTheWay, Locks, Modes, Holding
<1>10. CASE Zap(w)
  <2>1. Replies(w) BY ZenonT(30), <1>10, ReturnReplies, SendReplyReplies DEF Zap
  <2>2. At(w, "switch") /\ holds' = holds BY <1>10 DEF Zap
  <2> QED
    BY <2>1, <2>2, OnWay, RepliesPasses, GoPasses, LockedTakes
    DEF Effect, OnTheWay, Runs, At, Locks, Modes, Holding
<1>11. CASE GetVolume(w)
  BY <1>11, OnWay, GoPasses, ReturnPasses, ReplyPasses, RemovePasses, LockedTakes, LockedWithKeyTakes
     DEF GetVolume, Effect, Runs, At, OnTheWay, Locks, Modes, Holding
<1>12. CASE SetVolume(w)
  <2>1. Replies(w) BY ZenonT(30), <1>12, ReturnReplies, SendReplyReplies DEF SetVolume
  <2>2. Runs(w, "Remote.SetVolume") /\ holds' = holds BY <1>12 DEF SetVolume
  <2> QED
    BY <2>1, <2>2, OnWay, RepliesPasses, GoPasses, LockedTakes
    DEF Effect, OnTheWay, Runs, At, Locks, Modes, Holding
<1> QED BY <1>1, <1>2, <1>3, <1>4, <1>5, <1>6, <1>7, <1>8, <1>9, <1>10, <1>11, <1>12 DEF RemoteMethod

\* Every step of a method of the setup has that effect.
LEMMA SetupEffect == ASSUME CallInv, NEW w \in Workers, SetupMethod(w) PROVE Effect(w)
<1>1. CASE SetBound(w)
  BY <1>1, OnWay, GoPasses, ReturnPasses, ReplyPasses, RemovePasses, LockedTakes, LockedWithKeyTakes
     DEF SetBound, Effect, Runs, At, OnTheWay, Locks, Modes, Holding
<1>2. CASE SaveBound(w)
  BY <1>2, OnWay, GoPasses, ReturnPasses, ReplyPasses, RemovePasses, LockedTakes, LockedWithKeyTakes
     DEF SaveBound, Effect, Runs, At, OnTheWay, Locks, Modes, Holding
<1>3. CASE SetPluginOrNew(w)
  <2>0. SendReply(w, 501) \/ SendReply(w, 900) BY <1>3 DEF SetPluginOrNew
  <2>1. Replies(w) BY <2>0, ReturnReplies, SendReplyReplies
  <2>2. Runs(w, "Setup.Set") /\ holds' = holds BY <1>3 DEF SetPluginOrNew
  <2> QED
    BY <2>1, <2>2, OnWay, RepliesPasses, GoPasses, LockedTakes
    DEF Effect, OnTheWay, Runs, At, Locks, Modes, Holding
<1>4. CASE ReplaceSaves(w)
  <2>1. Replies(w) \/ Go(w, "saved") BY <1>4, ReturnReplies, SendReplyReplies DEF ReplaceSaves
  <2>2. Runs(w, "Setup.Set") /\ holds' = holds BY <1>4 DEF ReplaceSaves
  <2> QED
    BY <2>1, <2>2, OnWay, RepliesPasses, GoPasses, LockedTakes
    DEF Effect, OnTheWay, Runs, At, Locks, Modes, Holding
<1>5. CASE ReplaceLoads(w)
  <2>1. Replies(w) \/ Go(w, "loaded") BY ZenonT(90), <1>5, ReturnReplies, SendReplyReplies DEF ReplaceLoads
  <2>2. At(w, "saved") /\ holds' = holds BY <1>5 DEF ReplaceLoads
  <2> QED
    BY <2>1, <2>2, OnWay, RepliesPasses, GoPasses, LockedTakes
    DEF Effect, OnTheWay, Runs, At, Locks, Modes, Holding
<1>6. CASE ReplaceStores(w)
  BY <1>6, OnWay, GoPasses, ReturnPasses, ReplyPasses, RemovePasses, LockedTakes, LockedWithKeyTakes
     DEF ReplaceStores, Effect, Runs, At, OnTheWay, Locks, Modes, Holding
<1>7. CASE ReplaceReloads(w)
  BY <1>7, OnWay, GoPasses, ReturnPasses, ReplyPasses, RemovePasses, LockedTakes, LockedWithKeyTakes
     DEF ReplaceReloads, Effect, Runs, At, OnTheWay, Locks, Modes, Holding
<1>8. CASE Del(w)
  <2>0. SendReply(w, 501) \/ SendReply(w, 550) \/ SendReply(w, 900) BY <1>8 DEF Del
  <2>1. Replies(w) BY <2>0, ReturnReplies, SendReplyReplies
  <2>2. Runs(w, "Setup.Del") /\ holds' = holds BY <1>8 DEF Del
  <2> QED
    BY <2>1, <2>2, OnWay, RepliesPasses, GoPasses, LockedTakes
    DEF Effect, OnTheWay, Runs, At, Locks, Modes, Holding
<1>9. CASE Get(w)
  <2>1. Replies(w) BY ZenonT(30), <1>9 DEF Get, Replies, Return
  <2>2. Runs(w, "Setup.Get") /\ holds' = holds BY <1>9 DEF Get
  <2> QED
    BY <2>1, <2>2, OnWay, RepliesPasses, GoPasses, LockedTakes
    DEF Effect, OnTheWay, Runs, At, Locks, Modes, Holding
<1>10. CASE List(w)
  BY <1>10, OnWay, GoPasses, ReturnPasses, ReplyPasses, RemovePasses, LockedTakes, LockedWithKeyTakes
     DEF List, Effect, Runs, At, OnTheWay, Locks, Modes, Holding
<1> QED BY <1>1, <1>2, <1>3, <1>4, <1>5, <1>6, <1>7, <1>8, <1>9, <1>10 DEF SetupMethod

\* Every step of a method of the timers has that effect.
LEMMA TimersEffect == ASSUME CallInv, NEW w \in Workers, TimersMethod(w) PROVE Effect(w)
<1>1. CASE TimersParse(w)
  BY <1>1, OnWay, GoPasses, ReturnPasses, ReplyPasses, RemovePasses, LockedTakes, LockedWithKeyTakes
     DEF TimersParse, Effect, Runs, At, OnTheWay, Locks, Modes, Holding
<1>2. CASE TimersNew(w)
  BY <1>2, OnWay, GoPasses, ReturnPasses, ReplyPasses, RemovePasses, LockedTakes, LockedWithKeyTakes
     DEF TimersNew, Effect, Runs, At, OnTheWay, Locks, Modes, Holding
<1>3. CASE TimersDelete(w)
  BY <1>3, OnWay, GoPasses, ReturnPasses, ReplyPasses, RemovePasses, LockedTakes, LockedWithKeyTakes
     DEF TimersDelete, Effect, Runs, At, OnTheWay, Locks, Modes, Holding
<1>4. CASE TimersList(w)
  BY <1>4, OnWay, GoPasses, ReturnPasses, ReplyPasses, RemovePasses, LockedTakes, LockedWithKeyTakes
     DEF TimersList, Effect, Runs, At, OnTheWay, Locks, Modes, Holding
<1>5. CASE TimersNext(w)
  <2>1. Replies(w) BY <1>5, ReturnReplies, SendReplyReplies DEF TimersNext
  <2>2. Runs(w, "Timers.Next") /\ Locked(w, "timers", "read") BY <1>5 DEF TimersNext
  <2> QED
    BY <2>1, <2>2, OnWay, RepliesPasses, GoPasses, LockedTakes
    DEF Effect, OnTheWay, Runs, At, Locks, Modes, Holding
<1> QED BY <1>1, <1>2, <1>3, <1>4, <1>5 DEF TimersMethod

\* Every step of a method of the recordings has that effect.
LEMMA RecordingsEffect == ASSUME CallInv, NEW w \in Workers, RecordingsMethod(w) PROVE Effect(w)
<1>1. CASE RecordingsGet(w)
  BY <1>1, OnWay, GoPasses, ReturnPasses, ReplyPasses, RemovePasses, LockedTakes, LockedWithKeyTakes
     DEF RecordingsGet, Effect, Runs, At, OnTheWay, Locks, Modes, Holding
<1>2. CASE RecordingsListed(w)
  BY <1>2, OnWay, GoPasses, ReturnPasses, ReplyPasses, RemovePasses, LockedTakes, LockedWithKeyTakes
     DEF RecordingsListed, Effect, Runs, At, OnTheWay, Locks, Modes, Holding
<1>3. CASE Update(w)
  BY <1>3, OnWay, GoPasses, ReturnPasses, ReplyPasses, RemovePasses, LockedTakes, LockedWithKeyTakes
     DEF Update, Effect, Runs, At, OnTheWay, Locks, Modes, Holding
<1>4. CASE ChangeName(w)
  <2>1. Replies(w) BY ZenonT(30), <1>4, ReturnReplies, SendReplyReplies DEF ChangeName
  <2>2. Runs(w, "Recordings.ChangeName") /\ Locked(w, "recordings", "write") BY <1>4 DEF ChangeName
  <2> QED
    BY <2>1, <2>2, OnWay, RepliesPasses, GoPasses, LockedTakes
    DEF Effect, OnTheWay, Runs, At, Locks, Modes, Holding
<1>5. CASE PlayFind(w)
  <2>1. CASE SendReply(w, 501)
    <3>1. Replies(w) BY <2>1 DEF Replies, SendReply
    <3>2. Runs(w, "Recordings.Play") /\ Locked(w, "recordings", "read") BY <1>5 DEF PlayFind
    <3> QED BY <3>1, <3>2, OnWay, RepliesPasses, LockedTakes DEF Effect, OnTheWay, Runs, Locks, Modes, Holding
  <2>2. CASE ~SendReply(w, 501)
    <3>1. PICK i \in Found(call[w].arg[1]) : call' = [call EXCEPT ![w].at = "stop",
                                             ![w].value = <<list[i]>>] /\ Same
      BY <1>5, <2>2 DEF PlayFind
    <3>2. Passes(w) /\ call'[w].at = "stop" BY <3>1 DEF Same, Passes, CallInv, Fields
    <3>3. Runs(w, "Recordings.Play") /\ Locked(w, "recordings", "read") BY <1>5 DEF PlayFind
    <3> QED BY <3>2, <3>3, OnWay, LockedTakes DEF Effect, OnTheWay, Runs, Locks, Modes, Holding
  <2> QED BY <2>1, <2>2
<1>6. CASE PlayStop(w)
  BY <1>6, OnWay, GoPasses, ReturnPasses, ReplyPasses, RemovePasses, LockedTakes, LockedWithKeyTakes
     DEF PlayStop, Effect, Runs, At, OnTheWay, Locks, Modes, Holding
<1>7. CASE PlayChoose(w)
  BY <1>7, OnWay, GoPasses, ReturnPasses, ReplyPasses, RemovePasses, LockedTakes, LockedWithKeyTakes
     DEF PlayChoose, Effect, Runs, At, OnTheWay, Locks, Modes, Holding
<1>8. CASE PlayLaunch(w)
  BY <1>8, OnWay, GoPasses, ReturnPasses, ReplyPasses, RemovePasses, LockedTakes, LockedWithKeyTakes
     DEF PlayLaunch, Effect, Runs, At, OnTheWay, Locks, Modes, Holding
<1>9. CASE Extra(w)
  <2>0. SendReply(w, 501) \/ SendReply(w, 550)
          \/ Return(w, IF directories = <<>> THEN 550 ELSE 250, directories) \/ SendReply(w, 250)
    BY <1>9 DEF Extra
  <2>1. Replies(w) BY <2>0, ReturnReplies, SendReplyReplies
  <2>2. At(w, "queued") /\ holds' = holds BY <1>9 DEF Extra
  <2> QED
    BY <2>1, <2>2, OnWay, RepliesPasses, GoPasses, LockedTakes
    DEF Effect, OnTheWay, Runs, At, Locks, Modes, Holding
<1> QED BY <1>1, <1>2, <1>3, <1>4, <1>5, <1>6, <1>7, <1>8, <1>9 DEF RecordingsMethod

\* Every step of a method of the EPG has that effect.
LEMMA EpgEffect == ASSUME CallInv, NEW w \in Workers, EpgMethod(w) PROVE Effect(w)
<1>1. CASE DisableScanner(w)
  BY <1>1, OnWay, GoPasses, ReturnPasses, ReplyPasses, RemovePasses, LockedTakes, LockedWithKeyTakes
     DEF DisableScanner, GivesUp, Effect, Runs, At, OnTheWay, Locks, Modes, Holding
<1>2. CASE EnableScanner(w)
  BY <1>2, OnWay, GoPasses, ReturnPasses, ReplyPasses, RemovePasses, LockedTakes, LockedWithKeyTakes
     DEF EnableScanner, GivesUp, Effect, Runs, At, OnTheWay, Locks, Modes, Holding
<1>3. CASE ClearFind(w)
  BY <1>3, OnWay, GoPasses, ReturnPasses, ReplyPasses, RemovePasses, LockedTakes, LockedWithKeyTakes
     DEF ClearFind, GivesUp, Effect, Runs, At, OnTheWay, Locks, Modes, Holding
<1>4. CASE ClearEPG(w)
  BY <1>4, OnWay, GoPasses, ReturnPasses, ReplyPasses, RemovePasses, LockedTakes, LockedWithKeyTakes
     DEF ClearEPG, GivesUp, Effect, Runs, At, OnTheWay, Locks, Modes, Holding
<1>5. CASE RemoveKey(w)
  <2>1. Passes(w) /\ call'[w].at = "replied" BY <1>5 DEF RemoveKey, Same, Passes, CallInv, Fields
  <2>2. At(w, "remove") /\ holds' = Removed(w, "schedules") BY <1>5 DEF RemoveKey, KeyRemoved
  <2> QED BY <2>1, <2>2, OnWay DEF Effect, OnTheWay, Runs, At
<1>6. CASE PutEntry(w)
  <2>1. Replies(w) \/ Go(w, "put") BY ZenonT(30), <1>6, ReturnReplies, SendReplyReplies DEF PutEntry
  <2>2. Runs(w, "Epg.PutEntry") /\ holds' = holds BY <1>6 DEF PutEntry
  <2> QED
    BY <2>1, <2>2, OnWay, RepliesPasses, GoPasses, LockedTakes
    DEF Effect, OnTheWay, Runs, At, Locks, Modes, Holding
<1>7. CASE PutFile(w)
  <2>1. Replies(w) \/ ReplyThenRead(w) BY <1>7, ReturnReplies, SendReplyReplies DEF PutFile
  <2>2. Runs(w, "Epg.PutFile") /\ holds' = holds BY <1>7 DEF PutFile
  <2> QED
    BY <2>1, <2>2, OnWay, RepliesPasses, ReadPasses, LockedTakes
    DEF Effect, OnTheWay, Runs, At, Locks, Modes, Holding
<1>8. CASE ReadEntries(w)
  BY <1>8, OnWay, GoPasses, ReturnPasses, ReplyPasses, RemovePasses, LockedTakes, LockedWithKeyTakes
     DEF ReadEntries, EntriesTaken, Effect, Runs, At, OnTheWay, Locks, Modes, Holding
<1>9. CASE EntriesFind(w)
  <2>1. Replies(w) \/ Go(w, "entries") BY <1>9, ReturnReplies, SendReplyReplies DEF EntriesFind
  <2>2. call[w].method \in {"Epg.Now", "Epg.Next", "Epg.At"} /\ At(w, "queued") /\ Locked(w, "channels", "read")
    BY <1>9 DEF EntriesFind
  <2> QED
    BY <2>1, <2>2, OnWay, RepliesPasses, GoPasses, LockedTakes
    DEF Effect, OnTheWay, Runs, At, Locks, Modes, Holding
<1>10. CASE Entries(w)
  BY <1>10, OnWay, GoPasses, ReturnPasses, ReplyPasses, RemovePasses, LockedTakes, LockedWithKeyTakes
     DEF Entries, GivesUp, Effect, Runs, At, OnTheWay, Locks, Modes, Holding
<1>11. CASE ReadFile(w)
  BY <1>11, OnWay, GoPasses DEF ReadFile, EntriesTaken, Effect, At, OnTheWay
<1> QED BY <1>1, <1>2, <1>3, <1>4, <1>5, <1>6, <1>7, <1>8, <1>9, <1>10, <1>11 DEF EpgMethod

\* Every step of a method of the skins, the plugins and the devices has that
\* effect.
LEMMA DeskEffect == ASSUME CallInv, NEW w \in Workers, DeskMethod(w) PROVE Effect(w)
<1>1. CASE SetSkin(w)
  <2>0. SendReply(w, 501) \/ SendReply(w, 550) \/ SendReply(w, 900) BY ZenonT(30), <1>1 DEF SetSkin
  <2>1. Replies(w) BY <2>0, ReturnReplies, SendReplyReplies
  <2>2. Runs(w, "Skin.SetSkin") /\ holds' = holds BY <1>1 DEF SetSkin, Aside, Sees
  <2> QED
    BY <2>1, <2>2, OnWay, RepliesPasses, GoPasses, LockedTakes
    DEF Effect, OnTheWay, Runs, At, Locks, Modes, Holding
<1>2. CASE QueueMessage(w)
  <2>1. Replies(w) BY ZenonT(30), <1>2, ReturnReplies, SendReplyReplies DEF QueueMessage, Aside, Sees
  <2>2. Runs(w, "Skin.QueueMessage") /\ holds' = holds BY <1>2 DEF QueueMessage, Aside, Sees
  <2> QED
    BY <2>1, <2>2, OnWay, RepliesPasses, GoPasses, LockedTakes
    DEF Effect, OnTheWay, Runs, At, Locks, Modes, Holding
<1>3. CASE SVDRPCommand(w)
  <2>1. Replies(w) BY <1>3, ReturnReplies, SendReplyReplies DEF SVDRPCommand, Aside, Sees
  <2>2. Runs(w, "Plugins.SVDRPCommand") /\ holds' = holds BY <1>3 DEF SVDRPCommand, Aside, Sees
  <2> QED
    BY <2>1, <2>2, OnWay, RepliesPasses, GoPasses, LockedTakes
    DEF Effect, OnTheWay, Runs, At, Locks, Modes, Holding
<1>4. CASE Service(w)
  <2>1. Replies(w) BY <1>4, ReturnReplies, SendReplyReplies DEF Service, Aside, Sees
  <2>2. Runs(w, "Plugins.Service") /\ holds' = holds BY <1>4 DEF Service, Aside, Sees
  <2> QED
    BY <2>1, <2>2, OnWay, RepliesPasses, GoPasses, LockedTakes
    DEF Effect, OnTheWay, Runs, At, Locks, Modes, Holding
<1>5. CASE RequestPrimary(w)
  BY <1>5, OnWay, GoPasses, ReturnPasses, ReplyPasses, RemovePasses, LockedTakes, LockedWithKeyTakes
     DEF RequestPrimary, Aside, Sees, Effect, Runs, At, OnTheWay, Locks, Modes, Holding
<1>6. CASE LooksAtSkins(w)
  BY <1>6, OnWay, GoPasses, ReturnPasses, ReplyPasses, RemovePasses, LockedTakes, LockedWithKeyTakes
     DEF LooksAtSkins, Aside, Sees, Effect, Runs, At, OnTheWay, Locks, Modes, Holding
<1>7. CASE LooksAtPlugins(w)
  BY <1>7, OnWay, GoPasses, ReturnPasses, ReplyPasses, RemovePasses, LockedTakes, LockedWithKeyTakes
     DEF LooksAtPlugins, Aside, Sees, Effect, Runs, At, OnTheWay, Locks, Modes, Holding
<1>8. CASE LooksAtDevices(w)
  BY <1>8, OnWay, GoPasses, ReturnPasses, ReplyPasses, RemovePasses, LockedTakes, LockedWithKeyTakes
     DEF LooksAtDevices, Aside, Sees, Effect, Runs, At, OnTheWay, Locks, Modes, Holding
<1> QED BY <1>1, <1>2, <1>3, <1>4, <1>5, <1>6, <1>7, <1>8 DEF DeskMethod

\* Every step of any method has it.
LEMMA MethodEffect ==
  ASSUME CallInv, NEW w \in Workers, Method(w)
  PROVE  Effect(w)
<1>1. CASE IsReplaying(w)
  <2>1. Replies(w) \/ Go(w, "crashed")
    <3>1. CASE call[w].arg = "network" BY <1>1, <3>1, ReturnReplies DEF IsReplaying, NotImplemented
    <3>2. CASE call[w].arg # "network" /\ w \in bereft
      <4>1. ReadsFreed(w) BY <1>1, <3>2 DEF IsReplaying
      <4> QED BY <4>1, ReturnReplies, SendReplyReplies DEF ReadsFreed
    <3>3. CASE call[w].arg # "network" /\ w \notin bereft BY <1>1, <3>3 DEF IsReplaying, Replies, Return
    <3> QED BY <3>1, <3>2, <3>3
  <2>2. Runs(w, "Status.IsReplaying") /\ holds' = holds BY <1>1 DEF IsReplaying, NotImplemented
  <2> QED BY <2>1, <2>2, RepliesPasses, GoPasses DEF Effect, OnTheWay, Runs
<1>2. CASE NotImplemented(w, Implemented)
  <2>1. Replies(w) BY <1>2, ReturnReplies DEF NotImplemented
  <2>2. At(w, "queued") /\ holds' = holds BY <1>2 DEF NotImplemented
  <2> QED BY <2>1, <2>2, OnWay, RepliesPasses DEF Effect, OnTheWay, At
<1> QED
  BY <1>1, <1>2, ChannelsEffect, RemoteEffect, SetupEffect, TimersEffect, RecordingsEffect, EpgEffect,
     DeskEffect
  DEF Method

-----------------------------------------------------------------------------
(***************************************************************************)
(* The invariant of the pool.                                              *)
(***************************************************************************)

\* What a method does keeps the calls as they must be.
LEMMA CallStep ==
  ASSUME CallInv, NEW w \in Workers, Effect(w)
  PROVE  CallInv'
<1>1. Passes(w) /\ OnTheWay(call'[w].method, call'[w].at) BY DEF Effect, Passes
<1>2. ASSUME NEW v \in Workers
      PROVE  /\ DOMAIN call'[v] = Fields
             /\ OnTheWay(call'[v].method, call'[v].at)
             /\ call'[v].at # "idle" => \E c \in Possible : call'[v].method = c.method /\ call'[v].arg = c.arg
  <2>1. CASE v = w BY <1>1, <2>1 DEF Effect, Passes, CallInv
  <2>2. CASE v # w BY <1>1, <2>2 DEF Passes, CallInv
  <2> QED BY <2>1, <2>2
<1> QED BY <1>1, <1>2 DEF CallInv, Passes

\* A lock that is granted has no writer beside it.
LEMMA ExclusiveStep ==
  ASSUME LockInv, NEW w \in Workers \union {VDR}, NEW l \in Locks, NEW mode \in Modes,
         NEW until \in {"left", "removed"},
         Takes(w, l, mode, until)
  PROVE  Exclusive' /\ holds' \in [Workers \union {VDR} -> SUBSET Keys]
<1> DEFINE k == [lock |-> l, mode |-> mode, until |-> until]
<1>1. k \in Keys /\ k.lock = l /\ k.mode = mode BY DEF Keys
<1> HIDE DEF k
<1>2. holds' = [holds EXCEPT ![w] = @ \union {k}] BY DEF Takes, k
<1>3. holds'[w] = holds[w] \union {k} /\ \A a \in Workers \union {VDR} : a # w => holds'[a] = holds[a]
  BY <1>2 DEF LockInv
<1>4. ASSUME NEW a \in Workers \union {VDR}, NEW h \in holds[a], h.lock = l
      PROVE  h.mode = "read" /\ mode = "read"
  <2>2. h.lock = l BY <1>4
  <2>3. h \in HoldersOf(l) BY <2>2 DEF HoldersOf
  <2> QED BY <2>3 DEF Takes, Grants, Readable, Writable, Modes
<1>5. Exclusive' BY <1>1, <1>3, <1>4 DEF Exclusive, LockInv
<1> QED BY <1>1, <1>2, <1>5 DEF LockInv

\* What a method does keeps the locks as they must be: who holds one goes on to a
\* step at which that is right.
LEMMA LockStep ==
  ASSUME PoolInv, NEW w \in Workers, Effect(w)
  PROVE  LockInv'
<1> DEFINE Lawful(v) == /\ holds'[v] # {} => call'[v].at \in Holding
                        /\ \A h \in holds'[v] : h.until = "removed" => call'[v].at = "remove"
                           /\ h.lock = "schedules"
<1>1. w \in Workers \union {VDR} /\ w # VDR BY MethodPoolAssumption
<1>2. ASSUME NEW v \in Workers \ {w} PROVE call'[v] = call[v] BY DEF Effect, Passes
<1>0. call[w].at \in Holding => call'[w].at \in Holding
  BY OnWay DEF Effect, OnTheWay, Holding, PoolInv
<1>3. CASE call[w].at # "remove" /\ call'[w].at # "remove"
             /\ (holds' = holds
                \/ (call'[w].at \in Holding /\ \E l \in Locks, mode \in Modes : Takes(w, l, mode, "left")))
  <2>1. CASE holds' = holds
    <3>1. \A v \in Workers : Lawful(v) BY <1>0, <1>2, <1>3, <2>1 DEF PoolInv, LockInv, Effect
    <3> QED BY <2>1, <3>1 DEF PoolInv, LockInv, Exclusive
  <2>2. CASE call'[w].at \in Holding /\ \E l \in Locks, mode \in Modes : Takes(w, l, mode, "left")
    <3>1. PICK l \in Locks, mode \in Modes : Takes(w, l, mode, "left") BY <2>2
    <3>2. Exclusive' /\ holds' \in [Workers \union {VDR} -> SUBSET Keys]
      BY <1>1, <3>1, ExclusiveStep DEF PoolInv
    <3>3. holds'[w] = holds[w] \union {[lock |-> l, mode |-> mode, until |-> "left"]}
            /\ \A v \in Workers \ {w} : holds'[v] = holds[v]
      BY <1>1, <3>1 DEF Takes, PoolInv, LockInv
    <3>4. Lawful(w) BY <1>3, <2>2, <3>3 DEF PoolInv, LockInv, Effect
    <3>5. \A v \in Workers \ {w} : Lawful(v) BY <1>2, <3>3 DEF PoolInv, LockInv
    <3> QED BY <3>2, <3>4, <3>5 DEF LockInv
  <2> QED BY <1>3, <2>1, <2>2
<1>4. CASE call[w].at # "remove" /\ call'[w].at = "remove"
             /\ \E mode \in Modes : Takes(w, "schedules", mode, "removed")
  <2>1. PICK mode \in Modes : Takes(w, "schedules", mode, "removed") BY <1>4
  <2>2. Exclusive' /\ holds' \in [Workers \union {VDR} -> SUBSET Keys]
    BY <1>1, <2>1, ExclusiveStep DEF PoolInv, Locks
  <2>3. holds'[w] = holds[w] \union {[lock |-> "schedules", mode |-> mode, until |-> "removed"]}
          /\ \A v \in Workers \ {w} : holds'[v] = holds[v]
    BY <1>1, <2>1 DEF Takes, PoolInv, LockInv
  <2>4. Lawful(w) BY <1>4, <2>3 DEF PoolInv, LockInv, Holding
  <2>5. \A v \in Workers \ {w} : Lawful(v) BY <1>2, <2>3 DEF PoolInv, LockInv
  <2> QED BY <2>2, <2>4, <2>5 DEF LockInv
<1>5. CASE call[w].at = "remove" /\ call'[w].at = "replied" /\ holds' = Removed(w, "schedules")
  <2>1. holds'[w] = {h \in holds[w] : h.lock # "schedules"}
          /\ (\A v \in Workers \ {w} : holds'[v] = holds[v]) /\ holds'[VDR] = holds[VDR]
    BY <1>1, <1>5 DEF Removed, PoolInv, LockInv
  <2>2. holds' \in [Workers \union {VDR} -> SUBSET Keys] BY <1>1, <1>5 DEF Removed, PoolInv, LockInv
  <2>3. Exclusive' BY <1>1, <2>1 DEF PoolInv, LockInv, Exclusive
  <2>4. Lawful(w) BY <1>5, <2>1 DEF PoolInv, LockInv, Holding
  <2>5. \A v \in Workers \ {w} : Lawful(v) BY <1>2, <2>1 DEF PoolInv, LockInv
  <2> QED BY <2>2, <2>3, <2>4, <2>5 DEF LockInv
<1> QED BY <1>3, <1>4, <1>5 DEF Effect

\* At first there is no call, and no lock is held.
LEMMA PoolInitially == ASSUME Init PROVE PoolInv
<1>1. offered \in Offers /\ calls = 0 /\ call = [w \in Workers |-> NoCall]
        /\ holds = [a \in Workers \union {VDR} |-> {}]
  BY DEF Init, PoolInit
<1>2. CallInv BY <1>1, MethodPoolAssumption DEF CallInv, NoCall, Fields, OnTheWay
<1>3. LockInv BY <1>1 DEF LockInv, Exclusive
<1> QED BY <1>2, <1>3 DEF PoolInv

\* A call that the pool starts has a method and arguments that were offered, and
\* no lock.
LEMMA CalledPool ==
  ASSUME PoolInv, NEW w \in Workers, Called(w)
  PROVE  PoolInv'
<1>1. PICK c \in Possible : handle_method_call(w, c.method, c.arg) BY DEF Called, Possible
<1>2. c.method # "none" BY NoneKnown
<1>3. call'[w].method = c.method /\ call'[w].arg = c.arg /\ call'[w].at = "queued" /\ DOMAIN call'[w] = Fields
  BY <1>1 DEF handle_method_call, PoolInv, CallInv, NoCall, Fields
<1>4. DOMAIN call' = Workers /\ \A v \in Workers \ {w} : call'[v] = call[v]
  BY <1>1 DEF handle_method_call, PoolInv, CallInv
<1>5. calls' \in 0..offered.calls /\ offered' = offered /\ holds' = holds /\ call[w].at = "idle"
  BY <1>1, MethodPoolAssumption DEF handle_method_call, PoolInv, CallInv
<1>6. CallInv' BY <1>2, <1>3, <1>4, <1>5 DEF PoolInv, CallInv, OnTheWay
<1>7. holds[w] = {} BY <1>5 DEF PoolInv, LockInv, Holding
<1>8. LockInv' BY <1>4, <1>5, <1>7 DEF PoolInv, LockInv, Exclusive
<1> QED BY <1>6, <1>8 DEF PoolInv

\* When a method is left, its thread holds no lock any more.
LEMMA LeavesPool ==
  ASSUME PoolInv, NEW w \in Workers, Leaves(w)
  PROVE  PoolInv'
<1>1. call' = [call EXCEPT ![w] = NoCall] /\ offered' = offered /\ calls' = calls /\ At(w, "replied")
  BY DEF Leaves, Left, Same
<1>2. CallInv' BY <1>1 DEF PoolInv, CallInv, NoCall, Fields, OnTheWay
<1>3. w # VDR /\ holds'[w] = {h \in holds[w] : h.until = "removed"}
        /\ (\A v \in Workers \ {w} : holds'[v] = holds[v]) /\ holds'[VDR] = holds[VDR]
  BY MethodPoolAssumption DEF Leaves, Left, PoolInv, LockInv
<1>4. holds' \in [Workers \union {VDR} -> SUBSET Keys] BY DEF Leaves, Left, PoolInv, LockInv
<1>5. Exclusive' BY <1>3 DEF PoolInv, LockInv, Exclusive
<1>6. holds'[w] = {} BY <1>1, <1>3 DEF PoolInv, LockInv, At
<1>7. \A v \in Workers \ {w} : call'[v] = call[v] BY <1>1 DEF PoolInv, CallInv
<1> QED BY <1>2, <1>3, <1>4, <1>5, <1>6, <1>7 DEF PoolInv, LockInv

\* VDR itself changes no call, and no lock but its own.
LEMMA BesidesKeeps ==
  ASSUME Besides
  PROVE  /\ call' = call /\ offered' = offered /\ calls' = calls /\ wrote' = wrote
         /\ (\E l \in Locks : VdrLocks(l)) \/ VdrUnlocks \/ holds' = holds
BY DEF Besides, VdrLocks, VdrUnlocks, Same, RemoteVdr, VdrOpensMenu, Selects, Closes, poolVars, VdrSets, VdrRecords, VdrScans,
   VdrReplays, Replaying, VdrTells, StatusMade, StatusDeleted, VdrScansAgain, MainThreadHook,
   VdrTakesDevice, VdrShowsMessage

\* What VDR does keeps the invariant of the pool.
LEMMA BesidesPool ==
  ASSUME PoolInv, Besides
  PROVE  PoolInv'
<1>1. call' = call /\ offered' = offered /\ calls' = calls BY BesidesKeeps
<1>2. CallInv' BY <1>1 DEF PoolInv, CallInv
<1>3. CASE holds' = holds BY <1>1, <1>2, <1>3 DEF PoolInv, LockInv, Exclusive
<1>4. CASE VdrUnlocks
  <2>1. holds' = [holds EXCEPT ![VDR] = {}] BY <1>4 DEF VdrUnlocks
  <2>2. holds' \in [Workers \union {VDR} -> SUBSET Keys] BY <2>1 DEF PoolInv, LockInv
  <2>3. \A a \in Workers \union {VDR} : holds'[a] \subseteq holds[a] BY <2>1 DEF PoolInv, LockInv
  <2>4. \A v \in Workers : holds'[v] = holds[v] BY <2>1, MethodPoolAssumption DEF PoolInv, LockInv
  <2> QED BY <1>1, <1>2, <2>2, <2>3, <2>4 DEF PoolInv, LockInv, Exclusive
<1>5. ASSUME NEW l \in Locks, VdrLocks(l) PROVE PoolInv'
  <2>1. Takes(VDR, l, "write", "left") BY <1>5, LockedTakes DEF VdrLocks, Modes
  <2>2. Exclusive' /\ holds' \in [Workers \union {VDR} -> SUBSET Keys]
    BY <2>1, ExclusiveStep DEF PoolInv, Modes
  <2>3. \A v \in Workers : holds'[v] = holds[v] BY <2>1, MethodPoolAssumption DEF Takes, PoolInv, LockInv
  <2> QED BY <1>1, <1>2, <2>2, <2>3 DEF PoolInv, LockInv
<1> QED BY BesidesKeeps, <1>3, <1>4, <1>5

\* Every step does.
LEMMA PoolNext ==
  ASSUME PoolInv, [Next]_vars
  PROVE  PoolInv'
<1>1. ASSUME NEW w \in Workers, Method(w) PROVE PoolInv'
  BY <1>1, MethodEffect, CallStep, LockStep DEF PoolInv
<1>2. CASE UNCHANGED vars
  BY <1>2 DEF PoolInv, CallInv, LockInv, Exclusive, vars, poolVars
<1> QED BY <1>1, <1>2, CalledPool, LeavesPool, BesidesPool DEF Next

\* It always holds.
LEMMA PoolAlways == Spec => []PoolInv
BY PoolInitially, PoolNext, PTL DEF Spec

\* THE LOCKS: a thread that holds one of VDR's locks is in the middle of a call,
\* and never at a step that waits for another lock, so that no two calls can wait
\* for each other - the code tries for the schedules for a second and gives up
\* (epg.c), and locks everything else one at a time.
THEOREM HoldersDoNotWait ==
  Spec => [](\A w \in Workers : holds[w] # {} => call[w].at \notin {"idle"} \union Blocking)
<1>1. PoolInv => \A w \in Workers : holds[w] # {} => call[w].at \notin {"idle"} \union Blocking
  BY DEF PoolInv, LockInv, Holding, Blocking
<1> QED BY PoolAlways, <1>1, PTL

-----------------------------------------------------------------------------
(***************************************************************************)
(* Whose method it is. An interface's functions serve its own methods      *)
(* only, and change nothing that belongs to another.                       *)
(***************************************************************************)

\* The functions of the channels run for their methods.
LEMMA ChannelsOwn == ASSUME CallInv, NEW w \in Workers, ChannelsMethod(w) PROVE call[w].method \in ChannelsMethods
<1>1. CASE Count(w) BY <1>1, OnWay DEF Count, Reads, Runs, At, OnTheWay, ChannelsMethods
<1>2. CASE Current(w) BY <1>2, OnWay DEF Current, Reads, Runs, At, OnTheWay, ChannelsMethods
<1>3. CASE GetFromTo(w) BY <1>3, OnWay DEF GetFromTo, Reads, Runs, At, OnTheWay, ChannelsMethods
<1>4. CASE ChannelsList(w) BY <1>4, OnWay DEF ChannelsList, Reads, Runs, At, OnTheWay, ChannelsMethods
<1> QED BY <1>1, <1>2, <1>3, <1>4 DEF ChannelsMethod

\* The functions of the remote control run for its methods.
LEMMA RemoteOwn == ASSUME CallInv, NEW w \in Workers, RemoteMethod(w) PROVE call[w].method \in RemoteMethods
<1>1. CASE CallPlugin(w) BY <1>1, OnWay DEF CallPlugin, Runs, At, OnTheWay, RemoteMethods
<1>2. CASE SetEnabled(w) BY <1>2, OnWay DEF SetEnabled, Runs, At, OnTheWay, RemoteMethods
<1>3. CASE RemoteStatus(w) BY <1>3, OnWay DEF RemoteStatus, Runs, At, OnTheWay, RemoteMethods
<1>4. CASE HitKey(w) BY <1>4, OnWay DEF HitKey, Runs, At, OnTheWay, RemoteMethods
<1>5. CASE HitKeys(w) BY <1>5, OnWay DEF HitKeys, Runs, At, OnTheWay, RemoteMethods
<1>6. CASE AskTest(w) BY <1>6, OnWay DEF AskTest, Runs, At, OnTheWay, RemoteMethods
<1>7. CASE AskOpen(w) BY <1>7, OnWay DEF AskOpen, Runs, At, OnTheWay, RemoteMethods
<1>8. CASE AskCall(w) BY <1>8, OnWay DEF AskCall, Runs, At, OnTheWay, RemoteMethods
<1>9. CASE SwitchLocks(w) BY <1>9, OnWay DEF SwitchLocks, Runs, At, OnTheWay, RemoteMethods
<1>10. CASE Zap(w) BY <1>10, OnWay DEF Zap, Runs, At, OnTheWay, RemoteMethods
<1>11. CASE GetVolume(w) BY <1>11, OnWay DEF GetVolume, Runs, At, OnTheWay, RemoteMethods
<1>12. CASE SetVolume(w) BY <1>12, OnWay DEF SetVolume, Runs, At, OnTheWay, RemoteMethods
<1> QED BY <1>1, <1>2, <1>3, <1>4, <1>5, <1>6, <1>7, <1>8, <1>9, <1>10, <1>11, <1>12 DEF RemoteMethod

\* The functions of the setup run for its methods.
LEMMA SetupOwn == ASSUME CallInv, NEW w \in Workers, SetupMethod(w) PROVE call[w].method \in SetupMethods
<1>1. CASE SetBound(w) BY <1>1, OnWay DEF SetBound, Runs, At, OnTheWay, SetupMethods
<1>2. CASE SaveBound(w) BY <1>2, OnWay DEF SaveBound, Runs, At, OnTheWay, SetupMethods
<1>3. CASE SetPluginOrNew(w) BY <1>3, OnWay DEF SetPluginOrNew, Runs, At, OnTheWay, SetupMethods
<1>4. CASE ReplaceSaves(w) BY <1>4, OnWay DEF ReplaceSaves, Runs, At, OnTheWay, SetupMethods
<1>5. CASE ReplaceLoads(w) BY <1>5, OnWay DEF ReplaceLoads, Runs, At, OnTheWay, SetupMethods
<1>6. CASE ReplaceStores(w) BY <1>6, OnWay DEF ReplaceStores, Runs, At, OnTheWay, SetupMethods
<1>7. CASE ReplaceReloads(w) BY <1>7, OnWay DEF ReplaceReloads, Runs, At, OnTheWay, SetupMethods
<1>8. CASE Del(w) BY <1>8, OnWay DEF Del, Runs, At, OnTheWay, SetupMethods
<1>9. CASE Get(w) BY <1>9, OnWay DEF Get, Runs, At, OnTheWay, SetupMethods
<1>10. CASE List(w) BY <1>10, OnWay DEF List, Runs, At, OnTheWay, SetupMethods
<1> QED BY <1>1, <1>2, <1>3, <1>4, <1>5, <1>6, <1>7, <1>8, <1>9, <1>10 DEF SetupMethod

\* The functions of the timers run for their methods.
LEMMA TimersOwn == ASSUME CallInv, NEW w \in Workers, TimersMethod(w) PROVE call[w].method \in TimersMethods
<1>1. CASE TimersParse(w) BY <1>1, OnWay DEF TimersParse, Runs, At, OnTheWay, TimersMethods
<1>2. CASE TimersNew(w) BY <1>2, OnWay DEF TimersNew, Runs, At, OnTheWay, TimersMethods
<1>3. CASE TimersDelete(w) BY <1>3, OnWay DEF TimersDelete, Runs, At, OnTheWay, TimersMethods
<1>4. CASE TimersList(w) BY <1>4, OnWay DEF TimersList, Runs, At, OnTheWay, TimersMethods
<1>5. CASE TimersNext(w) BY <1>5, OnWay DEF TimersNext, Runs, At, OnTheWay, TimersMethods
<1> QED BY <1>1, <1>2, <1>3, <1>4, <1>5 DEF TimersMethod

\* The functions of the recordings run for their methods.
LEMMA RecordingsOwn == ASSUME CallInv, NEW w \in Workers, RecordingsMethod(w) PROVE call[w].method \in RecordingsMethods
<1>1. CASE RecordingsGet(w) BY <1>1, OnWay DEF RecordingsGet, Runs, At, OnTheWay, RecordingsMethods
<1>2. CASE RecordingsListed(w) BY <1>2, OnWay DEF RecordingsListed, Runs, At, OnTheWay, RecordingsMethods
<1>3. CASE Update(w) BY <1>3, OnWay DEF Update, Runs, At, OnTheWay, RecordingsMethods
<1>4. CASE ChangeName(w) BY <1>4, OnWay DEF ChangeName, Runs, At, OnTheWay, RecordingsMethods
<1>5. CASE PlayFind(w) BY <1>5, OnWay DEF PlayFind, Runs, At, OnTheWay, RecordingsMethods
<1>6. CASE PlayStop(w) BY <1>6, OnWay DEF PlayStop, Runs, At, OnTheWay, RecordingsMethods
<1>7. CASE PlayChoose(w) BY <1>7, OnWay DEF PlayChoose, Runs, At, OnTheWay, RecordingsMethods
<1>8. CASE PlayLaunch(w) BY <1>8, OnWay DEF PlayLaunch, Runs, At, OnTheWay, RecordingsMethods
<1>9. CASE Extra(w) BY <1>9, OnWay DEF Extra, Runs, At, OnTheWay, RecordingsMethods
<1> QED BY <1>1, <1>2, <1>3, <1>4, <1>5, <1>6, <1>7, <1>8, <1>9 DEF RecordingsMethod

\* The functions of the EPG run for its methods.
LEMMA EpgOwn == ASSUME CallInv, NEW w \in Workers, EpgMethod(w) PROVE call[w].method \in EpgMethods
<1>1. CASE DisableScanner(w) BY <1>1, OnWay DEF DisableScanner, Runs, At, OnTheWay, EpgMethods
<1>2. CASE EnableScanner(w) BY <1>2, OnWay DEF EnableScanner, Runs, At, OnTheWay, EpgMethods
<1>3. CASE ClearFind(w) BY <1>3, OnWay DEF ClearFind, Runs, At, OnTheWay, EpgMethods
<1>4. CASE ClearEPG(w) BY <1>4, OnWay DEF ClearEPG, Runs, At, OnTheWay, EpgMethods
<1>5. CASE RemoveKey(w) BY <1>5, OnWay DEF RemoveKey, Runs, At, OnTheWay, EpgMethods
<1>6. CASE PutEntry(w) BY <1>6, OnWay DEF PutEntry, Runs, At, OnTheWay, EpgMethods
<1>7. CASE PutFile(w) BY <1>7, OnWay DEF PutFile, Runs, At, OnTheWay, EpgMethods
<1>8. CASE ReadEntries(w) BY <1>8, OnWay DEF ReadEntries, Runs, At, OnTheWay, EpgMethods
<1>11. CASE ReadFile(w) BY <1>11, OnWay DEF ReadFile, At, OnTheWay, EpgMethods
<1>9. CASE EntriesFind(w) BY <1>9, OnWay DEF EntriesFind, Runs, At, OnTheWay, EpgMethods
<1>10. CASE Entries(w) BY <1>10, OnWay DEF Entries, Runs, At, OnTheWay, EpgMethods
<1> QED BY <1>1, <1>2, <1>3, <1>4, <1>5, <1>6, <1>7, <1>8, <1>9, <1>10, <1>11 DEF EpgMethod

\* The functions of the skins, the plugins and the devices run for their methods.
LEMMA DeskOwn == ASSUME CallInv, NEW w \in Workers, DeskMethod(w) PROVE call[w].method \in DeskMethods
<1>1. CASE SetSkin(w) BY <1>1, OnWay DEF SetSkin, Sees, Runs, At, OnTheWay, DeskMethods
<1>2. CASE QueueMessage(w) BY <1>2, OnWay DEF QueueMessage, Sees, Runs, At, OnTheWay, DeskMethods
<1>3. CASE SVDRPCommand(w) BY <1>3, OnWay DEF SVDRPCommand, Sees, Runs, At, OnTheWay, DeskMethods
<1>4. CASE Service(w) BY <1>4, OnWay DEF Service, Sees, Runs, At, OnTheWay, DeskMethods
<1>5. CASE RequestPrimary(w) BY <1>5, OnWay DEF RequestPrimary, Sees, Runs, At, OnTheWay, DeskMethods
<1>6. CASE LooksAtSkins(w) BY <1>6, OnWay DEF LooksAtSkins, Sees, Runs, At, OnTheWay, DeskMethods
<1>7. CASE LooksAtPlugins(w) BY <1>7, OnWay DEF LooksAtPlugins, Sees, Runs, At, OnTheWay, DeskMethods
<1>8. CASE LooksAtDevices(w) BY <1>8, OnWay DEF LooksAtDevices, Sees, Runs, At, OnTheWay, DeskMethods
<1> QED BY <1>1, <1>2, <1>3, <1>4, <1>5, <1>6, <1>7, <1>8 DEF DeskMethod

\* Only the method that nobody has is answered as not implemented.
LEMMA UnknownOwn ==
  ASSUME CallInv, NEW w \in Workers, NotImplemented(w, Implemented)
  PROVE  call[w].method = "Unknown.Method"
BY DEF NotImplemented, Implemented, CallInv, Possible, UnknownCall, At

\* What ReplayTold looks at.
toldVars == <<control, telling, replay, emitted>>

\* Asking for it changes nothing of it.
LEMMA ReplayingOwn ==
  ASSUME NEW w \in Workers, IsReplaying(w)
  PROVE  UNCHANGED toldVars /\ call[w].method = "Status.IsReplaying"
BY DEF IsReplaying, Runs, toldVars

\* A step of a method is one of an interface, or leaves that interface alone.
LEMMA MethodsApart ==
  ASSUME CallInv, NEW w \in Workers, Method(w)
  PROVE  /\ RemoteMethod(w) \/ (call[w].method \notin RemoteMethods /\ UNCHANGED remoteVars)
         /\ SetupMethod(w) \/ (call[w].method \notin SetupMethods /\ UNCHANGED setupVars)
         /\ TimersMethod(w) \/ (call[w].method \notin TimersMethods /\ UNCHANGED timersVars)
         /\ RecordingsMethod(w)
            \/ (call[w].method \notin RecordingsMethods /\ UNCHANGED recordingsVars /\ UNCHANGED toldVars)
         /\ EpgMethod(w) \/ (call[w].method \notin EpgMethods /\ UNCHANGED epgVars)
         /\ DeskMethod(w) \/ (call[w].method \notin DeskMethods /\ UNCHANGED deskVars)
         /\ RemoteMethod(w) \/ UNCHANGED current
<1> USE DEF ChannelsMethods, RemoteMethods, SetupMethods, TimersMethods, RecordingsMethods, EpgMethods,
    DeskMethods, Elsewhere, statusVars, toldVars
<1>1. CASE ChannelsMethod(w) /\ Elsewhere({"channels"})
  <2>1. UNCHANGED current BY <1>1 DEF ChannelsMethod, Count, Current, GetFromTo, ChannelsList, Reads
  <2> QED BY <2>1, <1>1, ChannelsOwn
<1>2. CASE RemoteMethod(w) /\ Elsewhere({"remote", "channels"})
  BY <1>2, RemoteOwn
<1>3. CASE SetupMethod(w) /\ Elsewhere({"setup"})
  BY <1>3, SetupOwn
<1>4. CASE TimersMethod(w) /\ Elsewhere({"timers"})
  BY <1>4, TimersOwn
<1>5. CASE RecordingsMethod(w) /\ Elsewhere({"recordings", "status"})
  BY <1>5, RecordingsOwn
<1>6. CASE IsReplaying(w) /\ Elsewhere({"status"})
  BY <1>6, ReplayingOwn
<1>7. CASE EpgMethod(w) /\ Elsewhere({"epg", "channels"})
  <2>1. UNCHANGED current
    BY <1>7
    DEF EpgMethod, DisableScanner, EnableScanner, ClearFind, ClearEPG, RemoveKey, PutEntry, PutFile,
        ReadEntries, ReadFile, EntriesTaken, EntriesFind, Entries
  <2> QED BY <2>1, <1>7, EpgOwn
<1>8. CASE DeskMethod(w) /\ Elsewhere({"desk", "status"})
  <2>1. UNCHANGED statusVars
    BY ZenonT(30), <1>8
    DEF DeskMethod, Aside, Sees, SetSkin, QueueMessage, SVDRPCommand, Service, RequestPrimary, LooksAtSkins,
        LooksAtPlugins, LooksAtDevices
  <2> QED BY <2>1, <1>8, DeskOwn
<1>9. CASE NotImplemented(w, Implemented) /\ Elsewhere({})
  BY <1>9, UnknownOwn
<1> QED BY <1>1, <1>2, <1>3, <1>4, <1>5, <1>6, <1>7, <1>8, <1>9 DEF Method

-----------------------------------------------------------------------------
(***************************************************************************)
(* The questions of AskUser (remote.c). A call tests whether a question is *)
(* open, opens its menu and has VDR call the plugin, in three steps; two   *)
(* calls in the middle of that may overwrite each other's menu, which      *)
(* raced notes.                                                            *)
(***************************************************************************)

\* w has opened its menu and not yet called the plugin.
Asking(w) == At(w, "asking")

\* Calls that may still open a menu: each makes at most one question.
ToAsk == {w \in Workers : call[w].at \in {"queued", "ask"}}

\* Types; and no more questions are asked than calls are made.
QuestionTypes ==
  /\ asked \in Nat /\ menu \in 0..asked /\ shown \in 0..asked /\ raced \in {0, 1}
  /\ accepted \subseteq 1..asked
  /\ answers \in [1..offered.calls -> Seq(Int)]
  /\ asked + Cardinality(ToAsk) <= calls
  /\ \A w \in Workers : Asking(w) => call[w].value \in 1..asked

\* A question is answered at most once, and not while its menu is open.
AnsweredOnce ==
  \A q \in 1..offered.calls : Len(answers[q]) <= 1 /\ (q > asked \/ q = menu => answers[q] = <<>>)

\* As long as no two calls raced, there is one question at a time: whoever asks
\* has its own menu open, and a question that was accepted and not answered is
\* the one whose menu is open, shown or about to be.
OneOpen ==
  raced = 0 =>
    /\ shown \in {0, menu}
    /\ \A w \in Workers : At(w, "ask") => menu = 0
    /\ \A w \in Workers : Asking(w) =>
         /\ menu \in {0, call[w].value} /\ call[w].value \notin accepted
         /\ answers[call[w].value] = <<>> => menu = call[w].value
         /\ \A v \in Workers : Asking(v) => v = w
    /\ \A q \in accepted : answers[q] = <<>> => menu = q /\ (shown = q \/ pluginCall = "dbus2vdr")

\* The invariant of the questions.
QuestionInv == QuestionTypes /\ AnsweredOnce /\ OneOpen

\* The calls that may ask can be counted.
LEMMA ToAskFinite == CallInv => IsFiniteSet(ToAsk) /\ Cardinality(ToAsk) \in Nat
BY MethodPoolAssumption, FS_Subset, FS_CardinalityType DEF ToAsk

\* A step that leaves the questions alone, and lets no further call ask.
Quiet ==
  /\ UNCHANGED questions /\ (pluginCall' = pluginCall \/ pluginCall = "none")
  /\ offered' = offered /\ calls \in Int /\ calls' \in Int /\ calls <= calls'
  /\ Cardinality(ToAsk) \in Nat /\ Cardinality(ToAsk)' \in Nat
  /\ Cardinality(ToAsk)' + calls <= Cardinality(ToAsk) + calls'
  /\ \A v \in Workers : call'[v].at \in {"ask", "asking"} => call'[v] = call[v]

\* Such a step keeps the invariant.
LEMMA QuietKeeps == ASSUME QuestionInv, Quiet PROVE QuestionInv'
<1>1. /\ menu' = menu /\ shown' = shown /\ asked' = asked /\ accepted' = accepted /\ answers' = answers
         /\ raced' = raced
      /\ offered' = offered
  BY DEF Quiet, questions
<1>2. \A w \in Workers : (At(w, "ask")' => At(w, "ask")) /\ (Asking(w)' => Asking(w) /\ call'[w] = call[w])
  BY DEF Quiet, At, Asking
<1>3. asked' + Cardinality(ToAsk)' <= calls' BY <1>1 DEF Quiet, QuestionInv, QuestionTypes
<1>4. QuestionTypes' BY <1>1, <1>2, <1>3 DEF QuestionInv, QuestionTypes
<1>5. AnsweredOnce' BY <1>1 DEF QuestionInv, AnsweredOnce
<1>6. ASSUME raced = 0 PROVE \A q \in accepted' : answers'[q] = <<>> => menu' = q
               /\ (shown' = q \/ pluginCall' = "dbus2vdr")
  BY <1>1, <1>6 DEF QuestionInv, OneOpen, Quiet
<1>7. OneOpen' BY <1>1, <1>2, <1>6 DEF QuestionInv, OneOpen
<1> QED BY <1>4, <1>5, <1>7 DEF QuestionInv

\* A step of a call that asks nothing is such a step.
LEMMA OtherQuiet ==
  ASSUME PoolInv, NEW w \in Workers, Effect(w), call'[w].at # "ask", call'[w].at # "asking",
         UNCHANGED questions, pluginCall' = pluginCall \/ pluginCall = "none"
  PROVE  Quiet
<1>1. ToAsk' \subseteq ToAsk BY DEF ToAsk, Effect, Passes
<1>2. Cardinality(ToAsk)' <= Cardinality(ToAsk) /\ Cardinality(ToAsk) \in Nat /\ Cardinality(ToAsk)' \in Nat
  BY <1>1, ToAskFinite, FS_Subset, FS_CardinalityType DEF PoolInv
<1>3. calls \in Int /\ calls' = calls /\ offered' = offered
  BY MethodPoolAssumption DEF Effect, Passes, PoolInv, CallInv
<1>4. \A v \in Workers : call'[v].at \in {"ask", "asking"} => call'[v] = call[v] BY DEF Effect, Passes
<1> QED BY <1>2, <1>3, <1>4 DEF Quiet

\* The test: a call that finds no menu open is about to ask.
LEMMA AskTestKeeps ==
  ASSUME PoolInv, QuestionInv, NEW w \in Workers, Effect(w), AskTest(w)
  PROVE  QuestionInv'
<1>0. UNCHANGED remoteVars /\ Runs(w, "Remote.AskUser") BY DEF AskTest
<1>1. CASE call'[w].at # "ask" /\ call'[w].at # "asking"
  BY <1>0, <1>1, OtherQuiet, QuietKeeps DEF remoteVars, vdrRemote, questions
<1>2. CASE Go(w, "ask") /\ menu = 0
  <2>1. Passes(w) /\ call'[w].at = "ask" BY <1>2, GoPasses DEF PoolInv
  <2>2. ToAsk' = ToAsk BY <1>0, <2>1 DEF ToAsk, Passes, Runs
  <2>3. /\ menu' = menu /\ shown' = shown /\ asked' = asked /\ accepted' = accepted /\ answers' = answers
           /\ raced' = raced
        /\ pluginCall' = pluginCall /\ calls' = calls /\ offered' = offered
    BY <1>0, <2>1 DEF remoteVars, vdrRemote, questions, Passes
  <2>4. \A v \in Workers : (At(v, "ask")' => At(v, "ask") \/ v = w)
          /\ (Asking(v)' => Asking(v) /\ call'[v] = call[v])
    BY <2>1 DEF Passes, At, Asking
  <2>5. QuestionTypes' BY <2>2, <2>3, <2>4 DEF QuestionInv, QuestionTypes
  <2>6. AnsweredOnce' BY <2>3 DEF QuestionInv, AnsweredOnce
  <2>7. OneOpen' BY <1>2, <2>3, <2>4 DEF QuestionInv, OneOpen
  <2> QED BY <2>5, <2>6, <2>7 DEF QuestionInv
<1>3. (call'[w].at = "replied") \/ (Go(w, "ask") /\ menu = 0)
  BY ReplyPasses DEF AskTest, AnotherOpen, PoolInv
<1> QED BY <1>1, <1>2, <1>3

\* The menu: a new question has no answer, and if another call asks as well, they
\* race.
LEMMA AskOpenKeeps ==
  ASSUME PoolInv, QuestionInv, NEW w \in Workers, Effect(w), AskOpen(w)
  PROVE  QuestionInv'
<1> DEFINE q == asked + 1
<1>1. /\ At(w, "ask") /\ asked' = q /\ menu' = q /\ shown' = shown /\ accepted' = accepted /\ answers' = answers
      /\ pluginCall' = pluginCall
         /\ raced' = IF \E v \in Workers \ {w} : call[v].at \in {"ask", "asking"} THEN 1 ELSE raced
  BY DEF AskOpen, vdrRemote
<1>2. /\ call'[w].at = "asking" /\ call'[w].value = q /\ (\A v \in Workers \ {w} : call'[v] = call[v])
         /\ calls' = calls /\ offered' = offered
  BY DEF AskOpen, Same, PoolInv, CallInv, Fields
<1>3. ToAsk' = ToAsk \ {w} /\ w \in ToAsk BY <1>1, <1>2 DEF ToAsk, At
<1>4. Cardinality(ToAsk)' = Cardinality(ToAsk) - 1 /\ Cardinality(ToAsk) \in Nat /\ Cardinality(ToAsk)' \in Nat
  BY <1>3, ToAskFinite, FS_RemoveElement, FS_CardinalityType DEF PoolInv
<1>5. asked \in Nat /\ q \in Nat /\ q + Cardinality(ToAsk)' <= calls /\ calls \in 0..offered.calls
        /\ offered.calls \in Nat
  BY <1>4, MethodPoolAssumption DEF QuestionInv, QuestionTypes, PoolInv, CallInv
<1>6. q \in 1..offered.calls BY <1>4, <1>5
<1>7. answers[q] = <<>> /\ q \notin accepted
  BY <1>5, <1>6 DEF QuestionInv, QuestionTypes, AnsweredOnce
<1>8. QuestionTypes'
  <2>1. menu' \in 0..asked' /\ shown' \in 0..asked' /\ accepted' \subseteq 1..asked' /\ raced' \in {0, 1}
    BY <1>1, <1>5 DEF QuestionInv, QuestionTypes
  <2>2. \A v \in Workers : Asking(v)' => call'[v].value \in 1..asked'
    BY <1>1, <1>2, <1>5 DEF QuestionInv, QuestionTypes, Asking, At
  <2> QED BY <1>1, <1>2, <1>5, <2>1, <2>2 DEF QuestionInv, QuestionTypes
<1>9. AnsweredOnce'
  BY <1>1, <1>2, <1>5, <1>7 DEF QuestionInv, AnsweredOnce
<1>10. ASSUME raced' = 0 PROVE OneOpen'
  <2>1. raced = 0 /\ \A v \in Workers \ {w} : call[v].at \notin {"ask", "asking"} BY <1>1, <1>10
  <2>2. menu = 0 /\ shown = 0 BY <1>1, <2>1 DEF QuestionInv, OneOpen
  <2>3. \A v \in Workers : ~At(v, "ask")' /\ (Asking(v)' => v = w) BY <1>2, <2>1 DEF At, Asking
  <2>4. \A p \in accepted : answers[p] # <<>> /\ p # 0
    BY <2>1, <2>2, <1>5 DEF QuestionInv, OneOpen, QuestionTypes
  <2> QED BY <1>1, <1>2, <1>7, <2>2, <2>3, <2>4 DEF OneOpen
<1> QED BY <1>8, <1>9, <1>10 DEF QuestionInv, OneOpen

\* The plugin is called: the question is accepted, or its menu is deleted.
LEMMA AskCallKeeps ==
  ASSUME PoolInv, QuestionInv, NEW w \in Workers, Effect(w), AskCall(w)
  PROVE  QuestionInv'
<1> DEFINE q == call[w].value
<1>1. Asking(w) /\ shown' = shown /\ asked' = asked /\ answers' = answers BY DEF AskCall, Asking
<1>2. \/ pluginCall = "none" /\ pluginCall' = "dbus2vdr" /\ accepted' = accepted \union {q} /\ menu' = menu
         /\ raced' = raced
      \/ pluginCall # "none" /\ menu' = 0 /\ pluginCall' = pluginCall /\ accepted' = accepted
         /\ raced' = IF shown = q THEN 1 ELSE raced
  BY DEF AskCall
<1>3. call'[w].at = "replied" BY ReplyPasses DEF AskCall, PoolInv
<1>4. (\A v \in Workers \ {w} : call'[v] = call[v]) /\ calls' = calls /\ offered' = offered
  BY DEF Effect, Passes
<1>5. ToAsk' = ToAsk BY <1>1, <1>3, <1>4 DEF ToAsk, Asking, At
<1>6. \A v \in Workers : (At(v, "ask")' => At(v, "ask"))
        /\ (Asking(v)' => Asking(v) /\ call'[v] = call[v] /\ v # w)
  BY <1>3, <1>4 DEF At, Asking
<1>7. asked \in Nat /\ q \in 1..asked /\ menu' \in 0..asked /\ raced' \in {0, 1}
  BY <1>1, <1>2 DEF QuestionInv, QuestionTypes
<1>8. QuestionTypes' BY <1>1, <1>2, <1>4, <1>5, <1>6, <1>7 DEF QuestionInv, QuestionTypes
<1>9. AnsweredOnce'
  <2>1. ASSUME NEW p \in 1..offered.calls, p > asked \/ p = menu' PROVE answers[p] = <<>>
    BY <1>2, <2>1, <1>7 DEF QuestionInv, AnsweredOnce
  <2> QED BY <1>1, <1>4, <2>1 DEF QuestionInv, AnsweredOnce
<1>10. ASSUME raced' = 0 PROVE OneOpen'
  <2>1. raced = 0 BY <1>2, <1>10
  <2>2. /\ menu \in {0, q} /\ q \notin accepted /\ (answers[q] = <<>> => menu = q)
           /\ \A v \in Workers : Asking(v) => v = w
    BY <1>1, <2>1 DEF QuestionInv, OneOpen
  <2>3. \A v \in Workers : ~Asking(v)' BY <1>6, <2>2
  <2>4. \A v \in Workers : At(v, "ask")' => menu = 0 BY <1>6, <2>1 DEF QuestionInv, OneOpen
  <2>5. shown \in {0, menu} /\ \A p \in accepted : answers[p] = <<>> => menu = p
          /\ (shown = p \/ pluginCall = "dbus2vdr")
    BY <2>1 DEF QuestionInv, OneOpen
  <2>6. CASE pluginCall = "none" BY <1>1, <1>2, <2>2, <2>3, <2>4, <2>5, <2>6 DEF OneOpen
  <2>7. CASE pluginCall # "none"
    <3>1. shown = 0 BY <1>2, <1>10, <2>2, <2>5, <2>7
    <3>2. \A p \in accepted : answers[p] # <<>>
      BY <2>2, <2>5, <1>7 DEF QuestionInv, QuestionTypes
    <3> QED BY <1>1, <1>2, <2>3, <2>7, <3>1, <3>2 DEF OneOpen
  <2> QED BY <2>6, <2>7
<1> QED BY <1>8, <1>9, <1>10 DEF QuestionInv, OneOpen

\* A menu that ends by an item, by being closed or by being replaced answers its
\* question, which had no answer before.
LEMMA MenuEnds ==
  ASSUME PoolInv, QuestionInv, NEW item \in Int,
         call' = call, calls' = calls, offered' = offered, asked' = asked, accepted' = accepted, raced' = raced,
         shown # 0, menu' = 0, shown' = 0,
         answers' = IF menu = shown THEN [answers EXCEPT ![shown] = Append(@, item)] ELSE answers
  PROVE  QuestionInv'
<1>1. asked \in Nat /\ shown \in 1..offered.calls /\ menu \in 0..asked /\ offered.calls \in Nat
        /\ asked <= offered.calls
  <2>1. asked \in Nat /\ shown \in 0..asked /\ menu \in 0..asked /\ asked + Cardinality(ToAsk) <= calls
    BY DEF QuestionInv, QuestionTypes
  <2>2. Cardinality(ToAsk) \in Nat /\ calls \in 0..offered.calls /\ offered.calls \in Nat
    BY ToAskFinite, MethodPoolAssumption DEF PoolInv, CallInv
  <2> QED BY <2>1, <2>2
<1>2. answers \in [1..offered.calls -> Seq(Int)] BY DEF QuestionInv, QuestionTypes
<1>3. answers' \in [1..offered.calls -> Seq(Int)]
  <2>1. Append(answers[shown], item) \in Seq(Int) BY <1>1, <1>2
  <2> QED BY <1>1, <1>2, <2>1
<1>4. \A q \in 1..offered.calls : answers'[q] = answers[q]
        \/ (menu = shown /\ q = shown /\ answers'[q] = Append(answers[q], item))
  BY <1>1, <1>2
<1>5. menu = shown => answers[shown] = <<>> /\ answers'[shown] = Append(<<>>, item)
  BY <1>1, <1>2 DEF QuestionInv, AnsweredOnce
<1>6. Len(Append(<<>>, item)) = 1 OBVIOUS
<1>7. ToAsk' = ToAsk BY DEF ToAsk
<1>8. QuestionTypes'
  <2>1. \A w \in Workers : Asking(w)' => call'[w].value \in 1..asked'
    BY DEF QuestionInv, QuestionTypes, Asking, At
  <2> QED BY <1>1, <1>3, <1>7, <2>1 DEF QuestionInv, QuestionTypes
<1>9. AnsweredOnce'
  <2>1. ASSUME NEW q \in 1..offered.calls PROVE Len(answers'[q]) <= 1
                 /\ (q > asked \/ q = 0 => answers'[q] = <<>>)
    <3>1. CASE answers'[q] = answers[q] BY <3>1, <1>1 DEF QuestionInv, AnsweredOnce
    <3>2. CASE menu = shown /\ q = shown BY <3>2, <1>5, <1>6, <1>1
    <3> QED BY <1>4, <3>1, <3>2
  <2> QED BY <2>1 DEF AnsweredOnce
<1>10. ASSUME raced = 0 PROVE OneOpen'
  <2>1. menu = shown /\ menu # 0 BY <1>10 DEF QuestionInv, OneOpen
  <2>2. answers'[menu] # <<>> BY <1>5, <1>6, <2>1
  <2>3. \A w \in Workers : (At(w, "ask")' <=> At(w, "ask")) /\ (Asking(w)' <=> Asking(w)) BY DEF At, Asking
  <2>4. ASSUME NEW w \in Workers, Asking(w)
        PROVE  call[w].value \notin accepted /\ answers'[call[w].value] # <<>>
                 /\ \A v \in Workers : Asking(v) => v = w
    BY <1>10, <2>1, <2>2, <2>4 DEF QuestionInv, OneOpen
  <2>5. ASSUME NEW q \in accepted PROVE answers'[q] # <<>>
    <3>1. q \in 1..offered.calls BY <1>1 DEF QuestionInv, QuestionTypes
    <3>2. CASE answers[q] = <<>> BY <1>10, <2>2, <3>2 DEF QuestionInv, OneOpen
    <3>3. CASE answers[q] # <<>>
      <4>1. CASE q = menu BY <4>1, <2>2
      <4>2. CASE q # menu BY <1>4, <2>1, <3>1, <3>3, <4>2
      <4> QED BY <4>1, <4>2
    <3> QED BY <3>2, <3>3
  <2> QED BY <2>3, <2>4, <2>5 DEF OneOpen
<1> QED BY <1>8, <1>9, <1>10 DEF QuestionInv, OneOpen

\* VDR opens the menu that the plugin hands over, or another one.
LEMMA OpensKeeps ==
  ASSUME PoolInv, QuestionInv, VdrOpensMenu
  PROVE  QuestionInv'
<1>1. /\ asked' = asked /\ accepted' = accepted /\ raced' = raced /\ call' = call /\ calls' = calls
         /\ offered' = offered
      /\ pluginCall # "none" /\ menu' = (IF shown # 0 THEN 0 ELSE menu)
         /\ shown' = (IF pluginCall = "dbus2vdr" THEN menu' ELSE 0)
  BY DEF VdrOpensMenu, poolVars
<1>2. answers' = IF shown # 0 /\ menu = shown THEN [answers EXCEPT ![shown] = Append(@, -1)] ELSE answers
  BY DEF VdrOpensMenu, Deleted
<1>3. CASE shown # 0
  <2>1. menu' = 0 /\ shown' = 0
          /\ answers' = IF menu = shown THEN [answers EXCEPT ![shown] = Append(@, -1)] ELSE answers
    BY <1>1, <1>2, <1>3
  <2> QED BY <1>1, <1>3, <2>1, MenuEnds
<1>4. CASE shown = 0
  <2>1. answers' = answers /\ menu' = menu /\ shown' \in {0, menu} /\ ToAsk' = ToAsk
    BY <1>1, <1>2, <1>4 DEF ToAsk
  <2>2. \A w \in Workers : (At(w, "ask")' <=> At(w, "ask")) /\ (Asking(w)' <=> Asking(w))
    BY <1>1 DEF At, Asking
  <2>3. QuestionTypes' BY <1>1, <2>1, <2>2 DEF QuestionInv, QuestionTypes
  <2>4. AnsweredOnce' BY <1>1, <2>1 DEF QuestionInv, AnsweredOnce
  <2>5. ASSUME raced = 0, NEW q \in accepted, answers[q] = <<>> PROVE menu = q /\ shown' = q
    <3>1. q # 0 BY DEF QuestionInv, QuestionTypes
    <3> QED BY <1>1, <1>4, <2>5, <3>1 DEF QuestionInv, OneOpen
  <2>6. OneOpen' BY <1>1, <2>1, <2>2, <2>5 DEF QuestionInv, OneOpen
  <2> QED BY <2>3, <2>4, <2>6 DEF QuestionInv
<1> QED BY <1>3, <1>4

\* What the user and VDR do with a menu keeps the invariant.
LEMMA RemoteVdrKeeps ==
  ASSUME PoolInv, QuestionInv, RemoteVdr
  PROVE  QuestionInv'
<1>1. ASSUME NEW item \in {0, 1}, Selects(item) PROVE QuestionInv'
  <2>1. /\ call' = call /\ calls' = calls /\ offered' = offered /\ asked' = asked /\ accepted' = accepted
           /\ raced' = raced
        /\ shown # 0 /\ menu' = 0 /\ shown' = 0 /\ item \in Int
        /\ answers' = IF menu = shown THEN [answers EXCEPT ![shown] = Append(@, item)] ELSE answers
    BY <1>1 DEF Selects, poolVars
  <2> QED BY <2>1, MenuEnds
<1>2. CASE Closes
  <2>1. /\ call' = call /\ calls' = calls /\ offered' = offered /\ asked' = asked /\ accepted' = accepted
           /\ raced' = raced
        /\ shown # 0 /\ menu' = 0 /\ shown' = 0 /\ -1 \in Int
        /\ answers' = IF menu = shown THEN [answers EXCEPT ![shown] = Append(@, -1)] ELSE answers
    BY <1>2 DEF Closes, Deleted, poolVars
  <2> QED BY <2>1, MenuEnds
<1> QED BY <1>1, <1>2, OpensKeeps DEF RemoteVdr

\* What a method does keeps it.
LEMMA QuestionMethod ==
  ASSUME PoolInv, QuestionInv, NEW w \in Workers, Method(w)
  PROVE  QuestionInv'
<1>1. Effect(w) BY MethodEffect DEF PoolInv
<1>2. CASE call[w].method \notin RemoteMethods /\ UNCHANGED remoteVars
  <2>1. call'[w].at # "ask" /\ call'[w].at # "asking" BY <1>1, <1>2 DEF Effect, OnTheWay, RemoteMethods
  <2> QED BY <1>1, <1>2, <2>1, OtherQuiet, QuietKeeps DEF remoteVars, vdrRemote, questions
<1>3. CASE RemoteMethod(w)
  <2>1. ASSUME call[w].method # "Remote.AskUser", UNCHANGED questions, pluginCall' = pluginCall
                 \/ pluginCall = "none"
        PROVE  QuestionInv'
    <3>1. call'[w].at # "ask" /\ call'[w].at # "asking" BY <1>1, <2>1 DEF Effect, OnTheWay
    <3> QED BY <1>1, <2>1, <3>1, OtherQuiet, QuietKeeps
  <2>2. CASE CallPlugin(w) BY <2>1, <2>2 DEF CallPlugin, Runs
  <2>3. CASE SetEnabled(w) BY <2>1, <2>3 DEF SetEnabled, Runs
  <2>4. CASE RemoteStatus(w) BY <2>1, <2>4 DEF RemoteStatus, Runs, remoteVars, vdrRemote
  <2>5. CASE HitKey(w) BY <2>1, <2>5 DEF HitKey, Runs
  <2>6. CASE HitKeys(w)
    <3>1. Runs(w, "Remote.HitKeys") /\ UNCHANGED questions /\ pluginCall' = pluginCall BY <2>6 DEF HitKeys
    <3> QED BY <2>1, <3>1 DEF Runs
  <2>7. CASE SwitchLocks(w) BY <2>1, <2>7 DEF SwitchLocks, Runs, remoteVars, vdrRemote
  <2>8. CASE Zap(w)
    <3>1. At(w, "switch") /\ UNCHANGED remoteVars BY <2>8 DEF Zap
    <3>2. call[w].method = "Remote.SwitchChannel" BY <3>1, OnWay DEF OnTheWay, At, PoolInv
    <3> QED BY <2>1, <3>1, <3>2 DEF remoteVars, vdrRemote
  <2>9. CASE GetVolume(w) BY <2>1, <2>9 DEF GetVolume, Runs, remoteVars, vdrRemote
  <2>10. CASE SetVolume(w)
    <3>1. Runs(w, "Remote.SetVolume") /\ UNCHANGED questions /\ pluginCall' = pluginCall
      BY <2>10 DEF SetVolume
    <3> QED BY <2>1, <3>1 DEF Runs
  <2> QED
    BY <1>1, <1>3, <2>2, <2>3, <2>4, <2>5, <2>6, <2>7, <2>8, <2>9, <2>10, AskTestKeeps, AskOpenKeeps,
       AskCallKeeps
    DEF RemoteMethod
<1> QED BY <1>2, <1>3, MethodsApart DEF PoolInv

\* Every step does.
LEMMA QuestionNext ==
  ASSUME PoolInv, QuestionInv, [Next]_vars
  PROVE  QuestionInv'
<1>1. ASSUME NEW w \in Workers, Called(w) PROVE QuestionInv'
  <2>1. PICK c \in Possible : handle_method_call(w, c.method, c.arg) BY <1>1 DEF Called, Possible
  <2>2. call[w].at = "idle" /\ call'[w].at = "queued" /\ (\A v \in Workers \ {w} : call'[v] = call[v])
          /\ calls' = calls + 1 /\ offered' = offered
    BY <2>1 DEF handle_method_call, PoolInv, CallInv, NoCall
  <2>3. ToAsk' = ToAsk \union {w} BY <2>2 DEF ToAsk
  <2>4. Cardinality(ToAsk)' <= Cardinality(ToAsk) + 1 /\ Cardinality(ToAsk) \in Nat
          /\ Cardinality(ToAsk)' \in Nat
    <3>1. IsFiniteSet(ToAsk) /\ Cardinality(ToAsk) \in Nat BY ToAskFinite DEF PoolInv
    <3>2. w \notin ToAsk BY <2>2 DEF ToAsk
    <3> QED BY SMTT(30), <2>3, <3>1, <3>2, FS_AddElement
  <2>5. calls \in Nat BY MethodPoolAssumption DEF PoolInv, CallInv
  <2>6. UNCHANGED remoteVars BY <1>1 DEF Called, Elsewhere
  <2>7. \A v \in Workers : call'[v].at \in {"ask", "asking"} => call'[v] = call[v] BY <2>2
  <2>8. Quiet BY <2>2, <2>4, <2>5, <2>6, <2>7 DEF Quiet, remoteVars, vdrRemote, questions
  <2> QED BY <2>8, QuietKeeps
<1>2. ASSUME NEW w \in Workers, Leaves(w) PROVE QuestionInv'
  <2>1. At(w, "replied") /\ call'[w].at = "idle" /\ (\A v \in Workers \ {w} : call'[v] = call[v])
          /\ calls' = calls /\ offered' = offered
    BY <1>2 DEF Leaves, Left, Same, PoolInv, CallInv, NoCall
  <2>2. ToAsk' = ToAsk BY <2>1 DEF ToAsk, At
  <2>3. UNCHANGED remoteVars BY <1>2 DEF Leaves, Elsewhere
  <2>4. calls \in Int /\ Cardinality(ToAsk) \in Nat BY MethodPoolAssumption, ToAskFinite DEF PoolInv, CallInv
  <2>5. \A v \in Workers : call'[v].at \in {"ask", "asking"} => call'[v] = call[v] BY <2>1
  <2>6. Quiet BY <2>1, <2>2, <2>3, <2>4, <2>5 DEF Quiet, remoteVars, vdrRemote, questions
  <2> QED BY <2>6, QuietKeeps
<1>3. ASSUME call' = call, calls' = calls, offered' = offered, UNCHANGED remoteVars PROVE QuestionInv'
  <2>1. ToAsk' = ToAsk BY <1>3 DEF ToAsk
  <2>2. calls \in Int /\ Cardinality(ToAsk) \in Nat BY MethodPoolAssumption, ToAskFinite DEF PoolInv, CallInv
  <2>3. Quiet BY <1>3, <2>1, <2>2 DEF Quiet, remoteVars, vdrRemote, questions
  <2> QED BY <2>3, QuietKeeps
<1>4. CASE Besides
  <2>1. RemoteVdr \/ UNCHANGED remoteVars BY <1>4 DEF Besides, Elsewhere
  <2> QED BY <1>3, <1>4, <2>1, BesidesKeeps, RemoteVdrKeeps
<1>5. CASE UNCHANGED vars BY <1>3, <1>5 DEF vars, poolVars
<1> QED BY <1>1, <1>2, <1>4, <1>5, QuestionMethod DEF Next

\* At first no question was asked.
LEMMA QuestionInitially == ASSUME Init PROVE QuestionInv
<1>1. /\ menu = 0 /\ shown = 0 /\ asked = 0 /\ accepted = {} /\ raced = 0
         /\ answers = [q \in 1..offered.calls |-> <<>>]
      /\ calls = 0 /\ call = [w \in Workers |-> NoCall]
  BY DEF Init, RemoteInit, PoolInit
<1>2. ToAsk = {} BY <1>1 DEF ToAsk, NoCall
<1>3. Cardinality(ToAsk) = 0 BY <1>2, FS_EmptySet
<1>4. \A w \in Workers : ~Asking(w) /\ ~At(w, "ask") BY <1>1 DEF Asking, At, NoCall
<1>5. \A q \in 1..offered.calls : answers[q] = <<>> BY <1>1
<1> QED BY <1>1, <1>3, <1>4, <1>5 DEF QuestionInv, QuestionTypes, AnsweredOnce, OneOpen

\* THE QUESTIONS: unless calls raced, a question that was accepted is open until
\* VDR shows it, and then until it is answered, which happens at most once
\* (remote.c, AskUser and cDbusSelectMenu).
THEOREM QuestionsAreAnswered == Spec => []QuestionAnswered
<1>1. PoolInv /\ QuestionInv => QuestionAnswered
  <2> SUFFICES ASSUME PoolInv, QuestionInv PROVE QuestionAnswered OBVIOUS
  <2>1. Cardinality(ToAsk) \in Nat /\ calls \in 0..offered.calls /\ offered.calls \in Nat
    BY ToAskFinite, MethodPoolAssumption DEF PoolInv, CallInv
  <2>2. 1..asked \subseteq 1..offered.calls BY <2>1 DEF QuestionInv, QuestionTypes
  <2> QED BY <2>2 DEF QuestionInv, AnsweredOnce, OneOpen, QuestionAnswered
<1>2. PoolInv /\ QuestionInv /\ [Next]_vars => QuestionInv' BY QuestionNext
<1> QED BY PoolAlways, QuestionInitially, <1>1, <1>2, PTL DEF Spec

-----------------------------------------------------------------------------
(***************************************************************************)
(* The setup (setup.c). A line that no plugin parses is replaced by saving *)
(* the setup, loading the file into a second list, changing and saving     *)
(* that, and loading it back, with nothing locked: what is set meanwhile   *)
(* may be lost, which risky notes. The invariant has to say what the       *)
(* copies and the file hold in the middle of that.                         *)
(***************************************************************************)

\* What a setting may be, for the types.
SettingValues == Values \union {"", "invalid"}

\* Types; and only lines that nobody parses are replaced.
SetupTypes ==
  /\ variable \in [Bound -> SettingValues] /\ lines \in [Free -> SettingValues]
  /\ file \in [Settings -> SettingValues] /\ wanted \in [Settings -> SettingValues]
  /\ copy \in [Workers -> [Settings -> SettingValues]]
  /\ \A w \in Replacing : Name(w) \in Unknown

\* The threads that have written the file and not yet loaded it back,
Storing == {w \in Workers : At(w, "stored")}

\* and the settings that nobody may have lost and nobody is about to change.
Certain == Settings \ (risky \union {Name(w) : w \in Storing})

\* A second list that was loaded has what was wanted, as far as that is certain.
CopiesTrue ==
  \A w \in Workers : At(w, "loaded") => \A s \in Certain : copy[w][s] = wanted[s]

\* What is not saved while a line is replaced is at risk.
NewIsRisky == Replacing # {} => unsaved \subseteq risky

\* A line that was written by a thread on its own is in the file.
StoredAlone == \A w \in Storing \ crossed : file[Name(w)] = Value(w)

\* Threads that replace lines at the same time know it.
TogetherCrossed == \A v, w \in Replacing : v # w => {v, w} \subseteq crossed

\* A setting is what it was set to, in VDR, and in the file if it was saved.
SettingTrue(s) == Known(s) = wanted[s] /\ (s \notin unsaved => file[s] = wanted[s])

\* All certain settings are.
SettingsTrue == \A s \in Certain : SettingTrue(s)

\* The invariant of the setup.
SetupInv == SetupTypes /\ SettingsTrue /\ CopiesTrue /\ NewIsRisky /\ StoredAlone /\ TogetherCrossed

\* It says what SetupSaved says.
LEMMA SavedMeans == SettingsTrue => SetupSaved
BY DEF SetupSaved, SettingsTrue, Certain, SettingTrue, Storing

\* What Set and Del are called with,
LEMMA SetArguments ==
  \A c \in Possible :
    /\ c.method = "Setup.Set" => c.arg \in Settings \X (Values \union {"invalid"})
    /\ c.method = "Setup.Del" => c.arg \in Free \union {"all", "no setting"}
<1>1. \A c \in SetupCalls : /\ c.method = "Setup.Set" => c.arg \in Settings \X (Values \union {"invalid"})
                            /\ c.method = "Setup.Del" => c.arg \in Free \union {"all", "no setting"}
  BY DEF SetupCalls
<1>2. \A c \in Possible : c \in SetupCalls \/ c.method \notin {"Setup.Set", "Setup.Del"}
  BY ChannelsOffered, RemoteOffered, TimersOffered, StatusOffered, RecordingsOffered, EpgOffered, DeskOffered
  DEF Possible, KnownCalls, UnknownCall, ChannelsMethods, RemoteMethods, TimersMethods, StatusMethods,
      RecordingsMethods, EpgMethods, DeskMethods
<1> QED BY <1>1, <1>2

\* so what a call of Set names and gives,
LEMMA SetNames ==
  ASSUME CallInv, NEW w \in Workers, call[w].method = "Setup.Set", call[w].at # "idle"
  PROVE  Name(w) \in Settings /\ Value(w) \in SettingValues
<1>1. PICK c \in Possible : call[w].method = c.method /\ call[w].arg = c.arg BY DEF CallInv
<1>2. c.method = "Setup.Set" BY <1>1
<1>3. c.arg \in Settings \X (Values \union {"invalid"}) BY <1>2, SetArguments, Zenon
<1>4. call[w].arg \in Settings \X (Values \union {"invalid"}) BY <1>1, <1>3
<1> QED BY <1>4 DEF Name, Value, SettingValues

\* and what a call of Del names.
LEMMA DelNames ==
  ASSUME CallInv, NEW w \in Workers, call[w].method = "Setup.Del", call[w].at # "idle"
  PROVE  call[w].arg \in Free \union {"all", "no setting"}
BY ZenonT(30), SetArguments DEF CallInv

\* A step of w that is no part of a replacement changes nobody's replacement.
LEMMA ReplacingKept ==
  ASSUME NEW w \in Workers, \A v \in Workers \ {w} : call'[v] = call[v],
         call[w].at \notin {"saved", "loaded", "stored"}, call'[w].at \notin {"saved", "loaded", "stored"}
  PROVE  /\ Replacing' = Replacing /\ Storing' = Storing /\ w \notin Replacing
         /\ \A v \in Workers : At(v, "loaded")' <=> At(v, "loaded")
         /\ {Name(v) : v \in Storing}' = {Name(v) : v \in Storing}
         /\ \A v \in Replacing : Name(v)' = Name(v) /\ Value(v)' = Value(v)
<1>1. \A v \in Workers \ {w} : Name(v)' = Name(v) /\ Value(v)' = Value(v) /\ call'[v] = call[v]
  BY DEF Name, Value
<1>2. Replacing' = Replacing /\ Storing' = Storing /\ w \notin Replacing /\ w \notin Storing
  BY <1>1 DEF Replacing, Storing, At
<1>3. \A v \in Workers : At(v, "loaded")' <=> At(v, "loaded") BY <1>1 DEF At
<1>4. \A v \in Storing : Name(v)' = Name(v) BY <1>1, <1>2 DEF Storing
<1>5. \A v \in Replacing : Name(v)' = Name(v) /\ Value(v)' = Value(v) BY <1>1, <1>2 DEF Replacing
<1>6. {Name(v) : v \in Storing}' = {Name(v) : v \in Storing} BY <1>2, <1>4
<1> QED BY <1>2, <1>3, <1>5, <1>6

\* A step that gives some settings their values, and saves all or notes what is
\* not saved.
Changes(w, changed) ==
  /\ Noted(w, changed) /\ copy' = copy /\ changed \subseteq Settings
  /\ \A s \in Settings \ changed : Known(s)' = Known(s) /\ wanted'[s] = wanted[s]
  /\ \A s \in changed : Known(s)' = wanted'[s]
  /\ \/ file' = file /\ unsaved' = unsaved \union changed
     \/ (\A s \in Settings : file'[s] = Known(s)') /\ unsaved' = {}

\* Such a step keeps the invariant.
LEMMA ChangeKeeps ==
  ASSUME SetupInv, NEW w \in Workers, Passes(w), SetupTypes', NEW changed,
         call[w].at \notin {"saved", "loaded", "stored"}, call'[w].at \notin {"saved", "loaded", "stored"},
         Changes(w, changed)
  PROVE  SetupInv'
<1>1. /\ Replacing' = Replacing /\ Storing' = Storing /\ w \notin Replacing
      /\ \A v \in Workers : At(v, "loaded")' <=> At(v, "loaded")
      /\ {Name(v) : v \in Storing}' = {Name(v) : v \in Storing}
      /\ \A v \in Replacing : Name(v)' = Name(v) /\ Value(v)' = Value(v)
  BY ReplacingKept DEF Passes
<1>2. risky \ changed \subseteq risky' /\ (Replacing # {} => risky' = risky \union changed)
        /\ Replacing \subseteq crossed'
  BY <1>1 DEF Noted, Changes
<1>3. \A s \in Certain' : s \in Settings /\ (s \notin changed => s \in Certain)
  BY <1>1, <1>2 DEF Certain
<1>4. \A s \in Certain : SettingTrue(s) BY DEF SetupInv, SettingsTrue
<1>5. ASSUME NEW s \in Certain' PROVE SettingTrue(s)'
  <2>1. CASE s \in changed BY <2>1, <1>3 DEF SettingTrue, Changes
  <2>2. CASE s \notin changed
    <3>1. Known(s)' = Known(s) /\ wanted'[s] = wanted[s] /\ SettingTrue(s) BY <1>3, <1>4, <2>2 DEF Changes
    <3>2. (file' = file /\ unsaved' = unsaved \union changed) \/ file'[s] = Known(s)' BY <1>3 DEF Changes
    <3> QED BY <2>2, <3>1, <3>2 DEF SettingTrue
  <2> QED BY <2>1, <2>2
<1>6. SettingsTrue' BY <1>5 DEF SettingsTrue
<1>7. CopiesTrue'
  <2>1. ASSUME NEW v \in Workers, At(v, "loaded")', NEW s \in Certain' PROVE copy'[v][s] = wanted'[s]
    <3>1. At(v, "loaded") /\ Replacing # {} BY <1>1, <2>1 DEF Replacing, At
    <3>2. s \in Settings \ changed /\ s \in Certain BY <1>2, <1>3, <3>1 DEF Certain
    <3>3. copy' = copy /\ wanted'[s] = wanted[s] BY <3>2 DEF Changes
    <3> QED BY <3>1, <3>2, <3>3 DEF SetupInv, CopiesTrue
  <2> QED BY <2>1 DEF CopiesTrue
<1>8. NewIsRisky' BY <1>1, <1>2 DEF SetupInv, NewIsRisky, Changes
<1>9. StoredAlone'
  <2>1. Storing \subseteq Replacing BY DEF Storing, Replacing, At
  <2> QED BY <1>1, <1>2, <2>1 DEF StoredAlone
<1>10. TogetherCrossed' BY <1>1, <1>2 DEF TogetherCrossed
<1> QED BY <1>6, <1>7, <1>8, <1>9, <1>10 DEF SetupInv

\* A step that leaves the setup and the replacements alone keeps it,
LEMMA StillKeeps ==
  ASSUME SetupInv, UNCHANGED setupVars,
         Replacing' = Replacing, Storing' = Storing,
         \A v \in Workers : At(v, "loaded")' <=> At(v, "loaded"),
         {Name(v) : v \in Storing}' = {Name(v) : v \in Storing},
         \A v \in Replacing : Name(v)' = Name(v) /\ Value(v)' = Value(v)
  PROVE  SetupInv'
<1>2. /\ variable' = variable /\ lines' = lines /\ file' = file /\ copy' = copy /\ wanted' = wanted
         /\ unsaved' = unsaved
      /\ risky' = risky /\ crossed' = crossed
  BY DEF setupVars, setup
<1>3. Certain' = Certain BY <1>2 DEF Certain
<1>4. SettingsTrue'
  <2>1. \A s \in Certain : SettingTrue(s)' BY <1>2 DEF SetupInv, SettingsTrue, SettingTrue, Known
  <2> QED BY <1>3, <2>1 DEF SettingsTrue
<1>5. SetupTypes' BY <1>2 DEF SetupInv, SetupTypes
<1>6. CopiesTrue' BY <1>2, <1>3 DEF SetupInv, CopiesTrue
<1>7. StoredAlone' BY <1>2 DEF SetupInv, StoredAlone, Storing, Replacing, At
<1>8. NewIsRisky' /\ TogetherCrossed' BY <1>2 DEF SetupInv, NewIsRisky, TogetherCrossed
<1> QED BY <1>4, <1>5, <1>6, <1>7, <1>8 DEF SetupInv

\* such as one of a thread that is not replacing,
LEMMA AsideKeeps ==
  ASSUME SetupInv, UNCHANGED setupVars, NEW w \in Workers, \A v \in Workers \ {w} : call'[v] = call[v],
         call[w].at \notin {"saved", "loaded", "stored"}, call'[w].at \notin {"saved", "loaded", "stored"}
  PROVE  SetupInv'
BY ReplacingKept, StillKeeps

\* or of a method that leaves the setup alone.
LEMMA SetupFrame ==
  ASSUME SetupInv, NEW w \in Workers, Passes(w), UNCHANGED setupVars,
         call[w].at \notin {"saved", "loaded", "stored"}, call'[w].at \notin {"saved", "loaded", "stored"}
  PROVE  SetupInv'
BY AsideKeeps DEF Passes

\* A setting is bound to a variable or is a line.
LEMMA BoundApart == Bound \intersect Free = {} /\ Settings = Bound \union Free
BY SetupAssumption DEF Free, Settings

\* cSetup::Save,
Saves == file' = [s \in Settings |-> IF s \in Bound THEN variable'[s] ELSE lines'[s]] /\ unsaved' = {}

\* after which the file has what VDR knows.
LEMMA SavesTrue ==
  ASSUME Saves, variable' \in [Bound -> SettingValues], lines' \in [Free -> SettingValues]
  PROVE  file' \in [Settings -> SettingValues] /\ (\A s \in Settings : file'[s] = Known(s)') /\ unsaved' = {}
BY BoundApart DEF Saves, Known

\* Set of a setting with a variable: it is assigned,
LEMMA SetBoundKeeps ==
  ASSUME PoolInv, SetupInv, NEW w \in Workers, Effect(w), SetBound(w)
  PROVE  SetupInv'
<1>1. Runs(w, "Setup.Set") /\ Name(w) \in Bound BY DEF SetBound
<1>2. Value(w) \in SettingValues /\ Name(w) \in Settings BY <1>1, SetNames DEF PoolInv, Runs
<1>3. CASE SendReply(w, 501) /\ UNCHANGED setupVars
  <2>1. Passes(w) /\ call'[w].at = "replied" BY <1>3, ReplyPasses DEF PoolInv
  <2> QED BY <1>1, <1>3, <2>1, SetupFrame DEF Runs
<1>4. CASE Value(w) # "invalid"
  <2>0. PICK n, x : n = Name(w) /\ x = Value(w) OBVIOUS
  <2>1. /\ variable' = [variable EXCEPT ![n] = x] /\ wanted' = [wanted EXCEPT ![n] = x]
        /\ Go(w, "assigned") /\ Noted(w, {n}) /\ unsaved' = unsaved \union {n} /\ lines' = lines
           /\ file' = file /\ copy' = copy
    BY <1>4, <2>0 DEF SetBound
  <2>2. Passes(w) /\ call'[w].at = "assigned" BY <2>1, GoPasses DEF PoolInv
  <2>3. Replacing' = Replacing /\ \A v \in Replacing : Name(v)' = Name(v)
    BY <1>1, <2>2, ReplacingKept DEF Runs, Passes
  <2>4. n \in Bound /\ n \in Settings /\ x \in SettingValues BY <1>1, <1>2, <2>0
  <2>5. SetupTypes' BY <2>1, <2>3, <2>4 DEF SetupInv, SetupTypes
  <2>6. \A s \in Settings \ {n} : Known(s)' = Known(s) /\ wanted'[s] = wanted[s]
    BY <2>1 DEF Known, SetupInv, SetupTypes
  <2>7. Known(n)' = wanted'[n]
    <3>1. variable'[n] = x /\ wanted'[n] = x BY <2>1, <2>4 DEF SetupInv, SetupTypes
    <3> QED BY <2>4, <3>1 DEF Known
  <2>8. PICK changed : changed = {n} OBVIOUS
  <2>9. Changes(w, changed) BY <2>1, <2>4, <2>6, <2>7, <2>8 DEF Changes
  <2> QED BY <1>1, <2>2, <2>5, <2>9, ChangeKeeps DEF Runs
<1> QED BY <1>3, <1>4 DEF SetBound

\* and saved.
LEMMA SaveBoundKeeps ==
  ASSUME PoolInv, SetupInv, NEW w \in Workers, Effect(w), SaveBound(w)
  PROVE  SetupInv'
<1>1. /\ At(w, "assigned") /\ Saves /\ SendReply(w, 900) /\ Noted(w, {})
      /\ variable' = variable /\ lines' = lines /\ copy' = copy /\ wanted' = wanted
  BY DEF SaveBound, Saves, Written
<1>2. Passes(w) /\ call'[w].at = "replied" BY <1>1, ReplyPasses DEF PoolInv
<1>3. Replacing' = Replacing /\ \A v \in Replacing : Name(v)' = Name(v)
  BY <1>1, <1>2, ReplacingKept DEF At, Passes
<1>4. file' \in [Settings -> SettingValues] /\ (\A s \in Settings : file'[s] = Known(s)') /\ unsaved' = {}
  BY <1>1, SavesTrue DEF SetupInv, SetupTypes
<1>5. \A s \in Settings : Known(s)' = Known(s) BY <1>1 DEF Known
<1>6. SetupTypes' BY <1>1, <1>3, <1>4 DEF SetupInv, SetupTypes
<1>7. PICK changed : changed = {} OBVIOUS
<1>8. Changes(w, changed) BY <1>1, <1>4, <1>5, <1>7 DEF Changes
<1> QED BY <1>1, <1>2, <1>6, <1>8, ChangeKeeps DEF At

\* Set of a plugin's setting, or of a new line.
LEMMA SetPluginOrNewKeeps ==
  ASSUME PoolInv, SetupInv, NEW w \in Workers, Effect(w), SetPluginOrNew(w)
  PROVE  SetupInv'
<1>1. Runs(w, "Setup.Set") /\ Name(w) \in Free BY DEF SetPluginOrNew, Free
<1>2. Value(w) \in SettingValues /\ Name(w) \in Settings BY <1>1, SetNames DEF PoolInv, Runs
<1>3. CASE SendReply(w, 501) /\ UNCHANGED setupVars
  <2>1. Passes(w) /\ call'[w].at = "replied" BY <1>3, ReplyPasses DEF PoolInv
  <2> QED BY <1>1, <1>3, <2>1, SetupFrame DEF Runs
<1>4. CASE Value(w) # "invalid"
  <2>0. PICK n, x : n = Name(w) /\ x = Value(w) OBVIOUS
  <2>1. /\ lines' = [lines EXCEPT ![n] = x] /\ wanted' = [wanted EXCEPT ![n] = x] /\ Saves
        /\ SendReply(w, 900) /\ Noted(w, {n}) /\ variable' = variable /\ copy' = copy
    <3>1. /\ lines' = [lines EXCEPT ![n] = x] /\ wanted' = [wanted EXCEPT ![n] = x] /\ variable' = variable
             /\ copy' = copy
      BY ZenonT(90), <1>4, <2>0 DEF SetPluginOrNew
    <3>2. SendReply(w, 900) /\ Noted(w, {n}) BY ZenonT(90), <1>4, <2>0 DEF SetPluginOrNew
    <3>3. file' = Written(variable, lines') /\ unsaved' = {} BY <1>4, <2>0, ZenonT(30) DEF SetPluginOrNew
    <3>4. Saves BY <3>1, <3>3 DEF Written, Saves
    <3> QED BY <3>1, <3>2, <3>4
  <2>2. Passes(w) /\ call'[w].at = "replied" BY <2>1, ReplyPasses DEF PoolInv
  <2>3. Replacing' = Replacing /\ \A v \in Replacing : Name(v)' = Name(v)
    BY <1>1, <2>2, ReplacingKept DEF Runs, Passes
  <2>4. n \in Free /\ n \in Settings /\ x \in SettingValues BY <1>1, <1>2, <2>0
  <2>5. lines' \in [Free -> SettingValues] /\ wanted' \in [Settings -> SettingValues]
    BY <2>1, <2>4 DEF SetupInv, SetupTypes
  <2>6. file' \in [Settings -> SettingValues] /\ (\A s \in Settings : file'[s] = Known(s)') /\ unsaved' = {}
    BY <2>1, <2>5, SavesTrue DEF SetupInv, SetupTypes
  <2>7. SetupTypes' BY <2>1, <2>3, <2>5, <2>6 DEF SetupInv, SetupTypes
  <2>8. \A s \in Settings \ {n} : Known(s)' = Known(s) /\ wanted'[s] = wanted[s]
    BY <2>1, BoundApart DEF Known, SetupInv, SetupTypes
  <2>9. Known(n)' = wanted'[n]
    <3>1. lines'[n] = x /\ wanted'[n] = x BY <2>1, <2>4 DEF SetupInv, SetupTypes
    <3> QED BY <2>4, <3>1, BoundApart DEF Known
  <2>10. PICK changed : changed = {n} OBVIOUS
  <2>11. Changes(w, changed) BY <2>1, <2>4, <2>6, <2>8, <2>9, <2>10 DEF Changes
  <2> QED BY <1>1, <2>2, <2>7, <2>11, ChangeKeeps DEF Runs
<1> QED BY <1>3, <1>4 DEF SetPluginOrNew

\* Del of a line, or of a plugin's lines.
LEMMA DelKeeps ==
  ASSUME PoolInv, SetupInv, NEW w \in Workers, Effect(w), Del(w)
  PROVE  SetupInv'
<1> DEFINE name == call[w].arg
           gone == IF name = "all" THEN Parsed ELSE {name} \ {"no setting"}
<1>1. Runs(w, "Setup.Del") BY DEF Del
<1>2. name \in Free \union {"all", "no setting"} BY <1>1, DelNames DEF PoolInv, Runs
<1>3. ASSUME NEW code, SendReply(w, code), UNCHANGED setupVars PROVE SetupInv'
  <2>1. Passes(w) /\ call'[w].at = "replied" BY <1>3, ReplyPasses DEF PoolInv
  <2> QED BY <1>1, <1>3, <2>1, SetupFrame DEF Runs
<1>4. CASE name # "no setting" /\ (name = "all" \/ lines[name] # "")
  <2>1. PICK out : out = gone OBVIOUS
  <2>2. /\ lines' = [s \in Free |-> IF s \in gone THEN "" ELSE lines[s]]
        /\ Saves /\ variable' = variable /\ copy' = copy
        /\ wanted' = [s \in Settings |-> IF s \in gone THEN "" ELSE wanted[s]]
    <3>1. /\ lines' = [s \in Free |-> IF s \in gone THEN "" ELSE lines[s]] /\ variable' = variable
             /\ copy' = copy
          /\ wanted' = [s \in Settings |-> IF s \in gone THEN "" ELSE wanted[s]]
      BY ZenonT(30), <1>4 DEF Del
    <3>2. file' = Written(variable, lines')
      <4>1. CASE name = "all" BY <4>1, Zenon DEF Del
      <4>2. CASE name # "all" BY <1>4, <4>2, Zenon DEF Del
      <4> QED BY <4>1, <4>2
    <3>3. unsaved' = {} BY <1>4 DEF Del
    <3>4. variable' = variable BY <3>1
    <3>5. Saves
      <4> HIDE DEF name, gone
      <4> QED BY <3>2, <3>3, <3>4 DEF Written, Saves
    <3> QED BY <3>1, <3>5
  <2>3. SendReply(w, 900) BY <1>4 DEF Del
  <2>4. Noted(w, out) BY ZenonT(30), <1>4, <2>1 DEF Del, Noted
  <2>5. out \subseteq Free /\ out \subseteq Settings BY <1>2, <1>4, <2>1, BoundApart DEF Free
  <2>6. /\ lines' = [s \in Free |-> IF s \in out THEN "" ELSE lines[s]]
        /\ wanted' = [s \in Settings |-> IF s \in out THEN "" ELSE wanted[s]]
    BY <2>1, <2>2
  <2> HIDE DEF gone
  <2>7. Passes(w) /\ call'[w].at = "replied" BY <2>3, ReplyPasses DEF PoolInv
  <2>8. Replacing' = Replacing /\ \A v \in Replacing : Name(v)' = Name(v)
    BY <1>1, <2>7, ReplacingKept DEF Runs, Passes
  <2>9. lines' \in [Free -> SettingValues] /\ wanted' \in [Settings -> SettingValues]
    BY <2>6 DEF SetupInv, SetupTypes, SettingValues
  <2>10. file' \in [Settings -> SettingValues] /\ (\A s \in Settings : file'[s] = Known(s)') /\ unsaved' = {}
    BY <2>2, <2>9, SavesTrue DEF SetupInv, SetupTypes
  <2>11. SetupTypes' BY <2>2, <2>8, <2>9, <2>10 DEF SetupInv, SetupTypes
  <2>12. \A s \in Settings \ out : Known(s)' = Known(s) /\ wanted'[s] = wanted[s]
    BY <2>2, <2>6, BoundApart DEF Known, SetupInv, SetupTypes
  <2>13. \A s \in out : Known(s)' = wanted'[s] BY <2>5, <2>6, BoundApart DEF Known
  <2>14. Changes(w, out) BY <2>2, <2>4, <2>5, <2>10, <2>12, <2>13 DEF Changes
  <2> QED BY <1>1, <2>7, <2>11, <2>14, ChangeKeeps DEF Runs
<1>5. CASE name = "no setting"
  <2>1. SendReply(w, 501) /\ UNCHANGED setupVars BY <1>5 DEF Del
  <2> QED BY <1>3, <2>1
<1>6. CASE name # "no setting" /\ name # "all" /\ lines[name] = ""
  <2>1. SendReply(w, 550) /\ UNCHANGED setupVars BY <1>6 DEF Del
  <2> QED BY <1>3, <2>1
<1> QED BY <1>4, <1>5, <1>6

\* What it is to be certain, for one setting.
LEMMA CertainMeans ==
  \A s : s \in Certain <=> s \in Settings /\ s \notin risky /\ \A v \in Workers : At(v, "stored") => Name(v) # s
BY DEF Certain, Storing

\* A step of w leaves the others at their steps.
LEMMA OthersKept ==
  ASSUME NEW w \in Workers, Passes(w)
  PROVE  /\ \A v \in Workers \ {w} :
              /\ v \in Replacing' <=> v \in Replacing
              /\ \A step : At(v, step)' <=> At(v, step)
         /\ \A v \in Workers : Name(v)' = Name(v) /\ Value(v)' = Value(v)
BY DEF Passes, Name, Value, Replacing, At

\* The replacement saves the setup: whoever replaces already has met another,
LEMMA ReplaceSavesKeeps ==
  ASSUME PoolInv, SetupInv, NEW w \in Workers, Effect(w), ReplaceSaves(w)
  PROVE  SetupInv'
<1>1. Runs(w, "Setup.Set") /\ Name(w) \in Unknown BY DEF ReplaceSaves
<1>2. /\ variable' = variable /\ lines' = lines /\ copy' = copy /\ wanted' = wanted /\ risky' = risky
  BY DEF ReplaceSaves
<1>3. CASE SendReply(w, 501) /\ UNCHANGED <<file, unsaved, crossed>>
  <2>1. Passes(w) /\ call'[w].at = "replied" BY <1>3, ReplyPasses DEF PoolInv
  <2>2. UNCHANGED setupVars BY <1>2, <1>3 DEF setupVars, setup
  <2> QED BY <1>1, <2>1, <2>2, SetupFrame DEF Runs
<1>4. CASE Value(w) # "invalid"
  <2>1. /\ file' = Written(variable, lines) /\ unsaved' = {} /\ Go(w, "saved")
        /\ crossed' = IF Replacing = {} THEN crossed ELSE crossed \union Replacing \union {w}
    BY <1>4 DEF ReplaceSaves, SavedFirst
  <2>2. Saves BY <1>2, <2>1 DEF Saves, Written
  <2>3. Passes(w) /\ call'[w].at = "saved" BY <2>1, GoPasses DEF PoolInv
  <2>4. /\ \A v \in Workers \ {w} : (v \in Replacing' <=> v \in Replacing)
           /\ \A step : At(v, step)' <=> At(v, step)
        /\ \A v \in Workers : Name(v)' = Name(v) /\ Value(v)' = Value(v)
    BY <2>3, OthersKept
  <2>5. w \in Replacing' /\ w \notin Replacing /\ ~At(w, "stored") /\ ~At(w, "stored")' /\ ~At(w, "loaded")'
    BY <1>1, <2>3 DEF Replacing, At, Runs
  <2>6. Certain' = Certain BY <1>2, <2>4, <2>5 DEF Certain, Storing
  <2>7. file' \in [Settings -> SettingValues] /\ (\A s \in Settings : file'[s] = Known(s)')
    BY <1>2, <2>2, SavesTrue DEF SetupInv, SetupTypes
  <2>8. SetupTypes'
    <3>1. \A v \in Replacing' : Name(v)' \in Unknown BY <1>1, <2>4 DEF SetupInv, SetupTypes, Replacing
    <3> QED BY <1>2, <2>7, <3>1 DEF SetupInv, SetupTypes
  <2>9. SettingsTrue'
    <3>1. \A s \in Certain : Known(s)' = wanted'[s] /\ file'[s] = wanted'[s]
      BY <1>2, <2>7 DEF SetupInv, SettingsTrue, SettingTrue, Known, Certain
    <3>2. \A s \in Certain' : SettingTrue(s)' BY <2>6, <3>1 DEF SettingTrue
    <3> QED BY <3>2 DEF SettingsTrue
  <2>10. CopiesTrue' BY <1>2, <2>4, <2>5, <2>6 DEF SetupInv, CopiesTrue
  <2>11. NewIsRisky' BY <2>1 DEF NewIsRisky
  <2>12. \A v \in Workers : At(v, "stored") => v \in Replacing BY DEF At, Replacing
  <2>13. StoredAlone' BY <2>1, <2>4, <2>5, <2>12 DEF StoredAlone, Storing
  <2>14. TogetherCrossed' BY <2>1, <2>4, <2>5 DEF TogetherCrossed, Replacing
  <2> QED BY <2>8, <2>9, <2>10, <2>11, <2>13, <2>14 DEF SetupInv
<1> QED BY <1>2, <1>3, <1>4 DEF ReplaceSaves

\* loads the file into a second list: what is certain was saved,
LEMMA ReplaceLoadsKeeps ==
  ASSUME PoolInv, SetupInv, NEW w \in Workers, Effect(w), ReplaceLoads(w)
  PROVE  SetupInv'
<1>1. /\ At(w, "saved") /\ copy' = [copy EXCEPT ![w] = file]
      /\ variable' = variable /\ lines' = lines /\ file' = file /\ wanted' = wanted /\ unsaved' = unsaved
  BY DEF ReplaceLoads, setup
<1>2. \/ Passes(w) /\ call'[w].at = "replied" /\ Noted(w, {})
      \/ Passes(w) /\ call'[w].at = "loaded" /\ risky' = risky /\ crossed' = crossed
  <2>1. CASE file[Name(w)] = ""
    <3>1. SendReply(w, 900) /\ Noted(w, {}) BY <2>1 DEF ReplaceLoads
    <3> QED BY <3>1, ReplyPasses DEF PoolInv
  <2>2. CASE file[Name(w)] # ""
    <3>1. Go(w, "loaded") /\ risky' = risky /\ crossed' = crossed BY <2>2 DEF ReplaceLoads
    <3> QED BY <3>1, GoPasses DEF PoolInv
  <2> QED BY <2>1, <2>2
<1>3. /\ \A v \in Workers \ {w} : (v \in Replacing' <=> v \in Replacing)
         /\ \A step : At(v, step)' <=> At(v, step)
      /\ \A v \in Workers : Name(v)' = Name(v) /\ Value(v)' = Value(v)
  BY <1>2, OthersKept
<1>4. risky' = risky /\ (crossed' = crossed
        \/ (crossed' = (crossed \union Replacing) \ {w} /\ w \notin Replacing'))
  BY <1>2 DEF Noted, Replacing
<1>5. w \in Replacing /\ ~At(w, "stored") /\ ~At(w, "stored")' BY <1>1, <1>2 DEF Replacing, At
<1>6. Certain' = Certain BY <1>3, <1>4, <1>5 DEF Certain, Storing
<1>7. SetupTypes'
  <2>1. \A v \in Replacing' : Name(v)' \in Unknown BY <1>3, <1>5 DEF SetupInv, SetupTypes, Replacing
  <2> QED BY <1>1, <2>1 DEF SetupInv, SetupTypes
<1>8. SettingsTrue'
  <2>1. \A s \in Certain : SettingTrue(s)' BY <1>1 DEF SetupInv, SettingsTrue, SettingTrue, Known
  <2> QED BY <1>6, <2>1 DEF SettingsTrue
<1>9. CopiesTrue'
  <2>1. \A s \in Certain : file[s] = wanted[s]
    BY <1>5 DEF SetupInv, SettingsTrue, SettingTrue, NewIsRisky, Certain
  <2>2. copy'[w] = file /\ \A v \in Workers \ {w} : copy'[v] = copy[v] BY <1>1 DEF SetupInv, SetupTypes
  <2>3. \A v \in Workers : At(v, "loaded")' => \A s \in Certain : copy'[v][s] = wanted[s]
    BY <1>3, <2>1, <2>2 DEF SetupInv, CopiesTrue
  <2> QED BY <1>1, <1>6, <2>3 DEF CopiesTrue
<1>10. NewIsRisky' BY <1>1, <1>4, <1>5 DEF SetupInv, NewIsRisky
<1>11. \A v \in Workers : At(v, "stored") => v \in Replacing BY DEF At, Replacing
<1>12. StoredAlone' BY <1>1, <1>3, <1>4, <1>5, <1>11 DEF SetupInv, StoredAlone, Storing
<1>13. TogetherCrossed'
  <2>1. Replacing' \subseteq Replacing BY <1>3, <1>5 DEF Replacing
  <2> QED BY <1>4, <2>1 DEF SetupInv, TogetherCrossed
<1> QED BY <1>7, <1>8, <1>9, <1>10, <1>12, <1>13 DEF SetupInv

\* writes that list with the new line: from now on this setting is not certain,
LEMMA ReplaceStoresKeeps ==
  ASSUME PoolInv, SetupInv, NEW w \in Workers, Effect(w), ReplaceStores(w)
  PROVE  SetupInv'
<1>0. PICK n, x : n = Name(w) /\ x = Value(w) OBVIOUS
<1>1. /\ At(w, "loaded") /\ file' = [copy[w] EXCEPT ![n] = x] /\ copy' = [copy EXCEPT ![w] = Blank]
         /\ Go(w, "stored")
      /\ variable' = variable /\ lines' = lines /\ wanted' = wanted /\ unsaved' = unsaved /\ risky' = risky
         /\ crossed' = crossed
  BY <1>0 DEF ReplaceStores
<1>2. Passes(w) /\ call'[w].at = "stored" BY <1>1, GoPasses DEF PoolInv
<1>3. /\ \A v \in Workers \ {w} : (v \in Replacing' <=> v \in Replacing)
         /\ \A step : At(v, step)' <=> At(v, step)
      /\ \A v \in Workers : Name(v)' = Name(v) /\ Value(v)' = Value(v)
  BY <1>2, OthersKept
<1>4. w \in Replacing /\ w \in Replacing' /\ At(w, "stored")' /\ ~At(w, "loaded")'
  BY <1>1, <1>2 DEF Replacing, At
<1>5. Replacing' = Replacing BY <1>3, <1>4 DEF Replacing
<1>6. n \in Settings /\ x \in SettingValues
  <2>1. call[w].method = "Setup.Set" BY <1>1, OnWay DEF PoolInv, OnTheWay, At
  <2> QED BY <1>0, <1>1, <2>1, SetNames DEF PoolInv, At
<1>7. ASSUME NEW s \in Certain' PROVE s \in Certain /\ s # n
  <2>1. s \in Settings /\ s \notin risky' /\ \A v \in Workers : At(v, "stored")' => Name(v)' # s
    BY DEF Certain, Storing
  <2>2. Name(w) # s BY <1>3, <1>4, <2>1
  <2>3. \A v \in Workers : At(v, "stored") => Name(v) # s
    <3>1. CASE \E v \in Workers \ {w} : At(v, "stored") /\ Name(v) = s BY <1>3, <2>1, <3>1
    <3> QED BY <2>2, <3>1
  <2> QED BY <1>0, <1>1, <2>1, <2>2, <2>3, CertainMeans
<1>8. file' \in [Settings -> SettingValues] /\ file'[n] = x /\ \A s \in Settings \ {n} : file'[s] = copy[w][s]
  BY <1>1, <1>6 DEF SetupInv, SetupTypes
<1>9. SetupTypes'
  <2>1. \A v \in Replacing' : Name(v)' \in Unknown BY <1>3, <1>5 DEF SetupInv, SetupTypes, Replacing
  <2>2. Blank \in [Settings -> SettingValues] BY DEF Blank, SettingValues
  <2> QED BY <1>1, <1>8, <2>1, <2>2 DEF SetupInv, SetupTypes
<1>10. SettingsTrue'
  <2>1. \A s \in Certain' : Known(s)' = wanted'[s] /\ file'[s] = wanted'[s]
    BY <1>1, <1>7, <1>8 DEF SetupInv, SettingsTrue, SettingTrue, Known, CopiesTrue, Certain
  <2> QED BY <2>1 DEF SettingsTrue, SettingTrue
<1>11. CopiesTrue'
  <2>1. \A v \in Workers \ {w} : copy'[v] = copy[v] BY <1>1 DEF SetupInv, SetupTypes
  <2> QED BY <1>1, <1>3, <1>4, <1>7, <2>1 DEF SetupInv, CopiesTrue
<1>12. NewIsRisky' BY <1>1, <1>5 DEF SetupInv, NewIsRisky
<1>13. StoredAlone'
  <2>1. \A v \in Workers \ {w} : At(v, "stored") => v \in Replacing /\ v \in crossed
    BY <1>4 DEF SetupInv, TogetherCrossed, Replacing, At
  <2> QED BY <1>0, <1>1, <1>3, <1>8, <2>1 DEF StoredAlone, Storing
<1>14. TogetherCrossed' BY <1>1, <1>5 DEF SetupInv, TogetherCrossed
<1> QED BY <1>9, <1>10, <1>11, <1>12, <1>13, <1>14 DEF SetupInv

\* and loads it back: without another replacement the file still has the new
\* line.
LEMMA ReplaceReloadsKeeps ==
  ASSUME PoolInv, SetupInv, NEW w \in Workers, Effect(w), ReplaceReloads(w)
  PROVE  SetupInv'
<1>0. PICK n, x : n = Name(w) /\ x = Value(w) OBVIOUS
<1>1. /\ At(w, "stored") /\ lines' = [s \in Free |-> file[s]] /\ variable' = [b \in Bound |-> file[b]]
         /\ unsaved' = {}
      /\ wanted' = [wanted EXCEPT ![n] = x] /\ file' = file /\ copy' = copy /\ Noted(w, {n})
         /\ SendReply(w, 900)
  BY <1>0 DEF ReplaceReloads
<1>2. Passes(w) /\ call'[w].at = "replied" BY <1>1, ReplyPasses DEF PoolInv
<1>3. /\ \A v \in Workers \ {w} : (v \in Replacing' <=> v \in Replacing)
         /\ \A step : At(v, step)' <=> At(v, step)
      /\ \A v \in Workers : Name(v)' = Name(v) /\ Value(v)' = Value(v)
  BY <1>2, OthersKept
<1>4. w \in Replacing /\ w \notin Replacing' /\ ~At(w, "stored")' /\ ~At(w, "loaded")'
  BY <1>1, <1>2 DEF Replacing, At
<1>5. n \in Settings /\ x \in SettingValues
  <2>1. call[w].method = "Setup.Set" BY <1>1, OnWay DEF PoolInv, OnTheWay, At
  <2> QED BY <1>0, <1>1, <2>1, SetNames DEF PoolInv, At
<1>6. /\ Replacing' \subseteq crossed'
      /\ risky \ {n} \subseteq risky'
      /\ (Replacing' # {} \/ w \in crossed) => n \in risky'
  BY <1>1, <1>3, <1>4 DEF Noted, Replacing
<1>7. \A s \in Settings : Known(s)' = file[s]
  BY <1>1, BoundApart DEF Known
<1>8. wanted'[n] = x /\ \A s \in Settings \ {n} : wanted'[s] = wanted[s]
  BY <1>1, <1>5 DEF SetupInv, SetupTypes
<1>9. ASSUME NEW s \in Certain', s # n PROVE s \in Certain
  <2>1. s \in Settings /\ s \notin risky' /\ \A v \in Workers : At(v, "stored")' => Name(v)' # s
    BY DEF Certain, Storing
  <2>2. \A v \in Workers : At(v, "stored") => Name(v) # s BY <1>0, <1>3, <1>9, <2>1
  <2> QED BY <1>6, <1>9, <2>1, <2>2, CertainMeans
<1>10. \A s \in Certain : file[s] = wanted[s]
  BY <1>4 DEF SetupInv, SettingsTrue, SettingTrue, NewIsRisky, Certain
<1>11. SetupTypes'
  <2>1. \A v \in Replacing' : Name(v)' \in Unknown BY <1>3, <1>4 DEF SetupInv, SetupTypes, Replacing
  <2>2. lines' \in [Free -> SettingValues] /\ variable' \in [Bound -> SettingValues]
    BY <1>1, BoundApart DEF SetupInv, SetupTypes
  <2>3. wanted' \in [Settings -> SettingValues] BY <1>1, <1>5 DEF SetupInv, SetupTypes
  <2> QED BY <1>1, <2>1, <2>2, <2>3 DEF SetupInv, SetupTypes
<1>12. SettingsTrue'
  <2>1. ASSUME NEW s \in Certain' PROVE file[s] = wanted'[s]
    <3>1. CASE s # n BY <1>8, <1>9, <1>10, <2>1, <3>1 DEF Certain
    <3>2. CASE s = n
      <4>1. w \notin crossed BY <1>6, <2>1, <3>2 DEF Certain
      <4> QED BY <1>0, <1>1, <1>8, <3>2, <4>1 DEF SetupInv, StoredAlone, Storing
    <3> QED BY <3>1, <3>2
  <2>2. \A s \in Certain' : SettingTrue(s)' BY <1>1, <1>7, <2>1 DEF SettingTrue, Certain
  <2> QED BY <2>2 DEF SettingsTrue
<1>13. CopiesTrue'
  <2>1. ASSUME NEW v \in Workers, At(v, "loaded")', NEW s \in Certain' PROVE copy'[v][s] = wanted'[s]
    <3>1. v # w /\ At(v, "loaded") BY <1>3, <1>4, <2>1
    <3>2. v \in Replacing' BY <2>1 DEF Replacing, At
    <3>3. s # n BY <1>6, <3>2 DEF Certain
    <3>4. s \in Certain /\ wanted'[s] = wanted[s] BY <1>8, <1>9, <3>3 DEF Certain
    <3> QED BY <1>1, <3>1, <3>4 DEF SetupInv, CopiesTrue
  <2> QED BY <2>1 DEF CopiesTrue
<1>14. NewIsRisky' BY <1>1 DEF NewIsRisky
<1>15. StoredAlone'
  <2>1. \A v \in Workers : At(v, "stored")' => v \in Replacing' BY DEF Replacing, At
  <2> QED BY <1>6, <2>1 DEF StoredAlone, Storing
<1>16. TogetherCrossed' BY <1>6 DEF TogetherCrossed
<1> QED BY <1>11, <1>12, <1>13, <1>14, <1>15, <1>16 DEF SetupInv

\* VDR sets a variable.
LEMMA VdrSetsKeeps ==
  ASSUME PoolInv, SetupInv, NEW b \in Bound, NEW v \in Values, VdrSets(b, v)
  PROVE  SetupInv'
<1>1. /\ variable' = [variable EXCEPT ![b] = v] /\ wanted' = [wanted EXCEPT ![b] = v]
         /\ unsaved' = unsaved \union {b}
      /\ risky' = (IF Replacing # {} THEN risky \union {b} ELSE risky \ {b})
      /\ lines' = lines /\ file' = file /\ copy' = copy /\ crossed' = crossed /\ call' = call
  BY DEF VdrSets, poolVars
<1>2. /\ Replacing' = Replacing /\ Storing' = Storing /\ \A w \in Workers : At(w, "loaded")' <=> At(w, "loaded")
      /\ \A w \in Workers : Name(w)' = Name(w) /\ Value(w)' = Value(w)
  BY <1>1 DEF Replacing, Storing, At, Name, Value
<1>3. b \in Settings /\ v \in SettingValues BY DEF Settings, SettingValues
<1>4. {Name(w) : w \in Storing}' = {Name(w) : w \in Storing} BY <1>2 DEF Storing
<1>5. \A s \in Certain' : s \in Settings /\ (s # b => s \in Certain)
  BY <1>1, <1>2, <1>4 DEF Certain
<1>6. SetupTypes' BY <1>1, <1>2, <1>3 DEF SetupInv, SetupTypes, Replacing
<1>7. variable'[b] = v /\ wanted'[b] = v /\ \A s \in Settings \ {b} : wanted'[s] = wanted[s]
        /\ (s \in Bound => variable'[s] = variable[s])
  BY <1>1, <1>3 DEF SetupInv, SetupTypes
<1>8. SettingsTrue'
  <2>1. ASSUME NEW s \in Certain' PROVE SettingTrue(s)'
    <3>1. CASE s = b BY <1>1, <1>7, <3>1 DEF SettingTrue, Known
    <3>2. CASE s # b
      <4>1. s \in Certain /\ Known(s)' = Known(s) /\ wanted'[s] = wanted[s]
        BY <1>1, <1>5, <1>7, <3>2 DEF Known
      <4> QED BY <1>1, <3>2, <4>1 DEF SetupInv, SettingsTrue, SettingTrue
    <3> QED BY <3>1, <3>2
  <2> QED BY <2>1 DEF SettingsTrue
<1>9. CopiesTrue'
  <2>1. ASSUME NEW w \in Workers, At(w, "loaded")', NEW s \in Certain' PROVE copy'[w][s] = wanted'[s]
    <3>1. w \in Replacing /\ At(w, "loaded") BY <1>2, <2>1 DEF Replacing, At
    <3>2. s # b BY <1>1, <3>1 DEF Certain
    <3>3. s \in Certain /\ wanted'[s] = wanted[s] BY <1>5, <1>7, <3>2
    <3> QED BY <1>1, <3>1, <3>3 DEF SetupInv, CopiesTrue
  <2> QED BY <2>1 DEF CopiesTrue
<1>10. NewIsRisky' BY <1>1, <1>2 DEF SetupInv, NewIsRisky
<1>11. StoredAlone' BY <1>1, <1>2 DEF SetupInv, StoredAlone, Storing
<1>12. TogetherCrossed' BY <1>1, <1>2 DEF SetupInv, TogetherCrossed
<1> QED BY <1>6, <1>8, <1>9, <1>10, <1>11, <1>12 DEF SetupInv

\* What a method does keeps the invariant of the setup.
LEMMA SetupMethodKeeps ==
  ASSUME PoolInv, SetupInv, NEW w \in Workers, Method(w)
  PROVE  SetupInv'
<1>1. Effect(w) BY MethodEffect DEF PoolInv
<1>2. ASSUME UNCHANGED setupVars, call[w].at \notin {"saved", "loaded", "stored"},
             call'[w].at \notin {"saved", "loaded", "stored"}
      PROVE  SetupInv'
  BY <1>1, <1>2, SetupFrame DEF Effect
<1>3. CASE call[w].method \notin SetupMethods /\ UNCHANGED setupVars
  <2>1. call[w].at \notin {"saved", "loaded", "stored"} /\ call'[w].at \notin {"saved", "loaded", "stored"}
    BY <1>1, <1>3, OnWay DEF Effect, OnTheWay, SetupMethods, PoolInv
  <2> QED BY <1>2, <1>3, <2>1
<1>4. ASSUME UNCHANGED setupVars, call[w].at = "queued", call[w].method \in {"Setup.Get", "Setup.List"}
      PROVE SetupInv'
  <2>1. call'[w].at \notin {"saved", "loaded", "stored"} BY <1>1, <1>4 DEF Effect, OnTheWay
  <2> QED BY <1>2, <1>4, <2>1
<1>5. CASE Get(w)
  <2>1. UNCHANGED setupVars /\ Runs(w, "Setup.Get") BY <1>5 DEF Get
  <2> QED BY <1>4, <2>1 DEF Runs
<1>6. CASE List(w)
  <2>1. UNCHANGED setupVars /\ Runs(w, "Setup.List") BY <1>6 DEF List
  <2> QED BY <1>4, <2>1 DEF Runs
<1>7. CASE SetupMethod(w)
  BY <1>1, <1>5, <1>6, <1>7, SetBoundKeeps, SaveBoundKeeps, SetPluginOrNewKeeps, ReplaceSavesKeeps,
     ReplaceLoadsKeeps,
     ReplaceStoresKeeps, ReplaceReloadsKeeps, DelKeeps DEF SetupMethod
<1> QED BY <1>3, <1>7, MethodsApart DEF PoolInv

\* Every step does.
LEMMA SetupNext ==
  ASSUME PoolInv, SetupInv, [Next]_vars
  PROVE  SetupInv'
<1>1. ASSUME NEW w \in Workers, Called(w) PROVE SetupInv'
  <2>1. PICK c \in Possible : handle_method_call(w, c.method, c.arg) BY <1>1 DEF Called, Possible
  <2>2. call[w].at = "idle" /\ call'[w].at = "queued" /\ (\A v \in Workers \ {w} : call'[v] = call[v])
    BY <2>1 DEF handle_method_call, PoolInv, CallInv, NoCall
  <2>3. UNCHANGED setupVars BY <1>1 DEF Called, Elsewhere
  <2> QED BY <2>2, <2>3, AsideKeeps
<1>2. ASSUME NEW w \in Workers, Leaves(w) PROVE SetupInv'
  <2>1. call[w].at = "replied" /\ call'[w].at = "idle" /\ (\A v \in Workers \ {w} : call'[v] = call[v])
    BY <1>2 DEF Leaves, Left, PoolInv, CallInv, NoCall, At
  <2>2. UNCHANGED setupVars BY <1>2 DEF Leaves, Elsewhere
  <2> QED BY <2>1, <2>2, AsideKeeps
<1>3. CASE Besides
  <2>1. call' = call BY <1>3, BesidesKeeps
  <2>2. (\E b \in Bound, v \in Values : VdrSets(b, v)) \/ UNCHANGED setupVars BY <1>3 DEF Besides, Elsewhere
  <2>3. CASE UNCHANGED setupVars BY <2>1, <2>3, StillKeeps DEF Replacing, Storing, At, Name, Value
  <2> QED BY <2>2, <2>3, VdrSetsKeeps
<1>4. CASE UNCHANGED vars BY <1>4, StillKeeps DEF vars, poolVars, Replacing, Storing, At, Name, Value
<1> QED BY <1>1, <1>2, <1>3, <1>4, SetupMethodKeeps DEF Next

\* At first VDR knows what is in the file.
LEMMA SetupInitially == ASSUME Init PROVE SetupInv
<1>1. /\ variable = [b \in Bound |-> AnyValue] /\ file = Written(variable, lines)
         /\ copy = [w \in Workers |-> Blank]
      /\ wanted = file /\ unsaved = {} /\ risky = {} /\ crossed = {} /\ call = [w \in Workers |-> NoCall]
  BY DEF Init, SetupInit, PoolInit
<1>2. AnyValue \in SettingValues BY SetupAssumption DEF AnyValue, SettingValues
<1>3. \E some : lines = [s \in Free |-> IF s \in some THEN AnyValue ELSE ""] BY DEF Init, SetupInit
<1>4. lines \in [Free -> SettingValues] BY <1>2, <1>3 DEF SettingValues
<1>5. file = [s \in Settings |-> IF s \in Bound THEN variable[s] ELSE lines[s]] BY <1>1 DEF Written
<1>6. variable \in [Bound -> SettingValues] BY <1>1, <1>2
<1>7. file \in [Settings -> SettingValues] /\ \A s \in Settings : Known(s) = file[s]
  BY <1>4, <1>5, <1>6, BoundApart DEF Known
<1>8. copy \in [Workers -> [Settings -> SettingValues]] BY <1>1 DEF Blank, SettingValues
<1>9. Replacing = {} /\ Storing = {} /\ \A w \in Workers : ~At(w, "loaded")
  BY <1>1 DEF Replacing, Storing, At, NoCall
<1>10. SettingsTrue BY <1>1, <1>7 DEF SettingsTrue, SettingTrue, Certain
<1>11. SetupTypes BY <1>1, <1>4, <1>6, <1>7, <1>8, <1>9 DEF SetupTypes
<1> QED BY <1>9, <1>10, <1>11 DEF SetupInv, CopiesTrue, NewIsRisky, StoredAlone, TogetherCrossed

\* THE SETTINGS: a setting has the value it was set to last, in VDR and, once
\* saved, in setup.conf, however sets, replacements, deletions and loads are
\* interleaved; but for a setting changed while a line was being replaced, and
\* for a line that is written and not yet loaded back (setup.c:431-442).
THEOREM SettingsAreSaved == Spec => []SetupSaved
<1>1. SetupInv => SetupSaved BY SavedMeans DEF SetupInv
<1>2. PoolInv /\ SetupInv /\ [Next]_vars => SetupInv' BY SetupNext
<1> QED BY PoolAlways, SetupInitially, <1>1, <1>2, PTL DEF Spec

-----------------------------------------------------------------------------
(***************************************************************************)
(* Refusals. wrote notes whether a call has changed anything of VDR.       *)
(***************************************************************************)

\* Steps before which a call changes nothing.
NoWrite == {"idle", "queued", "ask", "asking", "switch", "parsed", "stop", "clear", "put", "entries"}

\* A call that has changed nothing yet, or is answered with no.
Refuses(w) ==
  \/ call[w].at \in NoWrite
  \/ call[w].at \in {"remove", "replied"} /\ call[w].code \in Refusals /\ call[w].method # "Epg.PutEntry"

\* Who still reads a file has answered that it begins.
Answered(w) == call[w].at = "read" => call[w].code = 0

\* A call that refuses has changed nothing.
RefusedInv ==
  /\ wrote \in [Workers -> BOOLEAN]
  /\ \A w \in Workers : Answered(w)
  /\ \A w \in Workers : Refuses(w) => ~wrote[w]

\* Who refuses after an answer has answered with no,
LEMMA Answers ==
  ASSUME CallInv, NEW w \in Workers, NEW code, NEW value, Return(w, code, value), Refuses(w)'
  PROVE  code \in Refusals
BY ReturnPasses DEF Refuses, NoWrite

\* with a value or without.
LEMMA ReplyAnswers ==
  ASSUME CallInv, NEW w \in Workers, NEW code, SendReply(w, code), Refuses(w)'
  PROVE  code \in Refusals
BY Answers DEF SendReply

\* A step of the channels after which the call refuses has changed nothing, and
\* neither had the call before.
LEMMA ChannelsClean ==
  ASSUME CallInv, NEW w \in Workers, ChannelsMethod(w), Refuses(w)'
  PROVE  Refuses(w) /\ UNCHANGED current
<1>1. CASE Count(w)
  BY <1>1, OnWay, GoPasses, ReturnPasses, ReplyPasses, RemovePasses
  DEF Count, Refuses, NoWrite, Refusals, DBusError, Passes, Runs, At, OnTheWay, Reads
<1>2. CASE Current(w)
  BY <1>2, OnWay, GoPasses, ReturnPasses, ReplyPasses, RemovePasses
  DEF Current, Refuses, NoWrite, Refusals, DBusError, Passes, Runs, At, OnTheWay, Reads
<1>3. CASE GetFromTo(w)
  BY SMTT(30), <1>3, OnWay, GoPasses, ReturnPasses, ReplyPasses, RemovePasses
  DEF GetFromTo, Refuses, NoWrite, Refusals, DBusError, Passes, Runs, At, OnTheWay, Reads
<1>4. CASE ChannelsList(w)
  BY ZenonT(30), <1>4, OnWay, GoPasses, ReturnPasses, ReplyPasses, RemovePasses
  DEF ChannelsList, Refuses, NoWrite, Refusals, DBusError, Passes, Runs, At, OnTheWay, Reads
<1> QED BY <1>1, <1>2, <1>3, <1>4 DEF ChannelsMethod

\* A step of the remote control after which the call refuses has changed nothing,
\* and neither had the call before.
LEMMA RemoteClean ==
  ASSUME CallInv, NEW w \in Workers, RemoteMethod(w), Refuses(w)'
  PROVE  Refuses(w) /\ UNCHANGED <<vdrRemote, current>>
<1>1. CASE CallPlugin(w)
  BY <1>1, OnWay, GoPasses, ReturnPasses, ReplyPasses, RemovePasses
  DEF CallPlugin, Refuses, NoWrite, Refusals, DBusError, Passes, Runs, At, OnTheWay, vdrRemote, remoteVars,
      Same
<1>2. CASE SetEnabled(w)
  BY <1>2, OnWay, GoPasses, ReturnPasses, ReplyPasses, RemovePasses
  DEF SetEnabled, Refuses, NoWrite, Refusals, DBusError, Passes, Runs, At, OnTheWay, vdrRemote, remoteVars,
      Same
<1>3. CASE RemoteStatus(w)
  BY <1>3, OnWay, GoPasses, ReturnPasses, ReplyPasses, RemovePasses
  DEF RemoteStatus, Refuses, NoWrite, Refusals, DBusError, Passes, Runs, At, OnTheWay, vdrRemote, remoteVars,
      Same
<1>4. CASE HitKey(w)
  BY <1>4, OnWay, GoPasses, ReturnPasses, ReplyPasses, RemovePasses
  DEF HitKey, Refuses, NoWrite, Refusals, DBusError, Passes, Runs, At, OnTheWay, vdrRemote, remoteVars, Same
<1>5. CASE HitKeys(w)
  <2>1. Runs(w, "Remote.HitKeys") /\ UNCHANGED <<enabled, pluginCall, volume, muted, current>>
    BY <1>5 DEF HitKeys
  <2>2. CASE KnownKeys(call[w].arg) = <<>>
    <3>1. keys' = keys BY <1>5, <2>2 DEF HitKeys
    <3> QED BY <2>1, <3>1 DEF Refuses, NoWrite, Runs, vdrRemote
  <2>3. CASE KnownKeys(call[w].arg) # <<>>
    <3>1. KnownKeys(call[w].arg) = call[w].arg BY <2>3 DEF KnownKeys
    <3>2. SendReply(w, 250) BY <1>5, <2>3, <3>1 DEF HitKeys
    <3> QED BY <3>2, ReplyAnswers DEF Refusals, DBusError
  <2> QED BY <2>2, <2>3
<1>6. CASE AskTest(w)
  BY <1>6, OnWay, GoPasses, ReturnPasses, ReplyPasses, RemovePasses
  DEF AskTest, Refuses, NoWrite, Refusals, DBusError, Passes, Runs, At, OnTheWay, vdrRemote, remoteVars, Same
<1>7. CASE AskOpen(w)
  BY <1>7, OnWay, GoPasses, ReturnPasses, ReplyPasses, RemovePasses
  DEF AskOpen, Refuses, NoWrite, Refusals, DBusError, Passes, Runs, At, OnTheWay, vdrRemote, remoteVars, Same
<1>8. CASE AskCall(w)
  BY <1>8, OnWay, GoPasses, ReturnPasses, ReplyPasses, RemovePasses
  DEF AskCall, Refuses, NoWrite, Refusals, DBusError, Passes, Runs, At, OnTheWay, vdrRemote, remoteVars, Same
<1>9. CASE SwitchLocks(w)
  BY <1>9, OnWay, GoPasses, ReturnPasses, ReplyPasses, RemovePasses
  DEF SwitchLocks, Refuses, NoWrite, Refusals, DBusError, Passes, Runs, At, OnTheWay, vdrRemote, remoteVars,
      Same
<1>10. CASE Zap(w)
  <2>1. At(w, "switch") /\ UNCHANGED vdrRemote BY <1>10 DEF Zap, remoteVars
  <2>2. UNCHANGED current \/ SendReply(w, 250) BY ZenonT(30), <1>10 DEF Zap
  <2> QED BY <2>1, <2>2, ReplyAnswers DEF Refuses, NoWrite, Refusals, DBusError, At
<1>11. CASE GetVolume(w)
  BY <1>11, OnWay, GoPasses, ReturnPasses, ReplyPasses, RemovePasses
  DEF GetVolume, Refuses, NoWrite, Refusals, DBusError, Passes, Runs, At, OnTheWay, vdrRemote, remoteVars,
      Same
<1>12. CASE SetVolume(w)
  <2>1. Runs(w, "Remote.SetVolume") /\ UNCHANGED <<enabled, keys, pluginCall, current>> BY <1>12 DEF SetVolume
  <2>2. UNCHANGED <<volume, muted>> \/ \E value : Return(w, 250, value) BY <1>12 DEF SetVolume
  <2> QED BY <2>1, <2>2, Answers DEF Refuses, NoWrite, Refusals, DBusError, Runs, vdrRemote
<1> QED BY <1>1, <1>2, <1>3, <1>4, <1>5, <1>6, <1>7, <1>8, <1>9, <1>10, <1>11, <1>12 DEF RemoteMethod

\* A step of the setup after which the call refuses has changed nothing, and
\* neither had the call before.
LEMMA SetupClean ==
  ASSUME CallInv, NEW w \in Workers, SetupMethod(w), Refuses(w)'
  PROVE  Refuses(w) /\ UNCHANGED setup
<1>1. CASE SetBound(w)
  BY <1>1, OnWay, GoPasses, ReturnPasses, ReplyPasses, RemovePasses
  DEF SetBound, Refuses, NoWrite, Refusals, DBusError, Passes, Runs, At, OnTheWay, setup, setupVars
<1>2. CASE SaveBound(w)
  BY <1>2, OnWay, GoPasses, ReturnPasses, ReplyPasses, RemovePasses
  DEF SaveBound, Refuses, NoWrite, Refusals, DBusError, Passes, Runs, At, OnTheWay, setup, setupVars
<1>3. CASE SetPluginOrNew(w)
  <2>1. Runs(w, "Setup.Set") BY <1>3 DEF SetPluginOrNew
  <2>2. UNCHANGED setup \/ SendReply(w, 900)
    <3>1. CASE Value(w) = "invalid" BY <1>3, <3>1 DEF SetPluginOrNew, setupVars
    <3>2. CASE Value(w) # "invalid" BY <1>3, <3>2 DEF SetPluginOrNew
    <3> QED BY <3>1, <3>2
  <2> QED BY <2>1, <2>2, ReplyAnswers DEF Refuses, NoWrite, Refusals, DBusError, Runs
<1>4. CASE ReplaceSaves(w)
  <2>1. Runs(w, "Setup.Set") /\ UNCHANGED <<variable, lines>> BY <1>4 DEF ReplaceSaves
  <2>2. UNCHANGED file \/ Go(w, "saved")
    <3>1. CASE Value(w) = "invalid" BY <1>4, <3>1 DEF ReplaceSaves
    <3>2. CASE Value(w) # "invalid" BY <1>4, <3>2 DEF ReplaceSaves
    <3> QED BY <3>1, <3>2
  <2> QED BY <2>1, <2>2, GoPasses DEF Refuses, NoWrite, Runs, setup
<1>5. CASE ReplaceLoads(w)
  <2>1. Go(w, "loaded") \/ SendReply(w, 900)
    <3>1. CASE file[Name(w)] = "" BY <1>5, <3>1 DEF ReplaceLoads
    <3>2. CASE file[Name(w)] # "" BY <1>5, <3>2 DEF ReplaceLoads
    <3> QED BY <3>1, <3>2
  <2> QED BY <2>1, GoPasses, ReplyAnswers DEF Refuses, NoWrite, Refusals, DBusError
<1>6. CASE ReplaceStores(w)
  BY <1>6, OnWay, GoPasses, ReturnPasses, ReplyPasses, RemovePasses
  DEF ReplaceStores, Refuses, NoWrite, Refusals, DBusError, Passes, Runs, At, OnTheWay, setup, setupVars
<1>7. CASE ReplaceReloads(w)
  BY <1>7, OnWay, GoPasses, ReturnPasses, ReplyPasses, RemovePasses
  DEF ReplaceReloads, Refuses, NoWrite, Refusals, DBusError, Passes, Runs, At, OnTheWay, setup, setupVars
<1>8. CASE Del(w)
  <2>1. Runs(w, "Setup.Del") BY <1>8 DEF Del
  <2>2. UNCHANGED setup \/ SendReply(w, 900) BY ZenonT(30), <1>8 DEF Del, setupVars
  <2> QED BY <2>1, <2>2, ReplyAnswers DEF Refuses, NoWrite, Refusals, DBusError, Runs
<1>9. CASE Get(w)
  BY ZenonT(30), <1>9, OnWay, GoPasses, ReturnPasses, ReplyPasses, RemovePasses
  DEF Get, Refuses, NoWrite, Refusals, DBusError, Passes, Runs, At, OnTheWay, setup, setupVars
<1>10. CASE List(w)
  BY ZenonT(30), <1>10, OnWay, GoPasses, ReturnPasses, ReplyPasses, RemovePasses
  DEF List, Refuses, NoWrite, Refusals, DBusError, Passes, Runs, At, OnTheWay, setup, setupVars
<1> QED BY <1>1, <1>2, <1>3, <1>4, <1>5, <1>6, <1>7, <1>8, <1>9, <1>10 DEF SetupMethod

\* A step of the timers after which the call refuses has changed nothing, and
\* neither had the call before.
LEMMA TimersClean ==
  ASSUME CallInv, NEW w \in Workers, TimersMethod(w), Refuses(w)'
  PROVE  Refuses(w) /\ UNCHANGED timers
<1>1. CASE TimersParse(w)
  BY <1>1, OnWay, GoPasses, ReturnPasses, ReplyPasses, RemovePasses
  DEF TimersParse, Refuses, NoWrite, Refusals, DBusError, Passes, Runs, At, OnTheWay, timersVars
<1>2. CASE TimersNew(w)
  BY <1>2, OnWay, GoPasses, ReturnPasses, ReplyPasses, RemovePasses
  DEF TimersNew, Refuses, NoWrite, Refusals, DBusError, Passes, Runs, At, OnTheWay, timersVars
<1>3. CASE TimersDelete(w)
  BY <1>3, OnWay, GoPasses, ReturnPasses, ReplyPasses, RemovePasses
  DEF TimersDelete, Refuses, NoWrite, Refusals, DBusError, Passes, Runs, At, OnTheWay, timersVars
<1>4. CASE TimersList(w)
  BY <1>4, OnWay, GoPasses, ReturnPasses, ReplyPasses, RemovePasses
  DEF TimersList, Refuses, NoWrite, Refusals, DBusError, Passes, Runs, At, OnTheWay, timersVars
<1>5. CASE TimersNext(w)
  BY <1>5, OnWay, GoPasses, ReturnPasses, ReplyPasses, RemovePasses
  DEF TimersNext, Refuses, NoWrite, Refusals, DBusError, Passes, Runs, At, OnTheWay, timersVars
<1> QED BY <1>1, <1>2, <1>3, <1>4, <1>5 DEF TimersMethod

\* A step of the recordings after which the call refuses has changed nothing, and
\* neither had the call before.
LEMMA RecordingsClean ==
  ASSUME CallInv, NEW w \in Workers, RecordingsMethod(w), Refuses(w)'
  PROVE  Refuses(w) /\ UNCHANGED <<list, rescans, resume, chosen, directories, control>>
<1>1. CASE RecordingsGet(w)
  BY <1>1, OnWay, GoPasses, ReturnPasses, ReplyPasses, RemovePasses
  DEF RecordingsGet, Refuses, NoWrite, Refusals, DBusError, Passes, Runs, At, OnTheWay, recordingsVars,
      statusVars, Same
<1>2. CASE RecordingsListed(w)
  BY <1>2, OnWay, GoPasses, ReturnPasses, ReplyPasses, RemovePasses
  DEF RecordingsListed, Refuses, NoWrite, Refusals, DBusError, Passes, Runs, At, OnTheWay, recordingsVars,
      statusVars, Same
<1>3. CASE Update(w)
  BY <1>3, OnWay, GoPasses, ReturnPasses, ReplyPasses, RemovePasses
  DEF Update, Refuses, NoWrite, Refusals, DBusError, Passes, Runs, At, OnTheWay, recordingsVars, statusVars,
      Same
<1>4. CASE ChangeName(w)
  <2>1. Runs(w, "Recordings.ChangeName") /\ UNCHANGED <<chosen, directories, statusVars>>
    BY <1>4 DEF ChangeName
  <2>2. UNCHANGED <<list, rescans, resume>> \/ SendReply(w, 250) BY ZenonT(30), <1>4 DEF ChangeName
  <2> QED BY <2>1, <2>2, ReplyAnswers DEF Refuses, NoWrite, Refusals, DBusError, Runs, statusVars
<1>5. CASE PlayFind(w)
  BY <1>5, OnWay, GoPasses, ReturnPasses, ReplyPasses, RemovePasses
  DEF PlayFind, Refuses, NoWrite, Refusals, DBusError, Passes, Runs, At, OnTheWay, recordingsVars, statusVars,
      Same
<1>6. CASE PlayStop(w)
  BY <1>6, OnWay, GoPasses, ReturnPasses, ReplyPasses, RemovePasses
  DEF PlayStop, Refuses, NoWrite, Refusals, DBusError, Passes, Runs, At, OnTheWay, recordingsVars, statusVars,
      Same
<1>7. CASE PlayChoose(w)
  BY <1>7, OnWay, GoPasses, ReturnPasses, ReplyPasses, RemovePasses
  DEF PlayChoose, Refuses, NoWrite, Refusals, DBusError, Passes, Runs, At, OnTheWay, recordingsVars,
      statusVars, Same
<1>8. CASE PlayLaunch(w)
  BY <1>8, OnWay, GoPasses, ReturnPasses, ReplyPasses, RemovePasses
  DEF PlayLaunch, Refuses, NoWrite, Refusals, DBusError, Passes, Runs, At, OnTheWay, recordingsVars,
      statusVars, Same
<1>9. CASE Extra(w)
  <2>1. At(w, "queued") /\ UNCHANGED <<list, rescans, resume, chosen, statusVars>> BY <1>9 DEF Extra
  <2>2. UNCHANGED directories \/ SendReply(w, 250) BY <1>9 DEF Extra
  <2> QED BY <2>1, <2>2, ReplyAnswers DEF Refuses, NoWrite, Refusals, DBusError, At, statusVars
<1> QED BY <1>1, <1>2, <1>3, <1>4, <1>5, <1>6, <1>7, <1>8, <1>9 DEF RecordingsMethod

\* A step of the EPG after which the call refuses has changed nothing, and
\* neither had the call before.
LEMMA EpgClean ==
  ASSUME CallInv, NEW w \in Workers, EpgMethod(w), Answered(w), Refuses(w)'
  PROVE  Refuses(w) /\ UNCHANGED <<schedules, scanner, current>>
<1>1. CASE DisableScanner(w)
  BY <1>1, OnWay, GoPasses, ReturnPasses, ReplyPasses, RemovePasses
  DEF DisableScanner, Refuses, NoWrite, Refusals, DBusError, Passes, Runs, At, OnTheWay, epgVars, GivesUp,
      Same
<1>2. CASE EnableScanner(w)
  BY <1>2, OnWay, GoPasses, ReturnPasses, ReplyPasses, RemovePasses
  DEF EnableScanner, Refuses, NoWrite, Refusals, DBusError, Passes, Runs, At, OnTheWay, epgVars, GivesUp, Same
<1>3. CASE ClearFind(w)
  BY <1>3, OnWay, GoPasses, ReturnPasses, ReplyPasses, RemovePasses
  DEF ClearFind, Refuses, NoWrite, Refusals, DBusError, Passes, Runs, At, OnTheWay, epgVars, GivesUp, Same
<1>4. CASE ClearEPG(w)
  BY <1>4, OnWay, GoPasses, ReturnPasses, ReplyPasses, RemovePasses
  DEF ClearEPG, Refuses, NoWrite, Refusals, DBusError, Passes, Runs, At, OnTheWay, epgVars, GivesUp, Same
<1>5. CASE RemoveKey(w)
  BY <1>5, OnWay, GoPasses, ReturnPasses, ReplyPasses, RemovePasses
  DEF RemoveKey, Refuses, NoWrite, Refusals, DBusError, Passes, Runs, At, OnTheWay, epgVars, GivesUp, Same
<1>6. CASE PutEntry(w)
  BY ZenonT(30), <1>6, OnWay, GoPasses, ReturnPasses, ReplyPasses, RemovePasses
  DEF PutEntry, Refuses, NoWrite, Refusals, DBusError, Passes, Runs, At, OnTheWay, epgVars, GivesUp, Same
<1>7. CASE PutFile(w)
  BY ZenonT(30), <1>7, OnWay, GoPasses, ReturnPasses, ReplyPasses, RemovePasses
  DEF PutFile, ReplyThenRead, Refuses, NoWrite, Refusals, DBusError, Passes, Runs, At, OnTheWay, epgVars, GivesUp, Same
<1>8. CASE ReadEntries(w)
  BY <1>8, OnWay, GoPasses, ReturnPasses, ReplyPasses, RemovePasses
  DEF ReadEntries, EntriesTaken, Refuses, NoWrite, Refusals, DBusError, Passes, Runs, At, OnTheWay, epgVars, GivesUp, Same
<1>9. CASE EntriesFind(w)
  BY ZenonT(30), <1>9, OnWay, GoPasses, ReturnPasses, ReplyPasses, RemovePasses
  DEF EntriesFind, Refuses, NoWrite, Refusals, DBusError, Passes, Runs, At, OnTheWay, epgVars, GivesUp, Same
<1>10. CASE Entries(w)
  BY <1>10, OnWay, GoPasses, ReturnPasses, ReplyPasses, RemovePasses
  DEF Entries, Refuses, NoWrite, Refusals, DBusError, Passes, Runs, At, OnTheWay, epgVars, GivesUp, Same
<1>11. CASE ReadFile(w)
  <2>1. call'[w].at = "replied" /\ call'[w].code = 0 BY <1>11, GoPasses DEF ReadFile, Answered, At
  <2> QED BY <2>1 DEF Refuses, NoWrite, Refusals, DBusError
<1> QED BY <1>1, <1>2, <1>3, <1>4, <1>5, <1>6, <1>7, <1>8, <1>9, <1>10, <1>11 DEF EpgMethod

\* A file is read after an answer.
LEMMA ReadAnswered ==
  ASSUME CallInv, NEW w \in Workers, Method(w)
  PROVE  Answered(w)'
<1>1. SUFFICES ASSUME call'[w].at = "read" PROVE call'[w].code = 0 BY DEF Answered
<1>2. Effect(w) BY MethodEffect
<1>3. call[w].method = "Epg.PutFile" BY <1>1, <1>2 DEF Effect, OnTheWay
<1>4. EpgMethod(w) BY <1>3, MethodsApart DEF EpgMethods
<1>5. call[w].at # "replied" /\ call[w].at \in {"queued", "read"} BY <1>2, <1>3, OnWay DEF Effect, OnTheWay
<1>6. PutFile(w) \/ ReadFile(w)
  BY <1>3, <1>4, <1>5
  DEF EpgMethod, DisableScanner, EnableScanner, ClearFind, ClearEPG, RemoveKey, PutEntry, ReadEntries,
      EntriesFind, Entries, Runs, At
<1>7. CASE ReadFile(w) BY <1>1, <1>7, GoPasses DEF ReadFile
<1>8. CASE PutFile(w)
  <2>1. Replies(w) \/ ReplyThenRead(w) BY <1>8, ReturnReplies, SendReplyReplies DEF PutFile
  <2> QED BY <1>1, <2>1, RepliesPasses, ReadPasses
<1> QED BY <1>6, <1>7, <1>8

\* A step of the skins, the plugins and the devices after which the call refuses
\* has changed nothing, and neither had the call before.
LEMMA DeskClean ==
  ASSUME CallInv, NEW w \in Workers, DeskMethod(w), Refuses(w)'
  PROVE  Refuses(w) /\ UNCHANGED <<skin, messages, served, requested, control>>
<1>1. CASE SetSkin(w)
  <2>1. Runs(w, "Skin.SetSkin") /\ UNCHANGED <<messages, served, requested, control>>
    BY <1>1 DEF SetSkin, Aside, statusVars
  <2>2. UNCHANGED skin \/ SendReply(w, 900) BY ZenonT(30), <1>1 DEF SetSkin
  <2> QED BY <2>1, <2>2, ReplyAnswers DEF Refuses, NoWrite, Refusals, DBusError, Runs
<1>2. CASE QueueMessage(w)
  <2>1. Runs(w, "Skin.QueueMessage") /\ UNCHANGED <<skin, served, requested, control>>
    BY <1>2 DEF QueueMessage, Aside, statusVars
  <2>2. UNCHANGED messages \/ SendReply(w, 250) BY <1>2 DEF QueueMessage
  <2> QED BY <2>1, <2>2, ReplyAnswers DEF Refuses, NoWrite, Refusals, DBusError, Runs
<1>3. CASE SVDRPCommand(w)
  <2>1. Runs(w, "Plugins.SVDRPCommand") /\ UNCHANGED <<skin, messages, requested, control>>
    BY <1>3 DEF SVDRPCommand, Aside, statusVars
  <2>2. UNCHANGED served \/ SendReply(w, 900) \/ SendReply(w, 250) BY <1>3 DEF SVDRPCommand, PluginCodes
  <2> QED BY <2>1, <2>2, ReplyAnswers DEF Refuses, NoWrite, Refusals, DBusError, Runs
<1>4. CASE Service(w)
  <2>1. Runs(w, "Plugins.Service") /\ UNCHANGED <<skin, messages, requested, control>>
    BY <1>4 DEF Service, Aside, statusVars
  <2>2. CASE call[w].arg[1] \in Plugins /\ call[w].arg[2] = "done"
    <3>1. Return(w, 0, TRUE) BY <1>4, <2>2, Zenon DEF Service
    <3>2. 0 \in Refusals BY <3>1, Answers, Zenon
    <3> QED BY <3>2 DEF Refusals, DBusError
  <2>3. CASE ~(call[w].arg[1] \in Plugins /\ call[w].arg[2] = "done")
    <3>1. UNCHANGED served BY <1>4, <2>3, Zenon DEF Service
    <3> QED BY <2>1, <3>1 DEF Refuses, NoWrite, Runs
  <2> QED BY <2>2, <2>3
<1>5. CASE RequestPrimary(w)
  BY <1>5, OnWay, GoPasses, ReturnPasses, ReplyPasses, RemovePasses
  DEF RequestPrimary, Refuses, NoWrite, Refusals, DBusError, Passes, Runs, At, OnTheWay, deskVars, Aside,
      Sees, statusVars
<1>6. CASE LooksAtSkins(w)
  BY <1>6, OnWay, GoPasses, ReturnPasses, ReplyPasses, RemovePasses
  DEF LooksAtSkins, Refuses, NoWrite, Refusals, DBusError, Passes, Runs, At, OnTheWay, deskVars, Aside, Sees,
      statusVars
<1>7. CASE LooksAtPlugins(w)
  BY <1>7, OnWay, GoPasses, ReturnPasses, ReplyPasses, RemovePasses
  DEF LooksAtPlugins, Refuses, NoWrite, Refusals, DBusError, Passes, Runs, At, OnTheWay, deskVars, Aside,
      Sees, statusVars
<1>8. CASE LooksAtDevices(w)
  BY <1>8, OnWay, GoPasses, ReturnPasses, ReplyPasses, RemovePasses
  DEF LooksAtDevices, Refuses, NoWrite, Refusals, DBusError, Passes, Runs, At, OnTheWay, deskVars, Aside,
      Sees, statusVars
<1> QED BY <1>1, <1>2, <1>3, <1>4, <1>5, <1>6, <1>7, <1>8 DEF DeskMethod

\* So with every step of a method.
LEMMA MethodClean ==
  ASSUME CallInv, NEW w \in Workers, Method(w), Answered(w), Refuses(w)'
  PROVE  Refuses(w) /\ world' = world
<1> SUFFICES Refuses(w) /\ UNCHANGED <<vdrRemote, current, setup, timers>> /\
             UNCHANGED <<list, rescans, resume, chosen, directories, control>> /\
             UNCHANGED <<schedules, scanner, skin, messages, served, requested>>
  BY DEF world
<1> USE DEF Elsewhere, remoteVars, setupVars, timersVars, recordingsVars, statusVars, epgVars, deskVars
<1>1. CASE ChannelsMethod(w) /\ Elsewhere({"channels"}) BY <1>1, ChannelsClean
<1>2. CASE RemoteMethod(w) /\ Elsewhere({"remote", "channels"}) BY <1>2, RemoteClean
<1>3. CASE SetupMethod(w) /\ Elsewhere({"setup"}) BY <1>3, SetupClean
<1>4. CASE TimersMethod(w) /\ Elsewhere({"timers"}) BY <1>4, TimersClean
<1>5. CASE RecordingsMethod(w) /\ Elsewhere({"recordings", "status"}) BY <1>5, RecordingsClean
<1>6. CASE IsReplaying(w) /\ Elsewhere({"status"})
  <2>1. UNCHANGED control /\ Runs(w, "Status.IsReplaying") BY <1>6 DEF IsReplaying
  <2> QED BY <1>6, <2>1 DEF Runs, Refuses, NoWrite
<1>7. CASE EpgMethod(w) /\ Elsewhere({"epg", "channels"}) BY <1>7, EpgClean
<1>8. CASE DeskMethod(w) /\ Elsewhere({"desk", "status"}) BY <1>8, DeskClean
<1>9. CASE NotImplemented(w, Implemented) /\ Elsewhere({}) BY <1>9 DEF NotImplemented, At, Refuses, NoWrite
<1> QED BY <1>1, <1>2, <1>3, <1>4, <1>5, <1>6, <1>7, <1>8, <1>9 DEF Method

\* Every step keeps it that refusals change nothing.
LEMMA RefusedNext ==
  ASSUME PoolInv, RefusedInv, [Next]_vars
  PROVE  RefusedInv'
<1>1. ASSUME NEW w \in Workers, Called(w) \/ Leaves(w) PROVE RefusedInv'
  <2>1. /\ call'[w].at \in {"idle", "queued"} /\ (\A v \in Workers \ {w} : call'[v] = call[v])
        /\ (wrote' = wrote /\ call[w].at = "idle") \/ wrote' = [wrote EXCEPT ![w] = FALSE]
    <3>1. CASE Called(w)
      <4>1. PICK c \in Possible : handle_method_call(w, c.method, c.arg) BY <3>1 DEF Called, Possible
      <4> QED BY <3>1, <4>1 DEF Called, handle_method_call, PoolInv, CallInv, NoCall
    <3>2. CASE Leaves(w) BY <3>2 DEF Leaves, Left, PoolInv, CallInv, NoCall
    <3> QED BY <1>1, <3>1, <3>2
  <2>2. wrote' \in [Workers -> BOOLEAN] /\ ~wrote'[w] /\ \A v \in Workers \ {w} : wrote'[v] = wrote[v]
    BY <2>1 DEF RefusedInv, Refuses, NoWrite
  <2> QED BY <2>1, <2>2 DEF RefusedInv, Refuses, Answered
<1>2. ASSUME NEW w \in Workers, Method(w) PROVE RefusedInv'
  <2>1. wrote' = [wrote EXCEPT ![w] = @ \/ world' # world] BY <1>2 DEF Method
  <2>2. wrote' \in [Workers -> BOOLEAN] /\ \A v \in Workers \ {w} : wrote'[v] = wrote[v]
    BY <2>1 DEF RefusedInv
  <2>3. \A v \in Workers \ {w} : call'[v] = call[v] BY <1>2, MethodEffect DEF PoolInv, Effect, Passes
  <2>4. ASSUME Refuses(w)' PROVE ~wrote'[w]
    <3>1. Refuses(w) /\ world' = world BY <1>2, <2>4, MethodClean DEF PoolInv, RefusedInv
    <3>2. ~wrote[w] BY <3>1 DEF RefusedInv
    <3> QED BY <2>1, <3>1, <3>2 DEF RefusedInv
  <2>5. Answered(w)' BY <1>2, ReadAnswered DEF PoolInv
  <2> QED BY <2>2, <2>3, <2>4, <2>5 DEF RefusedInv, Refuses, Answered
<1>3. CASE Besides BY <1>3, BesidesKeeps DEF RefusedInv, Refuses, Answered
<1>4. CASE UNCHANGED vars BY <1>4 DEF vars, poolVars, RefusedInv, Refuses, Answered
<1> QED BY <1>1, <1>2, <1>3, <1>4 DEF Next

\* THE REFUSALS: a call that is answered with no has changed nothing of VDR, at
\* whichever of its steps it was refused (every interface; PutEntry, which may
\* have read a part of its data, is left out).
THEOREM RefusalsChangeNothing == Spec => []RefusedChangesNothing
<1>1. Init => RefusedInv BY DEF Init, PoolInit, NoCall, RefusedInv, Refuses, Answered
<1>2. RefusedInv => RefusedChangesNothing BY DEF RefusedInv, Refuses, RefusedChangesNothing, At
<1>3. PoolInv /\ RefusedInv /\ [Next]_vars => RefusedInv' BY RefusedNext
<1> QED BY PoolAlways, <1>1, <1>2, <1>3, PTL DEF Spec

-----------------------------------------------------------------------------
(***************************************************************************)
(* The types. That a greatest channel number exists takes an induction     *)
(* over the list of channels; the library's theorems on induction take an  *)
(* operator, so it is made here from the numbers' being well-founded.      *)
(***************************************************************************)

\* A set of numbers has a least one,
LEMMA Least ==
  ASSUME NEW T \in SUBSET Nat, T # {}
  PROVE  \E x \in T : \A y \in T : x <= y
<1>1. PICK x \in T : \A y \in T : ~(<<y, x>> \in OpToRel(<, Nat))
  BY NatLessThanWellFounded, WFMin, Zenon
<1>2. \A y \in T : ~(y < x)
  BY <1>1 DEF OpToRel
<1> QED BY <1>2

\* so one that has 0 and with every number the next has all numbers.
LEMMA Upwards ==
  ASSUME NEW S \in SUBSET Nat, 0 \in S, \A n \in S : n + 1 \in S
  PROVE  S = Nat
<1>1. SUFFICES ASSUME Nat \ S # {} PROVE FALSE
  OBVIOUS
<1>2. PICK x \in Nat \ S : \A y \in Nat \ S : x <= y
  BY <1>1, Least
<1>3. x # 0 /\ x - 1 \in Nat
  BY <1>2
<1>4. x - 1 \in S
  BY <1>2, <1>3
<1> QED BY <1>2, <1>3, <1>4

\* The numbers of the channels have a greatest one, if there are any.
LEMMA MaxIsNumber ==
  ASSUME Numbers # {}
  PROVE  MaxNumber \in Numbers /\ \A m \in Numbers : m <= MaxNumber
<1> DEFINE Bounds(n) == {b \in Nat : \A i \in 1..n : i <= Len(ChannelList) => ChannelList[i] <= b}
           S == {n \in Nat : Bounds(n) # {}}
<1>0. ChannelList \in Seq(Nat) /\ Numbers # {} /\ Len(ChannelList) \in Nat BY ChannelsAssumption
<1>1. 0 \in S
  <2>1. 0 \in Bounds(0) OBVIOUS
  <2> QED BY <2>1
<1>2. ASSUME NEW n \in S PROVE n + 1 \in S
  <2>0. n \in Nat /\ n + 1 \in Nat
    <3> HIDE DEF Bounds
    <3> QED OBVIOUS
  <2>1. PICK b \in Nat : \A i \in 1..n : i <= Len(ChannelList) => ChannelList[i] <= b OBVIOUS
  <2>2. CASE n + 1 <= Len(ChannelList)
    <3>1. ChannelList[n + 1] \in Nat BY <1>0, <2>2
    <3>2. \A i \in 1..(n + 1) : i <= Len(ChannelList) => ChannelList[i] \in Nat BY <1>0
    <3>3. PICK c \in Nat : b <= c /\ ChannelList[n + 1] <= c BY <3>1
    <3>4. \A i \in 1..(n + 1) : i = n + 1 \/ i \in 1..n OBVIOUS
    <3>5. c \in Bounds(n + 1) BY <2>1, <3>2, <3>3, <3>4
    <3> QED BY <3>5
  <2>3. CASE ~(n + 1 <= Len(ChannelList))
    <3>1. \A i \in 1..(n + 1) : i = n + 1 \/ i \in 1..n OBVIOUS
    <3>2. b \in Bounds(n + 1) BY <2>1, <2>3, <3>1
    <3>3. Bounds(n + 1) # {} BY <3>2
    <3> HIDE DEF Bounds
    <3> QED BY <2>0, <3>3
  <2> QED BY <2>2, <2>3
<1>3. S = Nat
  <2> HIDE DEF S
  <2>1. S \in SUBSET Nat BY DEF S
  <2>2. \A n \in S : n + 1 \in S BY <1>2
  <2> QED BY <1>1, <2>1, <2>2, Upwards
<1>4. PICK b \in Nat : \A i \in 1..Len(ChannelList) : ChannelList[i] <= b
  <2>1. Len(ChannelList) \in S BY <1>0, <1>3
  <2>2. Bounds(Len(ChannelList)) # {}
    <3> HIDE DEF Bounds
    <3> QED BY <2>1
  <2>3. PICK b \in Nat : \A i \in 1..Len(ChannelList) : i <= Len(ChannelList) => ChannelList[i] <= b BY <2>2
  <2>4. \A i \in 1..Len(ChannelList) : i <= Len(ChannelList) BY <1>0
  <2>5. \A i \in 1..Len(ChannelList) : ChannelList[i] <= b BY <2>3, <2>4
  <2> QED BY <2>5, Zenon
<1>5. Numbers \subseteq Nat /\ 0 \notin Numbers
        /\ \A m \in Numbers : \E i \in 1..Len(ChannelList) : m = ChannelList[i]
  BY <1>0 DEF Numbers, ToSet
<1> DEFINE U == {u \in Nat : \A m \in Numbers : m <= u}
<1>6. U \in SUBSET Nat /\ U # {} BY <1>4, <1>5
<1> HIDE DEF U
<1>7. PICK u \in U : \A y \in U : u <= y BY <1>6, Least
<1>8. u \in Nat /\ \A m \in Numbers : m <= u BY <1>7 DEF U
<1>9. u \in Numbers
  <2>1. SUFFICES ASSUME u \notin Numbers PROVE FALSE OBVIOUS
  <2>2. u # 0
    <3>1. PICK m \in Numbers : m \in Nat /\ m # 0 /\ m <= u BY <1>0, <1>5, <1>8
    <3> QED BY <1>8, <3>1
  <2>3. \A m \in Numbers : m <= u - 1 BY <1>5, <1>8, <2>1
  <2>4. u - 1 \in U BY <1>8, <2>2, <2>3 DEF U
  <2> QED BY <1>7, <1>8, <2>4
<1> QED BY <1>8, <1>9 DEF MaxNumber

\* A finite set can be listed, each member once.
LEMMA ListsOfSet ==
  ASSUME NEW T, IsFiniteSet(T)
  PROVE  SetToSeq(T) \in Seq(T) /\ IsInjective(SetToSeq(T))
<1>1. Cardinality(T) \in Nat /\ ExistsBijection(1..Cardinality(T), T) BY FS_CardinalityType
<1>2. \E f \in [1..Cardinality(T) -> T] : IsInjective(f)
  BY <1>1 DEF ExistsBijection, Bijection, Injection
<1>3. SetToSeq(T) \in [1..Cardinality(T) -> T] /\ IsInjective(SetToSeq(T))
  BY <1>2 DEF SetToSeq
<1> QED BY <1>1, <1>3

\* A timer.
TimerKind == [id : Nat, start : Int, active : BOOLEAN, recording : BOOLEAN]

\* The volume is between silence and the maximum, and a channel that exists is
\* on, if there is one.
RemoteTypes == volume \in 0..MaxVolume /\ muted \in BOOLEAN /\ (current \in Numbers \/ Numbers = {})

\* No two timers have the same id, and ids are not used again.
TimerTypes ==
  /\ timers \in Seq(TimerKind) /\ timerIds \in Nat
  /\ \A i \in DOMAIN timers : timers[i].id \in 1..timerIds
  /\ \A i, j \in DOMAIN timers : timers[i].id = timers[j].id => i = j

\* w has answered a call of Play that found its recording,
Successful(w) == call[w].method = "Recordings.Play" /\ At(w, "replied") /\ call[w].code = 250

\* or has found the recording.
Selected(w) == call[w].at \in {"stop", "choose", "launch"} \/ Successful(w)

\* What VDR replays, and what it would replay next, are recordings; the list has
\* each recording once; and what Play has found is one.
RecordingTypes ==
  /\ control \in Recordings \union {"none", "null"} /\ chosen \in Recordings \union {"none"}
  /\ list \in Seq(Recordings) /\ IsInjective(list)
  /\ resume \in [Recordings -> Int]
  /\ \A w \in Workers : Selected(w) => Played(w) \in Recordings

\* A channel has no schedule, or one with events.
EpgTypes == schedules \in [Numbers -> -1..MaxEvents]

\* The messages that wait to be shown.
DeskTypes == messages \in 0..MaxMessages

\* What the calls that set numbers and name recordings are called with.
LEMMA Arguments ==
  \A c \in Possible :
    /\ c.method = "Remote.SetVolume" /\ c.arg[1] = "to" => c.arg[2] \in Int
    /\ c.method = "Timers.New" => c.arg \in Int
    /\ c.method = "Recordings.Play" => c.arg \in Recording \X Positions
    /\ c.method = "Recordings.ChangeName" => c.arg \in Recording \X (Recordings \union {""})
<1> USE DEF ChannelsMethods, RemoteMethods, SetupMethods, TimersMethods, StatusMethods, RecordingsMethods,
    EpgMethods, DeskMethods
<1>1. \A c \in RemoteCalls : c.method = "Remote.SetVolume" /\ c.arg[1] = "to" => c.arg[2] \in Int
  <2> DEFINE Volumes == {<<"to", v>> : v \in {0, MaxVolume + 1}}
             Others == {<<"+">>, <<"-">>, <<"mute">>, <<"unknown">>, <<"other type">>}
  <2>1. \A c \in RemoteCalls : c.method = "Remote.SetVolume" => c.arg \in Volumes \union Others
    BY DEF RemoteCalls
  <2>2. \A a \in Volumes : \E v \in {0, MaxVolume + 1} : a = <<"to", v>>
    OBVIOUS
  <2>3. \A a \in Volumes : a[2] \in Int
    BY <2>2, RemoteAssumption
  <2>4. \A a \in Others : a[1] # "to"
    <3>1. <<"+">>[1] # "to" /\ <<"-">>[1] # "to" /\ <<"mute">>[1] # "to" /\ <<"unknown">>[1] # "to"
            /\ <<"other type">>[1] # "to"
      OBVIOUS
    <3> QED BY <3>1, Zenon
  <2> HIDE DEF Volumes, Others
  <2> QED BY <2>1, <2>3, <2>4
<1>2. \A c \in TimersCalls : c.method = "Timers.New" => c.arg \in Int
  <2>1. \A c \in TimersCalls : c.method = "Timers.New" => c.arg \in Starts \union {0, -1}
    BY DEF TimersCalls
  <2>2. Starts \union {0, -1} \subseteq Int BY TimersAssumption
  <2> QED BY <2>1, <2>2, Zenon
<1>3. \A c \in RecordingsCalls : /\ c.method = "Recordings.Play" => c.arg \in Recording \X Positions
                                 /\ c.method = "Recordings.ChangeName"
                                    => c.arg \in Recording \X (Recordings \union {""})
  BY DEF RecordingsCalls
<1>4. \A c \in Possible : c \in RemoteCalls \/ c.method # "Remote.SetVolume"
  BY ChannelsOffered, SetupOffered, TimersOffered, StatusOffered, RecordingsOffered, EpgOffered, DeskOffered
  DEF Possible, KnownCalls, UnknownCall
<1>5. \A c \in Possible : c \in TimersCalls \/ c.method # "Timers.New"
  BY ChannelsOffered, SetupOffered, RemoteOffered, StatusOffered, RecordingsOffered, EpgOffered, DeskOffered
  DEF Possible, KnownCalls, UnknownCall
<1>6. \A c \in Possible : c \in RecordingsCalls \/ c.method \notin {"Recordings.Play", "Recordings.ChangeName"}
  BY ChannelsOffered, SetupOffered, TimersOffered, StatusOffered, RemoteOffered, EpgOffered, DeskOffered
  DEF Possible, KnownCalls, UnknownCall
<1> QED BY <1>1, <1>2, <1>3, <1>4, <1>5, <1>6

\* The remote control keeps its types: a volume is bounded, and a channel is
\* switched to only if it exists.
LEMMA RemoteTypesStep ==
  ASSUME PoolInv, RemoteTypes, NEW w \in Workers, RemoteMethod(w)
  PROVE  RemoteTypes'
<1>1. CASE UNCHANGED <<volume, muted, current>> BY <1>1 DEF RemoteTypes
<1>2. CASE Zap(w)
  <2>1. volume' = volume /\ muted' = muted BY <1>2 DEF Zap, remoteVars, vdrRemote
  <2>2. current' \in Numbers \/ Numbers = {} BY <1>2 DEF Zap, RemoteTypes, Below, Above, IsChannel
  <2> QED BY <2>1, <2>2 DEF RemoteTypes
<1>3. CASE SetVolume(w)
  <2>1. Runs(w, "Remote.SetVolume") /\ current' = current BY <1>3 DEF SetVolume
  <2>2. call[w].arg[1] = "to" => call[w].arg[2] \in Int BY <2>1, Arguments DEF PoolInv, CallInv, Runs
  <2>3. \A v \in Int : Bounded(v) \in 0..MaxVolume BY RemoteAssumption DEF Bounded
  <2>4. muted' \in BOOLEAN BY <1>3 DEF SetVolume, RemoteTypes
  <2>5. volume' = volume \/ \E v \in Int : volume' = Bounded(v)
    <3>1. volume \in Int BY RemoteAssumption DEF RemoteTypes
    <3>2. ASSUME volume' # volume
          PROVE  volume' = Bounded(CASE call[w].arg[1] = "to" -> call[w].arg[2] [] call[w].arg[1] = "+" -> volume + 1
                                     [] call[w].arg[1] = "-" -> volume - 1 [] OTHER -> -1)
      BY <1>3, <3>2, Zenon DEF SetVolume
    <3>3. CASE volume' # volume /\ call[w].arg[1] = "to" BY <2>2, <3>2, <3>3
    <3>4. CASE volume' # volume /\ call[w].arg[1] = "+" BY <3>1, <3>2, <3>4
    <3>5. CASE volume' # volume /\ call[w].arg[1] = "-" BY <3>1, <3>2, <3>5
    <3>6. CASE volume' # volume /\ call[w].arg[1] \notin {"to", "+", "-"} BY <3>2, <3>6
    <3> QED BY <3>3, <3>4, <3>5, <3>6
  <2> QED BY <2>1, <2>3, <2>4, <2>5 DEF RemoteTypes
<1>4. \/ Zap(w) \/ SetVolume(w) \/ UNCHANGED <<volume, muted, current>>
  BY DEF RemoteMethod, CallPlugin, SetEnabled, RemoteStatus, HitKey, HitKeys, AskTest, AskOpen, AskCall,
         SwitchLocks, GetVolume,
         remoteVars, vdrRemote
<1> QED BY <1>1, <1>2, <1>3, <1>4

\* Deleting a timer leaves the others with the ids they had.
LEMMA RemovedTimer ==
  ASSUME TimerTypes, NEW i \in DOMAIN timers, timers' = RemoveAt(timers, i), timerIds' = timerIds
  PROVE  TimerTypes'
<1>1. timers \in Seq(TimerKind) /\ Len(timers) \in Nat /\ i \in 1..Len(timers) /\ DOMAIN timers = 1..Len(timers)
  BY DEF TimerTypes
<1> DEFINE n == Len(timers)
           a == SubSeq(timers, 1, i - 1)
           b == SubSeq(timers, i + 1, n)
<1>2. a \in Seq(TimerKind) /\ Len(a) = i - 1 /\ \A j \in 1..(i - 1) : a[j] = timers[j]
  BY <1>1
<1>3. b \in Seq(TimerKind) /\ Len(b) = n - i /\ \A j \in 1..(n - i) : b[j] = timers[i + j]
  BY <1>1
<1>4. timers' = a \o b BY DEF RemoveAt
<1> HIDE DEF a, b
<1>5. timers' \in Seq(TimerKind) /\ Len(timers') = n - 1
  <2>1. Len(a) + Len(b) = n - 1 BY <1>1, <1>2, <1>3
  <2>2. a \o b \in Seq(TimerKind) /\ Len(a \o b) = Len(a) + Len(b) BY <1>2, <1>3, ConcatProperties, Zenon
  <2> QED BY <1>4, <2>1, <2>2
<1>6. \A j \in 1..(n - 1) : timers'[j] = IF j < i THEN timers[j] ELSE timers[j + 1]
  <2>1. ASSUME NEW j \in 1..(n - 1), j < i PROVE timers'[j] = timers[j]
    BY <1>1, <1>2, <1>3, <1>4, <2>1
  <2>2. ASSUME NEW j \in 1..(n - 1), ~(j < i) PROVE timers'[j] = timers[j + 1]
    <3>1. timers'[j] = b[j - (i - 1)] BY SMTT(30), <1>1, <1>2, <1>3, <1>4, <2>2
    <3>2. j - (i - 1) \in 1..(n - i) /\ i + (j - (i - 1)) = j + 1 BY <1>1, <2>2
    <3> QED BY <1>3, <3>1, <3>2
  <2> QED BY <2>1, <2>2
<1>7. DOMAIN timers' = 1..(n - 1) BY <1>5
<1>8. ASSUME NEW j \in 1..(n - 1)
      PROVE  \E k \in DOMAIN timers : timers'[j] = timers[k] /\ k = IF j < i THEN j ELSE j + 1
  BY <1>1, <1>6
<1>9. \A j \in DOMAIN timers' : timers'[j].id \in 1..timerIds'
  BY <1>7, <1>8 DEF TimerTypes
<1>10. ASSUME NEW j \in 1..(n - 1), NEW k \in 1..(n - 1), timers'[j].id = timers'[k].id PROVE j = k
  <2>1. PICK p \in DOMAIN timers : timers'[j] = timers[p] /\ p = IF j < i THEN j ELSE j + 1 BY <1>8
  <2>2. PICK q \in DOMAIN timers : timers'[k] = timers[q] /\ q = IF k < i THEN k ELSE k + 1 BY <1>8
  <2>3. p = q BY <1>10, <2>1, <2>2 DEF TimerTypes
  <2> QED BY <1>1, <2>1, <2>2, <2>3
<1>11. timerIds' \in Nat BY DEF TimerTypes
<1> QED BY <1>5, <1>7, <1>9, <1>10, <1>11 DEF TimerTypes

\* The methods of the timers keep their types: a new timer gets a new id.
LEMMA TimerTypesStep ==
  ASSUME PoolInv, TimerTypes, NEW w \in Workers, TimersMethod(w)
  PROVE  TimerTypes'
<1>1. CASE UNCHANGED timersVars BY <1>1 DEF TimerTypes, timersVars
<1>2. CASE TimersNew(w)
  <2>1. timers' = Append(timers, Timer(timerIds + 1, call[w].arg)) /\ timerIds' = timerIds + 1
          /\ At(w, "parsed")
    BY <1>2 DEF TimersNew
  <2>2. call[w].arg \in Int
    <3>1. call[w].method = "Timers.New" BY <2>1, OnWay DEF PoolInv, OnTheWay, At
    <3> QED BY <2>1, <3>1, Arguments DEF PoolInv, CallInv, At
  <2>3. PICK t \in TimerKind : t = Timer(timerIds + 1, call[w].arg) /\ t.id = timerIds + 1
    <3>1. timerIds + 1 \in Nat BY DEF TimerTypes
    <3>2. Timer(timerIds + 1, call[w].arg) \in TimerKind BY <2>2, <3>1 DEF Timer, TimerKind
    <3>3. Timer(timerIds + 1, call[w].arg).id = timerIds + 1 BY DEF Timer
    <3> QED BY <3>2, <3>3, Zenon
  <2>4. /\ timers' \in Seq(TimerKind) /\ Len(timers') = Len(timers) + 1 /\ timers'[Len(timers) + 1] = t
        /\ \A j \in 1..Len(timers) : timers'[j] = timers[j]
    BY <2>1, <2>3, AppendProperties DEF TimerTypes
  <2>5. Len(timers) \in Nat /\ DOMAIN timers = 1..Len(timers) /\ DOMAIN timers' = 1..(Len(timers) + 1)
    BY <2>4 DEF TimerTypes
  <2>6. \A j \in DOMAIN timers' : j = Len(timers) + 1 \/ j \in DOMAIN timers BY <2>5
  <2> QED BY <2>1, <2>3, <2>4, <2>5, <2>6 DEF TimerTypes
<1>3. CASE TimersDelete(w)
  <2>1. timerIds' = timerIds /\ (timers' = timers \/ \E i \in DOMAIN timers : timers' = RemoveAt(timers, i))
    BY <1>3 DEF TimersDelete
  <2> QED BY <2>1, <1>1, RemovedTimer DEF timersVars
<1> QED BY <1>1, <1>2, <1>3 DEF TimersMethod, TimersParse, TimersList, TimersNext

\* VDR starts a timer's recording, or ends the timer.
LEMMA RecordsKeeps ==
  ASSUME TimerTypes, VdrRecords
  PROVE  TimerTypes'
<1>1. PICK i \in DOMAIN timers : \/ timers' = [timers EXCEPT ![i].recording = TRUE]
                                    \/ timers' = [timers EXCEPT ![i].active = FALSE]
  BY DEF VdrRecords
<1>2. timerIds' = timerIds BY DEF VdrRecords
<1>3. PICK t \in TimerKind : t.id = timers[i].id /\ timers' = [timers EXCEPT ![i] = t]
  <2>1. timers[i] \in TimerKind BY DEF TimerTypes
  <2>2. [timers[i] EXCEPT !.recording = TRUE] \in TimerKind /\ [timers[i] EXCEPT !.active = FALSE] \in TimerKind
        /\ [timers[i] EXCEPT !.recording = TRUE].id = timers[i].id
           /\ [timers[i] EXCEPT !.active = FALSE].id = timers[i].id
    BY <2>1 DEF TimerKind
  <2> QED BY <1>1, <2>2
<1>4. timers' \in Seq(TimerKind) /\ DOMAIN timers' = DOMAIN timers
        /\ \A j \in DOMAIN timers : timers'[j].id = timers[j].id
  BY <1>3 DEF TimerTypes
<1> QED BY <1>2, <1>4 DEF TimerTypes

\* A step of w keeps the types of the recordings if it keeps those it changes.
LEMMA RecordingFrame ==
  ASSUME RecordingTypes, NEW w \in Workers, \A v \in Workers \ {w} : call'[v] = call[v],
         control' \in Recordings \union {"none", "null"}, chosen' \in Recordings \union {"none"},
         list' \in Seq(Recordings), IsInjective(list'), resume' \in [Recordings -> Int],
         Selected(w)' => Played(w)' \in Recordings
  PROVE  RecordingTypes'
<1>1. ASSUME NEW v \in Workers, v # w, Selected(v)' PROVE Played(v)' \in Recordings
  <2>1. call'[v] = call[v] BY <1>1
  <2>2. Selected(v) BY <1>1, <2>1 DEF Selected, Successful, At
  <2> QED BY <2>1, <2>2 DEF RecordingTypes, Played
<1> QED BY <1>1 DEF RecordingTypes

\* Only a call of Play finds a recording to play.
LEMMA PlainCalls ==
  ASSUME CallInv, NEW w \in Workers, Effect(w), call[w].method # "Recordings.Play"
  PROVE  ~Selected(w)'
BY DEF Effect, Passes, OnTheWay, Selected, Successful, At

\* A recording that gets a name nobody has leaves the list without doubles.
LEMMA Renamed ==
  ASSUME list \in Seq(Recordings), IsInjective(list), NEW i \in DOMAIN list, NEW name \in Recordings,
         \A j \in DOMAIN list : list[j] # name, list' = [list EXCEPT ![i] = name]
  PROVE  list' \in Seq(Recordings) /\ IsInjective(list')
<1>1. list' \in Seq(Recordings) /\ DOMAIN list' = DOMAIN list /\ list'[i] = name
        /\ \A j \in DOMAIN list : j # i => list'[j] = list[j]
  OBVIOUS
<1> QED BY <1>1 DEF IsInjective

\* ChangeName refuses a name that exists.
LEMMA ChangeNameTypes ==
  ASSUME PoolInv, RecordingTypes, NEW w \in Workers, ChangeName(w)
  PROVE  RecordingTypes'
<1>1. Effect(w) BY RecordingsEffect DEF PoolInv, RecordingsMethod
<1>2. Runs(w, "Recordings.ChangeName") /\ chosen' = chosen /\ control' = control BY DEF ChangeName, statusVars
<1>3. call[w].arg[2] \in Recordings \union {""}
  <2>1. call[w].arg \in Recording \X (Recordings \union {""})
    BY ZenonT(30), <1>2, Arguments DEF PoolInv, CallInv, Runs
  <2> QED BY <2>1
<1>4. list' \in Seq(Recordings) /\ IsInjective(list') /\ resume' \in [Recordings -> Int]
  <2>1. CASE list' = list /\ resume' = resume BY <2>1 DEF RecordingTypes
  <2>2. CASE ~(list' = list /\ resume' = resume)
    <3> DEFINE name == call[w].arg[2]
    <3>1. name # "" /\ name \in Recordings BY <1>3, <2>2 DEF ChangeName
    <3>2. PICK i \in Found(call[w].arg[1]) :
            /\ \A j \in DOMAIN list : list[j] # name
            /\ list' = [list EXCEPT ![i] = name] /\ resume' = [resume EXCEPT ![name] = resume[list[i]]]
      BY ZenonT(30), <2>2 DEF ChangeName
    <3>3. i \in DOMAIN list BY DEF Found
    <3>4. list \in Seq(Recordings) /\ IsInjective(list) /\ resume \in [Recordings -> Int]
      BY DEF RecordingTypes
    <3> HIDE DEF name
    <3>5. list[i] \in Recordings BY <3>3, <3>4
    <3> QED BY <3>1, <3>2, <3>3, <3>4, <3>5, Renamed
  <2> QED BY <2>1, <2>2
<1>5. ~Selected(w)' BY <1>1, <1>2, PlainCalls DEF PoolInv, Runs
<1>6. \A v \in Workers \ {w} : call'[v] = call[v] BY <1>1 DEF Effect, Passes
<1>7. control' \in Recordings \union {"none", "null"} /\ chosen' \in Recordings \union {"none"}
  BY <1>2 DEF RecordingTypes
<1> QED BY <1>4, <1>5, <1>6, <1>7, RecordingFrame

\* The methods of the recordings keep their types.
LEMMA RecordingsStep ==
  ASSUME PoolInv, RecordingTypes, NEW w \in Workers, RecordingsMethod(w)
  PROVE  RecordingTypes'
<1>0. Effect(w) BY RecordingsEffect DEF PoolInv
<1>1. \A v \in Workers \ {w} : call'[v] = call[v] BY <1>0 DEF Effect, Passes
<1>2. /\ control \in Recordings \union {"none", "null"} /\ chosen \in Recordings \union {"none"}
      /\ list \in Seq(Recordings) /\ IsInjective(list) /\ resume \in [Recordings -> Int]
  BY DEF RecordingTypes
<1>3. ASSUME UNCHANGED <<control, chosen, list, resume>>, Selected(w)' => Played(w)' \in Recordings
      PROVE RecordingTypes'
  BY <1>1, <1>2, <1>3, RecordingFrame
<1>4. ASSUME UNCHANGED <<control, chosen, list, resume>>, call[w].method # "Recordings.Play"
      PROVE RecordingTypes'
  BY <1>0, <1>3, <1>4, PlainCalls DEF PoolInv
<1>5. CASE RecordingsGet(w) \/ RecordingsListed(w)
  <2>1. (Runs(w, "Recordings.Get") \/ Runs(w, "Recordings.List")) /\ UNCHANGED recordingsVars
          /\ UNCHANGED statusVars
    BY <1>5 DEF RecordingsGet, RecordingsListed
  <2> QED BY <1>4, <2>1 DEF Runs, recordingsVars, statusVars
<1>6. CASE Update(w) BY <1>4, <1>6 DEF Update, Runs, statusVars
<1>7. CASE Extra(w) BY <1>4, <1>7 DEF Extra, statusVars
<1>8. CASE PlayFind(w)
  <2>1. UNCHANGED recordingsVars /\ UNCHANGED statusVars BY <1>8 DEF PlayFind
  <2>2. CASE SendReply(w, 501)
    <3>1. call'[w].at = "replied" /\ call'[w].code = 501 BY <2>2, ReplyPasses DEF PoolInv
    <3> QED BY <1>3, <2>1, <3>1 DEF Selected, Successful, recordingsVars, statusVars
  <2>3. CASE ~SendReply(w, 501)
    <3>1. PICK i \in Found(call[w].arg[1]) : call' = [call EXCEPT ![w].at = "stop", ![w].value = <<list[i]>>]
      BY <1>8, <2>3 DEF PlayFind
    <3>2. call'[w].value = <<list[i]>> BY <3>1 DEF PoolInv, CallInv, Fields
    <3>3. list[i] \in Recordings BY <1>2 DEF Found
    <3>4. Played(w)' = list[i] BY <3>2 DEF Played
    <3> QED BY <1>3, <2>1, <3>3, <3>4 DEF recordingsVars, statusVars
  <2> QED BY <2>2, <2>3
<1>9. CASE PlayStop(w)
  <2>1. control' = "none" /\ chosen' = "none" /\ list' = list /\ resume' = resume
    BY <1>9 DEF PlayStop, Controls
  <2>2. Played(w) \in Recordings BY <1>9 DEF PlayStop, RecordingTypes, Selected, At
  <2>3. call'[w].value = call[w].value BY <1>9, GoPasses DEF PlayStop, PoolInv
  <2>4. Played(w)' \in Recordings BY <2>2, <2>3 DEF Played
  <2> QED BY <1>1, <1>2, <2>1, <2>4, RecordingFrame
<1>10. CASE PlayChoose(w)
  <2>1. Played(w) \in Recordings BY <1>10 DEF PlayChoose, RecordingTypes, Selected, At
  <2>2. call'[w].value = call[w].value BY <1>10, GoPasses DEF PlayChoose, PoolInv
  <2>3. Played(w)' \in Recordings BY <2>1, <2>2 DEF Played
  <2>4. call[w].arg[2] \in Int
    <3>1. call[w].method = "Recordings.Play" /\ call[w].at # "idle"
      BY <1>10, OnWay DEF PlayChoose, At, OnTheWay, PoolInv
    <3>2. call[w].arg \in Recording \X Positions BY <3>1, Arguments DEF PoolInv, CallInv
    <3> QED BY <3>2 DEF Positions
  <2>5. resume' \in [Recordings -> Int] BY <1>2, <1>10, <2>1, <2>4 DEF PlayChoose
  <2>6. chosen' = Played(w) /\ list' = list /\ control' = control BY <1>10 DEF PlayChoose, statusVars
  <2> QED BY <1>1, <1>2, <2>1, <2>3, <2>5, <2>6, RecordingFrame
<1>11. CASE PlayLaunch(w)
  <2>1. Played(w) \in Recordings BY <1>11 DEF PlayLaunch, RecordingTypes, Selected, At
  <2>2. call'[w].value = call[w].value BY <1>11, ReturnPasses DEF PlayLaunch, PoolInv
  <2>3. Played(w)' \in Recordings BY <2>1, <2>2 DEF Played
  <2>4. control' = chosen /\ chosen' = chosen /\ list' = list /\ resume' = resume
    BY <1>11 DEF PlayLaunch, Controls, recordingsVars
  <2> QED BY <1>1, <1>2, <2>3, <2>4, RecordingFrame
<1> QED BY <1>5, <1>6, <1>7, <1>8, <1>9, <1>10, <1>11, ChangeNameTypes DEF RecordingsMethod

\* So does a step that changes no call.
LEMMA StillSelected ==
  ASSUME RecordingTypes, call' = call, control' \in Recordings \union {"none", "null"},
         chosen' \in Recordings \union {"none"},
         list' \in Seq(Recordings), IsInjective(list'), resume' \in [Recordings -> Int]
  PROVE  RecordingTypes'
BY DEF RecordingTypes, Selected, Successful, Played, At

\* What VDR does to the recordings and to what it replays.
LEMMA BesidesReplays ==
  ASSUME Besides
  PROVE  \/ UNCHANGED <<control, chosen, list, resume>>
         \/ VdrScans
         \/ UNCHANGED <<chosen, list, resume>> /\ \E c \in Recordings \union {"none", "null"} : Controls(c)
<1>1. CASE VdrScans BY <1>1
<1>2. CASE Replaying /\ Elsewhere({"status"}) BY <1>2 DEF Elsewhere, Replaying, recordingsVars
<1>6. CASE VdrShowsMessage /\ Elsewhere({"desk", "status"})
  BY <1>6 DEF Elsewhere, VdrShowsMessage, statusVars, recordingsVars
<1>3. CASE MainThreadHook /\ Disturbs BY <1>3 DEF MainThreadHook, Disturbs
<1>4. CASE VdrTakesDevice /\ Disturbs BY <1>4 DEF VdrTakesDevice, MakePrimaryDevice, Disturbs, statusVars
<1>5. CASE (\E c \in Recordings \union {"none"} : VdrReplays(c)) /\ Disturbs BY <1>5 DEF VdrReplays, Disturbs
<1> QED
  BY <1>1, <1>2, <1>3, <1>4, <1>5, <1>6
  DEF Besides, Elsewhere, VdrTells, StatusMade, StatusDeleted, statusVars, recordingsVars

\* It keeps their types: a scan lists what there is, each once.
LEMMA RecordingsBesides ==
  ASSUME RecordingTypes, Besides
  PROVE  RecordingTypes'
<1>1. call' = call BY BesidesKeeps
<1>2. CASE UNCHANGED <<control, chosen, list, resume>> BY <1>1, <1>2, StillSelected DEF RecordingTypes
<1>3. CASE UNCHANGED <<chosen, list, resume>> /\ \E c \in Recordings \union {"none", "null"} : Controls(c)
  BY <1>1, <1>3, StillSelected DEF RecordingTypes, Controls
<1>4. CASE VdrScans
  <2>1. PICK rs \in SUBSET Recordings : list' = SetToSeq(rs) BY <1>4 DEF VdrScans
  <2>2. IsFiniteSet(rs) BY <2>1, StatusAssumption, FS_Subset
  <2>3. list' \in Seq(rs) /\ IsInjective(list') BY <2>1, <2>2, ListsOfSet
  <2>4. list' \in Seq(Recordings) BY <2>3
  <2> QED BY <1>1, <1>4, <2>3, <2>4, StillSelected DEF VdrScans, RecordingTypes, statusVars
<1> QED BY <1>2, <1>3, <1>4, BesidesReplays

\* Every step does.
LEMMA RecordingsNext ==
  ASSUME PoolInv, RecordingTypes, [Next]_vars
  PROVE  RecordingTypes'
<1>0. /\ control \in Recordings \union {"none", "null"} /\ chosen \in Recordings \union {"none"}
      /\ list \in Seq(Recordings) /\ IsInjective(list) /\ resume \in [Recordings -> Int]
  BY DEF RecordingTypes
<1>1. ASSUME NEW w \in Workers, Called(w) \/ Leaves(w) PROVE RecordingTypes'
  <2>1. call'[w].at \in {"idle", "queued"} /\ (\A v \in Workers \ {w} : call'[v] = call[v])
    <3>1. CASE Called(w)
      <4>1. PICK c \in Possible : handle_method_call(w, c.method, c.arg) BY <3>1 DEF Called, Possible
      <4> QED BY <4>1 DEF handle_method_call, PoolInv, CallInv, NoCall
    <3>2. CASE Leaves(w) BY <3>2 DEF Leaves, Left, PoolInv, CallInv, NoCall
    <3> QED BY <1>1, <3>1, <3>2
  <2>2. UNCHANGED <<control, chosen, list, resume>>
    BY <1>1 DEF Called, Leaves, Elsewhere, recordingsVars, statusVars
  <2>3. ~Selected(w)' BY <2>1 DEF Selected, Successful, At
  <2> QED BY <1>0, <2>1, <2>2, <2>3, RecordingFrame
<1>2. ASSUME NEW w \in Workers, Method(w) PROVE RecordingTypes'
  <2>1. CASE RecordingsMethod(w) BY <2>1, RecordingsStep
  <2>2. CASE call[w].method \notin RecordingsMethods /\ UNCHANGED recordingsVars /\ UNCHANGED toldVars
    <3>1. Effect(w) BY <1>2, MethodEffect DEF PoolInv
    <3>2. ~Selected(w)' BY <2>2, <3>1, PlainCalls DEF PoolInv, RecordingsMethods
    <3>3. \A v \in Workers \ {w} : call'[v] = call[v] BY <3>1 DEF Effect, Passes
    <3> QED BY <1>0, <2>2, <3>2, <3>3, RecordingFrame DEF recordingsVars, toldVars
  <2> QED BY <1>2, <2>1, <2>2, MethodsApart DEF PoolInv
<1>3. CASE UNCHANGED vars BY <1>0, <1>3, StillSelected DEF vars, poolVars, recordingsVars, statusVars
<1> QED BY <1>1, <1>2, <1>3, RecordingsBesides DEF Next

\* At first VDR has scanned, and replays nothing.
LEMMA RecordingsInitially == ASSUME Init PROVE RecordingTypes
<1>1. list = SetToSeq(Recordings) /\ control = "none" /\ chosen = "none" /\ resume = [r \in Recordings |-> 0]
      /\ call = [w \in Workers |-> NoCall]
  BY DEF Init, RecordingsInit, StatusInit, PoolInit
<1>2. list \in Seq(Recordings) /\ IsInjective(list) BY <1>1, StatusAssumption, ListsOfSet
<1>3. \A w \in Workers : ~Selected(w) BY <1>1 DEF Selected, Successful, At, NoCall
<1>4. resume \in [Recordings -> Int] BY <1>1
<1> QED BY <1>1, <1>2, <1>3, <1>4 DEF RecordingTypes

\* The methods of the EPG keep its types,
LEMMA EpgStep ==
  ASSUME EpgTypes, NEW w \in Workers, EpgMethod(w)
  PROVE  EpgTypes'
<1>1. CASE UNCHANGED schedules BY <1>1 DEF EpgTypes
<1>2. CASE ClearEPG(w)
  <2>1. schedules' = schedules \/ \E n : schedules' = [schedules EXCEPT ![n] = 0]
    BY <1>2 DEF ClearEPG, GivesUp, epgVars
  <2> QED BY <1>1, <2>1 DEF EpgTypes, MaxEvents
<1>3. CASE EntriesTaken(w)
  <2>1. schedules' = schedules \/ \E n \in Numbers : schedules' = [schedules EXCEPT ![n] = MaxEvents]
    BY <1>3 DEF EntriesTaken
  <2> QED BY <1>1, <2>1 DEF EpgTypes, MaxEvents
<1> QED
  BY <1>1, <1>2, <1>3
  DEF EpgMethod, DisableScanner, EnableScanner, ClearFind, RemoveKey, PutEntry, PutFile, ReadEntries, ReadFile,
      EntriesFind, Entries, epgVars

\* and those of skins, plugins and devices theirs.
LEMMA DeskStep ==
  ASSUME DeskTypes, NEW w \in Workers, DeskMethod(w)
  PROVE  DeskTypes'
<1>1. CASE UNCHANGED messages BY <1>1 DEF DeskTypes
<1>2. CASE QueueMessage(w)
  <2>1. messages' = messages \/ messages' = IF messages < MaxMessages THEN messages + 1 ELSE messages
    BY <1>2 DEF QueueMessage
  <2> QED BY <1>1, <2>1, DeskAssumption DEF DeskTypes
<1> QED
  BY ZenonT(30), <1>1, <1>2
  DEF DeskMethod, SetSkin, SVDRPCommand, Service, RequestPrimary, LooksAtSkins, LooksAtPlugins,
      LooksAtDevices, Sees, deskVars

\* The types but for the recordings'.
VdrTypes == RemoteTypes /\ TimerTypes /\ EpgTypes /\ DeskTypes

\* They hold if nothing of it changes,
LEMMA TypesStill ==
  ASSUME VdrTypes, UNCHANGED <<remoteVars, current, timersVars, epgVars, deskVars>>
  PROVE  VdrTypes'
<1>1. UNCHANGED <<volume, muted, current, timers, timerIds, schedules, messages>>
  BY DEF remoteVars, vdrRemote, timersVars, epgVars, deskVars
<1> QED BY <1>1 DEF VdrTypes, RemoteTypes, TimerTypes, EpgTypes, DeskTypes

\* after a step of a method,
LEMMA TypesMethod ==
  ASSUME PoolInv, VdrTypes, NEW w \in Workers, Method(w)
  PROVE  VdrTypes'
<1>1. RemoteTypes'
  <2>1. CASE UNCHANGED <<remoteVars, current>> BY <2>1 DEF VdrTypes, RemoteTypes, remoteVars, vdrRemote
  <2> QED BY <2>1, RemoteTypesStep, MethodsApart DEF VdrTypes, PoolInv
<1>2. TimerTypes'
  <2>1. CASE UNCHANGED timersVars BY <2>1 DEF VdrTypes, TimerTypes, timersVars
  <2> QED BY <2>1, TimerTypesStep, MethodsApart DEF VdrTypes, PoolInv
<1>3. EpgTypes'
  <2>1. CASE UNCHANGED epgVars BY <2>1 DEF VdrTypes, EpgTypes, epgVars
  <2> QED BY <2>1, EpgStep, MethodsApart DEF VdrTypes, PoolInv
<1>4. DeskTypes'
  <2>1. CASE UNCHANGED deskVars BY <2>1 DEF VdrTypes, DeskTypes, deskVars
  <2> QED BY <2>1, DeskStep, MethodsApart DEF VdrTypes, PoolInv
<1> QED BY <1>1, <1>2, <1>3, <1>4 DEF VdrTypes

\* after what VDR does,
LEMMA TypesBesides ==
  ASSUME VdrTypes, Besides
  PROVE  VdrTypes'
<1>1. UNCHANGED <<volume, muted, current>>
  BY DEF Besides, Elsewhere, RemoteVdr, VdrOpensMenu, Selects, Closes, remoteVars, vdrRemote
<1>2. RemoteTypes' BY <1>1 DEF VdrTypes, RemoteTypes
<1>3. UNCHANGED timersVars \/ VdrRecords BY DEF Besides, Elsewhere
<1>4. UNCHANGED timersVars => TimerTypes' BY DEF VdrTypes, TimerTypes, timersVars
<1>5. TimerTypes' BY <1>3, <1>4, RecordsKeeps DEF VdrTypes
<1>6. UNCHANGED schedules BY DEF Besides, Elsewhere, VdrScansAgain, epgVars
<1>7. EpgTypes' BY <1>6 DEF VdrTypes, EpgTypes
<1>8. messages' = messages \/ (messages > 0 /\ messages' = messages - 1)
  BY DEF Besides, Elsewhere, MainThreadHook, VdrTakesDevice, VdrShowsMessage, deskVars
<1>9. DeskTypes' BY <1>8, DeskAssumption DEF VdrTypes, DeskTypes
<1> QED BY <1>2, <1>5, <1>7, <1>9 DEF VdrTypes

\* after every step,
LEMMA TypesNext ==
  ASSUME PoolInv, VdrTypes, [Next]_vars
  PROVE  VdrTypes'
<1>1. ASSUME NEW w \in Workers, Called(w) \/ Leaves(w) PROVE VdrTypes'
  BY <1>1, TypesStill DEF Called, Leaves, Elsewhere
<1>2. CASE UNCHANGED vars BY <1>2, TypesStill DEF vars
<1> QED BY <1>1, <1>2, TypesMethod, TypesBesides DEF Next

\* and at first.
LEMMA TypesInitially == ASSUME Init PROVE VdrTypes
<1>1. RemoteTypes
  <2>1. volume = 1 /\ muted = FALSE /\ (Numbers # {} => current = MaxNumber)
    BY DEF Init, RemoteInit, ChannelsInit
  <2>2. 1 \in 0..MaxVolume BY RemoteAssumption
  <2> QED BY <2>1, <2>2, MaxIsNumber DEF RemoteTypes
<1>2. TimerTypes
  <2>1. PICK s \in Starts : timers = <<Timer(1, s)>> /\ timerIds = 1 BY DEF Init, TimersInit
  <2>2. s \in Int BY TimersAssumption
  <2>3. Timer(1, s) \in TimerKind /\ Timer(1, s).id = 1 BY <2>2 DEF Timer, TimerKind
  <2>4. DOMAIN timers = {1} /\ timers[1] = Timer(1, s) /\ timers \in Seq(TimerKind) BY <2>1, <2>3
  <2> QED BY <2>1, <2>3, <2>4 DEF TimerTypes
<1>3. EpgTypes BY DEF Init, EpgInit, EpgTypes, MaxEvents
<1>4. DeskTypes BY DeskAssumption DEF Init, DeskInit, DeskTypes
<1> QED BY <1>1, <1>2, <1>3, <1>4 DEF VdrTypes

\* THE TYPES: VDR's state stays what VDR allows, whatever is called: a volume, a
\* channel and recordings that exist, timers with ids of their own, lists without
\* doubles, and locks with one writer or with readers.
THEOREM MethodsTypeCorrect == Spec => []TypeOK
<1>1. ASSUME PoolInv, VdrTypes, RecordingTypes PROVE TypeOK
  <2>1. \A w \in Workers : call[w].method \in Implemented \union {"none", "Unknown.Method"}
    BY <1>1 DEF PoolInv, CallInv, OnTheWay, Possible, UnknownCall, Implemented
  <2>2. calls \in 0..offered.calls BY <1>1 DEF PoolInv, CallInv
  <2>3. Exclusive BY <1>1 DEF PoolInv, LockInv
  <2>4. ToSet(list) \subseteq Recordings BY <1>1 DEF RecordingTypes, ToSet
  <2>5. \A i, j \in DOMAIN timers : timers[i].id \in 1..timerIds /\ (timers[i].id = timers[j].id => i = j)
    BY <1>1 DEF VdrTypes, TimerTypes
  <2> QED
    BY <1>1, <2>1, <2>2, <2>3, <2>4, <2>5
    DEF TypeOK, Exclusive, VdrTypes, RemoteTypes, RecordingTypes, EpgTypes, DeskTypes
<1>2. PoolInv /\ VdrTypes /\ [Next]_vars => VdrTypes' BY TypesNext
<1>3. PoolInv /\ RecordingTypes /\ [Next]_vars => RecordingTypes' BY RecordingsNext
<1> QED BY PoolAlways, TypesInitially, RecordingsInitially, <1>1, <1>2, <1>3, PTL DEF Spec

-----------------------------------------------------------------------------
(***************************************************************************)
(* What is replayed (status.c, recording.c). VDR tells the objects of the  *)
(* system and the session bus what begins and ends, in turn, after the     *)
(* fact; Play stops what is replayed, chooses and launches in three steps, *)
(* in which only the list of recordings is locked.                         *)
(***************************************************************************)

\* A message about what is replayed,
News == [on : BOOLEAN, name : Recordings \union {"none"}]

\* and what an object keeps of it.
Objects == [live : BOOLEAN, told : BOOLEAN, on : BOOLEAN, name : Recordings \union {"none"}]

\* The last message that VDR has still to tell is about what it replays now.
LastNews == telling # <<>> => Announces(telling[Len(telling)], control)

\* When all is told, an object that was told keeps, and has sent, what is
\* replayed.
Told(b) ==
  telling = <<>> /\ replay[b].live /\ replay[b].told =>
    [on |-> replay[b].on, name |-> replay[b].name] = Replays(control) /\ Announces(emitted[b], control)

\* The invariant of telling.
TellInv ==
  /\ telling \in Seq(News) /\ replay \in [StatusBuses -> Objects] /\ emitted \in [StatusBuses -> News]
  /\ LastNews
  /\ \A b \in {"system", "session"} : Told(b)

\* What a call of Play that nobody disturbed knows at its steps: what it chose is
\* chosen, where to begin is stored, and in the end this is what is replayed.
Stage(w) ==
  /\ At(w, "launch") => chosen = Played(w)
  /\ Successful(w) => control = Played(w)
  /\ At(w, "launch") \/ Successful(w) => (call[w].arg[2] >= 0 => resume[Played(w)] = call[w].arg[2])

\* w has the list of recordings locked.
HasList(w) == \E h \in holds[w] : h.lock = "recordings"

\* The invariant of Play: the list is locked meanwhile, who was not disturbed is
\* as far as Stage says, and two in the middle of it, or one and one that is
\* done, disturbed each other.
PlayInv ==
  /\ \A w \in Playing : HasList(w)
  /\ \A w \in Workers \ mixed : Stage(w)
  /\ \A v \in Midway, w \in Workers : v # w /\ (w \in Midway \/ Successful(w)) => w \in mixed

\* What is made of the operators on messages.
LEMMA NewsTypes ==
  /\ Silent \in News /\ NoStatus \in Objects /\ NewStatus \in Objects
  /\ \A c \in Recordings : Begins(c) \in News /\ Ends(c) \in News
  /\ \A what \in News : Kept(what) \in Objects
BY DEF Silent, NoStatus, NewStatus, News, Objects, Begins, Ends, Kept

\* What is told of the end of a control, and of the begin of one, is about what
\* is replayed then.
LEMMA NewsTell ==
  ASSUME NEW c, NEW d \in Recordings
  PROVE  Announces(Begins(d), d) /\ (c \notin Recordings => Announces(Ends(d), c))
BY DEF Announces, Begins, Ends

\* Replaying something else, or nothing, leaves VDR with the right message to
\* tell last.
LEMMA ControlsTell ==
  ASSUME TellInv, NEW to, Controls(to)
  PROVE  TellInv'
<1> DEFINE a == IF control \in Recordings THEN <<Ends(control)>> ELSE <<>>
           b == IF to \in Recordings THEN <<Begins(to)>> ELSE <<>>
<1>1. telling = <<>> /\ control' = to /\ telling' = a \o b /\ replay' = replay /\ emitted' = emitted
  BY DEF Controls
<1>2. a \in Seq(News) /\ b \in Seq(News) BY NewsTypes
<1>3. telling' \in Seq(News) BY <1>1, <1>2
<1>4. CASE to \in Recordings
  <2>1. b = <<Begins(to)>> /\ Len(b) = 1 BY <1>4
  <2>2. Len(a) \in Nat BY <1>2
  <2> HIDE DEF a, b
  <2>3. Len(telling') = Len(a) + 1 /\ telling'[Len(a) + 1] = b[1]
    BY <1>1, <1>2, <2>1, <2>2, ConcatProperties
  <2>4. Announces(b[1], to) BY <1>4, <2>1, NewsTell
  <2>5. telling' # <<>> BY <2>2, <2>3
  <2> QED BY <1>1, <1>3, <2>3, <2>4, <2>5 DEF TellInv, LastNews, Told
<1>5. CASE to \notin Recordings /\ control \in Recordings
  <2>1. telling' = <<Ends(control)>> BY <1>1, <1>5, <1>2
  <2>2. Announces(Ends(control), to) BY <1>5, NewsTell
  <2> QED BY <1>1, <1>3, <1>5, <2>1, <2>2 DEF TellInv, LastNews, Told, Announces
<1>6. CASE to \notin Recordings /\ control \notin Recordings
  <2>1. telling' = <<>> BY <1>1, <1>6
  <2>2. Replays(control') = Replays(control) BY <1>1, <1>6 DEF Replays
  <2>3. \A what : Announces(what, control') <=> Announces(what, control) BY <1>1, <1>6 DEF Announces
  <2> QED BY <1>1, <1>3, <2>1, <2>2, <2>3 DEF TellInv, LastNews, Told
<1> QED BY <1>4, <1>5, <1>6

\* VDR tells one message to all objects: after the last, they keep what is
\* replayed.
LEMMA ReplayingTells ==
  ASSUME TellInv, Replaying
  PROVE  TellInv'
<1>1. telling \in Seq(News) /\ telling # <<>> /\ telling' = Tail(telling) /\ control' = control
  BY DEF TellInv, Replaying
<1>2. PICK what \in News : what = Head(telling) BY <1>1
<1> DEFINE listening == {b \in StatusBuses \ {"network"} : replay[b].live}
<1>3. /\ replay' = [b \in StatusBuses |-> IF b \in listening THEN Kept(what) ELSE replay[b]]
      /\ emitted' = [b \in StatusBuses |-> IF b \in listening THEN what ELSE emitted[b]]
  BY <1>2 DEF Replaying
<1>4. telling' \in Seq(News) /\ Len(telling') = Len(telling) - 1 /\ Len(telling) \in Nat \ {0}
      /\ \A i \in 1..(Len(telling) - 1) : telling'[i] = telling[i + 1]
  BY <1>1
<1>5. LastNews'
  <2>1. SUFFICES ASSUME telling' # <<>> PROVE Announces(telling'[Len(telling')], control')
    BY DEF LastNews, Announces
  <2>2. Len(telling') # 0 BY <1>4, <2>1
  <2>3. telling'[Len(telling')] = telling[Len(telling)] BY <1>4, <2>2
  <2>4. Announces(telling[Len(telling)], control) BY <1>1 DEF TellInv, LastNews
  <2> QED BY <1>1, <2>3, <2>4
<1>6. replay' \in [StatusBuses -> Objects] /\ emitted' \in [StatusBuses -> News]
  BY <1>2, <1>3, NewsTypes DEF TellInv
<1>7. ASSUME NEW b \in {"system", "session"}, telling' = <<>>, replay'[b].live
      PROVE  [on |-> replay'[b].on, name |-> replay'[b].name] = Replays(control)
               /\ Announces(emitted'[b], control)
  <2>1. Len(telling) = 1 BY <1>4, <1>7
  <2>2. what = telling[1] BY <1>1, <1>2
  <2>3. Announces(what, control) BY <1>1, <2>1, <2>2 DEF TellInv, LastNews
  <2>4. b \in StatusBuses /\ b # "network" BY DEF StatusBuses
  <2>5. b \in listening BY <1>3, <1>7, <2>4
  <2>6. replay'[b] = Kept(what) /\ emitted'[b] = what BY <1>3, <2>4, <2>5
  <2>7. [on |-> Kept(what).on, name |-> Kept(what).name] = Replays(control)
    <3>1. PICK n : n = IF what.on THEN what.name ELSE "none" OBVIOUS
    <3>2. Kept(what) = [live |-> TRUE, told |-> TRUE, on |-> what.on, name |-> n] BY <3>1, Zenon DEF Kept
    <3>3. Kept(what).on = what.on /\ Kept(what).name = n BY <3>2
    <3>4. CASE control \in Recordings
      <4>1. what = [on |-> TRUE, name |-> control] BY <2>3, <3>4 DEF Announces, Begins
      <4>2. what.on = TRUE /\ what.name = control BY <4>1
      <4>3. n = control BY <3>1, <4>2, Zenon
      <4> QED BY <3>3, <3>4, <4>2, <4>3 DEF Replays, Begins
    <3>5. CASE control \notin Recordings
      <4>1. what.on = FALSE BY <1>2, <2>3, <3>5 DEF Announces, News
      <4>2. n = "none" BY <3>1, <4>1, Zenon
      <4> QED BY <3>3, <3>5, <4>1, <4>2 DEF Replays, Silent
    <3> QED BY <3>4, <3>5
  <2> QED BY <2>3, <2>6, <2>7
<1>8. Replays(control)' = Replays(control) /\ \A n : Announces(n, control)' <=> Announces(n, control')
  BY <1>1 DEF Replays, Announces
<1>9. \A b \in {"system", "session"} : Told(b)' BY <1>1, <1>7, <1>8 DEF Told, Announces
<1> QED BY <1>4, <1>5, <1>6, <1>9 DEF TellInv

\* An object that is made or deleted was told nothing.
LEMMA ObjectsKeep ==
  ASSUME TellInv, StatusMade("session") \/ StatusDeleted("session")
  PROVE  TellInv'
<1>1. control' = control /\ telling' = telling BY DEF StatusMade, StatusDeleted
<1>2. PICK o \in Objects : replay' = [replay EXCEPT !["session"] = o] /\ ~o.told
  BY NewsTypes DEF StatusMade, StatusDeleted, NewStatus, NoStatus
<1>3. emitted' = emitted \/ emitted' = [emitted EXCEPT !["session"] = Silent] BY DEF StatusMade, StatusDeleted
<1>4. replay' \in [StatusBuses -> Objects] /\ emitted' \in [StatusBuses -> News]
  BY <1>2, <1>3, NewsTypes DEF TellInv
<1>5. replay'["session"] = o /\ replay'["system"] = replay["system"] /\ emitted'["system"] = emitted["system"]
  BY <1>2, <1>3 DEF TellInv, StatusBuses
<1>6. LastNews' BY <1>1 DEF TellInv, LastNews, Announces
<1>7. Told("session")' BY <1>2, <1>5 DEF Told
<1>8. Told("system")' BY <1>1, <1>5 DEF TellInv, Told, Replays, Announces
<1> QED BY <1>1, <1>4, <1>6, <1>7, <1>8 DEF TellInv

\* Nothing changes if nothing of it changes.
LEMMA TellStill ==
  ASSUME TellInv, UNCHANGED <<control, telling, replay, emitted>>
  PROVE  TellInv'
<1>1. control' = control /\ telling' = telling /\ replay' = replay /\ emitted' = emitted OBVIOUS
<1>2. LastNews' BY <1>1 DEF TellInv, LastNews
<1>3. \A b \in {"system", "session"} : Told(b)' BY <1>1 DEF TellInv, Told
<1> QED BY <1>1, <1>2, <1>3 DEF TellInv

\* Every step keeps the invariant of telling.
LEMMA TellNext ==
  ASSUME PoolInv, TellInv, [Next]_vars
  PROVE  TellInv'
<1>0. CASE UNCHANGED toldVars BY <1>0, TellStill DEF toldVars
<1>1. CASE UNCHANGED statusVars BY <1>1, TellStill DEF statusVars
<1>2. ASSUME NEW w \in Workers, Called(w) \/ Leaves(w) PROVE TellInv'
  BY <1>1, <1>2 DEF Called, Leaves, Elsewhere
<1>3. ASSUME NEW w \in Workers, Method(w) PROVE TellInv'
  <2>1. UNCHANGED toldVars \/ RecordingsMethod(w) BY <1>3, MethodsApart DEF PoolInv
  <2>2. RecordingsMethod(w) => UNCHANGED statusVars \/ Controls("none") \/ Controls(chosen)
    BY DEF RecordingsMethod, RecordingsGet, RecordingsListed, Update, ChangeName, PlayFind, PlayStop,
           PlayChoose, PlayLaunch, Extra
  <2> QED BY <1>0, <1>1, <2>1, <2>2, ControlsTell
<1>4. CASE Besides
  <2>1. CASE Replaying BY <2>1, ReplayingTells
  <2>2. CASE StatusMade("session") \/ StatusDeleted("session") BY <2>2, ObjectsKeep
  <2>3. CASE \E c : Controls(c) BY <2>3, ControlsTell
  <2>4. CASE UNCHANGED <<control, telling, replay, emitted>> BY <2>4, TellStill
  <2>5. MainThreadHook => \E c : Controls(c) BY DEF MainThreadHook
  <2>6. VdrTakesDevice => (\E c : Controls(c)) \/ UNCHANGED statusVars
    BY DEF VdrTakesDevice, MakePrimaryDevice
  <2>7. (\E c \in Recordings \union {"none"} : VdrReplays(c)) => \E c : Controls(c) BY DEF VdrReplays
  <2>8. (\E event \in Events : VdrTells(event)) => UNCHANGED <<control, telling, replay, emitted>>
    BY DEF VdrTells
  <2>9. VdrScans \/ VdrShowsMessage => UNCHANGED statusVars BY DEF VdrScans, VdrShowsMessage
  <2> QED BY <1>1, <1>4, <2>1, <2>2, <2>3, <2>4, <2>5, <2>6, <2>7, <2>8, <2>9 DEF Besides, Elsewhere
<1>5. CASE UNCHANGED vars BY <1>1, <1>5 DEF vars
<1> QED BY <1>2, <1>3, <1>4, <1>5 DEF Next

\* At first nothing is replayed, and nobody was told.
LEMMA TellInitially == ASSUME Init PROVE TellInv
<1>1. /\ control = "none" /\ telling = <<>>
      /\ replay = [b \in StatusBuses |-> IF b = "session" THEN NoStatus ELSE NewStatus]
      /\ emitted = [b \in StatusBuses |-> Silent]
  BY DEF Init, StatusInit
<1>2. replay \in [StatusBuses -> Objects] /\ emitted \in [StatusBuses -> News] BY <1>1, NewsTypes
<1>3. ~replay["session"].told /\ ~replay["system"].told BY <1>1 DEF NoStatus, NewStatus, StatusBuses
<1> QED BY <1>1, <1>2, <1>3 DEF TellInv, LastNews, Told

\* w is not in the part of Play that the invariant is about.
Apart(w) == ~At(w, "launch") /\ ~Successful(w) /\ w \notin Midway /\ (w \in Playing => HasList(w))

\* What such a thread does keeps the invariant of Play.
LEMMA AsidePlays ==
  ASSUME PlayInv, UNCHANGED <<control, chosen, resume>>, mixed \subseteq mixed', NEW w \in Workers, Apart(w)',
         \A v \in Workers \ {w} : call'[v] = call[v] /\ (HasList(v) => HasList(v)')
  PROVE  PlayInv'
<1>1. ASSUME NEW v \in Workers \ {w}
      PROVE  /\ v \in Playing' => v \in Playing
             /\ v \in Midway' => v \in Midway
             /\ Successful(v)' => Successful(v)
             /\ Stage(v) => Stage(v)'
  <2>1. call'[v] = call[v] OBVIOUS
  <2> QED BY <2>1 DEF Playing, Midway, Successful, Stage, At, Played
<1>2. \A v \in Playing' : HasList(v)' BY <1>1 DEF PlayInv, Apart, Playing
<1>3. Stage(w)' BY DEF Apart, Stage
<1>4. \A v \in Workers \ mixed' : Stage(v)' BY <1>1, <1>3 DEF PlayInv
<1>5. ASSUME NEW v \in Midway', NEW u \in Workers, v # u, u \in Midway' \/ Successful(u)' PROVE u \in mixed'
  <2>1. v \in Workers BY DEF Midway, Playing
  <2>2. v # w /\ u # w BY <1>5 DEF Apart
  <2>3. v \in Midway /\ (u \in Midway \/ Successful(u)) BY <1>1, <1>5, <2>1, <2>2
  <2> QED BY <1>5, <2>3 DEF PlayInv
<1> QED BY <1>2, <1>4, <1>5 DEF PlayInv

\* It holds if nobody plays.
LEMMA NobodyPlays ==
  ASSUME CallInv', Playing' = {}
  PROVE  PlayInv'
<1>1. \A w \in Workers : OnTheWay(call'[w].method, call'[w].at) BY DEF CallInv
<1>2. \A w \in Workers : call'[w].method # "Recordings.Play" \/ call'[w].at \in {"idle", "queued"}
  BY DEF Playing
<1>3. \A w \in Workers : ~At(w, "launch")' /\ ~Successful(w)' BY <1>1, <1>2 DEF At, Successful, OnTheWay
<1>4. Midway' = {} BY DEF Midway
<1> QED BY <1>3, <1>4 DEF PlayInv, Stage

\* Who holds a lock still holds it after a step of another.
LEMMA OthersHold ==
  ASSUME PoolInv, NEW w \in Workers, Effect(w)
  PROVE  /\ \A v \in Workers \ {w} : call'[v] = call[v] /\ holds'[v] = holds[v]
         /\ HasList(w) => HasList(w)'
<1>1. holds \in [Workers \union {VDR} -> SUBSET Keys] BY DEF PoolInv, LockInv
<1>2. \A v \in Workers \ {w} : call'[v] = call[v] BY DEF Effect, Passes
<1>3. CASE holds' = holds BY <1>2, <1>3 DEF HasList
<1>4. ASSUME NEW l \in Locks, NEW mode \in Modes, NEW until, Takes(w, l, mode, until)
      PROVE  (\A v \in Workers \ {w} : holds'[v] = holds[v]) /\ (HasList(w) => HasList(w)')
  BY <1>1, <1>4 DEF Takes, HasList
<1>5. CASE holds' = Removed(w, "schedules") BY <1>1, <1>2, <1>5 DEF Removed, HasList
<1>6. "schedules" \in Locks BY DEF Locks
<1> QED BY <1>2, <1>3, <1>4, <1>5, <1>6 DEF Effect

\* A recording is renamed only while nobody plays: Play has the list locked.
LEMMA ChangeNamePlays ==
  ASSUME PoolInv, CallInv', PlayInv, NEW w \in Workers, ChangeName(w)
  PROVE  PlayInv'
<1>1. Effect(w) BY RecordingsEffect DEF PoolInv, RecordingsMethod
<1>2. Writable("recordings") /\ Runs(w, "Recordings.ChangeName") BY DEF ChangeName, Locked, Grants
<1>3. Playing = {}
  <2>1. SUFFICES ASSUME NEW v \in Playing PROVE FALSE OBVIOUS
  <2>2. PICK h \in holds[v] : h.lock = "recordings" BY DEF PlayInv, HasList
  <2>3. v \in Workers BY DEF Playing
  <2>4. h \in HoldersOf("recordings") BY <2>2, <2>3 DEF HoldersOf
  <2> QED BY <1>2, <2>4 DEF Writable
<1>4. Playing' = {}
  <2>1. \A v \in Workers \ {w} : call'[v] = call[v] BY <1>1 DEF Effect, Passes
  <2>2. call'[w].method = "Recordings.ChangeName" BY <1>1, <1>2 DEF Effect, Passes, Runs
  <2> QED BY <1>3, <2>1, <2>2 DEF Playing
<1> QED BY <1>4, NobodyPlays

\* Who stops what is replayed disturbs all the others that play.
LEMMA StopPlays ==
  ASSUME PoolInv, PlayInv, NEW w \in Workers, PlayStop(w)
  PROVE  PlayInv'
<1>1. Effect(w) BY RecordingsEffect DEF PoolInv, RecordingsMethod
<1>2. /\ call[w].at = "stop" /\ call'[w].at = "choose" /\ call'[w].method = call[w].method
      /\ \A v \in Workers \ {w} : call'[v] = call[v]
  BY GoPasses DEF PlayStop, At, PoolInv, Passes
<1>3. call[w].method = "Recordings.Play" BY <1>2, OnWay DEF PoolInv, OnTheWay
<1>4. w \in Playing /\ w \notin Midway /\ Playing' = Playing /\ Midway' = Midway \union {w}
  BY <1>2, <1>3 DEF Playing, Midway
<1>5. /\ mixed' = ((mixed \union Playing) \ {w}) \union (IF Midway # {} THEN {w} ELSE {})
  BY DEF PlayStop
<1>6. \A v \in Playing' : HasList(v)'
  BY <1>1, <1>4, OthersHold DEF PlayInv, HasList, Playing
<1>7. ASSUME NEW v \in Workers \ mixed' PROVE Stage(v)'
  <2>1. CASE v = w BY <1>2, <2>1 DEF Stage, At, Successful
  <2>2. CASE v # w
    <3>1. v \notin Playing /\ call'[v] = call[v] BY <1>2, <1>5, <2>2
    <3>2. call[v].at \notin {"launch"} /\ ~Successful(v)
      BY <3>1, OnWay DEF Playing, PoolInv, OnTheWay, Successful, At
    <3> QED BY <3>1, <3>2 DEF Stage, At, Successful
  <2> QED BY <2>1, <2>2
<1>8. ASSUME NEW v \in Midway', NEW u \in Workers, v # u, u \in Midway' \/ Successful(u)' PROVE u \in mixed'
  <2>1. CASE u = w
    <3>1. v \in Midway BY <1>4, <1>8, <2>1
    <3> QED BY <1>5, <2>1, <3>1
  <2>2. CASE u # w
    <3>1. u \in Playing BY <1>2, <1>4, <1>8, <2>2 DEF Midway, Playing, Successful, At
    <3> QED BY <1>5, <2>2, <3>1
  <2> QED BY <2>1, <2>2
<1> QED BY <1>6, <1>7, <1>8 DEF PlayInv

\* What a thread in the middle of Play does concerns nobody but itself: the
\* others that are so far were disturbed.
LEMMA MidwayPlays ==
  ASSUME PoolInv, PlayInv, NEW w \in Midway, Effect(w), mixed' = mixed, call'[w].at \in {"launch", "replied"},
         w \notin mixed => Stage(w)'
  PROVE  PlayInv'
<1>1. w \in Workers /\ w \in Playing /\ call[w].method = "Recordings.Play" BY DEF Midway, Playing
<1>2. (\A v \in Workers \ {w} : call'[v] = call[v]) /\ call'[w].method = call[w].method
  BY <1>1 DEF Effect, Passes
<1>3. Playing' = Playing /\ Midway' \subseteq Midway BY <1>1, <1>2 DEF Playing, Midway
<1>4. \A v \in Playing' : HasList(v)'
  BY <1>1, <1>3, OthersHold DEF PlayInv, HasList, Playing
<1>5. ASSUME NEW v \in Workers \ mixed' PROVE Stage(v)'
  <2>1. CASE v = w BY <1>5, <2>1
  <2>2. CASE v # w
    <3>1. v \notin mixed /\ call'[v] = call[v] BY <1>2, <2>2
    <3>2. v \notin Midway /\ ~Successful(v) BY <1>1, <2>2, <3>1 DEF PlayInv
    <3>3. ~At(v, "launch") BY <3>2, OnWay DEF Midway, Playing, At, PoolInv, OnTheWay
    <3> QED BY <3>1, <3>2, <3>3 DEF Stage, At, Successful
  <2> QED BY <2>1, <2>2
<1>6. ASSUME NEW v \in Midway', NEW u \in Workers, v # u, u \in Midway' \/ Successful(u)' PROVE u \in mixed'
  <2>1. v \in Midway BY <1>3
  <2>2. CASE u = w BY <1>6, <2>1, <2>2 DEF PlayInv
  <2>3. CASE u # w
    <3>1. u \in Midway \/ Successful(u) BY <1>2, <1>3, <1>6, <2>3 DEF Successful, At
    <3> QED BY <1>6, <2>1, <3>1 DEF PlayInv
  <2> QED BY <2>2, <2>3
<1> QED BY <1>4, <1>5, <1>6 DEF PlayInv

\* Choosing is such a step,
LEMMA ChoosePlays ==
  ASSUME PoolInv, RecordingTypes, PlayInv, NEW w \in Workers, PlayChoose(w)
  PROVE  PlayInv'
<1>1. Effect(w) BY RecordingsEffect DEF PoolInv, RecordingsMethod
<1>2. /\ call[w].at = "choose" /\ call'[w].at = "launch" /\ call'[w].value = call[w].value
         /\ call'[w].arg = call[w].arg
  BY GoPasses DEF PlayChoose, At, PoolInv, Passes
<1>3. w \in Midway BY <1>2, OnWay DEF Midway, Playing, PoolInv, OnTheWay
<1>4. Played(w)' = Played(w) /\ Played(w) \in Recordings BY <1>2 DEF Played, RecordingTypes, Selected
<1>5. resume' = [resume EXCEPT ![Played(w)] = IF call[w].arg[2] = -1 THEN @ ELSE call[w].arg[2]]
        /\ chosen' = Played(w) /\ mixed' = mixed
  BY DEF PlayChoose
<1>6. call[w].arg[2] >= 0 => resume'[Played(w)] = call[w].arg[2]
  <2>1. PICK r : r = Played(w) OBVIOUS
  <2>2. resume'[r] = IF call[w].arg[2] = -1 THEN resume[r] ELSE call[w].arg[2]
    BY <1>4, <1>5, <2>1 DEF RecordingTypes
  <2>3. call[w].arg[2] >= 0 => call[w].arg[2] # -1 OBVIOUS
  <2> QED BY <2>1, <2>2, <2>3
<1>7. ~Successful(w)' BY <1>2 DEF Successful, At
<1>8. Stage(w)' BY <1>2, <1>4, <1>5, <1>6, <1>7 DEF Stage
<1> QED BY <1>1, <1>2, <1>3, <1>5, <1>8, MidwayPlays

\* and so is launching.
LEMMA LaunchPlays ==
  ASSUME PoolInv, PlayInv, NEW w \in Workers, PlayLaunch(w)
  PROVE  PlayInv'
<1>1. Effect(w) BY RecordingsEffect DEF PoolInv, RecordingsMethod
<1>2. /\ call[w].at = "launch" /\ call'[w].at = "replied" /\ call'[w].value = call[w].value
         /\ call'[w].arg = call[w].arg
  BY ReturnPasses DEF PlayLaunch, At, PoolInv, Passes
<1>3. w \in Midway BY <1>2, OnWay DEF Midway, Playing, PoolInv, OnTheWay
<1>4. Played(w)' = Played(w) BY <1>2 DEF Played
<1>5. control' = chosen /\ resume' = resume /\ mixed' = mixed BY DEF PlayLaunch, Controls, recordingsVars
<1>6. ASSUME w \notin mixed PROVE Stage(w)'
  <2>1. Stage(w) /\ At(w, "launch") BY <1>2, <1>6 DEF PlayInv, At
  <2> QED BY <1>2, <1>4, <1>5, <2>1 DEF Stage, At
<1> QED BY <1>1, <1>2, <1>3, <1>5, <1>6, MidwayPlays

\* What a method does keeps the invariant of Play.
LEMMA PlayMethod ==
  ASSUME PoolInv, CallInv', RecordingTypes, PlayInv, NEW w \in Workers, Method(w)
  PROVE  PlayInv'
<1>1. Effect(w) BY MethodEffect DEF PoolInv
<1>2. /\ \A v \in Workers \ {w} : call'[v] = call[v] /\ (HasList(v) => HasList(v)')
      /\ OnTheWay(call'[w].method, call'[w].at) /\ call'[w].method = call[w].method
  BY <1>1, OthersHold DEF HasList, Effect, Passes
<1>3. ASSUME call[w].method # "Recordings.Play", UNCHANGED <<control, chosen, resume, mixed>> PROVE PlayInv'
  <2>1. Apart(w)' BY <1>2, <1>3 DEF Apart, At, Successful, Midway, Playing, OnTheWay
  <2> QED BY <1>2, <1>3, <2>1, AsidePlays
<1>4. CASE RecordingsGet(w) \/ RecordingsListed(w) \/ Update(w) \/ Extra(w)
  <2>1. call[w].method # "Recordings.Play" BY <1>4 DEF RecordingsGet, RecordingsListed, Update, Extra, Runs
  <2>2. UNCHANGED <<control, chosen, resume, mixed>>
    BY <1>4 DEF RecordingsGet, RecordingsListed, Update, Extra, recordingsVars, statusVars
  <2> QED BY <1>3, <2>1, <2>2
<1>5. CASE PlayFind(w)
  <2>1. UNCHANGED <<control, chosen, resume, mixed>> BY <1>5 DEF PlayFind, recordingsVars, statusVars
  <2>2. call'[w].at = "stop" \/ (call'[w].at = "replied" /\ call'[w].code = 501)
    <3>1. CASE SendReply(w, 501) BY <3>1, ReplyPasses DEF PoolInv
    <3>2. CASE ~SendReply(w, 501)
      <4>1. PICK i : call' = [call EXCEPT ![w].at = "stop", ![w].value = <<list[i]>>]
        BY <1>5, <3>2 DEF PlayFind
      <4>2. call'[w].at = "stop" BY <4>1 DEF PoolInv, CallInv, Fields
      <4> QED BY <4>2
    <3> QED BY <3>1, <3>2
  <2>3. HasList(w)'
    <3>1. PICK h : h.lock = "recordings" /\ holds' = [holds EXCEPT ![w] = @ \union {h}]
      BY <1>5 DEF PlayFind, Locked
    <3>2. h \in holds'[w] BY <3>1 DEF PoolInv, LockInv
    <3> QED BY <3>1, <3>2 DEF HasList
  <2>4. Apart(w)' BY <2>2, <2>3 DEF Apart, At, Successful, Midway
  <2> QED BY <1>2, <2>1, <2>4, AsidePlays
<1>6. CASE RecordingsMethod(w)
  BY <1>4, <1>5, <1>6, ChangeNamePlays, StopPlays, ChoosePlays, LaunchPlays DEF RecordingsMethod
<1>7. CASE call[w].method \notin RecordingsMethods /\ UNCHANGED recordingsVars /\ UNCHANGED toldVars
  BY <1>3, <1>7 DEF RecordingsMethods, recordingsVars, toldVars
<1> QED BY <1>6, <1>7, MethodsApart DEF PoolInv

\* So does a step that changes nothing of it,
LEMMA PlayStill ==
  ASSUME PlayInv, call' = call, UNCHANGED <<control, chosen, resume, mixed>>, \A v \in Workers : HasList(v)
           => HasList(v)'
  PROVE  PlayInv'
<1>1. \A v \in Workers : (Successful(v)' <=> Successful(v)) /\ (Stage(v)' <=> Stage(v))
  BY DEF Successful, Stage, At, Played
<1>2. Playing' = Playing /\ Midway' = Midway BY DEF Playing, Midway
<1>3. Playing \subseteq Workers BY DEF Playing
<1> QED BY <1>1, <1>2, <1>3 DEF PlayInv

\* and one of VDR that disturbs all who play.
LEMMA DisturbedPlays ==
  ASSUME CallInv, PlayInv, call' = call, mixed' = mixed \union Playing, \A v \in Workers : HasList(v)
           => HasList(v)'
  PROVE  PlayInv'
<1>1. Playing' = Playing /\ Midway' = Midway /\ Playing \subseteq Workers BY DEF Playing, Midway
<1>2. ASSUME NEW v \in Workers, v \notin Playing PROVE ~Successful(v)' /\ ~At(v, "launch")'
  BY <1>2, OnWay DEF Playing, Successful, At, OnTheWay
<1>3. \A v \in Workers \ mixed' : Stage(v)' BY <1>2 DEF Stage
<1>4. ASSUME NEW u \in Workers, u \in Midway' \/ Successful(u)' PROVE u \in mixed'
  BY <1>1, <1>2, <1>4 DEF Midway
<1> QED BY <1>1, <1>3, <1>4 DEF PlayInv

\* Every step does.
LEMMA PlayNext ==
  ASSUME PoolInv, PoolInv', RecordingTypes, PlayInv, [Next]_vars
  PROVE  PlayInv'
<1>1. ASSUME NEW w \in Workers, Called(w) \/ Leaves(w) PROVE PlayInv'
  <2>1. /\ call'[w].at \in {"idle", "queued"}
        /\ \A v \in Workers \ {w} : call'[v] = call[v] /\ holds'[v] = holds[v]
    <3>1. CASE Called(w)
      <4>1. PICK c \in Possible : handle_method_call(w, c.method, c.arg) BY <3>1 DEF Called, Possible
      <4> QED BY <4>1 DEF handle_method_call, PoolInv, CallInv, NoCall
    <3>2. CASE Leaves(w) BY <3>2 DEF Leaves, Left, PoolInv, CallInv, LockInv, NoCall
    <3> QED BY <1>1, <3>1, <3>2
  <2>2. UNCHANGED <<control, chosen, resume, mixed>>
    BY <1>1 DEF Called, Leaves, Elsewhere, recordingsVars, statusVars
  <2>3. Apart(w)' BY <2>1 DEF Apart, At, Successful, Midway, Playing
  <2>4. \A v \in Workers \ {w} : HasList(v) => HasList(v)' BY <2>1 DEF HasList
  <2> QED BY <2>1, <2>2, <2>3, <2>4, AsidePlays
<1>2. ASSUME NEW w \in Workers, Method(w) PROVE PlayInv'
  BY <1>2, PlayMethod DEF PoolInv
<1>3. CASE Besides
  <2>1. call' = call BY <1>3, BesidesKeeps
  <2>2. \A v \in Workers : holds'[v] = holds[v]
    BY <1>3, BesidesKeeps, MethodPoolAssumption DEF VdrLocks, VdrUnlocks, Locked, PoolInv, LockInv
  <2>3. \A v \in Workers : HasList(v) => HasList(v)' BY <2>2 DEF HasList
  <2>4. UNCHANGED <<control, chosen, resume, mixed>> \/ mixed' = mixed \union Playing
    <3>1. CASE Disturbs BY <3>1 DEF Disturbs
    <3>2. CASE Replaying /\ Elsewhere({"status"}) BY <3>2 DEF Elsewhere, Replaying, recordingsVars
    <3>3. CASE VdrScans BY <3>3 DEF VdrScans, statusVars
    <3>4. CASE VdrShowsMessage /\ Elsewhere({"desk", "status"})
      BY <3>4 DEF Elsewhere, VdrShowsMessage, statusVars, recordingsVars
    <3> QED BY <1>3, <3>1, <3>2, <3>3, <3>4
        DEF Besides, Elsewhere, VdrTells, StatusMade, StatusDeleted, statusVars, recordingsVars
  <2> QED BY <2>1, <2>3, <2>4, PlayStill, DisturbedPlays DEF PoolInv
<1>4. CASE UNCHANGED vars BY <1>4, PlayStill DEF vars, poolVars, recordingsVars, statusVars, HasList
<1> QED BY <1>1, <1>2, <1>3, <1>4 DEF Next

\* At first nobody plays.
LEMMA PlayInitially == ASSUME Init PROVE PlayInv
<1>1. call = [w \in Workers |-> NoCall] BY DEF Init, PoolInit
<1>2. Playing = {} /\ Midway = {} BY <1>1 DEF Playing, Midway, NoCall
<1>3. \A w \in Workers : ~At(w, "launch") /\ ~Successful(w) BY <1>1 DEF At, Successful, NoCall
<1> QED BY <1>2, <1>3 DEF PlayInv, Stage

\* WHAT IS REPLAYED: when VDR has told all there is to tell, the objects on the
\* system and the session bus keep, and have sent, what is really replayed; and a
\* call of Play that nobody disturbed has made VDR replay the recording it was
\* asked for, from where it was asked for (status.c, recording.c).
THEOREM ReplaysAreTold == Spec => []ReplayTold
<1>1. ASSUME TellInv, PlayInv PROVE ReplayTold
  <2>1. ASSUME telling = <<>>, NEW b \in {"system", "session"}, replay[b].live /\ replay[b].told
        PROVE  [on |-> replay[b].on, name |-> replay[b].name] = Replays(control)
                 /\ Announces(emitted[b], control)
    BY <1>1, <2>1 DEF TellInv, Told
  <2>2. ASSUME NEW w \in Workers \ mixed, call[w].method = "Recordings.Play" /\ At(w, "replied")
                 /\ call[w].code = 250
        PROVE  control = Played(w) /\ (call[w].arg[2] >= 0 => resume[control] = call[w].arg[2])
    BY <1>1, <2>2 DEF PlayInv, Stage, Successful
  <2> QED BY <2>1, <2>2, Zenon DEF ReplayTold
<1>2. PoolInv /\ TellInv /\ [Next]_vars => TellInv' BY TellNext
<1>3. PoolInv /\ PoolInv' /\ RecordingTypes /\ PlayInv /\ [Next]_vars => PlayInv' BY PlayNext
<1>4. PoolInv /\ RecordingTypes /\ [Next]_vars => RecordingTypes' BY RecordingsNext
<1> QED BY PoolAlways, RecordingsInitially, TellInitially, PlayInitially, <1>1, <1>2, <1>3, <1>4, PTL DEF Spec
=============================================================================
