------------------------------ MODULE Methods ------------------------------
(***************************************************************************)
(* The methods of all interfaces, run by the pool's threads side by side,  *)
(* with what VDR's own threads and its user do meanwhile.                  *)
(***************************************************************************)
EXTENDS Remote, Setup, Timers, RecordingsList, Epg, Desk

VARIABLE
  wrote   \* whether a thread's call has changed something of VDR

\* What the calls are made to change.
world == <<vdrRemote, current, setup, timers, list, rescans, resume, chosen, directories,
           control, schedules, scanner, skin, messages, served, requested>>

vars == <<poolVars, current, remoteVars, setupVars, timersVars, recordingsVars, statusVars,
          epgVars, deskVars, wrote>>

\* The methods with their arguments.
KnownCalls ==
  ChannelsCalls \union RemoteCalls \union SetupCalls \union TimersCalls \union StatusCalls \union
  RecordingsCalls \union EpgCalls \union DeskCalls

Implemented == {c.method : c \in KnownCalls}

UnknownCall == [method |-> "Unknown.Method", arg |-> <<>>]

Init ==
  /\ PoolInit /\ ChannelsInit /\ RemoteInit /\ SetupInit /\ TimersInit /\ StatusInit
  /\ RecordingsInit /\ EpgInit /\ DeskInit
  /\ wrote = [w \in Workers |-> FALSE]

-----------------------------------------------------------------------------
Elsewhere(but) ==
  /\ IF "channels" \in but THEN TRUE ELSE UNCHANGED current
  /\ IF "remote" \in but THEN TRUE ELSE UNCHANGED remoteVars
  /\ IF "setup" \in but THEN TRUE ELSE UNCHANGED setupVars
  /\ IF "timers" \in but THEN TRUE ELSE UNCHANGED timersVars
  /\ IF "recordings" \in but THEN TRUE ELSE UNCHANGED recordingsVars
  /\ IF "status" \in but THEN TRUE ELSE UNCHANGED statusVars
  /\ IF "epg" \in but THEN TRUE ELSE UNCHANGED epgVars
  /\ IF "desk" \in but THEN TRUE ELSE UNCHANGED deskVars

\* The function that do_work calls.
Method(w) ==
  /\ \/ ChannelsMethod(w)   /\ Elsewhere({"channels"})
     \/ RemoteMethod(w)     /\ Elsewhere({"remote", "channels"})
     \/ SetupMethod(w)      /\ Elsewhere({"setup"})
     \/ TimersMethod(w)     /\ Elsewhere({"timers"})
     \/ RecordingsMethod(w) /\ Elsewhere({"recordings", "status"})
     \/ IsReplaying(w)      /\ Elsewhere({"status"})
     \/ EpgMethod(w)        /\ Elsewhere({"epg", "channels"})
     \/ DeskMethod(w)       /\ Elsewhere({"desk", "status"})
     \/ NotImplemented(w, Implemented) /\ Elsewhere({})
  /\ wrote' = [wrote EXCEPT ![w] = @ \/ world' # world]

Called(w) ==
  /\ \E c \in KnownCalls \union {UnknownCall} : handle_method_call(w, c.method, c.arg)
  /\ Elsewhere({}) /\ UNCHANGED wrote

Leaves(w) == Left(w) /\ Elsewhere({}) /\ wrote' = [wrote EXCEPT ![w] = FALSE]

Vdr(does) == does \in offered.vdr

\* VDR's threads and its user, as far as it matters to what is called.
Besides ==
  /\ \/ (\E l \in Locks : Vdr(l) /\ VdrLocks(l)) /\ Elsewhere({})
     \/ VdrUnlocks /\ Elsewhere({})
     \/ RemoteVdr /\ Elsewhere({"remote", "channels"})
     \/ Vdr("sets") /\ (\E b \in Bound, v \in Values : VdrSets(b, v)) /\ Elsewhere({"setup"})
     \/ Vdr("records") /\ VdrRecords /\ Elsewhere({"timers"})
     \/ VdrScans /\ Elsewhere({"recordings", "status"})
     \/ Vdr("replays") /\ (\E c \in Recordings \union {"none"} : VdrReplays(c)) /\ Disturbs
          /\ Elsewhere({"recordings", "status"})
     \/ Replaying /\ Elsewhere({"status"})
     \/ Vdr("tells") /\ (\E event \in Events : VdrTells(event)) /\ Elsewhere({"status"})
     \/ Vdr("session") /\ (StatusMade("session") \/ StatusDeleted("session")) /\ Elsewhere({"status"})
     \/ VdrScansAgain /\ Elsewhere({"epg"})
     \/ MainThreadHook /\ Disturbs /\ Elsewhere({"desk", "status", "recordings"})
     \/ Vdr("devices") /\ VdrTakesDevice /\ Disturbs /\ Elsewhere({"desk", "status", "recordings"})
     \/ VdrShowsMessage /\ Elsewhere({"desk", "status"})
  /\ UNCHANGED wrote

Next ==
  \/ \E w \in Workers : Called(w) \/ Method(w) \/ Leaves(w)
  \/ Besides

Spec == Init /\ [][Next]_vars

-----------------------------------------------------------------------------
\* Types, and VDR's state as far as a call may set it: a volume, a channel (if
\* there is one) and a name that exist; a lock is held by one writer or by readers.
TypeOK ==
  /\ \A w \in Workers : call[w].method \in Implemented \union {"none", "Unknown.Method"}
  /\ calls \in 0..offered.calls
  /\ \A a, b \in Workers \union {VDR} : a # b =>
       \A h \in holds[a], g \in holds[b] : h.lock = g.lock => h.mode = "read" /\ g.mode = "read"
  /\ volume \in 0..MaxVolume /\ muted \in BOOLEAN /\ (current \in Numbers \/ Numbers = {})
  /\ \A i, j \in DOMAIN timers : timers[i].id \in 1..timerIds /\ (timers[i].id = timers[j].id => i = j)
  /\ control \in Recordings \union {"none", "null"} /\ chosen \in Recordings \union {"none"}
  /\ IsInjective(list) /\ ToSet(list) \subseteq Recordings
  /\ schedules \in [Numbers -> -1..MaxEvents] /\ messages \in 0..MaxMessages

\* The answers that say no.
Refusals == {-2, -1, 451, 500, 501, 504, 550, 554, DBusError}

\* A call that is refused has changed nothing, at whichever of its steps it was
\* refused.  Only data that PutEntry cannot read may have been taken in part.
RefusedChangesNothing ==
  \A w \in Workers :
    At(w, "replied") /\ call[w].code \in Refusals /\ call[w].method # "Epg.PutEntry" => ~wrote[w]

\* Who holds a lock lets go of it: a thread that has one goes on with its call,
\* whatever locks others have - so that no two wait for each other - and none is
\* left when the call is.  VDR itself is waited for where it changes what it
\* replays.
LocksLetGo ==
  \A w \in Workers : holds[w] # {} =>
    /\ ~At(w, "idle") /\ ~At(w, "queued")
    /\ telling = <<>> => ENABLED (Method(w) \/ Leaves(w))
=============================================================================
