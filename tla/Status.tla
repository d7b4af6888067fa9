------------------------------- MODULE Status -------------------------------
(***************************************************************************)
(* The signals of VDR's status (status.c).  Each bus has an object that    *)
(* VDR tells what happens; it passes it on as signals, and keeps what is   *)
(* replayed to answer IsReplaying.  What is replayed is VDR's cControl:    *)
(* external, used by the recordings and by the null device.                *)
(***************************************************************************)
EXTENDS MethodPool

CONSTANTS
  Recordings,  \* names of recordings
  Events       \* what else VDR tells, by the name of its signal

ASSUME StatusAssumption == IsFiniteSet(Recordings)

VARIABLES
  control,     \* what VDR's control replays: a recording, "null" or "none"
  telling,     \* what VDR has still to tell about it
  replay,      \* the cVdrStatus of each bus
  emitted,     \* the last signal "Replaying" of each
  noticed,     \* the last other signal of each
  bereft       \* threads whose call is for an object that is deleted

statusVars == <<control, telling, replay, emitted, noticed, bereft>>

StatusBuses == {"system", "session", "network"}
NetworkEvents == {"ChannelChange", "TimerChange"}

Silent == [on |-> FALSE, name |-> "none"]
NoStatus == [live |-> FALSE, told |-> FALSE, on |-> FALSE, name |-> "none"]
NewStatus == [NoStatus EXCEPT !.live = TRUE]

StatusCalls ==
  [method : {"Status.IsReplaying"}, arg : StatusBuses]

StatusInit ==
  /\ control = "none" /\ telling = <<>>
  /\ replay = [b \in StatusBuses |-> IF b = "session" THEN NoStatus ELSE NewStatus]
  /\ emitted = [b \in StatusBuses |-> Silent] /\ noticed = [b \in StatusBuses |-> "none"]
  /\ bereft = {}

-----------------------------------------------------------------------------
(***************************************************************************)
(* External: cControl tells everybody before it is changed again.          *)
(***************************************************************************)

\* That a recording begins, or ends, is told with its file.
Begins(c) == [on |-> TRUE, name |-> c]
Ends(c) == [on |-> FALSE, name |-> c]

\* The old control is deleted; a recording that began or ended is told.
Controls(to) ==
  /\ telling = <<>> /\ control' = to
  /\ telling' = (IF control \in Recordings THEN <<Ends(control)>> ELSE <<>>)
                \o (IF to \in Recordings THEN <<Begins(to)>> ELSE <<>>)
  /\ UNCHANGED <<replay, emitted, noticed, bereft>>

\* What is to be kept of control c, and whether a message is about it.
Replays(c) == IF c \in Recordings THEN Begins(c) ELSE Silent
Announces(what, c) == IF c \in Recordings THEN what = Begins(c) ELSE ~what.on

-----------------------------------------------------------------------------
\* What an object keeps of a call of Replaying (for the mutants: also the name of
\* what has ended).
KeepsName(what) == [live |-> TRUE, told |-> TRUE, on |-> what.on, name |-> what.name]
Kept(what) ==
  [live |-> TRUE, told |-> TRUE, on |-> what.on, name |-> IF what.on THEN what.name ELSE "none"]

\* The mutex covers both, what is kept and the signal.
Replaying ==
  /\ telling # <<>> /\ telling' = Tail(telling)
  /\ LET what == Head(telling)
         listening == {b \in StatusBuses \ {"network"} : replay[b].live}
     IN /\ replay' = [b \in StatusBuses |-> IF b \in listening THEN Kept(what) ELSE replay[b]]
        /\ emitted' = [b \in StatusBuses |-> IF b \in listening THEN what ELSE emitted[b]]
  /\ UNCHANGED <<control, noticed, bereft, poolVars>>

\* The other calls of VDR; the network bus hears of channels and timers only.
VdrTells(event) ==
  /\ noticed' = [b \in StatusBuses |->
       IF replay[b].live /\ (b # "network" \/ event \in NetworkEvents) THEN event ELSE noticed[b]]
  /\ UNCHANGED <<control, telling, replay, emitted, bereft, poolVars>>

\* The session bus comes and goes with its object.
StatusMade(b) ==
  /\ b = "session" /\ ~replay[b].live
  /\ replay' = [replay EXCEPT ![b] = NewStatus] /\ emitted' = [emitted EXCEPT ![b] = Silent]
  /\ UNCHANGED <<control, telling, noticed, bereft, poolVars>>

\* Nobody looks whether the pool has calls for the object; the mutex is waited for.
StatusDeleted(b) ==
  /\ b = "session" /\ replay[b].live
  /\ bereft' = bereft \union {w \in Workers : Runs(w, "Status.IsReplaying") /\ call[w].arg = b}
  /\ replay' = [replay EXCEPT ![b] = NoStatus] /\ noticed' = [noticed EXCEPT ![b] = "none"]
  /\ UNCHANGED <<control, telling, emitted, poolVars>>

\* do_work and the method read what was freed: anything may come of it.
ReadsFreed(w) ==
  \/ Go(w, "crashed")
  \/ SendReply(w, DBusError)
  \/ \E on \in BOOLEAN : Return(w, 0, <<"none", on>>)

\* The object of the network bus does not know the method; that of a bus that is
\* not there is not found.
IsReplaying(w) ==
  /\ Runs(w, "Status.IsReplaying")
  /\ LET o == replay[call[w].arg] IN
     IF call[w].arg = "network" THEN NotImplemented(w, {})
     ELSE IF w \in bereft THEN ReadsFreed(w) /\ UNCHANGED holds
     ELSE Return(w, IF o.live THEN 0 ELSE DBusError, <<o.name, o.on>>) /\ UNCHANGED holds
  /\ bereft' = bereft \ {w}
  /\ UNCHANGED <<control, telling, replay, emitted, noticed>>

\* VDR's user starts and stops replaying.
VdrReplays(to) ==
  /\ to # control /\ Controls(to)
  /\ UNCHANGED poolVars
=============================================================================
