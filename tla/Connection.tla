----------------------------- MODULE Connection -----------------------------
(***************************************************************************)
(* One cDBusConnection (connection.c): the asynchronous connection state   *)
(* machine that the GLib main loop drives, the queues of signals and       *)
(* method calls, and the blocking Flush/Disconnect of its destructor.      *)
(*                                                                         *)
(* Two threads share the object.  The owner creates it, calls Connect and  *)
(* finally deletes it; the main loop dispatches the callbacks.  Any thread *)
(* may queue a signal or a call, and a thread pool emits the signals.  A   *)
(* handler of the main loop is one action: only this thread runs handlers. *)
(* The exception is on_name_lost_close, which reads _reconnect and then    *)
(* overwrites it in Connect(TRUE): the owner may act in between.  The      *)
(* owner is split wherever it reads a field without a lock.                *)
(*                                                                         *)
(* Messages are counted: no property here depends on their contents.       *)
(***************************************************************************)
EXTENDS Integers, FiniteSets

CONSTANTS
  Profiles,     \* the ways a connection is made, see Feature
  LateMessages, \* whether other threads still queue messages during Disconnect
  MaxSignals,   \* bound: signals queued in a behaviour
  MaxCalls,     \* bound: method calls queued in a behaviour
  MaxLosses,    \* bound: how often the bus takes the name away
  MaxFailures   \* bound: how often connecting fails

\* "address": made from a bus address (else from a bus type); "busname": it owns
\* a name on the bus; "reconnect": the owner calls Connect(TRUE).
Feature == {"address", "busname", "reconnect"}

ASSUME ConnectionAssumption ==
  /\ Profiles \subseteq SUBSET Feature
  /\ LateMessages \in BOOLEAN
  /\ {MaxSignals, MaxCalls, MaxLosses, MaxFailures} \subseteq Nat

\* Flags are 0 or 1, like C's: owner_id = 1 stands for _owner_id > 0.
VARIABLES
  profile,            \* _bus_address, _busname and the argument of Connect
  connect_status,     \* _connect_status
  reconnect,          \* _reconnect
  connection,         \* 0: _connection is NULL
  owner_id,           \* _owner_id, the name is requested
  objects,            \* the objects are registered on the connection
  watchers,           \* the watchers watch their names
  announced,          \* _on_name_acquired was called, _on_name_lost not yet
  disconnect_status,  \* _disconnect_status
  signals,            \* length of _signals
  method_calls,       \* length of _method_calls
  pending,            \* callbacks attached to the main loop or awaited from GIO
  loop,               \* "reconnect": inside on_name_lost_close, before Connect
  working,            \* signals handed to the thread pool and not yet emitted
  lost,               \* signals the pool emitted on a NULL connection
  owner,              \* where the owner's thread is
  issued, called, losses, failures  \* what the bounds count

lifecycle == <<connect_status, reconnect, connection>>
names     == <<owner_id, objects, watchers, announced>>
queues    == <<signals, method_calls, working, lost>>
budgets   == <<issued, called, losses, failures>>
vars == <<profile, lifecycle, names, disconnect_status, queues, pending, loop,
          owner, budgets>>

\* Idle sources and the one second timer (do_*), and the completions of
\* asynchronous GIO operations (on_*, do_call_reply).
Callback == {"do_connect", "do_reconnect", "do_flush", "do_disconnect",
             "do_emit_signal", "do_call_method", "on_bus_get", "on_flush",
             "on_name_lost_close", "on_disconnect_close", "do_call_reply"}

Flag == {0, 1}

OwnerState == {"created", "running", "flushing", "flushed", "requesting",
               "submitting", "waiting", "freed", "crashed"}

\* The object is freed; "crashed": it was used afterwards.
Gone == {"freed", "crashed"}

One(b) == IF b THEN 1 ELSE 0

\* Callback c ends and the callbacks of the set D are attached or awaited.
Replace(c, D) ==
  pending' = [k \in Callback |-> pending[k] - One(k = c) + One(k \in D)]
Attach(d) == Replace("none", {d})
Finish(c) == Replace(c, {})

\* The main loop can dispatch callback c.  _disconnect_mutex is held from
\* "requesting" to "waiting": see Unlocked.
Ready(c) == owner \notin Gone /\ loop = "idle" /\ pending[c] > 0
Unlocked == owner # "submitting"

\* GLib dispatches sources of equal priority in the order they were attached,
\* so a disconnect that is queued when an attempt starts is handled before the
\* attempt can complete.  There is no connection then and the two commute: the
\* model lets the queued disconnect go first.
NoneQueued == pending["do_flush"] = 0 /\ pending["do_disconnect"] = 0

Init ==
  /\ profile \in Profiles
  /\ connect_status = 0
  /\ reconnect = One("address" \notin profile)
  /\ connection = 0
  /\ owner_id = 0 /\ objects = 0 /\ watchers = 0 /\ announced = 0
  /\ disconnect_status = 0
  /\ signals = 0 /\ method_calls = 0 /\ working = 0 /\ lost = 0
  /\ pending = [c \in Callback |-> 0]
  /\ loop = "idle"
  /\ owner = "created"
  /\ issued = 0 /\ called = 0 /\ losses = 0 /\ failures = 0

-----------------------------------------------------------------------------
(***************************************************************************)
(* The owner: Connect, and the destructor's Flush and Disconnect.          *)
(***************************************************************************)

Connect ==
  /\ owner = "created"
  /\ owner' = "running"
  /\ reconnect' = One("reconnect" \in profile)
  /\ connect_status' = 0
  /\ Attach("do_connect")
  /\ UNCHANGED <<profile, connection, names, disconnect_status, queues, loop, budgets>>

\* The destructor starts; Flush gives up at once when the status is 0.
Delete ==
  /\ owner = "running"
  /\ owner' = IF connect_status = 0 THEN "flushed" ELSE "flushing"
  /\ UNCHANGED <<profile, lifecycle, names, disconnect_status, queues, pending, loop, budgets>>

\* Flush waits for _flush_cond until both queues are empty.
Flush ==
  /\ owner = "flushing"
  /\ signals = 0 /\ method_calls = 0
  /\ owner' = "flushed"
  /\ UNCHANGED <<profile, lifecycle, names, disconnect_status, queues, pending, loop, budgets>>

\* Disconnect gives up at once when the status is 0; the object is then freed.
DisconnectCheck ==
  /\ owner = "flushed"
  /\ owner' = IF connect_status = 0 THEN "freed" ELSE "requesting"
  /\ UNCHANGED <<profile, lifecycle, names, disconnect_status, queues, pending, loop, budgets>>

\* Disconnect locks _disconnect_mutex and asks for the end.
DisconnectRequest ==
  /\ owner = "requesting"
  /\ owner' = "submitting"
  /\ reconnect' = 0
  /\ disconnect_status' = 1
  /\ UNCHANGED <<profile, connect_status, connection, names, queues, pending, loop, budgets>>

\* The callback that Disconnect chooses by the status it reads now.
Closer == IF connect_status >= 3 THEN "do_flush" ELSE "do_disconnect"

DisconnectSubmit ==
  /\ owner = "submitting"
  /\ owner' = "waiting"
  /\ Attach(Closer)
  /\ UNCHANGED <<profile, lifecycle, names, disconnect_status, queues, loop, budgets>>

\* _disconnect_cond was signalled: Disconnect returns and the object is freed.
DisconnectReturn ==
  /\ owner = "waiting"
  /\ disconnect_status >= 2
  /\ owner' = "freed"
  /\ disconnect_status' = 0
  /\ UNCHANGED <<profile, lifecycle, names, queues, pending, loop, budgets>>

-----------------------------------------------------------------------------
(***************************************************************************)
(* Any thread: EmitSignal and CallMethod, both under _flush_mutex.         *)
(***************************************************************************)

\* EmitSignal attaches a handler only for the first signal of the list.
HandlerFor(queue, handler) ==
  IF queue = 0 THEN Attach(handler) ELSE UNCHANGED pending

Accepting == owner \in {"created", "running", "flushing"} \/ (LateMessages /\ owner \notin Gone)

EmitSignal ==
  /\ Accepting /\ issued < MaxSignals
  /\ HandlerFor(signals, "do_emit_signal")
  /\ signals' = signals + 1
  /\ issued' = issued + 1
  /\ UNCHANGED <<profile, lifecycle, names, disconnect_status, method_calls, working,
                 lost, loop, owner, called, losses, failures>>

CallMethod ==
  /\ Accepting /\ called < MaxCalls
  /\ HandlerFor(method_calls, "do_call_method")
  /\ method_calls' = method_calls + 1
  /\ called' = called + 1
  /\ UNCHANGED <<profile, lifecycle, names, disconnect_status, signals, working,
                 lost, loop, owner, issued, losses, failures>>

\* A pool thread emits one signal of its batch, whatever _connection is now.
do_work ==
  /\ working > 0 /\ owner # "crashed"
  /\ working' = working - 1
  /\ lost' = lost + One(connection = 0)
  /\ UNCHANGED <<profile, lifecycle, names, disconnect_status, signals, method_calls,
                 pending, loop, owner, budgets>>

-----------------------------------------------------------------------------
(***************************************************************************)
(* The main loop: connecting.                                              *)
(***************************************************************************)

do_connect ==
  /\ Ready("do_connect") /\ NoneQueued
  /\ IF connect_status = 0
     THEN /\ connect_status' = 2
          /\ Replace("do_connect", {"on_bus_get", "do_reconnect"})
     ELSE /\ Finish("do_connect")
          /\ UNCHANGED connect_status
  /\ UNCHANGED <<profile, reconnect, connection, names, disconnect_status, queues,
                 loop, owner, budgets>>

\* GIO answers: connected, and the name is requested ...
BusGetSucceeds ==
  /\ connection' = 1
  /\ connect_status' = 3
  /\ IF "busname" \in profile
     THEN objects' = 1 /\ watchers' = 1 /\ owner_id' = 1
     ELSE UNCHANGED <<objects, watchers, owner_id>>
  /\ UNCHANGED failures

\* ... or there is no bus at this address now.
BusGetFails ==
  /\ failures < MaxFailures
  /\ failures' = failures + 1
  /\ connect_status' = 1
  /\ UNCHANGED <<connection, objects, watchers, owner_id>>

on_bus_get ==
  /\ Ready("on_bus_get")
  /\ Finish("on_bus_get")
  /\ BusGetSucceeds \/ BusGetFails
  /\ UNCHANGED <<profile, reconnect, announced, disconnect_status, queues, loop,
                 owner, issued, called, losses>>

\* do_reconnect's first test; and, for the mutants, without it.
AlwaysWanted == TRUE
Wanted == reconnect = 1

\* The first tick of the timer that finds a connection ends the timer (for the
\* mutants: every tick that finds one advances the status).
ConfirmAgain == connect_status >= 3 /\ connect_status' = connect_status + 1 /\ Finish("do_reconnect")
ConfirmUp == connect_status = 3 /\ connect_status' = 4 /\ Finish("do_reconnect")

\* A tick after a failed attempt starts the next one and keeps the timer (for
\* the mutants: it ends the timer; it does not wait for the attempt's answer).
RetryOnce ==
  /\ connect_status = 1 /\ NoneQueued
  /\ connect_status' = 2
  /\ Replace("do_reconnect", {"on_bus_get"})
RetryImpatient ==
  /\ connect_status \in {1, 2} /\ NoneQueued
  /\ connect_status' = 2
  /\ Attach("on_bus_get")
Retry ==
  /\ connect_status = 1 /\ NoneQueued
  /\ connect_status' = 2
  /\ Attach("on_bus_get")

\* The timer's tick.  It goes on ticking (status 2) or ends.
do_reconnect ==
  /\ Ready("do_reconnect")
  /\ \/ ~Wanted /\ Finish("do_reconnect") /\ UNCHANGED connect_status
     \/ Wanted /\ ConfirmUp
     \/ Wanted /\ Retry
     \/ Wanted /\ connect_status = 2 /\ UNCHANGED <<connect_status, pending>>
     \/ /\ Wanted /\ connect_status \in {0, 4}
        /\ Finish("do_reconnect") /\ UNCHANGED connect_status
  /\ UNCHANGED <<profile, reconnect, connection, names, disconnect_status, queues,
                 loop, owner, budgets>>

\* The bus gave us the name: the user's _on_name_acquired is called.
on_name_acquired ==
  /\ owner \notin Gone /\ loop = "idle"
  /\ owner_id = 1 /\ announced = 0
  /\ announced' = 1
  /\ UNCHANGED <<profile, lifecycle, owner_id, objects, watchers, disconnect_status,
                 queues, pending, loop, owner, budgets>>

-----------------------------------------------------------------------------
(***************************************************************************)
(* The main loop: the end of a connection.                                 *)
(***************************************************************************)

\* UnregisterWatchers, UnregisterObjects and g_bus_unown_name (for the mutants:
\* the name is unowned and _owner_id not reset).
Unregistered(flag) == IF connection = 1 THEN 0 ELSE flag
WithdrawKeepingId ==
  /\ watchers' = Unregistered(watchers)
  /\ objects' = IF "busname" \in profile THEN Unregistered(objects) ELSE objects
  /\ owner_id' = owner_id
Withdraw ==
  /\ watchers' = Unregistered(watchers)
  /\ objects' = IF "busname" \in profile THEN Unregistered(objects) ELSE objects
  /\ owner_id' = 0

\* g_dbus_connection_close and _flush ignore a NULL connection: they report a
\* critical warning and never call back.
Awaited(callback) == IF connection = 1 THEN {callback} ELSE {}

LossStatus == IF connect_status = 4 THEN 0 ELSE 1

\* on_name_lost_close ends by telling the user; with a reconnect it first
\* connects again (for the mutants: it tells only then).
ToldOnReconnectOnly == announced
AnnouncedAfterLoss == IF reconnect = 1 THEN announced ELSE 0

\* on_name_lost_close up to the test of _reconnect, or all of it without one.
ReleaseAfterLoss ==
  /\ connection' = 0
  /\ connect_status' = LossStatus
  /\ loop' = IF reconnect = 1 THEN "reconnect" ELSE "idle"
  /\ announced' = AnnouncedAfterLoss

\* The bus closed the connection, or refused or withdrew the name.
on_name_lost ==
  /\ owner \notin Gone /\ loop = "idle" /\ owner_id = 1
  /\ losses < MaxLosses
  /\ losses' = losses + 1
  /\ Withdraw
  /\ IF "address" \in profile
     THEN /\ Replace("none", Awaited("on_name_lost_close"))
          /\ UNCHANGED <<connection, connect_status, loop, announced>>
     ELSE ReleaseAfterLoss /\ UNCHANGED pending
  /\ UNCHANGED <<profile, reconnect, disconnect_status, queues, owner, issued,
                 called, failures>>

on_name_lost_close ==
  /\ Ready("on_name_lost_close")
  /\ Finish("on_name_lost_close")
  /\ ReleaseAfterLoss
  /\ UNCHANGED <<profile, reconnect, owner_id, objects, watchers, disconnect_status,
                 queues, owner, budgets>>

\* The rest of on_name_lost_close: Connect(TRUE), and the user is told.
ConnectAgain ==
  /\ loop = "reconnect" /\ owner \notin Gone
  /\ loop' = "idle"
  /\ reconnect' = 1
  /\ connect_status' = 0
  /\ Attach("do_connect")
  /\ announced' = 0
  /\ UNCHANGED <<profile, connection, owner_id, objects, watchers, disconnect_status,
                 queues, owner, budgets>>

\* on_disconnect_close: the waiting owner is woken (for the mutants: the status
\* is not reset).
ReleaseKeepingStatus ==
  /\ connection' = 0
  /\ connect_status' = connect_status
  /\ disconnect_status' = 2
ReleaseForOwner ==
  /\ connection' = 0
  /\ connect_status' = IF connection = 1 THEN 0 ELSE connect_status
  /\ disconnect_status' = 2

do_disconnect ==
  /\ Ready("do_disconnect")
  /\ Withdraw
  /\ IF "address" \in profile
     THEN /\ Replace("do_disconnect", Awaited("on_disconnect_close"))
          /\ UNCHANGED <<connection, connect_status, disconnect_status>>
     ELSE Finish("do_disconnect") /\ ReleaseForOwner
  /\ UNCHANGED <<profile, reconnect, announced, queues, loop, owner, budgets>>

on_disconnect_close ==
  /\ Ready("on_disconnect_close") /\ Unlocked
  /\ Finish("on_disconnect_close")
  /\ ReleaseForOwner
  /\ UNCHANGED <<profile, reconnect, names, queues, loop, owner, budgets>>

do_flush ==
  /\ Ready("do_flush")
  /\ Replace("do_flush", Awaited("on_flush"))
  /\ UNCHANGED <<profile, lifecycle, names, disconnect_status, queues, loop, owner, budgets>>

\* What follows a flush (for the mutants: an off-by-one in the test).
AfterFlushLate == IF disconnect_status <= 1 THEN {} ELSE {"do_disconnect"}
AfterFlush == IF disconnect_status = 0 THEN {} ELSE {"do_disconnect"}

on_flush ==
  /\ Ready("on_flush") /\ Unlocked
  /\ Replace("on_flush", AfterFlush)
  /\ UNCHANGED <<profile, lifecycle, names, disconnect_status, queues, loop, owner, budgets>>

-----------------------------------------------------------------------------
(***************************************************************************)
(* The main loop: the queues.                                              *)
(***************************************************************************)

\* What a queue's handler does with its queue: forget it when a disconnect is
\* asked for, leave it for the next round, or take all of it (for the mutants:
\* forget it also when not connected).
ForgetUnlessUp == disconnect_status > 0 \/ connect_status < 3
Forget == disconnect_status > 0
Postpone == ~Forget /\ connect_status < 3
Take == ~Forget /\ connect_status >= 3

do_emit_signal ==
  /\ Ready("do_emit_signal") /\ Unlocked
  /\ \/ Forget /\ Finish("do_emit_signal") /\ UNCHANGED <<signals, working>>
     \/ Postpone /\ UNCHANGED <<pending, signals, working>>
     \/ /\ Take /\ Finish("do_emit_signal")
        /\ working' = working + signals
        /\ signals' = 0
  /\ UNCHANGED <<profile, lifecycle, names, disconnect_status, method_calls, lost,
                 loop, owner, budgets>>

\* A call whose caller gave no _on_reply is sent without awaiting a reply.
do_call_method ==
  /\ Ready("do_call_method") /\ Unlocked
  /\ \/ Forget /\ Finish("do_call_method") /\ UNCHANGED method_calls
     \/ Postpone /\ UNCHANGED <<pending, method_calls>>
     \/ /\ Take
        /\ \E replies \in 0..method_calls :
             pending' = [pending EXCEPT !["do_call_method"] = @ - 1,
                                       !["do_call_reply"] = @ + replies]
        /\ method_calls' = 0
  /\ UNCHANGED <<profile, lifecycle, names, disconnect_status, signals, working, lost,
                 loop, owner, budgets>>

\* The reply, an error or a timeout arrives for one call.
do_call_reply ==
  /\ Ready("do_call_reply")
  /\ Finish("do_call_reply")
  /\ UNCHANGED <<profile, lifecycle, names, disconnect_status, queues, loop, owner, budgets>>

-----------------------------------------------------------------------------
(***************************************************************************)
(* What the destructor leaves behind.                                      *)
(***************************************************************************)

\* Disconnect has returned early at status 0, or has not waited for everything
\* that is attached or handed to the pool: it gets the freed object.  VDR may
\* crash; if it does not, nothing is left that the model could follow.
UseAfterFree ==
  /\ owner = "freed"
  /\ loop = "reconnect" \/ working > 0 \/ \E c \in Callback : pending[c] > 0
  /\ owner' = "crashed"
  /\ UNCHANGED <<profile, lifecycle, names, disconnect_status, queues, pending, loop, budgets>>

-----------------------------------------------------------------------------

Owner == \/ Connect \/ Delete \/ Flush \/ DisconnectCheck \/ DisconnectRequest
         \/ DisconnectSubmit \/ DisconnectReturn

MainLoop ==
  \/ do_connect \/ on_bus_get \/ do_reconnect \/ on_name_acquired \/ on_name_lost
  \/ on_name_lost_close \/ ConnectAgain \/ do_disconnect \/ on_disconnect_close
  \/ do_flush \/ on_flush \/ do_emit_signal \/ do_call_method \/ do_call_reply

Next == Owner \/ MainLoop \/ EmitSignal \/ CallMethod \/ do_work \/ UseAfterFree

Spec == Init /\ [][Next]_vars

\* The main loop dispatches what is ready, GIO completes what it was asked for,
\* the pool's threads run, and the owner goes on once it has begun to delete.
\* Nothing makes VDR delete the connection, or the bus take a name away.
Fairness ==
  /\ WF_vars(Connect)
  /\ WF_vars(Flush) /\ WF_vars(DisconnectCheck) /\ WF_vars(DisconnectRequest)
  /\ WF_vars(DisconnectSubmit) /\ WF_vars(DisconnectReturn)
  /\ WF_vars(do_connect) /\ WF_vars(on_bus_get) /\ WF_vars(do_reconnect)
  /\ WF_vars(on_name_lost_close) /\ WF_vars(ConnectAgain)
  /\ WF_vars(do_disconnect) /\ WF_vars(on_disconnect_close)
  /\ WF_vars(do_flush) /\ WF_vars(on_flush)
  /\ WF_vars(do_emit_signal) /\ WF_vars(do_call_method) /\ WF_vars(do_call_reply)
  /\ WF_vars(do_work)

FairSpec == Spec /\ Fairness

-----------------------------------------------------------------------------
(***************************************************************************)
(* Properties.                                                             *)
(***************************************************************************)

\* Every variable keeps its type: the status stays one of the five that the
\* code knows, and no callback runs that is not attached.
TypeOK ==
  /\ profile \in Profiles
  /\ connect_status \in 0..4
  /\ reconnect \in Flag /\ connection \in Flag
  /\ owner_id \in Flag /\ objects \in Flag /\ watchers \in Flag /\ announced \in Flag
  /\ disconnect_status \in 0..2
  /\ signals \in Nat /\ method_calls \in Nat /\ working \in Nat /\ lost \in Nat
  /\ pending \in [Callback -> Nat]
  /\ loop \in {"idle", "reconnect"}
  /\ owner \in OwnerState
  /\ issued \in Nat /\ called \in Nat /\ losses \in Nat /\ failures \in Nat

\* The owner asked for the end, and then Connect(TRUE) of on_name_lost_close,
\* which had read _reconnect before, set it again: nobody will reset it.
Asked == owner \in {"submitting", "waiting"} \union Gone
Overwritten == reconnect = 1 /\ Asked

\* GetConnectStatus can be trusted: it is 3 or 4 exactly while there is a
\* GDBusConnection (do_emit_signal and WatchBusname use _connection on its
\* word), and 2 exactly while one single attempt waits for its answer.
StatusIsTrue ==
  /\ connection = One(connect_status >= 3)
  /\ pending["on_bus_get"] = One(connect_status = 2)

\* With automatic reconnect a connection that is down is never left alone:
\* a Connect is on its way, or the one second timer runs and will retry.
NeverStranded ==
  (reconnect = 1 /\ connection = 0 /\ owner # "created" /\ ~Asked) =>
    \/ loop = "reconnect"
    \/ connect_status = 0 /\ pending["do_connect"] = 1
    \/ connect_status \in {1, 2} /\ pending["do_reconnect"] > 0

\* EmitSignal and CallMethod attach a handler for the first element only; until
\* a disconnect is asked for, a queue has its one handler exactly while it
\* holds something (no queue is forgotten, none is served twice at a time).
QueuesServed ==
  ~Asked =>
    /\ pending["do_emit_signal"] = One(signals > 0)
    /\ pending["do_call_method"] = One(method_calls > 0)

\* The name is owned, the objects are registered and the watchers watch at the
\* same times, and only on a live connection, across losses, retries and the
\* disconnect: no second registration and no callback on a closed connection.
RegisteredTogether ==
  ~Overwritten =>
    /\ objects = owner_id /\ watchers = owner_id
    /\ owner_id = 1 => connection = 1 /\ "busname" \in profile

\* A user that was told that the name was acquired (the network handler then
\* publishes a service) is told that it was lost before another attempt starts,
\* unless the owner disconnects.
LossReported ==
  (announced = 1 /\ ~Asked) => (connection = 1 \/ loop = "reconnect")

\* The phase a user sees, for the refinement of ConnectionAbs.
phaseSeen ==
  IF owner = "created" THEN "new"
  ELSE IF owner \in Gone THEN "gone"
  ELSE IF connect_status >= 3 THEN "up"
  ELSE IF connect_status = 2 THEN "trying"
  ELSE IF loop = "reconnect" \/ pending["do_connect"] > 0 THEN "ordered"
  ELSE IF connect_status = 1 THEN "failed" ELSE "idle"

Abs == INSTANCE ConnectionAbs
         WITH phase <- phaseSeen, keep <- One(reconnect = 1 \/ loop = "reconnect")

\* The connection keeps the promise that ConnectionAbs states: one attempt at a
\* time, one only without automatic reconnect, one more after every loss with it.
Promise == Abs!AbsSpec

\* The same with its fairness: a due attempt is made, answered and retried.
FairPromise == Abs!AbsFairSpec

\* The life that the code around the connection meets, for BusLife.  A step of
\* the owner before it waits in Disconnect is not seen.
Closing == \E c \in {"do_flush", "on_flush", "do_disconnect", "on_disconnect_close"} : pending[c] > 0

waitSeen ==
  IF disconnect_status = 2 THEN "closing"
  ELSE IF connection = 0 \/ ~Closing THEN "doomed"
  ELSE IF pending["on_name_lost_close"] > 0 THEN "sinking" ELSE "closing"

downSeen ==
  IF connect_status = 0 \/ loop = "reconnect" THEN IF losses = 0 THEN "new" ELSE "lost"
  ELSE IF losses = 0 /\ failures = 0 THEN "new" ELSE "failed"

lifeSeen ==
  IF owner \in {"created"} \union Gone THEN "none"
  ELSE IF owner = "waiting" THEN waitSeen
  ELSE IF connection = 0 THEN downSeen
  ELSE IF pending["on_name_lost_close"] > 0 THEN "losing" ELSE "up"

Bus == INSTANCE BusLife WITH life <- lifeSeen, reconnects <- "reconnect" \in profile

\* The connection leads the life that Plugin assumes of each of its buses: it
\* comes up again only with automatic reconnect, and a destructor that waits
\* returns unless the connection came or went meanwhile.
LifeLed == Bus!LifeSpec

\* An automatically reconnecting connection that is down comes up again, if the
\* bus fails it a bounded number of times only and the owner lets it live.
AutoReconnects ==
  (reconnect = 1 /\ connection = 0 /\ owner = "running") ~> (connection = 1 \/ owner # "running")

\* On such a connection every queued signal reaches the thread pool, across
\* losses and failed attempts, and so the destructor's Flush comes to an end.
QueuesDrain == (signals > 0 /\ reconnect = 1) ~> (signals = 0 \/ Asked)

\* Disconnect returns if the connection is there until Disconnect closes it.
DisconnectReturnsWhileUp ==
  []((owner = "waiting" /\ disconnect_status < 2) => connection = 1) =>
    (owner = "waiting" ~> owner = "freed")

\* What the comment in Disconnect says, "wait until really disconnected": the
\* wait ends.  It does not when the connection is lost before it is closed.
DisconnectReturns == owner = "waiting" ~> owner = "freed"

\* What the README says of "Stop", the last signal before the connection is
\* deleted: that it is sent.  The thread pool may emit it too late.
NoSignalLost == lost = 0

=============================================================================
