-------------------------- MODULE Connection_proofs --------------------------
(***************************************************************************)
(* Proofs about Connection, for every set of profiles and all bounds: the  *)
(* inductive invariant IInv, the safety properties of the module as its    *)
(* consequences, and the refinements of ConnectionAbs and BusLife.         *)
(***************************************************************************)
EXTENDS Connection, TLAPS

\* Nothing but the queues has happened before Connect.
Untouched ==
  owner = "created" =>
    /\ connect_status = 0 /\ loop = "idle" /\ owner_id = 0
    /\ pending["do_connect"] = 0 /\ pending["do_reconnect"] = 0
    /\ pending["on_name_lost_close"] = 0

\* Only Disconnect starts the callbacks that close the connection.
ClosersAsked ==
  /\ disconnect_status > 0 => Asked
  /\ \A c \in {"do_flush", "on_flush", "do_disconnect", "on_disconnect_close"} :
       pending[c] > 0 => Asked

\* A Connect that is on its way is the only one, and finds status 0.
OrderAlone ==
  pending["do_connect"] > 0 =>
    /\ pending["do_connect"] = 1 /\ connect_status = 0
    /\ loop = "idle" /\ pending["on_name_lost_close"] = 0

\* Inside on_name_lost_close the connection is gone and nothing else is due.
LoopAlone ==
  loop = "reconnect" =>
    /\ connect_status \in {0, 1} /\ pending["do_connect"] = 0
    /\ pending["on_name_lost_close"] = 0

\* A lost connection that is being closed has given up its name; if Disconnect
\* has closed it first, nothing has been started since.
LossAlone ==
  pending["on_name_lost_close"] > 0 =>
    /\ pending["on_name_lost_close"] = 1
    /\ "address" \in profile
    /\ connection = 1 \/ connect_status = 0
    /\ connection = 1 => owner_id = 0

\* A connection made from a bus type is released at once.
TypedAtOnce ==
  "address" \notin profile =>
    /\ owner_id = 1 => connection = 1
    /\ pending["on_name_lost_close"] = 0 /\ pending["on_disconnect_close"] = 0

\* Unless Overwritten, nothing starts while Disconnect closes the connection.
CloseAlone ==
  (pending["on_disconnect_close"] > 0 /\ ~Overwritten) =>
    /\ owner_id = 0 /\ pending["on_bus_get"] = 0 /\ pending["do_connect"] = 0
    /\ loop = "idle"

IInv ==
  /\ TypeOK /\ StatusIsTrue /\ Untouched /\ ClosersAsked /\ OrderAlone /\ LoopAlone
  /\ LossAlone /\ TypedAtOnce /\ CloseAlone
  /\ NeverStranded /\ QueuesServed /\ RegisteredTogether /\ LossReported

-----------------------------------------------------------------------------
(***************************************************************************)
(* Typing.                                                                 *)
(***************************************************************************)

USE DEF One, Flag, Callback, OwnerState, Gone, Attach, Finish, Ready,
        lifecycle, names, queues, budgets

\* What Replace does to the number of each callback: c must have been there.
LEMMA ReplaceCounts ==
  ASSUME pending \in [Callback -> Nat], NEW c, NEW D,
         c \in Callback => pending[c] > 0, Replace(c, D)
  PROVE  /\ pending' \in [Callback -> Nat]
         /\ \A k \in Callback : pending'[k] = pending[k] - One(k = c) + One(k \in D)
  BY DEF Replace

\* Every step keeps the types: no count of callbacks falls below zero.
LEMMA TypeStep == ASSUME TypeOK, [Next]_vars PROVE TypeOK'
\* The owner.
<1>1. CASE \/ Connect \/ Delete \/ Flush \/ DisconnectCheck \/ DisconnectRequest
           \/ DisconnectSubmit \/ DisconnectReturn \/ UseAfterFree
  BY <1>1, ReplaceCounts
     DEF TypeOK, Connect, Delete, Flush, DisconnectCheck, DisconnectRequest,
         DisconnectSubmit, DisconnectReturn,
         UseAfterFree
\* The queues.
<1>2. CASE \/ EmitSignal \/ CallMethod \/ do_work \/ do_emit_signal
           \/ do_call_method \/ do_call_reply
  BY <1>2, ReplaceCounts
     DEF TypeOK, EmitSignal, CallMethod, do_work, do_emit_signal, do_call_method,
         do_call_reply, HandlerFor
\* Connecting.
<1>3. CASE do_connect \/ on_bus_get \/ do_reconnect \/ on_name_acquired
  BY <1>3, ReplaceCounts
     DEF TypeOK, do_connect, on_bus_get, do_reconnect, on_name_acquired,
         BusGetSucceeds, BusGetFails, ConfirmUp, Retry
\* Ending.
<1>4. CASE \/ on_name_lost \/ on_name_lost_close \/ ConnectAgain \/ do_disconnect
           \/ on_disconnect_close \/ do_flush \/ on_flush
  BY <1>4, ReplaceCounts
     DEF TypeOK, on_name_lost, on_name_lost_close, ConnectAgain, do_disconnect,
         on_disconnect_close, do_flush, on_flush, Withdraw, Unregistered,
         ReleaseAfterLoss, LossStatus, AnnouncedAfterLoss, ReleaseForOwner
<1>5. CASE UNCHANGED vars
  BY <1>5 DEF TypeOK, vars
<1>6. QED
  BY <1>1, <1>2, <1>3, <1>4, <1>5 DEF Next, Owner, MainLoop

-----------------------------------------------------------------------------
(***************************************************************************)
(* One lemma for each conjunct of the invariant: the facts it rests on and *)
(* the actions that need them come first, then the actions that keep the   *)
(* conjunct by themselves.                                                 *)
(***************************************************************************)

\* Before Connect only the queues change.
LEMMA UntouchedStep ==
  ASSUME TypeOK, TypeOK', Untouched, StatusIsTrue, [Next]_vars
  PROVE  Untouched'
<1>1. CASE on_bus_get
  BY <1>1 DEF Untouched, StatusIsTrue, on_bus_get
<1>2. CASE \/ Connect \/ Delete \/ Flush \/ DisconnectCheck \/ DisconnectRequest
           \/ DisconnectSubmit \/ DisconnectReturn \/ UseAfterFree
  BY <1>2
     DEF Untouched, Connect, Delete, Flush, DisconnectCheck, DisconnectRequest,
         DisconnectSubmit, DisconnectReturn,
         UseAfterFree
<1>3. CASE \/ EmitSignal \/ CallMethod \/ do_work \/ do_emit_signal
           \/ do_call_method \/ do_call_reply
  BY <1>3, ReplaceCounts
     DEF TypeOK, Untouched, EmitSignal, CallMethod, do_work, do_emit_signal,
         do_call_method, do_call_reply, HandlerFor
<1>4. CASE do_connect \/ do_reconnect \/ on_name_acquired
  BY <1>4 DEF Untouched, do_connect, do_reconnect, on_name_acquired
<1>5. CASE \/ on_name_lost \/ on_name_lost_close \/ ConnectAgain \/ do_disconnect
           \/ on_disconnect_close \/ do_flush \/ on_flush
  BY <1>5, ReplaceCounts
     DEF TypeOK, Untouched, on_name_lost, on_name_lost_close, ConnectAgain,
         do_disconnect, on_disconnect_close, do_flush, on_flush, Withdraw, Awaited,
         ReleaseForOwner, AfterFlush
<1>6. CASE UNCHANGED vars
  BY <1>6 DEF Untouched, vars
<1>7. QED
  BY <1>1, <1>2, <1>3, <1>4, <1>5, <1>6 DEF Next, Owner, MainLoop

\* The closing callbacks follow DisconnectRequest.
LEMMA ClosersAskedStep ==
  ASSUME TypeOK, TypeOK', ClosersAsked, [Next]_vars
  PROVE  ClosersAsked'
<1>1. CASE \/ Connect \/ Delete \/ Flush \/ DisconnectCheck \/ DisconnectRequest
           \/ DisconnectSubmit \/ DisconnectReturn \/ UseAfterFree
  BY <1>1, ReplaceCounts
     DEF TypeOK, ClosersAsked, Asked, Connect, Delete, Flush, DisconnectCheck,
         DisconnectRequest, DisconnectSubmit, DisconnectReturn,
         UseAfterFree
<1>2. CASE \/ EmitSignal \/ CallMethod \/ do_work \/ do_emit_signal
           \/ do_call_method \/ do_call_reply
  BY <1>2, ReplaceCounts
     DEF TypeOK, ClosersAsked, Asked, EmitSignal, CallMethod, do_work,
         do_emit_signal, do_call_method, do_call_reply, HandlerFor
<1>3. CASE do_connect \/ on_bus_get \/ do_reconnect \/ on_name_acquired
  BY <1>3, ReplaceCounts
     DEF TypeOK, ClosersAsked, Asked, do_connect, on_bus_get, do_reconnect,
         on_name_acquired, ConfirmUp, Retry
<1>4. CASE \/ on_name_lost \/ on_name_lost_close \/ ConnectAgain \/ do_disconnect
           \/ on_disconnect_close \/ do_flush \/ on_flush
  BY <1>4, ReplaceCounts
     DEF TypeOK, ClosersAsked, Asked, on_name_lost, on_name_lost_close,
         ConnectAgain, do_disconnect, on_disconnect_close, do_flush, on_flush,
         Awaited
<1>5. CASE UNCHANGED vars
  BY <1>5 DEF ClosersAsked, Asked, vars
<1>6. QED
  BY <1>1, <1>2, <1>3, <1>4, <1>5 DEF Next, Owner, MainLoop

\* A second Connect would come from a loss, and a connection that can be
\* lost is not status 0.
LEMMA OrderAloneStep ==
  ASSUME TypeOK, TypeOK', Untouched, OrderAlone, LoopAlone, TypedAtOnce,
     StatusIsTrue, [Next]_vars
  PROVE  OrderAlone'
<1>1. CASE Connect
  BY <1>1, ReplaceCounts DEF TypeOK, Untouched, OrderAlone, Connect
<1>2. CASE on_bus_get
  BY <1>2, ReplaceCounts DEF TypeOK, OrderAlone, StatusIsTrue, on_bus_get
<1>3. CASE on_name_lost
  BY <1>3, ReplaceCounts
     DEF TypeOK, OrderAlone, TypedAtOnce, StatusIsTrue, on_name_lost, Awaited
<1>4. CASE ConnectAgain
  BY <1>4, ReplaceCounts DEF TypeOK, LoopAlone, OrderAlone, ConnectAgain
<1>5. CASE \/ Delete \/ Flush \/ DisconnectCheck \/ DisconnectRequest
           \/ DisconnectSubmit \/ DisconnectReturn \/ UseAfterFree
  BY <1>5, ReplaceCounts
     DEF TypeOK, OrderAlone, Delete, Flush, DisconnectCheck, DisconnectRequest,
         DisconnectSubmit, DisconnectReturn,
         UseAfterFree, Closer
<1>6. CASE \/ EmitSignal \/ CallMethod \/ do_work \/ do_emit_signal
           \/ do_call_method \/ do_call_reply
  BY <1>6, ReplaceCounts
     DEF TypeOK, OrderAlone, EmitSignal, CallMethod, do_work, do_emit_signal,
         do_call_method, do_call_reply, HandlerFor
<1>7. CASE do_connect \/ do_reconnect \/ on_name_acquired
  BY <1>7, ReplaceCounts
     DEF TypeOK, OrderAlone, do_connect, do_reconnect, on_name_acquired, ConfirmUp,
         Retry
<1>8. CASE \/ on_name_lost_close \/ do_disconnect \/ on_disconnect_close
           \/ do_flush \/ on_flush
  BY <1>8, ReplaceCounts
     DEF TypeOK, OrderAlone, on_name_lost_close, do_disconnect, on_disconnect_close,
         do_flush, on_flush, Awaited, ReleaseForOwner, AfterFlush
<1>9. CASE UNCHANGED vars
  BY <1>9 DEF OrderAlone, vars
<1>10. QED
  BY <1>1, <1>2, <1>3, <1>4, <1>5, <1>6, <1>7, <1>8, <1>9 DEF Next, Owner, MainLoop

\* Nothing runs while the main loop is inside on_name_lost_close.
LEMMA LoopAloneStep ==
  ASSUME TypeOK, TypeOK', Untouched, OrderAlone, LoopAlone, LossAlone,
     TypedAtOnce, StatusIsTrue, [Next]_vars
  PROVE  LoopAlone'
<1>1. CASE Connect
  BY <1>1 DEF Untouched, LoopAlone, Connect
<1>2. CASE on_name_lost
  BY <1>2
     DEF TypeOK, OrderAlone, TypedAtOnce, StatusIsTrue, LoopAlone, on_name_lost,
         ReleaseAfterLoss, LossStatus
<1>3. CASE on_name_lost_close
  BY <1>3, ReplaceCounts
     DEF TypeOK, OrderAlone, LossAlone, LoopAlone, on_name_lost_close,
         ReleaseAfterLoss, LossStatus
<1>4. CASE \/ Delete \/ Flush \/ DisconnectCheck \/ DisconnectRequest
           \/ DisconnectSubmit \/ DisconnectReturn \/ UseAfterFree
  BY <1>4, ReplaceCounts
     DEF TypeOK, LoopAlone, Delete, Flush, DisconnectCheck, DisconnectRequest,
         DisconnectSubmit, DisconnectReturn,
         UseAfterFree, Closer
<1>5. CASE \/ EmitSignal \/ CallMethod \/ do_work \/ do_emit_signal
           \/ do_call_method \/ do_call_reply
  BY <1>5, ReplaceCounts
     DEF TypeOK, LoopAlone, EmitSignal, CallMethod, do_work, do_emit_signal,
         do_call_method, do_call_reply, HandlerFor
<1>6. CASE do_connect \/ on_bus_get \/ do_reconnect \/ on_name_acquired
  BY <1>6 DEF LoopAlone, do_connect, on_bus_get, do_reconnect, on_name_acquired
<1>7. CASE \/ ConnectAgain \/ do_disconnect \/ on_disconnect_close \/ do_flush
           \/ on_flush
  BY <1>7
     DEF LoopAlone, ConnectAgain, do_disconnect, on_disconnect_close, do_flush,
         on_flush
<1>8. CASE UNCHANGED vars
  BY <1>8 DEF LoopAlone, vars
<1>9. QED
  BY <1>1, <1>2, <1>3, <1>4, <1>5, <1>6, <1>7, <1>8 DEF Next, Owner, MainLoop

\* Nothing is started on a connection that is being closed after a loss.
LEMMA LossAloneStep ==
  ASSUME TypeOK, TypeOK', OrderAlone, LossAlone, StatusIsTrue, [Next]_vars
  PROVE  LossAlone'
<1>1. CASE do_connect
  BY <1>1, ReplaceCounts DEF TypeOK, OrderAlone, LossAlone, do_connect
<1>2. CASE on_bus_get
  BY <1>2, ReplaceCounts DEF TypeOK, LossAlone, StatusIsTrue, on_bus_get
<1>3. CASE \/ Connect \/ Delete \/ Flush \/ DisconnectCheck \/ DisconnectRequest
           \/ DisconnectSubmit \/ DisconnectReturn \/ UseAfterFree
  BY <1>3, ReplaceCounts
     DEF TypeOK, LossAlone, Connect, Delete, Flush, DisconnectCheck,
         DisconnectRequest, DisconnectSubmit, DisconnectReturn,
         UseAfterFree, Closer
<1>4. CASE \/ EmitSignal \/ CallMethod \/ do_work \/ do_emit_signal
           \/ do_call_method \/ do_call_reply
  BY <1>4, ReplaceCounts
     DEF TypeOK, LossAlone, EmitSignal, CallMethod, do_work, do_emit_signal,
         do_call_method, do_call_reply, HandlerFor
<1>5. CASE do_reconnect \/ on_name_acquired
  BY <1>5, ReplaceCounts
     DEF TypeOK, LossAlone, do_reconnect, on_name_acquired, ConfirmUp, Retry
<1>6. CASE \/ on_name_lost \/ on_name_lost_close \/ ConnectAgain \/ do_disconnect
           \/ on_disconnect_close \/ do_flush \/ on_flush
  BY <1>6, ReplaceCounts
     DEF TypeOK, LossAlone, on_name_lost, on_name_lost_close, ConnectAgain,
         do_disconnect, on_disconnect_close, do_flush, on_flush, Withdraw, Awaited,
         ReleaseForOwner, AfterFlush
<1>7. CASE UNCHANGED vars
  BY <1>7 DEF LossAlone, vars
<1>8. QED
  BY <1>1, <1>2, <1>3, <1>4, <1>5, <1>6, <1>7 DEF Next, Owner, MainLoop

\* The asynchronous close is for connections made from an address only.
LEMMA TypedAtOnceStep ==
  ASSUME TypeOK, TypeOK', TypedAtOnce, [Next]_vars
  PROVE  TypedAtOnce'
<1>1. CASE \/ Connect \/ Delete \/ Flush \/ DisconnectCheck \/ DisconnectRequest
           \/ DisconnectSubmit \/ DisconnectReturn \/ UseAfterFree
  BY <1>1, ReplaceCounts
     DEF TypeOK, TypedAtOnce, Connect, Delete, Flush, DisconnectCheck,
         DisconnectRequest, DisconnectSubmit, DisconnectReturn,
         UseAfterFree, Closer
<1>2. CASE \/ EmitSignal \/ CallMethod \/ do_work \/ do_emit_signal
           \/ do_call_method \/ do_call_reply
  BY <1>2, ReplaceCounts
     DEF TypeOK, TypedAtOnce, EmitSignal, CallMethod, do_work, do_emit_signal,
         do_call_method, do_call_reply, HandlerFor
<1>3. CASE do_connect \/ on_bus_get \/ do_reconnect \/ on_name_acquired
  BY <1>3, ReplaceCounts
     DEF TypeOK, TypedAtOnce, do_connect, on_bus_get, do_reconnect,
         on_name_acquired, BusGetSucceeds, BusGetFails, ConfirmUp, Retry
<1>4. CASE \/ on_name_lost \/ on_name_lost_close \/ ConnectAgain \/ do_disconnect
           \/ on_disconnect_close \/ do_flush \/ on_flush
  BY <1>4, ReplaceCounts
     DEF TypeOK, TypedAtOnce, on_name_lost, on_name_lost_close, ConnectAgain,
         do_disconnect, on_disconnect_close, do_flush, on_flush, Withdraw, Awaited,
         AfterFlush
<1>5. CASE UNCHANGED vars
  BY <1>5 DEF TypedAtOnce, vars
<1>6. QED
  BY <1>1, <1>2, <1>3, <1>4, <1>5 DEF Next, Owner, MainLoop

\* Disconnect has reset _reconnect, so what it closes is not replaced.
LEMMA CloseAloneStep ==
  ASSUME TypeOK, TypeOK', ClosersAsked, OrderAlone, CloseAlone, StatusIsTrue,
     [Next]_vars
  PROVE  CloseAlone'
<1>1. CASE Connect
  BY <1>1, ReplaceCounts DEF TypeOK, ClosersAsked, CloseAlone, Asked, Connect
<1>2. CASE do_reconnect
  BY <1>2, ReplaceCounts
     DEF TypeOK, ClosersAsked, CloseAlone, Asked, Overwritten, do_reconnect, Wanted,
         ConfirmUp, Retry
<1>3. CASE on_name_lost_close
  BY <1>3, ReplaceCounts
     DEF TypeOK, ClosersAsked, CloseAlone, Asked, Overwritten, on_name_lost_close,
         ReleaseAfterLoss
<1>4. CASE do_disconnect
  <2>1. UNCHANGED <<loop, reconnect, owner>> /\ owner_id' = 0 /\ loop = "idle"
    BY <1>4 DEF do_disconnect, Withdraw
  <2>2. CASE "address" \in profile
    <3>1. /\ pending'["on_bus_get"] = pending["on_bus_get"]
          /\ pending'["do_connect"] = pending["do_connect"]
          /\ connection # 1 =>
               pending'["on_disconnect_close"] = pending["on_disconnect_close"]
      BY <1>4, <2>2, ReplaceCounts DEF TypeOK, do_disconnect, Awaited
    <3>2. CASE connection = 1
      BY <2>1, <3>1, <3>2 DEF TypeOK, OrderAlone, StatusIsTrue, CloseAlone, Asked, Overwritten
    <3>3. CASE connection # 1
      BY <2>1, <3>1, <3>3 DEF CloseAlone, Asked, Overwritten
    <3>4. QED
      BY <3>2, <3>3
  <2>3. CASE "address" \notin profile
    <3>1. /\ pending'["on_bus_get"] = pending["on_bus_get"]
          /\ pending'["do_connect"] = pending["do_connect"]
          /\ pending'["on_disconnect_close"] = pending["on_disconnect_close"]
      BY <1>4, <2>3, ReplaceCounts DEF TypeOK, do_disconnect
    <3>2. QED
      BY <2>1, <3>1 DEF CloseAlone, Asked, Overwritten
  <2>4. QED
    BY <2>2, <2>3
<1>5. CASE \/ Delete \/ Flush \/ DisconnectCheck \/ DisconnectRequest
           \/ DisconnectSubmit \/ DisconnectReturn \/ UseAfterFree
  BY <1>5, ReplaceCounts
     DEF TypeOK, CloseAlone, Asked, Overwritten, Delete, Flush, DisconnectCheck,
         DisconnectRequest, DisconnectSubmit, DisconnectReturn,
         UseAfterFree, Closer
<1>6. CASE \/ EmitSignal \/ CallMethod \/ do_work \/ do_emit_signal
           \/ do_call_method \/ do_call_reply
  BY <1>6, ReplaceCounts
     DEF TypeOK, CloseAlone, Asked, Overwritten, EmitSignal, CallMethod, do_work,
         do_emit_signal, do_call_method, do_call_reply, HandlerFor
<1>7. CASE do_connect \/ on_bus_get \/ on_name_acquired
  BY <1>7, ReplaceCounts
     DEF TypeOK, CloseAlone, Asked, Overwritten, do_connect, on_bus_get,
         on_name_acquired
<1>8. CASE \/ on_name_lost \/ ConnectAgain \/ on_disconnect_close \/ do_flush
           \/ on_flush
  BY <1>8, ReplaceCounts
     DEF TypeOK, CloseAlone, Asked, Overwritten, on_name_lost, ConnectAgain,
         on_disconnect_close, do_flush, on_flush, Awaited, AfterFlush
<1>9. CASE UNCHANGED vars
  BY <1>9 DEF CloseAlone, Asked, Overwritten, vars
<1>10. QED
  BY <1>1, <1>2, <1>3, <1>4, <1>5, <1>6, <1>7, <1>8, <1>9 DEF Next, Owner, MainLoop

\* Each handler changes _connection, the attempt and the status together.
LEMMA StatusIsTrueStep ==
  ASSUME TypeOK, TypeOK', Untouched, LoopAlone, LossAlone, TypedAtOnce,
     StatusIsTrue, [Next]_vars
  PROVE  StatusIsTrue'
<1>1. CASE Connect
  BY <1>1, ReplaceCounts DEF TypeOK, Untouched, StatusIsTrue, Connect
<1>2. CASE on_name_lost
  BY <1>2, ReplaceCounts
     DEF TypeOK, TypedAtOnce, StatusIsTrue, on_name_lost, Awaited, ReleaseAfterLoss,
         LossStatus
<1>3. CASE on_name_lost_close
  BY <1>3, ReplaceCounts
     DEF TypeOK, LossAlone, StatusIsTrue, on_name_lost_close, ReleaseAfterLoss,
         LossStatus
<1>4. CASE ConnectAgain
  BY <1>4, ReplaceCounts DEF TypeOK, LoopAlone, StatusIsTrue, ConnectAgain
<1>5. CASE \/ Delete \/ Flush \/ DisconnectCheck \/ DisconnectRequest
           \/ DisconnectSubmit \/ DisconnectReturn \/ UseAfterFree
  BY <1>5, ReplaceCounts
     DEF TypeOK, StatusIsTrue, Delete, Flush, DisconnectCheck, DisconnectRequest,
         DisconnectSubmit, DisconnectReturn,
         UseAfterFree, Closer
<1>6. CASE \/ EmitSignal \/ CallMethod \/ do_work \/ do_emit_signal
           \/ do_call_method \/ do_call_reply
  BY <1>6, ReplaceCounts
     DEF TypeOK, StatusIsTrue, EmitSignal, CallMethod, do_work, do_emit_signal,
         do_call_method, do_call_reply, HandlerFor
<1>7. CASE do_connect \/ on_bus_get \/ do_reconnect \/ on_name_acquired
  BY <1>7, ReplaceCounts
     DEF TypeOK, StatusIsTrue, do_connect, on_bus_get, do_reconnect,
         on_name_acquired, BusGetSucceeds, BusGetFails, ConfirmUp, Retry
<1>8. CASE do_disconnect \/ on_disconnect_close \/ do_flush \/ on_flush
  BY <1>8, ReplaceCounts
     DEF TypeOK, StatusIsTrue, do_disconnect, on_disconnect_close, do_flush,
         on_flush, Awaited, ReleaseForOwner, AfterFlush
<1>9. CASE UNCHANGED vars
  BY <1>9 DEF StatusIsTrue, vars
<1>10. QED
  BY <1>1, <1>2, <1>3, <1>4, <1>5, <1>6, <1>7, <1>8, <1>9 DEF Next, Owner, MainLoop

\* Every step that ends one way of getting connected starts another.
LEMMA NeverStrandedStep ==
  ASSUME TypeOK, TypeOK', Untouched, ClosersAsked, LoopAlone, StatusIsTrue,
     NeverStranded, [Next]_vars
  PROVE  NeverStranded'
<1>1. CASE Connect
  BY <1>1, ReplaceCounts DEF TypeOK, Untouched, NeverStranded, Connect
<1>2. CASE on_bus_get
  BY <1>2, ReplaceCounts
     DEF TypeOK, StatusIsTrue, NeverStranded, Asked, on_bus_get, BusGetSucceeds,
         BusGetFails
<1>3. CASE do_reconnect
  <2>1. CASE ~Wanted
    BY <1>3, <2>1 DEF NeverStranded, do_reconnect, Wanted
  <2>2. CASE Wanted /\ ConfirmUp
    BY <1>3, <2>2 DEF NeverStranded, do_reconnect, ConfirmUp, StatusIsTrue
  <2>3. CASE Wanted /\ Retry
    BY <1>3, <2>3, ReplaceCounts DEF TypeOK, NeverStranded, do_reconnect, Retry
  <2>4. CASE Wanted /\ connect_status = 2 /\ UNCHANGED <<connect_status, pending>>
    BY <1>3, <2>4 DEF NeverStranded, do_reconnect
  <2>5. CASE /\ Wanted /\ connect_status \in {0, 4}
            /\ Finish("do_reconnect") /\ UNCHANGED connect_status
    BY <1>3, <2>5, ReplaceCounts DEF TypeOK, NeverStranded, Asked, do_reconnect
  <2>6. QED
    BY <1>3, <2>1, <2>2, <2>3, <2>4, <2>5 DEF do_reconnect
<1>4. CASE ConnectAgain
  BY <1>4, ReplaceCounts DEF TypeOK, LoopAlone, NeverStranded, ConnectAgain
<1>5. CASE do_disconnect
  BY <1>5 DEF ClosersAsked, NeverStranded, Asked, do_disconnect
<1>6. CASE on_disconnect_close
  BY <1>6 DEF ClosersAsked, NeverStranded, Asked, on_disconnect_close
<1>7. CASE \/ Delete \/ Flush \/ DisconnectCheck \/ DisconnectRequest
           \/ DisconnectSubmit \/ DisconnectReturn \/ UseAfterFree
  BY <1>7
     DEF NeverStranded, Asked, Delete, Flush, DisconnectCheck, DisconnectRequest,
         DisconnectSubmit, DisconnectReturn,
         UseAfterFree
<1>8. CASE \/ EmitSignal \/ CallMethod \/ do_work \/ do_emit_signal
           \/ do_call_method \/ do_call_reply
  BY <1>8, ReplaceCounts
     DEF TypeOK, NeverStranded, Asked, EmitSignal, CallMethod, do_work,
         do_emit_signal, do_call_method, do_call_reply, HandlerFor
<1>9. CASE do_connect \/ on_name_acquired
  BY <1>9, ReplaceCounts
     DEF TypeOK, NeverStranded, Asked, do_connect, on_name_acquired
<1>10. CASE on_name_lost \/ on_name_lost_close \/ do_flush \/ on_flush
  BY <1>10, ReplaceCounts
     DEF TypeOK, NeverStranded, Asked, on_name_lost, on_name_lost_close, do_flush,
         on_flush, Awaited, ReleaseAfterLoss, AfterFlush
<1>11. CASE UNCHANGED vars
  BY <1>11 DEF NeverStranded, Asked, vars
<1>12. QED
  BY <1>1, <1>2, <1>3, <1>4, <1>5, <1>6, <1>7, <1>8, <1>9, <1>10, <1>11
     DEF Next, Owner, MainLoop

\* A handler ends only with its queue empty, or for the disconnect.
LEMMA QueuesServedStep ==
  ASSUME TypeOK, TypeOK', ClosersAsked, QueuesServed, [Next]_vars
  PROVE  QueuesServed'
<1>1. CASE do_emit_signal
  BY <1>1, ReplaceCounts
     DEF TypeOK, ClosersAsked, QueuesServed, Asked, do_emit_signal, Forget, Postpone
<1>2. CASE do_call_method
  BY <1>2 DEF TypeOK, ClosersAsked, QueuesServed, Asked, do_call_method, Forget
<1>3. CASE \/ Connect \/ Delete \/ Flush \/ DisconnectCheck \/ DisconnectRequest
           \/ DisconnectSubmit \/ DisconnectReturn \/ UseAfterFree
  BY <1>3, ReplaceCounts
     DEF TypeOK, QueuesServed, Asked, Connect, Delete, Flush, DisconnectCheck,
         DisconnectRequest, DisconnectSubmit, DisconnectReturn,
         UseAfterFree
<1>4. CASE EmitSignal \/ CallMethod \/ do_work \/ do_call_reply
  BY <1>4, ReplaceCounts
     DEF TypeOK, QueuesServed, Asked, EmitSignal, CallMethod, do_work,
         do_call_reply, HandlerFor
<1>5. CASE do_connect \/ on_bus_get \/ do_reconnect \/ on_name_acquired
  BY <1>5, ReplaceCounts
     DEF TypeOK, QueuesServed, Asked, do_connect, on_bus_get, do_reconnect,
         on_name_acquired, ConfirmUp, Retry
<1>6. CASE \/ on_name_lost \/ on_name_lost_close \/ ConnectAgain \/ do_disconnect
           \/ on_disconnect_close \/ do_flush \/ on_flush
  BY <1>6, ReplaceCounts
     DEF TypeOK, QueuesServed, Asked, on_name_lost, on_name_lost_close,
         ConnectAgain, do_disconnect, on_disconnect_close, do_flush, on_flush,
         Awaited, AfterFlush
<1>7. CASE UNCHANGED vars
  BY <1>7 DEF QueuesServed, Asked, vars
<1>8. QED
  BY <1>1, <1>2, <1>3, <1>4, <1>5, <1>6, <1>7 DEF Next, Owner, MainLoop

\* A connection never goes away before its name, objects and watchers.
LEMMA RegisteredTogetherStep ==
  ASSUME TypeOK, TypeOK', LossAlone, CloseAlone, RegisteredTogether,
     [Next]_vars
  PROVE  RegisteredTogether'
<1>1. CASE on_name_lost_close
  BY <1>1 DEF LossAlone, RegisteredTogether, Asked, Overwritten, on_name_lost_close
<1>2. CASE on_disconnect_close
  BY <1>2
     DEF CloseAlone, RegisteredTogether, Asked, Overwritten, on_disconnect_close
<1>3. CASE \/ Connect \/ Delete \/ Flush \/ DisconnectCheck \/ DisconnectRequest
           \/ DisconnectSubmit \/ DisconnectReturn \/ UseAfterFree
  BY <1>3
     DEF RegisteredTogether, Asked, Overwritten, Connect, Delete, Flush,
         DisconnectCheck, DisconnectRequest, DisconnectSubmit, DisconnectReturn,
         UseAfterFree
<1>4. CASE \/ EmitSignal \/ CallMethod \/ do_work \/ do_emit_signal
           \/ do_call_method \/ do_call_reply
  BY <1>4
     DEF RegisteredTogether, Asked, Overwritten, EmitSignal, CallMethod, do_work,
         do_emit_signal, do_call_method, do_call_reply
<1>5. CASE do_connect \/ on_bus_get \/ do_reconnect \/ on_name_acquired
  BY <1>5
     DEF RegisteredTogether, Asked, Overwritten, do_connect, on_bus_get,
         do_reconnect, on_name_acquired, BusGetSucceeds, BusGetFails
<1>6. CASE \/ on_name_lost \/ ConnectAgain \/ do_disconnect \/ do_flush
           \/ on_flush
  BY <1>6
     DEF TypeOK, RegisteredTogether, Asked, Overwritten, on_name_lost, ConnectAgain,
         do_disconnect, do_flush, on_flush, Withdraw, Unregistered
<1>7. CASE UNCHANGED vars
  BY <1>7 DEF RegisteredTogether, Asked, Overwritten, vars
<1>8. QED
  BY <1>1, <1>2, <1>3, <1>4, <1>5, <1>6, <1>7 DEF Next, Owner, MainLoop

\* The user is told in the step that ends a lost connection.
LEMMA LossReportedStep ==
  ASSUME TypeOK, TypeOK', ClosersAsked, RegisteredTogether, LossReported,
     [Next]_vars
  PROVE  LossReported'
<1>1. CASE on_name_acquired
  BY <1>1 DEF RegisteredTogether, LossReported, Asked, Overwritten, on_name_acquired
<1>2. CASE do_disconnect
  BY <1>2 DEF ClosersAsked, LossReported, Asked, do_disconnect
<1>3. CASE on_disconnect_close
  BY <1>3 DEF ClosersAsked, LossReported, Asked, on_disconnect_close
<1>4. CASE \/ Connect \/ Delete \/ Flush \/ DisconnectCheck \/ DisconnectRequest
           \/ DisconnectSubmit \/ DisconnectReturn \/ UseAfterFree
  BY <1>4
     DEF LossReported, Asked, Connect, Delete, Flush, DisconnectCheck,
         DisconnectRequest, DisconnectSubmit, DisconnectReturn,
         UseAfterFree
<1>5. CASE \/ EmitSignal \/ CallMethod \/ do_work \/ do_emit_signal
           \/ do_call_method \/ do_call_reply
  BY <1>5
     DEF LossReported, Asked, EmitSignal, CallMethod, do_work, do_emit_signal,
         do_call_method, do_call_reply
<1>6. CASE do_connect \/ on_bus_get \/ do_reconnect
  BY <1>6
     DEF LossReported, Asked, do_connect, on_bus_get, do_reconnect, BusGetSucceeds,
         BusGetFails
<1>7. CASE \/ on_name_lost \/ on_name_lost_close \/ ConnectAgain \/ do_flush
           \/ on_flush
  BY <1>7
     DEF LossReported, Asked, on_name_lost, on_name_lost_close, ConnectAgain,
         do_flush, on_flush, ReleaseAfterLoss, AnnouncedAfterLoss
<1>8. CASE UNCHANGED vars
  BY <1>8 DEF LossReported, Asked, vars
<1>9. QED
  BY <1>1, <1>2, <1>3, <1>4, <1>5, <1>6, <1>7, <1>8 DEF Next, Owner, MainLoop

-----------------------------------------------------------------------------
(***************************************************************************)
(* The invariant.                                                          *)
(***************************************************************************)

LEMMA InvInit == Init => IInv
  BY DEF Init, IInv, TypeOK, Untouched, ClosersAsked, OrderAlone, LoopAlone,
         LossAlone, TypedAtOnce, CloseAlone, StatusIsTrue, NeverStranded,
         QueuesServed, RegisteredTogether, LossReported

LEMMA InvStep == IInv /\ [Next]_vars => IInv'
<1> SUFFICES ASSUME IInv, [Next]_vars PROVE IInv'
  OBVIOUS
<1>1. TypeOK'
  BY TypeStep DEF IInv
<1>2. QED
  BY <1>1, StatusIsTrueStep, UntouchedStep, ClosersAskedStep, OrderAloneStep,
     LoopAloneStep, LossAloneStep, TypedAtOnceStep, CloseAloneStep,
     NeverStrandedStep, QueuesServedStep, RegisteredTogetherStep, LossReportedStep
     DEF IInv

\* The invariant holds in every state of every behaviour.
THEOREM Invariance == Spec => []IInv
  BY InvInit, InvStep, PTL DEF Spec

\* Every variable keeps its type; the status stays in 0..4 whatever the order
\* of timer, answers and losses.
THEOREM TypeCorrect == Spec => []TypeOK
<1>1. IInv => TypeOK
  BY DEF IInv
<1>2. QED
  BY <1>1, Invariance, PTL

\* _connect_status tells the truth about _connection and about the attempt that
\* runs, whatever the handlers' order.
THEOREM StatusTrue == Spec => []StatusIsTrue
<1>1. IInv => StatusIsTrue
  BY DEF IInv
<1>2. QED
  BY <1>1, Invariance, PTL

\* A connection with automatic reconnect always has its next step scheduled.
THEOREM Reconnecting == Spec => []NeverStranded
<1>1. IInv => NeverStranded
  BY DEF IInv
<1>2. QED
  BY <1>1, Invariance, PTL

\* No queue of signals or calls is forgotten before Disconnect.
THEOREM Served == Spec => []QueuesServed
<1>1. IInv => QueuesServed
  BY DEF IInv
<1>2. QED
  BY <1>1, Invariance, PTL

\* Name, objects and watchers come and go together on a live connection.
THEOREM Registration == Spec => []RegisteredTogether
<1>1. IInv => RegisteredTogether
  BY DEF IInv
<1>2. QED
  BY <1>1, Invariance, PTL

\* A loss is reported before the next attempt.
THEOREM Reported == Spec => []LossReported
<1>1. IInv => LossReported
  BY DEF IInv
<1>2. QED
  BY <1>1, Invariance, PTL

-----------------------------------------------------------------------------
(***************************************************************************)
(* The refinement: every step of Connection is one of ConnectionAbs, or    *)
(* leaves phaseSeen and the reconnect flag alone.                          *)
(***************************************************************************)

LEMMA AbsInitially == Init => Abs!AbsInit
  BY DEF Init, phaseSeen, Abs!AbsInit

LEMMA AbsStep == ASSUME IInv, [Next]_vars PROVE [Abs!AbsNext]_(Abs!absVars)
<1>0. /\ TypeOK /\ StatusIsTrue /\ Untouched /\ OrderAlone /\ LoopAlone
      /\ LossAlone /\ TypedAtOnce
  BY DEF IInv
<1> USE DEF phaseSeen, Abs!absVars
<1>1. CASE Connect
  <2>1. Abs!Order
    BY <1>0, <1>1, ReplaceCounts DEF TypeOK, Connect, Abs!Order
  <2>2. QED
    BY <2>1 DEF Abs!AbsNext
<1>2. CASE DisconnectCheck
  <2>1. Abs!Remove \/ UNCHANGED Abs!absVars
    BY <1>2 DEF DisconnectCheck, Abs!Remove
  <2>2. QED
    BY <2>1 DEF Abs!AbsNext
<1>3. CASE DisconnectReturn
  <2>1. Abs!Remove
    BY <1>3 DEF DisconnectReturn, Abs!Remove
  <2>2. QED
    BY <2>1 DEF Abs!AbsNext
<1>4. CASE DisconnectRequest
  <2>1. Abs!GiveUp \/ UNCHANGED Abs!absVars
    BY <1>4 DEF DisconnectRequest, Abs!GiveUp
  <2>2. QED
    BY <2>1 DEF Abs!AbsNext
<1>5. CASE do_connect
  <2>1. Abs!Try
    BY <1>0, <1>5 DEF Untouched, OrderAlone, do_connect, Abs!Try
  <2>2. QED
    BY <2>1 DEF Abs!AbsNext
<1>6. CASE on_bus_get
  <2>1. connect_status = 2 /\ owner # "created"
    BY <1>0, <1>6 DEF StatusIsTrue, Untouched, on_bus_get
  <2>2. pending'["do_connect"] = 0
    BY <1>0, <1>6, <2>1, ReplaceCounts DEF TypeOK, OrderAlone, on_bus_get
  <2>3. Abs!Answer
    BY <1>6, <2>1, <2>2 DEF on_bus_get, BusGetSucceeds, BusGetFails, Abs!Answer
  <2>4. QED
    BY <2>3 DEF Abs!AbsNext
<1>7. CASE do_reconnect
  <2>1. pending'["do_connect"] = pending["do_connect"]
    BY <1>0, <1>7, ReplaceCounts DEF TypeOK, do_reconnect, ConfirmUp, Retry
  <2>2. CASE Wanted /\ Retry
    <3>1. Abs!RetryFailed
      BY <1>0, <1>7, <2>2
         DEF Untouched, OrderAlone, do_reconnect, Wanted, Retry, Abs!RetryFailed
    <3>2. QED
      BY <3>1 DEF Abs!AbsNext
  <2>3. CASE Wanted /\ ConfirmUp
    BY <1>7, <2>3 DEF do_reconnect, ConfirmUp
  <2>4. CASE connect_status' = connect_status
    BY <1>7, <2>1, <2>4 DEF do_reconnect
  <2>5. QED
    BY <1>7, <2>2, <2>3, <2>4 DEF do_reconnect
<1>8. CASE on_name_lost
  <2>1. CASE "address" \in profile
    BY <1>0, <1>8, <2>1, ReplaceCounts DEF TypeOK, on_name_lost, Awaited
  <2>2. CASE "address" \notin profile
    <3>1. connect_status >= 3 /\ owner # "created" /\ pending["do_connect"] = 0
      BY <1>0, <1>8, <2>2
         DEF TypeOK, StatusIsTrue, Untouched, OrderAlone, TypedAtOnce, on_name_lost
    <3>2. Abs!Lose
      BY <1>8, <2>2, <3>1 DEF on_name_lost, ReleaseAfterLoss, LossStatus, Abs!Lose
    <3>3. QED
      BY <3>2 DEF Abs!AbsNext
  <2>3. QED
    BY <2>1, <2>2
<1>9. CASE on_name_lost_close
  <2>1. /\ connect_status >= 3 \/ connect_status = 0
        /\ owner # "created" /\ pending["do_connect"] = 0
    BY <1>0, <1>9
       DEF TypeOK, StatusIsTrue, Untouched, OrderAlone, LossAlone,
           on_name_lost_close
  <2>2. pending'["do_connect"] = 0
    BY <1>0, <1>9, <2>1, ReplaceCounts DEF TypeOK, on_name_lost_close
  <2>3. Abs!Lose
    BY <1>9, <2>1, <2>2
       DEF on_name_lost_close, ReleaseAfterLoss, LossStatus, Abs!Lose
  <2>4. QED
    BY <2>3 DEF Abs!AbsNext
<1>10. CASE ConnectAgain
  BY <1>0, <1>10, ReplaceCounts DEF TypeOK, LoopAlone, ConnectAgain
<1>11. CASE do_disconnect
  <2>1. pending'["do_connect"] = pending["do_connect"]
    BY <1>0, <1>11, ReplaceCounts DEF TypeOK, do_disconnect, Awaited
  <2>2. CASE "address" \notin profile /\ connection = 1
    <3>1. connect_status >= 3 /\ owner # "created" /\ pending["do_connect"] = 0
      BY <1>0, <2>2 DEF TypeOK, StatusIsTrue, Untouched, OrderAlone
    <3>2. Abs!Release
      BY <1>11, <2>1, <2>2, <3>1 DEF do_disconnect, ReleaseForOwner, Abs!Release
    <3>3. QED
      BY <3>2 DEF Abs!AbsNext
  <2>3. CASE "address" \in profile \/ connection # 1
    BY <1>11, <2>1, <2>3 DEF do_disconnect, ReleaseForOwner
  <2>4. QED
    BY <2>2, <2>3
<1>12. CASE on_disconnect_close
  <2>1. pending'["do_connect"] = pending["do_connect"]
    BY <1>0, <1>12, ReplaceCounts DEF TypeOK, on_disconnect_close
  <2>2. CASE connection = 1
    <3>1. connect_status >= 3 /\ owner # "created" /\ pending["do_connect"] = 0
      BY <1>0, <2>2 DEF TypeOK, StatusIsTrue, Untouched, OrderAlone
    <3>2. Abs!Release
      BY <1>12, <2>1, <2>2, <3>1
         DEF on_disconnect_close, ReleaseForOwner, Abs!Release
    <3>3. QED
      BY <3>2 DEF Abs!AbsNext
  <2>3. CASE connection # 1
    BY <1>12, <2>1, <2>3 DEF on_disconnect_close, ReleaseForOwner
  <2>4. QED
    BY <2>2, <2>3
<1>13. CASE \/ DisconnectSubmit \/ do_flush \/ on_flush \/ do_emit_signal
            \/ do_call_method \/ do_call_reply \/ EmitSignal \/ CallMethod
  <2>1. pending'["do_connect"] = pending["do_connect"]
    BY <1>0, <1>13, ReplaceCounts
       DEF TypeOK, DisconnectSubmit, Closer, do_flush, on_flush, Awaited,
           AfterFlush, do_emit_signal, do_call_method, do_call_reply, EmitSignal,
           CallMethod, HandlerFor
  <2>2. QED
    BY <1>13, <2>1
       DEF DisconnectSubmit, do_flush, on_flush, do_emit_signal, do_call_method,
           do_call_reply, EmitSignal, CallMethod
<1>14. CASE \/ Delete \/ Flush \/ on_name_acquired \/ do_work \/ UseAfterFree
            \/ UNCHANGED vars
  BY <1>14 DEF Delete, Flush, on_name_acquired, do_work, UseAfterFree, vars
<1>15. QED
  BY <1>1, <1>2, <1>3, <1>4, <1>5, <1>6, <1>7, <1>8, <1>9, <1>10, <1>11, <1>12,
     <1>13, <1>14
     DEF Next, Owner, MainLoop

\* A cDBusConnection keeps the promise of ConnectionAbs: one attempt at a time,
\* exactly one without automatic reconnect, and with it another one after every
\* failure and every loss until the owner gives up.
THEOREM Refinement == Spec => Promise
<1>1. IInv /\ [Next]_vars => [Abs!AbsNext]_(Abs!absVars)
  BY AbsStep
<1>2. QED
  BY <1>1, AbsInitially, Invariance, PTL DEF Spec, Promise, Abs!AbsSpec

-----------------------------------------------------------------------------
(***************************************************************************)
(* The life of the connection: what BusLife needs beside IInv.             *)
(***************************************************************************)

\* What the counts of losses and failures tell.
Counted ==
  /\ owner = "created" => losses = 0 /\ failures = 0
  /\ losses = 0 => loop = "idle" /\ pending["on_name_lost_close"] = 0

\* Without automatic reconnect the first attempt is the only one.
OneAttempt ==
  "reconnect" \notin profile =>
    /\ loop = "idle" /\ (owner = "created" \/ reconnect = 0)
    /\ connect_status = 2 \/ pending["do_connect"] > 0 => losses = 0 /\ failures = 0

\* Before the destructor waits nothing is closed, and a name that is owned, or
\* whose loss is to be handled, has its connection.
OpenUntilAsked ==
  owner \notin {"waiting"} \union Gone =>
    /\ ~Closing /\ disconnect_status # 2
    /\ owner_id = 1 \/ pending["on_name_lost_close"] > 0 => connection = 1

LifeInv == Counted /\ OneAttempt /\ OpenUntilAsked

\* Nothing was lost, tried or asked for before Connect.
LEMMA LifeInvInit == Init => LifeInv
  BY DEF Init, LifeInv, Counted, OneAttempt, OpenUntilAsked, Closing

\* The counts of losses and failures go up with what they count.
LEMMA CountedStep ==
  ASSUME IInv, TypeOK', Counted, [Next]_vars
  PROVE  Counted'
<1>0. TypeOK /\ Untouched /\ StatusIsTrue
  BY DEF IInv
<1>1. CASE \/ Connect \/ Delete \/ Flush \/ DisconnectCheck \/ DisconnectRequest
           \/ DisconnectSubmit \/ DisconnectReturn \/ UseAfterFree
  BY <1>0, <1>1, ReplaceCounts
     DEF TypeOK, Counted, Connect, Delete, Flush, DisconnectCheck, DisconnectRequest,
         DisconnectSubmit, DisconnectReturn,
         UseAfterFree, Closer
<1>2. CASE \/ EmitSignal \/ CallMethod \/ do_work \/ do_emit_signal
           \/ do_call_method \/ do_call_reply
  BY <1>0, <1>2, ReplaceCounts
     DEF TypeOK, Counted, EmitSignal, CallMethod, do_work, do_emit_signal,
         do_call_method, do_call_reply, HandlerFor
<1>3. CASE do_connect \/ do_reconnect \/ on_name_acquired
  BY <1>0, <1>3, ReplaceCounts
     DEF TypeOK, Counted, do_connect, do_reconnect, on_name_acquired, ConfirmUp, Retry
<1>4. CASE on_bus_get
  <2>1. owner # "created"
    BY <1>0, <1>4 DEF Untouched, StatusIsTrue, on_bus_get
  <2>2. QED
    BY <1>0, <1>4, <2>1, ReplaceCounts DEF TypeOK, Counted, on_bus_get
<1>5. CASE on_name_lost
  <2>1. owner' # "created" /\ losses' # 0
    BY <1>0, <1>5 DEF TypeOK, Untouched, on_name_lost
  <2>2. QED
    BY <2>1 DEF Counted
<1>6. CASE on_name_lost_close
  <2>1. losses' # 0 /\ owner' # "created"
    BY <1>0, <1>6 DEF TypeOK, Untouched, Counted, on_name_lost_close
  <2>2. QED
    BY <2>1 DEF Counted
<1>7. CASE \/ ConnectAgain \/ do_disconnect \/ on_disconnect_close \/ do_flush
           \/ on_flush
  BY <1>0, <1>7, ReplaceCounts
     DEF TypeOK, Counted, ConnectAgain, do_disconnect, on_disconnect_close, do_flush,
         on_flush, Awaited, ReleaseForOwner, AfterFlush
<1>8. CASE UNCHANGED vars
  BY <1>8 DEF Counted, vars
<1>9. QED
  BY <1>1, <1>2, <1>3, <1>4, <1>5, <1>6, <1>7, <1>8 DEF Next, Owner, MainLoop

\* Only Connect and the retries begin an attempt, and retries need reconnect.
LEMMA OneAttemptStep ==
  ASSUME IInv, TypeOK', Counted, OneAttempt, [Next]_vars
  PROVE  OneAttempt'
<1>0. TypeOK /\ Untouched /\ StatusIsTrue /\ OrderAlone /\ RegisteredTogether
  BY DEF IInv
<1>1. CASE Connect
  BY <1>0, <1>1 DEF Untouched, Counted, OneAttempt, Connect
<1>2. CASE \/ Delete \/ Flush \/ DisconnectCheck \/ DisconnectRequest
           \/ DisconnectSubmit \/ DisconnectReturn \/ UseAfterFree
  BY <1>0, <1>2, ReplaceCounts
     DEF TypeOK, OneAttempt, Delete, Flush, DisconnectCheck, DisconnectRequest,
         DisconnectSubmit, DisconnectReturn,
         UseAfterFree, Closer
<1>3. CASE \/ EmitSignal \/ CallMethod \/ do_work \/ do_emit_signal
           \/ do_call_method \/ do_call_reply
  BY <1>0, <1>3, ReplaceCounts
     DEF TypeOK, OneAttempt, EmitSignal, CallMethod, do_work, do_emit_signal,
         do_call_method, do_call_reply, HandlerFor
<1>4. CASE do_connect \/ on_name_acquired
  BY <1>0, <1>4, ReplaceCounts DEF TypeOK, OneAttempt, do_connect, on_name_acquired
<1>5. CASE on_bus_get
  <2>1. connect_status = 2 /\ pending["do_connect"] = 0
    BY <1>0, <1>5 DEF TypeOK, StatusIsTrue, OrderAlone, on_bus_get
  <2>2. connect_status' # 2 /\ pending'["do_connect"] = 0
    BY <1>0, <1>5, <2>1, ReplaceCounts
       DEF TypeOK, on_bus_get, BusGetSucceeds, BusGetFails
  <2>3. QED
    BY <1>5, <2>2 DEF OneAttempt, on_bus_get
<1>6. CASE do_reconnect
  <2>1. "reconnect" \notin profile => ~Wanted
    BY <1>0, <1>6 DEF Untouched, OneAttempt, Wanted, do_reconnect
  <2>2. QED
    BY <1>0, <1>6, <2>1, ReplaceCounts DEF TypeOK, OneAttempt, do_reconnect
<1>7. CASE on_name_lost
  <2> SUFFICES ASSUME "reconnect" \notin profile PROVE OneAttempt'
    BY <1>7 DEF OneAttempt, on_name_lost
  <2>1. owner # "created" /\ reconnect = 0 /\ loop = "idle"
    BY <1>0, <1>7 DEF Untouched, OneAttempt, on_name_lost
  <2>2. connection = 1
    BY <1>0, <1>7, <2>1 DEF RegisteredTogether, Overwritten, on_name_lost
  <2>3. connect_status >= 3 /\ pending["do_connect"] = 0
    BY <1>0, <2>2 DEF TypeOK, StatusIsTrue, OrderAlone
  <2>4. pending'["do_connect"] = 0 /\ connect_status' # 2
    BY <1>0, <1>7, <2>3, ReplaceCounts
       DEF TypeOK, on_name_lost, Awaited, ReleaseAfterLoss, LossStatus
  <2>5. loop' = "idle" /\ reconnect' = 0
    BY <1>7, <2>1 DEF on_name_lost, ReleaseAfterLoss
  <2>6. QED
    BY <2>4, <2>5 DEF OneAttempt
<1>8. CASE on_name_lost_close
  <2> SUFFICES ASSUME "reconnect" \notin profile PROVE OneAttempt'
    BY <1>8 DEF OneAttempt, on_name_lost_close
  <2>1. owner # "created" /\ reconnect = 0 /\ pending["do_connect"] = 0
    BY <1>0, <1>8 DEF TypeOK, Untouched, OrderAlone, OneAttempt, on_name_lost_close
  <2>2. pending'["do_connect"] = 0
    BY <1>0, <1>8, <2>1, ReplaceCounts DEF TypeOK, on_name_lost_close
  <2>3. loop' = "idle" /\ reconnect' = 0 /\ connect_status' # 2
    BY <1>8, <2>1 DEF on_name_lost_close, ReleaseAfterLoss, LossStatus
  <2>4. QED
    BY <2>2, <2>3 DEF OneAttempt
<1>9. CASE ConnectAgain
  BY <1>9 DEF OneAttempt, ConnectAgain
<1>10. CASE do_disconnect \/ on_disconnect_close \/ do_flush \/ on_flush
  BY <1>0, <1>10, ReplaceCounts
     DEF TypeOK, OneAttempt, do_disconnect, on_disconnect_close, do_flush, on_flush,
         Awaited, ReleaseForOwner, AfterFlush
<1>11. CASE UNCHANGED vars
  BY <1>11 DEF OneAttempt, vars
<1>12. QED
  BY <1>1, <1>2, <1>3, <1>4, <1>5, <1>6, <1>7, <1>8, <1>9, <1>10, <1>11
     DEF Next, Owner, MainLoop

\* A connection that is up is closed by a loss or by who asked for it.
LEMMA OpenUntilAskedStep ==
  ASSUME IInv, TypeOK', OpenUntilAsked, [Next]_vars
  PROVE  OpenUntilAsked'
<1>0. TypeOK /\ StatusIsTrue /\ LossAlone /\ TypedAtOnce
  BY DEF IInv
<1>1. CASE \/ Connect \/ Delete \/ Flush \/ DisconnectCheck \/ DisconnectRequest
           \/ DisconnectSubmit \/ DisconnectReturn \/ UseAfterFree
  BY <1>0, <1>1, ReplaceCounts
     DEF TypeOK, OpenUntilAsked, Closing, Connect, Delete, Flush, DisconnectCheck,
         DisconnectRequest, DisconnectSubmit, DisconnectReturn,
         UseAfterFree
<1>2. CASE \/ EmitSignal \/ CallMethod \/ do_work \/ do_emit_signal
           \/ do_call_method \/ do_call_reply
  BY <1>0, <1>2, ReplaceCounts
     DEF TypeOK, OpenUntilAsked, Closing, EmitSignal, CallMethod, do_work,
         do_emit_signal, do_call_method, do_call_reply, HandlerFor
<1>3. CASE do_connect \/ do_reconnect \/ on_name_acquired
  BY <1>0, <1>3, ReplaceCounts
     DEF TypeOK, OpenUntilAsked, Closing, do_connect, do_reconnect, on_name_acquired,
         ConfirmUp, Retry
<1>4. CASE on_bus_get
  BY <1>0, <1>4, ReplaceCounts
     DEF TypeOK, StatusIsTrue, OpenUntilAsked, Closing, on_bus_get, BusGetSucceeds,
         BusGetFails
<1>5. CASE on_name_lost
  BY <1>0, <1>5, ReplaceCounts
     DEF TypeOK, TypedAtOnce, OpenUntilAsked, Closing, on_name_lost, Awaited, Withdraw,
         ReleaseAfterLoss
<1>6. CASE on_name_lost_close
  BY <1>0, <1>6, ReplaceCounts
     DEF TypeOK, LossAlone, OpenUntilAsked, Closing, on_name_lost_close,
         ReleaseAfterLoss
<1>7. CASE ConnectAgain
  BY <1>0, <1>7, ReplaceCounts DEF TypeOK, OpenUntilAsked, Closing, ConnectAgain
<1>8. CASE do_disconnect \/ on_disconnect_close \/ do_flush \/ on_flush
  <2>1. owner' \in {"waiting"} \union Gone
    BY <1>8
       DEF OpenUntilAsked, Closing, do_disconnect, on_disconnect_close, do_flush,
           on_flush
  <2>2. QED
    BY <2>1 DEF OpenUntilAsked
<1>9. CASE UNCHANGED vars
  BY <1>9 DEF OpenUntilAsked, Closing, vars
<1>10. QED
  BY <1>1, <1>2, <1>3, <1>4, <1>5, <1>6, <1>7, <1>8, <1>9 DEF Next, Owner, MainLoop

\* The three hold together, beside IInv.
LEMMA LifeInvariance == Spec => []LifeInv
<1>1. IInv /\ IInv' /\ LifeInv /\ [Next]_vars => LifeInv'
  <2> SUFFICES ASSUME IInv, IInv', LifeInv, [Next]_vars PROVE LifeInv'
    OBVIOUS
  <2>1. TypeOK'
    BY DEF IInv
  <2>2. QED
    BY <2>1, CountedStep, OneAttemptStep, OpenUntilAskedStep DEF LifeInv
<1>2. QED
  BY <1>1, LifeInvInit, Invariance, PTL DEF Spec

-----------------------------------------------------------------------------
(***************************************************************************)
(* The refinement of BusLife.                                              *)
(***************************************************************************)

\* A connection that was not told to connect yet is seen as none.
LEMMA LifeInitially == Init => Bus!LifeInit
  BY DEF Init, lifeSeen, Bus!LifeInit

\* What kind of connection it is never changes.
LEMMA ProfileKept == ASSUME [Next]_vars PROVE profile' = profile
  BY DEF Next, Owner, MainLoop, vars, Connect, Delete, Flush, DisconnectCheck,
         DisconnectRequest, DisconnectSubmit, DisconnectReturn,
         UseAfterFree, EmitSignal, CallMethod,
         do_work, do_connect, on_bus_get, do_reconnect, on_name_acquired, on_name_lost,
         on_name_lost_close, ConnectAgain, do_disconnect, on_disconnect_close, do_flush,
         on_flush, do_emit_signal, do_call_method, do_call_reply

\* What is seen depends on few variables, and while Disconnect waits on fewer.
LEMMA SameLife ==
  ASSUME UNCHANGED <<connection, loop, owner, disconnect_status, losses, failures>>,
         connect_status' = connect_status
           \/ (connection = 1 /\ loop = "idle")
           \/ (connect_status \in {1, 2} /\ connect_status' \in {1, 2}),
         pending'["on_name_lost_close"] = pending["on_name_lost_close"],
         Closing' = Closing
  PROVE  lifeSeen' = lifeSeen
  BY DEF lifeSeen, waitSeen, downSeen

\* The owner is seen when the object appears, when it waits and when it is gone.
LEMMA LifeOfOwner ==
  ASSUME IInv, IInv', LifeInv, Owner
  PROVE  lifeSeen' = lifeSeen \/ Bus!Create \/ Bus!Vanish \/ Bus!Doom \/ Bus!Close \/ Bus!Sink \/ Bus!Delete
<1>0. /\ TypeOK /\ StatusIsTrue /\ Untouched /\ LossAlone
      /\ Counted /\ OpenUntilAsked
  BY DEF IInv, LifeInv
<1> USE DEF Bus!Turns
<1>1. CASE Connect
  <2>1. lifeSeen = "none" /\ lifeSeen' = "new"
    BY <1>0, <1>1
       DEF StatusIsTrue, Untouched, Counted, Connect, lifeSeen, downSeen
  <2>2. QED
    BY <2>1 DEF Bus!Create
<1>2. CASE Delete \/ Flush \/ DisconnectRequest
  <2>1. owner' \notin {"created", "waiting"} \union Gone
    BY <1>2 DEF Delete, Flush, DisconnectRequest
  <2>2. owner \notin {"created", "waiting"} \union Gone
    BY <1>2 DEF Delete, Flush, DisconnectRequest
  <2>3. QED
    BY <1>2, <2>1, <2>2
       DEF Delete, Flush, DisconnectRequest, lifecycle, budgets, lifeSeen, downSeen
<1>3. CASE DisconnectCheck
  <2>1. CASE connect_status = 0
    <3>1. lifeSeen \in {"new", "lost"} /\ lifeSeen' = "none"
      BY <1>0, <1>3, <2>1 DEF StatusIsTrue, DisconnectCheck, lifeSeen, downSeen
    <3>2. QED
      BY <3>1 DEF Bus!Vanish
  <2>2. CASE connect_status # 0
    BY <1>3, <2>2 DEF DisconnectCheck, lifecycle, budgets, lifeSeen, downSeen
  <2>3. QED
    BY <2>1, <2>2
<1>4. CASE DisconnectSubmit
  <2>1. /\ pending'["on_name_lost_close"] = pending["on_name_lost_close"]
        /\ Closing'
    BY <1>0, <1>4, ReplaceCounts DEF TypeOK, DisconnectSubmit, Closer, Closing
  <2>2. disconnect_status' # 2 /\ connection' = connection
    BY <1>0, <1>4 DEF OpenUntilAsked, DisconnectSubmit, lifecycle
  <2>3. CASE connection = 0
    <3>1. lifeSeen \in {"new", "lost", "failed"} /\ lifeSeen' = "doomed"
      BY <1>4, <2>2, <2>3 DEF DisconnectSubmit, lifeSeen, downSeen, waitSeen
    <3>2. QED
      BY <3>1 DEF Bus!Doom
  <2>4. CASE connection = 1 /\ pending["on_name_lost_close"] > 0
    <3>1. lifeSeen = "losing" /\ lifeSeen' = "sinking"
      BY <1>4, <2>1, <2>2, <2>4 DEF DisconnectSubmit, lifeSeen, waitSeen
    <3>2. QED
      BY <3>1 DEF Bus!Sink
  <2>5. CASE connection = 1 /\ ~(pending["on_name_lost_close"] > 0)
    <3>1. lifeSeen = "up" /\ lifeSeen' = "closing"
      BY <1>4, <2>1, <2>2, <2>5 DEF DisconnectSubmit, lifeSeen, waitSeen
    <3>2. QED
      BY <3>1 DEF Bus!Close
  <2>6. QED
    BY <1>0, <2>3, <2>4, <2>5 DEF TypeOK
<1>5. CASE DisconnectReturn
  <2>1. disconnect_status = 2
    BY <1>0, <1>5 DEF TypeOK, DisconnectReturn
  <2>2. lifeSeen = "closing" /\ lifeSeen' = "none"
    BY <1>5, <2>1 DEF DisconnectReturn, lifeSeen, waitSeen
  <2>3. QED
    BY <2>2 DEF Bus!Delete
<1>6. QED
  BY <1>1, <1>2, <1>3, <1>4, <1>5 DEF Owner

\* Connecting: the owner may wait by then.
LEMMA LifeOfAttempt ==
  ASSUME IInv, LifeInv, do_connect \/ on_bus_get
  PROVE  lifeSeen' = lifeSeen \/ Bus!Up \/ Bus!Fails \/ Bus!Save
<1>0. /\ TypeOK /\ StatusIsTrue /\ Untouched /\ LossAlone /\ OrderAlone
      /\ Counted /\ OneAttempt
  BY DEF IInv, LifeInv
<1> USE DEF Bus!Turns
<1>1. CASE do_connect
  <2>1. /\ connection = 0 /\ connect_status = 0 /\ connect_status' = 2
        /\ pending["do_connect"] > 0 /\ owner \notin {"created"} \union Gone
    BY <1>0, <1>1 DEF TypeOK, StatusIsTrue, Untouched, OrderAlone, do_connect
  <2>2. UNCHANGED <<connection, loop, owner, disconnect_status, losses, failures>>
    BY <1>1 DEF do_connect
  <2>3. CASE owner = "waiting"
    BY <2>1, <2>2, <2>3 DEF lifeSeen, waitSeen
  <2>4. CASE owner # "waiting" /\ losses = 0
    <3>1. lifeSeen = "new" /\ lifeSeen' \in {"new", "failed"}
      BY <2>1, <2>2, <2>4 DEF lifeSeen, downSeen
    <3>2. QED
      BY <3>1 DEF Bus!Fails, Bus!Attempt
  <2>5. CASE owner # "waiting" /\ losses # 0
    <3>1. "reconnect" \in profile
      BY <1>0, <2>1, <2>5 DEF OneAttempt
    <3>2. lifeSeen = "lost" /\ lifeSeen' \in {"lost", "failed"}
      BY <2>1, <2>2, <2>5 DEF lifeSeen, downSeen
    <3>3. QED
      BY <3>1, <3>2 DEF Bus!Fails, Bus!Attempt
  <2>6. QED
    BY <2>3, <2>4, <2>5
<1>2. CASE on_bus_get
  <2>1. /\ connection = 0 /\ connect_status = 2 /\ owner \notin {"created"} \union Gone
        /\ loop = "idle" /\ pending["on_name_lost_close"] = 0
    BY <1>0, <1>2 DEF TypeOK, StatusIsTrue, Untouched, LossAlone, on_bus_get
  <2>2. /\ pending'["on_name_lost_close"] = 0 /\ Closing' = Closing
        /\ UNCHANGED <<owner, loop, losses, disconnect_status>>
    BY <1>0, <1>2, <2>1, ReplaceCounts DEF TypeOK, Closing, on_bus_get
  <2>3. losses # 0 \/ failures # 0 => "reconnect" \in profile
    BY <1>0, <2>1 DEF OneAttempt
  <2>4. CASE BusGetSucceeds
    <3>1. connection' = 1
      BY <2>4 DEF BusGetSucceeds
    <3>2. CASE owner = "waiting"
      <4>1. lifeSeen \in {"closing", "doomed"} /\ lifeSeen' \in {lifeSeen, "closing"}
        BY <2>1, <2>2, <3>1, <3>2 DEF lifeSeen, waitSeen
      <4>2. QED
        BY <4>1 DEF Bus!Save
    <3>3. CASE owner # "waiting"
      <4>1. lifeSeen' = "up"
        BY <2>1, <2>2, <3>1, <3>3 DEF lifeSeen
      <4>2. lifeSeen = IF losses = 0 /\ failures = 0 THEN "new" ELSE "failed"
        BY <2>1, <3>3 DEF lifeSeen, downSeen
      <4>3. QED
        BY <2>3, <4>1, <4>2 DEF Bus!Up, Bus!Attempt
    <3>4. QED
      BY <3>2, <3>3
  <2>5. CASE BusGetFails
    <3>1. connection' = 0 /\ connect_status' = 1 /\ failures' # 0
      BY <1>0, <2>1, <2>5 DEF TypeOK, BusGetFails
    <3>2. CASE owner = "waiting"
      BY <2>1, <2>2, <3>1, <3>2 DEF lifeSeen, waitSeen
    <3>3. CASE owner # "waiting"
      <4>1. lifeSeen' = "failed"
        BY <2>1, <2>2, <3>1, <3>3 DEF lifeSeen, downSeen
      <4>2. lifeSeen = IF losses = 0 /\ failures = 0 THEN "new" ELSE "failed"
        BY <2>1, <3>3 DEF lifeSeen, downSeen
      <4>3. QED
        BY <4>1, <4>2 DEF Bus!Fails, Bus!Attempt
    <3>4. QED
      BY <3>2, <3>3
  <2>6. QED
    BY <1>2, <2>4, <2>5 DEF on_bus_get
<1>3. QED
  BY <1>1, <1>2

\* A loss, at once for a connection made from a bus type.
LEMMA LifeOfLoss ==
  ASSUME IInv, LifeInv, on_name_lost \/ on_name_lost_close \/ ConnectAgain
  PROVE  lifeSeen' = lifeSeen \/ Bus!Lost \/ Bus!Closed \/ Bus!Sink \/ Bus!Sunk
<1>0. /\ TypeOK /\ StatusIsTrue /\ Untouched /\ LoopAlone /\ LossAlone /\ TypedAtOnce
      /\ Counted /\ OpenUntilAsked
  BY DEF IInv, LifeInv
<1> USE DEF Bus!Turns
<1>1. CASE on_name_lost
  <2>1. /\ owner \notin {"created"} \union Gone /\ owner' = owner /\ loop = "idle"
        /\ disconnect_status' = disconnect_status /\ losses' # 0
    BY <1>0, <1>1 DEF TypeOK, Untouched, on_name_lost
  <2>2. connection = 1 => pending["on_name_lost_close"] = 0
    BY <1>0, <1>1 DEF TypeOK, LossAlone, on_name_lost
  <2>3. CASE "address" \in profile
    <3>1. /\ connection' = connection /\ Closing' = Closing
          /\ connection = 1 => pending'["on_name_lost_close"] > 0
      BY <1>0, <1>1, <2>2, <2>3, ReplaceCounts
         DEF TypeOK, Closing, on_name_lost, Awaited
    <3>2. CASE owner = "waiting"
      <4>1. \/ lifeSeen' = lifeSeen
            \/ lifeSeen = "closing" /\ lifeSeen' = "sinking"
        BY <1>0, <2>1, <2>2, <3>1, <3>2 DEF TypeOK, lifeSeen, waitSeen
      <4>2. QED
        BY <4>1 DEF Bus!Sink
    <3>3. CASE owner # "waiting"
      <4>1. connection = 1
        BY <1>0, <1>1, <2>1, <3>3 DEF OpenUntilAsked, on_name_lost
      <4>2. lifeSeen = "up" /\ lifeSeen' = "losing"
        BY <2>1, <2>2, <3>1, <3>3, <4>1 DEF lifeSeen
      <4>3. QED
        BY <4>2 DEF Bus!Lost
    <3>4. QED
      BY <3>2, <3>3
  <2>4. CASE "address" \notin profile
    <3>1. connection = 1 /\ connection' = 0
      BY <1>0, <1>1, <2>4 DEF TypedAtOnce, on_name_lost, ReleaseAfterLoss
    <3>2. CASE owner = "waiting"
      <4>1. \/ lifeSeen' = lifeSeen
            \/ lifeSeen \in {"closing", "sinking"} /\ lifeSeen' = "doomed"
        BY <2>1, <3>1, <3>2 DEF lifeSeen, waitSeen
      <4>2. QED
        BY <4>1 DEF Bus!Sunk
    <3>3. CASE owner # "waiting"
      <4>1. lifeSeen = "up" /\ lifeSeen' \in {"lost", "failed"}
        BY <2>1, <2>2, <3>1, <3>3 DEF lifeSeen, downSeen
      <4>2. QED
        BY <4>1 DEF Bus!Lost
    <3>4. QED
      BY <3>2, <3>3
  <2>5. QED
    BY <2>3, <2>4
<1>2. CASE on_name_lost_close
  <2>1. /\ owner \notin {"created"} \union Gone /\ owner' = owner
        /\ disconnect_status' = disconnect_status /\ losses' = losses
        /\ connection' = 0 /\ pending["on_name_lost_close"] > 0
    BY <1>0, <1>2 DEF TypeOK, Untouched, on_name_lost_close, ReleaseAfterLoss
  <2>2. losses # 0
    BY <1>0, <2>1 DEF Counted
  <2>3. CASE owner = "waiting"
    <3>1. \/ lifeSeen' = lifeSeen
          \/ lifeSeen = "sinking" /\ lifeSeen' = "doomed"
      BY <2>1, <2>3 DEF lifeSeen, waitSeen
    <3>2. QED
      BY <3>1 DEF Bus!Sunk
  <2>4. CASE owner # "waiting"
    <3>1. connection = 1
      BY <1>0, <2>1, <2>4 DEF OpenUntilAsked
    <3>2. lifeSeen = "losing" /\ lifeSeen' \in {"lost", "failed"}
      BY <2>1, <2>2, <2>4, <3>1 DEF lifeSeen, downSeen
    <3>3. QED
      BY <3>2 DEF Bus!Closed
  <2>5. QED
    BY <2>3, <2>4
<1>3. CASE ConnectAgain
  <2>1. connection = 0 /\ connect_status' = 0 /\ loop = "reconnect"
    BY <1>0, <1>3 DEF TypeOK, StatusIsTrue, LoopAlone, ConnectAgain
  <2>2. QED
    BY <1>3, <2>1 DEF ConnectAgain, budgets, lifeSeen, waitSeen, downSeen
<1>4. QED
  BY <1>1, <1>2, <1>3

\* Closing: only while Disconnect waits.
LEMMA LifeOfClose ==
  ASSUME IInv, LifeInv, do_disconnect \/ on_disconnect_close \/ do_flush \/ on_flush
  PROVE  lifeSeen' = lifeSeen \/ Bus!Save \/ Bus!Sunk
<1>0. TypeOK /\ TypedAtOnce /\ OpenUntilAsked
  BY DEF IInv, LifeInv
<1> USE DEF Bus!Turns
<1>1. owner = "waiting" /\ owner' = "waiting" /\ Closing
  BY <1>0
     DEF OpenUntilAsked, Closing, do_disconnect, on_disconnect_close, do_flush, on_flush
<1>2. /\ pending'["on_name_lost_close"] = pending["on_name_lost_close"]
      /\ connection \in {0, 1} /\ pending["on_name_lost_close"] \in Nat
  BY <1>0, ReplaceCounts
     DEF TypeOK, do_disconnect, on_disconnect_close, do_flush, on_flush, Awaited,
         AfterFlush
<1>3. CASE disconnect_status' = 2
  <2>1. lifeSeen' = "closing" /\ lifeSeen \in {"closing", "sinking", "doomed"}
    BY <1>1, <1>3 DEF lifeSeen, waitSeen
  <2>2. QED
    BY <2>1 DEF Bus!Save
<1>4. CASE disconnect_status' # 2
  <2>1. /\ do_disconnect \/ do_flush \/ on_flush
        /\ UNCHANGED <<connection, disconnect_status>>
    BY <1>4
       DEF do_disconnect, on_disconnect_close, do_flush, on_flush, ReleaseForOwner,
           lifecycle
  <2>2. \/ lifeSeen' = lifeSeen
        \/ lifeSeen \in {"closing", "sinking"} /\ lifeSeen' = "doomed"
    BY <1>1, <1>2, <1>4, <2>1 DEF lifeSeen, waitSeen
  <2>3. QED
    BY <2>2 DEF Bus!Sunk
<1>5. QED
  BY <1>3, <1>4

\* The timer and the queues are not seen.
LEMMA LifeUnseen ==
  ASSUME IInv,
         \/ do_reconnect \/ on_name_acquired \/ EmitSignal \/ CallMethod \/ do_work
         \/ do_emit_signal \/ do_call_method \/ do_call_reply \/ UseAfterFree
         \/ UNCHANGED vars
  PROVE  lifeSeen' = lifeSeen
<1>0. TypeOK /\ StatusIsTrue
  BY DEF IInv
<1>1. CASE UNCHANGED vars
  BY <1>1
     DEF vars, lifecycle, budgets, lifeSeen, waitSeen, downSeen, Closing
<1>2. CASE do_reconnect
  <2>1. /\ pending'["on_name_lost_close"] = pending["on_name_lost_close"]
        /\ Closing' = Closing
    BY <1>0, <1>2, ReplaceCounts DEF TypeOK, Closing, do_reconnect, ConfirmUp, Retry
  <2>2. \/ connect_status' = connect_status
        \/ connection = 1 /\ loop = "idle"
        \/ connect_status \in {1, 2} /\ connect_status' \in {1, 2}
    BY <1>0, <1>2 DEF StatusIsTrue, do_reconnect, ConfirmUp, Retry
  <2>3. QED
    BY <1>2, <2>1, <2>2, SameLife DEF do_reconnect, budgets
<1>3. CASE \/ on_name_acquired \/ EmitSignal \/ CallMethod \/ do_work
           \/ do_emit_signal \/ do_call_method \/ do_call_reply
  <2>1. /\ pending'["on_name_lost_close"] = pending["on_name_lost_close"]
        /\ Closing' = Closing
    BY <1>0, <1>3, ReplaceCounts
       DEF TypeOK, Closing, on_name_acquired, EmitSignal, CallMethod, do_work,
           do_emit_signal, do_call_method, do_call_reply, HandlerFor
  <2>2. /\ UNCHANGED <<connection, loop, owner, disconnect_status, losses, failures>>
        /\ connect_status' = connect_status
    BY <1>3
       DEF on_name_acquired, EmitSignal, CallMethod, do_work, do_emit_signal,
           do_call_method, do_call_reply, lifecycle, budgets
  <2>3. QED
    BY <2>1, <2>2, SameLife
<1>4. CASE UseAfterFree
  BY <1>4 DEF UseAfterFree, lifeSeen
<1>5. QED
  BY <1>1, <1>2, <1>3, <1>4

\* Every step of Connection is one of BusLife, or is not seen.
LEMMA LifeStep ==
  ASSUME IInv, IInv', LifeInv, [Next]_vars
  PROVE  [Bus!LifeNext]_(Bus!lifeVars)
<1>1. UNCHANGED ("reconnect" \in profile)
  BY ProfileKept
<1>2. CASE Owner
  BY <1>1, <1>2, LifeOfOwner DEF Bus!LifeNext, Bus!lifeVars
<1>3. CASE do_connect \/ on_bus_get
  BY <1>1, <1>3, LifeOfAttempt DEF Bus!LifeNext, Bus!lifeVars
<1>4. CASE on_name_lost \/ on_name_lost_close \/ ConnectAgain
  BY <1>1, <1>4, LifeOfLoss DEF Bus!LifeNext, Bus!lifeVars
<1>5. CASE do_disconnect \/ on_disconnect_close \/ do_flush \/ on_flush
  BY <1>1, <1>5, LifeOfClose DEF Bus!LifeNext, Bus!lifeVars
<1>6. CASE \/ do_reconnect \/ on_name_acquired \/ EmitSignal \/ CallMethod \/ do_work
           \/ do_emit_signal \/ do_call_method \/ do_call_reply
           \/ UseAfterFree \/ UNCHANGED vars
  BY <1>1, <1>6, LifeUnseen DEF Bus!lifeVars
<1>7. QED
  BY <1>2, <1>3, <1>4, <1>5, <1>6 DEF Next, MainLoop

\* A cDBusConnection leads the life that Plugin assumes of each of its buses.
THEOREM Life == Spec => LifeLed
<1>1. IInv /\ IInv' /\ LifeInv /\ [Next]_vars => [Bus!LifeNext]_(Bus!lifeVars)
  BY LifeStep
<1>2. QED
  BY <1>1, LifeInitially, Invariance, LifeInvariance, PTL DEF Spec, LifeLed, Bus!LifeSpec
=============================================================================
