---------------------------- MODULE Plugin_proofs ----------------------------
(***************************************************************************)
(* A request for the primary device is served at most once, and the latest *)
(* one wins, for any devices, options, clients and bounds. And what the    *)
(* proofs about the network, the watchers and the types share: the states  *)
(* of the loops and connections, and how the status goes on with VDR's     *)
(* main thread.                                                            *)
(***************************************************************************)
EXTENDS Plugin, SequenceTheorems, WellFoundedInduction, TLAPS

\* What the main thread's hook and the pool's threads keep true of the request
\* they share: its type, which a step needs to compare and count, and the
\* property itself.
RequestInv ==
  /\ request \in Devices \union {-1}
  /\ requests \in Seq(Devices \union {-1})
  /\ switched \in Nat
  /\ RequestServedOnce

LEMMA RequestInit == Init => RequestInv
  BY PluginAssumption DEF Init, RequestInv, RequestServedOnce

\* A new request, from Initialize or from Devices.RequestPrimary, adds one to
\* those that may be served, and replaces (or, as -1, withdraws) one that was not served yet.
LEMMA RequestMade ==
  ASSUME RequestInv, NEW d \in Devices \union {-1}, SetPrimaryDeviceRequest(d)
  PROVE  RequestInv'
<1> USE PluginAssumption DEF SetPrimaryDeviceRequest, RequestInv, RequestServedOnce
<1>1. requests' \in Seq(Devices \union {-1}) /\ Len(requests') = Len(requests) + 1 /\ requests'[Len(requests')] = d
  OBVIOUS
<1>2. d \in Nat \union {-1} /\ request' = d /\ switched' = switched
  OBVIOUS
<1>3. switched <= Len(requests)
  <2>1. CASE request = -1
    BY <2>1
  <2>2. CASE request \in Devices
    BY <2>2
  <2> QED BY <2>1, <2>2
<1>4. switched' + (IF request' >= 0 THEN 1 ELSE 0) <= Len(requests')
  BY <1>1, <1>2, <1>3
<1> QED BY <1>1, <1>2, <1>4 DEF Last

LEMMA RequestKept ==
  ASSUME RequestInv, UNCHANGED devices
  PROVE  RequestInv'
  BY DEF devices, RequestInv, RequestServedOnce

\* The hook takes the request away as it serves it.
LEMMA RequestTaken ==
  ASSUME RequestInv, MainThreadHook
  PROVE  RequestInv'
<1> USE PluginAssumption DEF RequestInv, RequestServedOnce
<1>1. CASE request >= 0
  BY <1>1 DEF MainThreadHook, ClearedRequest, TakenDevice
<1>2. CASE ~(request >= 0)
  BY <1>2 DEF MainThreadHook
<1> QED BY <1>1, <1>2

LEMMA RequestNext ==
  ASSUME RequestInv, [Next]_vars
  PROVE  RequestInv'
<1>1. CASE Initialize
  <2>1. CASE {"nulldevice", "force"} \subseteq options
    <3>1. NullDevice \in Devices /\ SetPrimaryDeviceRequest(NullDevice)
      BY <1>1, <2>1, PluginAssumption DEF Initialize
    <3> QED BY <3>1, RequestMade
  <2>2. CASE ~({"nulldevice", "force"} \subseteq options)
    BY <1>1, <2>2, RequestKept DEF Initialize
  <2> QED BY <2>1, <2>2
<1>2. CASE Start \/ AddOrWatch \/ StopSessionBus \/ StartSessionBus("remake", "running")
  BY <1>2, RequestKept DEF Start, StartMainLoop, StartSystemBus, StartSessionBus, StartNetwork,
     StartMonitor, Announce, AddOrWatch, StopSessionBus
<1>3. CASE Running
  <2>1. CASE MainThreadHook
    BY <2>1, RequestTaken
  <2>2. CASE \E d \in Devices : VdrSwitches(d)
    BY <2>2 DEF VdrSwitches, RequestInv, RequestServedOnce
  <2>3. CASE (\E set \in {0, 1} : SetDBusSessionBusAddress(set)) \/ (\E b \in Watchable : WatchBusname(b))
               \/ (\E w \in Ids : UnwatchBusname(w))
    BY <2>3, RequestKept DEF SetDBusSessionBusAddress, WatchBusname, UnwatchBusname
  <2> QED BY <1>3, <2>1, <2>2, <2>3 DEF Running
<1>4. CASE Stop \/ Crash
  BY <1>4, RequestKept DEF Stop, BeginStop, StopNetwork, StopBus, FreeThreadPools, StopMainLoop, Crash
<1>5. CASE MethodCalled
  BY <1>5, RequestKept DEF MethodCalled
<1>6. CASE MethodEnds
  BY <1>6, RequestKept, RequestMade DEF MethodEnds
<1>7. CASE Served \/ Monitor \/ Environment \/ (\E l \in Loops : LoopThread(l))
  BY <1>7, RequestKept DEF Served, Monitor, Environment, LoopThread
<1>8. CASE UNCHANGED vars
  BY <1>8, RequestKept DEF vars
<1> QED BY <1>1, <1>2, <1>3, <1>4, <1>5, <1>6, <1>7, <1>8 DEF Next, Blocking

\* The primary device is never switched more often than it was asked for, and
\* the hook serves the latest request: no call of Devices.RequestPrimary that
\* comes while the hook serves another is lost or served twice
\* (cPluginDbus2vdr::MainThreadHook, cDBusDevices).
THEOREM RequestServed == Spec => []RequestServedOnce
<1>1. Init => RequestInv
  BY RequestInit
<1>2. RequestInv /\ [Next]_vars => RequestInv'
  BY RequestNext
<1>3. RequestInv => RequestServedOnce
  BY DEF RequestInv
<1> QED BY <1>1, <1>2, <1>3, PTL DEF Spec

-----------------------------------------------------------------------------
(***************************************************************************)
(* Numbers.                                                                *)
(***************************************************************************)

\* A set of numbers that is not empty has a least member.
LEMMA Least ==
  ASSUME NEW T \in SUBSET Nat, T # {}
  PROVE  \E x \in T : \A y \in T : x <= y
<1>1. PICK x \in T : \A y \in T : ~(<<y, x>> \in OpToRel(<, Nat))
  BY NatLessThanWellFounded, WFMin, Zenon
<1>2. \A y \in T : ~(y < x)
  BY <1>1 DEF OpToRel
<1> QED BY <1>2

\* Induction over the natural numbers, from their being well-founded.
LEMMA Induction ==
  ASSUME NEW S \in SUBSET Nat, 0 \in S, \A n \in S : n + 1 \in S
  PROVE  S = Nat
<1>1. SUFFICES ASSUME Nat \ S # {} PROVE FALSE
  OBVIOUS
<1>2. PICK x \in Nat \ S : \A y \in Nat \ S : x <= y
  BY <1>1, Least
<1>3. x # 0 /\ x - 1 \in Nat
  BY <1>2
<1>4. x - 1 \in S
  BY <1>2, <1>3
<1> QED BY <1>2, <1>3, <1>4

-----------------------------------------------------------------------------
(***************************************************************************)
(* The loops and the connections.                                          *)
(***************************************************************************)

\* The destructor of a connection waits.
Ending == {"closing", "sinking", "doomed"}

\* The type of what a loop's thread and a connection go through: the state of
\* each loop, bus and object.
ConnType ==
  /\ loops \in [Loops -> LoopStates]
  /\ bus \in [Buses -> BusStates] /\ trouble \in 0..MaxTrouble /\ freed \in {0, 1}
  /\ object \in [Buses -> {"none", "listed", "attached"}]

\* What ConnType speaks of.
connVars == <<loops, bus, trouble, freed, object>>

\* It has its type at the start.
LEMMA ConnInit == Init => ConnType
  BY BusesAssumption DEF Init, ConnType, MainLoopInit, BusesInit, LoopStates, BusStates

\* Every step of every thread leaves it its type.
LEMMA ConnNext ==
  ASSUME ConnType, [Next]_vars
  PROVE  ConnType'
<1> USE BusesAssumption DEF ConnType, LoopStates, BusStates, Loops, Buses
<1>0. CASE UNCHANGED connVars
  BY <1>0 DEF connVars
<1>1. CASE Initialize
  BY <1>1, <1>0 DEF Initialize, Elsewhere, connVars, buses, connections, telling
<1>2. CASE Start
  <2>1. CASE StartMainLoop
    BY <2>1 DEF StartMainLoop, StartLoop, buses, connections, telling
  <2>2. CASE StartSystemBus
    BY <2>2 DEF StartSystemBus, CreateBus, AttachObject, buses, connections, telling
  <2>3. CASE StartSessionBus("session", "network")
    BY <2>3 DEF StartSessionBus, CreateBus, AttachObject, buses, connections, telling
  <2>4. CASE StartNetwork
    BY <2>4 DEF StartNetwork, StartLoop, buses, connections, telling
  <2>5. CASE StartMonitor
    BY <2>5 DEF StartMonitor, TestFile, MonitorFile, StartClients, buses, connections, telling
  <2>6. CASE Announce
    BY <2>6 DEF Announce, SetStatus, connections, telling
  <2> QED BY <1>2, <2>1, <2>2, <2>3, <2>4, <2>5, <2>6 DEF Start
<1>3. CASE AddOrWatch
  BY <1>3 DEF AddOrWatch, connections, telling
<1>4. CASE StopSessionBus
  <2>1. CASE Delete("session")
    BY <2>1 DEF Delete, DeleteBus, FreedIf, Waiting
  <2>2. CASE Deleted("session")
    BY <2>2 DEF Deleted, Elsewhere, buses, connections, telling
  <2> QED BY <1>4, <2>1, <2>2 DEF StopSessionBus
<1>5. CASE StartSessionBus("remake", "running")
  BY <1>5 DEF StartSessionBus, CreateBus, AttachObject, buses, connections, telling
<1>6. CASE Running
  <2>1. CASE MainThreadHook
    BY <2>1 DEF MainThreadHook, SetStatus, connections, telling
  <2>2. CASE (\E d \in Devices : VdrSwitches(d)) \/ (\E set \in {0, 1} : SetDBusSessionBusAddress(set))
    BY <2>2 DEF VdrSwitches, SetDBusSessionBusAddress, Elsewhere, buses, connections, telling
  <2>3. CASE (\E b \in Watchable : WatchBusname(b)) \/ (\E w \in Ids : UnwatchBusname(w))
    BY <2>3, <1>0 DEF WatchBusname, UnwatchBusname, connections, telling, connVars
  <2> QED BY <1>6, <2>1, <2>2, <2>3 DEF Running
<1>7. CASE Stop
  <2>1. CASE BeginStop
    BY <2>1 DEF BeginStop, SetStatus, connections, telling
  <2>2. CASE StopNetwork
    BY <2>2 DEF StopNetwork, StopClients, IgnoreFile, QuitLoop, Elsewhere, buses, connections, telling
  <2>3. ASSUME NEW from, NEW b \in Buses, StopBus(from, b) PROVE ConnType'
    <3>1. CASE Delete(b)
      BY <3>1 DEF Delete, DeleteConnection, DeleteBus, FreedIf, Waiting
    <3>2. CASE Deleted(b)
      BY <3>2 DEF Deleted, Elsewhere, buses, connections, telling
    <3> QED BY <2>3, <3>1, <3>2 DEF StopBus
  <2>4. CASE FreeThreadPools \/ StopMainLoop
    BY <2>4 DEF FreeThreadPools, StopMainLoop, QuitLoop, Elsewhere, buses, connections, telling
  <2> QED BY <1>7, <2>1, <2>2, <2>3, <2>4 DEF Stop
<1>8. CASE Crash \/ MethodCalled \/ MethodEnds
  BY <1>8 DEF Crash, MethodCalled, MethodEnds, Elsewhere, buses, connections, telling
<1>9. CASE Served
  <2>1. CASE \E b \in Buses : BusDeleted(b) \/ BusUp(b)
    BY <2>1 DEF BusDeleted, BusUp, FreedIf, telling
  <2>2. CASE \E b \in Watchable : BusClosed(b)
    BY <2>2 DEF BusClosed, telling, Watchable
  <2>3. CASE on_file_changed \/ on_name_acquired
    BY <2>3 DEF on_file_changed, on_name_acquired, buses, connections, telling
  <2>4. CASE NameLost
    BY <2>4 DEF NameLost, BusClosed, telling
  <2> QED BY <1>9, <2>1, <2>2, <2>3, <2>4 DEF Served
<1>10. CASE Monitor
  <2>1. CASE do_connect \/ LoadAddress \/ do_disconnect \/ Dropped
    BY <2>1 DEF do_connect, LoadAddress, do_disconnect, Dropped, buses, connections, telling
  <2>2. CASE DeleteOld
    BY <2>2 DEF DeleteOld, DeleteConnection, DeleteBus, FreedIf, Waiting
  <2>3. CASE CreateConnection
    BY <2>3 DEF CreateConnection, ListObject, connections
  <2>4. CASE ConnectNew
    BY <2>4 DEF ConnectNew, AttachObject
  <2> QED BY <1>10, <2>1, <2>2, <2>3, <2>4 DEF Monitor, MonitorStep
<1>11. CASE Environment
  <2>1. CASE \E b \in Buses : BusFails(b) \/ BusLost(b) \/ BusSaved(b)
    BY <2>1 DEF BusFails, BusLost, Troubled, BusSaved, telling
  <2>2. CASE (\E w \in Ids, what \in {"appeared", "vanished"} : Notify(w, what))
               \/ (\E to \in {<<>>} \union {<<a>> : a \in Addresses} : \E event \in Reports(to) : ChangeFile(to, event))
    BY <2>2 DEF Notify, ChangeFile, buses, connections, telling
  <2>3. CASE (\E n \in Names : ServiceResolved(n) \/ ServiceRemoved(n))
               \/ (\E i \in DOMAIN clients : OnConnect(i) \/ OnTimerChange(i) \/ OnTimerList(i))
    BY <2>3 DEF ServiceResolved, ServiceRemoved, OnConnect, OnTimerChange, OnTimerList, buses, connections, telling
  <2> QED BY <1>11, <2>1, <2>2, <2>3 DEF Environment
<1>12. CASE \E l \in Loops : LoopThread(l)
  BY <1>12 DEF LoopThread, MakeLoop, RunLoop, EndLoop, buses, connections, telling
<1>13. CASE UNCHANGED vars
  BY <1>13 DEF vars, buses, connections, telling
<1> QED BY <1>1, <1>2, <1>3, <1>4, <1>5, <1>6, <1>7, <1>8, <1>9, <1>10, <1>11, <1>12, <1>13 DEF Next, Blocking

\* The system bus is not there before Start makes it: StartSystemBus need not
\* look.
SystemLater == at \in {"initialize", "mainloop", "system"} => bus["system"] = "none"

\* There is no connection at the start.
LEMMA SystemInit == Init => SystemLater
  BY DEF Init, BusesInit, SystemLater, Buses

\* Nothing but StartSystemBus makes the system bus.
LEMMA SystemNext ==
  ASSUME SystemLater, ConnType, [Next]_vars
  PROVE  SystemLater'
<1> DEFINE early3 == {"initialize", "mainloop", "system"}
<1>1. SUFFICES ASSUME at' \in early3 PROVE bus'["system"] = "none"
  BY DEF SystemLater
<1>2. CASE Initialize \/ StartMainLoop \/ AddOrWatch
  <2>1. CASE Initialize
    BY <2>1 DEF SystemLater, Initialize, Step, Elsewhere, buses, connections
  <2>2. CASE StartMainLoop
    BY <2>2 DEF SystemLater, StartMainLoop, Step, buses, connections
  <2>3. CASE AddOrWatch
    BY <1>1, <2>3 DEF SystemLater, AddOrWatch, connections
  <2> QED BY <1>2, <2>1, <2>2, <2>3
<1>3. CASE Start \/ StopSessionBus \/ StartSessionBus("remake", "running")
  <2>1. CASE StartSystemBus \/ StartSessionBus("session", "network") \/ StartSessionBus("remake", "running")
    BY <1>1, <2>1 DEF StartSystemBus, StartSessionBus, Step
  <2>2. CASE StartNetwork \/ StartMonitor \/ Announce
    BY <1>1, <2>2 DEF StartNetwork, StartMonitor, Announce, Step
  <2>3. CASE StopSessionBus
    BY <1>1, <2>3 DEF StopSessionBus, Delete
  <2> QED BY <1>2, <1>3, <2>1, <2>2, <2>3 DEF Start
<1>4. CASE Running
  <2>1. CASE \E b \in Watchable : WatchBusname(b)
    BY <2>1, <1>1 DEF WatchBusname, SystemLater, connections
  <2>2. CASE MainThreadHook \/ (\E d \in Devices : VdrSwitches(d)) \/ (\E set \in {0, 1} : SetDBusSessionBusAddress(set))
               \/ (\E w \in Ids : UnwatchBusname(w))
    BY <2>2, <1>1 DEF MainThreadHook, VdrSwitches, SetDBusSessionBusAddress, UnwatchBusname, Step, main
  <2> QED BY <1>4, <2>1, <2>2 DEF Running
<1>5. CASE Stop
  <2>1. ASSUME NEW from \in {"stopclients", "stopmonitor", "joinmonitor", "closenetwork", "closesession", "closesystem",
                             "pools", "quitloop", "joinloop"}, StopStep(from)
        PROVE  at' \notin early3
    BY <2>1 DEF StopStep, StopOrder
  <2>2. CASE BeginStop \/ FreeThreadPools \/ StopMainLoop \/ StopNetwork
    <3>1. CASE BeginStop
      BY <1>1, <3>1 DEF BeginStop, Step
    <3> HIDE DEF early3
    <3> QED BY <1>1, <2>1, <2>2, <3>1 DEF FreeThreadPools, StopMainLoop, StopNetwork
  <2>3. ASSUME NEW from \in {"closenetwork", "closesession", "closesystem"}, NEW b, StopBus(from, b) PROVE FALSE
    <3>1. CASE at = from /\ Delete(b)
      BY <1>1, <2>3, <3>1 DEF Delete
    <3>2. CASE StopStep(from)
      BY <1>1, <2>1, <3>2
    <3> QED BY <2>3, <3>1, <3>2 DEF StopBus
  <2> QED BY <1>5, <2>2, <2>3 DEF Stop
<1>6. CASE Crash \/ MethodCalled \/ MethodEnds
  BY <1>1, <1>6 DEF Crash, MethodCalled, MethodEnds, SystemLater, Elsewhere, main, buses, connections
<1>7. CASE Served \/ Environment
  <2>1. at' = at /\ bus["system"] = "none"
    BY <1>1, <1>7 DEF Served, Environment, main, SystemLater
  <2>2. CASE \E b \in Buses : BusDeleted(b) \/ BusUp(b) \/ BusFails(b) \/ BusLost(b) \/ BusClosed(b) \/ BusSaved(b)
    <3>1. PICK b \in Buses : BusDeleted(b) \/ BusUp(b) \/ BusFails(b) \/ BusLost(b) \/ BusClosed(b) \/ BusSaved(b)
      BY <2>2
    <3>2. b # "system"
      BY <2>1, <3>1 DEF BusDeleted, BusUp, BusFails, BusLost, BusClosed, BusSaved
    <3>3. \E s : bus' = [bus EXCEPT ![b] = s]
      BY <3>1 DEF BusDeleted, BusUp, BusFails, BusLost, BusClosed, BusSaved
    <3> QED BY <2>1, <3>2, <3>3 DEF ConnType, Buses
  <2>3. CASE on_file_changed \/ on_name_acquired
    BY <2>1, <2>3 DEF on_file_changed, on_name_acquired, buses, connections
  <2>4. CASE NameLost
    BY <2>2, <2>4 DEF NameLost, Buses
  <2>5. CASE (\E w \in Ids, what \in {"appeared", "vanished"} : Notify(w, what))
               \/ (\E to \in {<<>>} \union {<<a>> : a \in Addresses} : \E event \in Reports(to) : ChangeFile(to, event))
    BY <2>1, <2>5 DEF Notify, ChangeFile, buses, connections
  <2>6. CASE (\E n \in Names : ServiceResolved(n) \/ ServiceRemoved(n))
               \/ (\E i \in DOMAIN clients : OnConnect(i) \/ OnTimerChange(i) \/ OnTimerList(i))
    BY <2>1, <2>6 DEF ServiceResolved, ServiceRemoved, OnConnect, OnTimerChange, OnTimerList, buses, connections
  <2> QED BY <1>7, <2>2, <2>3, <2>4, <2>5, <2>6 DEF Served, Environment, Watchable, Buses
<1>8. CASE Monitor
  <2>1. at' = at /\ bus["system"] = "none"
    BY <1>1, <1>8 DEF Monitor, main, SystemLater
  <2>2. bus'["system"] = bus["system"]
    BY <1>8 DEF Monitor, MonitorStep, do_connect, LoadAddress, do_disconnect, Dropped, DeleteOld, DeleteConnection, DeleteBus,
                CreateConnection, ConnectNew, ConnType, Buses, buses, connections
  <2> QED BY <2>1, <2>2
<1>9. CASE (\E l \in Loops : LoopThread(l)) \/ UNCHANGED vars
  BY <1>1, <1>9 DEF LoopThread, SystemLater, vars, main, buses, connections
<1> QED BY <1>2, <1>3, <1>4, <1>5, <1>6, <1>7, <1>8, <1>9 DEF Next, Blocking

-----------------------------------------------------------------------------
(***************************************************************************)
(* VDR's main thread and the status.                                       *)
(***************************************************************************)

\* Where VDR's main thread may be: in Initialize and Start, between Start and
\* Stop, in and after Stop.
Starting == {"initialize", "mainloop", "system", "session", "network", "testfile", "watchfile", "clients", "announce"}

Living == {"running", "restart", "unset", "remake"}

Stopping == {"stopclients", "stopmonitor", "joinmonitor", "closenetwork", "closesession", "closesystem",
    "pools", "quitloop", "joinloop", "stopped", "crashed"}

\* How the status goes on with the main thread: "Start" is told at most once, in
\* Start, "Ready" once, by the first hook, "Stop" once, in Stop. The counts
\* bound the length of what was said.
SaidInv ==
  /\ at \in Starting \union Living \union Stopping
  /\ first \in {0, 1}
  /\ status \in {"Unknown", "Start", "Ready", "Stop"}
  /\ said \in Seq({"Start", "Ready", "Stop"}) /\ Len(said) <= 3
  /\ status = "Unknown" => Len(said) = 0
  /\ status = "Start" => Len(said) <= 1
  /\ status = "Ready" => Len(said) <= 2
  /\ at \in Starting => first = 1
  /\ first = 1 => status # "Ready"
  /\ status = "Stop" => at \in Stopping

\* Stop goes on, at a step of its own.
LEMMA StopSteps ==
  ASSUME NEW from \in Stopping \ {"stopped", "crashed"}, StopStep(from)
  PROVE  at = from /\ at' \in Stopping
  BY DEF StopStep, StopOrder, Stopping

\* Nothing is said at the start.
LEMMA SaidInit == Init => SaidInv
  BY DEF Init, BusesInit, SaidInv, Starting

\* A status that is new is said.
LEMMA Says ==
  ASSUME SaidInv, NEW s \in {"Start", "Ready", "Stop"}, SetStatus(s), status # s
  PROVE  /\ status' = s
         /\ said' \in Seq({"Start", "Ready", "Stop"}) /\ Len(said') = Len(said) + 1
  BY DEF SaidInv, SetStatus

\* What SaidInv speaks of.
saidVars == <<at, first, status, said>>

\* Every step keeps the status in step with the main thread
\* (cPluginDbus2vdr::Start, MainThreadHook and Stop).
LEMMA SaidNext ==
  ASSUME SaidInv, [Next]_vars
  PROVE  SaidInv'
<1> USE DEF SaidInv, Starting, Living, Stopping
<1>1. CASE Initialize
  BY <1>1 DEF Initialize, Step, Elsewhere, buses, telling
<1>2. CASE Start
  <2>1. CASE StartMainLoop
    BY <2>1 DEF StartMainLoop, Step, buses, telling
  <2>2. CASE StartSystemBus
    BY <2>2 DEF StartSystemBus, Step, CreateBus, buses, telling
  <2>3. CASE StartSessionBus("session", "network")
    BY <2>3 DEF StartSessionBus, Step, CreateBus, buses, telling
  <2>4. CASE StartNetwork
    BY <2>4 DEF StartNetwork, Step, buses, telling
  <2>5. CASE StartMonitor
    BY <2>5 DEF StartMonitor, Step, TestFile, MonitorFile, StartClients, buses, telling
  <2>6. CASE Announce
    BY <2>6, Says DEF Announce, Step, SetStatus, telling
  <2> QED BY <1>2, <2>1, <2>2, <2>3, <2>4, <2>5, <2>6 DEF Start
<1>3. CASE AddOrWatch
  BY <1>3 DEF AddOrWatch, telling
<1>4. CASE StopSessionBus
  <2>1. CASE at' = at /\ Delete("session")
    BY <1>4, <2>1 DEF StopSessionBus, Delete, DeleteBus
  <2>2. CASE at' = (IF at = "restart" THEN "remake" ELSE "running") /\ Deleted("session")
    BY <1>4, <2>2 DEF StopSessionBus, Deleted, Elsewhere, buses, telling
  <2> QED BY <1>4, <2>1, <2>2 DEF StopSessionBus, Delete
<1>5. CASE StartSessionBus("remake", "running")
  BY <1>5 DEF StartSessionBus, Step, CreateBus, buses, telling
<1>6. CASE Running
  <2>1. CASE MainThreadHook
    <3>1. CASE first = 1
      <4>1. SetStatus("Ready") /\ status \in {"Unknown", "Start"}
        BY <2>1, <3>1 DEF MainThreadHook, Step
      <4> QED BY <2>1, <4>1, Says DEF MainThreadHook, Step
    <3>2. CASE first = 0
      BY <2>1, <3>2 DEF MainThreadHook, telling, Step
    <3> QED BY <3>1, <3>2
  <2>2. CASE (\E d \in Devices : VdrSwitches(d)) \/ (\E set \in {0, 1} : SetDBusSessionBusAddress(set))
    BY <2>2 DEF VdrSwitches, SetDBusSessionBusAddress, Step, Elsewhere, buses, main, telling
  <2>3. CASE (\E b \in Watchable : WatchBusname(b)) \/ (\E w \in Ids : UnwatchBusname(w))
    BY <2>3 DEF WatchBusname, UnwatchBusname, Step, telling
  <2> QED BY <1>6, <2>1, <2>2, <2>3 DEF Running
<1>7. CASE Stop
  <2>1. CASE BeginStop
    <3>1. status # "Stop"
      BY <2>1 DEF BeginStop, Step
    <3> QED BY <2>1, <3>1, Says DEF BeginStop, Step
  <2>2. CASE StopNetwork
    BY <2>2, StopSteps DEF StopNetwork, StopClients, IgnoreFile, Elsewhere, buses, telling
  <2>3. ASSUME NEW from \in {"closenetwork", "closesession", "closesystem"}, NEW b \in Buses, StopBus(from, b) PROVE SaidInv'
    <3>1. CASE at = from /\ Delete(b)
      BY <2>3, <3>1 DEF StopBus, Delete, DeleteConnection, DeleteBus
    <3>2. CASE StopStep(from) /\ Deleted(b)
      BY <2>3, <3>2, StopSteps DEF StopBus, Deleted, Elsewhere, buses, telling
    <3> QED BY <2>3, <3>1, <3>2 DEF StopBus
  <2>4. CASE FreeThreadPools \/ StopMainLoop
    BY <2>4, StopSteps DEF FreeThreadPools, StopMainLoop, Elsewhere, buses, telling
  <2> QED BY <1>7, <2>1, <2>2, <2>3, <2>4 DEF Stop, Buses
<1>8. CASE Crash \/ MethodCalled \/ MethodEnds
  BY <1>8 DEF Crash, MethodCalled, MethodEnds, Elsewhere, buses, main, telling
<1>9. CASE Served
  <2>1. CASE \E b \in Buses : BusDeleted(b) \/ BusUp(b)
    BY <1>9, <2>1 DEF Served, BusDeleted, BusUp, main, telling
  <2>2. CASE (\E b \in Watchable : BusClosed(b)) \/ NameLost
    BY <1>9, <2>2 DEF Served, BusClosed, NameLost, main, telling
  <2>3. CASE on_file_changed \/ on_name_acquired
    BY <1>9, <2>3 DEF Served, on_file_changed, on_name_acquired, main, buses, telling
  <2> QED BY <1>9, <2>1, <2>2, <2>3 DEF Served
<1>10. CASE Monitor
  BY <1>10 DEF Monitor, MonitorStep, do_connect, LoadAddress, do_disconnect, Dropped, DeleteOld, DeleteConnection, DeleteBus, CreateConnection, ConnectNew, main, buses, telling
<1>11. CASE Environment
  <2>1. UNCHANGED main
    BY <1>11 DEF Environment
  <2>2. CASE \E b \in Buses : BusFails(b) \/ BusLost(b) \/ BusSaved(b)
    BY <2>1, <2>2 DEF BusFails, BusLost, BusSaved, main, telling
  <2>3. CASE (\E w \in Ids, what \in {"appeared", "vanished"} : Notify(w, what))
               \/ (\E to \in {<<>>} \union {<<a>> : a \in Addresses} : \E event \in Reports(to) : ChangeFile(to, event))
    BY <2>1, <2>3 DEF Notify, ChangeFile, main, buses, telling
  <2>4. CASE (\E n \in Names : ServiceResolved(n) \/ ServiceRemoved(n))
               \/ (\E i \in DOMAIN clients : OnConnect(i) \/ OnTimerChange(i) \/ OnTimerList(i))
    <3>1. UNCHANGED buses
      BY <2>4 DEF ServiceResolved, ServiceRemoved, OnConnect, OnTimerChange, OnTimerList
    <3> QED BY <2>1, <3>1 DEF main, buses, telling
  <2> QED BY <1>11, <2>2, <2>3, <2>4 DEF Environment
<1>12. CASE \E l \in Loops : LoopThread(l)
  BY <1>12 DEF LoopThread, main, buses, telling
<1>13. CASE UNCHANGED vars
  BY <1>13 DEF vars, main, buses, telling
<1> QED BY <1>1, <1>2, <1>3, <1>4, <1>5, <1>6, <1>7, <1>8, <1>9, <1>10, <1>11, <1>12, <1>13 DEF Next, Blocking
=============================================================================
