---------------------------- MODULE Types_proofs -----------------------------
(***************************************************************************)
(* Every variable of the plugin keeps its type, from the invariants of its *)
(* parts.                                                                  *)
(***************************************************************************)
EXTENDS Network_proofs, Watchers_proofs

\* The type of what the main thread and the pool count and ask for.
CountInv ==
  /\ commands \in 0..MaxCommands /\ methods \in 0..MaxMethods
  /\ sessionAddress \in {0, 1} /\ early \in {0, 1}
  /\ requests \in Seq(Devices \union {-1}) /\ request \in Devices \union {-1} /\ primary \in Devices

\* At the start.
LEMMA CountInit == Init => CountInv
  BY PluginAssumption DEF Init, CountInv

\* And after every step.
LEMMA CountNext ==
  ASSUME CountInv, [Next]_vars
  PROVE  CountInv'
<1> USE PluginAssumption DEF CountInv
<1>1. CASE UNCHANGED <<commands, methods, sessionAddress, early, requests, request, primary>>
  BY <1>1
<1>2. CASE Initialize
  <2>1. UNCHANGED <<commands, methods, sessionAddress, early, primary>>
    BY <1>2 DEF Initialize, SetPrimaryDeviceRequest, devices
  <2>2. (requests' = Append(requests, NullDevice) /\ request' = NullDevice) \/ UNCHANGED <<request, requests>>
    BY <1>2 DEF Initialize, SetPrimaryDeviceRequest, devices
  <2>3. NullDevice \in Devices
    OBVIOUS
  <2>4. requests' \in Seq(Devices \union {-1})
    <3>1. Append(requests, NullDevice) \in Seq(Devices \union {-1})
      BY <2>3, AppendProperties
    <3> QED BY <2>2, <3>1
  <2>5. request' \in Devices \union {-1}
    BY <2>2, <2>3
  <2> QED BY <2>1, <2>4, <2>5
<1>3. CASE Start \/ AddOrWatch \/ StartSessionBus("remake", "running") \/ StopSessionBus
  <2>1. CASE StartMainLoop \/ StartSystemBus \/ StartNetwork \/ StartMonitor \/ Announce
    BY <1>1, <2>1 DEF StartMainLoop, StartSystemBus, StartNetwork, StartMonitor, Announce, devices
  <2>2. CASE StartSessionBus("session", "network") \/ StartSessionBus("remake", "running")
    BY <1>1, <2>2 DEF StartSessionBus, devices
  <2>3. CASE AddOrWatch \/ StopSessionBus
    BY <1>1, <2>3 DEF AddOrWatch, StopSessionBus, devices
  <2> QED BY <1>3, <2>1, <2>2, <2>3 DEF Start
<1>4. CASE MainThreadHook
  BY <1>4 DEF MainThreadHook, ClearedRequest, TakenDevice
<1>5. CASE Running
  <2>1. CASE \E d \in Devices : VdrSwitches(d)
    BY <2>1 DEF VdrSwitches, main
  <2>2. CASE \E set \in {0, 1} : SetDBusSessionBusAddress(set)
    BY <2>2 DEF SetDBusSessionBusAddress, Command, devices
  <2>3. CASE \E b \in Watchable : WatchBusname(b)
    BY <2>3 DEF WatchBusname, Command, devices
  <2>4. CASE \E w \in Ids : UnwatchBusname(w)
    BY <2>4 DEF UnwatchBusname, Command, devices
  <2> QED BY <1>4, <1>5, <2>1, <2>2, <2>3, <2>4 DEF Running
<1>6. CASE Stop
  <2>1. CASE BeginStop
    BY <2>1 DEF BeginStop, devices
  <2>2. CASE StopNetwork \/ FreeThreadPools \/ StopMainLoop
    BY <1>1, <2>2 DEF StopNetwork, FreeThreadPools, StopMainLoop, devices
  <2>3. CASE \E from, b : StopBus(from, b)
    BY <1>1, <2>3 DEF StopBus, devices
  <2> QED BY <1>6, <2>1, <2>2, <2>3 DEF Stop
<1>7. CASE Crash
  BY <1>1, <1>7 DEF Crash, devices
<1>8. CASE MethodCalled
  BY <1>8 DEF MethodCalled, main, devices
<1>9. CASE MethodEnds
  <2>1. UNCHANGED <<commands, sessionAddress, early>> /\ methods' \in 0..MaxMethods
    BY <1>9 DEF MethodEnds, main
  <2>2. CASE UNCHANGED devices
    BY <2>1, <2>2 DEF devices
  <2>3. ASSUME NEW d \in Devices \union {-1}, SetPrimaryDeviceRequest(d) PROVE CountInv'
    <3>1. Append(requests, d) \in Seq(Devices \union {-1})
      BY AppendProperties
    <3> QED BY <2>1, <2>3, <3>1 DEF SetPrimaryDeviceRequest
  <2> QED BY <1>9, <2>2, <2>3 DEF MethodEnds
<1>10. CASE Served \/ Monitor \/ Environment \/ (\E l \in Loops : LoopThread(l)) \/ UNCHANGED vars
  BY <1>1, <1>10 DEF Served, Monitor, Environment, LoopThread, vars, main, devices
<1> QED BY <1>2, <1>3, <1>5, <1>6, <1>7, <1>8, <1>9, <1>10 DEF Next, Blocking

\* All invariants of the plugin's parts.
PluginInv ==
  /\ ConnType /\ SystemLater /\ WatchersInv
  /\ SaidInv /\ NetType /\ ServiceInv /\ ClientInv /\ CountInv

\* Every variable has its type, and every bound holds, for any options, devices,
\* addresses and bounds. The services, the clients and the status need the
\* invariants of their parts: an id of a service never exceeds the number that
\* was made, a stray stems from one event, and a status is said once.
THEOREM PluginTypeCorrect == Spec => []TypeOK
<1>1. Init => PluginInv
  BY ConnInit, SystemInit, WatchInit, SaidInit, NetInit, ServiceInit, ClientInit, CountInit DEF PluginInv, WatchersInv
<1>2. ASSUME PluginInv, [Next]_vars PROVE PluginInv'
  <2>1. ConnType' /\ SystemLater' /\ WatchersInv'
    BY <1>2, WatchersNext DEF PluginInv
  <2> QED BY <1>2, <2>1, SaidNext, NetNext, ServiceNext, ClientNext, CountNext DEF PluginInv
<1>3. ASSUME PluginInv PROVE TypeOK
  <2>1. PICK own \in [Ids -> Watchable] : WatchInv(own)
    BY <1>3 DEF PluginInv, WatchersInv
  <2>2. /\ watcher \in [Ids -> [bus : Watchable \union {"none"}, watch_id : {0, 1}, live : {0, 1},
                                told : {"nothing", "appeared", "vanished"}]]
        /\ ids \in 0..MaxWatchers /\ unsure \subseteq Ids
    BY <2>1 DEF WatchInv, WatcherType, Watcher
  <2>3. Len(address) <= 1
    <3>1. address \in Files
      BY <1>3 DEF PluginInv, NetType
    <3>2. CASE address = <<>>
      BY <3>2
    <3>3. CASE address # <<>>
      <4>1. PICK a : address = <<a>>
        BY <3>1, <3>3 DEF Files
      <4> QED BY <4>1
    <3> QED BY <3>2, <3>3
  <2>4. strays \in 0..MaxEvents
    BY <1>3, NetworkAssumption DEF PluginInv, ClientInv
  <2>5. {first, early, sessionAddress} \subseteq {0, 1}
    BY <1>3 DEF PluginInv, SaidInv, CountInv
  <2>6. /\ loops \in [Loops -> LoopStates] /\ bus \in [Buses -> BusStates] /\ trouble \in 0..MaxTrouble /\ freed \in {0, 1}
        /\ object \in [Buses -> {"none", "listed", "attached"}]
    BY <1>3 DEF PluginInv, ConnType
  <2>7. status \in {"Unknown", "Start", "Ready", "Stop"} /\ Len(said) <= 3
    BY <1>3 DEF PluginInv, SaidInv
  <2>8. /\ file \in {<<>>} \union {<<a>> : a \in Addresses} /\ {watched, missed, named, browser} \subseteq {0, 1}
        /\ monitor \in {"idle", "load", "replace", "attach", "drop"}
    BY <1>3 DEF PluginInv, NetType, Files
  <2>9. orphans \subseteq services /\ services \subseteq 1..created /\ avahi_id \in 0..created
    BY <1>3 DEF PluginInv, ServiceInv
  <2>10. /\ request \in Devices \union {-1} /\ primary \in Devices /\ requests \in Seq(Devices \union {-1})
         /\ commands \in 0..MaxCommands /\ methods \in 0..MaxMethods
    BY <1>3 DEF PluginInv, CountInv
  <2> QED BY <2>2, <2>3, <2>4, <2>5, <2>6, <2>7, <2>8, <2>9, <2>10 DEF TypeOK
<1> QED BY <1>1, <1>2, <1>3, PTL DEF Spec
=============================================================================
