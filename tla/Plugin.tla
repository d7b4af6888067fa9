------------------------------- MODULE Plugin -------------------------------
(***************************************************************************)
(* The plugin's life (dbus2vdr.c): Initialize, Start, MainThreadHook, the  *)
(* SVDRP commands and Stop, all called by VDR's main thread, beside the    *)
(* main loop's thread, the network monitor and the pool of method calls.   *)
(* "at" is the main thread's next step; a function that blocks stays there *)
(* until what it waits for has happened.                                   *)
(***************************************************************************)
EXTENDS Network

CONSTANTS
  Options,      \* the ways it is started, see Option
  Devices,      \* numbers of VDR's devices
  NullDevice,   \* the device that the plugin makes
  MaxCommands,  \* bound: SVDRP commands
  MaxRequests,  \* bound: calls of Devices.RequestPrimary
  MaxMethods    \* bound: method calls in the pool

ASSUME PluginAssumption ==
  /\ Options \subseteq SUBSET Option
  /\ Devices \subseteq Nat /\ {0, NullDevice} \subseteq Devices
  /\ {MaxCommands, MaxRequests, MaxMethods} \subseteq Nat

VARIABLES
  at,          \* where VDR's main thread is
  first,       \* _first_main_thread
  told,        \* what other plugins know of our main loop: "MainLoopStarted", "MainLoopStopped"
  sessionAddress, \* dbus2vdr_DBusSessionBusAddress is set
  command,     \* the watcher that WatchBusname adds, and how
  commands,    \* what MaxCommands counts
  request,     \* cDBusDevices::_requestedPrimaryDevice, -1 for none
  requests,    \* every request so far
  primary,     \* VDR's primary device
  switched,    \* how often the plugin switched it
  methods,     \* calls in the pool
  early        \* 1: Stop met a loop that did not run yet

main == <<at, first, told, sessionAddress, command, commands, early>>
devices == <<request, requests, primary, switched>>
vars == <<main, devices, methods, network, buses, loops>>

Init ==
  /\ options \in Options
  /\ BusesInit /\ MainLoopInit /\ NetworkInit
  /\ at = "initialize" /\ first = 1 /\ told = "nothing" /\ sessionAddress \in (IF "session" \in options THEN {0, 1} ELSE {0})
  /\ command = <<>> /\ commands = 0 /\ early = 0
  /\ request = -1 /\ requests = <<>> /\ primary = 0 /\ switched = 0
  /\ methods = 0

Elsewhere == UNCHANGED <<network, buses, loops>>

\* The main thread goes on from one step to the next.
Step(from, to) == at = from /\ at' = to

-----------------------------------------------------------------------------
(***************************************************************************)
(* Initialize and Start.                                                   *)
(***************************************************************************)

SetPrimaryDeviceRequest(d) ==
  /\ request' = d /\ requests' = Append(requests, d) /\ UNCHANGED <<primary, switched>>

Initialize ==
  /\ Step("initialize", "mainloop")
  /\ IF {"nulldevice", "force"} \subseteq options THEN SetPrimaryDeviceRequest(NullDevice) ELSE UNCHANGED devices
  /\ UNCHANGED <<first, told, sessionAddress, command, commands, early, methods>> /\ Elsewhere

StartMainLoop ==
  /\ Step("mainloop", "system")
  /\ IF "mainloop" \in options THEN StartLoop("main") /\ told' = "MainLoopStarted"
                               ELSE UNCHANGED <<loops, told>>
  /\ UNCHANGED <<first, sessionAddress, command, commands, early, devices, methods, network, buses>>

StartSystemBus ==
  /\ Step("system", "session")
  /\ IF "system" \in options THEN CreateBus("system") ELSE UNCHANGED <<buses, loops>>
  /\ UNCHANGED <<first, told, sessionAddress, command, commands, early, devices, methods, network>>

\* StartSessionBus, in Start and in SetDBusSessionBusAddress.
StartSessionBus(from, to) ==
  /\ Step(from, to)
  /\ IF "session" \in options /\ sessionAddress = 1 /\ bus["session"] = "none"
     THEN CreateBus("session") ELSE UNCHANGED <<buses, loops>>
  /\ UNCHANGED <<first, told, sessionAddress, command, commands, early, devices, methods, network>>

StartNetwork ==
  /\ Step("network", IF "network" \in options THEN "testfile" ELSE "announce")
  /\ IF "network" \in options THEN StartLoop("monitor") ELSE UNCHANGED loops
  /\ UNCHANGED <<first, told, sessionAddress, command, commands, early, devices, methods, network, buses>>

StartMonitor ==
  /\ \/ Step("testfile", "watchfile") /\ TestFile
     \/ Step("watchfile", "clients") /\ MonitorFile
     \/ Step("clients", "announce") /\ StartClients
  /\ UNCHANGED <<first, told, sessionAddress, command, commands, early, devices, methods>>

Announce ==
  /\ Step("announce", "running")
  /\ SetStatus("Start")
  /\ UNCHANGED <<first, told, sessionAddress, command, commands, early, devices, methods, network,
                 options, connections, watching, loops>>

Start ==
  \/ StartMainLoop \/ StartSystemBus \/ StartSessionBus("session", "network")
  \/ StartNetwork \/ StartMonitor \/ Announce

-----------------------------------------------------------------------------
(***************************************************************************)
(* VDR's main thread between Start and Stop.                               *)
(***************************************************************************)

\* What a hook leaves of the request (for the mutants: all of it).
KeepRequest == request
ClearedRequest == -1

\* VDR counts its devices from one, the request from zero (for the mutants: the
\* hook forgets it).
RequestAsNumber == request - 1
TakenDevice == request

MainThreadHook ==
  /\ Step("running", "running")
  /\ first' = 0
  /\ IF first = 1 THEN SetStatus("Ready") ELSE UNCHANGED telling
  /\ IF request >= 0
     THEN primary' = TakenDevice /\ switched' = switched + 1 /\ request' = ClearedRequest
     ELSE UNCHANGED <<primary, switched, request>>
  /\ UNCHANGED <<requests, told, sessionAddress, command, commands, early, methods, network,
                 options, connections, watching, loops>>

\* VDR itself takes another device.
VdrSwitches(d) ==
  /\ at = "running" /\ d # primary /\ d # NullDevice /\ switched > 0 /\ "calls" \in options
  /\ primary' = d
  /\ UNCHANGED <<main, request, requests, switched, methods>> /\ Elsewhere

Command == "commands" \in options /\ commands < MaxCommands /\ commands' = commands + 1

\* SetDBusSessionBusAddress with an address: the old bus is deleted (at
\* "restart"), then a new one is made.  Without: it is deleted only.
SetDBusSessionBusAddress(set) ==
  /\ Step("running", IF set = 1 THEN "restart" ELSE "unset") /\ Command
  /\ sessionAddress' = set
  /\ UNCHANGED <<first, told, command, early, devices, methods>> /\ Elsewhere

\* WatchBusname, also before Start: it looks for the bus and its status ...
\* (other plugins ask in their own Initialize and Start).
WatchBusname(b) ==
  /\ at \in {"mainloop", "running"} /\ command = <<>> /\ Command /\ ids < MaxWatchers
  /\ ids' = ids + 1
  /\ watcher' = [watcher EXCEPT ![ids + 1].bus = b]
  /\ IF bus[b] = "none"
     THEN chain' = ListAdd(chain, <<"waiting", b>>, ids + 1) /\ UNCHANGED command
     ELSE command' = <<b, IF BelowThree(b) THEN "add" ELSE "watch">> /\ UNCHANGED chain
  /\ UNCHANGED <<at, first, told, sessionAddress, early, unsure, telling, options, connections,
                 devices, methods, network, loops>>

\* ... and adds the watcher accordingly.
AddOrWatch ==
  /\ command # <<>>
  /\ IF command[2] = "add" THEN AddWatcher(ids, command[1]) ELSE WatchNow(ids, command[1])
  /\ command' = <<>>
  /\ UNCHANGED <<at, first, told, sessionAddress, commands, early, ids, telling, options, connections,
                 devices, methods, network, loops>>

\* UnwatchBusname: a watcher that still waits for its bus stays.
UnwatchBusname(w) ==
  /\ Step("running", "running") /\ command = <<>> /\ w <= ids /\ watcher[w].bus # "none" /\ Command
  /\ LET b == watcher[w].bus IN
     IF bus[b] = "none" THEN UNCHANGED <<watcher, chain>> ELSE Unwatch(w, b)
  /\ UNCHANGED <<first, told, sessionAddress, command, early, ids, unsure, telling, options, connections,
                 devices, methods, network, loops>>

Running ==
  \/ MainThreadHook
  \/ \E d \in Devices : VdrSwitches(d)
  \/ \E set \in {0, 1} : SetDBusSessionBusAddress(set)
  \/ \E b \in Watchable : WatchBusname(b)
  \/ \E w \in Ids : UnwatchBusname(w)

-----------------------------------------------------------------------------
(***************************************************************************)
(* Stop.                                                                   *)
(***************************************************************************)

\* The steps of Stop (for the mutants: the main loop is deleted too early).
LoopFirst ==
  <<"stopclients", "stopmonitor", "joinmonitor", "closenetwork", "quitloop", "joinloop",
    "closesession", "closesystem", "pools", "stopped">>
StopOrder ==
  <<"stopclients", "stopmonitor", "joinmonitor", "closenetwork", "closesession", "closesystem",
    "pools", "quitloop", "joinloop", "stopped">>

StopStep(from) ==
  /\ at = from
  /\ \E i \in DOMAIN StopOrder : StopOrder[i] = from /\ at' = StopOrder[i + 1]

\* Stop is told on the buses before they are deleted.
BeginStop ==
  /\ Step("running", "stopclients") /\ command = <<>>
  /\ early' = IF \E l \in Loops : loops[l] \in {"started", "made"} THEN 1 ELSE 0
  /\ SetStatus("Stop")
  /\ UNCHANGED <<first, told, sessionAddress, command, commands, devices, methods, network,
                 options, connections, watching, loops>>

StopNetwork ==
  /\ \/ StopStep("stopclients") /\ StopClients
     \/ StopStep("stopmonitor") /\ IgnoreFile
     \/ StopStep("joinmonitor") /\ Joined("monitor") /\ Elsewhere
  /\ UNCHANGED <<first, told, sessionAddress, command, commands, early, devices, methods>>

\* The destructor of bus b is called, or has returned.
Delete(b) ==
  /\ at' = at /\ bus[b] # "none"
  /\ IF b = "network" THEN DeleteConnection ELSE DeleteBus(b) /\ UNCHANGED network
Deleted(b) == bus[b] = "none" /\ Elsewhere

StopBus(from, b) ==
  /\ (at = from /\ Delete(b)) \/ (StopStep(from) /\ Deleted(b))
  /\ UNCHANGED <<first, told, sessionAddress, command, commands, early, devices, methods>>

\* FreeThreadPool waits for the calls.
FreeThreadPools ==
  /\ StopStep("pools") /\ methods = 0
  /\ UNCHANGED <<first, told, sessionAddress, command, commands, early, devices, methods>> /\ Elsewhere

StopMainLoop ==
  /\ \/ /\ StopStep("quitloop") /\ QuitLoop("main")
        /\ told' = IF "mainloop" \in options THEN "MainLoopStopped" ELSE told
     \/ StopStep("joinloop") /\ Joined("main") /\ UNCHANGED <<loops, told>>
  /\ UNCHANGED <<first, sessionAddress, command, commands, early, devices, methods, network, buses>>

Stop ==
  \/ BeginStop \/ StopNetwork
  \/ StopBus("closenetwork", "network") \/ StopBus("closesession", "session")
  \/ StopBus("closesystem", "system")
  \/ FreeThreadPools \/ StopMainLoop

\* The first part of SetDBusSessionBusAddress.
StopSessionBus ==
  /\ at \in {"restart", "unset"}
  /\ \/ Delete("session")
     \/ at' = (IF at = "restart" THEN "remake" ELSE "running") /\ Deleted("session")
  /\ UNCHANGED <<first, told, sessionAddress, command, commands, early, devices, methods>>

-----------------------------------------------------------------------------
(***************************************************************************)
(* Where VDR may crash.  What else the use of freed memory can do is not   *)
(* modelled: a step that goes well changes nothing.                        *)
(***************************************************************************)

\* SetStatus meets an object "/vdr" that has no connection yet.
ObjectUnconnected ==
  ~CanEmit /\ (at = "announce" \/ (at = "running" /\ (first = 1 \/ command = <<>>)))

\* A callback that was left attached gets the freed connection.
FreedConnectionCalled == Dispatching /\ freed = 1

\* The connection that a deleted client left behind calls OnConnect,
\* OnTimerChange, OnTimerList or OnDisconnect with it.
FreedClientCalled == Dispatching /\ strays > 0

\* on_name_acquired finds the address that do_connect has just freed.
FreedAddressRead == Dispatching /\ bus["network"] = "up" /\ named = 0 /\ monitor = "load"

Crash ==
  /\ ObjectUnconnected \/ FreedConnectionCalled \/ FreedClientCalled \/ FreedAddressRead
  /\ at' = "crashed"
  /\ UNCHANGED <<first, told, sessionAddress, command, commands, early, devices, methods>> /\ Elsewhere

-----------------------------------------------------------------------------
(***************************************************************************)
(* The other threads.                                                      *)
(***************************************************************************)

\* A method is called on a bus; a thread of the pool runs it, among them
\* Devices.RequestPrimary; -1 withdraws what is requested.
MethodCalled ==
  /\ \E b \in Buses : bus[b] = "up"
  /\ Dispatching /\ "calls" \in options /\ methods < MaxMethods
  /\ methods' = methods + 1
  /\ UNCHANGED <<main, devices>> /\ Elsewhere

MethodEnds ==
  /\ methods > 0 /\ methods' = methods - 1
  /\ \/ UNCHANGED devices
     \/ \E d \in Devices \union {-1} : Len(requests) < MaxRequests /\ SetPrimaryDeviceRequest(d)
  /\ UNCHANGED main /\ Elsewhere

LoopThread(l) ==
  /\ MakeLoop(l) \/ RunLoop(l) \/ (EndLoop(l) /\ (l = "monitor" => monitor = "idle"))
  /\ UNCHANGED <<main, devices, methods, network, buses>>

\* What the default context serves because a thread or GIO waits for it.
Served ==
  /\ \/ (\E b \in Buses : BusDeleted(b) \/ BusUp(b)) /\ UNCHANGED network
     \/ (\E b \in Watchable : BusClosed(b)) /\ UNCHANGED network
     \/ on_file_changed \/ on_name_acquired \/ NameLost
  /\ UNCHANGED <<main, devices, methods>>

Monitor == MonitorStep /\ UNCHANGED <<main, devices, methods>>

Environment ==
  /\ \/ (\E b \in Buses : BusFails(b) \/ BusLost(b) \/ BusSaved(b)) /\ UNCHANGED network
     \/ (\E w \in Ids, what \in {"appeared", "vanished"} : Notify(w, what)) /\ UNCHANGED network
     \/ \E to \in {<<>>} \union {<<a>> : a \in Addresses} : \E event \in Reports(to) : ChangeFile(to, event)
     \/ \E n \in Names : ServiceResolved(n) \/ ServiceRemoved(n)
     \/ \E i \in DOMAIN clients : OnConnect(i) \/ OnTimerChange(i) \/ OnTimerList(i)
  /\ UNCHANGED <<main, devices, methods>>

Blocking == Initialize \/ Start \/ AddOrWatch \/ StopSessionBus \/ StartSessionBus("remake", "running")

Next ==
  /\ at # "crashed"
  /\ \/ Blocking \/ Running \/ Stop \/ Crash
     \/ MethodCalled \/ MethodEnds \/ Served \/ Monitor \/ Environment
     \/ \E l \in Loops : LoopThread(l)

Spec == Init /\ [][Next]_vars

\* While VDR lives, its main thread goes on in a function it has begun, the threads
\* run, GLib serves its sources and connections come up or fail.
Fairness ==
  /\ WF_vars(Blocking) /\ WF_vars(at # "running" /\ Stop)
  /\ WF_vars(at # "crashed" /\ Served) /\ WF_vars(at # "crashed" /\ Monitor)
  /\ WF_vars(at # "crashed" /\ MethodEnds)
  /\ \A l \in Loops : WF_vars(at # "crashed" /\ LoopThread(l))

FairSpec == Spec /\ Fairness

-----------------------------------------------------------------------------
(***************************************************************************)
(* Properties.                                                             *)
(***************************************************************************)

\* Every variable has its type: the members of cPluginDbus2vdr, cDBusNetwork,
\* cDBusNetworkClient, cDBusWatcher, cDBusVdr and cDBusMainLoop.
TypeOK ==
  /\ loops \in [Loops -> LoopStates] /\ bus \in [Buses -> BusStates] /\ trouble \in 0..MaxTrouble /\ freed \in {0, 1}
  /\ watcher \in [Ids -> [bus : Watchable \union {"none"}, watch_id : {0, 1}, live : {0, 1},
                          told : {"nothing", "appeared", "vanished"}]]
  /\ ids \in 0..MaxWatchers /\ unsure \subseteq Ids
  /\ status \in {"Unknown", "Start", "Ready", "Stop"} /\ Len(said) <= 3
  /\ object \in [Buses -> {"none", "listed", "attached"}]
  /\ file \in {<<>>} \union {<<a>> : a \in Addresses} /\ {watched, missed, named, browser} \subseteq {0, 1}
  /\ monitor \in {"idle", "load", "replace", "attach", "drop"}
  /\ Len(address) <= 1 /\ orphans \subseteq services /\ services \subseteq 1..created
  /\ avahi_id \in 0..created /\ strays \in 0..MaxEvents
  /\ request \in Devices \union {-1} /\ primary \in Devices /\ requests \in Seq(Devices \union {-1})
  /\ {first, early, sessionAddress} \subseteq {0, 1} /\ commands \in 0..MaxCommands /\ methods \in 0..MaxMethods

\* A watcher is watched as long as its bus is up, over every loss and return of
\* the bus, and nobody goes on believing in a name whose bus is gone.  Left out:
\* a watcher asked for just while its bus came or went (dbus2vdr.c:659 reads the
\* status without a lock), those that AddAllWatchers unlinked, and deleted ones
\* to which it left a link (dbus2vdr.c:138).
WatchersServed ==
  /\ \A b \in Watchable : \A w \in Listed(chain, <<"listed", b>>) \ unsure :
       bus[b] = "up" /\ watcher[w].bus = b => watcher[w].watch_id = 1 /\ watcher[w].live = 1
  /\ \A w \in Ids : watcher[w].told = "appeared" => watcher[w].live = 1

\* Once nothing is on its way, the connection is the one that the file asks
\* for - unless its last change came between the first test and the watching
\* (network.c:207-217) or was a rename, which is ignored (network.c:129): then
\* only the next change is followed.
FollowsFile ==
  (/\ watched = 1 /\ missed = 0 /\ loops["monitor"] = "runs"
   /\ changes = <<>> /\ tasks = <<>> /\ monitor = "idle") =>
     /\ file = <<>> => bus["network"] = "none" /\ address = <<>>
     /\ LoadFromFile # <<>> => bus["network"] # "none" /\ used = file[1] /\ address = file

\* The service that is published belongs to the connection that owns its name,
\* however often the name and the file change.  What a deleted connection had
\* published stays (network.c:62 and 85): on_name_lost is not called for it.
ServiceWithdrawn == services \ orphans = IF named = 1 /\ avahi_id # 0 THEN {avahi_id} \ orphans ELSE {}

\* A request for the primary device is served once, the latest one wins, and
\* the hook does not overrule what VDR's user chose since.
RequestServedOnce ==
  /\ switched + (IF request >= 0 THEN 1 ELSE 0) <= Len(requests)
  /\ request >= 0 => request = Last(requests)

\* Each bus leads the life that a cDBusConnection shows of itself (Connection's
\* LifeLed): it is made when there is none, comes up again after a failure or a
\* loss only if it reconnects, and is deleted from every state of the connection.
SystemLife  == INSTANCE BusLife WITH life <- bus["system"], reconnects <- Reconnects("system")
SessionLife == INSTANCE BusLife WITH life <- bus["session"], reconnects <- Reconnects("session")
NetworkLife == INSTANCE BusLife WITH life <- bus["network"], reconnects <- Reconnects("network")

LivesLed == SystemLife!LifeSpec /\ SessionLife!LifeSpec /\ NetworkLife!LifeSpec

\* What is needed last is taken apart last: a connection that is there has a main
\* loop that serves it, or will once its thread gets to it - no matter which
\* thread makes the connection, and which waits for its end - and when Stop
\* deletes the network's connection, the monitor thread, which does so too, has
\* ended and left nothing half done.
TornDownInOrder ==
  /\ "mainloop" \in options /\ (\E b \in Buses : bus[b] # "none") => loops["main"] \in {"started", "made", "runs"}
  /\ at \in {"closenetwork", "closesession", "closesystem", "pools", "quitloop", "joinloop", "stopped"} =>
       monitor = "idle" /\ Joined("monitor")

\* Stop returns, if the loops ran when it began (the destructor of a loop that
\* did not run yet waits for ever, mainloop.c:24) and no connection is deleted
\* while it comes or goes (its destructor may wait for ever, connection.c:506), or
\* VDR has crashed by a use of what was freed (Crash).
StopReturns ==
  (at = "stopclients" /\ early = 0) ~>
    (at \in {"stopped", "crashed"} \/ \E b \in Buses : bus[b] = "doomed")
=============================================================================
