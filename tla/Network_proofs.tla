--------------------------- MODULE Network_proofs ----------------------------
(***************************************************************************)
(* The connection of the network follows the file, and the service that is *)
(* published belongs to it, for any addresses, options, clients and        *)
(* bounds.                                                                 *)
(***************************************************************************)
EXTENDS Plugin_proofs, FiniteSetTheorems

\* What the monitor thread is asked for, and what GIO reports.
Tasks == {"connect", "disconnect"}

Changes == {"CHANGES_DONE_HINT", "DELETED", "MOVED"}

\* The texts of the file, and the clients.
Files == {<<>>} \union {<<a>> : a \in Addresses}

Client == [name : Names, state : {"new", "subscribed", "listing"}]

\* The type of the network's variables.
NetType ==
  /\ file \in Files /\ address \in Files
  /\ changes \in Seq(Changes) /\ tasks \in Seq(Tasks)
  /\ {watched, missed, named, browser} \subseteq {0, 1}
  /\ monitor \in {"idle", "load", "replace", "attach", "drop"}

\* The steps that write the network's variables, but for the deletion of the
\* connection.
MonitorWrites == do_connect \/ LoadAddress \/ do_disconnect \/ CreateConnection \/ ConnectNew \/ Dropped

\* What comes from outside: the file changes, other VDRs come and go, their
\* connections answer.
EventWrites ==
  \/ \E to \in Files : \E event \in Reports(to) : ChangeFile(to, event)
  \/ \E n \in Names : ServiceResolved(n) \/ ServiceRemoved(n)
  \/ \E i \in DOMAIN clients : OnConnect(i) \/ OnTimerChange(i) \/ OnTimerList(i)

\* All steps that write a variable of the network.
NetworkWrites ==
  \/ TestFile \/ MonitorFile \/ StartClients \/ StopClients \/ IgnoreFile \/ DeleteConnection
  \/ on_file_changed \/ on_name_acquired \/ NameLost \/ MonitorWrites \/ EventWrites

\* Whatever else happens leaves the network alone, and the options always stay:
\* a step that writes one of the network's variables is one of those above.
LEMMA NetworkFrame ==
  ASSUME [Next]_vars
  PROVE  (NetworkWrites \/ UNCHANGED network) /\ UNCHANGED options
<1>1. CASE Initialize \/ AddOrWatch \/ StartSessionBus("remake", "running")
  BY <1>1 DEF Initialize, AddOrWatch, StartSessionBus, CreateBus, Elsewhere, buses
<1>2. CASE Start
  <2>1. CASE StartMonitor
    <3>1. TestFile \/ MonitorFile \/ StartClients
      BY <2>1 DEF StartMonitor
    <3>2. UNCHANGED options
      BY <3>1 DEF TestFile, MonitorFile, StartClients, buses
    <3> QED BY <3>1, <3>2 DEF NetworkWrites
  <2>2. CASE Announce
    BY <2>2 DEF Announce
  <2>3. CASE StartMainLoop \/ StartNetwork
    BY <2>3 DEF StartMainLoop, StartNetwork, buses
  <2>4. CASE StartSystemBus \/ StartSessionBus("session", "network")
    BY <2>4 DEF StartSystemBus, StartSessionBus, CreateBus, buses
  <2> QED BY <1>2, <2>1, <2>2, <2>3, <2>4 DEF Start
<1>3. CASE StopSessionBus
  <2>1. CASE Delete("session")
    BY <2>1 DEF Delete, DeleteBus
  <2>2. CASE Deleted("session")
    BY <2>2 DEF Deleted, Elsewhere, buses
  <2> QED BY <1>3, <2>1, <2>2 DEF StopSessionBus
<1>4. CASE Running
  <2>1. CASE MainThreadHook
    BY <2>1 DEF MainThreadHook
  <2>2. CASE (\E d \in Devices : VdrSwitches(d)) \/ (\E set \in {0, 1} : SetDBusSessionBusAddress(set))
    BY <2>2 DEF VdrSwitches, SetDBusSessionBusAddress, Elsewhere, buses
  <2>3. CASE (\E b \in Watchable : WatchBusname(b)) \/ (\E w \in Ids : UnwatchBusname(w))
    BY <2>3 DEF WatchBusname, UnwatchBusname
  <2> QED BY <1>4, <2>1, <2>2, <2>3 DEF Running
<1>5. CASE Stop
  <2>1. CASE BeginStop
    BY <2>1 DEF BeginStop
  <2>2. CASE StopNetwork
    <3>1. CASE StopClients \/ IgnoreFile
      BY <3>1 DEF NetworkWrites, StopClients, IgnoreFile, buses
    <3>2. CASE Elsewhere
      BY <3>2 DEF Elsewhere, buses
    <3> QED BY <2>2, <3>1, <3>2 DEF StopNetwork
  <2>3. ASSUME NEW from, NEW b \in Buses, StopBus(from, b)
        PROVE  (NetworkWrites \/ UNCHANGED network) /\ UNCHANGED options
    <3>1. CASE DeleteConnection
      BY <3>1 DEF NetworkWrites, DeleteConnection, DeleteBus
    <3>2. CASE DeleteBus(b) /\ UNCHANGED network
      BY <3>2 DEF DeleteBus
    <3>3. CASE Deleted(b)
      BY <3>3 DEF Deleted, Elsewhere, buses
    <3> QED BY <2>3, <3>1, <3>2, <3>3 DEF StopBus, Delete
  <2>4. CASE FreeThreadPools \/ StopMainLoop
    BY <2>4 DEF FreeThreadPools, StopMainLoop, Elsewhere, buses
  <2> QED BY <1>5, <2>1, <2>2, <2>3, <2>4 DEF Stop, Buses
<1>6. CASE Crash \/ MethodCalled \/ MethodEnds
  BY <1>6 DEF Crash, MethodCalled, MethodEnds, Elsewhere, buses
<1>7. CASE Served
  <2>1. CASE (\E b \in Buses : BusDeleted(b) \/ BusUp(b)) /\ UNCHANGED network
    BY <2>1 DEF BusDeleted, BusUp
  <2>2. CASE (\E b \in Watchable : BusClosed(b)) /\ UNCHANGED network
    BY <2>2 DEF BusClosed
  <2>3. CASE on_file_changed \/ on_name_acquired
    BY <2>3 DEF on_file_changed, on_name_acquired, NetworkWrites, buses
  <2>4. CASE NameLost
    BY <2>4 DEF NameLost, BusClosed, NetworkWrites
  <2> QED BY <1>7, <2>1, <2>2, <2>3, <2>4 DEF Served
<1>8. CASE Monitor
  <2>1. CASE do_connect \/ LoadAddress \/ do_disconnect \/ Dropped
    BY <2>1 DEF do_connect, LoadAddress, do_disconnect, Dropped, buses, NetworkWrites, MonitorWrites
  <2>2. CASE DeleteOld
    BY <2>2 DEF DeleteOld, DeleteConnection, DeleteBus, NetworkWrites
  <2>3. CASE CreateConnection \/ ConnectNew
    BY <2>3 DEF CreateConnection, ConnectNew, NetworkWrites, MonitorWrites
  <2> QED BY <1>8, <2>1, <2>2, <2>3 DEF Monitor, MonitorStep
<1>9. CASE Environment
  <2>1. CASE (\E b \in Buses : BusFails(b) \/ BusLost(b) \/ BusSaved(b)) /\ UNCHANGED network
    BY <2>1 DEF BusFails, BusLost, BusSaved
  <2>2. CASE (\E w \in Ids, what \in {"appeared", "vanished"} : Notify(w, what)) /\ UNCHANGED network
    BY <2>2 DEF Notify
  <2>3. CASE \E to \in Files : \E event \in Reports(to) : ChangeFile(to, event)
    BY <2>3 DEF NetworkWrites, EventWrites, ChangeFile, buses
  <2>4. CASE \E n \in Names : ServiceResolved(n) \/ ServiceRemoved(n)
    <3>1. UNCHANGED buses
      BY <2>4 DEF ServiceResolved, ServiceRemoved
    <3> QED BY <2>4, <3>1 DEF NetworkWrites, EventWrites, buses
  <2>5. CASE \E i \in DOMAIN clients : OnConnect(i) \/ OnTimerChange(i) \/ OnTimerList(i)
    <3>1. UNCHANGED buses
      BY <2>5 DEF OnConnect, OnTimerChange, OnTimerList
    <3> QED BY <2>5, <3>1 DEF NetworkWrites, EventWrites, buses
  <2> QED BY <1>9, <2>1, <2>2, <2>3, <2>4, <2>5 DEF Environment, Files
<1>10. CASE \E l \in Loops : LoopThread(l)
  BY <1>10 DEF LoopThread, buses
<1>11. CASE UNCHANGED vars
  BY <1>11 DEF vars, buses
<1> QED BY <1>1, <1>2, <1>3, <1>4, <1>5, <1>6, <1>7, <1>8, <1>9, <1>10, <1>11 DEF Next, Blocking

\* What a report asks for is a list of tasks.
LEMMA TaskTyped == ASSUME NEW event PROVE TaskOf(event) \in Seq(Tasks)
<1>1. CASE event = "CHANGES_DONE_HINT"
  BY <1>1 DEF TaskOf, Tasks
<1>2. CASE event = "DELETED"
  BY <1>2 DEF TaskOf, Tasks
<1>3. CASE event \notin {"CHANGES_DONE_HINT", "DELETED"}
  BY <1>3 DEF TaskOf
<1> QED BY <1>1, <1>2, <1>3

\* The network's variables have their types at the start.
LEMMA NetInit == Init => NetType
  BY DEF Init, NetworkInit, NetType, Files

\* Every step leaves them their types.
LEMMA NetNext ==
  ASSUME NetType, [Next]_vars
  PROVE  NetType'
<1> USE DEF NetType, Files, fileVars, netVars
<1>1. CASE TestFile \/ MonitorFile \/ StartClients \/ StopClients \/ IgnoreFile \/ DeleteConnection
  <2>1. CASE TestFile
    <3>1. tasks' \in Seq(Tasks)
      BY <2>1 DEF TestFile, Tasks
    <3> QED BY <2>1, <3>1 DEF TestFile, avahiVars, clientVars
  <2>2. CASE MonitorFile \/ IgnoreFile
    BY <2>2 DEF MonitorFile, IgnoreFile, avahiVars, clientVars
  <2>3. CASE StartClients \/ StopClients
    BY <2>3 DEF StartClients, StopClients, avahiVars
  <2>4. CASE DeleteConnection
    BY <2>4 DEF DeleteConnection, clientVars
  <2> QED BY <1>1, <2>1, <2>2, <2>3, <2>4
<1>2. CASE on_file_changed
  <2>1. changes' \in Seq(Changes)
    BY <1>2 DEF on_file_changed
  <2>2. tasks' \in Seq(Tasks)
    BY <1>2, TaskTyped DEF on_file_changed
  <2> QED BY <1>2, <2>1, <2>2 DEF on_file_changed, avahiVars, clientVars
<1>3. CASE on_name_acquired \/ NameLost
  BY <1>3 DEF on_name_acquired, NameLost, clientVars
<1>4. CASE MonitorWrites
  <2>1. LoadFromFile \in Files
    BY DEF LoadFromFile
  <2>2. CASE do_connect \/ do_disconnect
    <3>1. tasks # <<>> /\ tasks' = Tail(tasks) /\ monitor' \in {"idle", "load", "drop"}
      BY <2>2 DEF do_connect, do_disconnect, NextTask
    <3>2. tasks' \in Seq(Tasks)
      BY <3>1
    <3>3. UNCHANGED <<address, fileVars, avahiVars, clientVars>>
      BY <2>2 DEF do_connect, do_disconnect
    <3> QED BY <3>1, <3>2, <3>3 DEF avahiVars, clientVars
  <2>3. CASE LoadAddress
    <3>1. monitor' \in {"idle", "replace"} /\ address' \in Files /\ UNCHANGED <<tasks, fileVars, avahiVars, clientVars>>
      BY <2>1, <2>3 DEF LoadAddress
    <3> QED BY <3>1 DEF avahiVars, clientVars
  <2>4. CASE CreateConnection \/ ConnectNew \/ Dropped
    <3>1. monitor' \in {"idle", "attach"} /\ address' \in {address, <<>>} /\ UNCHANGED <<tasks, fileVars, avahiVars, clientVars>>
      BY <2>4 DEF CreateConnection, ConnectNew, Dropped
    <3> QED BY <3>1 DEF avahiVars, clientVars
  <2> QED BY <1>4, <2>2, <2>3, <2>4 DEF MonitorWrites
<1>5. CASE EventWrites
  <2>1. CASE \E to \in Files : \E event \in Reports(to) : ChangeFile(to, event)
    BY <2>1 DEF ChangeFile, Reports, Changes, avahiVars, clientVars
  <2>2. CASE (\E n \in Names : ServiceResolved(n) \/ ServiceRemoved(n))
               \/ (\E i \in DOMAIN clients : OnConnect(i) \/ OnTimerChange(i) \/ OnTimerList(i))
    <3>1. UNCHANGED <<browser, fileVars, netVars, avahiVars>>
      BY <2>2 DEF ServiceResolved, ServiceRemoved, OnConnect, OnTimerChange, OnTimerList
    <3> QED BY <3>1 DEF avahiVars
  <2> QED BY <1>5, <2>1, <2>2 DEF EventWrites
<1>6. CASE UNCHANGED network
  BY <1>6 DEF network, avahiVars, clientVars
<1> QED BY <1>1, <1>2, <1>3, <1>4, <1>5, <1>6, NetworkFrame DEF NetworkWrites

-----------------------------------------------------------------------------
(***************************************************************************)
(* The published service.                                                  *)
(***************************************************************************)

\* What on_name_acquired and on_name_lost keep true: ServiceWithdrawn, and that
\* a service's number is new - the service of a connection that does not own its
\* name is an orphan.
ServiceInv ==
  /\ created \in Nat /\ services \subseteq 1..created /\ orphans \subseteq services
  /\ avahi_id \in 0..created
  /\ ServiceWithdrawn
  /\ avahi_id # 0 => avahi_id \in services /\ Avahi
  /\ named = 0 /\ avahi_id # 0 => avahi_id \in orphans

\* No service is published at the start.
LEMMA ServiceInit == Init => ServiceInv
  BY DEF Init, NetworkInit, ServiceInv, ServiceWithdrawn

\* Every step keeps the published services right: a connection that gets its
\* name publishes a new one, one that loses it withdraws it, one that is deleted
\* leaves it to the orphans.
LEMMA ServiceNext ==
  ASSUME ServiceInv, NetType, [Next]_vars
  PROVE  ServiceInv'
<1> USE DEF ServiceInv, ServiceWithdrawn, Avahi, NetType
<1>1. CASE DeleteConnection
  BY <1>1, NetworkFrame DEF DeleteConnection
<1>2. CASE on_name_acquired
  <2>1. CASE address # <<>> /\ Avahi
    <3> DEFINE new == created + 1
    <3>1. /\ named' = 1 /\ created' = new /\ avahi_id' = new /\ services' = services \union {new}
          /\ orphans' = orphans /\ options' = options /\ named = 0
      BY <1>2, <2>1, NetworkFrame DEF on_name_acquired
    <3>2. services \ orphans = {} /\ new \in Nat /\ new # 0 /\ new \notin orphans
      BY <3>1
    <3>3. (services \union {new}) \ orphans = {new}
      BY <3>2
    <3>4. services' \subseteq 1..new /\ orphans \subseteq services'
      BY <3>1
    <3> HIDE DEF new
    <3> QED BY <2>1, <3>1, <3>2, <3>3, <3>4
  <2>2. CASE ~(address # <<>> /\ Avahi)
    BY <1>2, <2>2, NetworkFrame DEF on_name_acquired
  <2> QED BY <2>1, <2>2
<1>3. CASE NameLost
  BY <1>3, NetworkFrame DEF NameLost, Withdrawn
<1>4. CASE UNCHANGED avahiVars
  BY <1>4, NetworkFrame DEF avahiVars
<1>5. CASE NetworkWrites
  <2>1. CASE TestFile \/ MonitorFile \/ StartClients \/ StopClients \/ IgnoreFile \/ on_file_changed
    BY <2>1, <1>4 DEF TestFile, MonitorFile, StartClients, StopClients, IgnoreFile, on_file_changed
  <2>2. CASE MonitorWrites
    BY <2>2, <1>4 DEF MonitorWrites, do_connect, LoadAddress, do_disconnect, CreateConnection, ConnectNew, Dropped
  <2>3. CASE EventWrites
    <3>1. UNCHANGED avahiVars
      BY <2>3 DEF EventWrites, ChangeFile, ServiceResolved, ServiceRemoved, OnConnect, OnTimerChange, OnTimerList
    <3> QED BY <3>1, <1>4
  <2> QED BY <1>1, <1>2, <1>3, <1>5, <2>1, <2>2, <2>3 DEF NetworkWrites
<1>6. CASE UNCHANGED network
  BY <1>4, <1>6 DEF network
<1> QED BY <1>5, <1>6, NetworkFrame

\* A service is published exactly while the connection that it announces owns
\* its name, but for those of deleted connections; however often the name is
\* lost and the file changes (on_name_acquired and on_name_lost,
\* network.c:59-100).
THEOREM ServicesWithdrawn == Spec => []ServiceWithdrawn
<1>1. Init => NetType /\ ServiceInv
  BY NetInit, ServiceInit
<1>2. NetType /\ ServiceInv /\ [Next]_vars => (NetType /\ ServiceInv)'
  BY NetNext, ServiceNext
<1>3. ServiceInv => ServiceWithdrawn
  BY DEF ServiceInv
<1> QED BY <1>1, <1>2, <1>3, PTL DEF Spec

-----------------------------------------------------------------------------
(***************************************************************************)
(* The clients.                                                            *)
(***************************************************************************)

\* A client, or the connection that a deleted one left behind, stems from one
\* event of avahi4vdr.
ClientInv ==
  /\ clients \in Seq(Client) /\ strays \in Nat /\ events \in 0..MaxEvents
  /\ strays + Len(clients) <= events

\* There are no clients at the start.
LEMMA ClientInit == Init => ClientInv
  BY NetworkAssumption DEF Init, NetworkInit, ClientInv

\* Every step counts them right: ServiceRemoved and StopClients turn clients
\* into strays, one for one.
LEMMA ClientNext ==
  ASSUME ClientInv, [Next]_vars
  PROVE  ClientInv'
<1> USE NetworkAssumption DEF ClientInv
<1>1. CASE UNCHANGED <<clients, strays, events>>
  BY <1>1
<1>2. CASE StopClients
  <2>1. Strays(clients) = strays + Len(clients)
    BY DEF Strays
  <2>2. clients' = <<>> /\ strays' = Strays(clients) /\ events' = events
    BY <1>2 DEF StopClients
  <2>3. clients' \in Seq(Client) /\ Len(clients') = 0
    BY <2>2
  <2> QED BY <2>1, <2>2, <2>3
<1>3. ASSUME NEW n \in Names, ServiceResolved(n) PROVE ClientInv'
  <2> DEFINE c == [name |-> n, state |-> "new"]
  <2>1. c \in Client
    BY DEF Client
  <2>2. clients' = Append(clients, c) /\ strays' = strays /\ events' = events + 1 /\ events < MaxEvents
    BY <1>3 DEF ServiceResolved
  <2> HIDE DEF c
  <2>3. clients' \in Seq(Client) /\ Len(clients') = Len(clients) + 1
    BY <2>1, <2>2
  <2> QED BY <2>2, <2>3
<1>4. ASSUME NEW n \in Names, ServiceRemoved(n) PROVE ClientInv'
  <2> DEFINE First(j) == clients[j].name = n /\ \A k \in 1..(j - 1) : clients[k].name # n
             i == CHOOSE j \in DOMAIN clients : First(j)
  <2>1. \E j \in DOMAIN clients : First(j)
    <3> DEFINE T == {j \in DOMAIN clients : clients[j].name = n}
    <3>1. T # {} /\ T \subseteq Nat
      BY <1>4 DEF ServiceRemoved
    <3>2. PICK j \in T : \A k \in T : j <= k
      BY <3>1, Least
    <3> QED BY <3>2
  <2>2. i \in DOMAIN clients
    BY <2>1
  <2>3. clients' = RemoveAt(clients, i) /\ strays' = Strays(<<clients[i]>>) /\ events' = events
    BY <1>4 DEF ServiceRemoved
  <2> HIDE DEF i
  <2>4. i \in 1..Len(clients)
    BY <2>2
  <2>5. clients' \in Seq(Client) /\ Len(clients') = Len(clients) - 1
    <3> DEFINE p == SubSeq(clients, 1, i - 1)
               q == SubSeq(clients, i + 1, Len(clients))
    <3>1. p \in Seq(Client) /\ Len(p) = i - 1
      BY <2>4
    <3>2. q \in Seq(Client) /\ Len(q) = Len(clients) - i
      BY <2>4
    <3>3. clients' = p \o q
      BY <2>3 DEF RemoveAt
    <3> HIDE DEF p, q
    <3>4. p \o q \in Seq(Client) /\ Len(p \o q) = Len(p) + Len(q)
      BY <3>1, <3>2, ConcatProperties
    <3>5. Len(clients) \in Nat /\ i \in Nat
      BY <2>4
    <3> QED BY <3>1, <3>2, <3>3, <3>4, <3>5
  <2>6. Strays(<<clients[i]>>) = strays + 1
    BY DEF Strays
  <2> QED BY <2>3, <2>5, <2>6
<1>5. CASE \E i \in DOMAIN clients : OnConnect(i) \/ OnTimerChange(i) \/ OnTimerList(i)
  <2>1. PICK i \in DOMAIN clients : OnConnect(i) \/ OnTimerChange(i) \/ OnTimerList(i)
    BY <1>5
  <2>2. PICK s \in {"subscribed", "listing"} : clients' = [clients EXCEPT ![i].state = s]
    BY <2>1 DEF OnConnect, OnTimerChange, OnTimerList
  <2>3. [clients[i] EXCEPT !.state = s] \in Client
    <3> DEFINE r == clients[i]
    <3>1. r \in Client
      BY DEF ClientInv
    <3> HIDE DEF r
    <3>2. [r EXCEPT !.state = s] \in Client
      BY <3>1 DEF Client
    <3> QED BY <3>2 DEF r
  <2> DEFINE c == [clients[i] EXCEPT !.state = s]
  <2>4. clients' = [clients EXCEPT ![i] = c]
    BY <2>2
  <2> HIDE DEF c
  <2>5. clients' \in Seq(Client) /\ Len(clients') = Len(clients)
    BY <2>3, <2>4 DEF c
  <2>6. UNCHANGED <<strays, events>>
    BY <2>1 DEF OnConnect, OnTimerChange, OnTimerList
  <2> QED BY <2>5, <2>6
<1>6. CASE NetworkWrites
  <2>1. CASE TestFile \/ MonitorFile \/ StartClients \/ IgnoreFile \/ DeleteConnection
             \/ on_file_changed \/ on_name_acquired \/ NameLost
    BY <1>1, <2>1 DEF TestFile, MonitorFile, StartClients, IgnoreFile, DeleteConnection, on_file_changed, on_name_acquired,
                      NameLost, clientVars
  <2>2. CASE MonitorWrites
    BY <1>1, <2>2 DEF MonitorWrites, do_connect, LoadAddress, do_disconnect, CreateConnection, ConnectNew, Dropped, clientVars
  <2>3. CASE \E to \in Files : \E event \in Reports(to) : ChangeFile(to, event)
    BY <1>1, <2>3 DEF ChangeFile, clientVars
  <2> QED BY <1>2, <1>3, <1>4, <1>5, <1>6, <2>1, <2>2, <2>3 DEF NetworkWrites, EventWrites
<1>7. CASE UNCHANGED network
  BY <1>1, <1>7 DEF network, clientVars
<1> QED BY <1>6, <1>7, NetworkFrame

-----------------------------------------------------------------------------
(***************************************************************************)
(* The file and the connection.                                            *)
(***************************************************************************)

\* Where the main thread is, seen from the network: before its start, while it
\* watches the file, after it.
Before == {"initialize", "mainloop", "system", "session", "network"}

Watching == {"clients", "announce", "running", "restart", "unset", "remake", "stopclients", "stopmonitor", "crashed"}

After == {"joinmonitor", "closenetwork", "closesession", "closesystem", "pools", "quitloop", "joinloop", "stopped"}

\* How far the network's thread can be while the main thread is where it is, and
\* what is true of a connection that it replaces. While a connection is closing
\* somebody waits for it.
StageInv ==
  /\ at \in Before \union {"testfile", "watchfile"} \union Watching \union After
  /\ at \in Before \union {"testfile"} => tasks = <<>> /\ monitor = "idle" /\ bus["network"] = "none" /\ address = <<>>
  /\ at \in Before \union {"testfile", "watchfile"} => watched = 0 /\ changes = <<>>
  /\ at \in {"testfile", "watchfile"} => loops["monitor"] # "none"
  /\ watched = 1 => at \in Watching
  /\ monitor \in {"replace", "attach"} => address # <<>>
  /\ monitor = "attach" => used = address[1] /\ bus["network"] = "none"
  /\ bus["network"] \in Ending => monitor \in {"replace", "drop"} \/ at \in After \union {"crashed"}

\* Something is on its way to the monitor thread; the last task that it will
\* get; and the one that the file, as it is, asks for.
Pending == changes # <<>> \/ tasks # <<>>

AskedBy(event) ==
  IF event = "CHANGES_DONE_HINT" THEN "connect" ELSE IF event = "DELETED" THEN "disconnect" ELSE "nothing"

LastTask == IF changes # <<>> THEN AskedBy(changes[Len(changes)]) ELSE tasks[Len(tasks)]

TaskOfFile == IF file = <<>> THEN "disconnect" ELSE "connect"

\* What a report asks for becomes a task, a report that asks for nothing none.
LEMMA TaskAsked ==
  ASSUME NEW event, AskedBy(event) # "nothing"
  PROVE  TaskOf(event) = <<AskedBy(event)>>
  BY DEF AskedBy, TaskOf

\* The test for the file has been made, so that each change since is seen - or
\* is counted in missed.
Tested == at = "watchfile" \/ watched = 1

\* What the monitor thread does fits the file, or has led to it.
Settled ==
  /\ monitor = "load" => file # <<>>
  /\ monitor \in {"replace", "attach"} => address = file
  /\ monitor = "drop" => file = <<>>
  /\ monitor = "idle" =>
     /\ file = <<>> => bus["network"] = "none" /\ address = <<>>
     /\ LoadFromFile # <<>> => bus["network"] # "none" /\ used = file[1] /\ address = file

\* What makes FollowsFile inductive: whatever is on its way, the task that comes
\* last is the one that the file asks for, as long as no change was missed.
FollowInv ==
  /\ StageInv
  /\ Tested /\ missed = 0 => IF Pending THEN LastTask = TaskOfFile ELSE Settled

\* The main thread goes on, and the network does not notice.
SameStage ==
  \/ at' = at
  \/ at \in Before /\ at' \in Before \union Watching
  \/ at \in Watching \ {"crashed"} /\ at' \in Watching
  \/ at \in After /\ at' \in After
  \/ at' = "crashed"

\* The network is not started at the start.
LEMMA FollowInit == Init => FollowInv
  BY DEF Init, NetworkInit, BusesInit, FollowInv, StageInv, Before, Tested, Buses, Watching, After, Ending

\* A step that does not write the file's, the monitor's or the connection's
\* variables keeps FollowInv.
LEMMA StageKept ==
  ASSUME FollowInv, SameStage \/ (at \in Before /\ at' = "testfile" /\ loops'["monitor"] # "none"),
         UNCHANGED <<fileVars, netVars>>, bus'["network"] = bus["network"],
         loops["monitor"] # "none" => loops'["monitor"] # "none"
  PROVE  FollowInv'
<1> USE DEF Before, Watching, After, Tested
<1>1. StageInv'
  <2>1. CASE at' = "crashed"
    BY <2>1 DEF FollowInv, StageInv, fileVars, netVars
  <2>2. CASE at' # "crashed"
    BY <2>2 DEF FollowInv, StageInv, SameStage, fileVars, netVars
  <2> QED BY <2>1, <2>2
<1>2. UNCHANGED <<Pending, LastTask, TaskOfFile, Settled, missed, watched>>
  BY DEF fileVars, netVars, Pending, LastTask, TaskOfFile, Settled, LoadFromFile, AskedBy
<1>3. Tested' => Tested
  BY <1>2 DEF FollowInv, StageInv, SameStage
<1> QED BY <1>1, <1>2, <1>3 DEF FollowInv

\* So does one of the network's connection: it may be anything but gone, or is
\* deleted by a thread that wants it gone, and that may wait for long.
LEMMA FollowsBus ==
  ASSUME FollowInv, at # "crashed", at' = at, loops' = loops, UNCHANGED <<fileVars, netVars>>,
         \/ bus["network"] # "none" /\ bus'["network"] \notin Ending \union {"none"}
         \/ bus["network"] \in Ending /\ bus'["network"] \in Ending \union {"none"}
         \/ bus["network"] # "none" /\ (monitor \in {"replace", "drop"} \/ at \in After)
  PROVE  FollowInv'
<1> USE DEF Before, Watching, After, Tested, Ending
<1>1. StageInv'
  <2>1. at \in After => at \in After \union {"crashed"}
    OBVIOUS
  <2> HIDE DEF After, Before, Watching
  <2> QED BY <2>1 DEF FollowInv, StageInv, fileVars, netVars
<1>2. UNCHANGED <<Pending, LastTask, TaskOfFile, Tested, missed>>
  BY DEF fileVars, netVars, Pending, LastTask, TaskOfFile, AskedBy
<1>3. Tested /\ Settled => Settled'
  BY DEF FollowInv, StageInv, fileVars, netVars, Settled, LoadFromFile
<1> QED BY <1>1, <1>2, <1>3 DEF FollowInv

\* Start: the test for the file makes a task for the file that is there, before
\* the file is watched (cDBusNetwork::Start).
LEMMA FollowsStart ==
  ASSUME FollowInv, ConnType, NetType, Start \/ StartSessionBus("remake", "running")
  PROVE  FollowInv'
<1> USE DEF Before, Watching, After, SameStage, ConnType, Buses, Loops, Step
<1>1. CASE StartMainLoop
  BY <1>1, StageKept DEF StartMainLoop, StartLoop, network, buses, connections
<1>2. CASE StartSystemBus
  BY <1>2, StageKept DEF StartSystemBus, CreateBus, network, buses, connections
<1>3. CASE StartSessionBus("session", "network") \/ StartSessionBus("remake", "running")
  <2>1. ASSUME NEW from, NEW to, StartSessionBus(from, to)
        PROVE  bus'["network"] = bus["network"] /\ UNCHANGED <<fileVars, netVars, loops>> /\ at = from /\ at' = to
    BY <2>1 DEF StartSessionBus, CreateBus, network, buses, connections
  <2>2. CASE StartSessionBus("session", "network")
    BY <2>1, <2>2, StageKept
  <2>3. CASE StartSessionBus("remake", "running")
    BY <2>1, <2>3, StageKept
  <2> QED BY <1>3, <2>2, <2>3
<1>4. CASE StartNetwork
  BY <1>4, StageKept DEF StartNetwork, StartLoop, network, buses, connections
<1>5. CASE Announce
  BY <1>5, StageKept DEF Announce, network, connections
<1>6. CASE StartMonitor
  <2>1. UNCHANGED <<bus, loops>>
    BY <1>6 DEF StartMonitor, TestFile, MonitorFile, StartClients, buses, connections
  <2>2. CASE at = "testfile" /\ at' = "watchfile" /\ TestFile
    <3>1. /\ tasks' = (IF file # <<>> THEN Append(tasks, "connect") ELSE tasks)
          /\ UNCHANGED <<fileVars, monitor, address, used>>
      BY <2>2 DEF TestFile
    <3>2. tasks = <<>> /\ monitor = "idle" /\ bus["network"] = "none" /\ address = <<>> /\ watched = 0 /\ changes = <<>> /\ loops["monitor"] # "none"
      BY <2>2 DEF FollowInv, StageInv
    <3>3. StageInv'
      BY <2>1, <2>2, <3>1, <3>2 DEF StageInv, fileVars, Ending
    <3>4. CASE file = <<>>
      <4>1. ~Pending' /\ Settled'
        BY <2>1, <3>1, <3>2, <3>4 DEF fileVars, Pending, Settled, LoadFromFile
      <4> QED BY <3>3, <4>1 DEF FollowInv
    <3>5. CASE file # <<>>
      <4>1. tasks' = <<"connect">>
        BY <3>1, <3>2, <3>5
      <4>2. LastTask' = TaskOfFile'
        BY <3>1, <3>2, <3>5, <4>1 DEF fileVars, LastTask, TaskOfFile
      <4>3. Pending'
        BY <4>1 DEF Pending
      <4> QED BY <3>3, <4>2, <4>3 DEF FollowInv
    <3> QED BY <3>4, <3>5
  <2>3. CASE at = "watchfile" /\ at' = "clients" /\ MonitorFile
    <3>1. watched' = 1 /\ UNCHANGED <<file, missed, changes, modified, netVars>>
      BY <2>3 DEF MonitorFile
    <3>2. StageInv'
      BY <2>1, <2>3, <3>1 DEF FollowInv, StageInv, netVars
    <3>3. UNCHANGED <<Pending, LastTask, TaskOfFile, Settled, missed>>
      BY <2>1, <3>1 DEF netVars, Pending, LastTask, TaskOfFile, Settled, LoadFromFile, AskedBy
    <3> QED BY <2>3, <3>2, <3>3 DEF FollowInv, Tested
  <2>4. CASE at = "clients" /\ at' = "announce" /\ StartClients
    BY <2>1, <2>4, StageKept DEF StartClients
  <2> QED BY <1>6, <2>2, <2>3, <2>4 DEF StartMonitor
<1> QED BY <1>1, <1>2, <1>3, <1>4, <1>5, <1>6 DEF Start

\* The connection is deleted by the monitor thread that replaces or drops it, or
\* by Stop.
LEMMA FollowsDeletion ==
  ASSUME FollowInv, ConnType, at # "crashed", DeleteConnection, at' = at, monitor \in {"replace", "drop"} \/ at \in After
  PROVE  FollowInv'
<1>1. /\ bus["network"] # "none" /\ UNCHANGED <<fileVars, netVars, loops>>
  BY DEF DeleteConnection, DeleteBus
<1> QED BY <1>1, FollowsBus

\* Stop: the file is not watched any more (cDBusNetwork::Stop).
LEMMA FollowsStop ==
  ASSUME FollowInv, ConnType, NetType, Stop \/ StopSessionBus
  PROVE  FollowInv'
<1> USE DEF Before, Watching, After, SameStage, ConnType, Buses, Loops, StopOrder
<1>1. CASE BeginStop
  BY <1>1, StageKept DEF BeginStop, Step, network, connections
<1>2. CASE StopNetwork
  <2>1. CASE StopStep("stopclients") /\ StopClients
    BY <2>1, StageKept DEF StopStep, StopClients, buses, connections
  <2>2. CASE StopStep("stopmonitor") /\ IgnoreFile
    <3>1. at' \in After /\ watched' = 0 /\ UNCHANGED <<netVars, bus>>
      BY <2>2 DEF StopStep, IgnoreFile, buses, connections
    <3> QED BY <3>1, <2>2 DEF StopStep, FollowInv, StageInv, Tested, netVars
  <2>3. CASE StopStep("joinmonitor") /\ Elsewhere
    BY <2>3, StageKept DEF StopStep, Elsewhere, network, buses, connections
  <2> QED BY <1>2, <2>1, <2>2, <2>3 DEF StopNetwork
<1>3. ASSUME NEW from \in {"closenetwork", "closesession", "closesystem"}, NEW b \in Buses, StopBus(from, b),
             b = "network" => from = "closenetwork"
      PROVE  FollowInv'
  <2>1. CASE at = from /\ Delete(b)
    <3>1. CASE b = "network"
      BY <2>1, <3>1, FollowsDeletion DEF Delete
    <3>2. CASE b # "network"
      BY <2>1, <3>2, StageKept DEF Delete, DeleteBus, network
    <3> QED BY <3>1, <3>2
  <2>2. CASE StopStep(from) /\ Deleted(b)
    BY <2>2, StageKept DEF StopStep, Deleted, Elsewhere, network, buses, connections
  <2> QED BY <1>3, <2>1, <2>2 DEF StopBus
<1>4. CASE FreeThreadPools
  BY <1>4, StageKept DEF FreeThreadPools, StopStep, Elsewhere, network, buses, connections
<1>5. CASE StopMainLoop
  BY <1>5, StageKept DEF StopMainLoop, StopStep, QuitLoop, network, buses, connections
<1>6. CASE StopSessionBus
  <2>1. CASE Delete("session")
    BY <2>1, StageKept DEF Delete, DeleteBus, network
  <2>2. CASE at' = (IF at = "restart" THEN "remake" ELSE "running") /\ Deleted("session")
    BY <1>6, <2>2, StageKept DEF StopSessionBus, Deleted, Elsewhere, network, buses, connections
  <2> QED BY <1>6, <2>1, <2>2 DEF StopSessionBus
<1> QED BY <1>1, <1>2, <1>3, <1>4, <1>5, <1>6 DEF Stop

\* The last of a sequence's elements stays the last when the first is taken.
LEMMA TailFacts ==
  ASSUME NEW S, NEW s \in Seq(S), s # <<>>
  PROVE  /\ Len(s) = 1 \/ Len(s) > 1
         /\ Len(s) = 1 <=> Tail(s) = <<>>
         /\ Len(s) = 1 => Head(s) = s[Len(s)]
         /\ Len(s) > 1 => Tail(s)[Len(Tail(s))] = s[Len(s)]
<1>1. Len(s) \in Nat /\ Len(s) # 0
  BY EmptySeq
<1>2. Tail(s) \in Seq(S) /\ Len(Tail(s)) = Len(s) - 1 /\ \A i \in 1..(Len(s) - 1) : Tail(s)[i] = s[i + 1]
  BY <1>1, HeadTailProperties
<1>3. Len(s) = 1 => Tail(s) = <<>>
  <2>1. Len(s) = 1 => Len(Tail(s)) = 0
    BY <1>2
  <2>2. Tail(s) # <<>> => Len(Tail(s)) \in Nat \ {0}
    BY <1>2, EmptySeq
  <2> QED BY <2>1, <2>2
<1>4. Len(s) > 1 => Tail(s) # <<>>
  <2>1. Len(s) > 1 => Len(Tail(s)) # 0
    BY <1>1, <1>2
  <2>2. Len(<<>>) = 0
    BY EmptySeq
  <2> QED BY <2>1, <2>2
<1>5. Len(s) > 1 => Tail(s)[Len(s) - 1] = s[Len(s)]
  <2> HAVE Len(s) > 1
  <2>1. Len(s) - 1 \in 1..(Len(s) - 1) /\ (Len(s) - 1) + 1 = Len(s)
    BY <1>1
  <2> QED BY <1>2, <2>1
<1>6. Len(s) = 1 => Head(s) = s[Len(s)]
  OBVIOUS
<1> QED BY <1>1, <1>2, <1>3, <1>4, <1>5, <1>6

\* GIO's report becomes a task: what is last stays last
\* (cDBusNetwork::on_file_changed).
LEMMA FollowsReport ==
  ASSUME FollowInv, NetType, at' = at, on_file_changed
  PROVE  FollowInv'
<1> USE DEF Before, Watching, After
<1>1. /\ changes # <<>> /\ changes' = Tail(changes)
      /\ tasks' = IF watched = 1 THEN tasks \o TaskOf(Head(changes)) ELSE tasks
      /\ UNCHANGED <<file, watched, missed, monitor, address, used, bus, loops>>
  BY DEF on_file_changed, buses, connections
<1>2. StageInv'
  BY <1>1 DEF FollowInv, StageInv
<1>3. CASE watched # 1
  <2>1. ~Tested'
    BY <1>1, <1>3 DEF FollowInv, StageInv, Tested
  <2> QED BY <1>2, <2>1 DEF FollowInv
<1>4. CASE watched = 1
  <2>1. Tested /\ Pending
    BY <1>1, <1>4 DEF Tested, Pending
  <2>2. changes \in Seq(Changes) /\ tasks \in Seq(Tasks) /\ changes # <<>>
    BY <1>1 DEF NetType
  <2>3. CASE changes' = <<>> /\ missed = 0
    <3>1. Head(changes) = changes[Len(changes)]
      BY <1>1, <2>2, <2>3, TailFacts
    <3>2. AskedBy(Head(changes)) = TaskOfFile
      BY <2>1, <2>2, <2>3, <3>1 DEF FollowInv, LastTask
    <3>3. TaskOfFile \in Tasks /\ TaskOfFile # "nothing" /\ TaskOfFile' = TaskOfFile
      BY <1>1 DEF TaskOfFile, Tasks
    <3>4. TaskOf(Head(changes)) = <<TaskOfFile>>
      BY <3>2, <3>3, TaskAsked
    <3>5. tasks' = tasks \o <<TaskOfFile>>
      BY <1>1, <1>4, <3>4
    <3>6. tasks' # <<>> /\ tasks'[Len(tasks')] = TaskOfFile
      BY <2>2, <3>3, <3>5
    <3>7. LastTask' = TaskOfFile' /\ Pending'
      BY <2>3, <3>3, <3>6 DEF LastTask, Pending
    <3> QED BY <1>2, <3>7 DEF FollowInv
  <2>4. CASE missed # 0
    BY <1>1, <1>2, <2>4 DEF FollowInv
  <2>5. CASE changes' # <<>>
    <3>1. Len(changes') = Len(changes) - 1 /\ changes'[Len(changes')] = changes[Len(changes)]
      BY <1>1, <2>2, <2>5
    <3>2. LastTask' = LastTask
      BY <2>2, <2>5, <3>1 DEF LastTask, AskedBy
    <3> QED BY <1>1, <1>2, <2>1, <2>5, <3>2 DEF FollowInv, TaskOfFile, Pending
  <2> QED BY <2>3, <2>4, <2>5
<1> QED BY <1>3, <1>4

\* A change of the file is reported last, and asks for what the file then says;
\* one that is not watched, or that is reported as a move, is missed.
LEMMA FollowsChange ==
  ASSUME FollowInv, NetType, at' = at, NEW to \in Files, NEW event \in Reports(to), ChangeFile(to, event)
  PROVE  FollowInv'
<1> USE DEF Before, Watching, After
<1>1. file' = to /\ UNCHANGED <<watched, netVars, bus, loops>>
  BY DEF ChangeFile, buses, connections
<1>2. CASE watched = 1
  <2>1. changes' = Append(changes, event) /\ changes \in Seq(Changes) /\ event \in Changes
    BY <1>2 DEF ChangeFile, NetType, Changes, Reports
  <2>2. changes' # <<>> /\ changes'[Len(changes')] = event
    BY <2>1
  <2>3. Pending' /\ LastTask' = AskedBy(event)
    BY <2>2 DEF LastTask, Pending
  <2>6. event # "MOVED" => AskedBy(event) = TaskOfFile'
    <3>1. CASE to = <<>>
      BY <1>1, <3>1 DEF TaskOfFile, AskedBy, Reports
    <3>2. CASE to # <<>>
      BY <1>1, <3>2 DEF TaskOfFile, AskedBy, Reports
    <3> QED BY <3>1, <3>2
  <2>4. StageInv'
    BY <1>1, <1>2 DEF FollowInv, StageInv, netVars
  <2>5. event = "MOVED" => missed' = 1
    BY <1>2 DEF ChangeFile
  <2> QED BY <2>3, <2>4, <2>5, <2>6 DEF FollowInv
<1>3. CASE watched # 1
  <2>1. changes' = changes
    BY <1>3 DEF ChangeFile
  <2>2. StageInv'
    BY <1>1, <2>1 DEF FollowInv, StageInv, netVars
  <2>3. ~(Tested' /\ missed' = 0)
    BY <1>1, <1>3 DEF ChangeFile, Tested, FollowInv, StageInv
  <2> QED BY <2>2, <2>3 DEF FollowInv
<1> QED BY <1>2, <1>3

\* A task that is taken: when it is the last one it is what the file asks for.
LEMMA TaskTaken ==
  ASSUME FollowInv, NetType, at' = at, NEW task \in Tasks, NextTask(task),
         UNCHANGED <<fileVars, address, used, bus, loops>>,
         monitor' \in {"idle", "load", "drop"},
         task = "connect" => monitor' = (IF file = <<>> THEN "idle" ELSE "load"),
         task = "disconnect" => monitor' = "drop"
  PROVE  FollowInv'
<1> USE DEF Before, Watching, After
<1>1. tasks \in Seq(Tasks) /\ tasks # <<>> /\ tasks' = Tail(tasks) /\ Head(tasks) = task /\ monitor = "idle"
  BY DEF NextTask, NetType
<1>2. StageInv'
  BY <1>1 DEF FollowInv, StageInv, fileVars
<1>3. UNCHANGED <<Tested, missed, TaskOfFile, changes, file>>
  BY DEF Tested, TaskOfFile, fileVars
<1>4. Pending
  BY <1>1 DEF Pending
<1>5. CASE changes # <<>>
  BY <1>2, <1>3, <1>4, <1>5 DEF FollowInv, Pending, LastTask, AskedBy
<1>6. CASE changes = <<>> /\ Len(tasks) > 1
  <2>1. tasks' # <<>> /\ tasks'[Len(tasks')] = tasks[Len(tasks)]
    BY <1>1, <1>6, TailFacts
  <2>2. LastTask' = LastTask /\ Pending'
    BY <1>3, <1>6, <2>1 DEF LastTask, Pending
  <2> QED BY <1>2, <1>3, <1>4, <2>2 DEF FollowInv
<1>7. CASE changes = <<>> /\ Len(tasks) = 1
  <2>1. tasks' = <<>> /\ LastTask = task
    BY <1>1, <1>7 DEF LastTask
  <2>2. Tested /\ missed = 0 => Settled'
    BY <1>3, <1>4, <2>1 DEF FollowInv, TaskOfFile, Settled, Tasks
  <2>3. ~Pending'
    BY <1>3, <1>7, <2>1 DEF Pending
  <2> QED BY <1>2, <1>3, <2>2, <2>3 DEF FollowInv
<1> QED BY <1>1, <1>5, <1>6, <1>7, TailFacts

\* The monitor thread: loads the address from the file as it then is, which may
\* be later than the task, replaces the connection or drops it (do_connect,
\* do_disconnect).
LEMMA FollowsMonitor ==
  ASSUME FollowInv, at # "crashed", ConnType, NetType, Monitor
  PROVE  FollowInv'
<1> USE DEF Before, Watching, After
<1>0. at' = at
  BY DEF Monitor, main
<1>1. CASE do_connect
  <2>1. UNCHANGED <<fileVars, address, used, bus, loops>>
    BY <1>1 DEF do_connect, buses, connections
  <2> QED BY <1>0, <1>1, <2>1, TaskTaken DEF do_connect, Tasks
<1>2. CASE do_disconnect
  <2>1. UNCHANGED <<fileVars, address, used, bus, loops>>
    BY <1>2 DEF do_disconnect, buses, connections
  <2> QED BY <1>0, <1>2, <2>1, TaskTaken DEF do_disconnect, Tasks
<1>3. CASE DeleteOld
  BY <1>0, <1>3, FollowsDeletion DEF DeleteOld
<1>4. CASE LoadAddress
  <2>1. UNCHANGED <<tasks, used, fileVars, bus, loops>>
    BY <1>4 DEF LoadAddress, buses, connections
  <2>2. StageInv'
    BY <1>0, <1>4, <2>1 DEF LoadAddress, FollowInv, StageInv, fileVars
  <2>3. UNCHANGED <<Pending, LastTask, TaskOfFile, Tested, missed>>
    BY <1>0, <2>1 DEF Pending, LastTask, TaskOfFile, Tested, fileVars, AskedBy
  <2>4. Settled => Settled'
    BY <1>4, <2>1 DEF LoadAddress, Settled, LoadFromFile, fileVars
  <2> QED BY <2>2, <2>3, <2>4 DEF FollowInv
<1>5. CASE CreateConnection \/ ConnectNew \/ Dropped
  <2>1. UNCHANGED <<tasks, fileVars, loops>>
    BY <1>5 DEF CreateConnection, ConnectNew, Dropped
  <2>2. UNCHANGED <<Pending, LastTask, TaskOfFile, Tested, missed>>
    BY <1>0, <2>1 DEF Pending, LastTask, TaskOfFile, Tested, fileVars, AskedBy
  <2>3. CASE CreateConnection
    <3>1. /\ monitor = "replace" /\ monitor' = "attach" /\ used' = address[1] /\ address' = address
          /\ bus["network"] = "none" /\ bus' = bus
      BY <2>3 DEF CreateConnection, connections
    <3>2. StageInv'
      BY <1>0, <2>1, <3>1 DEF FollowInv, StageInv, fileVars, Ending
    <3>3. Settled => Settled'
      BY <2>1, <3>1 DEF Settled, fileVars
    <3> QED BY <2>2, <3>2, <3>3 DEF FollowInv
  <2>4. CASE ConnectNew
    <3>1. /\ monitor = "attach" /\ monitor' = "idle" /\ UNCHANGED <<address, used>>
          /\ bus'["network"] = "new"
      BY <2>4 DEF ConnectNew, ConnType, Buses
    <3>2. StageInv'
      BY <1>0, <2>1, <3>1 DEF FollowInv, StageInv, fileVars, Ending
    <3>3. Settled /\ StageInv => Settled'
      BY <2>1, <3>1 DEF Settled, StageInv, LoadFromFile, fileVars
    <3> QED BY <2>2, <3>2, <3>3 DEF FollowInv
  <2>5. CASE Dropped
    <3>1. /\ monitor = "drop" /\ monitor' = "idle" /\ address' = <<>> /\ used' = used
          /\ bus["network"] = "none" /\ bus' = bus
      BY <2>5 DEF Dropped, buses, connections
    <3>2. StageInv'
      BY <1>0, <2>1, <3>1 DEF FollowInv, StageInv, fileVars, Ending
    <3>3. Settled => Settled'
      BY <2>1, <3>1 DEF Settled, LoadFromFile, fileVars
    <3> QED BY <2>2, <3>2, <3>3 DEF FollowInv
  <2> QED BY <1>5, <2>3, <2>4, <2>5
<1> QED BY <1>1, <1>2, <1>3, <1>4, <1>5 DEF Monitor, MonitorStep

\* What the default context serves, and what comes from outside.
LEMMA FollowsEvents ==
  ASSUME FollowInv, at # "crashed", ConnType, NetType, Served \/ Environment
  PROVE  FollowInv'
<1>0. at' = at
  BY DEF Served, Environment, main
<1>1. CASE (\E b \in Buses : BusDeleted(b) \/ BusUp(b)) /\ UNCHANGED network
  <2>1. PICK b \in Buses : BusDeleted(b) \/ BusUp(b)
    BY <1>1
  <2>2. UNCHANGED <<loops, fileVars, netVars>>
    BY <1>1, <2>1 DEF BusDeleted, BusUp, network
  <2>3. CASE b # "network"
    <3>1. bus'["network"] = bus["network"]
      BY <2>1, <2>3 DEF BusDeleted, BusUp, ConnType, Buses
    <3> QED BY <1>0, <2>2, <3>1, StageKept DEF SameStage
  <2>4. CASE b = "network"
    BY <1>0, <2>1, <2>2, <2>4, FollowsBus DEF Ending, BusDeleted, BusUp, ConnType, Buses
  <2> QED BY <2>3, <2>4
<1>2. CASE (\E b \in Watchable : BusClosed(b)) /\ UNCHANGED network
  <2>1. bus'["network"] = bus["network"] /\ UNCHANGED <<loops, fileVars, netVars>>
    BY <1>2 DEF BusClosed, network, Watchable, ConnType, Buses
  <2> QED BY <1>0, <2>1, StageKept DEF SameStage
<1>3. CASE on_file_changed
  BY <1>0, <1>3, FollowsReport
<1>4. CASE on_name_acquired
  BY <1>0, <1>4, StageKept DEF SameStage, on_name_acquired, buses, connections
<1>5. CASE NameLost
  <2>1. UNCHANGED <<loops, fileVars, netVars>>
    BY <1>5 DEF NameLost, BusClosed
  <2>2. CASE bus["network"] = "losing"
    <3>1. bus'["network"] \in {"lost", "failed"}
      BY <1>5, <2>2 DEF NameLost, BusClosed, ConnType, Buses
    <3> QED BY <1>0, <2>1, <2>2, <3>1, FollowsBus DEF Ending
  <2>3. CASE bus["network"] = "sinking"
    <3>1. bus'["network"] = "doomed"
      BY <1>5, <2>3 DEF NameLost, BusClosed, ConnType, Buses
    <3> QED BY <1>0, <2>1, <2>3, <3>1, FollowsBus DEF Ending
  <2> QED BY <1>5, <2>2, <2>3 DEF NameLost, BusClosed
<1>6. CASE (\E b \in Buses : BusFails(b) \/ BusLost(b) \/ BusSaved(b)) /\ UNCHANGED network
  <2>1. PICK b \in Buses : BusFails(b) \/ BusLost(b) \/ BusSaved(b)
    BY <1>6
  <2>2. UNCHANGED <<loops, fileVars, netVars>>
    BY <1>6, <2>1 DEF BusFails, BusLost, BusSaved, network
  <2>3. CASE b # "network"
    <3>1. bus'["network"] = bus["network"]
      BY <2>1, <2>3 DEF BusFails, BusLost, BusSaved, ConnType, Buses
    <3> QED BY <1>0, <2>2, <3>1, StageKept DEF SameStage
  <2>4. CASE b = "network"
    BY <1>0, <2>1, <2>2, <2>4, FollowsBus DEF Ending, BusFails, BusLost, BusSaved, ConnType, Buses
  <2> QED BY <2>3, <2>4
<1>7. CASE (\E w \in Ids, what \in {"appeared", "vanished"} : Notify(w, what)) /\ UNCHANGED network
  BY <1>0, <1>7, StageKept DEF SameStage, Notify, connections, network
<1>8. CASE \E to \in Files : \E event \in Reports(to) : ChangeFile(to, event)
  BY <1>0, <1>8, FollowsChange
<1>9. CASE (\E n \in Names : ServiceResolved(n) \/ ServiceRemoved(n))
             \/ (\E i \in DOMAIN clients : OnConnect(i) \/ OnTimerChange(i) \/ OnTimerList(i))
  <2>1. UNCHANGED <<buses, loops, fileVars, netVars>>
    BY <1>9 DEF ServiceResolved, ServiceRemoved, OnConnect, OnTimerChange, OnTimerList
  <2> QED BY <1>0, <2>1, StageKept DEF SameStage, buses, connections
<1> QED BY <1>1, <1>2, <1>3, <1>4, <1>5, <1>6, <1>7, <1>8, <1>9 DEF Served, Environment, Files

\* Every step of every thread keeps FollowInv.
LEMMA FollowNext ==
  ASSUME FollowInv, ConnType, NetType, [Next]_vars
  PROVE  FollowInv'
<1> USE DEF SameStage, Before, Watching, After, Step
<1>1. CASE Initialize
  BY <1>1, StageKept DEF Initialize, Elsewhere, network, buses, connections
<1>2. CASE AddOrWatch
  BY <1>2, StageKept DEF AddOrWatch, network, connections
<1>3. CASE Running
  <2>1. CASE MainThreadHook
    BY <2>1, StageKept DEF MainThreadHook, network, connections
  <2>2. CASE (\E d \in Devices : VdrSwitches(d)) \/ (\E set \in {0, 1} : SetDBusSessionBusAddress(set))
    BY <2>2, StageKept DEF VdrSwitches, SetDBusSessionBusAddress, Elsewhere, main, network, buses, connections
  <2>3. CASE (\E b \in Watchable : WatchBusname(b)) \/ (\E w \in Ids : UnwatchBusname(w))
    BY <2>3, StageKept DEF WatchBusname, UnwatchBusname, network, connections
  <2> QED BY <1>3, <2>1, <2>2, <2>3 DEF Running
<1>4. CASE Crash \/ MethodCalled \/ MethodEnds
  BY <1>4, StageKept DEF Crash, MethodCalled, MethodEnds, Elsewhere, main, network, buses, connections
<1>5. CASE \E l \in Loops : LoopThread(l)
  BY <1>5, StageKept DEF LoopThread, MakeLoop, RunLoop, EndLoop, main, network, buses, connections, ConnType, Loops
<1>6. CASE UNCHANGED vars
  BY <1>6, StageKept DEF vars, main, network, buses, connections
<1> QED BY <1>1, <1>2, <1>3, <1>4, <1>5, <1>6, FollowsStart, FollowsStop, FollowsMonitor, FollowsEvents DEF Next, Blocking

\* However often the file changes, and whatever happens meanwhile to the
\* connection that is made or deleted: once no report and no task is on its way,
\* the connection is the one that the file asks for, if its last change neither came
\* between the test and the watching (cDBusNetwork, network.c:207-217) nor was a
\* rename, which is ignored (network.c:129).
THEOREM FileFollowed == Spec => []FollowsFile
<1>1. Init => ConnType /\ NetType /\ FollowInv
  BY ConnInit, NetInit, FollowInit
<1>2. ConnType /\ NetType /\ FollowInv /\ [Next]_vars => (ConnType /\ NetType /\ FollowInv)'
  BY ConnNext, NetNext, FollowNext
<1>3. FollowInv => FollowsFile
  BY DEF FollowInv, FollowsFile, Pending, Settled, Tested
<1> QED BY <1>1, <1>2, <1>3, PTL DEF Spec

-----------------------------------------------------------------------------
(***************************************************************************)
(* The life of each connection.                                            *)
(***************************************************************************)

\* A connection is made when there is none.
Made(b) == bus[b] = "none" /\ bus' = [bus EXCEPT ![b] = "new"]

\* The steps of one connection: those of its owner, and of GLib.
BusStep(b) ==
  \/ Made(b) \/ DeleteBus(b) \/ BusDeleted(b)
  \/ BusUp(b) \/ BusFails(b) \/ BusLost(b) \/ BusClosed(b) \/ BusSaved(b)

\* Whatever else happens leaves the connections alone, and none is made over
\* one that is there: StartSystemBus comes once, and the monitor thread has seen
\* the old connection deleted.
LEMMA BusFrame ==
  ASSUME ConnType, SystemLater, FollowInv, [Next]_vars
  PROVE  (\E b \in Buses : BusStep(b)) \/ UNCHANGED bus
<1>1. {"system", "session", "network"} \subseteq Buses
  BY DEF Buses
<1>2. CASE Initialize \/ AddOrWatch
  BY <1>2 DEF Initialize, AddOrWatch, Elsewhere, buses, connections
<1>3. CASE \E from, to : StartSessionBus(from, to)
  BY <1>1, <1>3 DEF StartSessionBus, CreateBus, BusStep, Made, buses, connections
<1>4. CASE Start
  <2>1. CASE StartSystemBus
    BY <1>1, <2>1 DEF StartSystemBus, SystemLater, Step, CreateBus, BusStep, Made, buses, connections
  <2>2. CASE StartMainLoop \/ StartNetwork \/ Announce
    BY <2>2 DEF StartMainLoop, StartNetwork, Announce, buses, connections
  <2>3. CASE StartMonitor
    BY <2>3 DEF StartMonitor, TestFile, MonitorFile, StartClients, buses, connections
  <2> QED BY <1>3, <1>4, <2>1, <2>2, <2>3 DEF Start
<1>5. ASSUME NEW b \in Buses, Delete(b) \/ Deleted(b)
      PROVE  BusStep(b) \/ UNCHANGED bus
  BY <1>5 DEF Delete, Deleted, DeleteConnection, BusStep, Elsewhere, buses, connections
<1>6. CASE StopSessionBus
  BY <1>1, <1>5, <1>6 DEF StopSessionBus
<1>7. CASE Running
  <2>1. CASE MainThreadHook
    BY <2>1 DEF MainThreadHook, connections
  <2>2. CASE (\E d \in Devices : VdrSwitches(d)) \/ (\E set \in {0, 1} : SetDBusSessionBusAddress(set))
    BY <2>2 DEF VdrSwitches, SetDBusSessionBusAddress, Elsewhere, buses, connections
  <2>3. CASE (\E b \in Watchable : WatchBusname(b)) \/ (\E w \in Ids : UnwatchBusname(w))
    BY <2>3 DEF WatchBusname, UnwatchBusname, connections
  <2> QED BY <1>7, <2>1, <2>2, <2>3 DEF Running
<1>8. CASE Stop
  <2>1. CASE BeginStop \/ FreeThreadPools \/ StopMainLoop
    BY <2>1 DEF BeginStop, FreeThreadPools, StopMainLoop, Elsewhere, buses, connections
  <2>2. CASE StopNetwork
    BY <2>2 DEF StopNetwork, StopClients, IgnoreFile, Elsewhere, buses, connections
  <2>3. ASSUME NEW from, NEW b \in Buses, StopBus(from, b) PROVE BusStep(b) \/ UNCHANGED bus
    BY <1>5, <2>3 DEF StopBus
  <2> QED BY <1>1, <1>8, <2>1, <2>2, <2>3 DEF Stop
<1>9. CASE Crash \/ MethodCalled \/ MethodEnds
  BY <1>9 DEF Crash, MethodCalled, MethodEnds, Elsewhere, buses, connections
<1>10. CASE Served
  <2>1. CASE (\E b \in Buses : BusDeleted(b) \/ BusUp(b)) \/ (\E b \in Watchable : BusClosed(b)) \/ NameLost
    BY <1>1, <2>1 DEF BusStep, NameLost, Watchable
  <2>2. CASE on_file_changed \/ on_name_acquired
    BY <2>2 DEF on_file_changed, on_name_acquired, buses, connections
  <2> QED BY <1>10, <2>1, <2>2 DEF Served
<1>11. CASE Monitor
  <2>1. CASE do_connect \/ LoadAddress \/ do_disconnect \/ Dropped \/ CreateConnection
    BY <2>1 DEF do_connect, LoadAddress, do_disconnect, Dropped, CreateConnection, buses, connections
  <2>2. CASE DeleteOld
    BY <1>1, <2>2 DEF DeleteOld, DeleteConnection, BusStep
  <2>3. CASE ConnectNew
    BY <1>1, <2>3 DEF ConnectNew, FollowInv, StageInv, BusStep, Made
  <2> QED BY <1>11, <2>1, <2>2, <2>3 DEF Monitor, MonitorStep
<1>12. CASE Environment
  <2>1. CASE \E b \in Buses : BusFails(b) \/ BusLost(b) \/ BusSaved(b)
    BY <2>1 DEF BusStep
  <2>2. CASE (\E w \in Ids, what \in {"appeared", "vanished"} : Notify(w, what))
               \/ (\E to \in {<<>>} \union {<<a>> : a \in Addresses} : \E event \in Reports(to) : ChangeFile(to, event))
    BY <2>2 DEF Notify, ChangeFile, buses, connections
  <2>3. CASE (\E n \in Names : ServiceResolved(n) \/ ServiceRemoved(n))
               \/ (\E i \in DOMAIN clients : OnConnect(i) \/ OnTimerChange(i) \/ OnTimerList(i))
    BY <2>3 DEF ServiceResolved, ServiceRemoved, OnConnect, OnTimerChange, OnTimerList, buses, connections
  <2> QED BY <1>12, <2>1, <2>2, <2>3 DEF Environment
<1>13. CASE (\E l \in Loops : LoopThread(l)) \/ UNCHANGED vars
  BY <1>13 DEF LoopThread, vars, buses, connections
<1> QED BY <1>2, <1>3, <1>4, <1>6, <1>7, <1>8, <1>9, <1>10, <1>11, <1>12, <1>13 DEF Next, Blocking

\* What a connection may do, from the one state to the other (BusLife).
LifeTurn(from, to, again) ==
  \/ from = "none" /\ to = "new"
  \/ (from = "new" \/ (again /\ from \in {"failed", "lost"})) /\ to \in {"up", "failed"}
  \/ from = "up" /\ to \in {"losing", "lost", "failed", "closing"}
  \/ from = "losing" /\ to \in {"lost", "failed", "sinking"}
  \/ from \in {"new", "failed", "lost"} /\ to = "doomed"
  \/ from \in {"new", "lost"} /\ to = "none"
  \/ from = "closing" /\ to \in {"sinking", "doomed", "none"}
  \/ from = "sinking" /\ to \in {"doomed", "closing"}
  \/ from = "doomed" /\ to = "closing"

\* The steps of a connection are those of its life, and of no other's.
LEMMA BusTurn ==
  ASSUME ConnType, NEW b \in Buses, NEW c \in Buses, BusStep(b)
  PROVE  bus'[c] = bus[c] \/ LifeTurn(bus[c], bus'[c], Reconnects(c))
<1> USE DEF ConnType
<1>1. PICK s : bus' = [bus EXCEPT ![b] = s]
  BY DEF BusStep, Made, DeleteBus, BusDeleted, BusUp, BusFails, BusLost, BusClosed, BusSaved
<1>2. c # b => bus'[c] = bus[c]
  BY <1>1
<1>3. bus'[b] = s
  BY <1>1
<1>4. CASE Made(b) \/ BusDeleted(b)
  BY <1>2, <1>4 DEF Made, BusDeleted, LifeTurn
<1>5. CASE DeleteBus(b)
  BY <1>2, <1>5 DEF DeleteBus, Waiting, LifeTurn
<1>6. CASE BusUp(b) \/ BusFails(b)
  BY <1>2, <1>6 DEF BusUp, BusFails, LifeTurn
<1>7. CASE BusLost(b) \/ BusClosed(b) \/ BusSaved(b)
  BY <1>2, <1>7 DEF BusLost, BusClosed, BusSaved, LifeTurn
<1> QED BY <1>4, <1>5, <1>6, <1>7 DEF BusStep

\* So each connection leads the life that BusLife allows it.
LEMMA BusLives ==
  ASSUME ConnType, SystemLater, FollowInv, [Next]_vars, NEW b \in Buses
  PROVE  bus'[b] = bus[b] \/ LifeTurn(bus[b], bus'[b], Reconnects(b))
  BY BusFrame, BusTurn

\* The same in BusLife's words: the system bus is made once.
LEMMA SystemLives ==
  ASSUME ConnType, SystemLater, FollowInv, [Next]_vars
  PROVE  [SystemLife!LifeNext]_(SystemLife!lifeVars)
<1>1. bus'["system"] = bus["system"] \/ LifeTurn(bus["system"], bus'["system"], Reconnects("system"))
  BY BusLives DEF Buses
<1> QED BY <1>1 DEF LifeTurn, Reconnects, SystemLife!lifeVars, SystemLife!LifeNext, SystemLife!Turns, SystemLife!Create,
     SystemLife!Attempt, SystemLife!Up, SystemLife!Fails, SystemLife!Lost, SystemLife!Closed, SystemLife!Vanish,
     SystemLife!Close, SystemLife!Doom, SystemLife!Sink, SystemLife!Sunk, SystemLife!Save, SystemLife!Delete

\* Nor is the session bus made while there is one.
LEMMA SessionLives ==
  ASSUME ConnType, SystemLater, FollowInv, [Next]_vars
  PROVE  [SessionLife!LifeNext]_(SessionLife!lifeVars)
<1>1. bus'["session"] = bus["session"] \/ LifeTurn(bus["session"], bus'["session"], Reconnects("session"))
  BY BusLives DEF Buses
<1> QED BY <1>1 DEF LifeTurn, Reconnects, SessionLife!lifeVars, SessionLife!LifeNext, SessionLife!Turns, SessionLife!Create,
     SessionLife!Attempt, SessionLife!Up, SessionLife!Fails, SessionLife!Lost, SessionLife!Closed, SessionLife!Vanish,
     SessionLife!Close, SessionLife!Doom, SessionLife!Sink, SessionLife!Sunk, SessionLife!Save, SessionLife!Delete

\* Nor the network's, whose old connection the monitor thread has deleted.
LEMMA NetworkLives ==
  ASSUME ConnType, SystemLater, FollowInv, [Next]_vars
  PROVE  [NetworkLife!LifeNext]_(NetworkLife!lifeVars)
<1>1. bus'["network"] = bus["network"] \/ LifeTurn(bus["network"], bus'["network"], Reconnects("network"))
  BY BusLives DEF Buses
<1> QED BY <1>1 DEF LifeTurn, Reconnects, NetworkLife!lifeVars, NetworkLife!LifeNext, NetworkLife!Turns, NetworkLife!Create,
     NetworkLife!Attempt, NetworkLife!Up, NetworkLife!Fails, NetworkLife!Lost, NetworkLife!Closed, NetworkLife!Vanish,
     NetworkLife!Close, NetworkLife!Doom, NetworkLife!Sink, NetworkLife!Sunk, NetworkLife!Save, NetworkLife!Delete

\* At the start there is no connection.
LEMMA LivesInit == Init => SystemLife!LifeInit /\ SessionLife!LifeInit /\ NetworkLife!LifeInit
  BY DEF Init, BusesInit, Buses, Reconnects, SystemLife!LifeInit, SessionLife!LifeInit, NetworkLife!LifeInit

\* Each of the plugin's buses leads the life that Connection_proofs shows of a
\* cDBusConnection (its theorem Life), whatever the other threads do: what the
\* plugin's model assumes of its connections is what they do.
THEOREM Lives == Spec => LivesLed
<1>1. Init => ConnType /\ NetType /\ SystemLater /\ FollowInv
  BY ConnInit, NetInit, SystemInit, FollowInit
<1>2. ConnType /\ NetType /\ SystemLater /\ FollowInv /\ [Next]_vars => (ConnType /\ NetType /\ SystemLater /\ FollowInv)'
  BY ConnNext, NetNext, SystemNext, FollowNext
<1>3. ConnType /\ SystemLater /\ FollowInv /\ [Next]_vars =>
        /\ [SystemLife!LifeNext]_(SystemLife!lifeVars)
        /\ [SessionLife!LifeNext]_(SessionLife!lifeVars)
        /\ [NetworkLife!LifeNext]_(NetworkLife!lifeVars)
  BY SystemLives, SessionLives, NetworkLives
<1> QED BY <1>1, <1>2, <1>3, LivesInit, PTL
     DEF Spec, LivesLed, SystemLife!LifeSpec, SessionLife!LifeSpec, NetworkLife!LifeSpec

-----------------------------------------------------------------------------
(***************************************************************************)
(* What Stop takes apart, and in which order.                              *)
(***************************************************************************)

\* The steps of Stop after which a bus is gone, and those after which the main
\* loop may be.
NetworkGone == {"closesession", "closesystem", "pools", "quitloop", "joinloop", "stopped"}

SessionGone == {"closesystem", "pools", "quitloop", "joinloop", "stopped"}

SystemGone == {"pools", "quitloop", "joinloop", "stopped"}

LoopGone == {"joinloop", "stopped"}

\* The monitor thread has ended, or was never there.
MonitorGone == {"closenetwork"} \union NetworkGone

\* The main loop runs, or will.
LoopServes == loops["main"] \in {"started", "made", "runs"}

\* What makes TornDownInOrder inductive: which buses there can be at which step
\* of the main thread, and that the monitor's loop does not end in the middle of
\* what the monitor thread does.
StopInv ==
  /\ at \in {"initialize", "mainloop"} => \A b \in Buses : bus[b] = "none"
  /\ at \in NetworkGone => bus["network"] = "none"
  /\ at \in SessionGone => bus["session"] = "none"
  /\ at \in SystemGone => bus["system"] = "none"
  /\ "mainloop" \in options /\ at \notin {"initialize", "mainloop"} \union LoopGone => LoopServes
  /\ monitor # "idle" => loops["monitor"] \in {"runs", "quit"}
  /\ at \in MonitorGone => Joined("monitor")

\* It says what TornDownInOrder says.
LEMMA StopInvSafe ==
  ASSUME StopInv, ConnType
  PROVE  TornDownInOrder
<1>1. ASSUME NEW b \in Buses, bus[b] # "none" PROVE at \notin {"initialize", "mainloop"} \union LoopGone
  BY <1>1 DEF StopInv, Buses, LoopGone, NetworkGone, SessionGone, SystemGone
<1>2. Joined("monitor") => monitor = "idle"
  BY DEF StopInv, Joined
<1> QED BY <1>1, <1>2 DEF StopInv, TornDownInOrder, LoopServes, MonitorGone, NetworkGone

\* At the start there is nothing.
LEMMA StopInvInit == Init => StopInv
  BY DEF Init, BusesInit, NetworkInit, StopInv, NetworkGone, SessionGone, SystemGone, MonitorGone, LoopGone

\* A step of the main thread that leaves the buses, the loops and the monitor
\* thread as they are.
LEMMA StopKept ==
  ASSUME StopInv, UNCHANGED <<bus, loops, monitor, options>>,
         at' = at \/ (at \notin {"initialize", "mainloop"} \union MonitorGone /\ at' \notin {"initialize", "mainloop"} \union MonitorGone)
  PROVE  StopInv'
  BY DEF StopInv, LoopServes, Joined, MonitorGone, NetworkGone, SessionGone, SystemGone, LoopGone

\* A bus that is there, or that is made later than "mainloop" and before Stop
\* deletes it, may do whatever it does.
LEMMA StopBusKept ==
  ASSUME StopInv, NEW b \in Buses, UNCHANGED <<loops, monitor, options, at>>, \A c \in Buses \ {b} : bus'[c] = bus[c],
         \/ bus[b] # "none"
         \/ at \notin {"initialize", "mainloop"} \union MonitorGone
  PROVE  StopInv'
<1> USE DEF StopInv, LoopServes, Joined, MonitorGone, NetworkGone, SessionGone, SystemGone, LoopGone, Buses
<1>1. UNCHANGED <<LoopServes, Joined("monitor")>>
  OBVIOUS
<1>2. CASE b = "network"
  BY <1>1, <1>2
<1>3. CASE b = "session"
  BY <1>1, <1>3
<1>4. CASE b = "system"
  BY <1>1, <1>4
<1> QED BY <1>2, <1>3, <1>4

\* The steps of Stop itself.
LEMMA StopInvStop ==
  ASSUME StopInv, ConnType, Stop \/ StopSessionBus
  PROVE  StopInv'
<1> USE DEF StopInv, LoopServes, Joined, MonitorGone, NetworkGone, SessionGone, SystemGone, LoopGone
<1>1. ASSUME NEW b \in Buses, Delete(b), UNCHANGED options PROVE StopInv'
  <2>1. /\ bus[b] # "none" /\ at' = at
        /\ UNCHANGED <<loops, monitor>> /\ \A c \in Buses \ {b} : bus'[c] = bus[c]
    BY <1>1 DEF Delete, DeleteConnection, DeleteBus, netVars, network, ConnType
  <2> QED BY <1>1, <2>1, StopBusKept
<1>2. CASE StopSessionBus
  <2>1. CASE Delete("session")
    BY <1>1, <2>1 DEF Delete, DeleteBus, Buses
  <2>2. CASE at' = (IF at = "restart" THEN "remake" ELSE "running") /\ Deleted("session")
    BY <1>2, <2>2, StopKept DEF StopSessionBus, Deleted, Elsewhere, network, netVars, buses, connections
  <2> QED BY <1>2, <2>1, <2>2 DEF StopSessionBus
<1>3. CASE BeginStop
  BY <1>3, StopKept DEF BeginStop, Step, network, netVars, connections
<1>4. CASE StopNetwork
  <2>1. CASE StopStep("stopclients") /\ StopClients
    BY <2>1, StopKept DEF StopStep, StopOrder, StopClients, netVars, buses, connections
  <2>2. CASE StopStep("stopmonitor") /\ IgnoreFile
    <3>1. at = "stopmonitor" /\ at' = "joinmonitor" /\ UNCHANGED <<bus, monitor, options>>
      BY <2>2 DEF StopStep, StopOrder, IgnoreFile, netVars, buses, connections
    <3>2. loops' = [loops EXCEPT !["monitor"] = IF @ = "runs" THEN "quit" ELSE @]
      BY <2>2 DEF IgnoreFile, QuitLoop
    <3> QED BY <3>1, <3>2 DEF ConnType, Loops
  <2>3. CASE StopStep("joinmonitor") /\ Joined("monitor") /\ Elsewhere
    <3>1. at = "joinmonitor" /\ at' = "closenetwork" /\ UNCHANGED <<bus, loops, monitor, options>>
      BY <2>3 DEF StopStep, StopOrder, Elsewhere, network, netVars, buses, connections
    <3> QED BY <2>3, <3>1
  <2> QED BY <1>4, <2>1, <2>2, <2>3 DEF StopNetwork
<1>5. ASSUME NEW b \in Buses, Deleted(b)
      PROVE  bus[b] = "none" /\ UNCHANGED <<bus, loops, monitor, options>>
  BY <1>5 DEF Deleted, Elsewhere, network, netVars, buses, connections
<1>6. CASE StopBus("closenetwork", "network")
  <2>1. CASE Delete("network")
    BY <1>1, <2>1 DEF Delete, DeleteConnection, DeleteBus, Buses
  <2>2. CASE StopStep("closenetwork") /\ Deleted("network")
    BY <1>5, <2>2 DEF StopStep, StopOrder, Buses
  <2> QED BY <1>6, <2>1, <2>2 DEF StopBus
<1>7. CASE StopBus("closesession", "session")
  <2>1. CASE Delete("session")
    BY <1>1, <2>1 DEF Delete, DeleteBus, Buses
  <2>2. CASE StopStep("closesession") /\ Deleted("session")
    BY <1>5, <2>2 DEF StopStep, StopOrder, Buses
  <2> QED BY <1>7, <2>1, <2>2 DEF StopBus
<1>8. CASE StopBus("closesystem", "system")
  <2>1. CASE Delete("system")
    BY <1>1, <2>1 DEF Delete, DeleteBus, Buses
  <2>2. CASE StopStep("closesystem") /\ Deleted("system")
    BY <1>5, <2>2 DEF StopStep, StopOrder, Buses
  <2> QED BY <1>8, <2>1, <2>2 DEF StopBus
<1>9. CASE FreeThreadPools
  BY <1>9 DEF FreeThreadPools, StopStep, StopOrder, Elsewhere, network, netVars, buses, connections
<1>10. CASE StopMainLoop
  <2>1. CASE StopStep("quitloop") /\ QuitLoop("main")
    <3>1. at = "quitloop" /\ at' = "joinloop" /\ UNCHANGED <<bus, monitor, options>> /\ loops'["monitor"] = loops["monitor"]
      BY <1>10, <2>1 DEF StopStep, StopOrder, StopMainLoop, QuitLoop, ConnType, Loops, network, netVars, buses, connections
    <3> QED BY <3>1
  <2>2. CASE StopStep("joinloop") /\ UNCHANGED loops
    <3>1. at = "joinloop" /\ at' = "stopped" /\ UNCHANGED <<bus, monitor, options>>
      BY <1>10, <2>2 DEF StopStep, StopOrder, StopMainLoop, network, netVars, buses, connections
    <3> QED BY <2>2, <3>1
  <2> QED BY <1>10, <2>1, <2>2 DEF StopMainLoop
<1> QED BY <1>2, <1>3, <1>4, <1>6, <1>7, <1>8, <1>9, <1>10 DEF Stop

\* Those of Start.
LEMMA StopInvStart ==
  ASSUME StopInv, ConnType, FollowInv, Start \/ StartSessionBus("remake", "running")
  PROVE  StopInv'
<1> USE DEF StopInv, LoopServes, Joined, MonitorGone, NetworkGone, SessionGone, SystemGone, LoopGone, Step
<1>1. CASE StartMainLoop
  <2>1. at = "mainloop" /\ at' = "system" /\ UNCHANGED <<bus, monitor, options>>
    BY <1>1 DEF StartMainLoop, network, netVars, buses, connections
  <2>2. /\ "mainloop" \in options => loops'["main"] = "started"
        /\ loops'["monitor"] = loops["monitor"]
    BY <1>1 DEF StartMainLoop, StartLoop, ConnType, Loops
  <2> QED BY <2>1, <2>2
<1>2. CASE StartSystemBus
  <2>1. at = "system" /\ at' = "session" /\ UNCHANGED <<loops, monitor, options>>
    BY <1>2 DEF StartSystemBus, CreateBus, network, netVars, buses
  <2> QED BY <2>1
<1>3. CASE StartSessionBus("session", "network") \/ StartSessionBus("remake", "running")
  <2>1. at \in {"session", "remake"} /\ at' \in {"network", "running"} /\ UNCHANGED <<loops, monitor, options>>
    BY <1>3 DEF StartSessionBus, CreateBus, network, netVars, buses
  <2> QED BY <2>1
<1>4. CASE StartNetwork
  <2>1. at = "network" /\ at' \in {"testfile", "announce"} /\ UNCHANGED <<bus, monitor, options>>
    BY <1>4 DEF StartNetwork, network, netVars, buses, connections
  <2>2. loops'["main"] = loops["main"] /\ loops'["monitor"] \in {"started", loops["monitor"]}
    BY <1>4 DEF StartNetwork, StartLoop, ConnType, Loops
  <2>3. monitor = "idle"
    BY <2>1 DEF FollowInv, StageInv, Before
  <2> QED BY <2>1, <2>2, <2>3
<1>5. CASE StartMonitor
  BY <1>5, StopKept DEF StartMonitor, TestFile, MonitorFile, StartClients, netVars, buses, connections
<1>6. CASE Announce
  BY <1>6, StopKept DEF Announce, network, netVars, connections
<1> QED BY <1>1, <1>2, <1>3, <1>4, <1>5, <1>6 DEF Start

\* Those of the monitor thread: while it is at work its loop has not ended, so
\* that Stop is not past its join.
LEMMA StopInvMonitor ==
  ASSUME StopInv, ConnType, FollowInv, Monitor
  PROVE  StopInv'
<1>1. UNCHANGED <<at, loops, options>>
  BY DEF Monitor, MonitorStep, do_connect, LoadAddress, do_disconnect, Dropped, DeleteOld, DeleteConnection, DeleteBus,
         CreateConnection, ConnectNew, main, buses
<1>2. loops["monitor"] \in {"runs", "quit"}
  BY DEF Monitor, MonitorStep, do_connect, LoadAddress, do_disconnect, Dropped, DeleteOld, CreateConnection, ConnectNew,
         NextTask, StopInv
<1>3. monitor # "idle" => at \notin {"initialize", "mainloop"} \union MonitorGone
  <2>1. at \notin MonitorGone
    BY <1>2 DEF StopInv, Joined
  <2>2. at \in {"initialize", "mainloop"} => monitor = "idle"
    BY DEF FollowInv, StageInv, Before
  <2> QED BY <2>1, <2>2
<1>4. CASE do_connect \/ LoadAddress \/ do_disconnect \/ Dropped \/ CreateConnection
  <2>1. bus' = bus
    BY <1>4 DEF do_connect, LoadAddress, do_disconnect, Dropped, CreateConnection, buses, connections
  <2> QED BY <1>1, <1>2, <2>1 DEF StopInv, LoopServes, Joined
<1>5. CASE DeleteOld
  <2>1. bus["network"] # "none" /\ UNCHANGED monitor /\ \A c \in Buses \ {"network"} : bus'[c] = bus[c]
    BY <1>5 DEF DeleteOld, DeleteConnection, DeleteBus, netVars, ConnType
  <2> QED BY <1>1, <2>1, StopBusKept DEF Buses
<1>6. CASE ConnectNew
  <2>1. monitor = "attach" /\ monitor' = "idle" /\ \A c \in Buses \ {"network"} : bus'[c] = bus[c]
    BY <1>6 DEF ConnectNew, ConnType
  <2> USE DEF MonitorGone, NetworkGone, SessionGone, SystemGone, LoopGone
  <2>2. at \notin {"initialize", "mainloop"} \union MonitorGone
    BY <1>3, <2>1
  <2>3. UNCHANGED <<LoopServes, Joined("monitor")>>
    BY <1>1 DEF LoopServes, Joined
  <2> QED BY <1>1, <2>1, <2>2, <2>3 DEF StopInv
<1> QED BY <1>4, <1>5, <1>6 DEF Monitor, MonitorStep

\* Every step of every thread keeps it.
LEMMA StopInvNext ==
  ASSUME StopInv, ConnType, FollowInv, [Next]_vars
  PROVE  StopInv'
<1>1. CASE Initialize
  <2>1. at = "initialize" /\ at' = "mainloop" /\ UNCHANGED <<bus, loops, monitor, options>>
    BY <1>1 DEF Initialize, Step, Elsewhere, network, netVars, buses, connections
  <2> QED BY <2>1 DEF StopInv, NetworkGone, SessionGone, SystemGone, MonitorGone, LoopGone
<1>2. CASE AddOrWatch
  BY <1>2, StopKept DEF AddOrWatch, network, netVars, connections
<1>3. CASE Running
  <2>1. CASE MainThreadHook
    BY <2>1, StopKept DEF MainThreadHook, Step, network, netVars, connections
  <2>2. CASE \E d \in Devices : VdrSwitches(d)
    BY <2>2, StopKept DEF VdrSwitches, Elsewhere, main, network, netVars, buses, connections
  <2>3. CASE \E set \in {0, 1} : SetDBusSessionBusAddress(set)
    BY <2>3, StopKept DEF SetDBusSessionBusAddress, Step, Elsewhere, network, netVars, buses, connections, MonitorGone, NetworkGone
  <2>4. CASE (\E b \in Watchable : WatchBusname(b)) \/ (\E w \in Ids : UnwatchBusname(w))
    BY <2>4, StopKept DEF WatchBusname, UnwatchBusname, Step, network, netVars, connections
  <2> QED BY <1>3, <2>1, <2>2, <2>3, <2>4 DEF Running
<1>4. CASE Crash
  <2>1. at' = "crashed" /\ UNCHANGED <<bus, loops, monitor, options>>
    BY <1>4 DEF Crash, Elsewhere, network, netVars, buses, connections
  <2>2. Dispatching \/ at \in {"announce", "running"}
    BY <1>4 DEF Crash, ObjectUnconnected, FreedConnectionCalled, FreedClientCalled, FreedAddressRead
  <2>3. "mainloop" \in options => LoopServes
    BY <2>2 DEF StopInv, Dispatching, LoopServes, LoopGone
  <2> QED BY <2>1, <2>3 DEF StopInv, LoopServes, Joined, MonitorGone, NetworkGone, SessionGone, SystemGone, LoopGone
<1>5. CASE MethodCalled \/ MethodEnds
  BY <1>5, StopKept DEF MethodCalled, MethodEnds, Elsewhere, main, network, netVars, buses, connections
<1>6. CASE Served \/ Environment
  <2>1. at' = at
    BY <1>6 DEF Served, Environment, main
  <2>2. ASSUME NEW b \in Buses, BusDeleted(b) \/ BusUp(b) \/ BusFails(b) \/ BusLost(b) \/ BusClosed(b) \/ BusSaved(b),
               UNCHANGED monitor
        PROVE  StopInv'
    <3>1. /\ bus[b] # "none" /\ UNCHANGED <<loops, options>>
          /\ \A c \in Buses \ {b} : bus'[c] = bus[c]
      BY <2>2 DEF BusDeleted, BusUp, BusFails, BusLost, BusClosed, BusSaved, ConnType
    <3> QED BY <2>1, <2>2, <3>1, StopBusKept
  <2>3. CASE /\ \E b \in Buses : BusDeleted(b) \/ BusUp(b) \/ BusFails(b) \/ BusLost(b) \/ BusClosed(b) \/ BusSaved(b)
             /\ UNCHANGED network
    BY <2>2, <2>3 DEF network, netVars
  <2>4. CASE NameLost
    BY <2>2, <2>4 DEF NameLost, netVars, Buses
  <2>5. CASE on_file_changed \/ on_name_acquired
    BY <2>1, <2>5, StopKept DEF on_file_changed, on_name_acquired, netVars, buses, connections
  <2>6. CASE ((\E w \in Ids, what \in {"appeared", "vanished"} : Notify(w, what)) /\ UNCHANGED network)
             \/ (\E to \in {<<>>} \union {<<a>> : a \in Addresses} : \E event \in Reports(to) : ChangeFile(to, event))
    BY <2>1, <2>6, StopKept DEF Notify, ChangeFile, network, netVars, buses, connections
  <2>7. CASE (\E n \in Names : ServiceResolved(n) \/ ServiceRemoved(n))
             \/ (\E i \in DOMAIN clients : OnConnect(i) \/ OnTimerChange(i) \/ OnTimerList(i))
    <3>1. UNCHANGED <<netVars, buses, loops>>
      BY <2>7 DEF ServiceResolved, ServiceRemoved, OnConnect, OnTimerChange, OnTimerList
    <3> QED BY <2>1, <3>1, StopKept DEF netVars, buses, connections
  <2> QED BY <1>6, <2>3, <2>4, <2>5, <2>6, <2>7 DEF Served, Environment, Watchable, Buses
<1>7. ASSUME NEW l \in Loops, LoopThread(l) PROVE StopInv'
  <2>1. UNCHANGED <<at, bus, monitor, options>>
    BY <1>7 DEF LoopThread, main, network, netVars, buses, connections
  <2> USE DEF StopInv, LoopServes, Joined, MonitorGone, NetworkGone, SessionGone, SystemGone, LoopGone
  <2>2. CASE l = "main"
    <3>1. /\ loops'["monitor"] = loops["monitor"]
          /\ loops["main"] \in {"started", "made", "quit"} /\ loops'["main"] \in {"made", "runs", "ended"}
          /\ loops'["main"] = "ended" => loops["main"] = "quit"
      BY <1>7, <2>2 DEF LoopThread, MakeLoop, RunLoop, EndLoop, ConnType, Loops
    <3> QED BY <2>1, <3>1
  <2>3. CASE l = "monitor"
    <3>1. /\ loops'["main"] = loops["main"]
          /\ loops["monitor"] \in {"started", "made", "quit"} /\ loops'["monitor"] \in {"made", "runs", "ended"}
          /\ loops'["monitor"] = "ended" => monitor = "idle"
          /\ loops'["monitor"] = "made" => loops["monitor"] = "started"
      BY <1>7, <2>3 DEF LoopThread, MakeLoop, RunLoop, EndLoop, ConnType, Loops
    <3> QED BY <2>1, <3>1
  <2> QED BY <2>2, <2>3 DEF Loops
<1>8. CASE UNCHANGED vars
  BY <1>8, StopKept DEF vars, main, network, netVars, buses, connections
<1> QED BY <1>1, <1>2, <1>3, <1>4, <1>5, <1>6, <1>7, <1>8, StopInvStop, StopInvStart, StopInvMonitor DEF Next, Blocking

\* Whatever the other threads are at when Stop begins: no connection outlives
\* the loop that serves it, so that none of the destructors waits for a loop that
\* Stop has already told to quit, and the monitor thread and Stop never delete
\* the network's connection both (cPluginDbus2vdr::Stop, dbus2vdr.c:448-474).
THEOREM TearDown == Spec => []TornDownInOrder
<1>1. Init => ConnType /\ NetType /\ FollowInv /\ StopInv
  BY ConnInit, NetInit, FollowInit, StopInvInit
<1>2. ConnType /\ NetType /\ FollowInv /\ StopInv /\ [Next]_vars => (ConnType /\ NetType /\ FollowInv /\ StopInv)'
  BY ConnNext, NetNext, FollowNext, StopInvNext
<1>3. ConnType /\ StopInv => TornDownInOrder
  BY StopInvSafe
<1> QED BY <1>1, <1>2, <1>3, PTL DEF Spec
=============================================================================
