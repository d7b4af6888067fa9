------------------------------ MODULE Network ------------------------------
(***************************************************************************)
(* The network bus and its clients (network.c).  A dbus-daemon that is     *)
(* started by hand writes its address to network-address.conf; GIO watches *)
(* the file, a monitor thread connects to and disconnects from the bus,    *)
(* and the plugin avahi4vdr publishes it and reports those of other VDRs.  *)
(* GLib's default context delivers the changes of the file and serves the  *)
(* connections; "network" in bus is the connection.                        *)
(***************************************************************************)
EXTENDS Buses, SequencesExt

CONSTANTS
  Addresses,  \* what the file may say; 0 is a text that is no tcp address
  Names,      \* names of other VDRs' services
  MaxChanges, \* bound: changes of the file
  MaxEvents   \* bound: events of avahi4vdr

ASSUME NetworkAssumption ==
  /\ Addresses \subseteq Nat /\ {MaxChanges, MaxEvents} \subseteq Nat

VARIABLES
  file,       \* <<>>: there is none, else <<its address>>
  watched,    \* the changes of the file are reported
  missed,     \* 1: its last change was not followed: it came between the test and the
              \* watching, or was reported as a move
  changes,    \* the reports GIO has still to deliver
  tasks,      \* the sources attached to the monitor's context
  monitor,    \* what the monitor thread does
  address,    \* _address: <<>>, or <<it>>
  used,       \* the address that _connection was made with
  named,      \* the connection owns its name and on_name_acquired was called
  avahi_id,   \* _avahi_id, 0 for none
  services,   \* the services avahi4vdr publishes for us
  orphans,    \* those of them whose connection was deleted
  created,    \* how many there were
  browser,    \* 1: _avahi_browser_id is set
  clients,    \* the list of cDBusNetworkClient
  strays,     \* connections that deleted clients left behind, with their callbacks
  modified, events \* what the bounds count

fileVars == <<file, watched, missed, changes, modified>>
netVars == <<tasks, monitor, address, used>>
avahiVars == <<named, avahi_id, services, orphans, created>>
clientVars == <<browser, clients, strays, events>>
network == <<fileVars, netVars, avahiVars, clientVars>>

NetworkInit ==
  /\ file \in {<<>>} \union {<<a>> : a \in Addresses} /\ ("changes" \notin options => file = <<>>)
  /\ watched = 0 /\ missed = 0 /\ changes = <<>> /\ modified = 0
  /\ tasks = <<>> /\ monitor = "idle" /\ address = <<>> /\ used = 0
  /\ named = 0 /\ avahi_id = 0 /\ services = {} /\ orphans = {} /\ created = 0
  /\ browser = 0 /\ clients = <<>> /\ strays = 0 /\ events = 0

Avahi == "avahi4vdr" \in options

-----------------------------------------------------------------------------
(***************************************************************************)
(* The file and its monitor.                                               *)
(***************************************************************************)

\* How a file that has become this one is reported: it was written or deleted,
\* or renamed (the file is watched with G_FILE_MONITOR_SEND_MOVED).
Reports(to) == {IF to = <<>> THEN "DELETED" ELSE "CHANGES_DONE_HINT", "MOVED"}

ChangeFile(to, event) ==
  /\ "changes" \in options /\ modified < MaxChanges /\ to # file
  /\ file' = to /\ modified' = modified + 1
  /\ changes' = IF watched = 1 THEN Append(changes, event) ELSE changes
  /\ missed' = IF (IF watched = 1 THEN event = "MOVED" ELSE loops["monitor"] # "none") THEN 1 ELSE 0
  /\ UNCHANGED <<watched, netVars, avahiVars, clientVars, buses, loops>>

\* What a report asks of the monitor thread; other events are ignored (for the
\* mutants: to connect).
ConnectAlways(event) == <<"connect">>
TaskOf(event) ==
  CASE event = "CHANGES_DONE_HINT" -> <<"connect">>
    [] event = "DELETED" -> <<"disconnect">>
    [] OTHER -> <<>>

on_file_changed ==
  /\ changes # <<>> /\ Dispatching
  /\ changes' = Tail(changes)
  /\ tasks' = IF watched = 1 THEN tasks \o TaskOf(Head(changes)) ELSE tasks
  /\ UNCHANGED <<file, watched, missed, modified, monitor, address, used, avahiVars, clientVars, buses, loops>>

\* Start of the network: its loop, the test for the file, the watching.
TestFile ==
  /\ tasks' = IF file # <<>> THEN Append(tasks, "connect") ELSE tasks
  /\ UNCHANGED <<fileVars, monitor, address, used, avahiVars, clientVars, buses, loops>>

MonitorFile ==
  /\ watched' = 1
  /\ UNCHANGED <<file, missed, changes, modified, netVars, avahiVars, clientVars, buses, loops>>

IgnoreFile ==
  /\ watched' = 0
  /\ QuitLoop("monitor")
  /\ UNCHANGED <<file, missed, changes, modified, netVars, avahiVars, clientVars, buses>>

-----------------------------------------------------------------------------
(***************************************************************************)
(* The monitor thread.                                                     *)
(***************************************************************************)

NextTask(task) ==
  /\ loops["monitor"] = "runs" /\ monitor = "idle"
  /\ tasks # <<>> /\ Head(tasks) = task
  /\ tasks' = Tail(tasks)

LoadFromFile == IF file \in {<<>>, <<0>>} THEN <<>> ELSE file

\* do_connect frees the address, and loads the new one.  A file that is gone
\* changes nothing; one that is not understood leaves the old connection alone.
do_connect ==
  /\ NextTask("connect")
  /\ monitor' = IF file = <<>> THEN "idle" ELSE "load"
  /\ UNCHANGED <<address, used, fileVars, avahiVars, clientVars, buses, loops>>

LoadAddress ==
  /\ monitor = "load"
  /\ address' = LoadFromFile
  /\ monitor' = IF LoadFromFile = <<>> THEN "idle" ELSE "replace"
  /\ UNCHANGED <<tasks, used, fileVars, avahiVars, clientVars, buses, loops>>

do_disconnect ==
  /\ NextTask("disconnect")
  /\ monitor' = "drop"
  /\ UNCHANGED <<address, used, fileVars, avahiVars, clientVars, buses, loops>>

\* The connection is deleted by the monitor thread, or by Stop: its name is
\* given up without a word to on_name_lost.
DeleteConnection ==
  /\ DeleteBus("network")
  /\ named' = 0
  /\ orphans' = IF named = 1 THEN orphans \union services ELSE orphans
  /\ UNCHANGED <<fileVars, netVars, avahi_id, services, created, clientVars>>

DeleteOld == monitor \in {"replace", "drop"} /\ bus["network"] # "none" /\ DeleteConnection

\* The new connection: the object "/vdr" is made, and then attached.
CreateConnection ==
  /\ monitor = "replace" /\ bus["network"] = "none"
  /\ ListObject("network") /\ used' = address[1] /\ monitor' = "attach"
  /\ UNCHANGED <<tasks, address, fileVars, avahiVars, clientVars, options, connections, watching,
                 status, said, loops>>

ConnectNew ==
  /\ monitor = "attach"
  /\ AttachObject("network") /\ bus' = [bus EXCEPT !["network"] = "new"] /\ monitor' = "idle"
  /\ UNCHANGED <<tasks, address, used, fileVars, avahiVars, clientVars, options, trouble, freed, watching,
                 status, said, loops>>

Dropped ==
  /\ monitor = "drop" /\ bus["network"] = "none"
  /\ address' = <<>> /\ monitor' = "idle"
  /\ UNCHANGED <<tasks, used, fileVars, avahiVars, clientVars, buses, loops>>

MonitorStep == do_connect \/ LoadAddress \/ do_disconnect \/ DeleteOld \/ CreateConnection \/ ConnectNew \/ Dropped

-----------------------------------------------------------------------------
(***************************************************************************)
(* The service that avahi4vdr publishes.                                   *)
(***************************************************************************)

\* While the monitor thread loads, this reads an address that is freed: if VDR
\* does not crash (FreedAddressRead), what is published may be wrong.
on_name_acquired ==
  /\ bus["network"] = "up" /\ named = 0 /\ Dispatching
  /\ named' = 1
  /\ IF address # <<>> /\ Avahi
     THEN /\ created' = created + 1 /\ avahi_id' = created + 1
          /\ services' = services \union {created + 1}
     ELSE UNCHANGED <<created, avahi_id, services>>
  /\ UNCHANGED <<orphans, fileVars, netVars, clientVars, buses, loops>>

\* A lost name withdraws the service (for the mutants: only while there is an
\* address).
WithdrawIfAddress == IF address = <<>> THEN {} ELSE {avahi_id}
Withdrawn == {avahi_id}

\* on_name_lost of the connection and then the callback.
NameLost ==
  /\ BusClosed("network")
  /\ named' = 0 /\ services' = services \ Withdrawn /\ orphans' = orphans \ Withdrawn
  /\ avahi_id' = IF Avahi THEN 0 ELSE avahi_id
  /\ UNCHANGED <<created, fileVars, netVars, clientVars>>

-----------------------------------------------------------------------------
(***************************************************************************)
(* The clients: the network buses of other VDRs.                           *)
(***************************************************************************)

StartClients ==
  /\ browser' = IF Avahi THEN 1 ELSE 0
  /\ UNCHANGED <<clients, strays, events, fileVars, netVars, avahiVars, buses, loops>>

\* The destructor of a client leaves its connection alone, which goes on calling
\* the freed client when it comes up or a timer changes (FreedClientCalled).
Strays(gone) == strays + Len(gone)

StopClients ==
  /\ browser' = 0 /\ clients' = <<>> /\ strays' = Strays(clients)
  /\ UNCHANGED <<events, fileVars, netVars, avahiVars, buses, loops>>

\* Service("avahi4vdr-event"): events of another browser, of this host, or
\* without what is needed change nothing.
ServiceResolved(n) ==
  /\ browser = 1 /\ "events" \in options /\ events < MaxEvents
  /\ clients' = Append(clients, [name |-> n, state |-> "new"]) /\ events' = events + 1
  /\ UNCHANGED <<browser, strays, fileVars, netVars, avahiVars, buses, loops>>

\* RemoveClient takes the first of this name.
ServiceRemoved(n) ==
  /\ browser = 1 /\ \E i \in DOMAIN clients : clients[i].name = n
  /\ LET i == CHOOSE j \in DOMAIN clients :
                clients[j].name = n /\ \A k \in 1..(j - 1) : clients[k].name # n
     IN  clients' = RemoveAt(clients, i) /\ strays' = Strays(<<clients[i]>>)
  /\ UNCHANGED <<browser, events, fileVars, netVars, avahiVars, buses, loops>>

\* OnConnect subscribes to TimerChange.
OnConnect(i) ==
  /\ clients[i].state = "new" /\ Dispatching
  /\ clients' = [clients EXCEPT ![i].state = "subscribed"]
  /\ UNCHANGED <<browser, strays, events, fileVars, netVars, avahiVars, buses, loops>>

\* TimerChange arrives, the list of timers is asked for and its answer dropped.
OnTimerChange(i) ==
  /\ clients[i].state = "subscribed" /\ Dispatching
  /\ clients' = [clients EXCEPT ![i].state = "listing"]
  /\ UNCHANGED <<browser, strays, events, fileVars, netVars, avahiVars, buses, loops>>

OnTimerList(i) ==
  /\ clients[i].state = "listing" /\ Dispatching
  /\ clients' = [clients EXCEPT ![i].state = "subscribed"]
  /\ UNCHANGED <<browser, strays, events, fileVars, netVars, avahiVars, buses, loops>>
=============================================================================
