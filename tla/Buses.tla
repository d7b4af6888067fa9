------------------------------- MODULE Buses -------------------------------
(***************************************************************************)
(* The buses as the plugin sees them: a connection comes up, fails, is     *)
(* lost and is deleted (each is a cDBusConnection; Connection.tla has its  *)
(* inner steps).  What hangs on a connection is modelled here: the         *)
(* watchers that other plugins asked for (connection.c) and the object     *)
(* "/vdr" that announces VDR's status (vdr.c).                             *)
(***************************************************************************)
EXTENDS MainLoop

CONSTANTS
  MaxWatchers,  \* bound: calls of WatchBusname
  MaxTrouble    \* bound: connections that fail or are lost

ASSUME BusesAssumption == {MaxWatchers, MaxTrouble} \subseteq Nat

VARIABLES
  options,   \* the plugin's options, and what happens around it
  bus,       \* the state of each connection
  trouble,   \* what MaxTrouble counts
  freed,     \* 1: a connection was freed that callbacks may still be attached to
  watcher,   \* the watchers, by their id
  ids,       \* the static counter of cDBusWatcher
  chain,     \* the lists of watchers: their heads, and the links of the watchers
  unsure,    \* the watchers asked for while their bus came or went
  status,    \* cDBusVdr::_status
  said,      \* every status so far
  object     \* the cDBusVdr of each bus: "none", "listed" or "attached"

connections == <<bus, trouble, freed>>
watching == <<watcher, ids, chain, unsure>>
telling == <<status, said, object>>
buses == <<options, connections, watching, telling>>

\* Options of the command line, the plugin avahi4vdr, and: connections fail (again),
\* SVDRP commands come, the file changes, other VDRs do, methods are called.
Option == {"mainloop", "system", "session", "network", "nulldevice", "force", "avahi4vdr",
           "trouble", "again", "commands", "changes", "events", "calls"}

Buses == {"system", "session", "network"}
Watchable == {"system", "session"}
Ids == 1..MaxWatchers

\* "new": Connect was called; "failed": _connection is NULL and the status 1 or
\* 2; "losing": the name is lost, the connection not yet closed; "lost": closed,
\* the status is 0; a thread deletes it and waits, "closing": for the close of
\* the connection, "sinking": but the name is lost before, "doomed": but there is
\* no connection.
BusStates == {"none", "new", "failed", "up", "losing", "lost", "closing", "sinking", "doomed"}

NoWatcher == [bus |-> "none", watch_id |-> 0, live |-> 0, told |-> "nothing"]

BusesInit ==
  /\ bus = [b \in Buses |-> "none"] /\ trouble = 0 /\ freed = 0
  /\ watcher = [w \in Ids |-> NoWatcher] /\ ids = 0 /\ unsure = {}
  /\ chain = [head |-> [k \in {"waiting", "listed"} \X Watchable |-> [first |-> 0, last |-> 0]],
              next |-> [w \in Ids |-> 0], prev |-> [w \in Ids |-> 0]]
  /\ status = "Unknown" /\ said = <<>>
  /\ object = [b \in Buses |-> "none"]

\* GLib's default context is served, by our main loop or by somebody else's.
Dispatching == "mainloop" \in options => loops["main"] = "runs"

-----------------------------------------------------------------------------
(***************************************************************************)
(* VDR's list of objects, which keeps its links in the objects.            *)
(***************************************************************************)

\* The watchers that a walk from the head of list k meets: those of every set
\* that has the first one and, with a watcher, the next one.
Follows(c, k, S) ==
  /\ c.head[k].first # 0 => c.head[k].first \in S
  /\ \A w \in S : c.next[w] # 0 => c.next[w] \in S
Listed(c, k) == {w \in Ids : \A S \in SUBSET Ids : Follows(c, k, S) => w \in S}

ListAdd(c, k, w) ==
  LET last == c.head[k].last IN
  [head |-> [c.head EXCEPT ![k] = [first |-> IF last = 0 THEN w ELSE @.first, last |-> w]],
   next |-> [x \in Ids |-> IF x = last THEN w ELSE c.next[x]],
   prev |-> IF last = 0 THEN c.prev ELSE [c.prev EXCEPT ![w] = last]]

ListDel(c, k, w) ==
  [head |-> [c.head EXCEPT ![k] = [first |-> IF @.first = w THEN c.next[w] ELSE @.first,
                                   last  |-> IF @.last = w THEN c.prev[w] ELSE @.last]],
   next |-> [x \in Ids |-> IF x = w THEN 0 ELSE IF x = c.prev[w] THEN c.next[w] ELSE c.next[x]],
   prev |-> [x \in Ids |-> IF x = w THEN 0 ELSE IF x = c.next[w] THEN c.prev[w] ELSE c.prev[x]]]

\* While there is a waiting watcher, it is added to the connection's list and
\* then deleted from the other one: of several, not all stay linked.
MovedOne(c, b) ==
  LET w == c.head[<<"waiting", b>>].first
  IN  IF w = 0 THEN c ELSE ListDel(ListAdd(c, <<"listed", b>>, w), <<"waiting", b>>, w)

AddAllWatchers(b) ==
  LET moved[n \in 0..MaxWatchers] == IF n = 0 THEN chain ELSE MovedOne(moved[n - 1], b)
  IN  chain' = moved[MaxWatchers] /\ chain'.head[<<"waiting", b>>].first = 0

-----------------------------------------------------------------------------
(***************************************************************************)
(* cDBusWatcher.                                                           *)
(***************************************************************************)

\* Watch of one watcher, which does nothing if there is a watch already.
Watched(w) ==
  IF watcher[w].watch_id = 0
  THEN [watcher[w] EXCEPT !.watch_id = 1, !.live = 1]
  ELSE watcher[w]

\* Unwatch(true): the caller is told, then GLib is (for the mutants: the
\* watch_id stays).
KeepWatchId(w) == [watcher[w] EXCEPT !.live = 0, !.told = "vanished"]
Unwatched(w) == [watcher[w] EXCEPT !.watch_id = 0, !.live = 0, !.told = "vanished"]

\* The connection is closed: GLib tells those who still watch on it.
Closed(w) == IF watcher[w].live = 1 THEN [watcher[w] EXCEPT !.live = 0, !.told = "vanished"] ELSE watcher[w]

RegisterWatchers(b) ==
  /\ watcher' = [w \in Ids |-> IF w \in Listed(chain, <<"listed", b>>) THEN Watched(w) ELSE watcher[w]]
  /\ unsure' = {w \in unsure : w \notin Listed(chain, <<"listed", b>>) \/ watcher[w].watch_id # 0}

UnregisterWatchers(b) ==
  watcher' = [w \in Ids |-> IF w \in Listed(chain, <<"listed", b>>) THEN Unwatched(w) ELSE watcher[w]]

\* GLib finds out, or is told, who owns a watched name.
Notify(w, what) ==
  /\ watcher[w].live = 1 /\ watcher[w].told # what /\ Dispatching
  /\ watcher' = [watcher EXCEPT ![w].told = what]
  /\ UNCHANGED <<options, connections, ids, chain, unsure, telling, loops>>

\* The status is below 3 when WatchBusname looks at it.
BelowThree(b) == bus[b] \in {"new", "failed", "lost"}

\* cDBusConnection::Watch.
WatchNow(w, b) ==
  /\ watcher' = [watcher EXCEPT ![w] = IF bus[b] \in {"up", "losing"} THEN Watched(w) ELSE @]
  /\ chain' = ListAdd(chain, <<"listed", b>>, w)
  /\ unsure' = IF bus[b] = "losing" THEN unsure \union {w} ELSE unsure

AddWatcher(w, b) ==
  /\ chain' = ListAdd(chain, <<"listed", b>>, w)
  /\ unsure' = IF bus[b] \in {"up", "losing"} THEN unsure \union {w} ELSE unsure
  /\ UNCHANGED watcher

Unwatch(w, b) ==
  IF w \in Listed(chain, <<"listed", b>>)
  THEN /\ watcher' = [watcher EXCEPT ![w] = NoWatcher]
       /\ chain' = ListDel(chain, <<"listed", b>>, w)
  ELSE UNCHANGED <<watcher, chain>>

-----------------------------------------------------------------------------
(***************************************************************************)
(* cDBusVdr.                                                               *)
(***************************************************************************)

\* Its constructor, and AddObject.
ListObject(b) == object' = [object EXCEPT ![b] = "listed"]
AttachObject(b) == object' = [object EXCEPT ![b] = "attached"]

\* An object without a connection crashes VDR.
CanEmit == \A b \in Buses : object[b] # "listed"

SetStatus(s) ==
  IF status = s
  THEN UNCHANGED telling
  ELSE /\ CanEmit
       /\ status' = s /\ said' = Append(said, s)
       /\ UNCHANGED object

-----------------------------------------------------------------------------
(***************************************************************************)
(* The life of a connection.                                               *)
(***************************************************************************)

\* AddAllObjects, AddAllWatchers and Connect.
CreateBus(b) ==
  /\ bus' = [bus EXCEPT ![b] = "new"]
  /\ AttachObject(b) /\ AddAllWatchers(b)
  /\ UNCHANGED <<options, trouble, freed, watcher, ids, unsure, status, said, loops>>

\* The destructor frees the object, and nobody looks what is still attached to
\* it: the timer that ticks every second, the first attempt, the handler of a
\* queue.  See FreedConnectionCalled.
FreedIf(gone) == freed' = IF gone THEN 1 ELSE freed

\* The destructor's first part.  It is over at once when the status is 0, else
\* the thread waits: for ever, perhaps, if the connection comes or goes (for the
\* mutants: it does not wait).
NeverWaits(state) == "none"
Waiting(state) == CASE state = "up" -> "closing" [] state = "losing" -> "sinking" [] OTHER -> "doomed"

DeleteBus(b) ==
  /\ \/ bus[b] \in {"new", "lost"} /\ bus' = [bus EXCEPT ![b] = "none"]
        /\ object' = [object EXCEPT ![b] = "none"]
     \/ bus[b] \in {"new", "failed", "up", "losing", "lost"} /\ bus' = [bus EXCEPT ![b] = Waiting(@)]
        /\ UNCHANGED object
  /\ watcher' = [w \in Ids |->
       IF bus'[b] = "none" /\ b \in Watchable /\ w \in Listed(chain, <<"listed", b>>) THEN NoWatcher ELSE watcher[w]]
  /\ chain' = IF bus'[b] = "none" /\ b \in Watchable
              THEN [chain EXCEPT !.head[<<"listed", b>>] = [first |-> 0, last |-> 0]] ELSE chain
  /\ FreedIf(bus'[b] = "none")
  /\ UNCHANGED <<options, trouble, ids, unsure, status, said, loops>>

\* The close that Disconnect asked for is served, the destructor returns.
BusDeleted(b) ==
  /\ bus[b] = "closing" /\ Dispatching
  /\ bus' = [bus EXCEPT ![b] = "none"] /\ object' = [object EXCEPT ![b] = "none"]
  /\ watcher' = [w \in Ids |->
       IF watcher[w].bus # b THEN watcher[w]
       ELSE IF w \in Listed(chain, <<"listed", b>>) THEN NoWatcher ELSE Closed(w)]
  /\ chain' = IF b \in Watchable
              THEN [chain EXCEPT !.head[<<"listed", b>>] = [first |-> 0, last |-> 0]] ELSE chain
  /\ FreedIf(TRUE)
  /\ UNCHANGED <<options, trouble, ids, unsure, status, said, loops>>

Reconnects(b) == b = "system"

\* on_bus_get with a connection.
BusUp(b) ==
  /\ bus[b] = "new" \/ (bus[b] \in {"failed", "lost"} /\ Reconnects(b))
  /\ Dispatching
  /\ bus' = [bus EXCEPT ![b] = "up"]
  /\ IF b \in Watchable THEN RegisterWatchers(b) ELSE UNCHANGED <<watcher, unsure>>
  /\ UNCHANGED <<options, trouble, freed, ids, chain, telling, loops>>

\* Connections fail and are lost once, or MaxTrouble times.
Troubled == "trouble" \in options /\ trouble < MaxTrouble /\ (trouble = 0 \/ "again" \in options)

BusFails(b) ==
  /\ bus[b] = "new" \/ (bus[b] = "lost" /\ Reconnects(b))
  /\ Dispatching /\ Troubled
  /\ bus' = [bus EXCEPT ![b] = "failed"] /\ trouble' = trouble + 1
  /\ UNCHANGED <<options, freed, watching, telling, loops>>

\* on_name_lost, also while the destructor waits.
BusLost(b) ==
  /\ bus[b] \in {"up", "closing"} /\ Dispatching /\ Troubled
  /\ bus' = [bus EXCEPT ![b] = IF @ = "up" THEN "losing" ELSE "sinking"] /\ trouble' = trouble + 1
  /\ IF b \in Watchable THEN UnregisterWatchers(b) ELSE UNCHANGED watcher
  /\ UNCHANGED <<options, freed, ids, chain, unsure, telling, loops>>

\* on_name_lost_close: the status was 4 before, or 3.
BusClosed(b) ==
  /\ bus[b] \in {"losing", "sinking"} /\ Dispatching
  /\ \E s \in (IF bus[b] = "losing" THEN {"lost", "failed"} ELSE {"doomed"}) : bus' = [bus EXCEPT ![b] = s]
  /\ watcher' = [w \in Ids |-> IF watcher[w].bus = b THEN Closed(w) ELSE watcher[w]]
  /\ UNCHANGED <<options, trouble, freed, ids, chain, unsure, telling, loops>>

\* The destructor is lucky: its own close is served first, or the connection
\* comes up before the disconnect is served.
BusSaved(b) ==
  /\ Dispatching /\ bus' = [bus EXCEPT ![b] = "closing"]
  /\ \/ bus[b] = "sinking" /\ UNCHANGED <<watcher, unsure>>
     \/ /\ bus[b] = "doomed"
        /\ IF b \in Watchable THEN RegisterWatchers(b) ELSE UNCHANGED <<watcher, unsure>>
  /\ UNCHANGED <<options, trouble, freed, ids, chain, telling, loops>>
=============================================================================
