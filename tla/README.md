# Verification of dbus2vdr

dbus2vdr is a plugin of VDR (a video disk recorder). It publishes VDR on D-Bus:
on the system bus, on session buses it is told of, and on a network bus whose
address it finds in a file. This directory holds TLA+ modules that model its
parts, TLC configurations that check them on small instances, and theorems that
TLAPS proves for all values of the constants. `PROJECT.json` lists the runs, the
source lines behind every definition, one mutant of the code per property (each
makes TLC find the property violated), the hazards and the findings.

To check everything by hand, in this directory:

    tlc -workers 2 -config MCConnection.cfg MCConnection
    tlapm Connection_proofs.tla

and so on for each `.cfg` (the runs of `PROJECT.json` name the module of each)
and each `*_proofs.tla`.

## 1. The system

### Threads

| thread | started by | what it runs |
|---|---|---|
| VDR's main thread | VDR | `cPlugin::Start`, `Stop`, `MainThreadHook`, `SVDRPCommand`, VDR's status callbacks, the OSD |
| main loop | `cDBusMainLoop` (mainloop.c) | the GLib default context: every callback of every `cDBusConnection` |
| monitor loop | `cDBusNetwork::Start` (network.c) | the file monitor of the network address: makes and deletes the network connection |
| method pool, 10 threads | `cDBusObject::handle_method_call` (object.c) | every D-Bus method call |
| signal pool, 10 threads | `cDBusConnection::do_emit_signal` (connection.c) | emits the queued signals, a batch per job |
| OSD provider | `cDBusOsdProvider` (osd.c) | turns OSD messages into signals |
| other processes | the method pool | shutdown-wrapper, shutdown-hooks |

### Components

| component | state | operations | interacts with |
|---|---|---|---|
| connection (connection.c) | `_connect_status` 0..4, `_disconnect_status` 0..2, `_reconnect`, `_connection`, `_owner_id`, lists of objects, watchers, signals, method calls, subscriptions | Connect, Disconnect, Flush, EmitSignal, CallMethod, Subscribe, Watch/Unwatch; callbacks `do_*`, `on_*` of the main loop | main loop, GIO, signal pool, objects, every user of the bus |
| objects (object.c) | list of methods, registration ids, the method pool | Register, Unregister, handle_method_call, do_work | connection, all interfaces |
| main loop (mainloop.c) | `_loop`, `_started` | constructor, destructor, do_loop | plugin, network |
| network (network.c, avahi-helper.h) | `_address`, `_connection`, `_monitor`, `_avahi_id`; list of clients | Start, Stop, do_connect, do_disconnect, on_file_changed, on_name_acquired/lost; clients: OnConnect, OnDisconnect, OnTimerChange, Start/Stop/RemoveClient | connection, avahi4vdr plugin |
| plugin (dbus2vdr.c) | the three buses, the main loop, the watchers, options | ProcessArgs, Initialize, Start, Stop, MainThreadHook, Service, SVDRPCommand, Start/StopSessionBus | everything |
| status of VDR (vdr.c) | `_status`, list of cDBusVdr | SetStatus | plugin, connections |
| status signals (status.c) | a list of status objects, replay state | VDR's callbacks, IsReplaying | connections |
| OSD (osd.c) | the provider, its message queue | CreateProvider, DeleteProvider, CreateOsd, Flush, Action | VDR's OSD, connection |
| shutdown (shutdown.c, shutdown-wrapper.c, cExitPipe in helper.c and libvdr-exitpipe.c) | none of its own between calls; two child processes during one | ConfirmShutdown, ManualStart, NextWakeupTime, SetUserInactive | VDR's timers, recordings, plugins; hooks |
| remote (remote.c) | main menu action, the open question | CallPlugin, Enable, Disable, HitKey, AskUser, SwitchChannel, Get/SetVolume | VDR's remote control |
| setup (setup.c) | table of parameters | Get, Set, Del, List | VDR's Setup |
| timers, recordings, epg, channels (timer.c, recording.c, epg.c, channel.c) | VDR's lists | create, delete, list, play, import | VDR's locks |
| devices (device.c, nulldevice.c) | the requested primary device | RequestPrimary, RequestedPrimaryDevice | plugin's MainThreadHook |
| plugins, skin (plugin.c, skin.c) | none | Service, SVDRPCommand, QueueMessage, list/set | VDR |
| libvdr-*, sd-daemon | third-party code | | wrapper, plugin |

### What makes each part correct

* **connection**: the status can be trusted; a kept connection is never left
  without somebody who will connect it; queues are served and served once;
  names, objects and watchers are registered together and on a live connection;
  a user of the callbacks hears of every loss; the blocking destructor returns.
* **shutdown**: "ready" is said only if every hook agreed;
  nothing that was tested has changed while the hooks ran; no hook still runs then;
  the request always ends, so that the timers do not stay locked.
* **main loop**: the constructor returns when the thread runs; the destructor
  ends it, whenever it is called.
* **network**: at most one connection; a published service belongs to a name
  that is owned; nothing is called on what was freed.
* **objects / plugin**: no method runs on a freed object; Stop ends with no
  thread left; every bus hears Start, Ready and Stop in this order.
* **OSD**: the images between Open and Close reach a listener in their order;
  nobody uses a deleted provider.
* **remote**: one question at a time; every question is answered once.
* **setup**: a setting is what it was set to last, in memory and in the file.
* **all methods**: a call that is refused has changed nothing; no lock outlives
  the call that took it, and no two calls wait for each other's.
* **status signals**: what is told of a replay, on every bus, is what VDR replays.
* **devices**: a request for the primary device is served once.

### Hard behaviours

The code has two kinds of trouble: state that several threads share with few
locks (`_reconnect`, `_connection`, `_connect_status`, the static pools, the
OSD provider, the question of AskUser), and conversations with something that
may not answer (GIO's asynchronous calls, hooks, the avahi plugin). The full
list, each at its line and with the properties that cover it, is under
"hazards" in `PROJECT.json`.

## 2. The modules

| module | models | kind |
|---|---|---|
| `ConnectionAbs` | what a connection promises to its users: attempts, losses, retries | abstract specification |
| `BusLife` | the life of a connection from its constructor to its end, as its owner meets it | abstract specification |
| `Connection` | connection.c, one `cDBusConnection` | detailed specification |
| `MCConnection` | the profiles of connections the plugin makes | for TLC |
| `Connection_proofs` | theorems about `Connection` | for TLAPS |
| `Shutdown` | shutdown.c, shutdown-wrapper.c, `cExitPipe` | detailed specification |
| `MCShutdown` | | for TLC |
| `Shutdown_proofs` | theorems about `Shutdown` | for TLAPS |
| `Emission` | the signals' way through a connection that is up: queue, main loop, pool | component used by `Osd` |
| `Osd` | osd.c, composed with `Emission` | detailed specification |
| `MCOsd` | | for TLC |
| `Osd_proofs` | theorems about `Osd` | for TLAPS |
| `MainLoop` | mainloop.c: the threads that run a GMainLoop | component |
| `Buses` | the connections as the plugin sees them, the watchers (connection.c), the objects `/vdr` (vdr.c) | component, extends `MainLoop` |
| `Network` | network.c: the file, its monitor, the network bus, its service, the clients | component, extends `Buses` |
| `Plugin` | dbus2vdr.c: Initialize to Stop, composed with all of the above | detailed specification, extends `Network` |
| `MCPlugin` | | for TLC |
| `Plugin_proofs` | theorems about `Plugin`: the requests; what the next three share | for TLAPS |
| `Network_proofs` | the network's connection and its service | for TLAPS |
| `Watchers_proofs` | the watchers and their list | for TLAPS |
| `Types_proofs` | the types of `Plugin` | for TLAPS |
| `MethodPool` | object.c: calls and the pool that runs them; VDR's locks | component |
| `Channels`, `Remote`, `Setup`, `Timers`, `Status`, `RecordingsList`, `Epg` | the interface of the same name, and the signals of status.c | components on `MethodPool` |
| `Desk` | skin.c, plugin.c, device.c, nulldevice.c | component on `MethodPool` and `Status` |
| `Methods` | all interfaces together, beside VDR's threads | detailed specification |
| `MCMethods` | the methods in groups that meet | for TLC |
| `Methods_proofs` | theorems about `Methods` | for TLAPS |

The modules form three compositions: `Connection` alone, from the inside;
`Plugin` on `Network` on `Buses` on `MainLoop`, in which a connection is only up,
lost, failed or being deleted; and `Methods` on the interfaces on `MethodPool`.
`Osd` on `Emission` stands beside them. `BusLife` joins the first two: `Connection`
implements it, and every bus of `Plugin` does, so that the plugin is checked with
connections that behave as the code of a connection does.

### Connection

*State.* Fields of the class under their own names; `profile` stands for
`_bus_address`, `_busname` and the argument of `Connect`; `objects` and
`watchers` are one flag each because the code registers all of them in one loop
of one handler. The lists of signals and calls are counted. `pending` counts,
per callback, the GLib sources attached and the asynchronous GIO operations
under way: an idle source that returns FALSE and a completion are removed when
they run, the one second timer stays as long as it returns TRUE.

*Who acts.*

* The **owner** is the thread that makes and deletes the connection. It is split
  where it reads a field that the main loop writes without a lock: Flush's and
  Disconnect's tests of `_connect_status`, and the choice of `do_flush` or
  `do_disconnect`. Disconnect holds `_disconnect_mutex` until it waits, which
  the handlers that lock it have to respect (`Unlocked`).
* The **main loop** runs one handler at a time: a handler is one action. The
  exception is `on_name_lost_close`, which tests `_reconnect` and then calls
  `Connect(TRUE)`, overwriting what Disconnect may have written in between:
  `loop = "reconnect"` is the point between the two.
* **Any thread** may call `EmitSignal` and `CallMethod` (both under
  `_flush_mutex`). With `LateMessages` they come during Disconnect too.
* The **signal pool** emits signals one by one on whatever `_connection` is.
* **GIO and the bus** answer `on_bus_get` with success or failure, take the name
  away (`on_name_lost`, which also stands for a closed connection), complete
  flushes and closes. `g_dbus_connection_close` and `_flush` on NULL never call
  back (`Awaited`).

*Abstracted.* Message contents; the text of errors; the error path of a pool
that cannot be created; an owner that never calls Connect (nobody does that);
a NULL address (no caller passes one). A disconnect that is queued before an
attempt starts is handled before the attempt's answer (`NoneQueued`): GLib keeps
sources of one priority in order.

*After the destructor.* Disconnect returns at once when the status is 0, and asks
for the close only otherwise: a timer, a first attempt or a queue's handler may
still be attached when the object is freed, and a batch be with the pool. GLib then
calls them with the freed object. `UseAfterFree` is that step; VDR is `crashed` by
it or, as after `freed`, nothing is left to follow. It is a behaviour of the model
that no property forbids, since the code does not.

*Properties.* `StatusIsTrue`, `NeverStranded`, `QueuesServed`,
`RegisteredTogether`, `LossReported` are invariants, `Promise` is the refinement
of `ConnectionAbs` under `phaseSeen`, `LifeLed` that of `BusLife` under `lifeSeen`. `RegisteredTogether` and `NeverStranded`
exclude what follows once the owner has asked for the end (`Asked`,
`Overwritten`): there the race above is real, and the connection may register
again while its owner waits.

### Shutdown

*State.* VDR's clock, timers, plugins' wakeup and recordings; the position and
the local variables of ConfirmShutdown; the position and the local variables of
the wrapper; per pipe the state, output and exit code of the child and how often
Close still looks for its end; `outlived`, the hooks of this request whose shell was
killed and which run on. Output is kept as one of the kinds of text the
code looks for. A process goes running - closed (its output has ended) - exited.

*Who acts.* VDR's threads change timers and recordings only while the timers'
lock is free: the model is the build for VDR later than 2.3.0, in which
`LOCK_TIMERS_READ` holds to the end of the handler, hooks included. The pool's
thread runs ConfirmShutdown, the wrapper runs the hooks in order, a hook prints
anything and ends with success or failure, or never ends.

*Kills.* The child of a pipe is `/bin/sh -c` (libvdr-exitpipe.c:67). After its last
look Close kills that process and forgets it; the shell may have become the program,
or have forked it. So a hook whose output is closed may run on after the kill
(`OutlivesShell`), until it ends by itself (`EndOutlived`). What the wrapper reports
then is -1, so that the request is refused while such a hook runs: this is what
`HooksFinish` relates, over hooks that end in time, late or never. A wrapper that
outlives its shell has ended its output, and only has to exit.

*Abstracted.* One request at a time; a hook that outlives the request too is followed
no further. Exit by a signal
and exit code other than 0 are the same to the code. The parameters of the hooks
are the time they are told. `StillQuiet` speaks of the time that was read before the
hooks were asked, for the code never looks at the clock again: a timer that was far
then may be near, or due, when VDR is declared ready. TRY_AGAIN and SHUTDOWNCMD stand for texts with a
usable value.

### Emission and Osd

*State.* Emission keeps what Connection only counts: the queue `_signals`, the
batches pushed to the pool, what each thread of the pool has left of its batch,
and what went out. Osd adds the provider and how far its destructor is, its
thread's place in the loop of `Action`, the message queue, the OSDs VDR has
opened with the number of their directory, and the files on the disk. `sent`,
`late` and `killed` are history: what a working provider was sent, how many
messages came during its destructor, whether its thread was cancelled.

*Who acts.* VDR's threads open, draw and close OSDs at any time, also while the
provider is being deleted (VDR's own pointer to it is reset after the
destructor); the provider's thread; a thread of the method pool that creates and
deletes the provider; the main loop and the pool behind them. The destructor is
three steps, for it wakes the thread before it tells it to end.

*Abstracted.* The connection is up throughout (Connection models the rest). One
request to create or delete a provider at a time; the replies 250 and 900 change
nothing. Time passes only while the provider's thread waits: its work takes no
time against the seconds of `TimedWait` and `Cancel`. Which of the open OSDs is
active, and so may be drawn, is VDR's choice. What an OSD sends to a deleted
provider goes to freed memory: the model loses it, and a crash is a behaviour
that stops there. Pixels, PNG and names of files are left out; a file is its
directory's number and its own.

The option `--osd` only registers the object: nothing in the source creates a
provider at the start, although README:499 says so.

### MainLoop, Buses, Network and Plugin

*State.* `loops` is how far the thread of each main loop is; `bus` the state of
each connection, in the words of `Connection`'s status: `failed` is status 1 or 2
without a connection, `losing` the time from `on_name_lost` to the close. The destructor waits
in `closing` for the close of the connection, in `sinking` when the name is lost
before that, and in `doomed` when there is no connection to close.
`watcher` is the `cDBusWatcher`s, `chain` the lists they are in, with VDR's links
inside the objects: the list decides who is registered, and `AddAllWatchers` adds
to one list what still is in another. `object` is the `cDBusVdr` of each bus, which
is on the list of status objects before it has a connection. `file`, `changes`,
`tasks` and `monitor` are network-address.conf, the reports of GIO, the sources of
the monitor's context and the monitor thread; `services` what avahi4vdr publishes.
`at` is the next step of VDR's main thread; `request` and `primary` are the devices.

*Who acts.* VDR's main thread goes through Initialize, Start, hooks and SVDRP
commands, and Stop, one call at a time; where a call waits for another thread it
stays. The main loop's thread serves the connections, GIO's reports and the
clients (`Dispatching`: without the option `--mainloop` somebody else runs GLib's
default context). The monitor's thread connects and disconnects, in steps, since
it changes what the main loop reads. The pool's threads request devices. A bus
may fail or be lost, the file be written or deleted, other VDRs come and go.

*Abstracted.* The inside of a connection, of which `Connection` is the model:
`DeleteBus` returns at once or waits, as Disconnect does, and a connection that comes
or goes meanwhile may be waited for without end. What a `doomed` connection still
does is not followed, but that it may come up after all (`BusSaved`). Addresses
are numbers, 0 a text that is none. A file that is renamed is reported as MOVED, which
`TaskOf` makes no task of, as the code ignores it. A client has no state but the
subscription: what it calls changes nothing.

*Crashes.* Four uses of what is not there, or no longer, end in a step of their own
(`Crash`), in which everything stops: an object without a connection is told the
status (`ObjectUnconnected`); something that was left attached gets a freed
connection (`FreedConnectionCalled`, from the first connection freed on: `freed`); a
connection that a deleted client left behind (`strays`) calls the client
(`FreedClientCalled`); `on_name_acquired` reads the address that `do_connect` has
just freed (`FreedAddressRead`). Such a use may also go well: then it changes nothing,
but that a service may be published with any port.

*Properties.* `WatchersServed`, `FollowsFile`, `ServiceWithdrawn` and
`RequestServedOnce` are invariants, `StopReturns` is a liveness property. Each
leaves out by name what the code does not achieve: see section 5. `TornDownInOrder`
relates the connections to the loops that serve them, and the steps of Stop to the
monitor's thread, which makes and deletes the network's connection too. `LivesLed`
is the refinement of `BusLife` by each of the three buses.

### MethodPool, the interfaces, and Methods

*State.* `call` is what each thread of the pool works on: the method, its
arguments, how far it is, and the answer once it is sent; a thread has answered
before it leaves the method and so gives up its locks. `holds` is the locks of
VDR's lists, by holder, with how long: to the end of the scope (`LOCK_..._READ`)
or until a key is removed (the schedules). Each interface adds the part of VDR it
works on: `menu` and `shown` are the question of AskUser and the menu on the
screen; `variable`, `lines` and `file` are VDR's variables, its list of other
settings and setup.conf; `control` is what VDR replays, `telling` what its status
monitors have still to hear of it; and so on.

*Who acts.* A method without a lock whose steps another thread can come between
is split there: AskUser into its test, the opening and the call of VDR; Set of a
setting that is only a line into saving, loading, changing and loading back; Play
into stopping, choosing and launching, under a lock that excludes no other
reader. PutFile answers first and then reads (`ReplyThenRead`, `ReadFile`). A method
that holds its lock from its look to its answer is one action.
VDR's threads lock lists, record, scan, show menus and messages; its user
answers questions, starts replays and takes devices.

*Abstracted.* The answers' contents where no property speaks of them: what is
told of a timer, a recording or an event is its identity. The build is the one for
VDR later than 2.3.0, with the patch for extra video directories. `Left` frees the
locks as the scope's end does. A plugin's own code for a command is one of three
(`PluginCodes`), passed on with its text. The list of channels may be empty: TLC runs
one that is not, and the theorems, which hold for any, are what covers the other.
The object of a session bus may be deleted while the pool works on it: that call
reads freed memory (`bereft`, `ReadsFreed`) and may crash, fail or answer anything.
Texts that name a key, a channel or a setting are
that thing, "unknown" or "invalid".

*History.* `asked`, `accepted`, `answers` (Remote), `wanted` (Setup) and `wrote`
(Methods) record what the properties compare with. `raced`, `risky` with
`crossed`, and `mixed` mark what met a race that the code has and no property
can promise away.

*Properties.* `RefusedChangesNothing` compares every part of VDR with the answer a
call got, at whichever step it was refused. `QuestionAnswered` follows a question
from the call that was accepted over VDR's menus to the one signal that answers
it. `SetupSaved` says that what was set last is what VDR and setup.conf have,
whatever other calls save, delete and load in between; it leaves out, setting by
setting, what was changed while a line was being replaced (`risky`) and a line
that is stored and not loaded back. `ReplayTold` relates what
VDR replays with what each bus was told and answers. `LocksLetGo` says that a
thread with a lock can always go on, and that no lock outlives its call.

## 3. The runs

| run | instance | what it shows |
|---|---|---|
| connection | all four profiles, late messages, 2 signals, 1 call, 2 losses, 1 failed attempt | the safety properties, `Promise` and `LifeLed` in every interleaving |
| connection_live | the two profiles the plugin uses with a name, 1 signal, 1 loss, 2 failures, fair | a lost connection comes up again, queues drain, attempts are answered, Disconnect returns while there is something to disconnect |
| connection_hang | session bus, one loss, fair | **finding**: Disconnect waits for ever |
| connection_stop | system bus, one signal | **finding**: the signal "Stop" may be dropped |
| shutdown | up to 2 hooks, times up to 2 ahead, 2 looks for a child's end, fair | the safety properties and `Answered` |
| shutdown_try_again | one hook | **finding**: reply 991 is never sent |
| wakeup | no hooks | **finding**: a plugin's wakeup alone is not reported |
| osd | 2 OSDs with an image each, 2 providers, one thread in the pool | images are safe from other OSDs, no message is slept on |
| osd_delete | 1 OSD with 2 images, a pool of 2, a wait of 2 ticks and a patience of 4, fair | nothing is dropped or doubled on the way to the pool, everything goes out, the thread is cancelled only under steady load |
| plugin | five ways to start it, 3 watchers, 2 losses or failures (1 of the network), 2 changes of the file, 2 other VDRs, 3 commands, 2 requests, fair | the plugin from Initialize to Stop, with every thread it meets; it takes itself apart in order, and its buses lead the lives of connections |
| methods | two threads of the pool, twelve groups of methods with 1 to 3 calls each | every method of every interface, beside others that work on the same things |
| osd_order | as osd with a pool of 2 | **finding**: images go out in the wrong order |

*Bounds.* Two losses are the least that lets the timer of the first loss meet
the second attempt, and two signals the least that distinguishes "attach a
handler" from "the queue already has one"; one failed attempt brings the retry,
and together with a loss the two timers that share one status (the inductive
invariant was also checked with four losses). Two hooks are the least in which
one agrees and another refuses; the code's five looks at a child's end are 2
here since only the last one differs from the others. The clock runs to `MaxTime`
2, and `Horizon` 3 is how far ahead something is planned: with `MinEventTimeout`
1 this is the least that lets a timer be near, far and reached, and a plugin's
wakeup lie before a timer with neither of them near. Two OSDs are the least in
which one could delete the other's files, two providers the least that outlive
each other, two threads of the pool the least that overtake each other. A wait of
two ticks lets a message come in the middle of it, and twice that as the patience
of Cancel is the least for which one late message makes a difference. Deadlock is not checked in the
connection's runs: after the destructor, or a crash, nothing more happens, by design; the hang
that is not by design is the subject of `DisconnectReturns`. Nor in those of Osd,
where VDR just stops using OSDs when the bounds are reached.

A plugin is started in five ways (`MCOptions`), each with what interacts: the
watchers with losses of the system bus and with a session bus that SVDRP
commands make and delete; the network bus, which fails to come up or is lost once, with changes
of its file; its clients with events; method calls with two buses that may be lost
twice (option `again`). Three commands are the
least that lets SVDRP make, delete and make a bus again. Two waiting watchers are the least that
lets `AddAllWatchers` unlink one, three that lets it leave a link to one that is
deleted later; two changes of the file the least that makes it come
and go, and two losses meet a watcher that was added between them. The methods
are called in groups (`MCOffers`) that share something: questions come three at
a time with calls of plugins, since a question needs one call to be shown, one to
be in its way and one to come after; elsewhere two calls on two threads are every
pair of methods in every interleaving. Channel 2 is a gap in the numbers and one
entry is a group; one channel has a schedule. Deadlock is not checked in either:
after Stop and after the last call nothing more is done, and a call of ClearEPG
that crashed VDR stays where it is, as a crash of the plugin ends everything.

*Fairness.* Plugin: VDR's main thread goes on with a call it has begun, each
loop's thread runs, the sources of GLib's default context that a thread waits for
are served, the monitor's thread does its tasks and method calls end, until VDR
crashes. Nothing
makes VDR call Stop, a bus be lost or the file change. `methods` states safety
only: which call comes next, and whether VDR's user ever answers, is not the
plugin's. Connection: weak fairness of every handler (one thread dispatches
all of them in turn), of GIO's answers to what was asked, of the pool, and of the
owner's steps within Connect and the destructor. The bus need not take a name
away, VDR need not delete the connection and nobody need queue a message.
Failures are bounded, so "the bus comes back" is part of the assumption of
`AutoReconnects`. Shutdown: weak fairness of the request, of the wrapper and of
the hook's closing of its output. No fairness lets a hook end: `Answered` holds
because Close kills it. A hook that never closes its output would block the
request; nothing in the code prevents that, and the fairness says so. Osd: weak
fairness of the provider's thread, its destructor, the passing of time, the main
loop and each thread of the pool; none of VDR's threads and none of the requests.

## 4. The proofs

`Connection_proofs` proves for all values of the constants (the assumption on
them is not even needed) that `Spec` implies every safety property of
`connection` and both refinements. The invariants are not inductive by themselves.
`IInv` adds what the code never says:

* `Untouched`: before Connect nothing is attached but queued messages;
* `ClosersAsked`: a flush, disconnect or close is pending only for an owner that
  asked for it, one in total;
* `OrderAlone`: a `do_connect` is pending only when the status is 0 and nothing
  else can change the status;
* `LoopAlone`, `LossAlone`, `CloseAlone`: while a loss or a close is being
  handled nothing else that changes the status is pending;
* `TypedAtOnce`: a connection made from a bus type never awaits a close.

The two facts they turn on are that only one callback that may change the status
to "up" is ever pending, and that the connection's flags change together in one
handler. The proof has one lemma per conjunct of `IInv`, each with a step per
action that can disturb it; `InvStep` combines them, `AbsStep` shows that every
step is one of `ConnectionAbs` or a stutter.

`Life`, the refinement of `BusLife`, needs `LifeInv` beside it: before the first loss
nothing of a loss is pending (`Counted`), without automatic reconnect there is one
attempt (`OneAttempt`), and a connection that is up stays open until it is lost or
its owner has asked for the end (`OpenUntilAsked`). `lifeSeen` reads many variables;
`SameLife` says which few decide whether a step is seen at all.

`Shutdown_proofs` proves every invariant of the run `shutdown`, for any number
of hooks and any times and patience (from `ShutdownAssumption`: they are natural
numbers). Its `IInv` adds to the properties and the types:

* `Locking`: ConfirmShutdown holds the timers' lock from its look at the timers
  on, and as long as it does no recording runs and no timer is near;
* `WrapperRead`: the wrapper runs only while ConfirmShutdown reads it, a hook only
  while the wrapper does;
* `Approvals`: the hooks that the wrapper has gone past have all agreed;
* `Sealed`: a wrapper that ended with exit code 0 had asked every hook - which
  the eight bits of an exit code put at risk, and no code it returns is a multiple
  of 256;
* `Outliving`: a hook that runs on after it was given up is the last that was asked,
  and the wrapper fails on account of it;
* `Told`: the time for the hooks is the timer's, and the earlier one once they
  are called.

`Approvals` and `Sealed` are what makes "ready" sound: the wrapper's exit code is
all that ConfirmShutdown knows of the hooks. `StillQuiet` (theorem `AsTested`) rests
on `Locking`, `HooksFinish` (theorem `HooksFinished`) on `Outliving`.

`Osd_proofs` proves the invariants of the runs `osd` and `osd_delete`, from
`OsdAssumption`. Its `IInv` adds:

* `Numbered`: every OSD has a directory of its own, and the next number is the
  number of OSDs so far, whatever happened to their providers;
* `ClosedOnly`: a message that deletes files when it is destroyed, in the queue
  or in the thread's hands, speaks of an OSD that is closed;
* `InStep`: the thread has a message when it handles one and time left when it
  waits.

`ImagesKept` rests on the first two: the files that a destructor deletes lie in
a directory that no open OSD has. `KilledOnlyIfFed` needs one more invariant,
`Paced`: what the destructor has waited is at most one whole wait of the thread
for each message that came late, and the wait under way or just over. A late
message pays for the wait it cuts short.

`Handover` speaks of sequences: what a provider's thread was sent is followed
through its queue, the thread's hands, the connection's signals and the batches
(`Line`) to the pool (`Out`). `HandInv` makes it inductive:

* `Fresh`: no message is ever sent twice, because each is about something that was
  not so before (an OSD that did not exist, an image not yet counted, an OSD still
  open) - so that "emitted once" can be said of messages and not of places;
* `Idle`: the thread's hands are empty unless it handles a message, and without a
  provider there is neither queue nor thread;
* unless a thread was cancelled, `Once` (no message is with two threads, or with
  one and emitted) and `Behind` (the line is the end of what was sent, and what
  stands before it is out).

The batches are joined with `FlattenSeq`, a recursive function of the library.
`JoinsExist` shows that there is one, and `FlattenAppend` and `FlattenHead` what
a batch more or less does to it.

`Plugin_proofs`, `Network_proofs`, `Watchers_proofs` and `Types_proofs` prove every
invariant of the run `plugin` for any addresses, devices, options, clients and
number of watchers, from `PluginAssumption` and the assumptions of the modules
that `Plugin` composes:

* `RequestServedOnce` (`RequestInv`): with the types of the three variables it
  reads it is inductive. A request adds one to those that may be served and
  replaces one that waited, the hook counts the one it serves as it takes it away,
  and no other step, of any thread, touches them.
* `ServiceWithdrawn` (`ServiceInv`): a published service belongs to the connection
  that owns its name, or is an orphan of one that was deleted; numbers of services
  are never used twice. `ClientInv` counts clients and the connections they leave
  behind against the events of avahi4vdr.
* `FollowsFile` (`FollowInv`): `StageInv` says how far the monitor's thread can be
  while the main thread is where it is. Then, as long as no change was missed,
  either something is on its way to the thread and the last of it is the task that
  the file asks for, or what the thread is doing fits the file (`Settled`).
* `WatchersServed` (`WatchInv`): the links of a list are kept in the watchers, and
  `Add` and `Del` write them without asking whose they are. The invariant is stated
  for an assignment `own` of buses to watchers, also to those that were deleted and
  are still linked: no link leaves its bus (`ChainOK`), who is reached from a
  connection that is up is watched (`ListedServed`), who waits is not
  (`WaitingUnwatched`), and a watcher believes what is so (`Believed`).
  `AddAllWatchers` is a recursive function; that it is defined (`MovesExist`) and
  keeps the invariant (`AllMoved`) is an induction over the watchers it moves.
* `LivesLed` (theorem `Lives`): each bus leads the life of `BusLife`. With `Life` above
  this is an argument of assumption and guarantee with both halves proved: what
  `Plugin` assumes of a connection (`BusLost`, `BusClosed`, `DeleteBus`, ...) are steps
  that `Connection` takes, as far as its owner can tell. The proof needs that a bus
  is made only where there is none, which for the network's is `FollowInv`.
* `TornDownInOrder` (theorem `TearDown`, `StopInv`): the threads of the loops and of
  the monitor go on while Stop waits for them. `StopInv` says for each step of Stop
  what is gone by then: the monitor's thread is joined before the network's
  connection is deleted, each bus is gone before the next one's turn, and the main
  loop is told to quit after the last. Until then it says that the main loop serves,
  and that the monitor's thread is inside its loop when it is at work.
* `TypeOK` follows from these, from `SaidInv` (the status of the plugin is told at
  most once per stage) and from `CountInv`.

`Methods_proofs` proves every invariant of the run `methods` but `LocksLetGo`, for
any number of threads and calls and any channels, recordings, settings, values and
contents, from the assumptions of `MethodPool` and the interfaces. The methods are
about sixty actions of one model. What the pool has to know of each - the steps
it may go to and the locks it takes and lets go - is proved once, action by action
(`Effect`), for `CallInv` (every call is at a step of its own method, with arguments
it may have: `OnTheWay`) and `LockInv` (one writer or many readers, and a lock only
in the middle of a call). The lemmas named `...Own` say that an interface's actions
run for its own methods. Each property then needs its interface's actions only:

* `HoldersDoNotWait`: a thread that holds one of VDR's locks is never at a step
  that waits for one. This is the part of `LocksLetGo` that can be said without
  `ENABLED`: no two calls wait for each other.
* `RefusedChangesNothing` (`RefusedInv`): before the steps of `NoWrite`, and after
  an answer that refuses, nothing was written.
* `QuestionAnswered` (`QuestionInv`): the questions asked and the calls that may
  still ask are together no more than the calls; a question is answered once and
  not while its menu is open; and if no two calls raced there is one question at
  a time, whose menu is open, shown or about to be (`OneOpen`).
* `SetupSaved` (`SetupInv`): what the second list, the file and VDR's own list hold
  in the middle of a replacement. A setting that nobody may have lost is what it was
  set to (`SettingsTrue`), also in a copy that was loaded (`CopiesTrue`); what is
  set during a replacement is at risk (`NewIsRisky`); a line written by a thread on
  its own is in the file (`StoredAlone`); two threads that replace lines at a time
  are noted as such (`TogetherCrossed`).
* `ReplayTold` (`TellInv`, `PlayInv`): the last message that VDR has still to tell
  is about what it replays, and once all is told the objects have kept and sent it;
  Play keeps the list of recordings locked between its three steps, and whoever was
  not disturbed by another replay has, at each step, what it asked for.
* `TypeOK` (`VdrTypes`, `RecordingTypes` and the above).

Two inductions over numbers are needed, for `FlattenSeq` and for `AddAllWatchers`.
They are made from the smallest counterexample, which exists because `<` is well
founded on the numbers.

What stays with TLC: liveness (`Answered`, `FairPromise`, `AutoReconnects`,
`QueuesDrain`, `DisconnectReturnsWhileUp`, `Announced`, `StopReturns`), for the
prover does not handle fairness; `LocksLetGo`, which is stated with `ENABLED`; and
the findings, which are TLC's counterexamples.

## 5. Where the code does less than one may expect

Findings with a counterexample are in `PROJECT.json` and in the runs that expect
a violation. The following was met while modelling. The models do what the code
does, and the properties leave these cases out by name.

* `AddAllWatchers` (dbus2vdr.c:138) takes a watcher from the list of waiting ones
  after adding it to the connection's, whose links it then overwrites: with two
  waiting watchers the second is not reached from the connection's list, nor is
  any that is added behind it later; with three, one that UnwatchBusname deletes
  stays linked. `WatchersServed` speaks of those that the list reaches.
* WatchBusname (dbus2vdr.c:659) tests the status and then adds the watcher, while
  the main loop may register or unregister all of them (`unsure`).
* The destructor of a main loop that does not run yet has its quit forgotten, and
  waits for ever (mainloop.c:24; `early`).
* A file that changes between the test and the monitor (network.c:207-217), or is
  renamed (network.c:129), is followed only from its next change on (`missed`).
* The service of a deleted network connection stays published (`orphans`), and a
  client that is deleted leaves its connection behind, which goes on calling it
  (`strays`).
* The destructor of a connection leaves timers, idle sources and batches attached to
  the freed object (connection.c:254, 461; `UseAfterFree`, `freed`); the object of a
  status is deleted beside a call of IsReplaying (status.c:107, dbus2vdr.c:248).
* `cExitPipe::Close` kills the shell, not what it has forked: a hook may run on after
  its request was answered (libvdr-exitpipe.c:67, 103). A hook that never closes its
  output blocks the request, and VDR's timers, for ever (shutdown-wrapper.c:54).
* ConfirmShutdown says "ready" of the time before the hooks ran (shutdown.c:66).
* The status and the connection are written apart (connection.c:364/368, 387/407);
  another thread may see the one without the other. The models have no such moment.
* Two calls of AskUser may both find no question open; the call that is refused
  deletes a menu that VDR may show already (`raced`). A menu keeps the object it
  was asked through, also when its bus is deleted (remote.c:26).
* Set of a setting that is only a line (setup.c:431-442) loses what is changed
  between its steps (`risky`).
* Play by two threads may play the other one's recording (`mixed`). A session bus
  made during a replay answers that nothing is replayed.
* ClearEPG with a number in a gap of the channels' numbers uses NULL (epg.c:121).
* New and Next of the timers answer with a place in the list, Delete takes an id
  (timer.c:124, 142, 240); numbers of recordings may be stale when they are played.
* SwitchChannel does not ask whether "+" and "-" had success; SetVolume with a value
  of another type sets the volume to 0; PutFile answers before it reads.

## 6. Not modelled, and the plan

Done: the connection from the inside, shutdown, the OSD, the plugin's life with
its loops, buses, network and watchers, and the methods of all interfaces.

Left, in this order:

1. Proofs of the parts of the liveness properties that are safety: that a step of
   the destructor is never disabled for good, that a queue which is not empty has
   a handler, for `Emission` as it is proved for `Connection`.
2. Several requests to the OSD's object at a time.

Not modelled and not planned: the third-party sources (libvdr-*, sd-daemon, which
the wrapper and the plugin link unchanged; `Buses` models the two operations of
their list that matter), the introspection texts, the scripts under bin and
packaging. In Connection, Subscribe and on_signal; in Shutdown, several requests
of ConfirmShutdown at once (each has a wrapper of its own, they share only VDR's
state), and the failure of `fdopen`, which is treated like a child that could not
be started; ManualStart and SetUserInactive call one function of VDR. In Network,
how avahi-helper.h takes texts apart. In Plugin, systemd, upstart and the level
of the log. In Methods, the branches for VDR up to 2.3.0.
