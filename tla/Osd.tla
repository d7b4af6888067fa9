-------------------------------- MODULE Osd --------------------------------
(***************************************************************************)
(* The OSD provider (osd.c).  VDR's threads open, draw and close OSDs;     *)
(* each image is written to a file and a message tells the provider, whose *)
(* thread turns the messages into signals and deletes the files of an OSD  *)
(* that was closed.  The provider is created and deleted by method calls.  *)
(*                                                                         *)
(* An OSD keeps a reference to its provider, which may be deleted before   *)
(* it: the message it sends then goes to freed memory.  The model loses    *)
(* it; if VDR crashes instead, that is a behaviour that stops there.       *)
(*                                                                         *)
(* Time passes in ticks, and only while the provider's thread waits: its   *)
(* work takes no time against the seconds of its wait and of Cancel.       *)
(***************************************************************************)
EXTENDS Emission

CONSTANTS
  MaxProviders,  \* bound: providers created
  MaxOsds,       \* bound: OSDs opened
  MaxImages,     \* bound: images of one OSD
  WaitTicks,     \* the second that the thread waits for a message
  CancelTicks    \* the ten seconds that the destructor waits for the thread

ASSUME OsdAssumption ==
  /\ {MaxProviders, MaxOsds} \subseteq Nat
  /\ {MaxImages, WaitTicks} \subseteq Nat \ {0} /\ CancelTicks \in Nat

VARIABLES
  provider,    \* "none", "on", or how far its destructor is: "waking", "ending"
  generation,  \* how many providers there were
  cancelLeft,  \* what is left of the destructor's patience
  killed,      \* 1: a provider's thread was cancelled
  late,        \* messages since the destructor asked the thread to end
  thread,      \* where the provider's thread is
  waitLeft,    \* what is left of its wait
  taken,       \* the message it handles, in a sequence
  msgQueue,    \* the messages it has not taken yet
  osds,        \* the OSDs VDR has opened, oldest first
  osd_number,  \* the number of the next directory
  files,       \* the images on the disk, as <<directory, number>>
  sent         \* all messages that a working thread was sent

life == <<provider, generation, cancelLeft, killed>>
worker == <<thread, waitLeft, taken>>
drawn == <<osds, osd_number>>
vars == <<life, late, worker, msgQueue, drawn, files, sent, emission>>

Message(action, o, n) == [action |-> action, osd |-> o, image |-> n]

Init ==
  /\ provider = "none" /\ generation = 0 /\ cancelLeft = 0 /\ killed = 0 /\ late = 0
  /\ thread = "off" /\ waitLeft = 0 /\ taken = <<>> /\ msgQueue = <<>>
  /\ osds = <<>> /\ osd_number = 0 /\ files = {} /\ sent = <<>>
  /\ EmissionInit

-----------------------------------------------------------------------------
(***************************************************************************)
(* VDR's threads.                                                          *)
(***************************************************************************)

Broadcast ==
  /\ thread' = IF thread = "wait" THEN "test" ELSE thread
  /\ waitLeft' = 0
Works == thread \notin {"off", "killed"}

\* o's provider is the one that exists.
Lives(gen) == provider # "none" /\ gen = generation

\* SendMessage of the provider with number gen.
SendMessage(gen, m) ==
  IF Lives(gen)
  THEN /\ msgQueue' = Append(msgQueue, m)
       /\ Broadcast
       /\ sent' = IF Works THEN Append(sent, m) ELSE sent
       /\ late' = IF provider = "ending" THEN late + 1 ELSE late
       /\ UNCHANGED taken
  ELSE UNCHANGED <<msgQueue, worker, sent, late>>

\* The number of the next OSD's directory (for the mutants: always the same).
SameNumber(n) == n
NextNumber(n) == n + 1

\* VDR asks the provider, also while its destructor runs, for an OSD.
CreateOsd ==
  /\ provider # "none" /\ Len(osds) < MaxOsds
  /\ osds' = Append(osds, [dir |-> osd_number, gen |-> generation, counter |-> 0, open |-> 1])
  /\ osd_number' = NextNumber(osd_number)
  /\ SendMessage(generation, Message("Open", Len(osds) + 1, 0))
  /\ UNCHANGED <<life, files, emission>>

\* The number of the next image of an OSD (for the mutants: counted from 1).
NumberAfter(osd) == osd.counter + 1
ImageNumber(osd) == osd.counter

\* One image of Flush.  Which of the open OSDs is the active one is VDR's choice.
Flush(o) ==
  /\ osds[o].open = 1 /\ osds[o].counter < MaxImages
  /\ files' = files \union {<<osds[o].dir, ImageNumber(osds[o])>>}
  /\ osds' = [osds EXCEPT ![o].counter = @ + 1]
  /\ SendMessage(osds[o].gen, Message("Display", o, ImageNumber(osds[o])))
  /\ UNCHANGED <<life, osd_number, emission>>

CloseOsd(o) ==
  /\ osds[o].open = 1
  /\ osds' = [osds EXCEPT ![o].open = 0]
  /\ SendMessage(osds[o].gen, Message("Close", o, 0))
  /\ UNCHANGED <<life, osd_number, files, emission>>

-----------------------------------------------------------------------------
(***************************************************************************)
(* The provider's thread.                                                  *)
(***************************************************************************)

Running == provider \in {"on", "waking"}

\* The loop goes on (for the mutants: only while the thread shall run).
IgnoreQueue == Running
Continue == Running \/ msgQueue # <<>>

\* The message to take (for the mutants: the last one).
LastOne == Len(msgQueue)
FirstOne == 1

Take ==
  /\ thread = "test" /\ Continue /\ msgQueue # <<>>
  /\ taken' = <<msgQueue[FirstOne]>> /\ msgQueue' = RemoveAt(msgQueue, FirstOne)
  /\ thread' = "handle"
  /\ UNCHANGED <<life, late, waitLeft, drawn, files, sent, emission>>

TakeNothing ==
  /\ thread = "test" /\ Continue /\ msgQueue = <<>>
  /\ thread' = "check"
  /\ UNCHANGED <<life, late, waitLeft, taken, msgQueue, drawn, files, sent, emission>>

End ==
  /\ thread = "test" /\ ~Continue
  /\ thread' = "off"
  /\ UNCHANGED <<life, late, waitLeft, taken, msgQueue, drawn, files, sent, emission>>

\* What the destructors of these messages leave of the files.
Remaining(messages) ==
  {f \in files : ~\E m \in messages : m.action = "Close" /\ osds[m.osd].dir = f[1]}

Handle ==
  /\ thread = "handle"
  /\ EmitSignal(taken[1])
  /\ files' = Remaining({taken[1]})
  /\ taken' = <<>> /\ thread' = "check"
  /\ UNCHANGED <<life, late, waitLeft, msgQueue, drawn, sent>>

\* The queue is looked at and the wait begins under one lock (for the
\* mutants: the wait begins although there is a message).
WaitAnyway == TRUE
MayWait == msgQueue = <<>>

Check ==
  /\ thread = "check"
  /\ IF MayWait THEN thread' = "wait" /\ waitLeft' = WaitTicks
                ELSE thread' = "test" /\ UNCHANGED waitLeft
  /\ UNCHANGED <<life, late, taken, msgQueue, drawn, files, sent, emission>>

\* The wait is over (for the mutants: it has no end).
Never == FALSE
Expired == waitLeft = 1

Tick ==
  /\ thread = "wait" /\ (provider = "ending" => cancelLeft > 0)
  /\ thread' = IF Expired THEN "test" ELSE "wait"
  /\ waitLeft' = IF waitLeft > 0 THEN waitLeft - 1 ELSE 0
  /\ cancelLeft' = IF provider = "ending" THEN cancelLeft - 1 ELSE cancelLeft
  /\ UNCHANGED <<provider, generation, killed, late, taken, msgQueue, drawn, files, sent, emission>>

-----------------------------------------------------------------------------
(***************************************************************************)
(* The provider's constructor and destructor, run by a thread of the       *)
(* method pool, one request at a time.                                     *)
(***************************************************************************)

CreateProvider ==
  /\ provider = "none" /\ generation < MaxProviders
  /\ provider' = "on" /\ generation' = generation + 1 /\ thread' = "test"
  /\ UNCHANGED <<cancelLeft, killed, late, waitLeft, taken, msgQueue, drawn, files, sent, emission>>

\* The thread is woken before it is told to end.
DeleteProvider ==
  /\ provider = "on"
  /\ provider' = "waking" /\ Broadcast
  /\ UNCHANGED <<generation, cancelLeft, killed, late, taken, msgQueue, drawn, files, sent, emission>>

Cancel ==
  /\ provider = "waking"
  /\ provider' = "ending" /\ cancelLeft' = CancelTicks
  /\ UNCHANGED <<generation, killed, late, worker, msgQueue, drawn, files, sent, emission>>

\* The members of the provider are destroyed, the queue with its messages.
Free ==
  /\ provider' = "none" /\ cancelLeft' = 0 /\ late' = 0
  /\ msgQueue' = <<>> /\ files' = Remaining(ToSet(msgQueue))
  /\ UNCHANGED <<generation, drawn, sent, emission>>

ThreadEnded ==
  /\ provider = "ending" /\ thread = "off"
  /\ Free /\ UNCHANGED <<killed, worker>>

KillThread ==
  /\ provider = "ending" /\ Works /\ cancelLeft = 0
  /\ Free /\ killed' = 1 /\ thread' = "killed" /\ taken' = <<>> /\ waitLeft' = 0

-----------------------------------------------------------------------------
Vdr == CreateOsd \/ \E o \in DOMAIN osds : Flush(o) \/ CloseOsd(o)
Thread == Take \/ TakeNothing \/ End \/ Handle \/ Check
Destructor == Cancel \/ ThreadEnded \/ KillThread
Pipeline == Emission /\ UNCHANGED <<life, late, worker, msgQueue, drawn, files, sent>>

Next == Vdr \/ Thread \/ Tick \/ CreateProvider \/ DeleteProvider \/ Destructor \/ Pipeline

Spec == Init /\ [][Next]_vars

\* Every thread runs; time passes.
Fairness ==
  /\ WF_vars(Thread) /\ WF_vars(Tick) /\ WF_vars(Destructor)
  /\ WF_vars(do_emit_signal /\ UNCHANGED <<life, late, worker, msgQueue, drawn, files, sent>>)
  /\ \A w \in Workers :
       WF_vars((TakeJob(w) \/ do_work(w)) /\ UNCHANGED <<life, late, worker, msgQueue, drawn, files, sent>>)

FairSpec == Spec /\ Fairness

-----------------------------------------------------------------------------
(***************************************************************************)
(* Properties.                                                             *)
(***************************************************************************)

Messages ==
  [action : {"Open", "Display", "Close"}, osd : 1..MaxOsds, image : 0..(MaxImages - 1)]
Osds ==
  [dir : 0..MaxOsds, gen : 1..MaxProviders, counter : 0..MaxImages, open : {0, 1}]

\* Every variable has its type: the fields of cDBusOsdProvider, cDBusOsd and
\* cDBusConnection that osd.c and connection.c use for the signals.
TypeOK ==
  /\ provider \in {"none", "on", "waking", "ending"}
  /\ generation \in 0..MaxProviders /\ cancelLeft \in 0..CancelTicks
  /\ killed \in {0, 1} /\ late \in Nat
  /\ thread \in {"off", "test", "handle", "check", "wait", "killed"}
  /\ waitLeft \in 0..WaitTicks
  /\ {taken, msgQueue, sent, signals, emitted} \subseteq Seq(Messages)
  /\ osds \in Seq(Osds) /\ osd_number \in 0..MaxOsds
  /\ files \subseteq (0..MaxOsds) \X (0..(MaxImages - 1))
  /\ handler \in {0, 1} /\ jobs \in Seq(Seq(Messages))
  /\ batch \in [Workers -> Seq(Messages)]

\* The provider's thread never sleeps on a message (osd.c:160-162 and
\* SendMessage), so an image is announced at once and not a second later.
NeverSleepsOnMessage == thread = "wait" => msgQueue = <<>>

\* Nothing that a working provider was sent is dropped, doubled or overtaken
\* before the pool has it, and what the pool has is emitted once, although the
\* provider is deleted in between (the loop of Action goes on until the queue
\* is empty) - unless its thread had to be cancelled.
Handover ==
  LET waiting == FlattenSeq(jobs) \o signals \o taken \o (IF Works THEN msgQueue ELSE <<>>)
      passed  == Len(sent) - Len(waiting)
  IN  killed = 0 =>
        /\ passed >= 0 /\ SubSeq(sent, passed + 1, Len(sent)) = waiting
        /\ ToSet(SubSeq(sent, 1, passed)) =
             ToSet(emitted) \union UNION {ToSet(batch[w]) : w \in Workers}
        /\ \A w \in Workers : ToSet(emitted) \cap ToSet(batch[w]) = {}

\* The ten seconds of Cancel are enough for a thread that nobody disturbs:
\* it is cancelled only when messages keep coming during the destructor, at
\* least one per second that it waits.
KilledOnlyIfFed ==
  (provider = "ending" /\ Works /\ cancelLeft = 0) => (late + 1) * WaitTicks >= CancelTicks

\* An open OSD keeps its images: no other OSD, of this provider or of an
\* earlier one, deletes or overwrites them when it closes.
ImagesKept ==
  \A o \in DOMAIN osds : osds[o].open = 1 =>
    \A n \in 0..(osds[o].counter - 1) : <<osds[o].dir, n>> \in files

\* Every message is emitted in the end, also those of a deleted provider.
Announced ==
  \A m \in Messages :
    (m \in ToSet(sent) /\ killed = 0) ~> (m \in ToSet(emitted) \/ killed = 1)

\* README:505: "Every image between Open and Close has to be displayed on top
\* of its predecessors", so the signals of an OSD come in this order.
ImagesInOrder ==
  \A i, j \in DOMAIN emitted :
    (i < j /\ emitted[i].osd = emitted[j].osd) =>
      /\ emitted[i].action # "Close" /\ emitted[j].action # "Open"
      /\ emitted[j].action = "Display" => emitted[i].image <= emitted[j].image
=============================================================================
