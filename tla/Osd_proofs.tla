----------------------------- MODULE Osd_proofs -----------------------------
(***************************************************************************)
(* Proofs about Osd, for any number of providers, OSDs, images and threads *)
(* of the pool and any times: an open OSD keeps its images, the provider's *)
(* thread does not sleep on a message, and no message is lost, doubled or  *)
(* overtaken on its way to the pool.                                       *)
(***************************************************************************)
EXTENDS Osd, SequenceTheorems, WellFoundedInduction, TLAPS

\* Every OSD has a directory of its own, also after its provider is gone.
Numbered ==
  /\ osd_number = Len(osds)
  /\ \A o \in DOMAIN osds : osds[o].dir = o - 1
  /\ provider # "none" => generation > 0

\* A message that deletes files speaks of an OSD that is closed.
Closing(queue) ==
  \A i \in DOMAIN queue : queue[i].action = "Close" =>
    queue[i].osd \in DOMAIN osds /\ osds[queue[i].osd].open = 0

ClosedOnly == Closing(msgQueue) /\ Closing(taken)

\* The thread has a message when it handles one, and time left when it waits.
InStep ==
  /\ thread = "handle" => Len(taken) = 1
  /\ thread = "wait" => waitLeft > 0

IInv ==
  /\ TypeOK /\ Numbered /\ ClosedOnly /\ InStep
  /\ NeverSleepsOnMessage /\ ImagesKept

-----------------------------------------------------------------------------
(***************************************************************************)
(* Sequences.                                                              *)
(***************************************************************************)

LEMMA Bounds ==
  /\ MaxProviders \in Nat /\ MaxOsds \in Nat /\ CancelTicks \in Nat
  /\ MaxImages \in Nat /\ MaxImages > 0 /\ WaitTicks \in Nat /\ WaitTicks > 0
  BY OsdAssumption

LEMMA TailOf ==
  ASSUME NEW S, NEW s \in Seq(S), s # <<>>
  PROVE  /\ RemoveAt(s, 1) \in Seq(S)
         /\ DOMAIN RemoveAt(s, 1) = 1..(Len(s) - 1)
         /\ \A i \in 1..(Len(s) - 1) : RemoveAt(s, 1)[i] = s[i + 1]
<1>1. Len(s) \in Nat /\ Len(s) > 0 /\ \A i \in 2..Len(s) : s[i] \in S
  OBVIOUS
<1>2. SubSeq(s, 1, 0) = <<>>
  BY SubSeqEmpty
<1>3. /\ SubSeq(s, 2, Len(s)) \in Seq(S)
      /\ Len(SubSeq(s, 2, Len(s))) = Len(s) - 1
      /\ \A i \in 1..(Len(s) - 1) : SubSeq(s, 2, Len(s))[i] = s[i + 1]
  <2>1. /\ SubSeq(s, 2, Len(s)) \in Seq(S)
        /\ Len(SubSeq(s, 2, Len(s))) = IF 2 <= Len(s) THEN Len(s) - 2 + 1 ELSE 0
        /\ \A i \in 1..(Len(s) - 2 + 1) : SubSeq(s, 2, Len(s))[i] = s[2 + i - 1]
    BY <1>1, SubSeqProperties
  <2>2. Len(SubSeq(s, 2, Len(s))) = Len(s) - 1
    <3>1. \A n \in Nat : n > 0 => (IF 2 <= n THEN n - 2 + 1 ELSE 0) = n - 1
      OBVIOUS
    <3>2. QED
      BY <1>1, <2>1, <3>1, Zenon
  <2>3. ASSUME NEW i \in 1..(Len(s) - 1)
        PROVE  SubSeq(s, 2, Len(s))[i] = s[i + 1]
    <3>1. i \in 1..(Len(s) - 2 + 1) /\ 2 + i - 1 = i + 1
      BY <1>1
    <3>2. QED
      BY <2>1, <3>1
  <2>4. QED
    BY <2>1, <2>2, <2>3
<1>4. RemoveAt(s, 1) = SubSeq(s, 2, Len(s))
  BY <1>2, <1>3 DEF RemoveAt
<1>5. DOMAIN SubSeq(s, 2, Len(s)) = 1..(Len(s) - 1)
  BY <1>3, LenProperties
<1>6. QED
  BY <1>3, <1>4, <1>5

\* The handler of the main loop takes the whole queue.
LEMMA BatchOf ==
  ASSUME NEW S, NEW s \in Seq(S)
  PROVE  SubSeq(s, 1, Len(s) - Len(Leave(s))) = s
  BY SubSeqFull DEF Leave

-----------------------------------------------------------------------------
USE DEF life, worker, drawn, emission

\* What every message that a provider is sent leaves in order.
LEMMA SendStep ==
  ASSUME NEW gen, NEW m \in Messages, TypeOK, InStep, NeverSleepsOnMessage,
         SendMessage(gen, m)
  PROVE  /\ thread' \in {"off", "test", "handle", "check", "wait", "killed"}
         /\ waitLeft' \in 0..WaitTicks /\ late' \in Nat
         /\ {taken', msgQueue', sent'} \subseteq Seq(Messages)
         /\ InStep' /\ NeverSleepsOnMessage'
         /\ taken' = taken /\ (msgQueue' = msgQueue \/ msgQueue' = Append(msgQueue, m))
<1>1. CASE Lives(gen)
  <2>1. /\ msgQueue' = Append(msgQueue, m) /\ taken' = taken
        /\ thread' = IF thread = "wait" THEN "test" ELSE thread
        /\ waitLeft' = 0
        /\ sent' = sent \/ sent' = Append(sent, m)
        /\ late' = late \/ late' = late + 1
    BY <1>1 DEF SendMessage, Broadcast
  <2>2. msgQueue' \in Seq(Messages) /\ sent' \in Seq(Messages) /\ taken' \in Seq(Messages)
    <3>1. msgQueue \in Seq(Messages) /\ sent \in Seq(Messages) /\ taken \in Seq(Messages)
      BY DEF TypeOK
    <3>2. Append(msgQueue, m) \in Seq(Messages) /\ Append(sent, m) \in Seq(Messages)
      BY <3>1, AppendProperties
    <3>3. QED
      BY <2>1, <3>1, <3>2, Zenon
  <2>3. QED
    BY <2>1, <2>2, Bounds DEF TypeOK, InStep, NeverSleepsOnMessage
<1>2. CASE ~Lives(gen)
  BY <1>2 DEF SendMessage, TypeOK, InStep, NeverSleepsOnMessage
<1>3. QED
  BY <1>1, <1>2

\* A message that is queued while the OSDs that were closed stay closed.
LEMMA ClosingStep ==
  ASSUME TypeOK, ClosedOnly, NEW m \in Messages,
         taken' = taken, msgQueue' = msgQueue \/ msgQueue' = Append(msgQueue, m),
         \A o \in DOMAIN osds : osds[o].open = 0 => o \in DOMAIN osds' /\ osds'[o].open = 0,
         m.action = "Close" => m.osd \in DOMAIN osds' /\ osds'[m.osd].open = 0
  PROVE  ClosedOnly'
<1>1. Closing(taken)'
  BY DEF ClosedOnly, Closing
<1>2. Closing(msgQueue)'
  <2>1. CASE msgQueue' = msgQueue
    BY <2>1 DEF ClosedOnly, Closing
  <2>2. CASE msgQueue' = Append(msgQueue, m)
    <3>1. \A i \in DOMAIN msgQueue' :
            \/ i \in DOMAIN msgQueue /\ msgQueue'[i] = msgQueue[i]
            \/ msgQueue'[i] = m
      BY <2>2, AppendProperties DEF TypeOK
    <3>2. QED
      BY <3>1 DEF ClosedOnly, Closing
  <2>3. QED
    BY <2>1, <2>2
<1>3. QED
  BY <1>1, <1>2 DEF ClosedOnly

LEMMA CreateOsdStep ==
  ASSUME IInv, CreateOsd
  PROVE  IInv'
<1> DEFINE new == [dir |-> osd_number, gen |-> generation, counter |-> 0, open |-> 1]
           m == Message("Open", Len(osds) + 1, 0)
<1>1. /\ osds' = Append(osds, new) /\ osd_number' = osd_number + 1
      /\ SendMessage(generation, m) /\ Len(osds) < MaxOsds /\ provider # "none"
      /\ UNCHANGED <<life, files, emission>>
  BY DEF CreateOsd, NextNumber
<1>2. /\ m \in Messages /\ m.action = "Open"
      /\ new \in Osds /\ new.dir = osd_number /\ new.counter = 0
  BY <1>1, Bounds DEF IInv, TypeOK, Numbered, Messages, Osds, Message
<1>3. /\ osds' \in Seq(Osds) /\ Len(osds') = Len(osds) + 1
      /\ \A o \in DOMAIN osds : o \in DOMAIN osds' /\ osds'[o] = osds[o]
      /\ osds'[Len(osds) + 1] = new
      /\ DOMAIN osds' = DOMAIN osds \cup {Len(osds) + 1}
  BY SMTT(30), <1>1, <1>2, AppendProperties DEF IInv, TypeOK
<1>. HIDE DEF m, new
<1>4. /\ thread' \in {"off", "test", "handle", "check", "wait", "killed"}
      /\ waitLeft' \in 0..WaitTicks /\ late' \in Nat
      /\ {taken', msgQueue', sent'} \subseteq Seq(Messages)
      /\ InStep' /\ NeverSleepsOnMessage'
  BY <1>1, <1>2, SendStep DEF IInv
<1>9. TypeOK'
  <2>1. osd_number' \in 0..MaxOsds
    BY <1>1, Bounds DEF IInv, TypeOK, Numbered
  <2>2. QED
    BY <1>1, <1>3, <1>4, <2>1 DEF IInv, TypeOK
<1>5. Numbered'
  BY SMTT(30), <1>1, <1>2, <1>3 DEF IInv, TypeOK, Numbered
<1>6. ClosedOnly'
  BY <1>1, <1>2, <1>3, SendStep, ClosingStep DEF IInv
<1>7. ImagesKept'
  BY <1>1, <1>2, <1>3 DEF IInv, ImagesKept
<1>8. QED
  BY <1>4, <1>9, <1>5, <1>6, <1>7 DEF IInv

LEMMA FlushStep ==
  ASSUME IInv, NEW o \in DOMAIN osds, Flush(o)
  PROVE  IInv'
<1> DEFINE m == Message("Display", o, osds[o].counter)
<1>1. /\ osds' = [osds EXCEPT ![o].counter = @ + 1]
      /\ files' = files \cup {<<osds[o].dir, osds[o].counter>>}
      /\ SendMessage(osds[o].gen, m) /\ osds[o].open = 1 /\ osds[o].counter < MaxImages
      /\ UNCHANGED <<life, osd_number, emission>>
  BY DEF Flush, ImageNumber
<1>2. /\ osds[o] \in Osds /\ DOMAIN osds = 1..Len(osds) /\ Len(osds) \in Nat
      /\ Len(osds) <= MaxOsds
  BY DEF IInv, TypeOK, Numbered
<1>3. m \in Messages /\ m.action = "Display"
  BY <1>1, <1>2, Bounds DEF Messages, Message, Osds
<1>4. /\ osds' \in Seq(Osds) /\ Len(osds') = Len(osds)
      /\ osds'[o] = [osds[o] EXCEPT !.counter = @ + 1]
      /\ \A p \in DOMAIN osds : p # o => osds'[p] = osds[p]
  <2>1. [osds[o] EXCEPT !.counter = @ + 1] \in Osds
    BY SMTT(30), <1>1, <1>2, Bounds DEF Osds
  <2>2. QED
    BY <1>1, <2>1, ExceptSeq DEF IInv, TypeOK
<1>. HIDE DEF m
<1>5. /\ thread' \in {"off", "test", "handle", "check", "wait", "killed"}
      /\ waitLeft' \in 0..WaitTicks /\ late' \in Nat
      /\ {taken', msgQueue', sent'} \subseteq Seq(Messages)
      /\ InStep' /\ NeverSleepsOnMessage'
  BY <1>1, <1>3, SendStep DEF IInv
<1>11. TypeOK'
  <2>1. files' \subseteq (0..MaxOsds) \X (0..(MaxImages - 1))
    <3>1. /\ osds[o].dir \in 0..MaxOsds
          /\ osds[o].counter \in 0..(MaxImages - 1)
      BY <1>1, <1>2, Bounds DEF Osds
    <3>2. <<osds[o].dir, osds[o].counter>> \in (0..MaxOsds) \X (0..(MaxImages - 1))
      BY <3>1
    <3>3. QED
      BY <1>1, <3>2 DEF IInv, TypeOK
  <2>2. QED
    BY <1>1, <1>4, <1>5, <2>1 DEF IInv, TypeOK
<1>6. \A p \in DOMAIN osds : osds'[p].dir = osds[p].dir /\ osds'[p].open = osds[p].open
  BY <1>2, <1>4 DEF Osds
<1>7. Numbered'
  BY <1>1, <1>2, <1>4, <1>6 DEF IInv, TypeOK, Numbered
<1>8. ClosedOnly'
  BY <1>1, <1>2, <1>3, <1>4, <1>6, SendStep, ClosingStep DEF IInv
<1>9. ImagesKept'
  <2> SUFFICES ASSUME NEW p \in DOMAIN osds', osds'[p].open = 1,
                      NEW n \in 0..(osds'[p].counter - 1)
               PROVE  <<osds'[p].dir, n>> \in files'
    BY DEF ImagesKept
  <2>1. CASE p = o
    <3>1. osds'[o].counter = osds[o].counter + 1 /\ osds[o].counter \in Nat
      BY <1>2, <1>4, Bounds DEF Osds
    <3>2. n \in 0..(osds[o].counter - 1) \/ n = osds[o].counter
      BY <2>1, <3>1
    <3>3. osds'[p].dir = osds[o].dir
      BY <2>1, <1>6
    <3>4. <<osds[o].dir, n>> \in files \/ n = osds[o].counter
      BY <3>2, <1>1 DEF IInv, ImagesKept
    <3>5. QED
      BY <3>3, <3>4, <1>1
  <2>2. CASE p # o
    BY <2>2, <1>1, <1>2, <1>4 DEF IInv, ImagesKept
  <2>3. QED
    BY <2>1, <2>2
<1>10. QED
  BY <1>5, <1>11, <1>7, <1>8, <1>9 DEF IInv

LEMMA CloseOsdStep ==
  ASSUME IInv, NEW o \in DOMAIN osds, CloseOsd(o)
  PROVE  IInv'
<1> DEFINE m == Message("Close", o, 0)
<1>1. /\ osds' = [osds EXCEPT ![o].open = 0]
      /\ SendMessage(osds[o].gen, m)
      /\ UNCHANGED <<life, osd_number, files, emission>>
  BY DEF CloseOsd
<1>2. /\ osds[o] \in Osds /\ DOMAIN osds = 1..Len(osds) /\ Len(osds) \in Nat
      /\ Len(osds) <= MaxOsds
  BY DEF IInv, TypeOK, Numbered
<1>3. m \in Messages
  BY <1>2, Bounds DEF Messages, Message
<1>4. /\ osds' \in Seq(Osds) /\ Len(osds') = Len(osds)
      /\ osds'[o] = [osds[o] EXCEPT !.open = 0]
      /\ \A p \in DOMAIN osds : p # o => osds'[p] = osds[p]
  <2>1. [osds[o] EXCEPT !.open = 0] \in Osds
    BY <1>2 DEF Osds
  <2>2. QED
    BY <1>1, <2>1, ExceptSeq DEF IInv, TypeOK
<1>5. TypeOK' /\ InStep' /\ NeverSleepsOnMessage'
  BY <1>1, <1>3, <1>4, SendStep DEF IInv, TypeOK
<1>6. /\ \A p \in DOMAIN osds : osds'[p].dir = osds[p].dir
      /\ osds'[o].open = 0
  BY <1>2, <1>4 DEF Osds
<1>7. Numbered'
  BY <1>1, <1>2, <1>4, <1>6 DEF IInv, TypeOK, Numbered
<1>8. ClosedOnly'
  BY <1>1, <1>2, <1>3, <1>4, <1>6, SendStep, ClosingStep DEF IInv, Message
<1>9. ImagesKept'
  BY SMTT(30), <1>1, <1>2, <1>4, <1>6 DEF IInv, TypeOK, ImagesKept
<1>10. QED
  BY <1>5, <1>7, <1>8, <1>9 DEF IInv

\* What the destructors of Close messages delete, no open OSD misses.
LEMMA RemainingStep ==
  ASSUME IInv, NEW Q, NEW queue \in Seq(Messages), Q = ToSet(queue), Closing(queue),
         files' = Remaining(Q), UNCHANGED osds
  PROVE  ImagesKept' /\ files' \subseteq files
<1> SUFFICES ASSUME NEW o \in DOMAIN osds, osds[o].open = 1,
                    NEW n \in 0..(osds[o].counter - 1), NEW i \in DOMAIN queue,
                    queue[i].action = "Close", osds[queue[i].osd].dir = osds[o].dir
             PROVE  FALSE
  BY DEF IInv, ImagesKept, Remaining, ToSet
<1>1. queue[i].osd \in DOMAIN osds /\ osds[queue[i].osd].open = 0
  BY DEF Closing
<1>2. queue[i].osd = o
  BY SMTT(30), <1>1 DEF IInv, TypeOK, Numbered
<1>3. QED
  BY <1>1, <1>2
\* A step that leaves the OSDs and their files alone.
LEMMA Alone ==
  ASSUME IInv, UNCHANGED <<drawn, files, msgQueue, taken, provider, generation>>
  PROVE  Numbered' /\ ClosedOnly' /\ ImagesKept'
  BY DEF IInv, Numbered, ClosedOnly, Closing, ImagesKept

\* The queue without its first message, which the thread handles.
LEMMA TakeStep ==
  ASSUME IInv, Take
  PROVE  IInv'
<1>1. /\ msgQueue \in Seq(Messages) /\ msgQueue # <<>>
      /\ taken' = <<msgQueue[1]>> /\ msgQueue' = RemoveAt(msgQueue, 1)
      /\ thread' = "handle"
      /\ UNCHANGED <<life, late, waitLeft, drawn, files, sent, emission>>
  BY DEF Take, FirstOne, IInv, TypeOK
<1>2. /\ msgQueue' \in Seq(Messages) /\ DOMAIN msgQueue' = 1..(Len(msgQueue) - 1)
      /\ \A i \in 1..(Len(msgQueue) - 1) : msgQueue'[i] = msgQueue[i + 1]
  BY <1>1, TailOf
<1>3. 1 \in DOMAIN msgQueue /\ msgQueue[1] \in Messages /\ DOMAIN msgQueue = 1..Len(msgQueue)
  BY <1>1
<1>4. taken' \in Seq(Messages) /\ Len(taken') = 1 /\ taken'[1] = msgQueue[1] /\ DOMAIN taken' = {1}
  BY <1>1, <1>3
<1>5. TypeOK'
  BY <1>1, <1>2, <1>4 DEF IInv, TypeOK
<1>6. Numbered' /\ InStep' /\ NeverSleepsOnMessage' /\ ImagesKept'
  BY <1>1, <1>4 DEF IInv, Numbered, InStep, NeverSleepsOnMessage, ImagesKept
<1>7. ClosedOnly'
  <2>1. Closing(taken)'
    BY <1>1, <1>3, <1>4 DEF IInv, ClosedOnly, Closing
  <2>2. ASSUME NEW i \in DOMAIN msgQueue', msgQueue'[i].action = "Close"
        PROVE  msgQueue'[i].osd \in DOMAIN osds' /\ osds'[msgQueue'[i].osd].open = 0
    <3>1. i + 1 \in DOMAIN msgQueue /\ msgQueue'[i] = msgQueue[i + 1]
      BY <1>1, <1>2, <1>3
    <3>2. QED
      BY <1>1, <2>2, <3>1 DEF IInv, ClosedOnly, Closing
  <2>3. QED
    BY <2>1, <2>2 DEF ClosedOnly, Closing
<1>8. QED
  BY <1>5, <1>6, <1>7 DEF IInv

LEMMA HandleStep ==
  ASSUME IInv, Handle
  PROVE  IInv'
<1>1. /\ EmitSignal(taken[1]) /\ files' = Remaining({taken[1]})
      /\ taken' = <<>> /\ thread = "handle" /\ thread' = "check"
      /\ UNCHANGED <<life, late, waitLeft, msgQueue, drawn, sent>>
  BY DEF Handle
<1>2. Len(taken) = 1 /\ taken \in Seq(Messages) /\ taken[1] \in Messages
      /\ DOMAIN taken = {1}
  <2>1. Len(taken) = 1 /\ taken \in Seq(Messages)
    BY <1>1 DEF IInv, InStep, TypeOK
  <2>2. DOMAIN taken = 1..1
    BY <2>1, LenProperties
  <2>3. QED
    BY <2>1, <2>2
<1>3. {taken[1]} = ToSet(taken)
  BY <1>2 DEF ToSet
<1>4. ImagesKept' /\ files' \subseteq files
  BY <1>1, <1>2, <1>3, RemainingStep DEF IInv, ClosedOnly
<1>5. signals' \in Seq(Messages) /\ handler' \in {0, 1} /\ UNCHANGED <<jobs, batch, emitted>>
  BY <1>1, <1>2, AppendProperties DEF EmitSignal, IInv, TypeOK
<1>6. TypeOK'
  <2>1. taken' \in Seq(Messages)
    BY <1>1
  <2>2. QED
    BY <1>1, <1>4, <1>5, <2>1 DEF IInv, TypeOK
<1>7. Numbered' /\ InStep' /\ NeverSleepsOnMessage' /\ ClosedOnly'
  BY <1>1 DEF IInv, Numbered, InStep, NeverSleepsOnMessage, ClosedOnly, Closing
<1>8. QED
  BY <1>4, <1>6, <1>7 DEF IInv

\* The steps of the thread that handle no message, and the passing of time.
LEMMA LoopStep ==
  ASSUME IInv, TakeNothing \/ End \/ Check \/ Tick
  PROVE  IInv'
<1>1. UNCHANGED <<drawn, files, msgQueue, taken, provider, generation, killed, late, sent, emission>>
  BY DEF TakeNothing, End, Check, Tick
<1>2. thread' \in {"off", "test", "check", "wait"} /\ (thread' = "wait" => msgQueue = <<>>)
  BY DEF TakeNothing, End, Check, Tick, MayWait, IInv, NeverSleepsOnMessage
<1>3. /\ waitLeft' \in 0..WaitTicks /\ cancelLeft' \in 0..CancelTicks
      /\ thread' = "wait" => waitLeft' > 0
  <2>1. waitLeft \in 0..WaitTicks /\ cancelLeft \in 0..CancelTicks
    BY DEF IInv, TypeOK
  <2>2. CASE TakeNothing \/ End
    BY <2>1, <2>2 DEF TakeNothing, End
  <2>3. CASE Check
    BY <2>1, <2>3, Bounds DEF Check
  <2>4. CASE Tick
    <3>1. thread = "wait" /\ waitLeft > 0 /\ (provider = "ending" => cancelLeft > 0)
      BY <2>4 DEF Tick, IInv, InStep
    <3>2. waitLeft' = waitLeft - 1 /\ (waitLeft = 1 => thread' = "test")
      BY <2>4, <3>1 DEF Tick, Expired
    <3>3. cancelLeft' = cancelLeft \/ (cancelLeft' = cancelLeft - 1 /\ cancelLeft > 0)
      BY <2>4, <3>1 DEF Tick
    <3>4. QED
      BY <2>1, <3>2, <3>3, <3>1, Bounds
  <2>5. QED
    BY <2>2, <2>3, <2>4
<1>4. TypeOK' /\ InStep' /\ NeverSleepsOnMessage'
  BY <1>1, <1>2, <1>3 DEF IInv, TypeOK, InStep, NeverSleepsOnMessage
<1>5. QED
  BY <1>1, <1>4, Alone DEF IInv

LEMMA LifeStep ==
  ASSUME IInv, CreateProvider \/ DeleteProvider \/ Cancel
  PROVE  IInv'
<1>1. UNCHANGED <<drawn, files, msgQueue, taken, killed, late, sent, emission>>
  BY DEF CreateProvider, DeleteProvider, Cancel, Broadcast
<1>2. /\ provider' \in {"on", "waking", "ending"} /\ generation' \in 1..MaxProviders
      /\ cancelLeft' \in 0..CancelTicks /\ waitLeft' \in 0..WaitTicks
      /\ thread' \in {"off", "test", "handle", "check", "wait", "killed"}
      /\ (thread' = thread /\ (waitLeft' = waitLeft \/ thread # "wait")) \/ thread' = "test"
      /\ UNCHANGED taken
  <2>1. CASE CreateProvider
    BY <2>1, Bounds DEF CreateProvider, IInv, TypeOK, Numbered
  <2>2. CASE DeleteProvider
    BY <2>2, Bounds DEF DeleteProvider, Broadcast, IInv, TypeOK, Numbered
  <2>3. CASE Cancel
    BY <2>3, Bounds DEF Cancel, IInv, TypeOK, Numbered
  <2>4. QED
    BY <2>1, <2>2, <2>3
<1>3. TypeOK' /\ InStep' /\ NeverSleepsOnMessage'
  BY SMTT(30), <1>1, <1>2, Bounds DEF IInv, TypeOK, InStep, NeverSleepsOnMessage
<1>4. Numbered' /\ ClosedOnly' /\ ImagesKept'
  BY <1>1, <1>2, Bounds DEF IInv, Numbered, ClosedOnly, Closing, ImagesKept
<1>5. QED
  BY <1>3, <1>4 DEF IInv

\* The end of the destructor frees the queue, and its messages their files.
LEMMA FreeStep ==
  ASSUME IInv, ThreadEnded \/ KillThread
  PROVE  IInv'
<1>1. /\ provider' = "none" /\ msgQueue' = <<>> /\ files' = Remaining(ToSet(msgQueue))
      /\ cancelLeft' = 0 /\ late' = 0 /\ killed' \in {0, 1}
      /\ thread' \in {"off", "killed"} /\ waitLeft' \in 0..WaitTicks
      /\ taken' = taken \/ taken' = <<>>
      /\ UNCHANGED <<generation, drawn, sent, emission>>
  BY SMTT(30), Bounds DEF ThreadEnded, KillThread, Free, IInv, TypeOK
<1>2. ImagesKept' /\ files' \subseteq files
  BY <1>1, RemainingStep DEF IInv, TypeOK, ClosedOnly
<1>3. TypeOK'
  <2>1. taken' \in Seq(Messages) /\ msgQueue' \in Seq(Messages)
    <3>1. <<>> \in Seq(Messages)
      OBVIOUS
    <3>2. taken \in Seq(Messages)
      BY DEF IInv, TypeOK
    <3>3. QED
      BY <1>1, <3>1, <3>2, Zenon
  <2>2. cancelLeft' \in 0..CancelTicks /\ late' \in Nat
    BY <1>1, Bounds
  <2>3. QED
    BY <1>1, <1>2, <2>1, <2>2 DEF IInv, TypeOK
<1>4. Numbered' /\ InStep' /\ NeverSleepsOnMessage' /\ ClosedOnly'
  BY <1>1 DEF IInv, Numbered, InStep, NeverSleepsOnMessage, ClosedOnly, Closing
<1>5. QED
  BY <1>2, <1>3, <1>4 DEF IInv

\* The main loop and the pool have their own variables.
LEMMA PipelineStep ==
  ASSUME IInv, Pipeline
  PROVE  IInv'
<1>1. UNCHANGED <<life, late, worker, msgQueue, drawn, files, sent>>
  BY DEF Pipeline
<1> DEFINE Typed ==
      /\ signals' \in Seq(Messages) /\ handler' \in {0, 1} /\ jobs' \in Seq(Seq(Messages))
      /\ batch' \in [Workers -> Seq(Messages)] /\ emitted' \in Seq(Messages)
<1>2. Typed
  <2>1. CASE do_emit_signal
    <3>1. signals' = <<>> /\ handler' = 0 /\ jobs' = Append(jobs, signals)
          /\ UNCHANGED <<batch, emitted>>
      BY <2>1, BatchOf DEF do_emit_signal, Leave, IInv, TypeOK
    <3>2. QED
      BY <3>1, AppendProperties DEF IInv, TypeOK
  <2>2. ASSUME NEW w \in Workers, TakeJob(w)
        PROVE  Typed
    <3>1. Head(jobs) \in Seq(Messages) /\ Tail(jobs) \in Seq(Seq(Messages))
      BY <2>2, HeadTailProperties DEF TakeJob, IInv, TypeOK
    <3>2. QED
      BY <2>2, <3>1 DEF TakeJob, IInv, TypeOK
  <2>3. ASSUME NEW w \in Workers, do_work(w)
        PROVE  Typed
    <3>1. Head(batch[w]) \in Messages /\ Tail(batch[w]) \in Seq(Messages)
      BY <2>3, HeadTailProperties DEF do_work, IInv, TypeOK
    <3>2. emitted' \in Seq(Messages)
      BY <2>3, <3>1, AppendProperties DEF do_work, IInv, TypeOK
    <3>3. QED
      BY <2>3, <3>1, <3>2 DEF do_work, IInv, TypeOK
  <2>4. QED
    BY <2>1, <2>2, <2>3 DEF Pipeline, Emission
<1>3. TypeOK' /\ InStep' /\ NeverSleepsOnMessage'
  BY <1>1, <1>2 DEF IInv, TypeOK, InStep, NeverSleepsOnMessage
<1>4. QED
  BY <1>1, <1>3, Alone DEF IInv

-----------------------------------------------------------------------------
(***************************************************************************)
(* How long the destructor has waited: a whole wait of the thread for each *)
(* late message, and the wait that is under way or has just run out.       *)
(***************************************************************************)

Waited == CancelTicks - cancelLeft

Paced ==
  (provider = "ending" /\ Works) =>
    CASE thread = "wait" -> Waited <= late * WaitTicks + (WaitTicks - waitLeft)
      [] thread = "test" /\ msgQueue = <<>> -> Waited <= late * WaitTicks + WaitTicks
      [] OTHER -> Waited <= late * WaitTicks

LEMMA OneMore == \A n \in Nat : n * WaitTicks \in Nat /\ (n + 1) * WaitTicks = n * WaitTicks + WaitTicks
  BY Bounds

\* A late message pays for the wait it ends, or finds one paid for.
LEMMA PacedSend ==
  ASSUME IInv, Paced, NEW gen, NEW m, SendMessage(gen, m), UNCHANGED life
  PROVE  Paced'
<1>1. CASE ~Lives(gen)
  BY <1>1 DEF SendMessage, Paced, Waited, Works
<1>2. CASE Lives(gen) /\ provider = "ending" /\ Works
  <2>1. /\ late' = late + 1 /\ msgQueue' # <<>> /\ thread' # "wait"
        /\ UNCHANGED <<cancelLeft, provider>>
    BY SMTT(30), <1>2 DEF SendMessage, Broadcast, IInv, TypeOK
  <2>2. /\ late \in Nat /\ waitLeft \in 0..WaitTicks
        /\ late' * WaitTicks = late * WaitTicks + WaitTicks /\ late * WaitTicks \in Nat
    BY <2>1, OneMore DEF IInv, TypeOK
  <2>3. Waited <= late * WaitTicks + WaitTicks
    <3>1. \/ Waited <= late * WaitTicks + (WaitTicks - waitLeft)
          \/ Waited <= late * WaitTicks + WaitTicks
          \/ Waited <= late * WaitTicks
      BY <1>2, Zenon DEF Paced
    <3>2. Waited \in Int
      BY Bounds DEF IInv, TypeOK, Waited
    <3>3. QED
      BY <2>2, <3>1, <3>2, Bounds
  <2>4. Waited' <= late' * WaitTicks
    BY <2>1, <2>2, <2>3 DEF Waited
  <2>5. QED
    BY <2>1, <2>4 DEF Paced
<1>3. CASE Lives(gen) /\ ~(provider = "ending" /\ Works)
  BY <1>3 DEF SendMessage, Broadcast, Paced, Works
<1>4. QED
  BY <1>1, <1>2, <1>3

LEMMA PacedStep ==
  ASSUME IInv, Paced, [Next]_vars
  PROVE  Paced'
<1>0. /\ late \in Nat /\ late * WaitTicks \in Nat /\ waitLeft \in 0..WaitTicks
      /\ cancelLeft \in 0..CancelTicks
  BY OneMore DEF IInv, TypeOK
<1>1. CASE Vdr
  BY <1>1, PacedSend DEF Vdr, CreateOsd, Flush, CloseOsd
<1>2. CASE Take \/ Handle
  BY <1>2, <1>0, Bounds DEF Take, Handle, Paced, Waited, Works, Continue
<1>3. CASE TakeNothing \/ End
  BY <1>3 DEF TakeNothing, End, Paced, Works, Continue, Running
<1>4. CASE Check
  BY <1>4, <1>0, Bounds DEF Check, MayWait, Paced, Waited, Works
<1>5. CASE Tick
  <2>1. CASE provider = "ending"
    <3>1. /\ thread = "wait" /\ msgQueue' = <<>> /\ late' = late
          /\ Waited <= late * WaitTicks + (WaitTicks - waitLeft)
          /\ cancelLeft' = cancelLeft - 1
      BY <1>5, <2>1 DEF Tick, Paced, Works, IInv, NeverSleepsOnMessage
    <3>2. CASE waitLeft = 1
      BY SMTT(30), <1>5, <1>0, <3>1, <3>2, Bounds DEF Tick, Expired, Paced, Waited
    <3>3. CASE waitLeft # 1
      <4>1. waitLeft > 1 /\ waitLeft' = waitLeft - 1 /\ thread' = "wait"
        BY <1>5, <1>0, <3>1, <3>3 DEF Tick, Expired, IInv, InStep
      <4>2. Waited' <= late' * WaitTicks + (WaitTicks - waitLeft')
        BY <1>0, <3>1, <4>1, Bounds DEF Waited
      <4>3. QED
        BY <4>1, <4>2 DEF Paced
    <3>4. QED
      BY <3>2, <3>3
  <2>2. CASE provider # "ending"
    BY <1>5, <2>2 DEF Tick, Paced
  <2>3. QED
    BY <2>1, <2>2
<1>6. CASE CreateProvider \/ DeleteProvider \/ ThreadEnded \/ KillThread
  BY <1>6 DEF CreateProvider, DeleteProvider, ThreadEnded, KillThread, Free, Paced
<1>7. CASE Cancel
  BY <1>7, <1>0, Bounds DEF Cancel, Paced, Waited, Works
<1>8. CASE Pipeline \/ UNCHANGED vars
  BY <1>8 DEF Pipeline, vars, Paced, Waited, Works
<1>9. QED
  BY <1>1, <1>2, <1>3, <1>4, <1>5, <1>6, <1>7, <1>8 DEF Next, Thread, Destructor

-----------------------------------------------------------------------------
LEMMA InitInv == Init => IInv
<1> SUFFICES ASSUME Init PROVE IInv
  OBVIOUS
<1>1. TypeOK
  BY Bounds DEF Init, EmissionInit, TypeOK
<1>2. QED
  BY <1>1 DEF Init, IInv, Numbered, ClosedOnly, Closing, InStep, NeverSleepsOnMessage, ImagesKept

LEMMA InvStep == IInv /\ [Next]_vars => IInv'
<1> SUFFICES ASSUME IInv, [Next]_vars PROVE IInv'
  OBVIOUS
<1>1. CASE Vdr
  BY <1>1, CreateOsdStep, FlushStep, CloseOsdStep DEF Vdr
<1>2. CASE Thread \/ Tick
  BY <1>2, TakeStep, HandleStep, LoopStep DEF Thread
<1>3. CASE CreateProvider \/ DeleteProvider \/ Destructor
  BY <1>3, LifeStep, FreeStep DEF Destructor
<1>4. CASE Pipeline
  BY <1>4, PipelineStep
<1>5. CASE UNCHANGED vars
  <2>1. TypeOK' /\ InStep' /\ NeverSleepsOnMessage'
    BY <1>5 DEF IInv, vars, TypeOK, InStep, NeverSleepsOnMessage
  <2>2. QED
    BY <1>5, <2>1, Alone DEF vars, IInv
<1>6. QED
  BY <1>1, <1>2, <1>3, <1>4, <1>5 DEF Next

\* IInv holds in every reachable state.
THEOREM Invariance == Spec => []IInv
  BY InitInv, InvStep, PTL DEF Spec

\* Every variable of the provider, its OSDs and the emission keeps its type.
THEOREM TypesKept == Spec => []TypeOK
<1>1. IInv => TypeOK
  BY DEF IInv
<1>2. QED
  BY <1>1, Invariance, PTL

\* No OSD loses its images while it is open (the numbering of cDBusOsd and the
\* deletion in ~cDbusOsdMsg), however often the provider is deleted and created.
THEOREM Kept == Spec => []ImagesKept
<1>1. IInv => ImagesKept
  BY DEF IInv
<1>2. QED
  BY <1>1, Invariance, PTL

\* Whenever the thread of Action sleeps, its queue is empty.
THEOREM Awake == Spec => []NeverSleepsOnMessage
<1>1. IInv => NeverSleepsOnMessage
  BY DEF IInv
<1>2. QED
  BY <1>1, Invariance, PTL

\* The destructor cancels the thread only if messages kept it from ending, one
\* for each of the waits that make up its patience.
THEOREM Undisturbed == Spec => []KilledOnlyIfFed
<1>1. Init => Paced
  BY DEF Init, Paced
<1>2. IInv /\ Paced /\ [Next]_vars => Paced'
  BY PacedStep
<1>3. IInv /\ Paced => KilledOnlyIfFed
  <2> SUFFICES ASSUME IInv, Paced, provider = "ending", Works, cancelLeft = 0
               PROVE  (late + 1) * WaitTicks >= CancelTicks
    BY DEF KilledOnlyIfFed
  <2>1. /\ late \in Nat /\ late * WaitTicks \in Nat /\ waitLeft \in 0..WaitTicks
        /\ (late + 1) * WaitTicks = late * WaitTicks + WaitTicks
    BY OneMore DEF IInv, TypeOK
  <2>2. Waited <= late * WaitTicks + WaitTicks
    BY SMTT(30), <2>1, Bounds DEF Paced, Waited
  <2>3. QED
    BY <2>1, <2>2, Bounds DEF Waited
<1>4. QED
  BY <1>1, <1>2, <1>3, Invariance, PTL DEF Spec

-----------------------------------------------------------------------------
(***************************************************************************)
(* The batches in a row. FlattenSeq is a recursive function of the index;  *)
(* what it does to a batch more or less is shown by induction over it.     *)
(***************************************************************************)

\* Joining is associative.
LEMMA Regroup ==
  ASSUME NEW S, NEW a, NEW b, NEW c, a \in Seq(S), b \in Seq(S), c \in Seq(S)
  PROVE  (a \o b) \o c = a \o (b \o c)
BY ConcatAssociative

\* Counting up to n.
LEMMA UpTo ==
  ASSUME NEW n \in Nat, NEW T, 1 \in T, \A i \in 1..n : i + 1 \in 1..n /\ i \in T => i + 1 \in T
  PROVE  1..n \subseteq T
<1> DEFINE R == {i \in 1..n : i \notin T}
<1>1. SUFFICES ASSUME R # {} PROVE FALSE
  OBVIOUS
<1>2. R \in SUBSET Nat
  OBVIOUS
<1>3. PICK x \in R : \A y \in R : ~(<<y, x>> \in OpToRel(<, Nat))
  BY <1>1, <1>2, NatLessThanWellFounded, WFMin, Zenon
<1>4. x \in 1..n /\ x \notin T /\ x # 1
  OBVIOUS
<1>5. x - 1 \in 1..n /\ x - 1 < x /\ (x - 1) + 1 = x
  BY <1>4
<1> HIDE DEF R
<1>6. \A y \in R : ~(y < x)
  BY <1>2, <1>3 DEF OpToRel
<1>7. x - 1 \notin R
  BY <1>5, <1>6
<1> QED BY <1>4, <1>5, <1>7 DEF R

\* f[i] is the first i of the sequences in s, joined.
Joins(f, s, n) == f = [i \in 1..n |-> IF i = 1 THEN s[i] ELSE f[i - 1] \o s[i]]

\* There is such a function: the one for n + 1 continues the one for n.
LEMMA JoinsExist ==
  ASSUME NEW s, NEW n \in Nat, n # 0
  PROVE  \E f : Joins(f, s, n)
<1> DEFINE T == {k \in 1..n : \E f : Joins(f, s, k)}
<1>1. 1 \in T
  <2>1. Joins([i \in 1..1 |-> s[i]], s, 1)
    BY DEF Joins
  <2> QED BY <2>1
<1>2. ASSUME NEW k \in 1..n, k + 1 \in 1..n, k \in T PROVE k + 1 \in T
  <2>1. PICK f : Joins(f, s, k)
    BY <1>2
  <2> DEFINE g == [i \in 1..(k + 1) |-> IF i = k + 1 THEN f[k] \o s[i] ELSE f[i]]
  <2>2. ASSUME NEW i \in 1..(k + 1)
        PROVE  g[i] = IF i = 1 THEN s[i] ELSE g[i - 1] \o s[i]
    <3>1. CASE i = k + 1
      <4>1. k \in 1..(k + 1) /\ k # k + 1 /\ i - 1 = k /\ i # 1
        BY <3>1
      <4>2. g[i - 1] = f[k]
        BY <4>1
      <4> QED BY <3>1, <4>1, <4>2
    <3>2. CASE i # k + 1
      <4>1. i \in 1..k /\ (i # 1 => i - 1 \in 1..(k + 1) /\ i - 1 # k + 1)
        BY <3>2
      <4>2. g[i] = f[i] /\ (i # 1 => g[i - 1] = f[i - 1])
        BY <3>2, <4>1
      <4>3. f[i] = IF i = 1 THEN s[i] ELSE f[i - 1] \o s[i]
        BY <2>1, <4>1 DEF Joins
      <4> QED BY <4>2, <4>3
    <3> QED BY <3>1, <3>2
  <2>3. Joins(g, s, k + 1)
    <3> HIDE DEF g
    <3>1. g = [i \in 1..(k + 1) |-> g[i]]
      BY DEF g
    <3> QED BY <2>2, <3>1 DEF Joins
  <2> QED BY <1>2, <2>3
<1> HIDE DEF T
<1>3. 1..n \subseteq T
  BY <1>1, <1>2, UpTo
<1> QED BY <1>3 DEF T

\* FlattenSeq is defined with one of them.
LEMMA FlattenJoins ==
  ASSUME NEW s, Len(s) \in Nat, Len(s) # 0
  PROVE  \E f : Joins(f, s, Len(s)) /\ FlattenSeq(s) = f[Len(s)]
<1>1. \E f : Joins(f, s, Len(s))
  BY JoinsExist
<1> DEFINE F == CHOOSE f : Joins(f, s, Len(s))
<1>2. Joins(F, s, Len(s))
  BY <1>1
<1>3. FlattenSeq(s) = F[Len(s)]
  BY DEF FlattenSeq, Joins
<1> QED BY <1>2, <1>3

\* It joins sequences over S to sequences over S.
LEMMA JoinsTyped ==
  ASSUME NEW S, NEW s \in Seq(Seq(S)), NEW f, Joins(f, s, Len(s)), Len(s) # 0
  PROVE  \A i \in 1..Len(s) : f[i] \in Seq(S)
<1> DEFINE T == {i \in 1..Len(s) : f[i] \in Seq(S)}
<1>1. \A i \in 1..Len(s) : f[i] = IF i = 1 THEN s[i] ELSE f[i - 1] \o s[i]
  BY DEF Joins
<1>2. \A i \in 1..Len(s) : s[i] \in Seq(S)
  OBVIOUS
<1>3. 1 \in T
  BY <1>1, <1>2
<1>4. ASSUME NEW i \in 1..Len(s), i + 1 \in 1..Len(s), i \in T PROVE i + 1 \in T
  <2>1. f[i + 1] = f[i] \o s[i + 1]
    <3>1. i + 1 # 1 /\ (i + 1) - 1 = i
      BY <1>4
    <3> QED BY <1>1, <1>4, <3>1
  <2>2. f[i] \o s[i + 1] \in Seq(S)
    BY <1>2, <1>4, ConcatProperties
  <2> QED BY <1>4, <2>1, <2>2
<1>5. Len(s) \in Nat
  OBVIOUS
<1> HIDE DEF T
<1>6. 1..Len(s) \subseteq T
  BY <1>3, <1>4, <1>5, UpTo
<1> QED BY <1>6 DEF T

\* No batch, no signal.
LEMMA FlattenEmpty == FlattenSeq(<<>>) = <<>>
  BY DEF FlattenSeq

\* So does FlattenSeq.
LEMMA FlattenTyped ==
  ASSUME NEW S, NEW s \in Seq(Seq(S))
  PROVE  FlattenSeq(s) \in Seq(S)
<1>1. CASE Len(s) = 0
  <2>1. s = <<>>
    BY <1>1
  <2>2. <<>> \in Seq(S)
    OBVIOUS
  <2> QED BY <2>1, <2>2, FlattenEmpty
<1>2. CASE Len(s) # 0
  <2>1. PICK f : Joins(f, s, Len(s)) /\ FlattenSeq(s) = f[Len(s)]
    BY <1>2, FlattenJoins
  <2>2. Len(s) \in 1..Len(s)
    BY <1>2
  <2> QED BY <1>2, <2>1, <2>2, JoinsTyped
<1> QED BY <1>1, <1>2

\* A batch more at the end.
LEMMA FlattenAppend ==
  ASSUME NEW S, NEW s \in Seq(Seq(S)), NEW x \in Seq(S)
  PROVE  FlattenSeq(Append(s, x)) = FlattenSeq(s) \o x
<1> DEFINE t == Append(s, x)
           n == Len(s)
<1>1. t \in Seq(Seq(S)) /\ Len(t) = n + 1 /\ t[n + 1] = x /\ \A i \in 1..n : t[i] = s[i]
  BY AppendProperties
<1>2. n \in Nat
  OBVIOUS
<1> HIDE DEF t, n
<1>3. PICK g : Joins(g, t, n + 1) /\ FlattenSeq(t) = g[n + 1]
  <2>1. Len(t) \in Nat /\ Len(t) # 0
    BY <1>1, <1>2
  <2>2. \E g : Joins(g, t, Len(t)) /\ FlattenSeq(t) = g[Len(t)]
    BY <2>1, FlattenJoins
  <2> QED BY <1>1, <2>2
<1>4. \A i \in 1..(n + 1) : g[i] = IF i = 1 THEN t[i] ELSE g[i - 1] \o t[i]
  BY <1>3 DEF Joins
<1>5. CASE n = 0
  <2>1. FlattenSeq(t) = x
    BY <1>1, <1>3, <1>4, <1>5
  <2>2. s = <<>>
    BY <1>5 DEF n
  <2>3. <<>> \o x = x
    BY ConcatEmptySeq
  <2> QED BY <2>1, <2>2, <2>3, FlattenEmpty DEF t
<1>6. CASE n # 0
  <2>1. PICK f : Joins(f, s, n) /\ FlattenSeq(s) = f[n]
    BY <1>2, <1>6, FlattenJoins DEF n
  <2>2. \A i \in 1..n : f[i] = IF i = 1 THEN s[i] ELSE f[i - 1] \o s[i]
    BY <2>1 DEF Joins
  <2> DEFINE T == {i \in 1..n : g[i] = f[i]}
  <2>3. 1 \in T
    BY <1>1, <1>2, <1>4, <1>6, <2>2
  <2>4. ASSUME NEW i \in 1..n, i + 1 \in 1..n, i \in T PROVE i + 1 \in T
    <3>1. i + 1 # 1 /\ (i + 1) - 1 = i /\ i + 1 \in 1..(n + 1)
      BY <1>2, <2>4
    <3>2. g[i + 1] = g[i] \o t[i + 1] /\ f[i + 1] = f[i] \o s[i + 1]
      BY <1>4, <2>2, <2>4, <3>1
    <3> QED BY <1>1, <2>4, <3>2
  <2> HIDE DEF T
  <2>5. 1..n \subseteq T
    BY <1>2, <2>3, <2>4, UpTo
  <2>6. g[n] = f[n]
    BY <1>2, <1>6, <2>5 DEF T
  <2>7. g[n + 1] = g[n] \o x
    <3>1. n + 1 # 1 /\ (n + 1) - 1 = n /\ n + 1 \in 1..(n + 1)
      BY <1>2, <1>6
    <3> QED BY <1>1, <1>4, <3>1
  <2> QED BY <1>3, <2>1, <2>6, <2>7 DEF t
<1> QED BY <1>5, <1>6

\* A batch less at the beginning.
LEMMA FlattenHead ==
  ASSUME NEW S, NEW s \in Seq(Seq(S)), s # <<>>
  PROVE  FlattenSeq(s) = Head(s) \o FlattenSeq(Tail(s))
<1> DEFINE t == Tail(s)
           n == Len(s)
<1>1. /\ t \in Seq(Seq(S)) /\ Len(t) = n - 1 /\ \A i \in 1..(n - 1) : t[i] = s[i + 1]
      /\ Head(s) = s[1] /\ n \in Nat /\ n # 0 /\ \A i \in 1..n : s[i] \in Seq(S)
  BY HeadTailProperties
<1> HIDE DEF t, n
<1>2. PICK f : Joins(f, s, n) /\ FlattenSeq(s) = f[n]
  BY <1>1, FlattenJoins DEF n
<1>3. \A i \in 1..n : f[i] = IF i = 1 THEN s[i] ELSE f[i - 1] \o s[i]
  BY <1>2 DEF Joins
<1>4. 1 \in 1..n /\ f[1] = s[1] /\ s[1] \in Seq(S)
  BY <1>1, <1>3
<1>5. CASE n = 1
  <2>1. t = <<>>
    BY <1>1, <1>5
  <2>2. s[1] \o <<>> = s[1]
    BY <1>4, ConcatEmptySeq
  <2> QED BY <1>1, <1>2, <1>4, <1>5, <2>1, <2>2, FlattenEmpty DEF t
<1>6. CASE n # 1
  <2>1. Len(t) \in Nat /\ Len(t) # 0
    BY <1>1, <1>6
  <2>2. PICK g : Joins(g, t, Len(t)) /\ FlattenSeq(t) = g[Len(t)]
    BY <2>1, FlattenJoins
  <2>3. \A i \in 1..(n - 1) : g[i] = IF i = 1 THEN t[i] ELSE g[i - 1] \o t[i]
    BY <1>1, <2>2 DEF Joins
  <2>4. \A i \in 1..(n - 1) : g[i] \in Seq(S) /\ t[i] \in Seq(S)
    BY SMTT(30), <1>1, <2>1, <2>2, JoinsTyped
  <2> DEFINE T == {i \in 1..(n - 1) : f[i + 1] = s[1] \o g[i]}
  <2>5. 1 \in T
    <3>1. 1 \in 1..(n - 1) /\ 1 + 1 \in 1..n /\ 1 + 1 # 1 /\ (1 + 1) - 1 = 1
      BY <1>1, <1>6
    <3>2. f[1 + 1] = f[1] \o s[1 + 1] /\ g[1] = t[1] /\ t[1] = s[1 + 1]
      BY <1>1, <1>3, <2>3, <3>1
    <3> QED BY <1>4, <3>1, <3>2
  <2>6. ASSUME NEW i \in 1..(n - 1), i + 1 \in 1..(n - 1), i \in T PROVE i + 1 \in T
    <3>1. /\ (i + 1) + 1 \in 1..n /\ (i + 1) + 1 # 1 /\ ((i + 1) + 1) - 1 = i + 1
          /\ i + 1 # 1 /\ (i + 1) - 1 = i
      BY <1>1, <2>6
    <3>2. f[(i + 1) + 1] = f[i + 1] \o s[(i + 1) + 1] /\ g[i + 1] = g[i] \o t[i + 1]
          /\ t[i + 1] = s[(i + 1) + 1]
      BY <1>1, <1>3, <2>3, <2>6, <3>1
    <3>3. (s[1] \o g[i]) \o t[i + 1] = s[1] \o (g[i] \o t[i + 1])
      <4> DEFINE a == s[1]
                 b == g[i]
                 c == t[i + 1]
      <4>1. a \in Seq(S) /\ b \in Seq(S) /\ c \in Seq(S)
        BY <1>4, <2>4, <2>6
      <4> HIDE DEF a, b, c
      <4>2. (a \o b) \o c = a \o (b \o c)
        BY SMTT(30), <4>1, Regroup
      <4> QED BY <4>2 DEF a, b, c
    <3> QED BY <2>6, <3>2, <3>3
  <2> HIDE DEF T
  <2>7. 1..(n - 1) \subseteq T
    <3>1. n - 1 \in Nat
      BY <1>1
    <3> QED BY <2>5, <2>6, <3>1, UpTo
  <2>8. n - 1 \in 1..(n - 1) /\ (n - 1) + 1 = n
    BY <1>1, <1>6
  <2>9. f[n] = s[1] \o g[n - 1]
    BY <2>7, <2>8 DEF T
  <2> QED BY <1>1, <1>2, <2>2, <2>9 DEF t
<1> QED BY <1>5, <1>6

-----------------------------------------------------------------------------
(***************************************************************************)
(* The line. The messages that are on their way, in their order: the       *)
(* batches, the signals, the message in the thread's hands and the queue.  *)
(* It is always the end of what was sent; what is before it is with the    *)
(* pool or emitted.                                                        *)
(***************************************************************************)

Line == FlattenSeq(jobs) \o signals \o taken \o (IF Works THEN msgQueue ELSE <<>>)

Out == ToSet(emitted) \union UNION {ToSet(batch[w]) : w \in Workers}

\* The line is the end of what was sent, and what is before it is out.
Behind(line, all, out) ==
  /\ Len(line) <= Len(all)
  /\ \A i \in 1..Len(line) : line[i] = all[Len(all) - Len(line) + i]
  /\ out = {all[i] : i \in 1..(Len(all) - Len(line))}

\* No two places of a sequence hold the same.
Differs(s) == \A i, j \in DOMAIN s : s[i] = s[j] => i = j

\* No message is with two threads, or with one and emitted, or twice with one.
Once ==
  /\ \A w \in Workers : ToSet(emitted) \cap ToSet(batch[w]) = {} /\ Differs(batch[w])
  /\ \A v, w \in Workers : v # w => ToSet(batch[v]) \cap ToSet(batch[w]) = {}

\* No message is sent twice, for each speaks of what was not so before it: an
\* OSD that there was not, an image that was not counted, an open OSD.
Fresh ==
  /\ Differs(sent)
  /\ \A i \in DOMAIN sent :
       /\ sent[i].osd \in DOMAIN osds
       /\ sent[i].action = "Display" => sent[i].image < osds[sent[i].osd].counter
       /\ sent[i].action = "Close" => osds[sent[i].osd].open = 0

\* Only a thread that handles a message has one, and nothing is queued where
\* there is no provider.
Idle ==
  /\ taken # <<>> => thread = "handle"
  /\ provider = "none" => msgQueue = <<>> /\ thread \in {"off", "killed"}

HandInv == Fresh /\ Idle /\ (killed = 0 => Once /\ Behind(Line, sent, Out))

-----------------------------------------------------------------------------

\* A message is sent: it is the last in the line.
LEMMA BehindSent ==
  ASSUME NEW S, NEW line \in Seq(S), NEW all \in Seq(S), NEW m \in S, NEW out, Behind(line, all, out)
  PROVE  Behind(Append(line, m), Append(all, m), out)
<1> DEFINE l == Append(line, m)
           a == Append(all, m)
<1>1. /\ Len(l) = Len(line) + 1 /\ l[Len(line) + 1] = m /\ \A i \in 1..Len(line) : l[i] = line[i]
      /\ Len(a) = Len(all) + 1 /\ a[Len(all) + 1] = m /\ \A i \in 1..Len(all) : a[i] = all[i]
  BY AppendProperties
<1>2. Len(line) \in Nat /\ Len(all) \in Nat /\ Len(line) <= Len(all)
  BY DEF Behind
<1> HIDE DEF l, a
<1>3. Len(l) <= Len(a) /\ Len(a) - Len(l) = Len(all) - Len(line)
  BY <1>1, <1>2
<1>4. ASSUME NEW i \in 1..Len(l) PROVE l[i] = a[Len(a) - Len(l) + i]
  <2>1. CASE i = Len(line) + 1
    <3>1. Len(all) - Len(line) + i = Len(all) + 1
      BY <1>2, <2>1
    <3> QED BY <1>1, <1>3, <2>1, <3>1
  <2>2. CASE i # Len(line) + 1
    <3>1. i \in 1..Len(line) /\ Len(all) - Len(line) + i \in 1..Len(all)
      BY <1>1, <1>2, <2>2
    <3>2. line[i] = all[Len(all) - Len(line) + i]
      BY <3>1 DEF Behind
    <3> QED BY <1>1, <1>3, <3>1, <3>2
  <2> QED BY <2>1, <2>2
<1>5. out = {a[i] : i \in 1..(Len(a) - Len(l))}
  <2>1. \A i \in 1..(Len(all) - Len(line)) : a[i] = all[i]
    BY <1>1, <1>2
  <2>2. out = {all[i] : i \in 1..(Len(all) - Len(line))}
    BY DEF Behind
  <2> QED BY <1>3, <2>1, <2>2
<1>6. Behind(l, a, out)
  BY <1>3, <1>4, <1>5 DEF Behind
<1> QED BY <1>6 DEF l, a

\* A batch is taken: it is the first of the line, and nobody has any of it.
LEMMA BehindTaken ==
  ASSUME NEW S, NEW x \in Seq(S), NEW line \in Seq(S), NEW all \in Seq(S), NEW out,
         Behind(x \o line, all, out), Differs(all)
  PROVE  /\ Behind(line, all, out \union ToSet(x))
         /\ Differs(x) /\ out \cap ToSet(x) = {}
<1> DEFINE both == x \o line
           p == Len(all) - Len(both)
<1>1. /\ Len(both) = Len(x) + Len(line)
      /\ \A i \in 1..(Len(x) + Len(line)) : both[i] = IF i <= Len(x) THEN x[i] ELSE line[i - Len(x)]
  BY ConcatProperties
<1>2. /\ Len(x) \in Nat /\ Len(line) \in Nat /\ Len(all) \in Nat
      /\ DOMAIN x = 1..Len(x) /\ DOMAIN all = 1..Len(all)
  OBVIOUS
<1> HIDE DEF both
<1>3. /\ Len(both) <= Len(all) /\ \A i \in 1..Len(both) : both[i] = all[p + i]
      /\ out = {all[i] : i \in 1..p}
  BY DEF Behind, both
<1>4. p \in Nat /\ Len(all) - Len(line) = p + Len(x)
  BY <1>1, <1>2, <1>3
<1>5. \A i \in 1..Len(x) : x[i] = all[p + i] /\ p + i \in 1..Len(all)
  <2> TAKE i \in 1..Len(x)
  <2>1. i \in 1..Len(both) /\ i <= Len(x) /\ i \in 1..(Len(x) + Len(line))
    BY <1>1, <1>2
  <2>2. both[i] = x[i]
    BY <1>1, <2>1
  <2> QED BY <1>1, <1>2, <1>3, <1>4, <2>1, <2>2
<1>6. \A i \in 1..Len(line) : line[i] = all[(p + Len(x)) + i]
  <2> TAKE i \in 1..Len(line)
  <2>1. /\ Len(x) + i \in 1..Len(both) /\ Len(x) + i \in 1..(Len(x) + Len(line)) /\ ~(Len(x) + i <= Len(x))
        /\ (Len(x) + i) - Len(x) = i
    BY <1>1, <1>2
  <2>2. both[Len(x) + i] = line[i]
    BY <1>1, <2>1
  <2>3. p + (Len(x) + i) = (p + Len(x)) + i
    BY <1>2, <1>4
  <2> QED BY <1>3, <2>1, <2>2, <2>3
<1> HIDE DEF p
<1>7. ToSet(x) = {all[p + i] : i \in 1..Len(x)}
  BY <1>2, <1>5 DEF ToSet
<1>8. out \union ToSet(x) = {all[i] : i \in 1..(p + Len(x))}
  <2>1. ASSUME NEW i \in 1..(p + Len(x)) PROVE all[i] \in out \union ToSet(x)
    <3>1. CASE i \in 1..p
      BY <1>3, <3>1 DEF p
    <3>2. CASE i \notin 1..p
      <4>1. i - p \in 1..Len(x) /\ p + (i - p) = i
        BY <1>2, <1>4, <3>2
      <4> QED BY <1>7, <4>1
    <3> QED BY <3>1, <3>2
  <2>2. \A i \in 1..p : i \in 1..(p + Len(x))
    BY <1>2, <1>4
  <2>3. \A i \in 1..Len(x) : p + i \in 1..(p + Len(x))
    BY <1>2, <1>4
  <2>4. out = {all[i] : i \in 1..p}
    BY <1>3 DEF p
  <2> QED BY <1>7, <2>1, <2>2, <2>3, <2>4
<1>9. Behind(line, all, out \union ToSet(x))
  <2>1. Len(line) <= Len(all)
    BY <1>2, <1>4
  <2> QED BY <1>4, <1>6, <1>8, <2>1 DEF Behind
<1>10. Differs(x)
  <2> SUFFICES ASSUME NEW i \in 1..Len(x), NEW j \in 1..Len(x), x[i] = x[j] PROVE i = j
    BY <1>2 DEF Differs
  <2>1. p + i = p + j
    BY <1>2, <1>5 DEF Differs
  <2> QED BY <1>4, <2>1
<1>11. out \cap ToSet(x) = {}
  <2> SUFFICES ASSUME NEW k \in 1..p, NEW i \in 1..Len(x), all[k] = all[p + i] PROVE FALSE
    BY <1>3, <1>7 DEF p
  <2>1. k \in 1..Len(all) /\ p + i \in 1..Len(all) /\ k # p + i
    BY <1>2, <1>4, <1>5
  <2> QED BY <1>2, <2>1 DEF Differs
<1> QED BY <1>9, <1>10, <1>11

\* What Append and Head do to the set of a sequence's members.
LEMMA SetOfAppend ==
  ASSUME NEW S, NEW s \in Seq(S), NEW e \in S
  PROVE  ToSet(Append(s, e)) = ToSet(s) \union {e}
<1> DEFINE a == Append(s, e)
<1>1. Len(a) = Len(s) + 1 /\ a[Len(s) + 1] = e /\ (\A i \in 1..Len(s) : a[i] = s[i]) /\ a \in Seq(S)
  BY AppendProperties
<1>2. DOMAIN s = 1..Len(s) /\ DOMAIN a = 1..(Len(s) + 1) /\ Len(s) \in Nat
  BY <1>1
<1> HIDE DEF a
<1>3. ToSet(a) = {a[i] : i \in 1..(Len(s) + 1)} /\ ToSet(s) = {s[i] : i \in 1..Len(s)}
  BY <1>2 DEF ToSet
<1>4. \A i \in 1..(Len(s) + 1) : i \in 1..Len(s) \/ i = Len(s) + 1
  BY <1>2
<1>5. \A i \in 1..Len(s) : i \in 1..(Len(s) + 1)
  BY <1>2
<1>6. Len(s) + 1 \in 1..(Len(s) + 1)
  BY <1>2
<1>7. ToSet(a) = ToSet(s) \union {e}
  BY <1>1, <1>3, <1>4, <1>5, <1>6
<1> QED BY <1>7 DEF a

\* What is left of a sequence that holds nothing twice.
LEMMA SetOfTail ==
  ASSUME NEW S, NEW s \in Seq(S), s # <<>>, Differs(s)
  PROVE  /\ ToSet(s) = {Head(s)} \union ToSet(Tail(s)) /\ Head(s) \notin ToSet(Tail(s)) /\ Differs(Tail(s))
         /\ ToSet(Tail(s)) \subseteq ToSet(s) /\ Head(s) \in ToSet(s)
<1> DEFINE t == Tail(s)
           n == Len(s)
<1>1. /\ t \in Seq(S) /\ Len(t) = n - 1 /\ \A i \in 1..(n - 1) : t[i] = s[i + 1]
      /\ Head(s) = s[1] /\ n \in Nat /\ n # 0
  BY HeadTailProperties
<1>2. DOMAIN s = 1..n /\ DOMAIN t = 1..(n - 1)
  BY <1>1
<1> HIDE DEF t, n
<1>3. ToSet(s) = {s[i] : i \in 1..n} /\ ToSet(t) = {t[i] : i \in 1..(n - 1)}
  BY <1>2 DEF ToSet
<1>4. \A i \in 1..(n - 1) : i + 1 \in 1..n /\ i + 1 # 1
  BY <1>1
<1>5. \A i \in 1..n : i = 1 \/ (i - 1 \in 1..(n - 1) /\ (i - 1) + 1 = i)
  BY <1>1
<1>6. 1 \in 1..n
  BY <1>1
<1>7. \A i, j \in 1..n : s[i] = s[j] => i = j
  BY <1>2 DEF Differs
<1>8. ToSet(s) = {s[1]} \union ToSet(t)
  <2>1. \A i \in 1..n : s[i] \in {s[1]} \union ToSet(t)
    BY <1>1, <1>3, <1>5
  <2>2. \A i \in 1..(n - 1) : t[i] \in ToSet(s)
    BY <1>1, <1>3, <1>4
  <2> QED BY <1>3, <1>6, <2>1, <2>2
<1>9. s[1] \notin ToSet(t)
  BY <1>1, <1>3, <1>4, <1>6, <1>7
<1>10. Differs(t)
  <2> SUFFICES ASSUME NEW i \in 1..(n - 1), NEW j \in 1..(n - 1), t[i] = t[j] PROVE i = j
    BY <1>2 DEF Differs
  <2>1. i + 1 = j + 1
    BY <1>1, <1>4, <1>7
  <2> QED BY <2>1
<1> QED BY <1>1, <1>8, <1>9, <1>10 DEF t

\* The line of four parts: where a message may go in it.
LEMMA Parts ==
  ASSUME NEW S, NEW f, NEW s, NEW t, NEW q, f \in Seq(S), s \in Seq(S), t \in Seq(S), q \in Seq(S)
  PROVE  f \o s \o t \o q \in Seq(S)
BY ConcatProperties

\* A message sent goes to the end of the queue, and so of the line.
LEMMA AtEnd ==
  ASSUME NEW S, NEW a, NEW q, NEW m, a \in Seq(S), q \in Seq(S), m \in S
  PROVE  a \o Append(q, m) = Append(a \o q, m)
<1>1. Append(q, m) = q \o <<m>> /\ <<m>> \in Seq(S) /\ a \o q \in Seq(S)
  BY AppendIsConcat, ConcatProperties
<1>2. Append(a \o q, m) = (a \o q) \o <<m>>
  BY <1>1, AppendIsConcat
<1>3. (a \o q) \o <<m>> = a \o (q \o <<m>>)
  BY <1>1, Regroup
<1> QED BY <1>1, <1>2, <1>3

\* The thread takes the first of the queue.
LEMMA MovesToHand ==
  ASSUME NEW S, NEW a, NEW q, NEW h, NEW r, a \in Seq(S), h \in S, r \in Seq(S), q = <<h>> \o r
  PROVE  a \o <<>> \o q = a \o <<h>> \o r
<1>1. <<h>> \in Seq(S) /\ a \o <<>> = a
  BY ConcatEmptySeq
<1>2. (a \o <<h>>) \o r = a \o (<<h>> \o r)
  BY <1>1, Regroup
<1> QED BY <1>1, <1>2

\* The message in its hands becomes a signal.
LEMMA MovesToSignals ==
  ASSUME NEW S, NEW f, NEW s, NEW m, NEW q, f \in Seq(S), s \in Seq(S), m \in S, q \in Seq(S)
  PROVE  f \o Append(s, m) \o <<>> \o q = f \o s \o <<m>> \o q
<1>1. <<m>> \in Seq(S) /\ Append(s, m) = s \o <<m>> /\ s \o <<m>> \in Seq(S) /\ f \o s \in Seq(S)
  BY AppendIsConcat, ConcatProperties
<1>2. (f \o s) \o <<m>> = f \o (s \o <<m>>)
  BY SMTT(30), <1>1, Regroup
<1>3. f \o Append(s, m) \in Seq(S)
  BY <1>1, ConcatProperties
<1>4. (f \o Append(s, m)) \o <<>> = f \o Append(s, m)
  BY <1>3, ConcatEmptySeq
<1> QED BY <1>1, <1>2, <1>4

\* The signals become a batch.
LEMMA MovesToJobs ==
  ASSUME NEW S, NEW f, NEW s, f \in Seq(S), s \in Seq(S)
  PROVE  (f \o s) \o <<>> = f \o s
<1>1. f \o s \in Seq(S)
  BY ConcatProperties
<1> QED BY <1>1, ConcatEmptySeq

-----------------------------------------------------------------------------

\* The four parts are sequences of messages.
LEMMA LineParts ==
  ASSUME TypeOK
  PROVE  /\ FlattenSeq(jobs) \in Seq(Messages) /\ signals \in Seq(Messages) /\ taken \in Seq(Messages)
         /\ (IF Works THEN msgQueue ELSE <<>>) \in Seq(Messages) /\ Line \in Seq(Messages)
         /\ FlattenSeq(jobs) \o signals \o taken \in Seq(Messages)
<1>1. FlattenSeq(jobs) \in Seq(Messages)
  BY FlattenTyped DEF TypeOK
<1>2. signals \in Seq(Messages) /\ taken \in Seq(Messages) /\ msgQueue \in Seq(Messages)
  BY DEF TypeOK
<1>3. (IF Works THEN msgQueue ELSE <<>>) \in Seq(Messages)
  <2>1. <<>> \in Seq(Messages)
    OBVIOUS
  <2> QED BY <1>2, <2>1, Zenon
<1>4. Line \in Seq(Messages)
  <2> DEFINE f == FlattenSeq(jobs)
             q == IF Works THEN msgQueue ELSE <<>>
  <2>1. f \in Seq(Messages) /\ q \in Seq(Messages)
    BY <1>1, <1>3
  <2> HIDE DEF f, q
  <2>2. f \o signals \o taken \o q \in Seq(Messages)
    BY <1>2, <2>1, Parts
  <2> QED BY <2>2 DEF Line, f, q
<1>5. FlattenSeq(jobs) \o signals \o taken \in Seq(Messages)
  <2> DEFINE f == FlattenSeq(jobs)
  <2>1. f \in Seq(Messages)
    BY <1>1
  <2> HIDE DEF f
  <2>2. f \o signals \o taken \in Seq(Messages)
    BY <1>2, <2>1, ConcatProperties
  <2> QED BY <2>2 DEF f
<1> QED BY <1>1, <1>2, <1>3, <1>4, <1>5

\* What a message that a working thread is sent does to the line.
LEMMA LineSent ==
  ASSUME IInv, Idle, NEW gen, NEW m \in Messages, SendMessage(gen, m), UNCHANGED <<life, emission>>
  PROVE  /\ Idle'
         /\ \/ Line' = Line /\ sent' = sent
            \/ Line' = Append(Line, m) /\ sent' = Append(sent, m)
<1>1. CASE ~Lives(gen)
  BY <1>1 DEF SendMessage, Line, Idle, Works
<1>2. CASE Lives(gen)
  <2>1. /\ msgQueue' = Append(msgQueue, m) /\ taken' = taken /\ jobs' = jobs /\ signals' = signals
        /\ thread' = (IF thread = "wait" THEN "test" ELSE thread)
        /\ sent' = (IF Works THEN Append(sent, m) ELSE sent) /\ provider' = provider /\ provider # "none"
    BY <1>2 DEF SendMessage, Broadcast, Lives
  <2>2. Works' = Works
    BY <2>1 DEF Works
  <2>3. Idle'
    BY <2>1 DEF Idle
  <2>4. CASE ~Works
    <3>1. Line' = Line
      BY <2>1, <2>2, <2>4 DEF Line
    <3> QED BY <2>1, <2>3, <2>4, <3>1
  <2>5. CASE Works
    <3> DEFINE a == FlattenSeq(jobs) \o signals \o taken
    <3>1. a \in Seq(Messages) /\ msgQueue \in Seq(Messages)
      BY LineParts DEF IInv, TypeOK
    <3>2. Line = a \o msgQueue /\ Line' = a \o Append(msgQueue, m)
      BY <2>1, <2>2, <2>5 DEF Line
    <3> HIDE DEF a
    <3>3. a \o Append(msgQueue, m) = Append(a \o msgQueue, m)
      BY <3>1, AtEnd
    <3>4. Line' = Append(Line, m)
      BY <3>2, <3>3
    <3> QED BY <2>1, <2>3, <2>5, <3>4
  <2> QED BY <2>4, <2>5
<1> QED BY <1>1, <1>2

\* The thread's own steps leave the line as it is.
LEMMA LineKept ==
  ASSUME IInv, Idle, Thread \/ Tick
  PROVE  Idle' /\ Line' = Line
<1>1. CASE Take
  <2>1. /\ msgQueue \in Seq(Messages) /\ msgQueue # <<>> /\ taken' = <<msgQueue[1]>>
        /\ msgQueue' = RemoveAt(msgQueue, 1) /\ thread = "test" /\ thread' = "handle"
        /\ jobs' = jobs /\ signals' = signals /\ provider' = provider
    BY <1>1 DEF Take, FirstOne, IInv, TypeOK
  <2>2. taken = <<>> /\ Works /\ Works'
    BY <2>1 DEF Idle, Works
  <2>3. msgQueue = <<msgQueue[1]>> \o msgQueue' /\ msgQueue[1] \in Messages /\ msgQueue' \in Seq(Messages)
    <3> DEFINE h == msgQueue[1]
               r == RemoveAt(msgQueue, 1)
               n == Len(msgQueue)
    <3>1. /\ r \in Seq(Messages) /\ DOMAIN r = 1..(n - 1) /\ \A i \in 1..(n - 1) : r[i] = msgQueue[i + 1]
          /\ n \in Nat /\ n > 0 /\ h \in Messages
      BY <2>1, TailOf
    <3>2. Len(r) = n - 1
      BY <3>1
    <3> HIDE DEF h, r, n
    <3>3. <<h>> \in Seq(Messages) /\ Len(<<h>>) = 1 /\ <<h>>[1] = h
      BY <3>1
    <3>4. /\ <<h>> \o r \in Seq(Messages) /\ Len(<<h>> \o r) = n
          /\ \A i \in 1..n : (<<h>> \o r)[i] = IF i <= 1 THEN <<h>>[i] ELSE r[i - 1]
      <4>1. /\ <<h>> \o r \in Seq(Messages) /\ Len(<<h>> \o r) = Len(<<h>>) + Len(r)
            /\ \A i \in 1..(Len(<<h>>) + Len(r)) :
                 (<<h>> \o r)[i] = IF i <= Len(<<h>>) THEN <<h>>[i] ELSE r[i - Len(<<h>>)]
        BY <3>1, <3>3, ConcatProperties
      <4>2. Len(<<h>>) + Len(r) = n
        BY <3>1, <3>2, <3>3
      <4> QED BY <3>3, <4>1, <4>2
    <3>5. \A i \in 1..n : (<<h>> \o r)[i] = msgQueue[i]
      <4> TAKE i \in 1..n
      <4>1. CASE i = 1
        BY <3>3, <3>4, <4>1 DEF h
      <4>2. CASE i # 1
        <5>1. ~(i <= 1) /\ i - 1 \in 1..(n - 1) /\ (i - 1) + 1 = i
          BY <3>1, <4>2
        <5> QED BY <3>1, <3>4, <5>1
      <4> QED BY <4>1, <4>2
    <3>6. <<h>> \o r = msgQueue
      <4>1. Len(msgQueue) = Len(<<h>> \o r) /\ \A i \in 1..Len(msgQueue) : msgQueue[i] = (<<h>> \o r)[i]
        BY <3>4, <3>5 DEF n
      <4> QED BY <2>1, <3>4, <4>1, SeqEqual
    <3> QED BY <2>1, <3>1, <3>6 DEF h, r
  <2>4. FlattenSeq(jobs) \o signals \in Seq(Messages)
    <3> DEFINE f == FlattenSeq(jobs)
    <3>1. f \in Seq(Messages) /\ signals \in Seq(Messages)
      BY LineParts DEF IInv
    <3> HIDE DEF f
    <3>2. f \o signals \in Seq(Messages)
      BY <3>1, ConcatProperties
    <3> QED BY <3>2 DEF f
  <2> DEFINE a == FlattenSeq(jobs) \o signals
             h == msgQueue[1]
  <2>5. Line = a \o <<>> \o msgQueue /\ Line' = a \o <<h>> \o msgQueue'
    BY <2>1, <2>2 DEF Line
  <2> HIDE DEF a, h
  <2>6. a \in Seq(Messages) /\ h \in Messages /\ msgQueue = <<h>> \o msgQueue'
    BY <2>3, <2>4 DEF a, h
  <2>7. a \o <<>> \o msgQueue = a \o <<h>> \o msgQueue'
    BY SMTT(30), <2>3, <2>6, MovesToHand
  <2> QED BY <2>1, <2>5, <2>7 DEF Idle
<1>2. CASE Handle
  <2>1. /\ signals' = Append(signals, taken[1]) /\ jobs' = jobs /\ msgQueue' = msgQueue
        /\ taken' = <<>> /\ thread = "handle" /\ thread' = "check" /\ provider' = provider
    BY <1>2 DEF Handle, EmitSignal
  <2>2. Works /\ Works'
    BY <2>1 DEF Works
  <2>3. taken = <<taken[1]>> /\ taken[1] \in Messages
    <3>1. taken \in Seq(Messages) /\ Len(taken) = 1
      BY <2>1 DEF IInv, InStep, TypeOK
    <3>2. taken[1] \in Messages
      BY <3>1
    <3>3. <<taken[1]>> \in Seq(Messages) /\ Len(<<taken[1]>>) = 1 /\ <<taken[1]>>[1] = taken[1]
      BY <3>2
    <3>4. \A i \in 1..Len(taken) : taken[i] = <<taken[1]>>[i]
      BY <3>1, <3>3
    <3> QED BY <3>1, <3>2, <3>3, <3>4, SeqEqual
  <2> DEFINE f == FlattenSeq(jobs)
             m == taken[1]
  <2>4. /\ f \in Seq(Messages) /\ signals \in Seq(Messages) /\ msgQueue \in Seq(Messages) /\ m \in Messages
    BY <2>3, LineParts DEF IInv, TypeOK
  <2>5. Line = f \o signals \o <<m>> \o msgQueue
    BY <2>2, <2>3 DEF Line
  <2>6. Line' = f \o Append(signals, m) \o <<>> \o msgQueue
    BY <2>1, <2>2 DEF Line
  <2> HIDE DEF f, m
  <2>7. f \o Append(signals, m) \o <<>> \o msgQueue = f \o signals \o <<m>> \o msgQueue
    BY <2>4, MovesToSignals
  <2> QED BY <2>1, <2>5, <2>6, <2>7 DEF Idle
<1>3. CASE End
  <2>1. /\ msgQueue = <<>> /\ UNCHANGED <<jobs, signals, taken, msgQueue, provider>>
        /\ thread = "test" /\ thread' = "off"
    BY <1>3 DEF End, Continue
  <2>2. Line' = Line
    BY <2>1 DEF Line
  <2> QED BY <2>1, <2>2 DEF Idle
<1>4. CASE TakeNothing \/ Check \/ Tick
  <2>1. /\ UNCHANGED <<jobs, signals, taken, msgQueue, provider>> /\ thread \in {"test", "check", "wait"}
        /\ thread' \in {"test", "check", "wait"}
    BY <1>4 DEF TakeNothing, Check, Tick
  <2>2. Works /\ Works'
    BY <2>1 DEF Works
  <2>3. Line' = Line
    BY <2>1, <2>2 DEF Line
  <2> QED BY <2>1, <2>3 DEF Idle
<1> QED BY <1>1, <1>2, <1>3, <1>4 DEF Thread

\* Nor do the provider's constructor and its destructor, unless the thread is
\* cancelled.
LEMMA LineLives ==
  ASSUME IInv, Idle, CreateProvider \/ DeleteProvider \/ Destructor
  PROVE  Idle' /\ (Line' = Line \/ killed' = 1)
<1>1. CASE CreateProvider
  <2>1. /\ UNCHANGED <<jobs, signals, taken, msgQueue>> /\ msgQueue = <<>>
        /\ thread' = "test" /\ provider' = "on"
    BY <1>1 DEF CreateProvider, Idle
  <2>2. taken = <<>> /\ ~Works /\ Works'
    BY <1>1, <2>1 DEF CreateProvider, Idle, Works
  <2>3. msgQueue' = <<>>
    BY <2>1
  <2>4. Line' = Line
    BY <2>1, <2>2, <2>3 DEF Line
  <2> QED BY <2>1, <2>2, <2>4 DEF Idle
<1>2. CASE DeleteProvider \/ Cancel
  <2>1. /\ UNCHANGED <<jobs, signals, taken, msgQueue>> /\ provider' # "none"
        /\ thread' = thread \/ (thread = "wait" /\ thread' = "test")
    BY <1>2 DEF DeleteProvider, Cancel, Broadcast
  <2>2. Works' = Works
    BY <2>1 DEF Works
  <2>3. Line' = Line
    BY <2>1, <2>2 DEF Line
  <2> QED BY <2>1, <2>3 DEF Idle
<1>3. CASE ThreadEnded
  <2>1. /\ UNCHANGED <<jobs, signals, taken>> /\ thread = "off" /\ thread' = "off" /\ msgQueue' = <<>>
    BY <1>3 DEF ThreadEnded, Free
  <2>2. Line' = Line
    BY <2>1 DEF Line, Works
  <2> QED BY <2>1, <2>2 DEF Idle
<1>4. CASE KillThread
  BY <1>4 DEF KillThread, Free, Idle
<1> QED BY <1>1, <1>2, <1>3, <1>4 DEF Destructor

\* The counters are numbers.
LEMMA Counters ==
  ASSUME NEW s \in Seq(Osds)
  PROVE  \A o \in DOMAIN s : s[o] \in Osds /\ s[o].counter \in Nat
<1>1. \A osd \in Osds : osd.counter \in 0..MaxImages
  BY DEF Osds
<1>2. \A n \in 0..MaxImages : n \in Nat
  BY Bounds
<1>3. \A o \in DOMAIN s : s[o] \in Osds
  OBVIOUS
<1> QED BY <1>1, <1>2, <1>3

\* And so are the images' numbers.
LEMMA Images ==
  ASSUME NEW s \in Seq(Messages)
  PROVE  \A i \in DOMAIN s : s[i] \in Messages /\ s[i].image \in Nat
<1>1. \A m \in Messages : m.image \in 0..(MaxImages - 1)
  BY DEF Messages
<1>2. \A n \in 0..(MaxImages - 1) : n \in Nat
  BY Bounds
<1>3. \A i \in DOMAIN s : s[i] \in Messages
  OBVIOUS
<1> QED BY <1>1, <1>2, <1>3

\* What was sent stays new while OSDs are added, counted and closed; a message
\* that is sent now must be new.
LEMMA FreshSent ==
  ASSUME TypeOK, TypeOK', Fresh, NEW m \in Messages,
         \A o \in DOMAIN osds : /\ o \in DOMAIN osds' /\ osds[o].counter <= osds'[o].counter
                                /\ osds[o].open = 0 => osds'[o].open = 0,
         m.osd \in DOMAIN osds',
         m.action = "Display" => m.image < osds'[m.osd].counter,
         m.action = "Close" => osds'[m.osd].open = 0,
         \A i \in DOMAIN sent : sent[i] # m,
         sent' = sent \/ sent' = Append(sent, m)
  PROVE  Fresh'
<1>1. /\ sent \in Seq(Messages) /\ sent' \in Seq(Messages) /\ osds \in Seq(Osds) /\ osds' \in Seq(Osds)
  BY DEF TypeOK
<1>2. /\ \A i \in DOMAIN sent : sent[i] \in Messages /\ sent[i].image \in Nat
      /\ \A o \in DOMAIN osds : osds[o].counter \in Nat
      /\ \A o \in DOMAIN osds' : osds'[o].counter \in Nat
  BY <1>1, Counters, Images
<1>3. ASSUME NEW i \in DOMAIN sent
      PROVE  /\ sent[i].osd \in DOMAIN osds'
             /\ sent[i].action = "Display" => sent[i].image < osds'[sent[i].osd].counter
             /\ sent[i].action = "Close" => osds'[sent[i].osd].open = 0
  <2>1. sent[i].osd \in DOMAIN osds /\ sent[i].osd \in DOMAIN osds'
    BY DEF Fresh
  <2>2. PICK o : o = sent[i].osd
    OBVIOUS
  <2>3. /\ osds[o].counter <= osds'[o].counter /\ osds[o].open = 0 => osds'[o].open = 0
        /\ osds[o].counter \in Nat /\ osds'[o].counter \in Nat /\ sent[i].image \in Nat
    BY <1>2, <2>1, <2>2
  <2>4. /\ sent[i].action = "Display" => sent[i].image < osds[o].counter
        /\ sent[i].action = "Close" => osds[o].open = 0
    BY <2>2 DEF Fresh
  <2> QED BY <2>1, <2>2, <2>3, <2>4
<1>4. CASE sent' = sent
  BY <1>3, <1>4 DEF Fresh, Differs
<1>5. CASE sent' = Append(sent, m)
  <2>1. /\ DOMAIN sent = 1..Len(sent) /\ Len(sent) \in Nat
        /\ DOMAIN sent' = 1..(Len(sent) + 1) /\ sent'[Len(sent) + 1] = m
        /\ \A i \in DOMAIN sent : sent'[i] = sent[i]
    BY <1>1, <1>5, AppendProperties
  <2>2. \A i \in DOMAIN sent' : i \in DOMAIN sent \/ (i = Len(sent) + 1 /\ sent'[i] = m)
    BY <2>1
  <2>3. Differs(sent)'
    <3> SUFFICES ASSUME NEW i \in DOMAIN sent', NEW j \in DOMAIN sent', sent'[i] = sent'[j] PROVE i = j
      BY DEF Differs
    <3>1. CASE i \in DOMAIN sent /\ j \in DOMAIN sent
      BY <2>1, <3>1 DEF Fresh, Differs
    <3>2. CASE i \notin DOMAIN sent \/ j \notin DOMAIN sent
      BY <2>1, <2>2, <3>2
    <3> QED BY <3>1, <3>2
  <2>4. ASSUME NEW i \in DOMAIN sent'
        PROVE  /\ sent'[i].osd \in DOMAIN osds'
               /\ sent'[i].action = "Display" => sent'[i].image < osds'[sent'[i].osd].counter
               /\ sent'[i].action = "Close" => osds'[sent'[i].osd].open = 0
    <3>1. CASE i \in DOMAIN sent
      BY <1>3, <2>1, <3>1
    <3>2. CASE sent'[i] = m
      BY <3>2
    <3> QED BY <2>2, <3>1, <3>2
  <2> QED BY <2>3, <2>4 DEF Fresh
<1> QED BY <1>4, <1>5

\* A message that VDR sends, whatever it did to its OSDs.
LEMMA HandSent ==
  ASSUME IInv, IInv', HandInv,
         NEW gen, NEW m \in Messages, SendMessage(gen, m), UNCHANGED <<life, emission>>,
         \A o \in DOMAIN osds : /\ o \in DOMAIN osds' /\ osds[o].counter <= osds'[o].counter
                                /\ osds[o].open = 0 => osds'[o].open = 0,
         m.osd \in DOMAIN osds',
         m.action = "Display" => m.image < osds'[m.osd].counter,
         m.action = "Close" => osds'[m.osd].open = 0,
         \A i \in DOMAIN sent : sent[i] # m
  PROVE  HandInv'
<1>1. /\ Idle' /\ \/ Line' = Line /\ sent' = sent
                  \/ Line' = Append(Line, m) /\ sent' = Append(sent, m)
  BY LineSent DEF HandInv
<1>2. TypeOK /\ TypeOK' /\ Fresh /\ (sent' = sent \/ sent' = Append(sent, m))
  BY <1>1 DEF IInv, HandInv
<1>3. Fresh'
  BY <1>2, FreshSent
<1>4. emitted' = emitted /\ batch' = batch /\ killed' = killed
  OBVIOUS
<1>5. Out' = Out /\ (Once => Once')
  BY <1>4 DEF Out, Once
<1>6. Line \in Seq(Messages) /\ sent \in Seq(Messages)
  BY LineParts DEF IInv, TypeOK
<1>7. ASSUME Behind(Line, sent, Out) PROVE Behind(Line, sent, Out)'
  <2>1. Behind(Append(Line, m), Append(sent, m), Out)
    BY <1>6, <1>7, BehindSent
  <2>2. Behind(Line', sent', Out')
    BY <1>1, <1>5, <1>7, <2>1
  <2> QED BY <2>2
<1> QED BY <1>1, <1>3, <1>4, <1>5, <1>7 DEF HandInv

\* The message that opens an OSD is new, for the OSD is.
LEMMA HandCreate ==
  ASSUME IInv, IInv', HandInv, CreateOsd
  PROVE  HandInv'
<1> DEFINE m == Message("Open", Len(osds) + 1, 0)
<1>1. /\ SendMessage(generation, m) /\ Len(osds) < MaxOsds /\ UNCHANGED <<life, emission>>
      /\ osds' = Append(osds, [dir |-> osd_number, gen |-> generation, counter |-> 0, open |-> 1])
  BY DEF CreateOsd
<1>2. /\ osds \in Seq(Osds) /\ osds' \in Seq(Osds) /\ DOMAIN osds = 1..Len(osds) /\ Len(osds) \in Nat
  BY DEF IInv, TypeOK
<1>3. m \in Messages /\ m.action = "Open" /\ m.osd = Len(osds) + 1
  BY <1>1, <1>2, Bounds DEF Messages, Message
<1>4. DOMAIN osds' = 1..(Len(osds) + 1) /\ \A o \in DOMAIN osds : osds'[o] = osds[o]
  <2> DEFINE new == [dir |-> osd_number, gen |-> generation, counter |-> 0, open |-> 1]
  <2>1. Len(osds') = Len(osds) + 1
    BY <1>1, <1>2
  <2> QED BY <1>1, <1>2, <2>1
<1>5. \A o \in DOMAIN osds : o \in DOMAIN osds' /\ osds[o].counter \in Nat
  BY <1>2, <1>4, Counters
<1>6. \A o \in DOMAIN osds : /\ o \in DOMAIN osds' /\ osds[o].counter <= osds'[o].counter
                             /\ osds[o].open = 0 => osds'[o].open = 0
  BY <1>4, <1>5
<1>7. m.osd \in DOMAIN osds' /\ m.osd \notin DOMAIN osds
  BY <1>2, <1>3, <1>4
<1>8. \A i \in DOMAIN sent : sent[i] # m
  BY <1>7 DEF HandInv, Fresh
<1> HIDE DEF m
<1> QED BY <1>1, <1>3, <1>6, <1>7, <1>8, HandSent

\* The message of an image is new, for the image was not counted yet.
LEMMA HandFlush ==
  ASSUME IInv, IInv', HandInv, NEW o \in DOMAIN osds, Flush(o)
  PROVE  HandInv'
<1> DEFINE m == Message("Display", o, osds[o].counter)
<1>1. /\ SendMessage(osds[o].gen, m) /\ UNCHANGED <<life, emission>> /\ osds[o].counter < MaxImages
      /\ osds' = [osds EXCEPT ![o].counter = @ + 1]
  BY DEF Flush, ImageNumber
<1>2. /\ osds \in Seq(Osds) /\ DOMAIN osds = 1..Len(osds) /\ Len(osds) \in Nat /\ Len(osds) <= MaxOsds
      /\ \A p \in DOMAIN osds : osds[p] \in Osds /\ osds[p].counter \in Nat
  <2>1. osds \in Seq(Osds) /\ Len(osds) \in 0..MaxOsds
    BY DEF IInv, TypeOK, Numbered
  <2>2. \A p \in DOMAIN osds : osds[p] \in Osds /\ osds[p].counter \in Nat
    BY <2>1, Counters
  <2> QED BY <2>1, <2>2, Bounds
<1>3. m \in Messages /\ m.action = "Display" /\ m.osd = o /\ m.image = osds[o].counter
  BY <1>1, <1>2, Bounds DEF Messages, Message
<1>4. DOMAIN osds' = DOMAIN osds
  BY <1>1
<1>5. \A p \in DOMAIN osds : /\ p # o => osds'[p] = osds[p]
                             /\ osds'[p].open = osds[p].open
  BY <1>1, <1>2 DEF Osds
<1>6. osds'[o].counter = osds[o].counter + 1
  BY <1>1, <1>2 DEF Osds
<1> HIDE DEF m
<1>7. \A p \in DOMAIN osds : /\ p \in DOMAIN osds' /\ osds[p].counter <= osds'[p].counter
                             /\ osds[p].open = 0 => osds'[p].open = 0
  <2> TAKE p \in DOMAIN osds
  <2>1. CASE p = o
    BY <1>2, <1>4, <1>5, <1>6, <2>1
  <2>2. CASE p # o
    BY <1>2, <1>4, <1>5, <2>2
  <2> QED BY <2>1, <2>2
<1>8. m.osd \in DOMAIN osds' /\ m.image < osds'[m.osd].counter
  BY <1>2, <1>3, <1>4, <1>6
<1>9. ASSUME NEW i \in DOMAIN sent PROVE sent[i] # m
  <2>1. sent[i].action = "Display" => sent[i].image < osds[sent[i].osd].counter
    BY DEF HandInv, Fresh
  <2> QED BY <1>2, <1>3, <2>1
<1> QED BY <1>1, <1>3, <1>7, <1>8, <1>9, HandSent

\* The message that closes an OSD is new, for the OSD was open.
LEMMA HandClose ==
  ASSUME IInv, IInv', HandInv, NEW o \in DOMAIN osds, CloseOsd(o)
  PROVE  HandInv'
<1> DEFINE m == Message("Close", o, 0)
<1>1. /\ SendMessage(osds[o].gen, m) /\ UNCHANGED <<life, emission>> /\ osds[o].open = 1
      /\ osds' = [osds EXCEPT ![o].open = 0]
  BY DEF CloseOsd
<1>2. /\ osds \in Seq(Osds) /\ DOMAIN osds = 1..Len(osds) /\ Len(osds) \in Nat /\ Len(osds) <= MaxOsds
      /\ \A p \in DOMAIN osds : osds[p] \in Osds /\ osds[p].counter \in Nat
  <2>1. osds \in Seq(Osds) /\ Len(osds) \in 0..MaxOsds
    BY DEF IInv, TypeOK, Numbered
  <2>2. \A p \in DOMAIN osds : osds[p] \in Osds /\ osds[p].counter \in Nat
    BY <2>1, Counters
  <2> QED BY <2>1, <2>2, Bounds
<1>3. m \in Messages /\ m.action = "Close" /\ m.osd = o
  BY <1>2, Bounds DEF Messages, Message
<1>4. DOMAIN osds' = DOMAIN osds
  BY <1>1
<1>5. \A p \in DOMAIN osds : /\ p # o => osds'[p] = osds[p]
                             /\ osds'[p].counter = osds[p].counter
  BY <1>1, <1>2 DEF Osds
<1>6. osds'[o].open = 0
  BY <1>1, <1>2 DEF Osds
<1> HIDE DEF m
<1>7. \A p \in DOMAIN osds : /\ p \in DOMAIN osds' /\ osds[p].counter <= osds'[p].counter
                             /\ osds[p].open = 0 => osds'[p].open = 0
  BY <1>2, <1>4, <1>5, <1>6
<1>8. ASSUME NEW i \in DOMAIN sent PROVE sent[i] # m
  <2>1. sent[i].action = "Close" => osds[sent[i].osd].open = 0
    BY DEF HandInv, Fresh
  <2> QED BY <1>1, <1>3, <2>1
<1> QED BY <1>1, <1>3, <1>4, <1>6, <1>7, <1>8, HandSent

\* A step that leaves the OSDs, what was sent and what the pool has, and keeps
\* the line or cancels the thread.
LEMMA HandElse ==
  ASSUME HandInv, UNCHANGED <<osds, sent, batch, emitted>>, Idle', Line' = Line \/ killed' = 1,
         killed' = 0 => killed = 0
  PROVE  HandInv'
<1>1. Fresh'
  BY DEF HandInv, Fresh, Differs
<1>2. CASE killed' # 0
  BY <1>1, <1>2 DEF HandInv
<1>3. CASE killed' = 0
  <2>1. killed = 0 /\ Line' = Line /\ Out' = Out /\ sent' = sent
    BY <1>3 DEF Out
  <2>2. Once /\ Behind(Line, sent, Out)
    BY <2>1 DEF HandInv
  <2>3. Once'
    BY <2>2 DEF Once
  <2>4. Behind(Line', sent', Out')
    BY <2>1, <2>2
  <2> QED BY <1>1, <2>3, <2>4 DEF HandInv
<1> QED BY <1>2, <1>3

\* The main loop's handler: the queue of signals becomes the last batch.
LEMMA HandBatch ==
  ASSUME IInv, HandInv, do_emit_signal, UNCHANGED <<life, late, worker, msgQueue, drawn, files, sent>>
  PROVE  HandInv'
<1>1. /\ signals' = <<>> /\ UNCHANGED <<batch, emitted>>
      /\ jobs' = Append(jobs, SubSeq(signals, 1, Len(signals) - Len(Leave(signals))))
  BY DEF do_emit_signal, Leave
<1>2. jobs \in Seq(Seq(Messages)) /\ signals \in Seq(Messages)
  BY DEF IInv, TypeOK
<1>3. jobs' = Append(jobs, signals)
  BY <1>1, <1>2, BatchOf
<1>4. FlattenSeq(jobs') = FlattenSeq(jobs) \o signals
  BY <1>2, <1>3, FlattenAppend
<1>5. PICK f : f = FlattenSeq(jobs)
  OBVIOUS
<1>6. PICK q : q = IF Works THEN msgQueue ELSE <<>>
  OBVIOUS
<1>7. f \in Seq(Messages)
  BY <1>5, LineParts DEF IInv
<1>8. Line = f \o signals \o taken \o q
  BY <1>5, <1>6 DEF Line
<1>9. (IF Works THEN msgQueue ELSE <<>>)' = q /\ taken' = taken
  BY <1>6 DEF Works
<1>10. Line' = (f \o signals) \o <<>> \o taken \o q
  BY <1>1, <1>4, <1>5, <1>9 DEF Line
<1>11. (f \o signals) \o <<>> = f \o signals
  BY <1>2, <1>7, MovesToJobs
<1>12. Line' = Line
  BY <1>8, <1>10, <1>11
<1>13. Idle'
  BY DEF HandInv, Idle
<1> QED BY <1>1, <1>12, <1>13, HandElse

\* A thread of the pool takes the first batch.
LEMMA HandJob ==
  ASSUME IInv, HandInv, NEW w \in Workers, TakeJob(w),
         UNCHANGED <<life, late, worker, msgQueue, drawn, files, sent>>
  PROVE  HandInv'
<1>1. /\ batch[w] = <<>> /\ jobs # <<>> /\ batch' = [batch EXCEPT ![w] = Head(jobs)] /\ jobs' = Tail(jobs)
      /\ UNCHANGED <<signals, emitted>>
  BY DEF TakeJob
<1>2. jobs \in Seq(Seq(Messages)) /\ batch \in [Workers -> Seq(Messages)]
  BY DEF IInv, TypeOK
<1>3. Head(jobs) \in Seq(Messages) /\ Tail(jobs) \in Seq(Seq(Messages))
  BY <1>1, <1>2, HeadTailProperties
<1>4. FlattenSeq(jobs) = Head(jobs) \o FlattenSeq(jobs')
  BY <1>1, <1>2, FlattenHead
<1>5. PICK x : x = Head(jobs)
  OBVIOUS
<1>6. PICK f : f = FlattenSeq(jobs')
  OBVIOUS
<1>7. PICK q : q = IF Works THEN msgQueue ELSE <<>>
  OBVIOUS
<1>8. f \in Seq(Messages) /\ x \in Seq(Messages)
  BY <1>1, <1>3, <1>5, <1>6, FlattenTyped
<1>9. signals \in Seq(Messages) /\ taken \in Seq(Messages) /\ q \in Seq(Messages)
  BY <1>7, LineParts DEF IInv
<1>10. (IF Works THEN msgQueue ELSE <<>>)' = q /\ taken' = taken
  BY <1>7 DEF Works
<1>11. Line = (x \o f) \o signals \o taken \o q /\ Line' = f \o signals \o taken \o q
  BY <1>1, <1>4, <1>5, <1>6, <1>7, <1>10 DEF Line
<1>12. PICK line : line = f \o signals \o taken \o q
  OBVIOUS
<1>13. line \in Seq(Messages)
  BY <1>8, <1>9, <1>12, Parts
<1>14. Line = x \o line /\ Line' = line
  <2>1. PICK s : s = signals
    OBVIOUS
  <2>2. PICK t : t = taken
    OBVIOUS
  <2>3. /\ s \in Seq(Messages) /\ t \in Seq(Messages)
        /\ x \in Seq(Messages) /\ f \in Seq(Messages) /\ q \in Seq(Messages)
    BY <1>8, <1>9, <2>1, <2>2
  <2>4. PICK M : M = Messages
    OBVIOUS
  <2>5. s \in Seq(M) /\ t \in Seq(M) /\ x \in Seq(M) /\ f \in Seq(M) /\ q \in Seq(M)
    BY <2>3, <2>4
  <2>6. (x \o f) \o s \o t \o q = x \o (f \o s \o t \o q)
    <3>1. PICK u : u = f \o s
      OBVIOUS
    <3>2. PICK v : v = u \o t
      OBVIOUS
    <3>3. u \in Seq(M)
      BY ONLY <2>5, <3>1, ConcatProperties
    <3>4. v \in Seq(M)
      BY ONLY <2>5, <3>2, <3>3, ConcatProperties
    <3>5. (x \o f) \o s = x \o u
      BY ONLY SMTT(30), <2>5, <3>1, Regroup
    <3>6. (x \o u) \o t = x \o v
      <4>1. x \in Seq(M) /\ t \in Seq(M)
        BY ONLY <2>5
      <4>2. (x \o u) \o t = x \o (u \o t)
        BY ONLY SMTT(30), <3>3, <4>1, Regroup
      <4> QED BY ONLY <3>2, <4>2
    <3>7. (x \o v) \o q = x \o (v \o q)
      <4>1. x \in Seq(M) /\ q \in Seq(M)
        BY ONLY <2>5
      <4> QED BY ONLY SMTT(30), <3>4, <4>1, Regroup
    <3> QED BY ONLY <3>1, <3>2, <3>5, <3>6, <3>7
  <2> QED BY <2>1, <2>2, <2>6, <1>11, <1>12
<1>15. /\ batch'[w] = x /\ \A v \in Workers : v # w => batch'[v] = batch[v]
  BY <1>1, <1>2, <1>5
<1>16. ToSet(batch[w]) = {}
  BY <1>1 DEF ToSet
<1>17. Out' = Out \union ToSet(x)
  <2>1. \A e : e \in Out' => e \in Out \union ToSet(x)
    BY <1>1, <1>15 DEF Out
  <2>2. \A e : e \in Out \union ToSet(x) => e \in Out'
    <3>1. \A e : e \in ToSet(x) => e \in Out'
      BY <1>15 DEF Out
    <3>2. \A e : e \in ToSet(emitted) => e \in Out'
      BY <1>1 DEF Out
    <3>3. ASSUME NEW v \in Workers, NEW e \in ToSet(batch[v]) PROVE e \in Out'
      <4>1. v # w
        BY <1>16
      <4> QED BY <1>15, <4>1 DEF Out
    <3> QED BY <3>1, <3>2, <3>3 DEF Out
  <2> QED BY <2>1, <2>2
<1>18. Fresh' /\ Idle'
  BY DEF HandInv, Fresh, Differs, Idle
<1>19. ASSUME Once, Behind(Line, sent, Out) PROVE Once' /\ Behind(Line, sent, Out)'
  <2>1. sent \in Seq(Messages) /\ Differs(sent)
    BY DEF IInv, TypeOK, HandInv, Fresh
  <2>2. Behind(x \o line, sent, Out)
    BY <1>14, <1>19
  <2>3. Behind(line, sent, Out \union ToSet(x)) /\ Differs(x) /\ Out \cap ToSet(x) = {}
    BY <1>8, <1>13, <2>1, <2>2, BehindTaken
  <2>4. Behind(Line', sent', Out')
    BY <1>14, <1>17, <2>3
  <2>5. ToSet(emitted) \cap ToSet(x) = {} /\ \A v \in Workers : ToSet(batch[v]) \cap ToSet(x) = {}
    BY <2>3 DEF Out
  <2>6. Once'
    <3>1. ASSUME NEW v \in Workers PROVE ToSet(emitted') \cap ToSet(batch'[v]) = {} /\ Differs(batch'[v])
      <4>1. CASE v = w
        BY <1>1, <1>15, <2>3, <2>5, <4>1
      <4>2. CASE v # w
        BY <1>1, <1>15, <1>19, <4>2 DEF Once
      <4> QED BY <4>1, <4>2
    <3>2. ASSUME NEW u \in Workers, NEW v \in Workers, u # v
          PROVE  ToSet(batch'[u]) \cap ToSet(batch'[v]) = {}
      <4>1. CASE u = w
        BY <1>15, <2>5, <3>2, <4>1
      <4>2. CASE v = w
        BY <1>15, <2>5, <3>2, <4>2
      <4>3. CASE u # w /\ v # w
        BY <1>15, <1>19, <3>2, <4>3 DEF Once
      <4> QED BY <4>1, <4>2, <4>3
    <3> QED BY <3>1, <3>2 DEF Once
  <2> QED BY <2>4, <2>6
<1>20. killed' = killed
  OBVIOUS
<1> QED BY <1>18, <1>19, <1>20 DEF HandInv

\* A thread of the pool emits the first of its batch.
LEMMA HandEmit ==
  ASSUME IInv, HandInv, NEW w \in Workers, do_work(w),
         UNCHANGED <<life, late, worker, msgQueue, drawn, files, sent>>
  PROVE  HandInv'
<1>1. /\ batch[w] # <<>> /\ batch' = [batch EXCEPT ![w] = Tail(@)]
      /\ emitted' = Append(emitted, Head(batch[w]))
      /\ UNCHANGED <<signals, jobs>>
  BY DEF do_work
<1>2. emitted \in Seq(Messages) /\ batch \in [Workers -> Seq(Messages)]
  BY DEF IInv, TypeOK
<1>3. PICK b : b = batch[w]
  OBVIOUS
<1>4. b \in Seq(Messages) /\ b # <<>> /\ Head(b) \in Messages
  BY <1>1, <1>2, <1>3, HeadTailProperties
<1>5. batch'[w] = Tail(b) /\ \A v \in Workers : v # w => batch'[v] = batch[v]
  BY <1>1, <1>2, <1>3
<1>6. ToSet(emitted') = ToSet(emitted) \union {Head(b)}
  BY <1>1, <1>2, <1>3, <1>4, SetOfAppend
<1>7. Line' = Line
  BY <1>1 DEF Line, Works
<1>8. Fresh' /\ Idle'
  BY DEF HandInv, Fresh, Differs, Idle
<1>9. ASSUME Once, Behind(Line, sent, Out) PROVE Once' /\ Behind(Line, sent, Out)'
  <2>1. /\ Differs(b) /\ ToSet(emitted) \cap ToSet(b) = {}
        /\ \A v \in Workers : v # w => ToSet(batch[v]) \cap ToSet(b) = {}
    BY <1>3, <1>9 DEF Once
  <2>2. /\ ToSet(b) = {Head(b)} \union ToSet(Tail(b)) /\ Head(b) \notin ToSet(Tail(b)) /\ Differs(Tail(b))
        /\ ToSet(Tail(b)) \subseteq ToSet(b) /\ Head(b) \in ToSet(b)
    BY <1>4, <2>1, SetOfTail
  <2>3. Out' = Out
    <3>1. ASSUME NEW e, e \in Out' PROVE e \in Out
      <4>1. CASE e \in ToSet(emitted')
        BY <1>3, <1>6, <2>2, <4>1 DEF Out
      <4>2. CASE \E v \in Workers : e \in ToSet(batch'[v])
        BY <1>3, <1>5, <2>2, <4>2 DEF Out
      <4> QED BY <3>1, <4>1, <4>2 DEF Out
    <3>2. ASSUME NEW e, e \in Out PROVE e \in Out'
      <4>1. CASE e \in ToSet(emitted)
        BY <1>6, <4>1 DEF Out
      <4>2. CASE \E v \in Workers : e \in ToSet(batch[v])
        <5>1. PICK v \in Workers : e \in ToSet(batch[v])
          BY <4>2
        <5>2. CASE v = w
          <6>1. e \in ToSet(emitted') \/ e \in ToSet(batch'[w])
            BY <1>3, <1>5, <1>6, <2>2, <5>1, <5>2
          <6> QED BY <6>1 DEF Out
        <5>3. CASE v # w
          BY <1>5, <5>1, <5>3 DEF Out
        <5> QED BY <5>2, <5>3
      <4> QED BY <3>2, <4>1, <4>2 DEF Out
    <3> QED BY <3>1, <3>2
  <2>4. Behind(Line', sent', Out')
    BY <1>7, <1>9, <2>3
  <2>5. Once'
    <3>1. ASSUME NEW v \in Workers PROVE ToSet(emitted') \cap ToSet(batch'[v]) = {} /\ Differs(batch'[v])
      <4>1. CASE v = w
        BY <1>5, <1>6, <2>1, <2>2, <4>1
      <4>2. CASE v # w
        <5>1. ToSet(emitted) \cap ToSet(batch[v]) = {} /\ Differs(batch[v])
          BY <1>9 DEF Once
        <5> QED BY <1>5, <1>6, <2>1, <2>2, <4>2, <5>1
      <4> QED BY <4>1, <4>2
    <3>2. ASSUME NEW u \in Workers, NEW v \in Workers, u # v
          PROVE  ToSet(batch'[u]) \cap ToSet(batch'[v]) = {}
      <4>1. ToSet(batch[u]) \cap ToSet(batch[v]) = {}
        BY <1>9, <3>2 DEF Once
      <4>2. \A p \in Workers : ToSet(batch'[p]) \subseteq ToSet(batch[p])
        BY <1>3, <1>5, <2>2
      <4> QED BY <4>1, <4>2
    <3> QED BY <3>1, <3>2 DEF Once
  <2> QED BY <2>4, <2>5
<1>10. killed' = killed
  OBVIOUS
<1> QED BY <1>8, <1>9, <1>10 DEF HandInv

-----------------------------------------------------------------------------

\* At first the line is empty, and nothing was sent.
LEMMA HandInit == Init => HandInv
<1> SUFFICES ASSUME Init PROVE HandInv
  OBVIOUS
<1>1. /\ jobs = <<>> /\ signals = <<>> /\ taken = <<>> /\ msgQueue = <<>> /\ sent = <<>> /\ emitted = <<>>
      /\ batch = [w \in Workers |-> <<>>] /\ thread = "off"
  BY DEF Init, EmissionInit
<1>2. Line = <<>>
  BY <1>1, FlattenEmpty DEF Line, Works
<1>3. ToSet(<<>>) = {}
  BY DEF ToSet
<1>4. Out = {}
  BY <1>1, <1>3 DEF Out
<1>5. Fresh /\ Idle
  BY <1>1 DEF Fresh, Differs, Idle
<1>6. Once
  BY <1>1, <1>3 DEF Once, Differs
<1>7. Behind(Line, sent, Out)
  BY <1>1, <1>2, <1>4 DEF Behind
<1> QED BY <1>5, <1>6, <1>7 DEF HandInv

\* Every step keeps the line.
LEMMA HandStep ==
  ASSUME IInv, IInv', HandInv, [Next]_vars
  PROVE  HandInv'
<1>1. CASE Vdr
  BY <1>1, HandCreate, HandFlush, HandClose DEF Vdr
<1>2. CASE Thread \/ Tick
  <2>1. Idle' /\ Line' = Line
    BY <1>2, LineKept DEF HandInv
  <2>2. UNCHANGED <<osds, sent, batch, emitted, killed>>
    BY <1>2 DEF Thread, Tick, Take, TakeNothing, End, Handle, Check, EmitSignal
  <2> QED BY <2>1, <2>2, HandElse
<1>3. CASE CreateProvider \/ DeleteProvider \/ Destructor
  <2>1. Idle' /\ (Line' = Line \/ killed' = 1)
    BY <1>3, LineLives DEF HandInv
  <2>2. UNCHANGED <<osds, sent, batch, emitted>> /\ (killed' = 0 => killed = 0)
    BY <1>3 DEF CreateProvider, DeleteProvider, Destructor, Cancel, ThreadEnded, KillThread, Free
  <2> QED BY <2>1, <2>2, HandElse
<1>4. CASE Pipeline
  BY <1>4, HandBatch, HandJob, HandEmit DEF Pipeline, Emission
<1>5. CASE UNCHANGED vars
  <2>1. Line' = Line /\ Idle'
    BY <1>5 DEF vars, Line, Works, HandInv, Idle
  <2> QED BY <1>5, <2>1, HandElse DEF vars
<1> QED BY <1>1, <1>2, <1>3, <1>4, <1>5 DEF Next

\* What the line says of Handover's parts.
LEMMA HandSays ==
  ASSUME TypeOK, HandInv
  PROVE  Handover
<1> SUFFICES ASSUME killed = 0
             PROVE  /\ Len(sent) - Len(Line) >= 0
                    /\ SubSeq(sent, Len(sent) - Len(Line) + 1, Len(sent)) = Line
                    /\ ToSet(SubSeq(sent, 1, Len(sent) - Len(Line))) = Out
                    /\ \A w \in Workers : ToSet(emitted) \cap ToSet(batch[w]) = {}
  BY DEF Handover, Line, Out
<1>1. Once /\ Behind(Line, sent, Out) /\ sent \in Seq(Messages) /\ Line \in Seq(Messages)
  BY LineParts DEF HandInv, TypeOK
<1>2. PICK line : line = Line
  OBVIOUS
<1>3. PICK n : n = Len(sent) - Len(line)
  OBVIOUS
<1>4. /\ Len(line) <= Len(sent) /\ (\A i \in 1..Len(line) : line[i] = sent[n + i])
      /\ Out = {sent[i] : i \in 1..n} /\ Len(line) \in Nat /\ Len(sent) \in Nat
  BY <1>1, <1>2, <1>3 DEF Behind
<1>5. n \in Nat /\ n + Len(line) = Len(sent) /\ n <= Len(sent)
  BY <1>3, <1>4
<1>6. SubSeq(sent, n + 1, Len(sent)) = line
  <2> DEFINE s == SubSeq(sent, n + 1, Len(sent))
  <2>1. /\ s \in Seq(Messages) /\ Len(s) = IF n + 1 <= Len(sent) THEN Len(sent) - (n + 1) + 1 ELSE 0
        /\ \A i \in 1..(Len(sent) - (n + 1) + 1) : s[i] = sent[(n + 1) + i - 1]
    <3>1. n + 1 \in 1..(Len(sent) + 1) /\ Len(sent) \in (n + 1 - 1)..Len(sent)
      BY <1>4, <1>5
    <3> QED BY <1>1, <3>1, SubSeqProperties
  <2> HIDE DEF s
  <2>2. Len(s) = Len(line)
    BY <1>4, <1>5, <2>1
  <2>3. Len(sent) - (n + 1) + 1 = Len(line) /\ \A i \in 1..Len(line) : (n + 1) + i - 1 = n + i
    BY <1>4, <1>5
  <2>4. \A i \in 1..Len(line) : s[i] = line[i]
    BY <1>4, <2>1, <2>3
  <2>5. s = line
    <3>1. line \in Seq(Messages)
      BY <1>1, <1>2
    <3> QED BY <2>1, <2>2, <2>4, <3>1, SeqEqual
  <2> QED BY <2>5 DEF s
<1>7. ToSet(SubSeq(sent, 1, n)) = Out
  <2> DEFINE s == SubSeq(sent, 1, n)
  <2>1. /\ s \in Seq(Messages) /\ Len(s) = IF 1 <= n THEN n - 1 + 1 ELSE 0
        /\ \A i \in 1..(n - 1 + 1) : s[i] = sent[1 + i - 1]
    <3>1. 1 \in 1..(Len(sent) + 1) /\ n \in (1 - 1)..Len(sent)
      BY <1>4, <1>5
    <3> QED BY <1>1, <3>1, SubSeqProperties
  <2> HIDE DEF s
  <2>2. Len(s) = n /\ n - 1 + 1 = n /\ \A i \in 1..n : 1 + i - 1 = i
    BY <1>5, <2>1
  <2>3. DOMAIN s = 1..n /\ \A i \in 1..n : s[i] = sent[i]
    BY <2>1, <2>2
  <2>4. ToSet(s) = {sent[i] : i \in 1..n}
    BY <2>3 DEF ToSet
  <2> QED BY <1>4, <2>4 DEF s
<1>8. \A w \in Workers : ToSet(emitted) \cap ToSet(batch[w]) = {}
  BY <1>1 DEF Once
<1> QED BY <1>2, <1>3, <1>5, <1>6, <1>7, <1>8

\* Nothing that a working provider was sent is lost, doubled or overtaken on its
\* way through the provider's queue, the thread of Action, the connection's
\* signals and their batches, and the pool's threads emit what they were given,
\* each message once, although the provider is deleted meanwhile - unless its
\* thread had to be cancelled.
THEOREM HandedOver == Spec => []Handover
<1>1. IInv /\ HandInv => Handover
  BY HandSays DEF IInv
<1>2. IInv /\ IInv' /\ HandInv /\ [Next]_vars => HandInv'
  BY HandStep
<1> QED BY <1>1, <1>2, HandInit, Invariance, PTL DEF Spec
=============================================================================
