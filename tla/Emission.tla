------------------------------ MODULE Emission ------------------------------
(***************************************************************************)
(* The way of a signal through a connection that is up (connection.c): the *)
(* queue _signals, the main loop's handler, which makes one batch of all   *)
(* that is queued, and the pool of threads, each of which emits a batch    *)
(* signal by signal.  Connection counts the signals and models what may    *)
(* happen to the connection; here the connection is up and the signals     *)
(* have a content, for it is their order that matters.                     *)
(***************************************************************************)
EXTENDS Naturals, Sequences, SequencesExt

CONSTANT Workers  \* the threads of the pool: ten in the code

ASSUME EmissionAssumption == Workers # {}

VARIABLES
  signals,  \* _signals
  handler,  \* 1: do_emit_signal is attached to the main loop
  jobs,     \* the batches that no thread of the pool has taken yet
  batch,    \* per thread of the pool: what is left of its batch
  emitted   \* what went out on the bus, in this order

emission == <<signals, handler, jobs, batch, emitted>>

EmissionInit ==
  /\ signals = <<>> /\ handler = 0 /\ jobs = <<>> /\ emitted = <<>>
  /\ batch = [w \in Workers |-> <<>>]

\* A handler is attached for the first signal of an empty queue only.
EmitSignal(s) ==
  /\ signals' = Append(signals, s)
  /\ handler' = IF signals = <<>> THEN 1 ELSE handler
  /\ UNCHANGED <<jobs, batch, emitted>>

\* What the handler leaves in the queue: nothing (for the mutants: the rest
\* after the first signal).
KeepRest(queue) == Tail(queue)
Leave(queue) == <<>>

do_emit_signal ==
  /\ handler = 1
  /\ handler' = 0
  /\ signals' = Leave(signals)
  /\ jobs' = Append(jobs, SubSeq(signals, 1, Len(signals) - Len(Leave(signals))))
  /\ UNCHANGED <<batch, emitted>>

\* A thread that has nothing to do takes the batch that waits longest.
TakeJob(w) ==
  /\ batch[w] = <<>> /\ jobs # <<>>
  /\ batch' = [batch EXCEPT ![w] = Head(jobs)]
  /\ jobs' = Tail(jobs)
  /\ UNCHANGED <<signals, handler, emitted>>

do_work(w) ==
  /\ batch[w] # <<>>
  /\ emitted' = Append(emitted, Head(batch[w]))
  /\ batch' = [batch EXCEPT ![w] = Tail(@)]
  /\ UNCHANGED <<signals, handler, jobs>>

Emission == do_emit_signal \/ \E w \in Workers : TakeJob(w) \/ do_work(w)
=============================================================================
