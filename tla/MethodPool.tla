----------------------------- MODULE MethodPool -----------------------------
(***************************************************************************)
(* Method calls (object.c): GLib's thread hands a call to a pool, whose    *)
(* threads look the method up and run it, several at the same time.  The   *)
(* methods take the locks of VDR's lists, which VDR's own threads take as  *)
(* well.  Each interface has a module that adds its methods.               *)
(***************************************************************************)
EXTENDS Integers, Sequences, FiniteSets

CONSTANTS
  Workers,   \* the pool's threads (10 in the code)
  Offers     \* bound: the methods that are called together, and how many calls

VARIABLES
  offered,   \* what callers call: one of Offers
  call,      \* what each thread works on
  calls,     \* the calls so far
  holds      \* the locks, of the threads and of VDR

poolVars == <<offered, call, calls, holds>>

VDR == "VDR"

ASSUME MethodPoolAssumption ==
  /\ IsFiniteSet(Workers) /\ VDR \notin Workers
  /\ \A o \in Offers : o.calls \in Nat

Locks == {"timers", "channels", "recordings", "schedules"}

\* "queued": pushed; "replied": the answer is sent, the function not yet left;
\* the other steps are the methods' own.
NoCall == [method |-> "none", arg |-> <<>>, at |-> "idle", code |-> 0, value |-> <<>>]

PoolInit ==
  /\ offered \in Offers /\ calls = 0
  /\ call = [w \in Workers |-> NoCall]
  /\ holds = [a \in Workers \union {VDR} |-> {}]

handle_method_call(w, m, a) ==
  /\ call[w].at = "idle" /\ m \in offered.methods /\ calls < offered.calls
  /\ call' = [call EXCEPT ![w] = [NoCall EXCEPT !.method = m, !.arg = a, !.at = "queued"]]
  /\ calls' = calls + 1
  /\ UNCHANGED <<offered, holds>>

\* do_work has found method m, or the method goes on.
Runs(w, m) == call[w].method = m /\ call[w].at = "queued"
At(w, step) == call[w].at = step

Same == UNCHANGED <<offered, calls>>
Go(w, step) == call' = [call EXCEPT ![w].at = step] /\ Same
Return(w, code, value) ==
  call' = [call EXCEPT ![w].at = "replied", ![w].code = code, ![w].value = value] /\ Same
SendReply(w, code) == Return(w, code, <<>>)

DBusError == -99   \* the code of a call that is answered with an error

\* do_work finds no such method in the object.
NotImplemented(w, known) ==
  /\ At(w, "queued") /\ call[w].method \notin known
  /\ Return(w, DBusError, <<>>) /\ UNCHANGED holds

\* The method is left, and with it the scopes of its locks.
Left(w) ==
  /\ At(w, "replied")
  /\ call' = [call EXCEPT ![w] = NoCall] /\ Same
  /\ holds' = [holds EXCEPT ![w] = {h \in @ : h.until = "removed"}]

-----------------------------------------------------------------------------
(***************************************************************************)
(* VDR's locks: many readers or one writer.                                *)
(***************************************************************************)

HoldersOf(l) == {h \in UNION {holds[a] : a \in Workers \union {VDR}} : h.lock = l}
Readable(l) == \A h \in HoldersOf(l) : h.mode = "read"
Writable(l) == HoldersOf(l) = {}
Grants(l, mode) == IF mode = "read" THEN Readable(l) ELSE Writable(l)

\* LOCK_..._READ and LOCK_..._WRITE last until the end of their scope.
Locked(w, l, mode) ==
  /\ Grants(l, mode)
  /\ holds' = [holds EXCEPT ![w] = @ \union {[lock |-> l, mode |-> mode, until |-> "left"]}]

\* A lock that is taken with a cStateKey lasts until Remove.
LockedWithKey(w, l, mode) ==
  /\ Grants(l, mode)
  /\ holds' = [holds EXCEPT ![w] = @ \union {[lock |-> l, mode |-> mode, until |-> "removed"]}]
Removed(w, l) == [holds EXCEPT ![w] = {h \in @ : h.lock # l}]

\* VDR's own threads hold a lock for a while.
VdrLocks(l) == holds[VDR] = {} /\ Locked(VDR, l, "write") /\ UNCHANGED call /\ Same
VdrUnlocks == holds[VDR] # {} /\ holds' = [holds EXCEPT ![VDR] = {}] /\ UNCHANGED call /\ Same
=============================================================================
