---------------------------- MODULE ConnectionAbs ----------------------------
(***************************************************************************)
(* What a cDBusConnection promises to the code that uses it: after Connect *)
(* there is one attempt at a time; a connection follows a successful       *)
(* attempt only; without automatic reconnect there is exactly one attempt, *)
(* with it every failure and every loss is followed by another attempt,    *)
(* until the owner gives the connection up.                                *)
(***************************************************************************)
VARIABLES
  phase,  \* what GetConnectStatus tells, see Phase
  keep    \* 1: automatic reconnect is in force

absVars == <<phase, keep>>

\* new: before Connect.  ordered: Connect was called, by the owner or because
\* of a loss.  trying: an attempt runs.  up: connected.  failed: no attempt runs
\* and only a retry starts one.  idle: the connection was given up.
\* gone: the object is deleted.
Phase == {"new", "ordered", "trying", "up", "failed", "idle", "gone"}

AbsInit == phase = "new" /\ keep \in {0, 1}

Order == phase = "new" /\ phase' = "ordered" /\ keep' \in {0, 1}

Try == phase = "ordered" /\ phase' = "trying" /\ UNCHANGED keep

Answer == phase = "trying" /\ phase' \in {"up", "failed"} /\ UNCHANGED keep

RetryFailed == phase = "failed" /\ keep = 1 /\ phase' = "trying" /\ UNCHANGED keep

\* The bus is lost.  Only a kept connection is ordered again.
Lose == /\ phase \in {"up", "idle"}
        /\ phase' \in IF keep = 1 THEN {"ordered"} ELSE {"failed", "idle"}
        /\ UNCHANGED keep

\* The owner wants no more reconnects; the connection it may have is closed.
GiveUp == keep = 1 /\ keep' = 0 /\ UNCHANGED phase
Release == phase = "up" /\ phase' = "idle" /\ UNCHANGED keep
Remove == phase' = "gone" /\ UNCHANGED keep

AbsNext == Order \/ Try \/ Answer \/ RetryFailed \/ Lose \/ GiveUp \/ Release \/ Remove

AbsSpec == AbsInit /\ [][AbsNext]_absVars

\* An attempt that is due is made and answered.
AbsFairSpec == AbsSpec /\ WF_absVars(Try) /\ WF_absVars(Answer) /\ WF_absVars(RetryFailed)
=============================================================================
