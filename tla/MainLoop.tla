------------------------------ MODULE MainLoop ------------------------------
(***************************************************************************)
(* The threads that run a GMainLoop (mainloop.c): one for GLib's default   *)
(* context, started by the plugin, and one for the context of the network  *)
(* monitor.  A constructor waits for its thread; the destructor asks the   *)
(* loop to quit and joins the thread.                                      *)
(***************************************************************************)
EXTENDS Integers, Sequences, FiniteSets

VARIABLE loops     \* how far the thread of each loop is

Loops == {"main", "monitor"}

\* "started": the constructor has returned, _loop is still NULL; "made": _loop
\* is there, g_main_loop_run has not begun; "quit": told to end.
LoopStates == {"none", "started", "made", "runs", "quit", "ended"}

MainLoopInit == loops = [l \in Loops |-> "none"]

StartLoop(l) == loops' = [loops EXCEPT ![l] = "started"]

MakeLoop(l) == loops[l] = "started" /\ loops' = [loops EXCEPT ![l] = "made"]

\* g_main_loop_run resets what a quit before it has set.
RunLoop(l) == loops[l] = "made" /\ loops' = [loops EXCEPT ![l] = "runs"]

\* A loop that is not there is not told, one that does not run yet forgets it.
QuitLoop(l) ==
  loops' = [loops EXCEPT ![l] = IF @ = "runs" THEN "quit" ELSE @]

EndLoop(l) == loops[l] = "quit" /\ loops' = [loops EXCEPT ![l] = "ended"]

\* g_thread_join returns.
Joined(l) == loops[l] \in {"none", "ended"}
=============================================================================
