------------------------------ MODULE Shutdown ------------------------------
(***************************************************************************)
(* The shutdown interface (shutdown.c): ConfirmShutdown, run by a thread   *)
(* of the method pool, asks VDR, its timers and plugins and then, through  *)
(* the setuid shutdown-wrapper (shutdown-wrapper.c), every shutdown-hook;  *)
(* and NextWakeupTime.                                                     *)
(*                                                                         *)
(* Three programs: VDR, the wrapper and one hook at a time.  Each is read  *)
(* by the one before through a cExitPipe, whose child is a shell that runs *)
(* it, in its own place or forked: to kill the child is to kill the shell. *)
(* VDR goes on meanwhile: its main thread may start recordings and any     *)
(* thread may change timers, but only with the timers' write lock, which   *)
(* is not to be had while ConfirmShutdown holds the read lock (VDR later   *)
(* than 2.3.0).                                                            *)
(*                                                                         *)
(* What a process prints is kept as the kind of text that the others look  *)
(* for.  Times are small numbers, 0 means none.                            *)
(***************************************************************************)
EXTENDS Integers

CONSTANTS
  MaxHooks,         \* bound: files in the directory of hooks
  MaxTime,          \* bound: the clock
  Horizon,          \* bound: how far ahead something is planned
  MinEventTimeout,  \* Setup.MinEventTimeout
  Patience          \* how often Close looks for the child's end: 5 in the code

ASSUME ShutdownAssumption ==
  {MaxHooks, MaxTime, Horizon, MinEventTimeout, Patience} \subseteq Nat /\ MaxTime > 0

VARIABLES
  now, recording, timer, wake,  \* VDR: clock, cRecordControls, next timer, next plugin
  call,        \* where ConfirmShutdown is
  locked,      \* 1: ConfirmShutdown holds the timers' read lock
  asked,       \* Now
  next,        \* Next: the timer's start, later the time the hooks are told
  nextPlugin,  \* NextPlugin
  reply,       \* the reply code that was sent, 0 before
  configured,  \* 1: the wrapper and the directory of hooks are set
  hooks,       \* number of hooks in the directory
  wrapper,     \* where the wrapper's main program is
  hook,        \* the hook that the wrapper asks, 1..hooks
  command,     \* the hook whose SHUTDOWNCMD the wrapper keeps, 0 for none
  approved,    \* the hooks that ended with exit code 0 and no TRY_AGAIN
  outlived,    \* the hooks of this request that run on after they were given up
  child,       \* state of the shell behind each pipe
  text,        \* what it has printed
  status,      \* its exit code
  tries        \* how often Close of the pipe will look for its end

vdr     == <<now, recording, timer, wake>>
request == <<call, locked, asked, next, nextPlugin, reply>>
settings == <<configured, hooks>>
asking  == <<wrapper, hook, command, approved, outlived>>
pipe    == <<child, text, status, tries>>
vars == <<vdr, request, settings, asking, pipe>>

Pipe == {"wrapper", "hook"}
Text == {"nothing", "text", "ABORT_MESSAGE", "TRY_AGAIN", "SHUTDOWNCMD"}
Time == 0..(MaxTime + Horizon)
Codes == {250, 550, 901, 902, 903, 904, 905, 906, 990, 991, 992, 999}

\* A process's exit code has eight bits (for the mutants: it is an int).
WideExitCode(c) == c
ExitCode(c) == c % 256

Init ==
  /\ now = 1 /\ recording = 0 /\ timer = 0 /\ wake = 0
  /\ call = "idle" /\ locked = 0 /\ asked = 0 /\ next = 0 /\ nextPlugin = 0 /\ reply = 0
  /\ configured \in {0, 1} /\ hooks \in 0..MaxHooks
  /\ wrapper = "off" /\ hook = 0 /\ command = 0 /\ approved = {} /\ outlived = {}
  /\ child = [p \in Pipe |-> "none"]
  /\ text = [p \in Pipe |-> "nothing"]
  /\ status = [p \in Pipe |-> 0]
  /\ tries = [p \in Pipe |-> 0]

-----------------------------------------------------------------------------
(***************************************************************************)
(* VDR beside the request.                                                 *)
(***************************************************************************)

Tick ==
  /\ now < MaxTime
  /\ now' = now + 1
  /\ UNCHANGED <<recording, timer, wake, request, settings, asking, pipe>>

\* Planned is a time in the future, or none.
Planned(t) == t = 0 \/ (now < t /\ t <= now + Horizon)

\* Timers are changed and recordings start and stop under the write lock.
ChangeTimers ==
  /\ locked = 0
  /\ \E t \in Time : Planned(t) /\ timer' = t
  /\ UNCHANGED <<now, recording, wake, request, settings, asking, pipe>>

Record ==
  /\ locked = 0
  /\ recording' = 1 - recording
  /\ UNCHANGED <<now, timer, wake, request, settings, asking, pipe>>

PlanWakeup ==
  /\ \E t \in Time : Planned(t) /\ wake' = t
  /\ UNCHANGED <<now, recording, timer, request, settings, asking, pipe>>

-----------------------------------------------------------------------------
(***************************************************************************)
(* ConfirmShutdown up to the hooks.                                        *)
(***************************************************************************)

Reply(code) == call' = "replied" /\ reply' = code
Goto(step) == call' = step /\ UNCHANGED reply

ConfirmShutdown ==
  /\ call = "idle"
  /\ call' = "user" /\ reply' = 0
  /\ UNCHANGED <<vdr, locked, asked, next, nextPlugin, settings, asking, pipe>>

\* A question whose answer only VDR knows.
Ask(step, code, then) ==
  /\ call = step
  /\ Reply(code) \/ Goto(then)
  /\ UNCHANGED <<vdr, locked, asked, next, nextPlugin, settings, asking, pipe>>

AskUser    == Ask("user", 901, "cutter")
AskCutter  == Ask("cutter", 902, "timers")
AskPlugins == Ask("plugins", 905, "wakeup")

\* The clock is read, then the lock is taken, until the handler returns (for
\* the mutants: it is given back after this test).
LockTest == locked' = 0
LockTimers == locked' = 1

RecordingIs == recording = 1 \/ (timer > 0 /\ timer <= now)
Soon(t, from) == t > 0 /\ t - from <= MinEventTimeout

AskTimers ==
  /\ call = "timers"
  /\ LockTimers
  /\ asked' = now /\ next' = timer
  /\ IF RecordingIs THEN Reply(903)
     ELSE IF Soon(timer, now) THEN Reply(904) ELSE Goto("plugins")
  /\ UNCHANGED <<vdr, nextPlugin, settings, asking, pipe>>

AskWakeup ==
  /\ call = "wakeup"
  /\ nextPlugin' = wake
  /\ IF Soon(wake, asked) THEN Reply(906) ELSE Goto("vdr")
  /\ UNCHANGED <<vdr, locked, asked, next, settings, asking, pipe>>

\* The insanity check; without hooks there is nothing more to ask.
AskVdr ==
  /\ call = "vdr"
  /\ \/ Reply(550)
     \/ configured = 1 /\ Goto("opening")
     \/ configured = 0 /\ Reply(250)
  /\ UNCHANGED <<vdr, locked, asked, next, nextPlugin, settings, asking, pipe>>

\* The time that is told to the hooks (for the mutants: the plugin only counts
\* if there is no timer).
TellTimerFirst == IF nextPlugin > 0 /\ next = 0 THEN nextPlugin ELSE next
Tell == IF nextPlugin > 0 /\ (next = 0 \/ next > nextPlugin) THEN nextPlugin ELSE next

\* cExitPipe::Open of a pipe: the child runs, or there is none.
Starts(p) ==
  /\ child' = [child EXCEPT ![p] = "running"]
  /\ text' = [text EXCEPT ![p] = "nothing"]
  /\ tries' = [tries EXCEPT ![p] = Patience]
  /\ UNCHANGED status

OpenWrapper ==
  /\ call = "opening"
  /\ next' = Tell
  /\ \/ /\ Goto("reading") /\ Starts("wrapper")
        /\ wrapper' = "asking" /\ hook' = 1 /\ command' = 0 /\ approved' = {}
        /\ UNCHANGED outlived
     \/ Reply(999) /\ UNCHANGED <<asking, pipe>>
  /\ UNCHANGED <<vdr, locked, asked, nextPlugin, settings>>

-----------------------------------------------------------------------------
(***************************************************************************)
(* The shutdown-wrapper.                                                   *)
(***************************************************************************)

\* SendReply and return: the text is printed and main ends.
Exit(code, said) ==
  /\ wrapper' = "ending"
  /\ text' = [text EXCEPT !["wrapper"] = said]
  /\ status' = [status EXCEPT !["wrapper"] = ExitCode(code)]

OpenHook ==
  /\ wrapper = "asking" /\ hook <= hooks
  /\ wrapper' = "reading" /\ Starts("hook")
  /\ UNCHANGED <<vdr, request, settings, hook, command, approved, outlived>>

\* A hook that cannot be opened is one that failed without a word.
OpenHookFails ==
  /\ wrapper = "asking" /\ hook <= hooks
  /\ Exit(999, "text")
  /\ UNCHANGED <<vdr, request, settings, hook, command, approved, outlived, child, tries>>

AllAsked ==
  /\ wrapper = "asking" /\ hook > hooks
  /\ Exit(0, IF command > 0 THEN "SHUTDOWNCMD" ELSE "text")
  /\ UNCHANGED <<vdr, request, settings, hook, command, approved, outlived, child, tries>>

\* The hook is read up to its end of file.
ReadHook ==
  /\ wrapper = "reading" /\ child["hook"] # "running"
  /\ wrapper' = "closing"
  /\ UNCHANGED <<vdr, request, settings, hook, command, approved, outlived, pipe>>

\* What a hook's exit code and text make the wrapper do (for the mutants: a
\* hook that failed is skipped if it printed nothing).
RefusesAloud(ret) == ret # 0 /\ text["hook"] # "nothing"
Refuses(ret) == ret # 0

HookEnded(ret) ==
  \/ /\ Refuses(ret)
     /\ IF text["hook"] # "nothing" THEN Exit(992, text["hook"]) ELSE Exit(999, "text")
     /\ UNCHANGED <<hook, command, approved>>
  \/ /\ ~Refuses(ret) /\ text["hook"] = "TRY_AGAIN"
     /\ Exit(991, "TRY_AGAIN")
     /\ UNCHANGED <<hook, command, approved>>
  \/ /\ ~Refuses(ret) /\ text["hook"] # "TRY_AGAIN"
     /\ wrapper' = "asking" /\ hook' = hook + 1
     /\ approved' = IF ret = 0 THEN approved \cup {hook} ELSE approved
     /\ command' = IF text["hook"] = "SHUTDOWNCMD" THEN hook ELSE command
     /\ UNCHANGED <<text, status>>

\* cExitPipe::Close finds the child's end and its exit code ...
Ended(p) == child[p] = "exited" /\ tries[p] > 0

\* ... or waits for it (for the mutants: without end).
WaitsOn(p) ==
  /\ child[p] # "exited" /\ tries[p] > 0
  /\ UNCHANGED tries
Waits(p) ==
  /\ child[p] # "exited" /\ tries[p] > 0
  /\ tries' = [tries EXCEPT ![p] = @ - 1]

\* In the end it gives up: it kills the child, which is all it knows of and is
\* the shell, and returns -1 (for the mutants: the 0 of the last waitpid).
Killed(p) == tries[p] = 0
WaitCode == 0
KillCode == -1

\* Either way it forgets the child.
Forget(p) == child' = [child EXCEPT ![p] = "none"]

\* A shell may have become the program or have forked it: then the program
\* lives on, and has nothing but its end before it if its output is closed.
OutlivesShell ==
  \/ UNCHANGED outlived
  \/ child["hook"] = "closed" /\ outlived' = outlived \cup {hook}

CloseHook ==
  /\ wrapper = "closing"
  /\ \/ Ended("hook") /\ HookEnded(status["hook"]) /\ UNCHANGED outlived
     \/ Killed("hook") /\ HookEnded(KillCode) /\ OutlivesShell
  /\ Forget("hook")
  /\ UNCHANGED <<vdr, request, settings, tries>>

WaitForHook ==
  /\ wrapper = "closing" /\ Waits("hook")
  /\ UNCHANGED <<vdr, request, settings, asking, child, text, status>>

\* The wrapper's end closes its pipe first.
EndWrapper ==
  /\ wrapper = "ending"
  /\ \/ child["wrapper"] = "running" /\ child' = [child EXCEPT !["wrapper"] = "closed"]
        /\ UNCHANGED wrapper
     \/ child["wrapper"] = "closed" /\ child' = [child EXCEPT !["wrapper"] = "exited"]
        /\ wrapper' = "off"
  /\ UNCHANGED <<vdr, request, settings, hook, command, approved, outlived, text, status,
                 tries>>

-----------------------------------------------------------------------------
(***************************************************************************)
(* A hook: a program that prints something, closes its output and ends.    *)
(***************************************************************************)

PrintHook ==
  /\ child["hook"] = "running"
  /\ child' = [child EXCEPT !["hook"] = "closed"]
  /\ \E said \in Text : text' = [text EXCEPT !["hook"] = said]
  /\ UNCHANGED <<vdr, request, settings, asking, status, tries>>

EndHook ==
  /\ child["hook"] = "closed"
  /\ child' = [child EXCEPT !["hook"] = "exited"]
  /\ \E code \in {0, 1} : status' = [status EXCEPT !["hook"] = code]
  /\ UNCHANGED <<vdr, request, settings, asking, text, tries>>

\* A hook whose shell was killed ends when it likes.
EndOutlived ==
  /\ \E h \in outlived : outlived' = outlived \ {h}
  /\ UNCHANGED <<vdr, request, settings, wrapper, hook, command, approved, pipe>>

-----------------------------------------------------------------------------
(***************************************************************************)
(* ConfirmShutdown after the hooks.                                        *)
(***************************************************************************)

\* The wrapper is read up to its end of file.
ReadWrapper ==
  /\ call = "reading" /\ child["wrapper"] # "running"
  /\ Goto("closing")
  /\ UNCHANGED <<vdr, locked, asked, next, nextPlugin, settings, asking, pipe>>

\* The reply that follows from the wrapper's exit code and text.
Verdict(ret, said) ==
  IF ret # 0 THEN (IF said = "ABORT_MESSAGE" THEN 992 ELSE 999)
  ELSE CASE said = "TRY_AGAIN" -> 991
         [] said = "SHUTDOWNCMD" -> 990
         [] OTHER -> 250

\* A wrapper that outlives its shell has said what it has to say: it is over.
CloseWrapper ==
  /\ call = "closing"
  /\ \/ Ended("wrapper") /\ Reply(Verdict(status["wrapper"], text["wrapper"]))
     \/ Killed("wrapper") /\ Reply(Verdict(KillCode, text["wrapper"]))
  /\ Forget("wrapper")
  /\ wrapper' = "off"
  /\ UNCHANGED <<vdr, locked, asked, next, nextPlugin, settings, hook, command, approved,
                 outlived, text, status, tries>>

WaitForWrapper ==
  /\ call = "closing" /\ Waits("wrapper")
  /\ UNCHANGED <<vdr, request, settings, asking, child, text, status>>

\* The handler returns and so unlocks the timers.  A hook that still runs is
\* none of the next request's: it is followed no further.
Return ==
  /\ call = "replied"
  /\ Goto("idle")
  /\ locked' = 0 /\ asked' = 0 /\ next' = 0 /\ nextPlugin' = 0
  /\ hook' = 0 /\ command' = 0 /\ approved' = {} /\ outlived' = {}
  /\ text' = [p \in Pipe |-> "nothing"]
  /\ status' = [p \in Pipe |-> 0]
  /\ tries' = [p \in Pipe |-> 0]
  /\ UNCHANGED <<vdr, settings, wrapper, child>>

-----------------------------------------------------------------------------
(***************************************************************************)
(* The methods that only look.                                             *)
(***************************************************************************)

\* NextWakeupTime: the plugin's time must be before the timer's.
NextWakeupTime ==
  LET t == IF timer > now THEN timer ELSE 0
  IN IF wake > now /\ wake < t THEN wake ELSE t

-----------------------------------------------------------------------------

Vdr == Tick \/ ChangeTimers \/ Record \/ PlanWakeup

Request ==
  \/ AskUser \/ AskCutter \/ AskTimers \/ AskPlugins \/ AskWakeup \/ AskVdr
  \/ OpenWrapper \/ ReadWrapper \/ CloseWrapper \/ WaitForWrapper \/ Return

Wrapper ==
  \/ OpenHook \/ OpenHookFails \/ AllAsked \/ ReadHook \/ CloseHook \/ WaitForHook
  \/ EndWrapper

Hook == PrintHook \/ EndHook \/ EndOutlived

Next == Vdr \/ ConfirmShutdown \/ Request \/ Wrapper \/ Hook

Spec == Init /\ [][Next]_vars

\* Every process runs and a hook closes its output; it may never end.
Fairness == WF_vars(Request) /\ WF_vars(Wrapper) /\ WF_vars(PrintHook)
FairSpec == Spec /\ Fairness

-----------------------------------------------------------------------------
(***************************************************************************)
(* Properties.                                                             *)
(***************************************************************************)

\* The types of VDR's, ConfirmShutdown's and the wrapper's variables and of the
\* pipes.  A process's exit code fits eight bits.
VdrTypes ==
  now \in Time /\ recording \in {0, 1} /\ timer \in Time /\ wake \in Time
RequestTypes ==
  /\ call \in {"idle", "user", "cutter", "timers", "plugins", "wakeup", "vdr",
               "opening", "reading", "closing", "replied"}
  /\ locked \in {0, 1} /\ asked \in Time /\ next \in Time /\ nextPlugin \in Time
  /\ reply \in Codes \cup {0}
WrapperTypes ==
  /\ configured \in {0, 1} /\ hooks \in 0..MaxHooks
  /\ wrapper \in {"off", "asking", "reading", "closing", "ending"}
  /\ hook \in 0..(hooks + 1) /\ command \in 0..hooks /\ approved \subseteq 1..hooks
  /\ outlived \subseteq 1..hooks
PipeTypes ==
  /\ child \in [Pipe -> {"none", "running", "closed", "exited"}]
  /\ text \in [Pipe -> Text]
  /\ status \in [Pipe -> 0..255]
  /\ tries \in [Pipe -> 0..Patience]

\* Every variable keeps its type.
TypeOK == VdrTypes /\ RequestTypes /\ WrapperTypes /\ PipeTypes

\* The replies after which a frontend may shut VDR down.
Ready == call = "replied" /\ reply \in {250, 990}

\* VDR is ready for shutdown only if every single hook was asked and has
\* agreed; and a command is given exactly if some hook gave one.
ReadyMeansApproved ==
  (Ready /\ configured = 1) =>
    approved = 1..hooks /\ (reply = 990 <=> command \in approved)

\* However long the hooks take: when ConfirmShutdown says that VDR is ready, no
\* recording has begun, and the next timer is as far as it must be from the time
\* that was read before the hooks were asked.  The clock has gone on since: how
\* far the timer is from the time of the reply is not said, and not looked at.
StillQuiet == Ready => recording = 0 /\ ~Soon(timer, asked)

\* The hooks are told the time that NextWakeupTime reports to a frontend, while
\* the plans are what they were and a timer is one of them.
WakeupAgrees ==
  (call = "reading" /\ timer > now /\ wake = nextPlugin /\ next > now) =>
    NextWakeupTime = next

\* Hooks are asked for a ConfirmShutdown that waits for them, one at a time,
\* with the timers locked, and never beside one that was given up but runs on;
\* and VDR is not ready for shutdown while such a one of the request runs.
HooksFinish ==
  /\ child["hook"] # "none" =>
       wrapper \in {"reading", "closing"} /\ call = "reading" /\ locked = 1 /\ outlived = {}
  /\ Ready => outlived = {}

\* ConfirmShutdown returns, and so the timers are unlocked, even if a hook that
\* has closed its output never ends.
Answered == call # "idle" ~> call = "idle"

\* What the README says of reply 991: that it passes on the TRY_AGAIN of the
\* hooks.  991 does not fit the wrapper's exit code, VDR takes it for a failure.
TryAgainReplied ==
  (/\ call = "replied"
   /\ text["hook"] = "TRY_AGAIN" /\ status["hook"] = 0
   /\ \A p \in Pipe : tries[p] > 0) => reply = 991

\* What the README says of NextWakeupTime, "Returns the starttime of the next
\* timer or the next plugin": it does not if there is no timer.
WakeupReported == (wake > now \/ timer > now) => NextWakeupTime > now
=============================================================================
