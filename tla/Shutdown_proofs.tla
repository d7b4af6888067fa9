--------------------------- MODULE Shutdown_proofs ---------------------------
(***************************************************************************)
(* Proofs about Shutdown, for any number of hooks, any times and any       *)
(* patience: the safety properties that a frontend relies on.              *)
(***************************************************************************)
EXTENDS Shutdown, TLAPS

\* The steps of ConfirmShutdown before and after it holds the timers' lock.
Before == {"idle", "user", "cutter", "timers"}
After  == {"plugins", "wakeup", "vdr", "opening", "reading", "closing"}

\* The lock, and what the test of the timers found while it is held.
Locking ==
  /\ call \in Before => locked = 0
  /\ (call \in After \/ Ready) => locked = 1 /\ recording = 0 /\ ~Soon(timer, asked)

\* The wrapper's program runs only while VDR reads it.
WrapperRead ==
  /\ wrapper \in {"asking", "reading", "closing"} =>
       call = "reading" /\ child["wrapper"] = "running"
  /\ wrapper = "ending" =>
       call \in {"reading", "closing"} /\ child["wrapper"] \in {"running", "closed"}
  /\ wrapper = "off" /\ call \in {"reading", "closing"} => child["wrapper"] = "exited"
  /\ wrapper = "reading" => hook <= hooks
  /\ wrapper = "closing" => hook <= hooks
  /\ wrapper # "off" => hook > 0
  /\ child["hook"] # "none" => wrapper \in {"reading", "closing"}

\* Only hooks are asked that are configured; the approvals are those so far.
Approvals ==
  /\ call \in {"opening", "reading", "closing"} => configured = 1
  /\ wrapper \in {"asking", "reading", "closing"} => approved = 1..(hook - 1)
  /\ command \in approved \cup {0}

\* An exit code 0 of the wrapper stands for all hooks' approval.
Sealed ==
  (/\ call \in {"reading", "closing"} /\ wrapper \in {"ending", "off"}
   /\ status["wrapper"] = 0) =>
    /\ approved = 1..hooks
    /\ text["wrapper"] # "TRY_AGAIN"
    /\ text["wrapper"] = "SHUTDOWNCMD" <=> command \in approved

\* A hook that runs on after it was given up is the last that was asked, and the
\* wrapper fails on account of it.
Outliving ==
  outlived # {} =>
    /\ child["hook"] = "none" /\ wrapper \in {"ending", "off"}
    /\ call \in {"reading", "closing", "replied"} /\ ~Ready
    /\ call \in {"reading", "closing"} => status["wrapper"] # 0

\* The time for the hooks: the timer's until they are called, then the earlier.
Told ==
  /\ call \in {"plugins", "wakeup", "vdr", "opening"} => next = timer
  /\ call \in {"reading", "closing"} =>
       next = IF nextPlugin > 0 /\ (timer = 0 \/ timer > nextPlugin)
              THEN nextPlugin ELSE timer

IInv ==
  /\ TypeOK /\ Locking /\ WrapperRead /\ Approvals /\ Sealed /\ Outliving
  /\ Told /\ ReadyMeansApproved

-----------------------------------------------------------------------------
(***************************************************************************)
(* One lemma for each part of the invariant: the actions that need an      *)
(* argument come first, then those that leave the part alone.              *)
(***************************************************************************)

USE DEF Reply, Goto, vdr, request, settings, asking, pipe

\* The exit codes that the wrapper's replies become.
LEMMA ExitCodes ==
  /\ ExitCode(0) = 0 /\ ExitCode(991) = 223
  /\ ExitCode(992) = 224 /\ ExitCode(999) = 231
  BY DEF ExitCode

\* Only VDR itself changes its clock, timers and recordings.
LEMMA VdrTypesStep ==
  ASSUME VdrTypes, [Next]_vars
  PROVE  VdrTypes'
<1>1. CASE Tick \/ ChangeTimers \/ Record \/ PlanWakeup
  BY ShutdownAssumption, <1>1
     DEF VdrTypes, Time, Tick, ChangeTimers, Record, PlanWakeup
<1>2. CASE \/ ConfirmShutdown \/ AskUser \/ AskCutter \/ AskPlugins \/ AskWakeup
           \/ AskVdr \/ AskTimers \/ OpenWrapper \/ ReadWrapper \/ WaitForWrapper
           \/ CloseWrapper \/ Return \/ OpenHook \/ ReadHook \/ WaitForHook
           \/ EndWrapper \/ OpenHookFails \/ AllAsked \/ CloseHook \/ PrintHook
           \/ EndHook \/ EndOutlived
  BY <1>2
     DEF VdrTypes, ConfirmShutdown, AskUser, AskCutter, AskPlugins, AskWakeup,
         AskVdr, AskTimers, OpenWrapper, ReadWrapper, WaitForWrapper, CloseWrapper,
         Return, OpenHook, ReadHook, WaitForHook, EndWrapper, OpenHookFails,
         AllAsked, CloseHook, PrintHook, EndHook, EndOutlived, Ask
<1>3. CASE UNCHANGED vars
  BY <1>3 DEF VdrTypes, vars
<1>4. QED
  BY <1>1, <1>2, <1>3 DEF Next, Vdr, Request, Wrapper, Hook

\* Every reply is one of the documented codes.
LEMMA RequestTypesStep ==
  ASSUME VdrTypes, RequestTypes, [Next]_vars
  PROVE  RequestTypes'
<1>1. CASE \/ ConfirmShutdown \/ AskUser \/ AskCutter \/ AskPlugins \/ AskWakeup
           \/ AskVdr
  BY <1>1
     DEF VdrTypes, RequestTypes, Codes, ConfirmShutdown, AskUser, AskCutter,
         AskPlugins, AskWakeup, AskVdr, Ask
<1>2. CASE AskTimers
  BY <1>2 DEF VdrTypes, RequestTypes, Codes, AskTimers, LockTimers
<1>3. CASE OpenWrapper
  BY <1>3 DEF RequestTypes, Codes, OpenWrapper, Tell
<1>4. CASE CloseWrapper
  BY <1>4 DEF RequestTypes, Codes, CloseWrapper, Verdict, KillCode
<1>5. CASE Return
  BY ShutdownAssumption, <1>5 DEF RequestTypes, Time, Return
<1>6. CASE \/ Tick \/ ChangeTimers \/ Record \/ PlanWakeup \/ ReadWrapper
           \/ WaitForWrapper \/ OpenHook \/ ReadHook \/ WaitForHook \/ EndWrapper
           \/ OpenHookFails \/ AllAsked \/ CloseHook \/ PrintHook \/ EndHook \/ EndOutlived
  BY <1>6
     DEF RequestTypes, Tick, ChangeTimers, Record, PlanWakeup, ReadWrapper,
         WaitForWrapper, OpenHook, ReadHook, WaitForHook, EndWrapper, OpenHookFails,
         AllAsked, CloseHook, PrintHook, EndHook, EndOutlived
<1>7. CASE UNCHANGED vars
  BY <1>7 DEF RequestTypes, vars
<1>8. QED
  BY <1>1, <1>2, <1>3, <1>4, <1>5, <1>6, <1>7 DEF Next, Vdr, Request, Wrapper, Hook

\* The wrapper never asks beyond the last hook.
LEMMA WrapperTypesStep ==
  ASSUME WrapperTypes, WrapperRead, [Next]_vars
  PROVE  WrapperTypes'
<1>1. CASE OpenWrapper
  <2>1. CASE /\ Goto("reading") /\ Starts("wrapper")
             /\ wrapper' = "asking" /\ hook' = 1 /\ command' = 0 /\ approved' = {}
             /\ UNCHANGED outlived
    BY <1>1, <2>1 DEF WrapperTypes, OpenWrapper
  <2>2. CASE Reply(999) /\ UNCHANGED <<asking, pipe>>
    BY <1>1, <2>2 DEF WrapperTypes, OpenWrapper
  <2>3. QED
    BY <1>1, <2>1, <2>2 DEF OpenWrapper
<1>2. CASE CloseWrapper
  BY <1>2 DEF WrapperTypes, CloseWrapper
<1>3. CASE Return
  BY <1>3 DEF WrapperTypes, Return
<1>4. CASE OpenHook \/ ReadHook \/ WaitForHook \/ EndWrapper
  BY <1>4 DEF WrapperTypes, OpenHook, ReadHook, WaitForHook, EndWrapper
<1>5. CASE OpenHookFails \/ AllAsked
  <2>1. wrapper' = "ending" /\ UNCHANGED <<configured, hooks, hook, command, approved, outlived>>
    BY <1>5 DEF OpenHookFails, AllAsked, Exit
  <2>2. QED
    BY <2>1 DEF WrapperTypes
<1>6. CASE CloseHook
  <2>1. \/ wrapper' = "ending" /\ UNCHANGED <<hook, command, approved>>
       \/ /\ wrapper' = "asking" /\ hook' = hook + 1
          /\ approved' = approved \cup {hook}
          /\ command' \in {hook, command}
    BY <1>6 DEF CloseHook, HookEnded, Exit, Refuses
  <2>2. /\ hook \in Nat /\ hooks \in Nat /\ hook > 0 /\ hook <= hooks
        /\ hooks' = hooks /\ configured' = configured
        /\ outlived' \in {outlived, outlived \cup {hook}}
    BY <1>6 DEF WrapperTypes, WrapperRead, CloseHook, OutlivesShell
  <2>3. CASE wrapper' = "ending" /\ UNCHANGED <<hook, command, approved>>
    BY <2>2, <2>3 DEF WrapperTypes
  <2>4. CASE /\ wrapper' = "asking" /\ hook' = hook + 1
             /\ approved' = approved \cup {hook}
             /\ command' \in {hook, command}
    BY <2>2, <2>4 DEF WrapperTypes
  <2>5. QED
    BY <2>1, <2>3, <2>4
<1>7. CASE EndOutlived
  BY <1>7 DEF WrapperTypes, EndOutlived
<1>8. CASE \/ Tick \/ ChangeTimers \/ Record \/ PlanWakeup \/ ConfirmShutdown
           \/ AskUser \/ AskCutter \/ AskPlugins \/ AskWakeup \/ AskVdr \/ AskTimers
           \/ ReadWrapper \/ WaitForWrapper \/ PrintHook \/ EndHook
  BY <1>8
     DEF WrapperTypes, Tick, ChangeTimers, Record, PlanWakeup, ConfirmShutdown,
         AskUser, AskCutter, AskPlugins, AskWakeup, AskVdr, AskTimers, ReadWrapper,
         WaitForWrapper, PrintHook, EndHook, Ask
<1>9. CASE UNCHANGED vars
  BY <1>9 DEF WrapperTypes, vars
<1>10. QED
  BY <1>1, <1>2, <1>3, <1>4, <1>5, <1>6, <1>7, <1>8, <1>9
     DEF Next, Vdr, Request, Wrapper, Hook

\* A pipe's child, text and exit code.
LEMMA PipeTypesStep ==
  ASSUME PipeTypes, [Next]_vars
  PROVE  PipeTypes'
<1>1. CASE OpenWrapper
  <2>1. CASE /\ Goto("reading") /\ Starts("wrapper")
             /\ wrapper' = "asking" /\ hook' = 1 /\ command' = 0 /\ approved' = {}
             /\ UNCHANGED outlived
    BY ShutdownAssumption, <1>1 DEF PipeTypes, Text, OpenWrapper, Starts
  <2>2. CASE Reply(999) /\ UNCHANGED <<asking, pipe>>
    BY <2>2 DEF PipeTypes
  <2>3. QED
    BY <1>1, <2>1, <2>2 DEF OpenWrapper
<1>2. CASE ReadWrapper \/ WaitForWrapper
  BY ShutdownAssumption, <1>2 DEF PipeTypes, ReadWrapper, WaitForWrapper, Waits
<1>3. CASE CloseWrapper
  BY <1>3 DEF PipeTypes, Pipe, CloseWrapper, Forget
<1>4. CASE Return
  BY ShutdownAssumption, <1>4 DEF PipeTypes, Text, Return
<1>5. CASE OpenHook \/ ReadHook \/ WaitForHook \/ EndWrapper
  BY ShutdownAssumption, <1>5
     DEF PipeTypes, Text, OpenHook, ReadHook, WaitForHook, EndWrapper, Starts, Waits
<1>6. CASE OpenHookFails \/ AllAsked
  BY ExitCodes, <1>6 DEF PipeTypes, Text, OpenHookFails, AllAsked, Exit
<1>7. CASE CloseHook
  BY ExitCodes, <1>7 DEF PipeTypes, Pipe, Text, CloseHook, Forget, HookEnded, Exit
<1>8. CASE PrintHook \/ EndHook \/ EndOutlived
  BY <1>8 DEF PipeTypes, PrintHook, EndHook, EndOutlived
<1>9. CASE \/ Tick \/ ChangeTimers \/ Record \/ PlanWakeup \/ ConfirmShutdown
           \/ AskUser \/ AskCutter \/ AskPlugins \/ AskWakeup \/ AskVdr \/ AskTimers
  BY <1>9
     DEF PipeTypes, Tick, ChangeTimers, Record, PlanWakeup, ConfirmShutdown,
         AskUser, AskCutter, AskPlugins, AskWakeup, AskVdr, AskTimers, Ask
<1>10. CASE UNCHANGED vars
  BY <1>10 DEF PipeTypes, vars
<1>11. QED
  BY <1>1, <1>2, <1>3, <1>4, <1>5, <1>6, <1>7, <1>8, <1>9, <1>10
     DEF Next, Vdr, Request, Wrapper, Hook

\* Recordings and timers change only without the lock, which is taken when
\* they are looked at and kept until the handler returns.
LEMMA LockingStep ==
  ASSUME VdrTypes, Locking, [Next]_vars
  PROVE  Locking'
<1>1. CASE Tick \/ ChangeTimers \/ Record \/ PlanWakeup
  BY <1>1 DEF Locking, Ready, Tick, ChangeTimers, Record, PlanWakeup
<1>2. CASE \/ ConfirmShutdown \/ AskUser \/ AskCutter \/ AskPlugins \/ AskWakeup
           \/ AskVdr
  BY <1>2
     DEF Locking, Before, After, Ready, ConfirmShutdown, AskUser, AskCutter,
         AskPlugins, AskWakeup, AskVdr, Ask
<1>3. CASE AskTimers
  BY <1>3
     DEF Locking, VdrTypes, Before, After, Ready, AskTimers, LockTimers, RecordingIs
<1>4. CASE OpenWrapper
  BY <1>4 DEF Locking, Before, After, OpenWrapper
<1>5. CASE ReadWrapper \/ WaitForWrapper
  BY <1>5 DEF Locking, Before, After, ReadWrapper, WaitForWrapper
<1>6. CASE CloseWrapper
  BY <1>6 DEF Locking, Before, After, CloseWrapper
<1>7. CASE Return
  BY <1>7 DEF Locking, After, Ready, Return
<1>8. CASE \/ OpenHook \/ ReadHook \/ WaitForHook \/ EndWrapper \/ OpenHookFails
           \/ AllAsked \/ CloseHook \/ PrintHook \/ EndHook \/ EndOutlived
  BY <1>8
     DEF Locking, Ready, OpenHook, ReadHook, WaitForHook, EndWrapper, OpenHookFails,
         AllAsked, CloseHook, PrintHook, EndHook, EndOutlived
<1>9. CASE UNCHANGED vars
  BY <1>9 DEF Locking, Ready, vars
<1>10. QED
  BY <1>1, <1>2, <1>3, <1>4, <1>5, <1>6, <1>7, <1>8, <1>9
     DEF Next, Vdr, Request, Wrapper, Hook

\* The wrapper lives while VDR reads its pipe, a hook while the wrapper reads
\* and closes its own.
LEMMA WrapperReadStep ==
  ASSUME WrapperTypes, PipeTypes, WrapperRead, [Next]_vars
  PROVE  WrapperRead'
<1>1. CASE OpenWrapper
  BY <1>1 DEF WrapperRead, PipeTypes, Pipe, OpenWrapper, Starts
<1>2. CASE ReadWrapper \/ WaitForWrapper
  BY <1>2 DEF WrapperRead, ReadWrapper, WaitForWrapper
<1>3. CASE CloseWrapper
  BY <1>3 DEF WrapperRead, CloseWrapper, Forget
<1>4. CASE Return
  BY <1>4 DEF WrapperRead, WrapperTypes, Return
<1>5. CASE OpenHook \/ ReadHook \/ WaitForHook \/ EndWrapper
  BY <1>5
     DEF WrapperRead, PipeTypes, Pipe, OpenHook, ReadHook, WaitForHook, EndWrapper,
         Starts
<1>6. CASE OpenHookFails \/ AllAsked
  BY <1>6 DEF WrapperRead, OpenHookFails, AllAsked, Exit
<1>7. CASE CloseHook
  BY <1>7
     DEF WrapperRead, WrapperTypes, PipeTypes, Pipe, CloseHook, Forget, HookEnded,
         Exit
<1>8. CASE PrintHook \/ EndHook \/ EndOutlived
  BY <1>8 DEF WrapperRead, PipeTypes, Pipe, PrintHook, EndHook, EndOutlived
<1>9. CASE \/ Tick \/ ChangeTimers \/ Record \/ PlanWakeup \/ ConfirmShutdown
           \/ AskUser \/ AskCutter \/ AskPlugins \/ AskWakeup \/ AskVdr \/ AskTimers
  BY <1>9
     DEF WrapperRead, Tick, ChangeTimers, Record, PlanWakeup, ConfirmShutdown,
         AskUser, AskCutter, AskPlugins, AskWakeup, AskVdr, AskTimers, Ask
<1>10. CASE UNCHANGED vars
  BY <1>10 DEF WrapperRead, vars
<1>11. QED
  BY <1>1, <1>2, <1>3, <1>4, <1>5, <1>6, <1>7, <1>8, <1>9, <1>10
     DEF Next, Vdr, Request, Wrapper, Hook

\* The wrapper goes on to the next hook only after an approval.
LEMMA ApprovalsStep ==
  ASSUME WrapperTypes, WrapperRead, Approvals, [Next]_vars
  PROVE  Approvals'
<1>1. CASE OpenWrapper
  <2>1. CASE /\ Goto("reading") /\ Starts("wrapper")
             /\ wrapper' = "asking" /\ hook' = 1 /\ command' = 0 /\ approved' = {}
             /\ UNCHANGED outlived
    BY <1>1, <2>1 DEF Approvals, OpenWrapper
  <2>2. CASE Reply(999) /\ UNCHANGED <<asking, pipe>>
    BY <2>2 DEF Approvals
  <2>3. QED
    BY <1>1, <2>1, <2>2 DEF OpenWrapper
<1>2. CASE CloseWrapper
  BY <1>2 DEF Approvals, CloseWrapper
<1>3. CASE Return
  BY <1>3 DEF Approvals, Return
<1>4. CASE OpenHook \/ ReadHook \/ WaitForHook \/ EndWrapper
  BY <1>4 DEF Approvals, OpenHook, ReadHook, WaitForHook, EndWrapper
<1>5. CASE CloseHook
  <2>1. \/ wrapper' = "ending" /\ UNCHANGED <<hook, command, approved>>
       \/ /\ wrapper' = "asking" /\ hook' = hook + 1
          /\ approved' = approved \cup {hook}
          /\ command' \in {hook, command}
    BY <1>5 DEF CloseHook, HookEnded, Exit, Refuses
  <2>2. /\ hook \in Nat /\ hooks \in Nat /\ hook > 0 /\ hook <= hooks
        /\ hooks' = hooks /\ configured' = configured
    BY <1>5 DEF WrapperTypes, WrapperRead, CloseHook
  <2>3. 1..(hook + 1 - 1) = 1..(hook - 1) \cup {hook}
    BY <2>2
  <2>4. approved = 1..(hook - 1) /\ call' = call
    BY <1>5 DEF Approvals, CloseHook
  <2>5. CASE wrapper' = "ending" /\ UNCHANGED <<hook, command, approved>>
    BY <2>2, <2>4, <2>5 DEF Approvals
  <2>6. CASE /\ wrapper' = "asking" /\ hook' = hook + 1
             /\ approved' = approved \cup {hook}
             /\ command' \in {hook, command}
    <3>1. approved' = 1..(hook + 1 - 1)
      BY <2>3, <2>4, <2>6
    <3>2. command' \in approved' \cup {0}
      BY <2>6 DEF Approvals
    <3>3. QED
      BY <2>2, <2>4, <2>6 DEF Approvals
  <2>7. QED
    BY <2>1, <2>5, <2>6
<1>6. CASE \/ Tick \/ ChangeTimers \/ Record \/ PlanWakeup \/ ConfirmShutdown
           \/ AskUser \/ AskCutter \/ AskPlugins \/ AskWakeup \/ AskVdr \/ AskTimers
           \/ ReadWrapper \/ WaitForWrapper \/ OpenHookFails \/ AllAsked
           \/ PrintHook \/ EndHook \/ EndOutlived
  BY <1>6
     DEF Approvals, Tick, ChangeTimers, Record, PlanWakeup, ConfirmShutdown,
         AskUser, AskCutter, AskPlugins, AskWakeup, AskVdr, AskTimers, ReadWrapper,
         WaitForWrapper, OpenHookFails, AllAsked, PrintHook, EndHook, EndOutlived, Ask
<1>7. CASE UNCHANGED vars
  BY <1>7 DEF Approvals, vars
<1>8. QED
  BY <1>1, <1>2, <1>3, <1>4, <1>5, <1>6, <1>7 DEF Next, Vdr, Request, Wrapper, Hook

\* The timer stays what it was when it was looked at.
LEMMA ToldStep ==
  ASSUME Locking, Told, [Next]_vars
  PROVE  Told'
<1>1. CASE Tick \/ ChangeTimers \/ Record \/ PlanWakeup
  BY <1>1 DEF Told, Locking, After, Tick, ChangeTimers, Record, PlanWakeup
<1>2. CASE OpenWrapper
  BY <1>2 DEF Told, OpenWrapper, Tell
<1>3. CASE \/ ConfirmShutdown \/ AskUser \/ AskCutter \/ AskPlugins \/ AskWakeup
           \/ AskVdr \/ AskTimers \/ ReadWrapper \/ WaitForWrapper \/ CloseWrapper
           \/ Return \/ OpenHook \/ ReadHook \/ WaitForHook \/ EndWrapper
           \/ OpenHookFails \/ AllAsked \/ CloseHook \/ PrintHook \/ EndHook \/ EndOutlived
  BY <1>3
     DEF Told, ConfirmShutdown, AskUser, AskCutter, AskPlugins, AskWakeup, AskVdr,
         AskTimers, ReadWrapper, WaitForWrapper, CloseWrapper, Return, OpenHook,
         ReadHook, WaitForHook, EndWrapper, OpenHookFails, AllAsked, CloseHook,
         PrintHook, EndHook, EndOutlived, Ask
<1>4. CASE UNCHANGED vars
  BY <1>4 DEF Told, vars
<1>5. QED
  BY <1>1, <1>2, <1>3, <1>4 DEF Next, Vdr, Request, Wrapper, Hook

\* The wrapper ends with exit code 0 only after the last hook: none of its
\* other codes becomes 0 when it is cut to eight bits.
LEMMA SealedStep ==
  ASSUME WrapperTypes, PipeTypes, Approvals, Sealed, [Next]_vars
  PROVE  Sealed'
<1>1. CASE OpenHookFails \/ AllAsked
  BY ExitCodes, <1>1
     DEF Sealed, Approvals, WrapperTypes, PipeTypes, Pipe, OpenHookFails, AllAsked,
         Exit
<1>2. CASE CloseHook
  BY ExitCodes, <1>2 DEF Sealed, PipeTypes, Pipe, CloseHook, HookEnded, Exit
<1>3. CASE PrintHook \/ EndHook \/ EndOutlived
  BY <1>3 DEF Sealed, PipeTypes, Pipe, PrintHook, EndHook, EndOutlived
<1>4. CASE \/ Tick \/ ChangeTimers \/ Record \/ PlanWakeup \/ ConfirmShutdown
           \/ AskUser \/ AskCutter \/ AskPlugins \/ AskWakeup \/ AskVdr \/ AskTimers
           \/ OpenWrapper \/ ReadWrapper \/ WaitForWrapper \/ CloseWrapper \/ Return
           \/ OpenHook \/ ReadHook \/ WaitForHook \/ EndWrapper
  BY <1>4
     DEF Sealed, Tick, ChangeTimers, Record, PlanWakeup, ConfirmShutdown, AskUser,
         AskCutter, AskPlugins, AskWakeup, AskVdr, AskTimers, OpenWrapper,
         ReadWrapper, WaitForWrapper, CloseWrapper, Return, OpenHook, ReadHook,
         WaitForHook, EndWrapper, Ask
<1>5. CASE UNCHANGED vars
  BY <1>5 DEF Sealed, vars
<1>6. QED
  BY <1>1, <1>2, <1>3, <1>4, <1>5 DEF Next, Vdr, Request, Wrapper, Hook

\* A hook is given up only after all looks, and then the wrapper asks no other.
LEMMA OutlivingStep ==
  ASSUME WrapperTypes, PipeTypes, WrapperRead, Outliving, [Next]_vars
  PROVE  Outliving'
<1>1. CASE OpenWrapper
  BY <1>1 DEF Outliving, OpenWrapper
<1>2. CASE CloseWrapper
  BY <1>2 DEF Outliving, Ready, PipeTypes, Pipe, CloseWrapper, Verdict, KillCode, Forget
<1>3. CASE Return
  BY <1>3 DEF Outliving, Return
<1>4. CASE OpenHook \/ ReadHook \/ OpenHookFails \/ AllAsked
  BY <1>4 DEF Outliving, OpenHook, ReadHook, OpenHookFails, AllAsked
<1>5. CASE CloseHook
  <2>1. outlived = {} /\ wrapper = "closing" /\ call = "reading" /\ call' = call
    BY <1>5 DEF Outliving, WrapperRead, CloseHook
  <2>2. CASE Ended("hook") /\ HookEnded(status["hook"]) /\ UNCHANGED outlived
    BY <2>1, <2>2 DEF Outliving
  <2>3. CASE Killed("hook") /\ HookEnded(KillCode) /\ OutlivesShell
    <3>1. wrapper' = "ending" /\ status'["wrapper"] \in {224, 231}
      BY <2>3, ExitCodes DEF PipeTypes, Pipe, HookEnded, Refuses, KillCode, Exit
    <3>2. child'["hook"] = "none"
      BY <1>5 DEF CloseHook, Forget, PipeTypes, Pipe
    <3>3. QED
      BY <2>1, <3>1, <3>2 DEF Outliving, Ready
  <2>4. QED
    BY <1>5, <2>2, <2>3 DEF CloseHook
<1>6. CASE EndWrapper
  BY <1>6 DEF Outliving, Ready, PipeTypes, Pipe, EndWrapper
<1>7. CASE PrintHook \/ EndHook
  BY <1>7 DEF Outliving, Ready, PipeTypes, Pipe, PrintHook, EndHook
<1>8. CASE EndOutlived
  BY <1>8 DEF Outliving, Ready, EndOutlived
<1>9. CASE \/ Tick \/ ChangeTimers \/ Record \/ PlanWakeup \/ ConfirmShutdown
           \/ AskUser \/ AskCutter \/ AskPlugins \/ AskWakeup \/ AskVdr \/ AskTimers
           \/ ReadWrapper \/ WaitForWrapper \/ WaitForHook
  BY <1>9
     DEF Outliving, Ready, Tick, ChangeTimers, Record, PlanWakeup, ConfirmShutdown,
         AskUser, AskCutter, AskPlugins, AskWakeup, AskVdr, AskTimers, ReadWrapper,
         WaitForWrapper, WaitForHook, Ask
<1>10. CASE UNCHANGED vars
  BY <1>10 DEF Outliving, Ready, vars
<1>11. QED
  BY <1>1, <1>2, <1>3, <1>4, <1>5, <1>6, <1>7, <1>8, <1>9, <1>10
     DEF Next, Vdr, Request, Wrapper, Hook

\* VDR says that it is ready only on the wrapper's exit code 0.
LEMMA ReadyMeansApprovedStep ==
  ASSUME WrapperTypes, WrapperRead, Sealed, ReadyMeansApproved, [Next]_vars
  PROVE  ReadyMeansApproved'
<1>1. CASE CloseWrapper
  BY <1>1
     DEF ReadyMeansApproved, Sealed, WrapperRead, WrapperTypes, Ready, CloseWrapper,
         Verdict, KillCode
<1>2. CASE CloseHook
  BY <1>2 DEF ReadyMeansApproved, WrapperRead, Ready, CloseHook
<1>3. CASE \/ Tick \/ ChangeTimers \/ Record \/ PlanWakeup \/ ConfirmShutdown
           \/ AskUser \/ AskCutter \/ AskPlugins \/ AskWakeup \/ AskVdr \/ AskTimers
           \/ OpenWrapper \/ ReadWrapper \/ WaitForWrapper \/ Return \/ OpenHook
           \/ ReadHook \/ WaitForHook \/ EndWrapper \/ OpenHookFails \/ AllAsked
           \/ PrintHook \/ EndHook \/ EndOutlived
  BY <1>3
     DEF ReadyMeansApproved, Ready, Tick, ChangeTimers, Record, PlanWakeup,
         ConfirmShutdown, AskUser, AskCutter, AskPlugins, AskWakeup, AskVdr,
         AskTimers, OpenWrapper, ReadWrapper, WaitForWrapper, Return, OpenHook,
         ReadHook, WaitForHook, EndWrapper, OpenHookFails, AllAsked, PrintHook,
         EndHook, EndOutlived, Ask
<1>4. CASE UNCHANGED vars
  BY <1>4 DEF ReadyMeansApproved, Ready, vars
<1>5. QED
  BY <1>1, <1>2, <1>3, <1>4 DEF Next, Vdr, Request, Wrapper, Hook

-----------------------------------------------------------------------------
(***************************************************************************)
(* The theorems.                                                           *)
(***************************************************************************)

LEMMA InvInit == ASSUME Init PROVE IInv
<1>1. TypeOK
  BY ShutdownAssumption
     DEF Init, TypeOK, VdrTypes, RequestTypes, WrapperTypes, PipeTypes, Time, Text
<1>2. Locking /\ WrapperRead /\ Approvals /\ Sealed /\ Outliving /\ Told
      /\ ReadyMeansApproved
  BY DEF Init, Locking, WrapperRead, Approvals, Sealed, Outliving, Told, ReadyMeansApproved,
         After, Ready, Pipe
<1>3. QED
  BY <1>1, <1>2 DEF IInv

LEMMA InvStep == ASSUME IInv, [Next]_vars PROVE IInv'
  BY VdrTypesStep, RequestTypesStep, WrapperTypesStep, PipeTypesStep, LockingStep,
     WrapperReadStep, ApprovalsStep, SealedStep, OutlivingStep, ToldStep,
     ReadyMeansApprovedStep
     DEF IInv, TypeOK

\* The invariant holds in every reachable state.
THEOREM Invariance == Spec => []IInv
  BY InvInit, InvStep, PTL DEF Spec

\* Every variable keeps its type, and an exit code its eight bits.
THEOREM TypesKept == Spec => []TypeOK
<1>1. IInv => TypeOK
  BY DEF IInv
<1>2. QED
  BY <1>1, Invariance, PTL

\* ConfirmShutdown declares VDR ready only if every hook was asked and agreed.
THEOREM Approved == Spec => []ReadyMeansApproved
<1>1. IInv => ReadyMeansApproved
  BY DEF IInv
<1>2. QED
  BY <1>1, Invariance, PTL

\* What was tested still holds of the time that it was tested for when VDR is
\* declared ready: the timers' lock is kept while the hooks run.  That the timer
\* is not near by the clock of the reply does not follow.
THEOREM AsTested == Spec => []StillQuiet
<1>1. IInv => StillQuiet
  BY DEF IInv, Locking, StillQuiet
<1>2. QED
  BY <1>1, Invariance, PTL

\* Hooks are asked one at a time under the timers' lock; one that is given up
\* may run on, and then the request is never answered with ready while it does.
THEOREM HooksFinished == Spec => []HooksFinish
<1>1. IInv => HooksFinish
  BY DEF IInv, Locking, WrapperRead, Outliving, HooksFinish, After
<1>2. QED
  BY <1>1, Invariance, PTL

\* The hooks are told the time that NextWakeupTime reports.
THEOREM Agreement == Spec => []WakeupAgrees
<1>1. IInv => WakeupAgrees
  BY DEF IInv, TypeOK, VdrTypes, Told, WakeupAgrees, NextWakeupTime, Time
<1>2. QED
  BY <1>1, Invariance, PTL
=============================================================================
