------------------------------- MODULE Timers -------------------------------
(***************************************************************************)
(* The interface "timer" (timer.c).  A timer is listed by its id, and      *)
(* deleted by it; New and Next answer with its place in the list.          *)
(***************************************************************************)
EXTENDS MethodPool, SequencesExt

CONSTANTS
  Starts        \* when a timer may start

ASSUME TimersAssumption == Starts \subseteq Nat \ {0} /\ Starts # {}

VARIABLES
  timers,       \* VDR's list
  timerIds      \* how many timers were made

timersVars == <<timers, timerIds>>

Timer(id, start) == [id |-> id, start |-> start, active |-> TRUE, recording |-> FALSE]

\* The settings given to New: 0 for none, -1 for what cannot be parsed.
TimersCalls ==
  [method : {"Timers.List", "Timers.ListDetailed", "Timers.Next"}, arg : {<<>>}] \union
  [method : {"Timers.New"}, arg : Starts \union {0, -1}] \union
  [method : {"Timers.Delete"}, arg : 0..2]

TimersInit == \E s \in Starts : timers = <<Timer(1, s)>> /\ timerIds = 1

\* The settings are parsed without the lock.
TimersParse(w) ==
  /\ Runs(w, "Timers.New")
  /\ IF call[w].arg < 1 THEN SendReply(w, 501) ELSE Go(w, "parsed")
  /\ UNCHANGED <<timersVars, holds>>

TimersNew(w) ==
  /\ At(w, "parsed") /\ Locked(w, "timers", "write")
  /\ timers' = Append(timers, Timer(timerIds + 1, call[w].arg)) /\ timerIds' = timerIds + 1
  /\ Return(w, 250, <<Len(timers')>>)

\* A timer that records is told to skip the rest, then deleted.
TimersDelete(w) ==
  /\ Runs(w, "Timers.Delete") /\ Locked(w, "timers", "write")
  /\ \/ \E i \in DOMAIN timers :
          timers[i].id = call[w].arg /\ timers' = RemoveAt(timers, i) /\ SendReply(w, 250)
     \/ (\A i \in DOMAIN timers : timers[i].id # call[w].arg) /\ UNCHANGED timers /\ SendReply(w, 501)
  /\ UNCHANGED timerIds

TimersList(w) ==
  /\ Runs(w, "Timers.List") \/ Runs(w, "Timers.ListDetailed")
  /\ Locked(w, "timers", "read") /\ Return(w, 0, timers)
  /\ UNCHANGED timersVars

\* GetNextActiveTimer.
NextActive(i) == timers[i].active /\ \A j \in DOMAIN timers : timers[j].active => timers[i].start <= timers[j].start

TimersNext(w) ==
  /\ Runs(w, "Timers.Next") /\ Locked(w, "timers", "read")
  /\ \/ \E i \in DOMAIN timers : NextActive(i) /\ Return(w, 250, <<i, timers[i].start>>)
     \/ (\A i \in DOMAIN timers : ~timers[i].active) /\ Return(w, 550, <<-1, 0>>)
  /\ UNCHANGED timersVars

TimersMethod(w) ==
  TimersParse(w) \/ TimersNew(w) \/ TimersDelete(w) \/ TimersList(w) \/ TimersNext(w)

\* VDR begins to record, which needs its lock, or a user switches a timer off.
VdrRecords ==
  /\ \E h \in holds[VDR] : h.lock = "timers"
  /\ \E i \in DOMAIN timers :
       \/ ~timers[i].recording /\ timers[i].active /\ timers' = [timers EXCEPT ![i].recording = TRUE]
       \/ timers[i].active /\ timers' = [timers EXCEPT ![i].active = FALSE]
  /\ UNCHANGED <<timerIds, poolVars>>
=============================================================================
