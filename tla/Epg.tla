-------------------------------- MODULE Epg --------------------------------
(***************************************************************************)
(* The interface "epg" (epg.c).  The schedules are locked with a key that  *)
(* must be removed, and only for a second: who does not get them by then   *)
(* gives up.                                                               *)
(***************************************************************************)
EXTENDS Channels

VARIABLES
  schedules,  \* the events of each channel, -1 if it has no schedule
  scanner     \* VDR reads the EPG that is broadcast

epgVars == <<schedules, scanner>>

MaxEvents == 1   \* bound: events of a channel

\* A channel by its number, its name or its id; of the entries also "all".
EpgCalls ==
  [method : {"Epg.DisableScanner", "Epg.EnableScanner"}, arg : {<<>>}] \union
  [method : {"Epg.ClearEPG"},
   arg : {<<"number", n>> : n \in 0..MaxNumber} \union {<<"name", n>> : n \in {0, MaxNumber}} \union {<<"id", MaxNumber>>}] \union
  [method : {"Epg.PutEntry"}, arg : {"", "good", "bad"}] \union
  [method : {"Epg.PutFile"}, arg : {"", "good", "bad", "missing"}] \union
  [method : {"Epg.Now"}, arg : {<<"number", 0>>, <<"all">>}] \union
  [method : {"Epg.Next"}, arg : {<<"number", MaxNumber>>}] \union
  [method : {"Epg.At"}, arg : {<<"number", 1>>, <<"no time">>}]

EpgInit == schedules = [n \in Numbers |-> IF n = MaxNumber THEN 0 ELSE -1] /\ scanner = TRUE

DisableScanner(w) ==
  /\ Runs(w, "Epg.DisableScanner") /\ scanner' = FALSE /\ SendReply(w, 250)
  /\ UNCHANGED <<schedules, holds, current>>

EnableScanner(w) ==
  /\ Runs(w, "Epg.EnableScanner") /\ scanner' = TRUE /\ SendReply(w, 250)
  /\ UNCHANGED <<schedules, holds, current>>

\* The time is over.
VdrScansAgain == ~scanner /\ scanner' = TRUE /\ UNCHANGED <<schedules, poolVars>>

-----------------------------------------------------------------------------
(***************************************************************************)
(* The lock of the schedules.                                              *)
(***************************************************************************)

\* What is answered under the lock is sent before the key is removed.
ReplyThenRemove(w, code, value) ==
  call' = [call EXCEPT ![w].at = "remove", ![w].code = code, ![w].value = value] /\ Same

GivesUp(w, mode, code) == ~Grants("schedules", mode) /\ SendReply(w, code) /\ UNCHANGED holds

\* StateKey.Remove (for the mutants: only if the answer is 250).
RemovedIfDone(w) == IF call[w].code = 250 THEN Removed(w, "schedules") ELSE holds
KeyRemoved(w) == Removed(w, "schedules")

RemoveKey(w) ==
  /\ At(w, "remove") /\ holds' = KeyRemoved(w)
  /\ call' = [call EXCEPT ![w].at = "replied"] /\ Same
  /\ UNCHANGED <<epgVars, current>>

-----------------------------------------------------------------------------
\* The channels are locked while the channel is looked up, and no longer.  A
\* number in a gap has no channel, which is not tested: VDR crashes.
ClearFind(w) ==
  /\ Runs(w, "Epg.ClearEPG")
  /\ LET kind == call[w].arg[1]
         n == call[w].arg[2]
     IN /\ kind = "id" \/ Grants("channels", "read")
        /\ \/ n \in Numbers /\ Go(w, "clear")
           \/ n \notin Numbers /\ kind = "number" /\ n \in 1..MaxNumber /\ Go(w, "crashed")
           \/ n \notin Numbers /\ (kind # "number" \/ n \notin 1..MaxNumber) /\ SendReply(w, 501)
  /\ UNCHANGED <<epgVars, holds, current>>

ClearEPG(w) ==
  /\ At(w, "clear")
  /\ LET n == call[w].arg[2] IN
     \/ GivesUp(w, "write", 451) /\ UNCHANGED epgVars
     \/ /\ LockedWithKey(w, "schedules", "write")
        /\ IF schedules[n] = -1
           THEN ReplyThenRemove(w, 550, <<>>) /\ UNCHANGED epgVars
           ELSE /\ schedules' = [schedules EXCEPT ![n] = 0] /\ scanner' = FALSE
                /\ ReplyThenRemove(w, 250, <<>>)
  /\ UNCHANGED current

-----------------------------------------------------------------------------
(***************************************************************************)
(* cPUTEhandler, PutEntry and PutFile.                                     *)
(***************************************************************************)

\* Without a line there is nothing to put; a temporary file may not be had.
PutEntry(w) ==
  /\ Runs(w, "Epg.PutEntry")
  /\ IF call[w].arg = "" THEN SendReply(w, 501) ELSE Go(w, "put") \/ SendReply(w, 554)
  /\ UNCHANGED <<epgVars, holds, current>>

\* What is answered before the file is read, which may fail.
ReplyThenRead(w) == call' = [call EXCEPT ![w].at = "read", ![w].code = 0] /\ Same

PutFile(w) ==
  /\ Runs(w, "Epg.PutFile")
  /\ CASE call[w].arg = ""        -> SendReply(w, -1)
       [] call[w].arg = "missing" -> SendReply(w, -2)
       [] OTHER                   -> ReplyThenRead(w)
  /\ UNCHANGED <<epgVars, holds, current>>

\* External: cSchedules::Read waits for the lock.  Of data that is bad the part
\* before may have been taken; without channels nothing is.
EntriesTaken(w) ==
  /\ Writable("schedules")
  /\ \/ \E n \in Numbers : schedules' = [schedules EXCEPT ![n] = MaxEvents]
     \/ (call[w].arg = "bad" \/ Numbers = {}) /\ UNCHANGED schedules
  /\ UNCHANGED <<scanner, holds, current>>

ReadEntries(w) ==
  /\ At(w, "put") /\ EntriesTaken(w)
  /\ SendReply(w, IF call[w].arg = "bad" THEN 451 ELSE 250)

\* The caller has its answer, and hears nothing of this.
ReadFile(w) == At(w, "read") /\ EntriesTaken(w) /\ Go(w, "replied")

-----------------------------------------------------------------------------
(***************************************************************************)
(* Now, Next and At.                                                       *)
(***************************************************************************)

\* The channels stay locked.
EntriesFind(w) ==
  /\ call[w].method \in {"Epg.Now", "Epg.Next", "Epg.At"} /\ At(w, "queued")
  /\ Locked(w, "channels", "read")
  /\ \/ call[w].arg[1] = "number" /\ (IF call[w].arg[2] \in Numbers THEN Go(w, "entries") ELSE SendReply(w, 501))
     \/ call[w].arg[1] = "all" /\ Go(w, "entries")
     \/ call[w].arg[1] = "no time" /\ SendReply(w, 501)
  /\ UNCHANGED <<epgVars, current>>

\* A schedule has an event that is wanted, or has none.
Entries(w) ==
  /\ At(w, "entries")
  /\ \/ GivesUp(w, "read", 550)
     \/ /\ LockedWithKey(w, "schedules", "read")
        /\ LET wanted == IF call[w].arg[1] = "all" THEN Numbers ELSE {call[w].arg[2]} IN
           \E found \in SUBSET {n \in wanted : schedules[n] > 0} : ReplyThenRemove(w, 250, SetToSeq(found))
  /\ UNCHANGED <<epgVars, current>>

EpgMethod(w) ==
  \/ DisableScanner(w) \/ EnableScanner(w) \/ ClearFind(w) \/ ClearEPG(w) \/ RemoveKey(w)
  \/ PutEntry(w) \/ PutFile(w) \/ ReadEntries(w) \/ ReadFile(w) \/ EntriesFind(w) \/ Entries(w)
=============================================================================
