--------------------------- MODULE RecordingsList ---------------------------
(***************************************************************************)
(* The interface "recording" (recording.c), built with the patch for extra *)
(* video directories.  A recording is named by its path or by its number   *)
(* in the list.                                                            *)
(***************************************************************************)
EXTENDS Status, SequencesExt

CONSTANTS
  Directories   \* names of video directories

VARIABLES
  list,         \* VDR's recordings
  rescans,      \* 1: an update was triggered
  resume,       \* the position where each recording is resumed, 0 for its begin
  chosen,       \* cReplayControl's recording
  directories,  \* the extra video directories
  mixed         \* threads in Play, while somebody else controlled VDR

recordingsVars == <<list, rescans, resume, chosen, directories, mixed>>

Positions == {-1, 0, 1}   \* resume where it was left, play from the begin, or from a frame
Recording == Recordings \union {0, 1}

RecordingsCalls ==
  [method : {"Recordings.Get"}, arg : Recording] \union
  [method : {"Recordings.List", "Recordings.Update", "Recordings.ListExtra", "Recordings.ClearExtra"},
   arg : {<<>>}] \union
  [method : {"Recordings.Play"}, arg : Recording \X Positions] \union
  [method : {"Recordings.ChangeName"}, arg : Recording \X (Recordings \union {""})] \union
  [method : {"Recordings.AddExtra", "Recordings.DeleteExtra"}, arg : Directories \union {""}]

RecordingsInit ==
  /\ list = SetToSeq(Recordings)
  /\ rescans = 0 /\ resume = [r \in Recordings |-> 0] /\ chosen = "none"
  /\ directories = <<>> /\ mixed = {}

\* GetByName, or Get of a number.
Found(r) == {i \in DOMAIN list : IF r \in Recordings THEN list[i] = r ELSE i = r}

-----------------------------------------------------------------------------
RecordingsGet(w) ==
  /\ Runs(w, "Recordings.Get") /\ Locked(w, "recordings", "read")
  /\ Return(w, 0, SetToSeq(Found(call[w].arg)))
  /\ UNCHANGED <<recordingsVars, statusVars>>

RecordingsListed(w) ==
  /\ Runs(w, "Recordings.List") /\ Locked(w, "recordings", "read") /\ Return(w, 0, list)
  /\ UNCHANGED <<recordingsVars, statusVars>>

Update(w) ==
  /\ Runs(w, "Recordings.Update") /\ Locked(w, "recordings", "write")
  /\ rescans' = 1 /\ SendReply(w, 250)
  /\ UNCHANGED <<list, resume, chosen, directories, mixed, statusVars>>

\* Recordings are renamed if nobody uses them.
ChangeName(w) ==
  /\ Runs(w, "Recordings.ChangeName") /\ Locked(w, "recordings", "write")
  /\ LET name == call[w].arg[2] IN
     IF name = "" \/ Found(call[w].arg[1]) = {}
     THEN SendReply(w, 501) /\ UNCHANGED <<list, rescans, resume>>
     ELSE \E i \in Found(call[w].arg[1]) :
            \/ list[i] = control /\ SendReply(w, 550) /\ UNCHANGED <<list, rescans, resume>>
            \/ /\ list[i] # control /\ \A j \in DOMAIN list : list[j] # name
               /\ list' = [list EXCEPT ![i] = name] /\ rescans' = 1
               /\ resume' = [resume EXCEPT ![name] = resume[list[i]]] /\ SendReply(w, 250)
            \/ list[i] # control /\ SendReply(w, 554) /\ UNCHANGED <<list, rescans, resume>>
  /\ UNCHANGED <<chosen, directories, mixed, statusVars>>

-----------------------------------------------------------------------------
(***************************************************************************)
(* Play: readers of the list do not exclude each other.                    *)
(***************************************************************************)

Playing == {w \in Workers : call[w].method = "Recordings.Play" /\ call[w].at \notin {"idle", "queued"}}
Midway == {w \in Playing : call[w].at \in {"choose", "launch"}}

\* What Play goes on with.
Played(w) == call[w].value[1]

PlayFind(w) ==
  /\ Runs(w, "Recordings.Play") /\ Locked(w, "recordings", "read")
  /\ \/ Found(call[w].arg[1]) = {} /\ SendReply(w, 501)
     \/ \E i \in Found(call[w].arg[1]) :
          call' = [call EXCEPT ![w].at = "stop", ![w].value = <<list[i]>>] /\ Same
  /\ UNCHANGED <<recordingsVars, statusVars>>

\* SetRecording(NULL) and Shutdown.
PlayStop(w) ==
  /\ At(w, "stop") /\ Controls("none") /\ chosen' = "none"
  /\ mixed' = ((mixed \union Playing) \ {w}) \union (IF Midway # {} THEN {w} ELSE {})
  /\ Go(w, "choose")
  /\ UNCHANGED <<list, rescans, resume, directories, holds>>

\* A position is stored for the replay, for the begin the resume file is deleted;
\* -1 leaves what is there.
PlayChoose(w) ==
  /\ At(w, "choose")
  /\ resume' = [resume EXCEPT ![Played(w)] = IF call[w].arg[2] = -1 THEN @ ELSE call[w].arg[2]]
  /\ chosen' = Played(w) /\ Go(w, "launch")
  /\ UNCHANGED <<list, rescans, directories, mixed, holds, statusVars>>

\* The new control replays what is chosen.
PlayLaunch(w) ==
  /\ At(w, "launch") /\ Controls(chosen)
  /\ Return(w, 250, call[w].value)
  /\ UNCHANGED <<recordingsVars, holds>>

-----------------------------------------------------------------------------
(***************************************************************************)
(* The extra video directories, whose lock may be taken.                   *)
(***************************************************************************)

Extra(w) ==
  /\ call[w].method \in {"Recordings.ListExtra", "Recordings.AddExtra", "Recordings.ClearExtra", "Recordings.DeleteExtra"}
  /\ At(w, "queued")
  /\ LET m == call[w].method
         changes == m \in {"Recordings.AddExtra", "Recordings.DeleteExtra"}
     IN \/ changes /\ call[w].arg = "" /\ SendReply(w, 501) /\ UNCHANGED directories
        \/ ~(changes /\ call[w].arg = "") /\ SendReply(w, 550) /\ UNCHANGED directories
        \/ /\ m = "Recordings.ListExtra" /\ UNCHANGED directories
           /\ Return(w, IF directories = <<>> THEN 550 ELSE 250, directories)
        \/ m = "Recordings.ClearExtra" /\ directories' = <<>> /\ SendReply(w, 250)
        \/ /\ changes /\ call[w].arg # "" /\ SendReply(w, 250)
           /\ directories' = IF m = "Recordings.AddExtra" THEN Append(directories, call[w].arg)
                             ELSE Remove(directories, call[w].arg)
  /\ UNCHANGED <<list, rescans, resume, chosen, mixed, holds, statusVars>>

RecordingsMethod(w) ==
  \/ RecordingsGet(w) \/ RecordingsListed(w) \/ Update(w) \/ ChangeName(w)
  \/ PlayFind(w) \/ PlayStop(w) \/ PlayChoose(w) \/ PlayLaunch(w) \/ Extra(w)

\* VDR scans the video directory.
VdrScans ==
  /\ rescans = 1 /\ rescans' = 0
  /\ \E h \in holds[VDR] : h.lock = "recordings"
  /\ \E rs \in SUBSET Recordings : list' = SetToSeq(rs)
  /\ UNCHANGED <<resume, chosen, directories, mixed, statusVars, poolVars>>

\* Somebody else than the thread in Play controls VDR.
Disturbs == mixed' = mixed \union Playing /\ UNCHANGED <<list, rescans, resume, chosen, directories>>

\* What the objects answer, and have signalled last, is what VDR replays, on
\* every bus, however replaying starts and ends; and who was told that a
\* recording is played gets this one.  Left out: an object that VDR has told
\* nothing since it was made (a session bus set during a replay, status.c:96),
\* and Play while somebody else starts or stops a replay (recording.c:277-294).
ReplayTold ==
  /\ telling = <<>> => \A b \in {"system", "session"} : replay[b].live /\ replay[b].told =>
       /\ [on |-> replay[b].on, name |-> replay[b].name] = Replays(control)
       /\ Announces(emitted[b], control)
  /\ \A w \in Workers \ mixed :
       call[w].method = "Recordings.Play" /\ At(w, "replied") /\ call[w].code = 250 =>
         control = Played(w) /\ (call[w].arg[2] >= 0 => resume[control] = call[w].arg[2])
=============================================================================
