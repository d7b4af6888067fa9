------------------------------- MODULE Remote -------------------------------
(***************************************************************************)
(* The interface "remote" (remote.c): keys, calls of plugins, questions to *)
(* the user, channels and volume.  A question is a menu that VDR shows     *)
(* when it opens the plugin's own menu; its destructor or a selected item  *)
(* sends the answer.  Nothing here has a lock but the channels.            *)
(***************************************************************************)
EXTENDS Channels

CONSTANTS
  MaxVolume   \* bound: the loudest volume

ASSUME RemoteAssumption == MaxVolume \in Nat \ {0}

VARIABLES
  enabled,     \* cRemote::Enabled
  keys,        \* the keys put so far
  pluginCall,  \* the call of a plugin that VDR has still to serve
  menu,        \* cDBusRemote::MainMenuAction: a question, 0 for NULL
  shown,       \* the question that VDR shows, 0 for another menu or none
  asked,       \* how many questions were made
  accepted,    \* those whose call was answered with 250
  answers,     \* what was sent for each question
  raced,       \* 1: a question got in the way of another one, or of its menu
  volume, muted  \* of VDR

vdrRemote == <<enabled, keys, pluginCall, volume, muted>>
questions == <<menu, shown, asked, accepted, answers, raced>>
remoteVars == <<vdrRemote, questions>>

RemoteCalls ==
  [method : {"Remote.CallPlugin"}, arg : {"dbus2vdr", "other", "unknown"}] \union
  [method : {"Remote.Enable", "Remote.Disable", "Remote.Status", "Remote.GetVolume"}, arg : {<<>>}] \union
  [method : {"Remote.HitKey"}, arg : {"key", "unknown"}] \union
  [method : {"Remote.HitKeys"}, arg : {<<>>, <<"key">>, <<"key", "key">>, <<"key", "unknown">>}] \union
  [method : {"Remote.AskUser"}, arg : {0, 1}] \union
  [method : {"Remote.SwitchChannel"},
   arg : {<<"number", n>> : n \in 0..4} \union {<<"id", n>> : n \in Numbers} \union {<<"-">>, <<"+">>, <<"">>, <<"unknown">>}] \union
  [method : {"Remote.SetVolume"},
   arg : {<<"to", v>> : v \in {0, MaxVolume + 1}} \union {<<"+">>, <<"-">>, <<"mute">>, <<"unknown">>, <<"other type">>}]

RemoteInit ==
  /\ enabled = TRUE /\ keys = <<>> /\ pluginCall = "none"
  /\ menu = 0 /\ shown = 0 /\ asked = 0 /\ accepted = {} /\ raced = 0
  /\ answers = [q \in 1..offered.calls |-> <<>>]
  /\ volume = 1 /\ muted = FALSE

-----------------------------------------------------------------------------
CallPlugin(w) ==
  /\ Runs(w, "Remote.CallPlugin")
  /\ IF call[w].arg # "unknown" /\ pluginCall = "none"
     THEN pluginCall' = call[w].arg /\ SendReply(w, 250)
     ELSE UNCHANGED pluginCall /\ SendReply(w, 550)
  /\ UNCHANGED <<enabled, keys, volume, muted, questions, holds, current>>

SetEnabled(w) ==
  /\ \/ Runs(w, "Remote.Enable") /\ enabled' = TRUE
     \/ Runs(w, "Remote.Disable") /\ enabled' = FALSE
  /\ SendReply(w, 250)
  /\ UNCHANGED <<keys, pluginCall, volume, muted, questions, holds, current>>

RemoteStatus(w) ==
  /\ Runs(w, "Remote.Status") /\ Return(w, 0, enabled)
  /\ UNCHANGED <<remoteVars, holds, current>>

HitKey(w) ==
  /\ Runs(w, "Remote.HitKey")
  /\ IF call[w].arg = "unknown"
     THEN SendReply(w, 504) /\ UNCHANGED keys
     ELSE SendReply(w, 250) /\ keys' = Append(keys, call[w].arg)
  /\ UNCHANGED <<enabled, pluginCall, volume, muted, questions, holds, current>>

\* The keys are put one by one, if all are known (for the mutants: those before
\* the first unknown one are).
KeysUntilError(ks) == SelectSeq(ks, LAMBDA k : k # "unknown")
KnownKeys(ks) == IF \E i \in DOMAIN ks : ks[i] = "unknown" THEN <<>> ELSE ks

HitKeys(w) ==
  /\ Runs(w, "Remote.HitKeys")
  /\ LET ks == call[w].arg IN
     IF KnownKeys(ks) = <<>>
     THEN SendReply(w, IF ks = <<>> THEN 500 ELSE 504) /\ UNCHANGED keys
     ELSE /\ keys' = keys \o KnownKeys(ks)
          /\ SendReply(w, IF KnownKeys(ks) = ks THEN 250 ELSE 504)
  /\ UNCHANGED <<enabled, pluginCall, volume, muted, questions, holds, current>>

-----------------------------------------------------------------------------
(***************************************************************************)
(* AskUser and the menu.                                                   *)
(***************************************************************************)

\* A question is refused while one is open (for the mutants: never).
NeverOpen == FALSE
AnotherOpen == menu # 0

AskTest(w) ==
  /\ Runs(w, "Remote.AskUser")
  /\ IF AnotherOpen THEN SendReply(w, 550)
     ELSE IF call[w].arg < 1 THEN SendReply(w, 501) ELSE Go(w, "ask")
  /\ UNCHANGED <<remoteVars, holds, current>>

\* What stays of a menu that is deleted: nobody is told twice, and nobody if the
\* plugin's menu is another one by then.
Deleted(q) ==
  answers' = IF q # 0 /\ menu = q THEN [answers EXCEPT ![q] = Append(@, -1)] ELSE answers

AskOpen(w) ==
  /\ At(w, "ask")
  /\ raced' = IF \E v \in Workers \ {w} : call[v].at \in {"ask", "asking"} THEN 1 ELSE raced
  /\ asked' = asked + 1 /\ menu' = asked + 1
  /\ call' = [call EXCEPT ![w].at = "asking", ![w].value = asked + 1] /\ Same
  /\ UNCHANGED <<vdrRemote, shown, accepted, answers, holds, current>>

\* cRemote::CallPlugin.  A call that is refused takes its menu back, whether or
\* not VDR shows it already.
AskCall(w) ==
  /\ At(w, "asking")
  /\ IF pluginCall = "none"
     THEN /\ pluginCall' = "dbus2vdr" /\ accepted' = accepted \union {call[w].value}
          /\ SendReply(w, 250) /\ UNCHANGED <<menu, raced>>
     ELSE /\ menu' = 0 /\ SendReply(w, 550) /\ UNCHANGED <<pluginCall, accepted>>
          /\ raced' = IF shown = call[w].value THEN 1 ELSE raced
  /\ UNCHANGED <<enabled, keys, volume, muted, shown, asked, answers, holds, current>>

\* VDR deletes the menu it shows, then opens that of the plugin called.
VdrOpensMenu ==
  /\ pluginCall # "none" /\ pluginCall' = "none"
  /\ Deleted(shown)
  /\ menu' = IF shown # 0 THEN 0 ELSE menu
  /\ shown' = IF pluginCall = "dbus2vdr" THEN menu' ELSE 0
  /\ UNCHANGED <<enabled, keys, volume, muted, asked, accepted, raced, poolVars, current>>

\* ProcessKey: an item is selected, which closes the menu.
Selects(item) ==
  /\ shown # 0
  /\ answers' = IF menu = shown THEN [answers EXCEPT ![shown] = Append(@, item)] ELSE answers
  /\ menu' = 0 /\ shown' = 0
  /\ UNCHANGED <<vdrRemote, asked, accepted, raced, poolVars, current>>

Closes ==
  /\ shown # 0 /\ Deleted(shown) /\ menu' = 0 /\ shown' = 0
  /\ UNCHANGED <<vdrRemote, asked, accepted, raced, poolVars, current>>

-----------------------------------------------------------------------------
(***************************************************************************)
(* Channel and volume.                                                     *)
(***************************************************************************)

SwitchLocks(w) ==
  /\ Runs(w, "Remote.SwitchChannel") /\ Locked(w, "channels", "read") /\ Go(w, "switch")
  /\ UNCHANGED <<remoteVars, current>>

\* The number that the option asks for, -1 if it is undefined; "-" and "+" at
\* the last channel stay there.
NumberOf(option) ==
  CASE option[1] = "number" -> IF option[2] \in 1..MaxNumber THEN option[2] ELSE -1
    [] option[1] = "id"     -> option[2]
    [] option[1] \in {"", "-", "+"} -> current
    [] OTHER                -> -1

\* GetByNumber finds a channel (for the mutants: also in a gap of the numbers).
InRange(n) == n \in 1..MaxNumber
IsChannel(n) == n \in Numbers

\* cDevice::SwitchChannel may fail, and only its form with a channel is asked
\* whether it did.
Zap(w) ==
  /\ At(w, "switch")
  /\ LET option == call[w].arg
         n == NumberOf(option)
         step == (option = <<"-">> /\ current > 1) \/ (option = <<"+">> /\ current < MaxNumber)
         toward == IF option = <<"-">> THEN Below(current) ELSE Above(current)
     IN \/ option = <<"">> /\ UNCHANGED current /\ SendReply(w, IF current \in Numbers THEN 250 ELSE 550)
        \/ n = -1 /\ UNCHANGED current /\ SendReply(w, 501)
        \/ step /\ current' \in toward \union {current} /\ SendReply(w, 250)
        \/ /\ n # -1 /\ option # <<"">> /\ ~step
           /\ IF ~IsChannel(n) THEN UNCHANGED current /\ SendReply(w, 550)
              ELSE (current' = n /\ SendReply(w, 250)) \/ (UNCHANGED current /\ SendReply(w, 554))
  /\ UNCHANGED <<remoteVars, holds>>

GetVolume(w) ==
  /\ Runs(w, "Remote.GetVolume") /\ Return(w, 0, <<volume, muted>>)
  /\ UNCHANGED <<remoteVars, holds, current>>

Bounded(v) == IF v < 0 THEN 0 ELSE IF v > MaxVolume THEN MaxVolume ELSE v

\* An argument that is neither text nor number sets the volume to -1.
SetVolume(w) ==
  /\ Runs(w, "Remote.SetVolume")
  /\ LET option == call[w].arg IN
     \/ option = <<"unknown">> /\ UNCHANGED <<volume, muted>> /\ Return(w, 501, <<volume, muted>>)
     \/ option = <<"mute">> /\ muted' = ~muted /\ UNCHANGED volume /\ Return(w, 250, <<volume, muted'>>)
     \/ /\ option[1] \in {"to", "+", "-", "other type"}
        /\ volume' = Bounded(CASE option[1] = "to" -> option[2] [] option[1] = "+" -> volume + 1
                               [] option[1] = "-" -> volume - 1 [] OTHER -> -1)
        /\ muted' \in {muted, FALSE} /\ Return(w, 250, <<volume', muted'>>)
  /\ UNCHANGED <<enabled, keys, pluginCall, questions, holds, current>>

RemoteMethod(w) ==
  \/ CallPlugin(w) \/ SetEnabled(w) \/ RemoteStatus(w) \/ HitKey(w) \/ HitKeys(w)
  \/ AskTest(w) \/ AskOpen(w) \/ AskCall(w)
  \/ SwitchLocks(w) \/ Zap(w) \/ GetVolume(w) \/ SetVolume(w)

RemoteVdr == VdrOpensMenu \/ (\E item \in {0, 1} : Selects(item)) \/ Closes

\* A question that was accepted gets its answer: it is open until VDR shows it,
\* and then until it is answered, once.  Left out: questions asked at the same
\* time, of which each passes the test before the other is open (remote.c:231),
\* and a refused one whose menu an earlier call had VDR show (remote.c:262).
QuestionAnswered ==
  raced = 0 =>
    /\ \A q \in accepted : answers[q] = <<>> => menu = q /\ (shown = q \/ pluginCall = "dbus2vdr")
    /\ \A q \in 1..asked : Len(answers[q]) <= 1
=============================================================================
