-------------------------------- MODULE Desk --------------------------------
(***************************************************************************)
(* The small interfaces: "skin" (skin.c), "plugin" (plugin.c) and "device" *)
(* (device.c), with the null device (nulldevice.c), which VDR's user sees  *)
(* on one screen and none of which has a lock.                             *)
(***************************************************************************)
EXTENDS Status

CONSTANTS
  Skins,     \* names of skins
  Plugins,   \* names of loaded plugins; the others are not
  MaxMessages \* bound: messages that wait

ASSUME DeskAssumption == Skins # {} /\ MaxMessages \in Nat

VARIABLES
  skin,      \* Skins.Current
  messages,  \* how many messages are queued
  served,    \* how often a plugin did what it was asked for
  primaryNull, \* the null device is the primary one
  requested  \* the request for the primary device

deskVars == <<skin, messages, served, primaryNull, requested>>

\* What a plugin is asked for: what it does, or what it does not understand.
DeskCalls ==
  [method : {"Skin.CurrentSkin", "Skin.ListSkins", "Plugins.List", "Devices.GetPrimary", "Devices.GetNullDevice", "Devices.List"},
   arg : {<<>>}] \union
  [method : {"Skin.SetSkin"}, arg : Skins \union {"", "unknown"}] \union
  [method : {"Skin.QueueMessage"}, arg : {"", "text"}] \union
  [method : {"Plugins.SVDRPCommand", "Plugins.Service"},
   arg : (Plugins \union {"unknown"}) \X {"done", "not understood"}] \union
  [method : {"Devices.RequestPrimary"}, arg : {"null", "other", "none"}]

DeskInit ==
  /\ skin = (CHOOSE s \in Skins : TRUE) /\ messages = 0 /\ served = 0
  /\ primaryNull = FALSE /\ requested = "none"

Aside == UNCHANGED <<holds, statusVars>>

-----------------------------------------------------------------------------
SetSkin(w) ==
  /\ Runs(w, "Skin.SetSkin")
  /\ \/ call[w].arg = "" /\ UNCHANGED skin /\ SendReply(w, 501)
     \/ call[w].arg \in Skins \ {""} /\ skin' = call[w].arg /\ SendReply(w, 900)
     \/ call[w].arg \notin Skins \union {""} /\ UNCHANGED skin /\ SendReply(w, 550)
  /\ UNCHANGED <<messages, served, primaryNull, requested>> /\ Aside

QueueMessage(w) ==
  /\ Runs(w, "Skin.QueueMessage")
  /\ IF call[w].arg = "" THEN UNCHANGED messages /\ SendReply(w, 501)
     ELSE messages' = (IF messages < MaxMessages THEN messages + 1 ELSE messages) /\ SendReply(w, 250)
  /\ UNCHANGED <<skin, served, primaryNull, requested>> /\ Aside

\* The methods that only look.
Sees(w, m, code, value) == Runs(w, m) /\ Return(w, code, value) /\ UNCHANGED deskVars /\ Aside

LooksAtSkins(w) == Sees(w, "Skin.CurrentSkin", 900, skin) \/ Sees(w, "Skin.ListSkins", 900, Skins)

LooksAtPlugins(w) == Sees(w, "Plugins.List", 0, Plugins)

LooksAtDevices(w) ==
  \/ Sees(w, "Devices.GetPrimary", 0, primaryNull)
  \/ Sees(w, "Devices.GetNullDevice", 0, "null")
  \/ Sees(w, "Devices.List", 0, primaryNull)

\* The codes that plugins give with a text; with 550 they say that it is not done.
PluginCodes == {900, 250, 550}

\* A plugin's code is passed on with its text.  Without a text, as for what it
\* does not understand, the answer is 500, whatever its code.
SVDRPCommand(w) ==
  /\ Runs(w, "Plugins.SVDRPCommand")
  /\ IF call[w].arg[1] \in Plugins /\ call[w].arg[2] = "done"
     THEN \E code \in PluginCodes :
            served' = (IF code = 550 THEN served ELSE (served + 1) % 2) /\ SendReply(w, code)
     ELSE UNCHANGED served /\ SendReply(w, 500)
  /\ UNCHANGED <<skin, messages, primaryNull, requested>> /\ Aside

Service(w) ==
  /\ Runs(w, "Plugins.Service")
  /\ IF call[w].arg[1] \in Plugins /\ call[w].arg[2] = "done"
     THEN served' = (served + 1) % 2 /\ Return(w, 0, TRUE)
     ELSE UNCHANGED served /\ Return(w, 0, FALSE)
  /\ UNCHANGED <<skin, messages, primaryNull, requested>> /\ Aside

\* A negative index takes the request back that waits.
RequestPrimary(w) ==
  /\ Runs(w, "Devices.RequestPrimary") /\ requested' = call[w].arg /\ Return(w, 0, <<>>)
  /\ UNCHANGED <<skin, messages, served, primaryNull>> /\ Aside

DeskMethod(w) ==
  \/ SetSkin(w) \/ QueueMessage(w) \/ SVDRPCommand(w) \/ Service(w) \/ RequestPrimary(w)
  \/ LooksAtSkins(w) \/ LooksAtPlugins(w) \/ LooksAtDevices(w)

-----------------------------------------------------------------------------
(***************************************************************************)
(* VDR's main thread.                                                      *)
(***************************************************************************)

\* cNullControl::Player, which lives as long as its control.
Player == control = "null"

\* MakePrimaryDevice of the null device, on and off: it plays nothing, which
\* ends what was replayed, unless it does already.
MakePrimaryDevice(on) ==
  /\ primaryNull' = on
  /\ IF on = Player THEN UNCHANGED statusVars ELSE Controls(IF on THEN "null" ELSE "none")

\* What is replayed ends first, so that MakePrimaryDevice meets no player.
MainThreadHook ==
  /\ requested # "none" /\ requested' = "none"
  /\ LET on == requested = "null" IN primaryNull' = on /\ Controls(IF on THEN "null" ELSE "none")
  /\ UNCHANGED <<skin, messages, served, poolVars>>

\* VDR's user takes another device.
VdrTakesDevice ==
  /\ MakePrimaryDevice(~primaryNull)
  /\ UNCHANGED <<skin, messages, served, requested, poolVars>>

VdrShowsMessage ==
  /\ messages > 0 /\ messages' = messages - 1
  /\ UNCHANGED <<skin, served, primaryNull, requested, statusVars, poolVars>>
=============================================================================
