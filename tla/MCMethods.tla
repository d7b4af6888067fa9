----------------------------- MODULE MCMethods -----------------------------
(***************************************************************************)
(* The methods in groups that meet: each group with its own bound on the   *)
(* calls, and with what VDR does meanwhile.                                *)
(***************************************************************************)
EXTENDS Methods

CONSTANTS w1, w2, r1, r2, d1

MCChannelList == <<0, 1, 3>>

Group(methods, n, vdr) == [methods |-> methods, calls |-> n, vdr |-> vdr]

MCOffers == {
  Group({"Remote.AskUser", "Remote.CallPlugin"}, 3, {}),
  Group({"Remote.Enable", "Remote.Disable", "Remote.Status", "Remote.HitKey", "Remote.HitKeys",
         "Remote.GetVolume", "Remote.SetVolume"}, 2, {}),
  Group({"Remote.SwitchChannel", "Channels.Count", "Channels.Current", "Channels.GetFromTo",
         "Channels.List"}, 2, {"channels"}),
  Group({"Setup.Set", "Setup.Del"}, 2, {"sets"}),
  Group({"Setup.Get", "Setup.List", "Unknown.Method"}, 2, {}),
  Group({"Timers.New", "Timers.Delete", "Timers.List", "Timers.ListDetailed", "Timers.Next"}, 2,
        {"timers", "records"}),
  Group({"Recordings.Play", "Status.IsReplaying"}, 1, {"replays", "session"}),
  Group({"Recordings.Play", "Recordings.ChangeName", "Devices.RequestPrimary"}, 2, {}),
  Group({"Recordings.Get", "Recordings.List", "Recordings.Update", "Recordings.ChangeName"}, 2,
        {"recordings"}),
  Group({"Recordings.ListExtra", "Recordings.AddExtra", "Recordings.ClearExtra",
         "Recordings.DeleteExtra", "Epg.DisableScanner", "Epg.EnableScanner", "Status.IsReplaying"}, 2, {"tells"}),
  Group({"Epg.ClearEPG", "Epg.PutEntry", "Epg.PutFile",
         "Epg.Now", "Epg.Next", "Epg.At"}, 2, {"channels", "schedules"}),
  Group({"Skin.CurrentSkin", "Skin.ListSkins", "Skin.SetSkin", "Skin.QueueMessage", "Plugins.List",
         "Plugins.SVDRPCommand", "Plugins.Service", "Devices.GetPrimary", "Devices.GetNullDevice",
         "Devices.List", "Devices.RequestPrimary"}, 2, {"devices"}) }
=============================================================================
