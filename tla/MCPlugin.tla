------------------------------ MODULE MCPlugin ------------------------------
(***************************************************************************)
(* Plugin for TLC: started with few options at a time, so that what does   *)
(* not interact is not multiplied.                                         *)
(***************************************************************************)
EXTENDS Plugin

MCOptions ==
  {{"mainloop", "system", "trouble", "again", "commands"},
   {"session", "commands"},
   {"network", "avahi4vdr", "trouble", "changes"},
   {"mainloop", "network", "avahi4vdr", "events"},
   {"mainloop", "system", "session", "nulldevice", "force", "calls", "trouble", "again"}}
MCAddresses == {0, 1, 2}
MCDevices == {0, 1, 2}
=============================================================================
