---------------------------- MODULE MCConnection ----------------------------
(***************************************************************************)
(* Connection for TLC: the connections that the plugin makes.              *)
(***************************************************************************)
EXTENDS Connection

System  == {"address", "busname", "reconnect"}
Session == {"address", "busname"}
Client  == {"address"}
\* Made from a bus type: the constructor that no caller uses at present.
Typed   == {"busname", "reconnect"}

AllProfiles == {System, Session, Client, Typed}
PluginProfiles == {System, Session}
OnlySystem  == {System}
OnlySession == {Session}
=============================================================================
