------------------------------- MODULE MCOsd -------------------------------
(***************************************************************************)
(* Osd for TLC.                                                            *)
(***************************************************************************)
EXTENDS Osd
=============================================================================
