---------------------------- MODULE MCSA_PlugIn ----------------------------
(* The plug-in with IDs that are pairs of a device and a name. *)
EXTENDS SA_PlugIn

MCID == Object \X (Part \cup {Device})
=============================================================================
