-------------------------- MODULE MCLaneSupervisor --------------------------
(* LaneSupervisor with two calls at a time. *)
EXTENDS LaneSupervisor
=============================================================================
