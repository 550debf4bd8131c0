------------------------------- MODULE MCWalk -------------------------------
(* The instance of Walk that TLC checks: its bounds are in Walk.cfg. *)
EXTENDS Walk
=============================================================================
