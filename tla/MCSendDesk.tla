---------------------------- MODULE MCSendDesk ----------------------------
(* Instances of the send desk for TLC. *)
EXTENDS SendDesk

CONSTANT messages

OneWalk == {messages}
BothStashes == {"payment", "transport"}
=============================================================================
