--------------------------- MODULE MCHistoryFill ---------------------------
(* A backup that lists c1, a handshake from d1, a message of c1 and one that claims
   to be from d1 and is not; a tick later a second backup and another message of c1. *)
EXTENDS HistoryFill

CONSTANTS c1, d1

MCRows == 1..6
MCLaneOf == <<"own", "addr", c1, d1, "own", c1>>
MCTimeOf == <<0, 0, 0, 0, 1, 1>>
MCAbout == <<{c1}, {d1}, {c1}, {d1}, {c1}, {c1}>>

===========================================================================
