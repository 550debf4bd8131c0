------------------------------- MODULE MCKvLog -------------------------------
(* Instances of KvLog for TLC.                                              *)
EXTENDS KvLog

CONSTANTS k1, k2, v1, v2

(* A fresh install, a v1 file, a v1 file with frames appended past a tear,  *)
(* and a file a newer app wrote.                                            *)
FreshFiles == {Empty}
LegacyFiles ==
  {Empty,
   [hdr |-> "v1", frames |-> <<UpsertFrame(k1, v1)>>, tail |-> Clean],
   [hdr |-> "v1", frames |-> <<UpsertFrame(k1, v1)>>,
    tail |-> [kind |-> "rot", behind |-> <<UpsertFrame(k2, v1)>>]],
   [hdr |-> "newer", frames |-> << >>, tail |-> Clean]}
=============================================================================
