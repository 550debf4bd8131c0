---------------------------- MODULE MCWalletLane ----------------------------
(* Small instances of WalletLane: submits and a coin as model values. *)
EXTENDS WalletLane

CONSTANTS s1, c1

OneSubmit == {s1}
OneCoin == {c1}

===========================================================================
