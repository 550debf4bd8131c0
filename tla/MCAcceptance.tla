---------------------------- MODULE MCAcceptance ----------------------------
(* A chain of two branches, a2 - a8 and b5: the sink may change branch twice.  *)
(* One transaction, on both branches, which is a send or a message.            *)
EXTENDS Acceptance, TLC
CONSTANTS g, a2, b5, a8, t1

MCBlocks == {g, a2, b5, a8}
MCChain == g :> {g} @@ a2 :> {g, a2} @@ b5 :> {g, b5} @@ a8 :> {g, a2, a8}
MCScore == g :> 1 @@ a2 :> 2 @@ b5 :> 5 @@ a8 :> 8
MCAccepts == g :> {} @@ a2 :> {t1} @@ b5 :> {t1} @@ a8 :> {}
OneFault == 0 :> 1 @@ 1 :> 0
=============================================================================
