------------------------------ MODULE MCVault ------------------------------
(* Instances of the vault session for TLC. *)
EXTENDS Vault, TLC

CONSTANTS c1, c2, word, digits, runs, w1, w2

Threads == Permutations({c1, c2})
Wallets == Permutations({w1, w2})
Symmetric == Threads \cup Wallets
=============================================================================
