------------------------------ MODULE MCConsensus ------------------------------
(* Small instances of Consensus.  Wallets are interchangeable. *)
EXTENDS Consensus, TLC

Symmetry == Permutations(Wallets) \union Permutations(Keys)
================================================================================
