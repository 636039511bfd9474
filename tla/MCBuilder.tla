----------------------------- MODULE MCBuilder -----------------------------
(* Two holders, batches of up to two confidential operations and three numbers. *)
EXTENDS Builder

Symmetry == Permutations(Accounts) \cup Permutations(Holders) \cup Permutations(Chains)
=============================================================================
