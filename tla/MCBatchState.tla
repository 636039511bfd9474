---------------------------- MODULE MCBatchState ----------------------------
(* Two holders that can send to each other, with one key each or the same;  *)
(* amounts up to three, so that an amount can be split; versions that wrap. *)
EXTENDS BatchState, TLC

Symmetry == Permutations(Holders) \cup Permutations(HolderKeys)
=============================================================================
