----------------------------- MODULE MCWSClient -----------------------------
(* Instances of WSClient; every run names its bounds in its configuration. *)
EXTENDS WSClient, TLC

Symmetry == Permutations(Sockets) \cup Permutations(Requests)
=============================================================================
