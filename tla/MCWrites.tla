------------------------------ MODULE MCWrites ------------------------------
(* Two writers, one with a watcher, and two callers that connect, disconnect,*)
(* read and report failures meanwhile.  The second socket is the one that   *)
(* replaces the first under a write.  No symmetry: the run checks liveness. *)
EXTENDS Writes, TLC

CONSTANTS w1, w2, v1, g1, g2

MCWriters == {w1, w2}
MCBounded == {w1}
MCCallers == {w1, w2, v1, g1, g2}
MCWatcher == w1 :> v1
=============================================================================
