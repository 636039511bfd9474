---------------------------- MODULE MCSubmission ----------------------------
(* The last ledger a transaction may be in is in the middle of the chain:  *)
(* it can be included early, at the last moment, or not at all, and the     *)
(* chain runs on past it.                                                   *)
EXTENDS Submission
=============================================================================
