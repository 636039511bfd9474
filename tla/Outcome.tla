------------------------------- MODULE Outcome -------------------------------
(***************************************************************************)
(* What a caller of SubmitTxBlobAndWait may rely on.  The ledger decides    *)
(* the transaction's fate once: it is validated, or its LastLedgerSequence  *)
(* passes without it, perhaps before it was submitted.  The verdict is      *)
(* given once and agrees with that fate; a client that gives up (cancelled, *)
(* out of attempts, rejected) commits itself to nothing.                    *)
(***************************************************************************)
VARIABLES fate, verdict

outcomeVars == <<fate, verdict>>

OutcomeInit == fate \in {"open", "passed"} /\ verdict = "none"

Decide(f) == fate = "open" /\ fate' = f /\ UNCHANGED verdict

Conclude(v) ==
    /\ verdict = "none"
    /\ v = "validated" => fate = "validated"
    /\ v = "expired" => fate = "passed"
    /\ verdict' = v
    /\ UNCHANGED fate

OutcomeNext ==
    \/ \E f \in {"validated", "passed"} : Decide(f)
    \/ \E v \in {"validated", "expired", "gaveUp"} : Conclude(v)

OutcomeSpec == OutcomeInit /\ [][OutcomeNext]_outcomeVars
=============================================================================
