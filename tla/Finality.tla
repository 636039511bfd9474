------------------------------ MODULE Finality ------------------------------
(***************************************************************************)
(* Reliable submission: SubmitTxBlobAndWaitContext of the websocket and rpc *)
(* clients and the polling loop they share, WaitForFinality                 *)
(* (xrpl/internal/client/finality.go).  The ledger is the environment: it   *)
(* closes one ledger after another and may include a transaction it was     *)
(* given in any of them up to LastLedgerSequence.  Each query of a round is  *)
(* answered by some server of a pool, which may trail the validated chain;  *)
(* queries can fail at any time, and the caller can cancel at any time.     *)
(***************************************************************************)
EXTENDS Naturals

CONSTANTS MaxLedger,            \* bound: the last ledger the network closes
          LastLedgerSequence,   \* of the transaction
          MaxAttempts,          \* cfg.MaxAttempts
          LedgerLag,            \* ledgers by which the server that says what is validated may trail
          LookupLag             \* ledgers by which the server that looks the transaction up may trail

ASSUME FinalityAssumption ==
    /\ MaxLedger \in Nat /\ LastLedgerSequence \in Nat /\ MaxAttempts \in Nat
    /\ LedgerLag \in Nat /\ LookupLag \in {0, 1}

VARIABLES
    tip,         \* the newest validated ledger
    included,    \* the validated ledger that holds the transaction, or 0
    submission,  \* whether the transaction was sent, and has arrived: it may arrive late
    cancelled,   \* the caller's context is done
    pc,          \* where the client is
    ledger,      \* validatedLedger of the current round
    status,      \* what the round's lookup said
    rounds,      \* incompleteRounds
    result       \* what the caller was told, or "none"

chain == <<tip, included, submission>>
round == <<ledger, status, rounds>>
vars == <<tip, included, submission, cancelled, pc, ledger, status, rounds, result>>

Statuses == {"unknown", "notFound", "pending", "validated", "validatedNil"}
Results == {"none", "invalid", "rejected", "submitError", "cancelled",
            "transport", "expired", "validated"}

TypeOK ==
    /\ tip \in 1..MaxLedger /\ included \in 0..MaxLedger
    /\ submission \in {"unsent", "sent", "arrived"} /\ cancelled \in BOOLEAN
    /\ pc \in {"start", "submit", "wait", "waiting", "ledger", "lookup", "check", "decide", "done"}
    /\ ledger \in 0..MaxLedger
    /\ status \in Statuses
    /\ rounds \in 0..MaxAttempts
    /\ result \in Results

Init ==
    /\ tip \in 1..MaxLedger /\ included = 0 /\ submission = "unsent" /\ cancelled = FALSE
    /\ pc = "start" /\ ledger = 0 /\ status = "unknown" /\ rounds = 0
    /\ result = "none"

Goto(label) == pc' = label /\ UNCHANGED result
Return(r) == pc' = "done" /\ result' = r

-----------------------------------------------------------------------------
(* The environment: a ledger is validated, with the transaction or without. *)
CloseLedger(with) ==
    /\ tip < MaxLedger
    /\ tip' = tip + 1
    /\ with => submission = "arrived" /\ included = 0 /\ tip + 1 <= LastLedgerSequence
    /\ included' = IF with THEN tip + 1 ELSE included
    /\ UNCHANGED <<submission, cancelled, pc, round, result>>

(* What was sent reaches the network, perhaps long after its sender gave up.  *)
Arrive ==
    /\ submission = "sent"
    /\ submission' = "arrived"
    /\ UNCHANGED <<tip, included, cancelled, pc, round, result>>

Cancel ==
    /\ ~cancelled
    /\ cancelled' = TRUE
    /\ UNCHANGED <<chain, pc, round, result>>

-----------------------------------------------------------------------------
(* The checks before anything is sent.                                     *)
ValidMonitoring == MaxAttempts > 0
ValidLastLedgerSequence == LastLedgerSequence # 0

Start ==
    /\ pc = "start"
    /\ \/ cancelled /\ Return("cancelled")
       \/ Return("invalid")
       \/ ValidMonitoring /\ ValidLastLedgerSequence /\ Goto("submit")
    /\ UNCHANGED <<chain, cancelled, round>>

(* The transaction leaves the client, once or, after a 503, several times.   *)
Send ==
    /\ pc = "submit" /\ submission = "unsent"
    /\ submission' = "sent"
    /\ UNCHANGED <<tip, included, cancelled, pc, round, result>>

(* The submission ends.  A transport error or an answer without a result may *)
(* hide a submission that did arrive.                                       *)
Submit ==
    /\ pc = "submit"
    /\ \/ submission # "unsent" /\ Goto("wait")
       \/ submission # "unsent" /\ Return("rejected")
       \/ cancelled /\ Return("cancelled")
       \/ Return("submitError")
    /\ UNCHANGED <<chain, cancelled, round>>

-----------------------------------------------------------------------------
(* WaitForFinality.                                                        *)

(* incompleteRound, then continue.                                         *)
Incomplete ==
    /\ rounds' = IF cancelled THEN rounds ELSE rounds + 1
    /\ IF cancelled THEN Return("cancelled")
       ELSE IF rounds + 1 >= MaxAttempts THEN Return("transport")
       ELSE Goto("wait")

(* Wait: the context is checked first; when it ends while the timer fires,  *)
(* select may pick either.                                                  *)
StartWait ==
    /\ pc = "wait"
    /\ IF cancelled THEN Return("cancelled") ELSE Goto("waiting")
    /\ UNCHANGED <<chain, cancelled, round>>

Wait ==
    /\ pc = "waiting"
    /\ \/ cancelled /\ Return("cancelled")
       \/ Goto("ledger")
    /\ UNCHANGED <<chain, cancelled, round>>

(* The heights of servers that trail the chain by at most lag.               *)
Behind(lag) == {h \in 1..tip : h + lag >= tip}

GetValidatedLedger ==
    /\ pc = "ledger"
    /\ \/ ledger' \in Behind(LedgerLag) /\ Goto("lookup") /\ UNCHANGED <<status, rounds>>
       \/ Incomplete /\ UNCHANGED <<ledger, status>>
    /\ UNCHANGED <<chain, cancelled>>

(* What a server of that height answers: a transaction it has validated is   *)
(* reported so; any other is unknown to it (txnNotFound) or not validated.   *)
Answers(height) ==
    IF included # 0 /\ included <= height THEN {"validated", "validatedNil"}
    ELSE IF submission = "arrived" THEN {"notFound", "pending"} ELSE {"notFound"}

(* Variant: a failed lookup counts as an inconclusive one.                  *)
LookupErrorIsNotFound ==
    /\ pc = "lookup"
    /\ \E height \in Behind(LookupLag) : status' \in Answers(height) \cup {"notFound"}
    /\ Goto("check")
    /\ UNCHANGED <<chain, cancelled, ledger, rounds>>

LookupTransaction ==
    /\ pc = "lookup"
    /\ \/ /\ \E height \in Behind(LookupLag) : status' \in Answers(height)
          /\ Goto("check") /\ UNCHANGED <<ledger, rounds>>
       \/ Incomplete /\ UNCHANGED <<ledger, status>>
    /\ UNCHANGED <<chain, cancelled>>

(* Variant: a cancelled lookup is an incomplete round like any other.       *)
CheckContextCounts ==
    /\ pc = "check"
    /\ IF cancelled THEN Return("transport") ELSE Goto("decide")
    /\ UNCHANGED <<chain, cancelled, round>>

CheckContext ==
    /\ pc = "check"
    /\ IF cancelled THEN Return("cancelled") ELSE Goto("decide")
    /\ UNCHANGED <<chain, cancelled, round>>

Passed == ledger > LastLedgerSequence

(* A validated answer, an answer without its body, expiry, or one more      *)
(* complete round.                                                          *)
DecideRound ==
    /\ pc = "decide"
    /\ \/ status = "validated" /\ Return("validated") /\ UNCHANGED rounds
       \/ status = "validatedNil" /\ Incomplete
       \/ status \in {"notFound", "pending"} /\ Passed /\ Return("expired") /\ UNCHANGED rounds
       \/ status \in {"notFound", "pending"} /\ ~Passed /\ rounds' = 0 /\ Goto("wait")
    /\ UNCHANGED <<chain, cancelled, ledger, status>>

ClientStep ==
    \/ Start \/ Send \/ Submit \/ StartWait \/ Wait \/ GetValidatedLedger
    \/ LookupTransaction \/ CheckContext \/ DecideRound

Next == ClientStep \/ Cancel \/ Arrive \/ \E with \in BOOLEAN : CloseLedger(with)

Spec == Init /\ [][Next]_vars

(* The client runs and the network keeps validating ledgers; nothing is     *)
(* assumed of the queries.                                                  *)
FairSpec == Spec /\ WF_vars(ClientStep) /\ WF_vars(\E with \in BOOLEAN : CloseLedger(with))

-----------------------------------------------------------------------------
(* A transaction reported as expired is not validated and never will be:    *)
(* the caller may safely build a replacement.  "The final lookup reduces a  *)
(* race with lagging read backends": it may trail by one ledger, and what   *)
(* the client takes for the validated ledger by any number.                 *)
ExpiredNeverValidated == result = "expired" => included = 0 /\ tip > LastLedgerSequence

(* Finality implements Outcome.                                             *)
Fate == IF included # 0 THEN "validated"
        ELSE IF tip > LastLedgerSequence THEN "passed" ELSE "open"
Verdict == IF result \in {"none", "validated", "expired"} THEN result ELSE "gaveUp"

OutcomeView == INSTANCE Outcome WITH fate <- Fate, verdict <- Verdict
ImplementsOutcome == OutcomeView!OutcomeSpec

(* A context that is done before a round's last check is reported as such,  *)
(* "never as a transaction failure or expiry".                              *)
CancellationReported ==
    (cancelled /\ pc \in {"wait", "waiting", "ledger", "lookup", "check"}) ~> result = "cancelled"

=============================================================================
