----------------------------- MODULE Submission -----------------------------
(***************************************************************************)
(* SubmitTxAndWaitContext and SubmitTxBlobAndWaitContext of the rpc and     *)
(* websocket clients, from the transaction the caller has to the polling of *)
(* Finality: preparing and signing it, the checks of a signed blob, and the *)
(* submit request with its retries.  A request may reach the network        *)
(* whatever becomes of its answer, and it may do so late.                   *)
(***************************************************************************)
EXTENDS Finality

CONSTANTS MaxSends   \* maxAttempts of rpc requests; a websocket request is sent once

ASSUME SubmissionAssumption ==
    /\ MaxSends \in Nat \ {0}
    /\ LastLedgerSequence # 0 /\ MaxAttempts # 0

VARIABLES
    tx,          \* the transaction's signing fields, forgotten once it is sent
    malformed,   \* the engine finds the transaction malformed, whatever it is sent as
    retries,     \* whether the transport retries when the server is overloaded
    sends        \* attempts of the submit request

preparation == <<tx, malformed, retries, sends>>
submissionVars == <<vars, preparation>>

Transactions ==
    [key : {"absent", "empty", "set"}, signature : {"absent", "empty", "set"},
     signers : {"absent", "partial", "complete"},
     innerFlag : BOOLEAN,
     inners : {"none", "canonical", "unflagged", "signed"},   \* of a Batch; "none" is any other type
     last : {"absent", "zero", "given"}]                      \* LastLedgerSequence
Sent == [sent |-> TRUE]

SubmissionInit ==
    /\ Init
    /\ tx \in Transactions /\ malformed \in BOOLEAN /\ retries \in BOOLEAN
    /\ sends = 0

-----------------------------------------------------------------------------
(* InspectSignedTransaction and InspectSignedBatchInners.                   *)
Form(t, allowInnerBatch) ==
    IF t.innerFlag
    THEN IF allowInnerBatch /\ t.key = "empty" /\ t.signature = "absent" /\ t.signers = "absent"
         THEN "inner" ELSE "invalid"
    ELSE IF t.signers # "absent"
    THEN IF t.signature = "absent" /\ t.key = "empty" /\ t.signers = "complete"
         THEN "multisigned" ELSE "invalid"
    ELSE IF t.key = "absent" /\ t.signature = "absent" THEN "unsigned"
    ELSE IF t.key = "set" /\ t.signature = "set" THEN "signed" ELSE "invalid"

InnerForm(inners) ==
    Form([key |-> "empty", signature |-> IF inners = "signed" THEN "set" ELSE "absent",
          signers |-> "absent", innerFlag |-> inners # "unflagged"], TRUE)

Submittable(t) ==
    /\ Form(t, FALSE) \in {"signed", "multisigned"}
    /\ t.inners = "none" \/ InnerForm(t.inners) = "inner"

-----------------------------------------------------------------------------
(* The client, up to the first attempt.  Until then every error is called   *)
(* invalid: nothing was submitted.                                          *)
Call ==
    /\ pc = "start"
    /\ IF cancelled THEN Return("cancelled")
       ELSE IF ~ValidMonitoring THEN Return("invalid")
       ELSE Goto("prepare") \/ Goto("blob")
    /\ UNCHANGED <<chain, cancelled, round, preparation>>

(* getSignedTx: a transaction that is signed already is encoded as it is.   *)
Prepare ==
    /\ pc = "prepare"
    /\ \/ cancelled /\ Return("cancelled")
       \/ ~cancelled /\ Return("invalid")   \* its amounts, its encoding, no wallet
       \/ ~cancelled /\ Form(tx, FALSE) = "unsigned" /\ Goto("autofill")
       \/ ~cancelled /\ Form(tx, FALSE) \in {"signed", "multisigned"} /\ Goto("prepared")
    /\ UNCHANGED <<chain, cancelled, round, preparation>>

(* autofill and its queries, or the network identity alone.  Only a missing *)
(* LastLedgerSequence is filled in.                                         *)
Autofill ==
    /\ pc = "autofill"
    /\ \/ /\ Goto("sign")
          /\ tx' = [tx EXCEPT !.last = IF @ = "absent" THEN "given" ELSE @]
       \/ Goto("sign") /\ UNCHANGED tx
       \/ Return("invalid") /\ UNCHANGED tx
       \/ cancelled /\ Return("cancelled") /\ UNCHANGED tx
    /\ UNCHANGED <<chain, cancelled, round, malformed, retries, sends>>

Sign ==
    /\ pc = "sign"
    /\ \/ cancelled /\ Return("cancelled") /\ UNCHANGED tx
       \/ ~cancelled /\ Return("invalid") /\ UNCHANGED tx
       \/ /\ ~cancelled /\ Goto("prepared")
          /\ tx' = [tx EXCEPT !.key = "set", !.signature = "set"]
    /\ UNCHANGED <<chain, cancelled, round, malformed, retries, sends>>

Prepared ==
    /\ pc = "prepared"
    /\ IF cancelled THEN Return("cancelled") ELSE Goto("blob")
    /\ UNCHANGED <<chain, cancelled, round, preparation>>

(* Variant: LastLedgerSequence is only looked at when the wait begins.      *)
CheckBlobLate ==
    /\ pc = "blob"
    /\ \/ Return("invalid")
       \/ Submittable(tx) /\ Goto("request")
    /\ UNCHANGED <<chain, cancelled, round, preparation>>

(* submitTxBlobAndWait up to the request.                                   *)
CheckBlob ==
    /\ pc = "blob"
    /\ \/ Return("invalid")
       \/ tx.last = "given" /\ Submittable(tx) /\ Goto("request")
    /\ UNCHANGED <<chain, cancelled, round, preparation>>

Request ==
    /\ pc = "request"
    /\ \/ cancelled /\ Return("cancelled")
       \/ Return("invalid")    \* an address that may not carry credentials
       \/ ~cancelled /\ Goto("attempt")
    /\ UNCHANGED <<chain, cancelled, round, preparation>>

-----------------------------------------------------------------------------
(* The attempts of the submit request.                                      *)
RequestFails == IF cancelled THEN Return("cancelled") ELSE Return("submitError")

(* Variant: a request that could not be made is taken for one whose answer  *)
(* was lost.                                                                *)
AttemptUnchecked ==
    /\ pc = "attempt"
    /\ \/ /\ ~cancelled /\ Goto("answer")
          /\ submission' = IF submission = "unsent" THEN "sent" ELSE submission
          /\ tx' = Sent
       \/ Goto("wait") /\ UNCHANGED <<submission, tx>>
    /\ sends' = sends + 1
    /\ UNCHANGED <<tip, included, cancelled, round, malformed, retries>>

Attempt ==
    /\ pc = "attempt"
    /\ \/ /\ ~cancelled /\ Goto("answer")
          /\ submission' = IF submission = "unsent" THEN "sent" ELSE submission
          /\ tx' = Sent
       \/ RequestFails /\ UNCHANGED <<submission, tx>>
    /\ sends' = sends + 1
    /\ UNCHANGED <<tip, included, cancelled, round, malformed, retries>>

(* The connection breaks, the attempt times out, or what comes back is not  *)
(* a result or names no engine result.                                      *)
AnswerFails ==
    /\ pc = "answer"
    /\ RequestFails
    /\ UNCHANGED <<chain, cancelled, round, preparation>>

(* Variant: an overloaded server is asked until it is not.                  *)
OverloadedForever ==
    /\ pc = "answer" /\ retries
    /\ Goto("backoff")
    /\ sends' = 1
    /\ UNCHANGED <<chain, cancelled, round, tx, malformed, retries>>

(* 503, from the server or from a proxy behind which it got the transaction. *)
Overloaded ==
    /\ pc = "answer" /\ retries
    /\ IF sends = MaxSends THEN Return("submitError") ELSE Goto("backoff")
    /\ UNCHANGED <<chain, cancelled, round, preparation>>

(* Wait: the timer and the context may both be ready.                       *)
Backoff ==
    /\ pc = "backoff"
    /\ \/ cancelled /\ Return("cancelled")
       \/ Goto("attempt")
    /\ UNCHANGED <<chain, cancelled, round, preparation>>

(* What the engine says of a transaction that arrived: anything but tem, and *)
(* of one it has applied after an earlier attempt, tef.                     *)
EngineResults == IF malformed THEN {"tem"} ELSE {"tef", "other"}

(* Variant: every failure ends the call.                                    *)
RejectedFamilies == {"tem", "tef"}

(* ValidatePreliminaryResult.                                               *)
Rejected == {"tem"}

Answered ==
    /\ pc = "answer" /\ submission = "arrived"
    /\ \E r \in EngineResults : IF r \in Rejected THEN Return("rejected") ELSE Goto("wait")
    /\ sends' = 0 /\ retries' = FALSE   \* forgotten
    /\ UNCHANGED <<chain, cancelled, round, tx, malformed>>

-----------------------------------------------------------------------------
Monitor ==
    /\ StartWait \/ Wait \/ GetValidatedLedger \/ LookupTransaction \/ CheckContext \/ DecideRound
    /\ UNCHANGED preparation

CallStep ==
    \/ Call \/ Prepare \/ Autofill \/ Sign \/ Prepared \/ CheckBlob \/ Request
    \/ Attempt \/ AnswerFails \/ Overloaded \/ Backoff \/ Answered \/ Monitor

(* No ledger holds a malformed transaction.                                 *)
LedgerCloses ==
    /\ \E with \in BOOLEAN : (with => ~malformed) /\ CloseLedger(with)
    /\ UNCHANGED preparation

SubmissionNext ==
    \/ CallStep \/ LedgerCloses
    \/ (Cancel \/ Arrive) /\ UNCHANGED preparation

SubmissionSpec == SubmissionInit /\ [][SubmissionNext]_submissionVars

(* As for Finality: the client runs, and ledgers keep being validated.      *)
FairSubmissionSpec ==
    /\ SubmissionSpec
    /\ WF_submissionVars(CallStep)
    /\ WF_submissionVars(LedgerCloses)

-----------------------------------------------------------------------------
(* What was sent can be monitored and can succeed: it expires, it carries   *)
(* signatures of exactly one kind, it is no inner transaction, and the inner *)
(* ones of a Batch are unsigned, whichever way the transaction came.        *)
SentIsMonitorable ==
    [][submission = "unsent" /\ submission' = "sent" =>
          /\ tx.last = "given" /\ ~tx.innerFlag
          /\ \/ tx.key = "set" /\ tx.signature = "set" /\ tx.signers = "absent"
             \/ tx.key = "empty" /\ tx.signature = "absent" /\ tx.signers = "complete"
          /\ tx.inners \in {"none", "canonical"}]_submissionVars

(* A transaction reported as rejected is in no ledger and never will be,     *)
(* although an earlier attempt of the same request may have been applied.   *)
RejectedNeverValidated == result = "rejected" => malformed /\ included = 0

(* The call is one of Finality, which only knows that something was sent.   *)
Before == {"prepare", "autofill", "sign", "prepared", "blob", "request"}
Submitting == {"attempt", "answer", "backoff"}
FinalityView == INSTANCE Finality
    WITH pc <- IF pc \in Before THEN "start" ELSE IF pc \in Submitting THEN "submit" ELSE pc
ImplementsFinality == FinalityView!Spec

(* Every call returns: the retries are bounded, and so is the monitoring.   *)
CallReturns == <>(pc = "done")

SubmissionTypeOK ==
    /\ FinalityView!TypeOK
    /\ pc \in {"start", "done", "wait", "waiting", "ledger", "lookup", "check", "decide"}
             \cup Before \cup Submitting
    /\ tx \in Transactions \cup {Sent}
    /\ malformed \in BOOLEAN /\ retries \in BOOLEAN
    /\ sends \in 0..MaxSends
=============================================================================
