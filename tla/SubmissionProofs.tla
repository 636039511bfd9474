-------------------------- MODULE SubmissionProofs --------------------------
(* Proofs about Finality and Submission, for every transaction, chain        *)
(* length, LastLedgerSequence and number of attempts and retries.           *)
EXTENDS Submission, TLAPS

-----------------------------------------------------------------------------
(* The polling loop, on its own.                                            *)

(* The environment's part of the invariant: the transaction is only ever    *)
(* in a validated ledger that LastLedgerSequence allows.                    *)
ChainInv ==
    /\ tip \in Nat /\ included \in Nat /\ ledger \in Nat
    /\ included # 0 => included <= LastLedgerSequence /\ included <= tip

(* The client's part: what it knows of a round stays true while the ledger  *)
(* moves on.  A ledger number read earlier is a lower bound of the tip, an  *)
(* inconclusive lookup made after it, by a server at most one ledger behind, *)
(* rules out every ledger up to LastLedgerSequence once that bound has      *)
(* passed it, and a positive lookup is never taken back.                    *)
RoundInv ==
    /\ ledger <= tip
    /\ pc \in {"check", "decide"} /\ status \in {"notFound", "pending"}
          /\ ledger > LastLedgerSequence => included = 0
    /\ pc \in {"check", "decide"} /\ status = "validated" => included # 0

ResultInv ==
    /\ result # "none" => pc = "done"
    /\ result = "validated" => included # 0
    /\ ExpiredNeverValidated

Inv == ChainInv /\ RoundInv /\ ResultInv

LEMMA InitInv == Init => Inv
BY FinalityAssumption DEF Init, Inv, ChainInv, RoundInv, ResultInv, ExpiredNeverValidated

(* Queries and decisions leave the chain alone, so only the round and the   *)
(* result need an argument; a closing ledger is the other way round.        *)
LEMMA StepInv == Inv /\ [Next]_vars => Inv'
<1> SUFFICES ASSUME Inv, [Next]_vars PROVE Inv'
    OBVIOUS
<1> USE FinalityAssumption DEF Inv, ChainInv, RoundInv, ResultInv, ExpiredNeverValidated,
        chain, round, Goto, Return
<1>1. CASE Start
  BY <1>1 DEF Start
<1>2. CASE Send \/ Submit
  BY <1>2 DEF Submit, Send
<1>3. CASE StartWait \/ Wait
  BY <1>3 DEF StartWait, Wait
<1>4. CASE GetValidatedLedger
  BY <1>4 DEF GetValidatedLedger, Incomplete, Behind
<1>5. CASE LookupTransaction
  <2>1. ASSUME NEW height \in Behind(LookupLag), status' \in Answers(height),
               Goto("check"), UNCHANGED <<ledger, rounds>>
        PROVE  Inv'
    <3>1. status' = "validated" => included # 0
      BY <2>1 DEF Answers
    <3>2. status' \in {"notFound", "pending"} => included = 0 \/ height < included
      BY <2>1 DEF Answers, Behind
    <3>3. height \in Nat /\ height + 1 >= tip
      BY <2>1 DEF Behind
    <3> QED BY <1>5, <2>1, <3>1, <3>2, <3>3 DEF LookupTransaction
  <2>2. CASE Incomplete /\ UNCHANGED <<ledger, status>>
    BY <1>5, <2>2 DEF LookupTransaction, Incomplete
  <2> QED BY <1>5, <2>1, <2>2 DEF LookupTransaction
<1>6. CASE CheckContext
  BY <1>6 DEF CheckContext
<1>7. CASE DecideRound
  BY <1>7 DEF DecideRound, Incomplete, Passed
<1>8. CASE Cancel \/ Arrive
  BY <1>8 DEF Cancel, Arrive
<1>9. ASSUME NEW with \in BOOLEAN, CloseLedger(with) PROVE Inv'
  BY <1>9 DEF CloseLedger
<1>10. CASE UNCHANGED vars
  BY <1>10 DEF vars
<1> QED BY <1>1, <1>2, <1>3, <1>4, <1>5, <1>6, <1>7, <1>8, <1>9, <1>10 DEF Next, ClientStep

LEMMA InvHolds == Spec => []Inv
BY InitInv, StepInv, PTL DEF Spec

(* The budget of incomplete rounds: while the client is polling, at least   *)
(* one more incomplete round is allowed.                                    *)
BudgetInv ==
    /\ pc = "start" => rounds = 0
    /\ pc \in {"submit", "wait", "waiting", "ledger", "lookup", "check", "decide"} => rounds < MaxAttempts

(* TypeOK in two parts: the two flags, and everything else.                 *)
FlagsType == submission \in {"unsent", "sent", "arrived"} /\ cancelled \in BOOLEAN
ClientType ==
    /\ tip \in 1..MaxLedger /\ included \in 0..MaxLedger
    /\ pc \in {"start", "submit", "wait", "waiting", "ledger", "lookup", "check", "decide", "done"}
    /\ ledger \in 0..MaxLedger
    /\ status \in Statuses
    /\ rounds \in 0..MaxAttempts
    /\ result \in Results

LEMMA FlagsHold == Spec => []FlagsType
<1>1. Init => FlagsType
  BY Zenon DEF Init, FlagsType
<1>2. FlagsType /\ [Next]_vars => FlagsType'
  <2>1. FlagsType /\ ClientStep => FlagsType'
    BY Zenon DEF FlagsType, chain, ClientStep, Start, Send, Submit, StartWait, Wait, GetValidatedLedger,
                 LookupTransaction, CheckContext, DecideRound
  <2>2. FlagsType /\ (Cancel \/ Arrive) => FlagsType'
    BY Zenon DEF FlagsType, chain, Cancel, Arrive
  <2>3. FlagsType /\ (\E with \in BOOLEAN : CloseLedger(with)) => FlagsType'
    BY Zenon DEF FlagsType, CloseLedger
  <2>4. FlagsType /\ UNCHANGED vars => FlagsType'
    BY Zenon DEF FlagsType, vars
  <2> QED BY <2>1, <2>2, <2>3, <2>4, Zenon DEF Next
<1> QED BY <1>1, <1>2, PTL DEF Spec

LEMMA ClientTypeHolds == Spec => [](ClientType /\ BudgetInv)
<1>1. Init => ClientType /\ BudgetInv
  BY FinalityAssumption DEF Init, ClientType, BudgetInv, Statuses, Results
<1>2. ClientType /\ BudgetInv /\ [Next]_vars => ClientType' /\ BudgetInv'
  <2> SUFFICES ASSUME ClientType, BudgetInv, [Next]_vars PROVE ClientType' /\ BudgetInv'
      OBVIOUS
  <2> USE FinalityAssumption DEF ClientType, BudgetInv, Statuses, Results, chain, round, Goto, Return
  <2>1. CASE Start
    BY <2>1 DEF Start, ValidMonitoring
  <2>2. CASE Send \/ Submit
    BY <2>2 DEF Send, Submit
  <2>3. CASE StartWait \/ Wait
    BY <2>3 DEF StartWait, Wait
  <2>4. CASE GetValidatedLedger
    BY <2>4 DEF GetValidatedLedger, Incomplete, Behind
  <2>5. CASE LookupTransaction
    BY <2>5 DEF LookupTransaction, Incomplete, Answers
  <2>6. CASE CheckContext
    BY <2>6 DEF CheckContext
  <2>7. CASE DecideRound
    BY <2>7 DEF DecideRound, Incomplete
  <2>8. CASE Cancel \/ Arrive
    BY <2>8 DEF Cancel, Arrive
  <2>9. ASSUME NEW with \in BOOLEAN, CloseLedger(with) PROVE ClientType' /\ BudgetInv'
    BY <2>9 DEF CloseLedger
  <2>10. CASE UNCHANGED vars
    BY <2>10 DEF vars
  <2> QED BY <2>1, <2>2, <2>3, <2>4, <2>5, <2>6, <2>7, <2>8, <2>9, <2>10 DEF Next, ClientStep
<1> QED BY <1>1, <1>2, PTL DEF Spec

(* Type correctness, the bound on incomplete rounds included.               *)
THEOREM TypeCorrect == Spec => []TypeOK
<1>1. FlagsType /\ ClientType => TypeOK
  BY Zenon DEF FlagsType, ClientType, TypeOK
<1> QED BY <1>1, FlagsHold, ClientTypeHolds, PTL

(* An expired transaction is not validated and never will be.              *)
THEOREM ExpirySound == Spec => []ExpiredNeverValidated
<1>1. Inv => ExpiredNeverValidated
  BY DEF Inv, ResultInv
<1> QED BY <1>1, InvHolds, PTL

-----------------------------------------------------------------------------
(* Finality implements Outcome: a closing ledger decides the fate at most   *)
(* once, and the client's one conclusion agrees with it.                    *)
LEMMA InitOutcome == Init => OutcomeView!OutcomeInit
BY FinalityAssumption DEF Init, OutcomeView!OutcomeInit, Fate, Verdict

LEMMA StepOutcome == Inv /\ [Next]_vars => [OutcomeView!OutcomeNext]_(OutcomeView!outcomeVars)
<1> SUFFICES ASSUME Inv, [Next]_vars PROVE [OutcomeView!OutcomeNext]_(OutcomeView!outcomeVars)
    OBVIOUS
<1> USE DEF OutcomeView!outcomeVars, chain, Goto
<1>1. ASSUME ClientStep PROVE UNCHANGED Fate /\ (UNCHANGED result \/ result = "none")
  <2>1. UNCHANGED <<tip, included>>
    BY <1>1 DEF ClientStep, Start, Send, Submit, StartWait, Wait, GetValidatedLedger,
                LookupTransaction, CheckContext, DecideRound
  <2>2. UNCHANGED result \/ pc # "done"
    BY <1>1 DEF ClientStep, Start, Send, Submit, StartWait, Wait, GetValidatedLedger,
                LookupTransaction, CheckContext, DecideRound
  <2> QED BY <2>1, <2>2 DEF Inv, ResultInv, Fate
<1>2. ASSUME ClientStep, result = "none", result' # "none"
      PROVE  \E v \in {"validated", "expired", "gaveUp"} : OutcomeView!Conclude(v)
  <2>1. Inv'
    BY StepInv, <1>2 DEF Next
  <2>2. UNCHANGED Fate
    BY <1>1, <1>2
  <2>3. Verdict' = "validated" => Fate = "validated"
    BY <2>1, <2>2 DEF Inv, ResultInv, Verdict, Fate
  <2>4. Verdict' = "expired" => Fate = "passed"
    BY <2>1, <2>2 DEF Inv, ResultInv, ExpiredNeverValidated, Verdict, Fate
  <2>5. Verdict = "none" /\ Verdict' \in {"validated", "expired", "gaveUp"}
    BY <1>2 DEF Verdict
  <2> QED BY <2>2, <2>3, <2>4, <2>5 DEF OutcomeView!Conclude
<1>3. ASSUME NEW with \in BOOLEAN, CloseLedger(with)
      PROVE  UNCHANGED Verdict /\ (UNCHANGED Fate \/ \E f \in {"validated", "passed"} : OutcomeView!Decide(f))
  <2>1. UNCHANGED Verdict
    BY <1>3 DEF CloseLedger, Verdict
  <2>2. Fate # "open" => UNCHANGED Fate
    BY <1>3, FinalityAssumption DEF CloseLedger, Fate, Inv, ChainInv
  <2>3. Fate' \in {"open", "validated", "passed"}
    BY DEF Fate
  <2> QED BY <2>1, <2>2, <2>3 DEF OutcomeView!Decide
<1>4. ASSUME Cancel \/ Arrive \/ UNCHANGED vars PROVE UNCHANGED <<Fate, Verdict>>
  BY <1>4 DEF Cancel, Arrive, vars, Fate, Verdict
<1>5. CASE ClientStep
  <2>1. CASE UNCHANGED result
    BY <1>1, <1>5, <2>1 DEF Verdict
  <2>2. CASE result = "none" /\ result' # "none"
    BY <1>2, <1>5, <2>2 DEF OutcomeView!OutcomeNext
  <2> QED BY <1>1, <1>5, <2>1, <2>2
<1> QED BY <1>3, <1>4, <1>5 DEF Next, OutcomeView!OutcomeNext

THEOREM FinalityImplementsOutcome == Spec => ImplementsOutcome
BY InitOutcome, StepOutcome, InvHolds, PTL DEF Spec, ImplementsOutcome, OutcomeView!OutcomeSpec
-----------------------------------------------------------------------------
(* The whole call.                                                          *)

(* Only the engine's verdict on a malformed transaction rejects it, and no  *)
(* ledger holds a malformed one.                                            *)
RejectionInv ==
    /\ result = "rejected" => malformed
    /\ malformed => included = 0

LEMMA InitRejection == SubmissionInit => RejectionInv
BY DEF SubmissionInit, Init, RejectionInv

LEMMA StepRejection == RejectionInv /\ [SubmissionNext]_submissionVars => RejectionInv'
<1> SUFFICES ASSUME RejectionInv, [SubmissionNext]_submissionVars PROVE RejectionInv'
    OBVIOUS
<1> USE DEF RejectionInv, chain, round, preparation, Goto, Return
<1>1. CASE Call \/ Prepare \/ Autofill \/ Sign \/ Prepared \/ CheckBlob \/ Request
  <2>1. UNCHANGED <<included, malformed>>
    BY <1>1 DEF Call, Prepare, Autofill, Sign, Prepared, CheckBlob, Request
  <2>2. result' = "rejected" => result = "rejected"
    BY <1>1 DEF Call, Prepare, Autofill, Sign, Prepared, CheckBlob, Request
  <2> QED BY <2>1, <2>2
<1>2. CASE Attempt \/ AnswerFails \/ Overloaded \/ Backoff
  BY <1>2 DEF Attempt, AnswerFails, Overloaded, Backoff, RequestFails
<1>3. CASE Answered
  BY <1>3 DEF Answered, EngineResults, Rejected
<1>4. CASE Monitor
  BY <1>4 DEF Monitor, StartWait, Wait, GetValidatedLedger, LookupTransaction, CheckContext,
              DecideRound, Incomplete
<1>5. CASE LedgerCloses
  BY <1>5 DEF LedgerCloses, CloseLedger
<1>6. CASE (Cancel \/ Arrive) /\ UNCHANGED preparation
  BY <1>6 DEF Cancel, Arrive
<1>7. CASE UNCHANGED submissionVars
  BY <1>7 DEF submissionVars, vars
<1> QED BY <1>1, <1>2, <1>3, <1>4, <1>5, <1>6, <1>7 DEF SubmissionNext, CallStep

(* A rejected transaction is in no ledger and never will be.                *)
THEOREM RejectionSound == SubmissionSpec => []RejectedNeverValidated
<1>1. RejectionInv => RejectedNeverValidated
  BY DEF RejectionInv, RejectedNeverValidated
<1> QED BY <1>1, InitRejection, StepRejection, PTL DEF SubmissionSpec

-----------------------------------------------------------------------------
(* Every step of a submission is one of Finality or none.  The pc is mapped  *)
(* by a phase of its own, so that the labels are compared once.             *)
Phase == IF pc \in Before THEN "start" ELSE IF pc \in Submitting THEN "submit" ELSE pc

LEMMA InitRefines == SubmissionInit => FinalityView!Init
BY DEF SubmissionInit, Init, FinalityView!Init, Before, Submitting

LEMMA StepRefines == [SubmissionNext]_submissionVars => [FinalityView!Next]_(FinalityView!vars)
<1> SUFFICES ASSUME [SubmissionNext]_submissionVars PROVE [FinalityView!Next]_(FinalityView!vars)
    OBVIOUS
<1> USE DEF Before, Submitting, chain, round, preparation, Goto, Return,
        FinalityView!Goto, FinalityView!Return, FinalityView!chain, FinalityView!round
<1>1. CASE Call \/ Prepare \/ Autofill \/ Sign \/ Prepared \/ CheckBlob \/ Request
  <2> USE DEF FinalityView!Start, FinalityView!vars
  <2>1. CASE Call \/ Prepare
    BY <2>1 DEF Call, Prepare, FinalityView!Next, FinalityView!ClientStep
  <2>2. CASE Autofill
    BY <2>2 DEF Autofill, FinalityView!Next, FinalityView!ClientStep
  <2>3. CASE Sign \/ Prepared \/ CheckBlob
    BY <2>3 DEF Sign, Prepared, CheckBlob, FinalityView!Next, FinalityView!ClientStep
  <2>4. CASE Request
    BY <2>4, SubmissionAssumption, FinalityAssumption
       DEF Request, FinalityView!ValidMonitoring, FinalityView!ValidLastLedgerSequence,
           FinalityView!Next, FinalityView!ClientStep
  <2> QED BY <1>1, <2>1, <2>2, <2>3, <2>4
<1>2. CASE Attempt
  <2>1. FinalityView!Send \/ FinalityView!Submit \/ UNCHANGED FinalityView!vars
    BY <1>2 DEF Attempt, RequestFails, FinalityView!Send, FinalityView!Submit, FinalityView!vars
  <2> QED BY <2>1 DEF FinalityView!Next, FinalityView!ClientStep
<1>3. CASE AnswerFails \/ Overloaded \/ Backoff \/ Answered
  <2>1. FinalityView!Submit \/ UNCHANGED FinalityView!vars
    BY <1>3 DEF AnswerFails, Overloaded, Backoff, Answered, RequestFails, FinalityView!Submit,
                FinalityView!vars
  <2> QED BY <2>1 DEF FinalityView!Next, FinalityView!ClientStep
<1>4. CASE Monitor
  <2>1. CASE StartWait \/ Wait
    <3>1. FinalityView!StartWait \/ FinalityView!Wait
      BY <2>1 DEF StartWait, Wait, FinalityView!StartWait, FinalityView!Wait
    <3> QED BY <3>1 DEF FinalityView!Next, FinalityView!ClientStep
  <2>2. CASE GetValidatedLedger
    <3>1. FinalityView!GetValidatedLedger
      BY <2>2 DEF GetValidatedLedger, Incomplete, Behind, FinalityView!GetValidatedLedger,
                  FinalityView!Incomplete, FinalityView!Behind
    <3> QED BY <3>1 DEF FinalityView!Next, FinalityView!ClientStep
  <2>3. CASE LookupTransaction
    <3>1. FinalityView!LookupTransaction
      BY <2>3 DEF LookupTransaction, Incomplete, Behind, Answers, FinalityView!LookupTransaction,
                  FinalityView!Incomplete, FinalityView!Behind, FinalityView!Answers
    <3> QED BY <3>1 DEF FinalityView!Next, FinalityView!ClientStep
  <2>4. CASE CheckContext
    <3>1. FinalityView!CheckContext
      BY <2>4 DEF CheckContext, FinalityView!CheckContext
    <3> QED BY <3>1 DEF FinalityView!Next, FinalityView!ClientStep
  <2>5. CASE DecideRound
    <3>1. FinalityView!DecideRound
      BY <2>5 DEF DecideRound, Incomplete, Passed, FinalityView!DecideRound,
                  FinalityView!Incomplete, FinalityView!Passed
    <3> QED BY <3>1 DEF FinalityView!Next, FinalityView!ClientStep
  <2> QED BY <1>4, <2>1, <2>2, <2>3, <2>4, <2>5 DEF Monitor
<1>5. CASE LedgerCloses
  <2>1. \E with \in BOOLEAN : FinalityView!CloseLedger(with)
    BY <1>5 DEF LedgerCloses, CloseLedger, FinalityView!CloseLedger
  <2> QED BY <2>1 DEF FinalityView!Next
<1>6. CASE (Cancel \/ Arrive) /\ UNCHANGED preparation
  <2>1. FinalityView!Cancel \/ FinalityView!Arrive
    BY <1>6 DEF Cancel, Arrive, FinalityView!Cancel, FinalityView!Arrive
  <2> QED BY <2>1 DEF FinalityView!Next
<1>7. CASE UNCHANGED submissionVars
  BY <1>7 DEF submissionVars, vars, FinalityView!vars
<1> QED BY <1>1, <1>2, <1>3, <1>4, <1>5, <1>6, <1>7 DEF SubmissionNext, CallStep

(* Submission implements Finality.                                          *)
THEOREM SubmissionImplementsFinality == SubmissionSpec => ImplementsFinality
BY InitRefines, StepRefines, PTL DEF SubmissionSpec, ImplementsFinality, FinalityView!Spec

-----------------------------------------------------------------------------
(* What is sent is fit to be monitored.  The forms that pass CheckBlob are   *)
(* exactly the ones the network accepts signatures of.                      *)
LEMMA SubmittableForms ==
    ASSUME NEW t \in Transactions, Submittable(t)
    PROVE  /\ ~t.innerFlag
           /\ \/ t.key = "set" /\ t.signature = "set" /\ t.signers = "absent"
              \/ t.key = "empty" /\ t.signature = "absent" /\ t.signers = "complete"
           /\ t.inners \in {"none", "canonical"}
BY DEF Transactions, Submittable, Form, InnerForm

TxInv ==
    /\ tx \in Transactions \cup {Sent}
    /\ pc \in {"start"} \cup Before => tx \in Transactions
    /\ pc \in {"request", "attempt"} /\ submission = "unsent" =>
          tx \in Transactions /\ tx.last = "given" /\ Submittable(tx)
    /\ pc = "backoff" => submission # "unsent"
    /\ pc = "answer" => submission # "unsent"

LEMMA StepTx == TxInv /\ [SubmissionNext]_submissionVars => TxInv'
<1> SUFFICES ASSUME TxInv, [SubmissionNext]_submissionVars PROVE TxInv'
    OBVIOUS
<1> USE DEF TxInv, Before, chain, round, preparation, Goto, Return
<1>1. CASE Call \/ Prepare \/ Prepared
  BY <1>1 DEF Call, Prepare, Prepared
<1>2. CASE Autofill
  BY <1>2 DEF Autofill, Transactions
<1>3. CASE Sign
  BY <1>3 DEF Sign, Transactions
<1>4. CASE CheckBlob \/ Request
  BY <1>4 DEF CheckBlob, Request, Submittable
<1>5. CASE Attempt
  BY <1>5 DEF Attempt, RequestFails
<1>6. CASE AnswerFails \/ Overloaded \/ Backoff \/ Answered
  BY <1>6 DEF AnswerFails, Overloaded, Backoff, Answered, RequestFails
<1>7. CASE Monitor
  BY <1>7 DEF Monitor, StartWait, Wait, GetValidatedLedger, LookupTransaction, CheckContext,
              DecideRound, Incomplete
<1>8. CASE LedgerCloses
  BY <1>8 DEF LedgerCloses, CloseLedger
<1>9. CASE (Cancel \/ Arrive) /\ UNCHANGED preparation
  BY <1>9 DEF Cancel, Arrive
<1>10. CASE UNCHANGED submissionVars
  BY <1>10 DEF submissionVars, vars
<1> QED BY <1>1, <1>2, <1>3, <1>4, <1>5, <1>6, <1>7, <1>8, <1>9, <1>10 DEF SubmissionNext, CallStep

(* Whatever leaves the client has a LastLedgerSequence and one kind of       *)
(* signatures, and is neither an inner transaction nor a Batch of signed ones. *)
THEOREM SentIsMonitorableHolds == SubmissionSpec => SentIsMonitorable
<1> DEFINE Fit == submission = "unsent" /\ submission' = "sent" =>
          /\ tx.last = "given" /\ ~tx.innerFlag
          /\ \/ tx.key = "set" /\ tx.signature = "set" /\ tx.signers = "absent"
             \/ tx.key = "empty" /\ tx.signature = "absent" /\ tx.signers = "complete"
          /\ tx.inners \in {"none", "canonical"}
<1>1. SubmissionInit => TxInv
  BY DEF SubmissionInit, Init, TxInv, Before
<1>2. TxInv /\ [SubmissionNext]_submissionVars => [Fit]_submissionVars
  <2> SUFFICES ASSUME TxInv, SubmissionNext, submission = "unsent", submission' = "sent" PROVE Fit
      BY DEF submissionVars, vars
  <2>1. Attempt
    BY DEF SubmissionNext, CallStep, Call, Prepare, Autofill, Sign, Prepared, CheckBlob, Request,
           AnswerFails, Overloaded, Backoff, Answered, Monitor, StartWait, Wait,
           GetValidatedLedger, LookupTransaction, CheckContext, DecideRound, LedgerCloses,
           CloseLedger, Cancel, Arrive, chain, preparation
  <2> QED BY <2>1, SubmittableForms DEF Attempt, TxInv
<1> QED BY <1>1, <1>2, StepTx, PTL DEF SubmissionSpec, SentIsMonitorable

-----------------------------------------------------------------------------
(* The invariant of the polling loop holds of the whole call.  What the call *)
(* does before it polls leaves the chain and the round alone; everything    *)
(* else is a step of Finality.                                              *)
Preparing ==
    \/ Call \/ Prepare \/ Autofill \/ Sign \/ Prepared \/ CheckBlob \/ Request
    \/ Attempt \/ AnswerFails \/ Overloaded \/ Backoff \/ Answered

LEMMA PreparingStep ==
    ASSUME Preparing
    PROVE  /\ UNCHANGED <<tip, included, ledger, status, rounds, cancelled>>
           /\ pc \in {"start"} \cup Before \cup Submitting
           /\ \/ pc' \in {"wait"} \cup Before \cup Submitting /\ UNCHANGED result
              \/ pc' = "done" /\ result' \in {"invalid", "rejected", "submitError", "cancelled"}
<1> USE DEF Before, Submitting, chain, round, preparation, Goto, Return
<1>1. CASE Call \/ Prepare \/ Autofill \/ Sign \/ Prepared \/ CheckBlob \/ Request
  BY <1>1 DEF Call, Prepare, Autofill, Sign, Prepared, CheckBlob, Request
<1>2. CASE Attempt \/ AnswerFails \/ Overloaded \/ Backoff
  BY <1>2 DEF Attempt, AnswerFails, Overloaded, Backoff, RequestFails
<1>3. CASE Answered
  BY <1>3 DEF Answered
<1> QED BY <1>1, <1>2, <1>3 DEF Preparing

LEMMA CallInv == Inv /\ [SubmissionNext]_submissionVars => Inv'
<1> SUFFICES ASSUME Inv, [SubmissionNext]_submissionVars PROVE Inv'
    OBVIOUS
<1>1. CASE Preparing
  <2>1. UNCHANGED <<tip, included, ledger>> /\ pc' \notin {"check", "decide"}
    BY <1>1, PreparingStep DEF Before, Submitting
  <2>2. result = "none"
    BY <1>1, PreparingStep DEF Before, Submitting, Inv, ResultInv
  <2>3. result' = "none" \/ (pc' = "done" /\ result' \notin {"validated", "expired"})
    BY <1>1, <2>2, PreparingStep
  <2> QED BY <2>1, <2>2, <2>3 DEF Inv, ChainInv, RoundInv, ResultInv, ExpiredNeverValidated
<1>2. CASE Monitor \/ LedgerCloses \/ Cancel \/ Arrive
  <2>1. Next
    BY <1>2 DEF Monitor, LedgerCloses, Next, ClientStep
  <2> QED BY <2>1, StepInv
<1>3. CASE UNCHANGED submissionVars
  <2>1. UNCHANGED vars
    BY <1>3 DEF submissionVars
  <2> QED BY <2>1, StepInv
<1> QED BY <1>1, <1>2, <1>3 DEF SubmissionNext, CallStep, Preparing

(* However the transaction came to be sent, as often as it was, and however  *)
(* late it arrives: what the call reports as expired is not validated and    *)
(* never will be.                                                           *)
THEOREM CallExpirySound == SubmissionSpec => []ExpiredNeverValidated
<1>1. SubmissionInit => Inv
  BY InitInv DEF SubmissionInit
<1>2. Inv => ExpiredNeverValidated
  BY DEF Inv, ResultInv
<1> QED BY <1>1, <1>2, CallInv, PTL DEF SubmissionSpec

-----------------------------------------------------------------------------
(* Type correctness of the whole call, in parts: the flags, the transaction  *)
(* (TxInv), the budgets of rounds and of attempts, and the rest.            *)
CallFlags ==
    /\ submission \in {"unsent", "sent", "arrived"}
    /\ cancelled \in BOOLEAN /\ malformed \in BOOLEAN /\ retries \in BOOLEAN

LEMMA CallFlagsHold == SubmissionSpec => []CallFlags
<1> USE DEF CallFlags
<1>1. SubmissionInit => CallFlags
  BY Zenon DEF SubmissionInit, Init
<1>2. CallFlags /\ [SubmissionNext]_submissionVars => CallFlags'
  <2> USE DEF chain, preparation
  <2>1. CallFlags /\ (Call \/ Prepare \/ Autofill \/ Sign \/ Prepared \/ CheckBlob \/ Request) => CallFlags'
    BY Zenon DEF Call, Prepare, Autofill, Sign, Prepared, CheckBlob, Request
  <2>2. CallFlags /\ (Attempt \/ AnswerFails \/ Overloaded \/ Backoff \/ Answered) => CallFlags'
    BY Zenon DEF Attempt, AnswerFails, Overloaded, Backoff, Answered
  <2>3. CallFlags /\ Monitor => CallFlags'
    BY Zenon DEF Monitor, StartWait, Wait, GetValidatedLedger, LookupTransaction, CheckContext, DecideRound
  <2>4. CallFlags /\ LedgerCloses => CallFlags'
    BY Zenon DEF LedgerCloses, CloseLedger
  <2>5. CallFlags /\ (Cancel \/ Arrive) /\ UNCHANGED preparation => CallFlags'
    BY Zenon DEF Cancel, Arrive
  <2>6. CallFlags /\ UNCHANGED submissionVars => CallFlags'
    BY Zenon DEF submissionVars, vars
  <2> QED BY <2>1, <2>2, <2>3, <2>4, <2>5, <2>6, Zenon DEF SubmissionNext, CallStep
<1> QED BY <1>1, <1>2, PTL DEF SubmissionSpec

CallType ==
    /\ tip \in 1..MaxLedger /\ included \in 0..MaxLedger
    /\ ledger \in 0..MaxLedger /\ status \in Statuses /\ result \in Results
    /\ pc \in {"start", "done", "wait", "waiting", "ledger", "lookup", "check", "decide"}
             \cup Before \cup Submitting
    /\ rounds \in 0..MaxAttempts
    /\ sends \in 0..MaxSends

(* While the client prepares and submits no round was incomplete, while it   *)
(* polls one more may be; while it has an attempt ahead one is left, and an  *)
(* overloaded answer leads to another only if one is.                        *)
CallBudget ==
    /\ pc \in {"start"} \cup Before \cup Submitting => rounds = 0
    /\ pc \in {"wait", "waiting", "ledger", "lookup", "check", "decide"} => rounds < MaxAttempts
    /\ pc \in {"start"} \cup Before => sends = 0
    /\ pc \in {"attempt", "backoff"} => sends < MaxSends

LEMMA CallTypeHolds == SubmissionSpec => [](CallType /\ CallBudget)
<1>1. SubmissionInit => CallType /\ CallBudget
  BY FinalityAssumption, SubmissionAssumption
     DEF SubmissionInit, Init, CallType, CallBudget, Statuses, Results, Before, Submitting
<1>2. CallType /\ CallBudget /\ [SubmissionNext]_submissionVars => CallType' /\ CallBudget'
  <2> SUFFICES ASSUME CallType, CallBudget, [SubmissionNext]_submissionVars
               PROVE  CallType' /\ CallBudget'
      OBVIOUS
  <2>1. CASE Preparing
    <3>1. /\ tip' \in 1..MaxLedger /\ included' \in 0..MaxLedger /\ ledger' \in 0..MaxLedger
          /\ status' \in Statuses /\ rounds' \in 0..MaxAttempts
      BY <2>1, PreparingStep DEF CallType
    <3>2. result' \in Results
      BY <2>1, PreparingStep DEF CallType, Results
    <3>3. pc' \in {"done", "wait"} \cup Before \cup Submitting
      BY <2>1, PreparingStep
    <3>4. rounds' = 0 /\ rounds' < MaxAttempts
      BY <2>1, PreparingStep, FinalityAssumption, SubmissionAssumption DEF CallBudget
    <3>5. /\ sends' \in 0..MaxSends
          /\ pc' \in Before => sends' = 0
          /\ pc' \in {"attempt", "backoff"} => sends' < MaxSends
      <4> USE SubmissionAssumption DEF CallType, CallBudget, Before, Submitting, preparation, Goto, Return
      <4>1. CASE Call \/ Prepare \/ Autofill \/ Sign \/ Prepared \/ CheckBlob \/ Request
        <5>1. UNCHANGED sends
          BY <4>1 DEF Call, Prepare, Autofill, Sign, Prepared, CheckBlob, Request
        <5>2. pc \in {"start"} \cup Before
          BY <4>1 DEF Call, Prepare, Autofill, Sign, Prepared, CheckBlob, Request
        <5> QED BY <5>1, <5>2
      <4>2. CASE Attempt \/ AnswerFails
        BY <4>2 DEF Attempt, AnswerFails, RequestFails
      <4>3. CASE Overloaded \/ Backoff \/ Answered
        BY <4>3 DEF Overloaded, Backoff, Answered
      <4> QED BY <2>1, <4>1, <4>2, <4>3 DEF Preparing
    <3> QED BY <3>1, <3>2, <3>3, <3>4, <3>5 DEF CallType, CallBudget, Before, Submitting
  <2>2. CASE Monitor
    <3> USE FinalityAssumption DEF CallType, CallBudget, Statuses, Results, Before, Submitting, chain,
            round, preparation, Goto, Return
    <3>1. CASE StartWait \/ Wait
      BY <2>2, <3>1 DEF Monitor, StartWait, Wait
    <3>2. CASE GetValidatedLedger
      BY <2>2, <3>2 DEF Monitor, GetValidatedLedger, Incomplete, Behind
    <3>3. CASE LookupTransaction
      BY <2>2, <3>3 DEF Monitor, LookupTransaction, Incomplete, Answers
    <3>4. CASE CheckContext \/ DecideRound
      BY <2>2, <3>4 DEF Monitor, CheckContext, DecideRound, Incomplete
    <3> QED BY <2>2, <3>1, <3>2, <3>3, <3>4 DEF Monitor
  <2>3. CASE LedgerCloses
    BY <2>3, FinalityAssumption
       DEF LedgerCloses, CloseLedger, CallType, CallBudget, round, preparation
  <2>4. CASE (Cancel \/ Arrive) /\ UNCHANGED preparation
    BY <2>4 DEF Cancel, Arrive, CallType, CallBudget, chain, round, preparation
  <2>5. CASE UNCHANGED submissionVars
    BY <2>5 DEF submissionVars, vars, preparation, CallType, CallBudget
  <2> QED BY <2>1, <2>2, <2>3, <2>4, <2>5 DEF SubmissionNext, CallStep, Preparing
<1> QED BY <1>1, <1>2, PTL DEF SubmissionSpec

(* Type correctness: the attempts of a request stay within the transport's   *)
(* maximum and the incomplete rounds within the caller's.                    *)
THEOREM SubmissionTypeCorrect == SubmissionSpec => []SubmissionTypeOK
<1>1. SubmissionInit => TxInv
  BY DEF SubmissionInit, Init, TxInv, Before
<1>2. TxInv => tx \in Transactions \cup {Sent}
  BY Zenon DEF TxInv
<1>3. CallType => (IF pc \in Before THEN "start" ELSE IF pc \in Submitting THEN "submit" ELSE pc)
          \in {"start", "submit", "wait", "waiting", "ledger", "lookup", "check", "decide", "done"}
  BY DEF CallType, Before, Submitting
<1>4. CallType /\ CallFlags => FinalityView!TypeOK
  BY <1>3, Zenon DEF CallType, CallFlags, FinalityView!TypeOK, FinalityView!Statuses,
                    FinalityView!Results, Statuses, Results
<1>5. CallType /\ CallFlags /\ TxInv => SubmissionTypeOK
  BY <1>2, <1>4, Zenon DEF CallType, CallFlags, SubmissionTypeOK
<1> QED BY <1>1, <1>5, StepTx, CallFlagsHold, CallTypeHolds, PTL DEF SubmissionSpec
=============================================================================
