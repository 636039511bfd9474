---------------------------- MODULE BatchNonces ----------------------------
(* planBatchNonces of confidential/builder/batch.go: the number each inner
   transaction of a batch spends, resolved in apply order before any proof is
   made.  Each account's sequence is read from the open ledger at most once,
   and predicted from then on.  Operations arrive one at a time; what they do
   besides spending a number is the subject of BatchState.                  *)
EXTENDS Integers, Sequences, SequencesExt

CONSTANTS
  Accounts,
  FirstSequence,   \* the open ledger's sequence of every account to begin with
  MaxSequence,     \* bound: the environment's transactions stop at this sequence
  MaxInners,       \* maxBatchOperations (8)
  MaxCreated       \* tickets one TicketCreate may create

ASSUME NonceAssumption ==
  /\ FirstSequence \in Nat \ {0}
  /\ MaxSequence \in Nat /\ MaxInners \in Nat /\ MaxCreated \in Nat

VARIABLES
  open,       \* the open ledger's sequence of each account
  held,       \* tickets each account held when the batch began, or gets from one of its inners
  outer,      \* the caller's account and options: Operation without tickets to create
  next,       \* plan.next; 0 is an account not loaded
  spent,      \* plan.spent
  nonces,     \* the numbers of the outer transaction and of the inners so far
  planning,   \* where planBatchNonces is
  refused     \* the operation it refused

planVars == <<open, held, outer, next, spent, nonces, planning, refused>>

NoOperation == [account |-> "none", sequence |-> 0, ticket |-> 0, creates |-> 0]

\* One step of the batch: options.Sequence, options.TicketSequence, ticketCount.
\* TxOptions.validate has refused a step with both numbers.
Operation(a, s, t, k) == [account |-> a, sequence |-> s, ticket |-> t, creates |-> k]

\* What a caller may ask for: no number, a sequence, which may be ahead of the
\* open ledger for transactions not submitted yet, or a ticket the account holds.
OuterOptions ==
  UNION {{Operation(a, s, 0, 0) : s \in {0} \cup open[a] .. MaxSequence}
           \cup {Operation(a, 0, t, 0) : t \in held[a]} : a \in Accounts}

PlanInit ==
  /\ open = [a \in Accounts |-> FirstSequence]
  /\ held \in [Accounts -> SUBSET (1 .. FirstSequence - 1)]
  /\ outer \in OuterOptions
  /\ next = [a \in Accounts |-> 0]
  /\ spent = {}
  /\ nonces = << >>
  /\ planning = "outer"
  /\ refused = NoOperation

\* sequence(): the number the account spends next, read on first use.
Sequence(a) == IF next[a] # 0 THEN next[a] ELSE open[a]

-----------------------------------------------------------------------------
(* The environment: another transaction of the account enters the open ledger. *)
OtherTransaction(a) ==
  /\ open[a] < MaxSequence
  /\ open' = [open EXCEPT ![a] = @ + 1]
  /\ UNCHANGED <<held, outer, next, spent, nonces, planning, refused>>

-----------------------------------------------------------------------------
(* The outer transaction. *)

\* The sequence of the outer transaction is given, or read by resolveTxOptions.
OuterSpendsSequence(s) ==
  /\ next' = [next EXCEPT ![outer.account] = s + 1]
  /\ UNCHANGED spent

OuterSpendsTicket(t) ==
  /\ spent' = {<<outer.account, t>>}
  /\ UNCHANGED next

PlanOuter ==
  LET s == IF outer.sequence # 0 THEN outer.sequence ELSE open[outer.account]
  IN /\ planning = "outer"
     /\ IF outer.ticket # 0
        THEN OuterSpendsTicket(outer.ticket) /\ nonces' = <<<<outer.account, outer.ticket>>>>
        ELSE OuterSpendsSequence(s) /\ nonces' = <<<<outer.account, s>>>>
     /\ planning' = "inners"
     /\ UNCHANGED <<open, held, outer, refused>>

-----------------------------------------------------------------------------
(* resolve(): one inner. *)

\* The number the inner would spend.
NumberOf(op) == IF op.ticket # 0 THEN op.ticket ELSE Sequence(op.account)

\* Variant: numbers are told apart without their accounts.
CanResolveAcrossAccounts(op) ==
  /\ op.sequence \in {0, NumberOf(op)}
  /\ \A spending \in spent : spending[2] # NumberOf(op)

CanResolve(op) ==
  /\ op.sequence \in {0, NumberOf(op)}
  /\ <<op.account, NumberOf(op)>> \notin spent

\* Variant: the tickets an inner creates do not move its account's sequence.
ResolvedNextUncreated(op) ==
  IF op.ticket = 0
  THEN [next EXCEPT ![op.account] = Sequence(op.account) + 1] ELSE next

\* plan.next after an inner.
ResolvedNext(op) ==
  IF op.ticket = 0
  THEN [next EXCEPT ![op.account] = Sequence(op.account) + 1 + op.creates]
  ELSE IF op.creates # 0
  THEN [next EXCEPT ![op.account] = Sequence(op.account) + op.creates] ELSE next

\* The tickets the ledger creates when it applies the inner.
Created(op) ==
  LET first == IF op.ticket = 0 THEN Sequence(op.account) + 1 ELSE Sequence(op.account)
  IN first .. first + op.creates - 1

Resolve(op) ==
  /\ planning = "inners" /\ Len(nonces) <= MaxInners
  /\ CanResolve(op)
  /\ next' = ResolvedNext(op)
  /\ spent' = spent \cup {<<op.account, NumberOf(op)>>}
  /\ nonces' = Append(nonces, <<op.account, NumberOf(op)>>)
  /\ held' = [held EXCEPT ![op.account] = @ \cup Created(op)]
  /\ UNCHANGED <<open, outer, planning, refused>>

\* ErrBatchInnerSequenceMismatch or ErrBatchDuplicateNonce.  A sequence read for
\* the operation stays in the plan.
Refuse(op) ==
  /\ planning = "inners" /\ Len(nonces) <= MaxInners
  /\ ~CanResolve(op)
  /\ next' = IF op.ticket = 0 THEN [next EXCEPT ![op.account] = Sequence(op.account)] ELSE next
  /\ planning' = "refused"
  /\ refused' = op
  /\ UNCHANGED <<open, held, outer, spent, nonces>>

\* All operations are resolved: a batch has at least two.
FinishPlan ==
  /\ planning = "inners" /\ Len(nonces) > 2
  /\ planning' = "planned"
  /\ UNCHANGED <<open, held, outer, next, spent, nonces, refused>>

-----------------------------------------------------------------------------
\* Tickets a caller may name: those its account holds, or has held and spent.
Tickets(a) == held[a]

\* An operation without a number, with a sequence of the caller's, or with a ticket.
Operations(a) ==
  {Operation(a, s, 0, k) : s \in {0} \cup FirstSequence .. MaxSequence, k \in 0 .. MaxCreated}
    \cup {Operation(a, 0, t, k) : t \in Tickets(a), k \in 0 .. MaxCreated}

PlanInner == \E a \in Accounts : \E op \in Operations(a) : Resolve(op) \/ Refuse(op)

PlanNext ==
  \/ \E a \in Accounts : OtherTransaction(a)
  \/ PlanOuter
  \/ PlanInner
  \/ FinishPlan

PlanSpec == PlanInit /\ [][PlanNext]_planVars

-----------------------------------------------------------------------------
\* The tickets the account still holds when the batch has applied this far.
Unspent(a) == {t \in held[a] : \A i \in 1 .. Len(nonces) : nonces[i] # <<a, t>>}

PlanTypeOK ==
  /\ open \in [Accounts -> Nat \ {0}]
  /\ held \in [Accounts -> SUBSET Nat]
  /\ outer \in [account : Accounts, sequence : Nat, ticket : Nat, creates : {0}] \cup {NoOperation}
  /\ next \in [Accounts -> Nat]
  /\ spent \subseteq Accounts \X Nat
  /\ nonces \in Seq(Accounts \X Nat)
  /\ planning \in {"outer", "inners", "planned", "refused"}

\* The sequence the account spends next when the batch has applied this far.
LedgerSequence(a) ==
  IF planning = "outer" /\ a = outer.account /\ outer.sequence # 0
  THEN outer.sequence ELSE Sequence(a)

\* Every number planned is the one the ledger will ask of that transaction when
\* it applies the batch in order: the next sequence of its account, counting the
\* outer transaction, the inners before it and the tickets they create, or a
\* ticket that nothing before it has spent.
Ledger == INSTANCE Nonces WITH
  sequence <- [a \in Accounts |-> LedgerSequence(a)],
  tickets <- [a \in Accounts |-> Unspent(a)],
  applied <- nonces

ImplementsNonces == Ledger!Spec

\* What the ledger would have applied at that place.
Applicable(op) ==
  IF op.ticket # 0 THEN op.ticket \in Unspent(op.account)
  ELSE op.sequence \in {0, Sequence(op.account)}

\* An operation is refused only if the ledger would not apply it there: the
\* numbers a plan marks as spent never include one that is still to be spent.
RefusalsJustified == planning = "refused" => ~Applicable(refused)
=============================================================================
