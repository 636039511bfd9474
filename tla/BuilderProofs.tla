---------------------------- MODULE BuilderProofs ----------------------------
(* Proofs about Builder, for any accounts, sequences, holders and chains, and
   batches of any size.                                                     *)
EXTENDS Builder, FiniteSetTheorems, SequenceTheorems, WellFoundedInduction, TLAPS

\* Tickets are below the sequence of their account, before and after the outer
\* transaction has spent its own.
TicketsBelow ==
  /\ \A a \in Accounts : \A t \in held[a] : t < Sequence(a)
  /\ planning = "outer" =>
       /\ nonces = << >> /\ spent = {} /\ next = [a \in Accounts |-> 0]
       /\ outer.ticket # 0 => outer.sequence = 0 /\ outer.ticket \in held[outer.account]
       /\ outer.sequence # 0 => \A t \in held[outer.account] : t < outer.sequence

\* A number spent is below the sequence of its account, one marked as spent is
\* among them, and one not marked was never a ticket.
NumbersSpent ==
  /\ \A i \in 1 .. Len(nonces), a \in Accounts, n \in Nat :
       nonces[i] = <<a, n>> => n < Sequence(a) /\ (<<a, n>> \in spent \/ n \notin held[a])
  /\ \A n \in spent : \E i \in 1 .. Len(nonces) : nonces[i] = n

\* What was refused stays refused: its account was loaded.
RefusedInv ==
  planning = "refused" =>
    /\ refused.account \in Accounts
    /\ refused.ticket = 0 => next[refused.account] # 0
    /\ ~Applicable(refused)

PlanInv == PlanTypeOK /\ TicketsBelow /\ NumbersSpent /\ RefusedInv

\* A plan is made for a caller, and before any entry is read.
Callers == [account : Accounts, sequence : Nat, ticket : Nat, creates : {0}]
Beginning == {"resolve", "resolved", "plan"}
BegunInv == pc \in Beginning => outer \in Callers /\ hash = NoHash

\* All entries come from the ledger bound, which has the index selected.
SnapshotInv ==
  /\ used \subseteq {hash} /\ NoHash \notin used
  /\ hash # NoHash => index = IndexOf(hash)

BuildInv == PlanInv /\ BegunInv /\ SnapshotInv

-----------------------------------------------------------------------------
LEMMA InitPlan == PlanInit => PlanInv /\ outer \in Callers
<1> SUFFICES ASSUME PlanInit PROVE PlanInv /\ outer \in Callers
    OBVIOUS
<1> USE NonceAssumption DEF PlanInit
<1>1. /\ outer \in Callers
      /\ outer.ticket # 0 => outer.sequence = 0 /\ outer.ticket \in held[outer.account]
      /\ outer.sequence # 0 => outer.sequence >= FirstSequence
  BY DEF OuterOptions, Operation, Callers
<1>2. PlanTypeOK
  BY <1>1 DEF PlanTypeOK, Callers
<1>3. TicketsBelow
  <2>1. \A a \in Accounts : \A t \in held[a] : t \in Nat /\ t < FirstSequence
    OBVIOUS
  <2>2. outer.account \in Accounts /\ outer.sequence \in Nat
    BY <1>1 DEF Callers
  <2> QED BY <1>1, <2>1, <2>2 DEF TicketsBelow, Sequence
<1>4. NumbersSpent /\ RefusedInv
  BY DEF NumbersSpent, RefusedInv
<1> QED BY <1>1, <1>2, <1>3, <1>4 DEF PlanInv

\* What Resolve and Refuse are given.
LEMMA OperationType ==
    ASSUME PlanTypeOK, NEW a \in Accounts, NEW op \in Operations(a)
    PROVE  /\ op.account = a /\ op.sequence \in Nat /\ op.ticket \in Nat /\ op.creates \in Nat
           /\ op.ticket # 0 => op.sequence = 0 /\ op.ticket \in held[a]
BY NonceAssumption DEF PlanTypeOK, Operations, Operation, Tickets

LEMMA StepOther == ASSUME PlanInv, NEW a \in Accounts, OtherTransaction(a) PROVE PlanInv'
<1>0. /\ open[a] \in Nat /\ open' = [open EXCEPT ![a] = @ + 1]
      /\ UNCHANGED <<held, outer, next, spent, nonces, planning, refused>>
      /\ PlanTypeOK /\ TicketsBelow /\ NumbersSpent /\ RefusedInv
  BY DEF PlanInv, OtherTransaction, PlanTypeOK
<1>1. PlanTypeOK'
  BY <1>0 DEF PlanTypeOK
<1>2. ASSUME NEW b \in Accounts
      PROVE  /\ Sequence(b) \in Nat /\ Sequence(b)' \in Nat /\ Sequence(b)' >= Sequence(b)
             /\ next[b] # 0 => Sequence(b)' = Sequence(b)
  BY <1>0 DEF PlanTypeOK, Sequence
<1>3. TicketsBelow'
  <2>1. ASSUME NEW b \in Accounts, NEW t \in held[b] PROVE t < Sequence(b)'
    <3>1. t \in Nat /\ t < Sequence(b)
      BY <1>0, <2>1 DEF PlanTypeOK, TicketsBelow
    <3> QED BY <1>2, <3>1
  <2> QED BY <1>0, <2>1 DEF TicketsBelow
<1>4. NumbersSpent'
  <2>1. ASSUME NEW i \in 1 .. Len(nonces), NEW b \in Accounts, NEW n \in Nat,
               nonces[i] = <<b, n>>
        PROVE  n < Sequence(b)' /\ (<<b, n>> \in spent \/ n \notin held[b])
    BY <1>0, <1>2, <2>1 DEF NumbersSpent
  <2> QED BY <1>0, <2>1 DEF NumbersSpent
<1>5. RefusedInv'
  BY <1>0, <1>2 DEF RefusedInv, Applicable, Unspent
<1> QED BY <1>1, <1>3, <1>4, <1>5 DEF PlanInv

LEMMA StepOuter ==
    ASSUME PlanInv, outer \in Callers, PlanOuter
    PROVE  PlanInv'
<1> DEFINE a == outer.account
           n == IF outer.ticket # 0 THEN outer.ticket
                ELSE IF outer.sequence # 0 THEN outer.sequence ELSE open[a]
<1>0. PlanTypeOK /\ TicketsBelow
  BY DEF PlanInv
<1>1. /\ a \in Accounts /\ n \in Nat /\ nonces' = << <<a, n>> >> /\ UNCHANGED <<open, held, outer>>
      /\ planning = "outer" /\ planning' = "inners" /\ spent = {}
      /\ next = [b \in Accounts |-> 0]
      /\ outer.ticket # 0 => spent' = {<<a, n>>} /\ UNCHANGED next
      /\ outer.ticket = 0 => spent' = {} /\ next' = [next EXCEPT ![a] = n + 1]
  BY <1>0 DEF PlanOuter, OuterSpendsSequence, OuterSpendsTicket, PlanTypeOK, TicketsBelow, Callers
<1>2. PlanTypeOK'
  <2>1. nonces' \in Seq(Accounts \X Nat) /\ spent' \subseteq Accounts \X Nat
    BY <1>1
  <2>2. next' \in [Accounts -> Nat]
    BY <1>1
  <2> QED BY <1>0, <1>1, <2>1, <2>2 DEF PlanTypeOK
<1>3. \A b \in Accounts : \A t \in held[b] : t < Sequence(b)' /\ t < Sequence(b)
  BY <1>0, <1>1 DEF PlanTypeOK, TicketsBelow, Sequence
<1>4. TicketsBelow'
  BY <1>1, <1>3 DEF TicketsBelow
<1>5. n < Sequence(a)' /\ (<<a, n>> \in spent' \/ n \notin held[a])
  BY <1>0, <1>1, <1>3 DEF PlanTypeOK, TicketsBelow, Sequence
<1>6. NumbersSpent'
  BY <1>1, <1>5 DEF NumbersSpent
<1>7. RefusedInv'
  BY <1>1 DEF RefusedInv
<1> QED BY <1>2, <1>4, <1>6, <1>7 DEF PlanInv

LEMMA StepResolve ==
    ASSUME PlanInv, NEW a \in Accounts, NEW op \in Operations(a), Resolve(op)
    PROVE  PlanInv'
<1> DEFINE n == NumberOf(op)
<1>0. PlanTypeOK /\ TicketsBelow /\ NumbersSpent
  BY DEF PlanInv
<1>t. /\ op.account = a /\ op.ticket \in Nat /\ op.creates \in Nat
      /\ op.ticket # 0 => op.ticket \in held[a]
  BY <1>0, OperationType
<1>1. /\ next' = ResolvedNext(op)
      /\ held' = [held EXCEPT ![a] = @ \cup Created(op)]
      /\ spent' = spent \cup {<<a, n>>} /\ nonces' = Append(nonces, <<a, n>>)
      /\ planning = "inners" /\ planning' = "inners" /\ UNCHANGED <<open, outer>>
  BY <1>t DEF Resolve
<1>2. Sequence(a) \in Nat /\ Sequence(a) # 0 /\ n \in Nat
  BY <1>0, <1>t DEF PlanTypeOK, NumberOf, Sequence
<1>3. next' \in [Accounts -> Nat]
  BY <1>0, <1>1, <1>2, <1>t DEF PlanTypeOK, ResolvedNext
<1>4. Created(op) \subseteq Nat
  BY <1>2, <1>t DEF Created
<1>5. /\ nonces' \in Seq(Accounts \X Nat) /\ Len(nonces') = Len(nonces) + 1
      /\ \A i \in 1 .. Len(nonces) : nonces'[i] = nonces[i]
      /\ nonces'[Len(nonces) + 1] = <<a, n>>
  BY <1>0, <1>1, <1>2 DEF PlanTypeOK
<1>6. PlanTypeOK'
  <2>1. held' \in [Accounts -> SUBSET Nat]
    BY <1>0, <1>1, <1>4 DEF PlanTypeOK
  <2>2. spent' \subseteq Accounts \X Nat
    BY <1>0, <1>1, <1>2 DEF PlanTypeOK
  <2> QED BY <1>0, <1>1, <1>3, <1>5, <2>1, <2>2 DEF PlanTypeOK
<1>7. ASSUME NEW b \in Accounts
      PROVE  Sequence(b) \in Nat /\ Sequence(b)' \in Nat /\ Sequence(b)' >= Sequence(b)
  BY SMTT(30), <1>0, <1>1, <1>2, <1>t DEF PlanTypeOK, Sequence, ResolvedNext
<1>8. \A t \in Created(op) : t \in Nat /\ Sequence(a) <= t /\ t < Sequence(a)'
  BY SMTT(30), <1>0, <1>1, <1>2, <1>t DEF PlanTypeOK, Sequence, ResolvedNext, Created
<1>9. n < Sequence(a)'
  <2>1. CASE op.ticket = 0
    BY <1>0, <1>1, <1>2, <1>t, <2>1 DEF PlanTypeOK, Sequence, ResolvedNext, NumberOf
  <2>2. CASE op.ticket # 0
    BY <1>0, <1>2, <1>7, <1>t, <2>2 DEF TicketsBelow, NumberOf
  <2> QED BY <2>1, <2>2
<1>10. TicketsBelow'
  <2>1. ASSUME NEW b \in Accounts, NEW t \in held'[b] PROVE t < Sequence(b)'
    <3>1. CASE t \in held[b]
      <4>1. t \in Nat /\ t < Sequence(b)
        BY <1>0, <3>1 DEF PlanTypeOK, TicketsBelow
      <4> QED BY <1>7, <4>1
    <3>2. CASE b = a /\ t \in Created(op)
      BY <1>8, <3>2
    <3> QED BY <1>0, <1>1, <2>1, <3>1, <3>2 DEF PlanTypeOK
  <2> QED BY <1>1, <2>1 DEF TicketsBelow
<1>11. NumbersSpent'
  <2>1. ASSUME NEW i \in 1 .. Len(nonces), NEW b \in Accounts, NEW m \in Nat,
               nonces[i] = <<b, m>>
        PROVE  m < Sequence(b)' /\ (<<b, m>> \in spent' \/ m \notin held'[b])
    <3>1. m < Sequence(b) /\ (<<b, m>> \in spent \/ m \notin held[b])
      BY <1>0, <2>1 DEF NumbersSpent
    <3>2. m < Sequence(b)'
      BY <1>7, <3>1
    <3>3. b = a => m \notin Created(op)
      BY <1>2, <1>8, <3>1
    <3>4. held'[b] = IF b = a THEN held[a] \cup Created(op) ELSE held[b]
      BY <1>0, <1>1 DEF PlanTypeOK
    <3> QED BY <1>1, <3>1, <3>2, <3>3, <3>4
  <2>2. \A m \in spent' : \E i \in 1 .. Len(nonces') : nonces'[i] = m
    <3>1. ASSUME NEW m \in spent PROVE \E i \in 1 .. Len(nonces') : nonces'[i] = m
      <4>1. PICK i \in 1 .. Len(nonces) : nonces[i] = m
        BY <1>0 DEF NumbersSpent
      <4>2. i \in 1 .. Len(nonces') /\ nonces'[i] = m
        <5>1. Len(nonces) \in Nat
          BY <1>0 DEF PlanTypeOK
        <5> QED BY <1>5, <4>1, <5>1
      <4> QED BY <4>2
    <3>2. Len(nonces) + 1 \in 1 .. Len(nonces')
      BY <1>0, <1>5 DEF PlanTypeOK
    <3> QED BY <1>1, <1>5, <3>1, <3>2
  <2>3. \A i \in 1 .. Len(nonces') : i \in 1 .. Len(nonces) \/ i = Len(nonces) + 1
    BY <1>0, <1>5 DEF PlanTypeOK
  <2>5. ASSUME NEW i \in 1 .. Len(nonces'), NEW b \in Accounts, NEW m \in Nat,
               nonces'[i] = <<b, m>>
        PROVE  m < Sequence(b)' /\ (<<b, m>> \in spent' \/ m \notin held'[b])
    <3>1. CASE i \in 1 .. Len(nonces)
      BY <1>5, <2>1, <2>5, <3>1
    <3>2. CASE i = Len(nonces) + 1
      BY <1>1, <1>5, <1>9, <2>5, <3>2
    <3> QED BY <2>3, <3>1, <3>2
  <2> QED BY <2>2, <2>5 DEF NumbersSpent
<1>12. RefusedInv'
  BY <1>1 DEF RefusedInv
<1> QED BY <1>6, <1>10, <1>11, <1>12 DEF PlanInv

LEMMA StepRefuse ==
    ASSUME PlanInv, NEW a \in Accounts, NEW op \in Operations(a), Refuse(op)
    PROVE  PlanInv'
<1>0. PlanTypeOK /\ TicketsBelow /\ NumbersSpent
  BY DEF PlanInv
<1>t. /\ op.account = a /\ op.ticket \in Nat /\ op.sequence \in Nat
      /\ op.ticket # 0 => op.sequence = 0 /\ op.ticket \in held[a]
  BY <1>0, OperationType
<1>1. /\ next' = IF op.ticket = 0 THEN [next EXCEPT ![a] = Sequence(a)] ELSE next
      /\ planning = "inners" /\ planning' = "refused" /\ refused' = op
      /\ UNCHANGED <<open, held, outer, spent, nonces>>
      /\ ~CanResolve(op)
  BY <1>t DEF Refuse
<1>2. Sequence(a) \in Nat /\ Sequence(a) # 0
  BY <1>0 DEF PlanTypeOK, Sequence
<1>3. PlanTypeOK'
  BY <1>0, <1>1, <1>2 DEF PlanTypeOK
<1>4. \A b \in Accounts : Sequence(b)' = Sequence(b)
  BY <1>0, <1>1, <1>2 DEF PlanTypeOK, Sequence
<1>5. TicketsBelow'
  BY <1>0, <1>1, <1>4 DEF TicketsBelow
<1>6. NumbersSpent'
  BY SMTT(30), <1>0, <1>1, <1>4 DEF PlanTypeOK, NumbersSpent
<1>7. ~Applicable(op)'
  <2>1. CASE op.ticket # 0
    BY <1>0, <1>1, <1>t, <2>1 DEF Applicable, Unspent, CanResolve, NumberOf, NumbersSpent
  <2>2. CASE op.ticket = 0
    <3>1. <<a, Sequence(a)>> \notin spent
      BY <1>0, <1>2 DEF NumbersSpent
    <3> QED BY <1>1, <1>4, <1>t, <2>2, <3>1 DEF Applicable, CanResolve, NumberOf
  <2> QED BY <2>1, <2>2
<1>8. RefusedInv'
  BY <1>0, <1>1, <1>2, <1>7, <1>t DEF RefusedInv, PlanTypeOK, Applicable, Unspent, Sequence
<1> QED BY <1>3, <1>5, <1>6, <1>8 DEF PlanInv

LEMMA StepFinish == ASSUME PlanInv, FinishPlan PROVE PlanInv'
<1>1. /\ planning' = "planned" /\ UNCHANGED <<open, held, outer, next, spent, nonces, refused>>
      /\ PlanTypeOK /\ TicketsBelow /\ NumbersSpent
  BY DEF PlanInv, FinishPlan
<1>2. PlanTypeOK'
  BY <1>1 DEF PlanTypeOK
<1>3. TicketsBelow' /\ NumbersSpent' /\ RefusedInv'
  BY <1>1 DEF TicketsBelow, NumbersSpent, RefusedInv, Sequence
<1> QED BY <1>1, <1>2, <1>3 DEF PlanInv

LEMMA StepPlan == ASSUME PlanInv, outer \in Callers, PlanNext PROVE PlanInv' /\ outer' = outer
<1>1. ASSUME NEW a \in Accounts, OtherTransaction(a) PROVE PlanInv' /\ outer' = outer
  BY <1>1, StepOther DEF OtherTransaction
<1>2. CASE PlanOuter
  BY <1>2, StepOuter DEF PlanOuter
<1>3. ASSUME NEW a \in Accounts, NEW op \in Operations(a), Resolve(op)
      PROVE  PlanInv' /\ outer' = outer
  BY <1>3, StepResolve DEF Resolve
<1>4. ASSUME NEW a \in Accounts, NEW op \in Operations(a), Refuse(op)
      PROVE  PlanInv' /\ outer' = outer
  BY <1>4, StepRefuse DEF Refuse
<1>5. CASE FinishPlan
  BY <1>5, StepFinish DEF FinishPlan
<1> QED BY <1>1, <1>2, <1>3, <1>4, <1>5 DEF PlanNext, PlanInner

\* A plan that was made is forgotten.
LEMMA StepMade == ASSUME PlanMade PROVE PlanInv'
<1>1. /\ open' = [a \in Accounts |-> FirstSequence] /\ held' = [a \in Accounts |-> {}]
      /\ next' = [a \in Accounts |-> 0] /\ outer' = NoOperation /\ spent' = {}
      /\ nonces' = << >> /\ planning' = "outer"
  BY DEF PlanMade
<1>2. PlanTypeOK'
  BY <1>1, NonceAssumption DEF PlanTypeOK
<1>3. TicketsBelow' /\ NumbersSpent' /\ RefusedInv'
  BY <1>1 DEF TicketsBelow, NumbersSpent, RefusedInv, NoOperation
<1> QED BY <1>2, <1>3 DEF PlanInv

\* Nothing but the steps of the plan looks at it.
LEMMA OtherSteps ==
    ASSUME BuildNext, ~PlanStep, ~PlanMade
    PROVE  UNCHANGED planVars
BY DEF BuildNext, OptionsGiven, AccountValidated, ChooseWork, QueryFails, ReadIssuance, ReadToken,
       CheckVersion, Goto, Advance

LEMMA PlanVars == ASSUME PlanInv, UNCHANGED planVars PROVE PlanInv'
BY DEF PlanInv, planVars, PlanTypeOK, TicketsBelow, NumbersSpent, RefusedInv, Sequence, Applicable,
       Unspent

\* The builder never goes back to its beginning, and reads nothing in it.
LEMMA StepBegun ==
    ASSUME BuildNext, pc' \in Beginning
    PROVE  pc \in Beginning /\ hash' = hash
<1>1. CASE OptionsGiven \/ PlanStep \/ PlanMade \/ ChooseWork \/ QueryFails
  BY <1>1 DEF OptionsGiven, PlanStep, PlanMade, ChooseWork, QueryFails, Goto, Beginning, buildVars,
              snapshotVars
<1>2. ASSUME NEW i \in 1 .. MaxLedger, AccountValidated(i) PROVE pc \in Beginning /\ hash' = hash
  BY <1>2 DEF AccountValidated, SelectIndex, Beginning
<1>3. ASSUME NEW l \in Ledgers, NEW i \in Issuances, ReadIssuance(l, i) PROVE FALSE
  BY <1>3 DEF ReadIssuance, Goto, Beginning
<1>4. ASSUME NEW l \in Ledgers, NEW t \in Tokens, ReadToken(l, t) PROVE FALSE
  BY <1>4 DEF ReadToken, Advance, AfterToken, Beginning
<1>5. ASSUME NEW v \in Histories, NEW from \in 1 .. MaxLedger + 1, NEW current \in {0, from},
             CheckVersion(v, from, current)
      PROVE  FALSE
  BY <1>5 DEF CheckVersion, AfterToken, Beginning
<1> QED BY <1>1, <1>2, <1>3, <1>4, <1>5 DEF BuildNext

\* An entry is taken from the ledger bound, or binds the snapshot to its own.
LEMMA StepBind ==
    ASSUME SnapshotInv, NEW l \in Ledgers, Accepts(l, TRUE), Bind(l)
    PROVE  SnapshotInv'
<1>1. l # NoHash
  BY DEF Ledgers, NoHash
<1> QED BY <1>1 DEF SnapshotInv, Accepts, Bind

LEMMA StepSnapshot == ASSUME BegunInv, SnapshotInv, BuildNext PROVE SnapshotInv'
<1>0. UNCHANGED snapshotVars => SnapshotInv'
  BY DEF SnapshotInv, snapshotVars
<1>1. CASE OptionsGiven \/ PlanStep \/ PlanMade \/ ChooseWork \/ QueryFails
  BY <1>0, <1>1 DEF OptionsGiven, PlanStep, PlanMade, ChooseWork, QueryFails
<1>2. ASSUME NEW i \in 1 .. MaxLedger, AccountValidated(i) PROVE SnapshotInv'
  BY <1>2 DEF AccountValidated, SelectIndex, BegunInv, Beginning, SnapshotInv
<1>3. ASSUME NEW l \in Ledgers, NEW i \in Issuances, ReadIssuance(l, i) PROVE SnapshotInv'
  BY <1>0, <1>3, StepBind DEF ReadIssuance
<1>4. ASSUME NEW l \in Ledgers, NEW t \in Tokens, ReadToken(l, t) PROVE SnapshotInv'
  BY <1>0, <1>4, StepBind DEF ReadToken
<1>5. ASSUME NEW v \in Histories, NEW from \in 1 .. MaxLedger + 1, NEW current \in {0, from},
             CheckVersion(v, from, current)
      PROVE  SnapshotInv'
  BY <1>0, <1>5 DEF CheckVersion
<1> QED BY <1>1, <1>2, <1>3, <1>4, <1>5 DEF BuildNext

LEMMA BuildInvHolds == BuildSpec => []BuildInv
<1>1. BuildInit => BuildInv
  BY InitPlan DEF BuildInit, SnapshotInit, BuildInv, BegunInv, SnapshotInv
<1>2. BuildInv /\ [BuildNext]_vars => BuildInv'
  <2> SUFFICES ASSUME BuildInv, [BuildNext]_vars PROVE BuildInv'
      OBVIOUS
  <2>1. CASE UNCHANGED vars
    <3>1. UNCHANGED planVars /\ UNCHANGED <<pc, outer, index, hash, used>>
      BY <2>1 DEF vars, planVars, snapshotVars, buildVars
    <3> QED BY <3>1, PlanVars DEF BuildInv, BegunInv, SnapshotInv
  <2>2. CASE BuildNext
    <3>1. pc = "plan" => outer \in Callers
      BY DEF BuildInv, BegunInv, Beginning
    <3>2. PlanInv'
      BY <2>2, <3>1, StepPlan, StepMade, OtherSteps, PlanVars DEF BuildInv, PlanStep
    <3>3. PlanMade => pc' = "choose"
      BY DEF PlanMade, Goto
    <3>4. pc' \in Beginning => outer' = outer
      BY <2>2, <3>1, <3>3, StepPlan, OtherSteps DEF BuildInv, PlanStep, Beginning, planVars
    <3>5. BegunInv'
      BY <2>2, <3>4, StepBegun DEF BuildInv, BegunInv
    <3>6. SnapshotInv'
      BY <2>2, StepSnapshot DEF BuildInv
    <3> QED BY <3>2, <3>5, <3>6 DEF BuildInv
  <2> QED BY <2>1, <2>2
<1> QED BY <1>1, <1>2, PTL DEF BuildSpec

\* A plan refuses an operation only if the ledger would not apply it at its place:
\* the sequences predicted and the numbers marked as spent by planBatchNonces are
\* right at every step.
THEOREM RefusalsJustifiedHolds == BuildSpec => []RefusalsJustified
<1>1. BuildInv => RefusalsJustified
  BY DEF BuildInv, PlanInv, RefusedInv, RefusalsJustified
<1> QED BY <1>1, BuildInvHolds, PTL

\* All entries of one build come from one validated ledger, the one selected by its
\* account lookup or by its first entry, whatever servers answer.
THEOREM OneLedgerHolds == BuildSpec => []OneLedger
<1>1. ASSUME SnapshotInv PROVE OneLedger
  <2>1. \A l \in used : IndexOf(l) = index
    BY <1>1 DEF SnapshotInv
  <2>2. used = {} \/ used = {hash}
    BY <1>1 DEF SnapshotInv
  <2>3. Cardinality({}) = 0 /\ Cardinality({hash}) = 1
    BY FS_EmptySet, FS_Singleton
  <2> QED BY <2>1, <2>2, <2>3 DEF OneLedger
<1> QED BY <1>1, BuildInvHolds, PTL DEF BuildInv

-----------------------------------------------------------------------------
(* The plan as a run of the ledger. *)

LEMMA MapOther ==
    ASSUME PlanInv, NEW a \in Accounts, OtherTransaction(a)
    PROVE  [Ledger!Next]_(Ledger!nonceVars)
<1>0. /\ open[a] \in Nat /\ open' = [open EXCEPT ![a] = @ + 1] /\ PlanTypeOK
      /\ UNCHANGED <<held, outer, next, spent, nonces, planning, refused>>
  BY DEF PlanInv, OtherTransaction, PlanTypeOK
<1>1. [b \in Accounts |-> Unspent(b)]' = [b \in Accounts |-> Unspent(b)]
  BY <1>0 DEF Unspent
<1>2. \A b \in Accounts : b # a => LedgerSequence(b)' = LedgerSequence(b)
  BY <1>0 DEF LedgerSequence, Sequence, PlanTypeOK
<1>3. LedgerSequence(a)' \in {LedgerSequence(a), LedgerSequence(a) + 1}
  BY <1>0 DEF LedgerSequence, Sequence, PlanTypeOK
<1>4. CASE LedgerSequence(a)' = LedgerSequence(a)
  <2>1. [b \in Accounts |-> LedgerSequence(b)]' = [b \in Accounts |-> LedgerSequence(b)]
    BY <1>2, <1>4
  <2> QED BY <1>0, <1>1, <2>1 DEF Ledger!nonceVars
<1>5. CASE LedgerSequence(a)' = LedgerSequence(a) + 1
  <2>1. [b \in Accounts |-> LedgerSequence(b)]'
          = [[b \in Accounts |-> LedgerSequence(b)] EXCEPT ![a] = @ + 1]
    BY <1>2, <1>5
  <2>2. Ledger!ApplyOther(a)
    BY <1>0, <1>1, <2>1 DEF Ledger!ApplyOther
  <2> QED BY <2>2 DEF Ledger!Next
<1> QED BY <1>3, <1>4, <1>5

LEMMA MapOuter ==
    ASSUME PlanInv, outer \in Callers, PlanOuter
    PROVE  Ledger!Next
<1> DEFINE a == outer.account
           n == IF outer.ticket # 0 THEN outer.ticket
                ELSE IF outer.sequence # 0 THEN outer.sequence ELSE open[a]
           S == [b \in Accounts |-> LedgerSequence(b)]
           T == [b \in Accounts |-> Unspent(b)]
<1>0. PlanTypeOK /\ TicketsBelow
  BY DEF PlanInv
<1>1. /\ a \in Accounts /\ n \in Nat /\ nonces' = << <<a, n>> >> /\ UNCHANGED <<open, held, outer>>
      /\ planning = "outer" /\ planning' = "inners" /\ nonces = << >>
      /\ next = [b \in Accounts |-> 0]
      /\ outer.ticket # 0 => UNCHANGED next /\ n \in held[a] /\ outer.sequence = 0
      /\ outer.ticket = 0 => next' = [next EXCEPT ![a] = n + 1]
  BY <1>0 DEF PlanOuter, OuterSpendsSequence, OuterSpendsTicket, PlanTypeOK, TicketsBelow, Callers
<1> DEFINE after == IF n = S[a] THEN n + 1 ELSE S[a]
<1>2. nonces' = Append(nonces, <<a, n>>)
  BY <1>1
<1>3. \A b \in Accounts : Unspent(b) = held[b] /\ (b # a => Unspent(b)' = Unspent(b))
  BY <1>1 DEF Unspent
<1>4. Unspent(a)' = Unspent(a) \ {n}
  <2>1. \A t : <<a, t>> # <<a, n>> <=> t # n
    OBVIOUS
  <2> QED BY <1>1, <1>3, <2>1 DEF Unspent
<1>5. \A b \in Accounts : b # a => LedgerSequence(b)' = LedgerSequence(b)
  BY <1>1 DEF LedgerSequence, Sequence
<1>6. /\ LedgerSequence(a) \in Nat /\ LedgerSequence(a)' = after + 0 /\ after \in Nat
      /\ n = S[a] \/ n \in T[a]
  <2>1. CASE outer.ticket = 0
    BY <1>0, <1>1, <2>1 DEF LedgerSequence, Sequence, PlanTypeOK
  <2>2. CASE outer.ticket # 0
    <3>1. n < LedgerSequence(a) /\ LedgerSequence(a) = open[a] /\ LedgerSequence(a)' = open[a]
      BY <1>0, <1>1, <2>2 DEF TicketsBelow, LedgerSequence, Sequence
    <3>2. open[a] \in Nat
      BY <1>0, <1>1 DEF PlanTypeOK
    <3> QED BY <1>1, <1>3, <2>2, <3>1, <3>2
  <2> QED BY <2>1, <2>2
<1>7. S' = [S EXCEPT ![a] = after + 0]
  <2> HIDE DEF after
  <2> QED BY <1>1, <1>5, <1>6
<1>8. T' = [T EXCEPT ![a] = (@ \ {n}) \cup after .. (after + 0 - 1)]
  <2>1. after .. (after + 0 - 1) = {}
    BY <1>6
  <2> HIDE DEF after
  <2>2. T' = [b \in Accounts |-> IF b = a THEN T[b] \ {n} ELSE T[b]]
    BY <1>1, <1>3, <1>4
  <2>3. (T[a] \ {n}) \cup after .. (after + 0 - 1) = T[a] \ {n}
    BY <2>1
  <2> HIDE DEF T
  <2>4. T \in [Accounts -> {T[b] : b \in Accounts}]
    BY DEF T
  <2> QED BY <1>1, <2>2, <2>3, <2>4
<1>9. Ledger!Apply(a, n, 0)
  BY <1>2, <1>6, <1>7, <1>8 DEF Ledger!Apply
<1>10. 0 \in 0 .. MaxCreated
  BY NonceAssumption
<1> QED BY <1>1, <1>6, <1>9, <1>10 DEF Ledger!Next

LEMMA MapResolve ==
    ASSUME PlanInv, NEW a \in Accounts, NEW op \in Operations(a), Resolve(op)
    PROVE  Ledger!Next
<1> DEFINE n == NumberOf(op)
           k == op.creates
           S == [b \in Accounts |-> LedgerSequence(b)]
           T == [b \in Accounts |-> Unspent(b)]
<1>0. PlanTypeOK /\ TicketsBelow /\ NumbersSpent
  BY DEF PlanInv
<1>t. /\ op.account = a /\ op.ticket \in Nat /\ k \in 0 .. MaxCreated
      /\ op.ticket # 0 => op.ticket \in held[a]
  BY <1>0, OperationType, NonceAssumption DEF Operations, Operation
<1>1. /\ next' = ResolvedNext(op)
      /\ held' = [held EXCEPT ![a] = @ \cup Created(op)]
      /\ nonces' = Append(nonces, <<a, n>>)
      /\ <<a, n>> \notin spent
      /\ planning = "inners" /\ planning' = "inners" /\ UNCHANGED <<open, outer>>
  BY <1>t DEF Resolve, CanResolve
<1>2. Sequence(a) \in Nat /\ Sequence(a) # 0 /\ n \in Nat /\ k \in Nat
  BY <1>0, <1>t, NonceAssumption DEF PlanTypeOK, NumberOf, Sequence
<1>3. \A b \in Accounts : LedgerSequence(b) = Sequence(b) /\ LedgerSequence(b)' = Sequence(b)'
  BY <1>1 DEF LedgerSequence
<1>4. \A b \in Accounts : b # a => Sequence(b)' = Sequence(b)
  BY <1>0, <1>1, <1>t DEF PlanTypeOK, Sequence, ResolvedNext
<1> DEFINE after == IF n = S[a] THEN n + 1 ELSE S[a]
<1>5. S[a] = Sequence(a)
  BY <1>3
<1>6. op.ticket # 0 => n \in held[a] /\ n < Sequence(a)
  BY <1>0, <1>t DEF TicketsBelow, NumberOf
<1>7. after = IF op.ticket = 0 THEN Sequence(a) + 1 ELSE Sequence(a)
  BY <1>2, <1>5, <1>6, <1>t DEF NumberOf
<1>8. Sequence(a)' = after + k
  <2>1. CASE op.ticket = 0
    BY <1>0, <1>1, <1>2, <1>7, <1>t, <2>1 DEF PlanTypeOK, Sequence, ResolvedNext
  <2>2. CASE op.ticket # 0 /\ k # 0
    BY <1>0, <1>1, <1>2, <1>7, <1>t, <2>2 DEF PlanTypeOK, Sequence, ResolvedNext
  <2>3. CASE op.ticket # 0 /\ k = 0
    BY <1>0, <1>1, <1>2, <1>7, <1>t, <2>3 DEF PlanTypeOK, Sequence, ResolvedNext
  <2> QED BY <2>1, <2>2, <2>3
<1>9. Created(op) = after .. (after + k - 1)
  BY <1>7, <1>t DEF Created
<1>10. S' = [S EXCEPT ![a] = after + k]
  BY <1>3, <1>4, <1>8
<1>11. ASSUME NEW b \in Accounts
       PROVE  Unspent(b)' = {t \in held'[b] : t \in held[b] => t \in Unspent(b) /\ <<b, t>> # <<a, n>>}
  <2>1. Len(nonces) \in Nat /\ nonces \in Seq(Accounts \X Nat)
    BY <1>0 DEF PlanTypeOK
  <2>2. \A t : (\A i \in 1 .. Len(nonces') : nonces'[i] # <<b, t>>)
               <=> (\A i \in 1 .. Len(nonces) : nonces[i] # <<b, t>>) /\ <<a, n>> # <<b, t>>
    <3>1. /\ Len(nonces') = Len(nonces) + 1 /\ nonces'[Len(nonces) + 1] = <<a, n>>
          /\ \A i \in 1 .. Len(nonces) : nonces'[i] = nonces[i]
      BY <1>1, <1>2, <2>1
    <3>2. 1 .. Len(nonces') = (1 .. Len(nonces)) \cup {Len(nonces) + 1}
      BY <2>1, <3>1
    <3> QED BY <3>1, <3>2
  <2>3. ASSUME NEW t \in held'[b], t \notin held[b]
        PROVE  (\A i \in 1 .. Len(nonces) : nonces[i] # <<b, t>>) /\ <<a, n>> # <<b, t>>
    <3>1. b = a /\ t \in Created(op)
      BY <1>0, <1>1, <2>3 DEF PlanTypeOK
    <3>2. t \in Nat /\ t >= after
      BY <1>2, <1>7, <1>9, <3>1
    <3>3. n < after
      BY <1>2, <1>6, <1>7, <1>t DEF NumberOf
    <3>4. \A i \in 1 .. Len(nonces) : nonces[i] = <<a, t>> => t < Sequence(a)
      BY <1>0, <3>2 DEF NumbersSpent
    <3> QED BY <1>2, <1>7, <3>1, <3>2, <3>3, <3>4
  <2>4. held[b] \subseteq held'[b]
    BY <1>0, <1>1 DEF PlanTypeOK
  <2> QED BY <2>2, <2>3, <2>4 DEF Unspent
<1>12. Created(op) \cap held[a] = {}
  <2>1. \A t \in Created(op) : t \in Nat /\ t >= Sequence(a)
    BY <1>2, <1>7, <1>9
  <2> QED BY <1>0, <1>2, <2>1 DEF TicketsBelow, PlanTypeOK
<1>13. \A b \in Accounts : Unspent(b) \subseteq held[b]
  BY DEF Unspent
<1>14. Unspent(a)' = (Unspent(a) \ {n}) \cup Created(op)
  <2>1. held'[a] = held[a] \cup Created(op)
    BY <1>0, <1>1 DEF PlanTypeOK
  <2>2. \A t : <<a, t>> # <<a, n>> <=> t # n
    OBVIOUS
  <2> QED BY <1>11, <1>12, <1>13, <2>1, <2>2
<1>15. \A b \in Accounts : b # a => Unspent(b)' = Unspent(b)
  <2>1. ASSUME NEW b \in Accounts, b # a PROVE Unspent(b)' = Unspent(b)
    <3>1. held'[b] = held[b]
      BY <1>0, <1>1, <2>1 DEF PlanTypeOK
    <3> QED BY <1>11, <1>13, <2>1, <3>1
  <2> QED BY <2>1
<1>16. T' = [T EXCEPT ![a] = (@ \ {n}) \cup after .. (after + k - 1)]
  BY <1>9, <1>14, <1>15
<1>17. n = S[a] \/ n \in T[a]
  <2>1. CASE op.ticket = 0
    BY <1>5, <1>t, <2>1 DEF NumberOf
  <2>2. CASE op.ticket # 0
    <3>1. \A i \in 1 .. Len(nonces) : nonces[i] # <<a, n>>
      BY <1>0, <1>1, <1>2, <1>6, <2>2 DEF NumbersSpent
    <3> QED BY <1>6, <2>2, <3>1 DEF Unspent
  <2> QED BY <2>1, <2>2
<1>18. Ledger!Apply(a, n, k)
  BY <1>1, <1>10, <1>16, <1>17 DEF Ledger!Apply
<1> QED BY <1>17, <1>18, <1>t DEF Ledger!Next

LEMMA MapPlan ==
    ASSUME PlanInv, pc = "plan" => outer \in Callers, PlanStep
    PROVE  [Ledger!Next]_(Ledger!nonceVars)
<1>1. ASSUME NEW a \in Accounts, OtherTransaction(a) PROVE [Ledger!Next]_(Ledger!nonceVars)
  BY <1>1, MapOther
<1>2. CASE PlanOuter
  BY <1>2, MapOuter DEF PlanStep
<1>3. ASSUME NEW a \in Accounts, NEW op \in Operations(a), Resolve(op) PROVE Ledger!Next
  BY <1>3, MapResolve
<1>4. ASSUME NEW a \in Accounts, NEW op \in Operations(a), Refuse(op)
      PROVE  UNCHANGED Ledger!nonceVars
  <2>1. /\ UNCHANGED <<open, held, nonces>> /\ op.account = a
        /\ planning = "inners" /\ planning' = "refused" /\ PlanTypeOK
        /\ next' = next \/ next' = [next EXCEPT ![a] = Sequence(a)]
    BY <1>4, OperationType DEF Refuse, PlanInv
  <2>2. \A b \in Accounts : LedgerSequence(b)' = LedgerSequence(b) /\ Unspent(b)' = Unspent(b)
    BY <2>1 DEF PlanTypeOK, LedgerSequence, Sequence, Unspent
  <2> QED BY <2>1, <2>2 DEF Ledger!nonceVars
<1>5. CASE FinishPlan
  <2>1. UNCHANGED <<open, held, next, nonces>> /\ planning # "outer" /\ planning' # "outer"
    BY <1>5 DEF FinishPlan
  <2>2. \A b \in Accounts : LedgerSequence(b)' = LedgerSequence(b) /\ Unspent(b)' = Unspent(b)
    BY <2>1 DEF LedgerSequence, Sequence, Unspent
  <2> QED BY <2>1, <2>2 DEF Ledger!nonceVars
<1> QED BY <1>1, <1>2, <1>3, <1>4, <1>5 DEF PlanStep, PlanNext, PlanInner

\* Every batch planned is one the ledger applies: each transaction carries the
\* number the ledger asks of it, for batches of any size, with tickets and
\* TicketCreates mixed over any number of accounts, and whatever other
\* transactions enter the open ledger before the account's first read.
THEOREM BuildImplementsNonces == BuildSpec => ImplementsNonces
<1>1. BuildInit => nonces = << >>
  BY DEF BuildInit, PlanInit
<1>2. BuildInv /\ [BuildNext]_vars => [Ledger!Next]_(Ledger!nonceVars)
  <2> SUFFICES ASSUME BuildInv, [BuildNext]_vars PROVE [Ledger!Next]_(Ledger!nonceVars)
      OBVIOUS
  <2>1. CASE PlanStep
    BY <2>1, MapPlan DEF BuildInv, BegunInv, Beginning
  <2>2. CASE PlanMade
    BY <2>2 DEF PlanMade, Ledger!Next, Ledger!NextBatch
  <2>3. CASE UNCHANGED planVars
    BY <2>3 DEF planVars, Ledger!nonceVars, LedgerSequence, Sequence, Unspent
  <2> QED BY <2>1, <2>2, <2>3, OtherSteps DEF vars
<1> QED BY <1>1, <1>2, BuildInvHolds, PTL DEF BuildSpec, ImplementsNonces, Ledger!Spec

-----------------------------------------------------------------------------
(* The tokens a build reads, as a fold over its operations: a token is among
   them exactly if an operation touches it.                                 *)

LEMMA NatSet ==
    ASSUME NEW S, 0 \in S, \A n \in Nat : n \in S => n + 1 \in S
    PROVE  Nat \subseteq S
<1> SUFFICES ASSUME Nat \ S # {} PROVE FALSE
    OBVIOUS
<1> DEFINE R == OpToRel(<, Nat)
<1>1. PICK n \in Nat \ S : \A m \in Nat \ S : ~(<<m, n>> \in R)
  <2> HIDE DEF R
  <2>1. IsWellFoundedOn(R, Nat)
    BY NatLessThanWellFounded DEF R
  <2> QED BY <2>1, WFMin
<1>2. \A m \in Nat : m < n => m \in S
  BY <1>1 DEF OpToRel
<1>3. n # 0 /\ n - 1 \in Nat /\ n - 1 < n /\ (n - 1) + 1 = n
  OBVIOUS
<1> QED BY <1>2, <1>3

Largest(S) == CHOOSE x \in S : \A y \in S : x >= y
ReferencesStep(ops, g, S) ==
  IF S = {} THEN << >>
  ELSE Mention(Mention(g[S \ {Largest(S)}], ops[Largest(S)][2]), ops[Largest(S)][3])
ReferencesIter(ops, U) == CHOOSE g : g = [S \in SUBSET U |-> ReferencesStep(ops, g, S)]

LEMMA ReferencesIs ==
    ASSUME NEW ops
    PROVE  ReferencesOf(ops) = ReferencesIter(ops, DOMAIN ops)[DOMAIN ops]
BY DEF ReferencesOf, FoldLeft, MapThenFoldSet, Max, Largest, ReferencesIter, ReferencesStep

LEMMA LargestExists ==
    ASSUME NEW n \in Nat, NEW S \in SUBSET (1 .. n + 1)
    PROVE  S # {} => Largest(S) \in S /\ S \ {Largest(S)} \in SUBSET (1 .. n)
<1> DEFINE C == {m \in Nat : \A T \in SUBSET (1 .. m) : T # {} =>
                               \E x \in T : \A y \in T : x >= y}
<1>1. 0 \in C
  <2>1. \A T \in SUBSET (1 .. 0) : T = {}
    OBVIOUS
  <2> QED BY <2>1
<1>2. ASSUME NEW m \in Nat, m \in C PROVE m + 1 \in C
  <2> SUFFICES ASSUME NEW T \in SUBSET (1 .. m + 1), T # {}
               PROVE  \E x \in T : \A y \in T : x >= y
      OBVIOUS
  <2>1. CASE m + 1 \in T
    BY <2>1
  <2>2. CASE m + 1 \notin T
    <3>1. T \in SUBSET (1 .. m)
      BY <2>2
    <3> QED BY <1>2, <3>1
  <2> QED BY <2>1, <2>2
<1>3. n + 1 \in C
  <2> HIDE DEF C
  <2> QED BY <1>1, <1>2, NatSet
<1> SUFFICES ASSUME S # {} PROVE Largest(S) \in S /\ S \ {Largest(S)} \in SUBSET (1 .. n)
    OBVIOUS
<1>4. \E x \in S : \A y \in S : x >= y
  BY <1>3
<1>5. Largest(S) \in S /\ \A y \in S : Largest(S) >= y
  BY <1>4 DEF Largest
<1>6. ASSUME NEW y \in S, y # Largest(S) PROVE y \in 1 .. n
  <2>1. Largest(S) \in 1 .. n + 1 /\ y \in 1 .. n + 1 /\ Largest(S) >= y
    BY <1>5
  <2> QED BY <1>6, <2>1
<1> QED BY <1>5, <1>6

LEMMA ReferencesDefined ==
    ASSUME NEW ops, NEW n \in Nat
    PROVE  \A S \in SUBSET (1 .. n) :
             ReferencesIter(ops, 1 .. n)[S] = ReferencesStep(ops, ReferencesIter(ops, 1 .. n), S)
<1> DEFINE Solves(g, m) == g = [S \in SUBSET (1 .. m) |-> ReferencesStep(ops, g, S)]
           C == {m \in Nat : \E g : Solves(g, m)}
<1>1. 0 \in C
  <2> DEFINE g == [S \in SUBSET (1 .. 0) |-> << >>]
  <2>1. \A S \in SUBSET (1 .. 0) : S = {}
    OBVIOUS
  <2>2. Solves(g, 0)
    BY <2>1 DEF ReferencesStep
  <2> QED BY <2>2
<1>2. ASSUME NEW m \in Nat, m \in C PROVE m + 1 \in C
  <2>1. PICK g : Solves(g, m)
    BY <1>2
  <2> DEFINE h == [S \in SUBSET (1 .. m + 1) |-> ReferencesStep(ops, g, S)]
  <2>2. ASSUME NEW S \in SUBSET (1 .. m) PROVE S \in SUBSET (1 .. m + 1) /\ h[S] = g[S]
    BY <2>1
  <2>3. ASSUME NEW S \in SUBSET (1 .. m + 1)
        PROVE  ReferencesStep(ops, g, S) = ReferencesStep(ops, h, S)
    <3>1. CASE S = {}
      BY <3>1 DEF ReferencesStep
    <3>2. CASE S # {}
      <4>1. h[S \ {Largest(S)}] = g[S \ {Largest(S)}]
        BY <2>2, <3>2, LargestExists
      <4> QED BY <4>1 DEF ReferencesStep
    <3> QED BY <3>1, <3>2
  <2>4. Solves(h, m + 1)
    BY <2>3
  <2> HIDE DEF Solves
  <2> QED BY <2>4
<1>3. n \in C
  <2> HIDE DEF C
  <2> QED BY <1>1, <1>2, NatSet
<1>4. PICK g : g = [S \in SUBSET (1 .. n) |-> ReferencesStep(ops, g, S)]
  BY <1>3
<1>5. ReferencesIter(ops, 1 .. n)
        = [S \in SUBSET (1 .. n) |-> ReferencesStep(ops, ReferencesIter(ops, 1 .. n), S)]
  BY <1>4 DEF ReferencesIter
<1> QED BY <1>5

LEMMA MentionAdds ==
    ASSUME NEW refs \in Seq(Holders), NEW h \in Holders
    PROVE  /\ Mention(refs, h) \in Seq(Holders)
           /\ \A g : Contains(Mention(refs, h), g) <=> Contains(refs, g) \/ g = h
<1>1. CASE Contains(refs, h)
  BY <1>1 DEF Mention
<1>2. CASE ~Contains(refs, h)
  <2>1. Mention(refs, h) = Append(refs, h)
    BY <1>2 DEF Mention
  <2>2. /\ Append(refs, h) \in Seq(Holders) /\ Len(Append(refs, h)) = Len(refs) + 1 /\ Len(refs) \in Nat
        /\ \A i \in 1 .. Len(refs) : Append(refs, h)[i] = refs[i]
        /\ Append(refs, h)[Len(refs) + 1] = h
    OBVIOUS
  <2>3. 1 .. Len(Append(refs, h)) = (1 .. Len(refs)) \cup {Len(refs) + 1}
    BY <2>2
  <2> QED BY <2>1, <2>2, <2>3 DEF Contains
<1> QED BY <1>1, <1>2

OperationsOf(n) == [1 .. n -> UNION {Work(k) : k \in Kinds}]
IsWork(ops) == \E n \in Nat : ops \in OperationsOf(n) /\ (n = 0 => ops = << >>)

LEMMA WorkTouches ==
    ASSUME NEW n \in Nat, NEW ops \in OperationsOf(n), NEW i \in 1 .. n
    PROVE  ops[i][2] \in Holders /\ ops[i][3] \in Holders
<1>1. PICK k \in Kinds : ops[i] \in Work(k)
  BY DEF OperationsOf
<1> QED BY <1>1 DEF Work

\* Every token an operation touches is read, and no other.
LEMMA ReferencesComplete ==
    ASSUME NEW n \in Nat, NEW ops \in OperationsOf(n)
    PROVE  /\ ReferencesOf(ops) \in Seq(Holders)
           /\ \A h : Contains(ReferencesOf(ops), h) <=> \E i \in 1 .. n : h \in Touched(ops[i])
<1> DEFINE I == ReferencesIter(ops, 1 .. n)
           Right(m) == /\ I[1 .. m] \in Seq(Holders)
                       /\ \A h : Contains(I[1 .. m], h) <=> \E i \in 1 .. m : h \in Touched(ops[i])
           C == {m \in Nat : m <= n => Right(m)}
<1>0. \A S \in SUBSET (1 .. n) : I[S] = ReferencesStep(ops, I, S)
  BY ReferencesDefined
<1> HIDE DEF I
<1>1. 0 \in C
  <2>1. 1 .. 0 = {} /\ {} \in SUBSET (1 .. n)
    OBVIOUS
  <2>2. I[1 .. 0] = << >>
    BY <1>0, <2>1 DEF ReferencesStep
  <2>3. << >> \in Seq(Holders) /\ Len(<< >>) = 0
    OBVIOUS
  <2>4. Right(0)
    BY <2>1, <2>2, <2>3 DEF Contains
  <2> QED BY <2>4
<1>2. ASSUME NEW m \in Nat, m \in C PROVE m + 1 \in C
  <2> SUFFICES ASSUME m + 1 <= n PROVE Right(m + 1)
      OBVIOUS
  <2>1. Right(m)
    BY <1>2
  <2>2. Largest(1 .. m + 1) = m + 1
    <3>1. m + 1 \in 1 .. m + 1 /\ \A y \in 1 .. m + 1 : m + 1 >= y
      OBVIOUS
    <3>2. Largest(1 .. m + 1) \in 1 .. m + 1 /\ \A y \in 1 .. m + 1 : Largest(1 .. m + 1) >= y
      BY <3>1 DEF Largest
    <3> QED BY <3>1, <3>2
  <2>3. 1 .. m + 1 # {} /\ (1 .. m + 1) \ {m + 1} = 1 .. m /\ 1 .. m + 1 \in SUBSET (1 .. n)
    OBVIOUS
  <2> DEFINE op == ops[m + 1]
             once == Mention(I[1 .. m], op[2])
  <2>4. I[1 .. m + 1] = Mention(once, op[3])
    BY <1>0, <2>2, <2>3 DEF ReferencesStep
  <2>5. op[2] \in Holders /\ op[3] \in Holders
    BY WorkTouches
  <2>6. once \in Seq(Holders) /\ \A g : Contains(once, g) <=> Contains(I[1 .. m], g) \/ g = op[2]
    BY <2>1, <2>5, MentionAdds
  <2>7. /\ I[1 .. m + 1] \in Seq(Holders)
        /\ \A g : Contains(I[1 .. m + 1], g) <=> Contains(once, g) \/ g = op[3]
    <3>1. once \in Seq(Holders) /\ op[3] \in Holders
      BY <2>5, <2>6
    <3> HIDE DEF once, op
    <3> QED BY <2>4, <3>1, MentionAdds
  <2>8. 1 .. m + 1 = (1 .. m) \cup {m + 1}
    OBVIOUS
  <2> QED BY <2>1, <2>6, <2>7, <2>8 DEF Touched
<1>3. n \in C
  <2> HIDE DEF C
  <2> QED BY <1>1, <1>2, NatSet
<1>4. DOMAIN ops = 1 .. n
  BY DEF OperationsOf
<1>5. ReferencesOf(ops) = I[1 .. n]
  BY <1>4, ReferencesIs DEF I
<1> QED BY <1>3, <1>5

-----------------------------------------------------------------------------
(* The reads of a build: what is known of the entries at each of its steps.  *)

\* A build has operations of its kinds, and starts with the first token.
WorkInv ==
  /\ kind \in Kinds \cup {"batch", "balance"}
  /\ IsWork(work)
  /\ pc \in Beginning \cup {"choose", "issuance"} \/ kind = "balance" => at = 1
  /\ pc \in {"issuance", "token", "version"} => work # << >>
  /\ pc \in {"token", "version"} => at \in 1 .. Len(References)

\* A token that is no obstacle to any of the operations.
Passed(h) ==
  /\ tokens[h] # Unread /\ ~TokenRefused(h, tokens[h])
  /\ NeedsFreshVersion(h) => h \in fresh

\* The issuance and the tokens before the current one are no obstacle, and when the
\* build is refused one of them is.
ReadingInv ==
  kind # "balance" =>
    /\ pc \in {"token", "version"} =>
         /\ ~IssuanceRefused(issuance)
         /\ \A k \in 1 .. at - 1 : Passed(References[k])
    /\ pc = "version" =>
         tokens[References[at]] # Unread /\ ~TokenRefused(References[at], tokens[References[at]])
    /\ pc = "built" /\ work # << >> =>
         /\ ~IssuanceRefused(issuance)
         /\ \A k \in 1 .. Len(References) : Passed(References[k])
    /\ pc = "refused" => \E i \in 1 .. Len(work) : TransactorRejects(work[i])

StaleInv == pc = "stale" => Superseding

EntriesInv ==
  /\ SnapshotTypeOK
  /\ issuance \in Issuances \cup {Unread}
  /\ tokens \in [Holders -> Tokens \cup {Unread}]
  /\ fresh \subseteq Holders

LEMMA ReadEntries ==
  (\A t \in Tokens : t # Unread) /\ (\A i \in Issuances : i # Unread)
BY DEF Tokens, Issuances, Missing, Unread

LEMMA ReferencesRead ==
    ASSUME WorkInv
    PROVE  /\ Len(References) \in Nat
           /\ work # << >> => Len(References) >= 1 /\ 1 \in 1 .. Len(work)
           /\ \A k \in 1 .. Len(References) :
                /\ References[k] \in Holders
                /\ \E i \in 1 .. Len(work) : References[k] \in Touched(work[i])
           /\ \A i \in 1 .. Len(work) : \A h \in Touched(work[i]) :
                \E k \in 1 .. Len(References) : References[k] = h
           /\ \A i \in 1 .. Len(work) : Touched(work[i]) \subseteq Holders
<1>1. PICK n \in Nat : work \in OperationsOf(n) /\ (n = 0 => work = << >>)
  BY DEF WorkInv, IsWork
<1>2. work \in Seq(UNION {Work(k) : k \in Kinds}) /\ Len(work) = n
  <2> DEFINE O == UNION {Work(k) : k \in Kinds}
  <2>1. work \in [1 .. n -> O]
    BY <1>1 DEF OperationsOf
  <2> HIDE DEF O
  <2>2. work \in Seq(O)
    BY <2>1, SeqDef
  <2>3. Len(work) \in Nat /\ 1 .. Len(work) = 1 .. n
    BY <2>1, <2>2, LenProperties
  <2>4. Len(work) = n
    <3>1. Len(work) # 0 => Len(work) \in 1 .. n
      BY <2>3
    <3>2. n # 0 => n \in 1 .. Len(work)
      BY <2>3
    <3> QED BY <2>3, <3>1, <3>2
  <2> QED BY <2>2, <2>4 DEF O
<1>3. /\ References \in Seq(Holders)
      /\ \A h : Contains(References, h) <=> \E i \in 1 .. n : h \in Touched(work[i])
  BY <1>1, ReferencesComplete DEF References
<1>4. \A i \in 1 .. n : Touched(work[i]) \subseteq Holders
  BY <1>1, WorkTouches DEF Touched
<1>5. Len(References) \in Nat /\ \A k \in 1 .. Len(References) : References[k] \in Holders
  BY <1>3
<1>6. \A k \in 1 .. Len(References) : Contains(References, References[k])
  BY DEF Contains
<1>7. \A i \in 1 .. n : \A h \in Touched(work[i]) : \E k \in 1 .. Len(References) : References[k] = h
  BY <1>3 DEF Contains
<1>8. work # << >> => Len(References) >= 1 /\ 1 \in 1 .. n
  <2> SUFFICES ASSUME work # << >> PROVE Len(References) >= 1 /\ 1 \in 1 .. n
      OBVIOUS
  <2>1. 1 \in 1 .. n
    BY <1>1
  <2>2. work[1][2] \in Touched(work[1])
    BY DEF Touched
  <2>3. PICK k \in 1 .. Len(References) : References[k] = work[1][2]
    BY <1>7, <2>1, <2>2
  <2> QED BY <1>5, <2>1, <2>3
<1> QED BY <1>2, <1>3, <1>4, <1>5, <1>6, <1>7, <1>8

\* Up to the choice of the operations nothing is read, and a failure ends the call.
LEMMA EarlyStep ==
    ASSUME OptionsGiven \/ PlanStep \/ PlanMade \/ QueryFails
             \/ \E i \in 1 .. MaxLedger : AccountValidated(i)
    PROVE  /\ UNCHANGED <<kind, work, at, fresh, versions, issuance, tokens>>
           /\ pc' = "failed" \/ (pc \in Beginning /\ pc' \in {"resolved", "plan", "choose"})
BY DEF OptionsGiven, PlanStep, PlanMade, QueryFails, AccountValidated, Goto, buildVars, Beginning

LEMMA ChooseWorkStep ==
    ASSUME WorkInv, ChooseWork
    PROVE  /\ IsWork(work')
           /\ at = 1 /\ at' = 1 /\ UNCHANGED <<kind, fresh, versions, issuance, tokens>>
           /\ pc' = IF work' = << >> THEN "built" ELSE IF kind = "balance" THEN "token" ELSE "issuance"
<1>1. work' \in WorkChoices
  BY DEF ChooseWork
<1>2. CASE kind = "batch"
  <2>1. PICK n \in 0 .. MaxWork : work' \in [1 .. n -> UNION {Work(k) : k \in Kinds}]
    BY <1>1, <1>2 DEF WorkChoices
  <2>2. n = 0 => work' = << >>
    <3> SUFFICES ASSUME n = 0 PROVE work' = << >>
        OBVIOUS
    <3>1. DOMAIN work' = {}
      BY <2>1
    <3> DEFINE O == UNION {Work(k) : k \in Kinds}
    <3>2. work' \in [1 .. 0 -> O]
      BY <2>1
    <3> HIDE DEF O
    <3>3. work' \in Seq(O) /\ Len(work') \in Nat /\ 1 .. Len(work') = {}
      BY <3>1, <3>2, SeqDef, LenProperties
    <3>4. Len(work') # 0 => 1 \in 1 .. Len(work')
      BY <3>3
    <3> QED BY <3>3, <3>4, EmptySeq
  <2>3. n \in Nat
    BY <2>1
  <2> QED BY <2>1, <2>2, <2>3 DEF ChooseWork, OperationsOf, IsWork, WorkInv
<1>3. CASE kind # "batch"
  <2> DEFINE k == IF kind = "balance" THEN "clawback" ELSE kind
  <2>1. k \in Kinds
    BY <1>3 DEF WorkInv, Kinds
  <2>2. PICK op \in Work(k) : work' = <<op>>
    BY <1>1, <1>3 DEF WorkChoices
  <2>3. work' \in OperationsOf(1)
    <3>1. op \in UNION {Work(j) : j \in Kinds}
      BY <2>1, <2>2
    <3> DEFINE O == UNION {Work(j) : j \in Kinds}
    <3>2. op \in O
      BY <3>1
    <3> HIDE DEF O
    <3>3. <<op>> \in [1 .. 1 -> O]
      BY <3>2
    <3> QED BY <2>2, <3>3 DEF OperationsOf, O
  <2> QED BY <2>3 DEF ChooseWork, IsWork, WorkInv
<1> QED BY <1>2, <1>3

LEMMA StepWork == ASSUME WorkInv, BuildNext PROVE WorkInv'
<1>0. ASSUME UNCHANGED <<kind, work>> PROVE References' = References
  BY <1>0 DEF References
<1>1. CASE OptionsGiven \/ PlanStep \/ PlanMade \/ QueryFails
             \/ \E i \in 1 .. MaxLedger : AccountValidated(i)
  <2>1. References' = References
    BY <1>0, <1>1, EarlyStep
  <2> QED BY <1>1, <2>1, EarlyStep DEF WorkInv, Beginning
<1>2. CASE ChooseWork
  <2>1. IsWork(work') /\ at' = 1 /\ UNCHANGED kind
        /\ pc' = IF work' = << >> THEN "built" ELSE IF kind = "balance" THEN "token" ELSE "issuance"
    BY <1>2, ChooseWorkStep
  <2>2. ASSUME pc' = "token" PROVE 1 \in 1 .. Len(References')
    <3>1. PICK n \in Nat : work' \in OperationsOf(n) /\ (n = 0 => work' = << >>)
      BY <2>1 DEF IsWork
    <3>2. 1 \in 1 .. n
      BY <2>1, <2>2, <3>1
    <3>3. /\ ReferencesOf(work') \in Seq(Holders)
          /\ \A h : Contains(ReferencesOf(work'), h) <=> \E i \in 1 .. n : h \in Touched(work'[i])
      BY <3>1, ReferencesComplete
    <3>4. Contains(ReferencesOf(work'), work'[1][2])
      BY <3>2, <3>3 DEF Touched
    <3> QED BY <3>3, <3>4 DEF Contains, References
  <2> QED BY <2>1, <2>2 DEF WorkInv, Beginning
<1>3. ASSUME NEW l \in Ledgers, NEW i \in Issuances, ReadIssuance(l, i) PROVE WorkInv'
  <2>1. /\ UNCHANGED <<kind, work, at>> /\ pc = "issuance"
        /\ pc' \in {"refused", "built", "token"}
    BY <1>3 DEF ReadIssuance, Goto
  <2>2. References' = References
    BY <1>0, <2>1
  <2>3. 1 \in 1 .. Len(References)
    BY <2>1, ReferencesRead DEF WorkInv
  <2> QED BY <2>1, <2>2, <2>3 DEF WorkInv, Beginning
<1>4. ASSUME UNCHANGED <<kind, work>>, pc \in {"token", "version"},
             \/ pc' \in {"refused", "version", "stale", "stale_missing"} /\ UNCHANGED at
             \/ \E t : pc' = AfterToken(t) /\ at' = IF pc' = "token" THEN at + 1 ELSE at
      PROVE  WorkInv'
  <2>1. References' = References
    BY <1>0, <1>4
  <2>2. at \in 1 .. Len(References) /\ Len(References) \in Nat /\ work # << >>
    BY <1>4, ReferencesRead DEF WorkInv
  <2>3. ASSUME NEW t, pc' = AfterToken(t), at' = IF pc' = "token" THEN at + 1 ELSE at
        PROVE  /\ pc' \in {"token", "issuance", "built"}
               /\ pc' = "token" => at' \in 1 .. Len(References)
               /\ pc' # "token" => at' = at
               /\ pc' = "issuance" => kind = "balance"
               /\ kind = "balance" => pc' # "token"
    BY <2>2, <2>3 DEF AfterToken
  <2> QED BY <1>4, <2>1, <2>2, <2>3 DEF WorkInv, Beginning
<1>5. ASSUME NEW l \in Ledgers, NEW t \in Tokens, ReadToken(l, t) PROVE WorkInv'
  BY <1>4, <1>5 DEF ReadToken, Advance
<1>6. ASSUME NEW v \in Histories, NEW from \in 1 .. MaxLedger + 1, NEW current \in {0, from},
             CheckVersion(v, from, current)
      PROVE  WorkInv'
  BY <1>4, <1>6 DEF CheckVersion
<1> QED BY <1>1, <1>2, <1>3, <1>5, <1>6 DEF BuildNext

LEMMA StepEntries == ASSUME WorkInv, EntriesInv, BuildNext PROVE EntriesInv'
<1> USE DEF EntriesInv, SnapshotTypeOK
<1>1. CASE OptionsGiven \/ PlanStep \/ PlanMade \/ QueryFails \/ ChooseWork
  <2>1. UNCHANGED <<issuance, tokens, fresh>>
    BY <1>1, EarlyStep, ChooseWorkStep
  <2>2. UNCHANGED snapshotVars
    BY <1>1 DEF OptionsGiven, PlanStep, PlanMade, QueryFails, ChooseWork
  <2> QED BY <2>1, <2>2 DEF snapshotVars
<1>2. ASSUME NEW i \in 1 .. MaxLedger, AccountValidated(i) PROVE EntriesInv'
  BY <1>2, LedgerAssumption DEF AccountValidated, SelectIndex, Goto
<1>3. ASSUME NEW l \in Ledgers, UNCHANGED snapshotVars \/ Bind(l) PROVE SnapshotTypeOK'
  BY <1>3, LedgerAssumption DEF snapshotVars, Bind, Ledgers, IndexOf
<1>4. ASSUME NEW l \in Ledgers, NEW i \in Issuances, ReadIssuance(l, i) PROVE EntriesInv'
  <2>1. UNCHANGED <<tokens, fresh>> /\ issuance' = i /\ (UNCHANGED snapshotVars \/ Bind(l))
    BY <1>4 DEF ReadIssuance, Goto
  <2> QED BY <1>3, <2>1
<1>5. ASSUME NEW l \in Ledgers, NEW t \in Tokens, ReadToken(l, t) PROVE EntriesInv'
  <2>1. /\ UNCHANGED <<issuance, fresh>> /\ tokens' = [tokens EXCEPT ![References[at]] = t]
        /\ UNCHANGED snapshotVars \/ Bind(l)
    BY <1>5 DEF ReadToken, Advance
  <2> QED BY <1>3, <2>1
<1>6. ASSUME NEW v \in Histories, NEW from \in 1 .. MaxLedger + 1, NEW current \in {0, from},
             CheckVersion(v, from, current)
      PROVE  EntriesInv'
  <2>1. UNCHANGED <<issuance, tokens, snapshotVars>> /\ fresh' = fresh \cup {References[at]}
        /\ pc = "version"
    BY <1>6 DEF CheckVersion
  <2>2. References[at] \in Holders
    BY <2>1, ReferencesRead DEF WorkInv
  <2> QED BY <2>1, <2>2 DEF snapshotVars
<1> QED BY <1>1, <1>2, <1>4, <1>5, <1>6 DEF BuildNext

LEMMA SameJudgement ==
    ASSUME UNCHANGED <<kind, work, issuance>>
    PROVE  /\ References' = References
           /\ IssuanceRefused(issuance)' <=> IssuanceRefused(issuance)
           /\ \A h : NeedsFreshVersion(h)' <=> NeedsFreshVersion(h)
           /\ \A h, t : TokenRefused(h, t)' <=> TokenRefused(h, t)
BY DEF References, IssuanceRefused, NeedsIssuerKey, NeedsFreshVersion, TokenRefused, Usable

\* A token that is an obstacle to the build is one to an operation that touches it.
LEMMA TokenRejected ==
    ASSUME WorkInv, EntriesInv, kind # "balance", at \in 1 .. Len(References), NEW t \in Tokens,
           TokenRefused(References[at], t), UNCHANGED <<kind, work, issuance>>,
           tokens' = [tokens EXCEPT ![References[at]] = t]
    PROVE  \E i \in 1 .. Len(work) : TransactorRejects(work[i])'
<1> DEFINE h == References[at]
<1>1. h \in Holders /\ \E i \in 1 .. Len(work) : h \in Touched(work[i])
  BY ReferencesRead
<1>2. tokens'[h] = t /\ t # Unread
  BY <1>1, ReadEntries DEF EntriesInv
<1> HIDE DEF h
<1>3. CASE t = Missing
  BY <1>1, <1>2, <1>3 DEF TransactorRejects
<1>4. CASE t # Missing /\ Usable(h) /\ HolderRefused(issuance, t)
  <2>1. PICK i \in 1 .. Len(work) : KindOf(work[i]) # "clawback" /\ h \in Touched(work[i])
    BY <1>4 DEF Usable, RunsHolderChecks
  <2> QED BY <1>2, <1>4, <2>1 DEF TransactorRejects
<1>5. CASE t # Missing /\ kind \in Kinds /\ ~t.ready
  BY <1>1, <1>2, <1>5 DEF TransactorRejects, Kinds
<1> QED BY <1>3, <1>4, <1>5 DEF TokenRefused, h

LEMMA IssuanceRejected ==
    ASSUME WorkInv, kind # "balance", work # << >>, NEW i \in Issuances, IssuanceRefused(i),
           UNCHANGED <<kind, work>>, issuance' = i
    PROVE  \E k \in 1 .. Len(work) : TransactorRejects(work[k])'
<1>1. 1 \in 1 .. Len(work) /\ i # Unread
  BY ReferencesRead, ReadEntries
<1>2. CASE i = Missing \/ ~i.confidential
  BY <1>1, <1>2 DEF TransactorRejects
<1>3. CASE NeedsIssuerKey /\ ~i.issuerKey
  BY <1>1, <1>3 DEF TransactorRejects, NeedsIssuerKey
<1>4. CASE kind \in Kinds /\ ~i.permits
  BY <1>1, <1>4 DEF TransactorRejects, Kinds
<1> QED BY <1>2, <1>3, <1>4 DEF IssuanceRefused

LEMMA StepReading ==
    ASSUME WorkInv, EntriesInv, ReadingInv, StaleInv, BuildNext
    PROVE  ReadingInv' /\ StaleInv'
<1>1. CASE OptionsGiven \/ PlanStep \/ PlanMade \/ QueryFails
             \/ \E i \in 1 .. MaxLedger : AccountValidated(i)
  <2>1. pc' \in {"resolved", "plan", "choose", "failed"}
    BY <1>1, EarlyStep
  <2> QED BY <2>1 DEF ReadingInv, StaleInv
<1>2. CASE ChooseWork
  BY <1>2, ChooseWorkStep DEF ReadingInv, StaleInv
<1>3. ASSUME NEW l \in Ledgers, NEW i \in Issuances, ReadIssuance(l, i)
      PROVE  ReadingInv' /\ StaleInv'
  <2>1. /\ pc = "issuance" /\ issuance' = i /\ UNCHANGED <<kind, work, at>>
        /\ pc' = IF IssuanceRefused(i) THEN "refused"
                 ELSE IF kind = "balance" THEN "built" ELSE "token"
    BY <1>3 DEF ReadIssuance, Goto
  <2>2. at = 1 /\ work # << >>
    BY <2>1 DEF WorkInv
  <2>3. CASE kind = "balance"
    BY <2>1, <2>3 DEF ReadingInv, StaleInv
  <2>4. CASE kind # "balance" /\ IssuanceRefused(i)
    <3>1. \E k \in 1 .. Len(work) : TransactorRejects(work[k])'
      BY <2>1, <2>2, <2>4, IssuanceRejected
    <3> QED BY <2>1, <2>4, <3>1 DEF ReadingInv, StaleInv
  <2>5. CASE kind # "balance" /\ ~IssuanceRefused(i)
    <3>1. ~IssuanceRefused(issuance)' /\ pc' = "token" /\ at' = 1
      BY <2>1, <2>2, <2>5 DEF IssuanceRefused, NeedsIssuerKey
    <3> QED BY <3>1 DEF ReadingInv, StaleInv
  <2> QED BY <2>3, <2>4, <2>5
<1>4. ASSUME NEW l \in Ledgers, NEW t \in Tokens, ReadToken(l, t)
      PROVE  ReadingInv' /\ StaleInv'
  <2>0. pc = "token" /\ at \in 1 .. Len(References) /\ References[at] \in Holders
    BY <1>4, ReferencesRead DEF ReadToken, WorkInv
  <2> PICK h \in Holders : h = References[at]
    BY <2>0
  <2>1. /\ pc = "token" /\ UNCHANGED <<kind, work, issuance, fresh>>
        /\ tokens' = [tokens EXCEPT ![h] = t]
        /\ \/ TokenRefused(h, t) /\ pc' = "refused"
           \/ /\ ~TokenRefused(h, t) /\ kind # "balance" /\ NeedsFreshVersion(h)
              /\ pc' = "version" /\ UNCHANGED at
           \/ /\ ~TokenRefused(h, t) /\ (kind = "balance" \/ ~NeedsFreshVersion(h))
              /\ pc' = AfterToken(t) /\ at' = IF pc' = "token" THEN at + 1 ELSE at
    BY <1>4 DEF ReadToken, Advance
  <2>2. at \in 1 .. Len(References) /\ h = References[at]
    BY <2>0
  <2>3. StaleInv'
    BY <2>1 DEF StaleInv, AfterToken
  <2>4. CASE kind = "balance"
    BY <2>1, <2>3, <2>4 DEF ReadingInv
  <2>5. CASE kind # "balance" /\ TokenRefused(h, t)
    <3>1. \E i \in 1 .. Len(work) : TransactorRejects(work[i])'
      BY <2>1, <2>2, <2>5, TokenRejected
    <3>2. Len(work') = Len(work) /\ \A i : work'[i] = work[i]
      BY <2>1
    <3> QED BY <2>1, <2>3, <2>5, <3>1, <3>2 DEF ReadingInv
  <2>6. CASE kind # "balance" /\ ~TokenRefused(h, t)
    <3>1. tokens'[h] = t /\ t # Unread /\ \A g \in Holders : g # h => tokens'[g] = tokens[g]
      BY <2>1, <2>2, ReadEntries DEF EntriesInv
    <3>2. ~IssuanceRefused(issuance)'
      BY <2>1, <2>6, SameJudgement DEF ReadingInv
    <3>3. ASSUME NEW k \in 1 .. at - 1 PROVE Passed(References[k])'
      <4>1. Passed(References[k]) /\ References[k] \in Holders
        BY <2>1, <2>2, <2>6, <3>3, ReferencesRead DEF ReadingInv
      <4>2. References' = References
        BY <2>1, SameJudgement
      <4> QED BY <2>1, <2>6, <3>1, <4>1, <4>2, SameJudgement DEF Passed
    <3>4. /\ References' = References /\ ~TokenRefused(h, t)'
          /\ NeedsFreshVersion(h)' <=> NeedsFreshVersion(h)
      BY <2>1, <2>6, SameJudgement
    <3>5. CASE pc' = "version" /\ UNCHANGED at
      <4>1. tokens'[References'[at']] # Unread
        BY <2>2, <3>1, <3>4, <3>5
      <4>2. ~TokenRefused(References[at], tokens[References[at]])'
        BY <2>2, <3>1, <3>4, <3>5
      <4>3. \A k \in 1 .. at' - 1 : Passed(References[k])'
        BY <3>3, <3>5
      <4> QED BY <2>3, <3>2, <3>5, <4>1, <4>2, <4>3 DEF ReadingInv
    <3>6. CASE ~NeedsFreshVersion(h) /\ pc' = AfterToken(t) /\ at' = IF pc' = "token" THEN at + 1 ELSE at
      <4>1. \A k \in 1 .. at : Passed(References[k])'
        <5>1. Passed(h)'
          BY <3>1, <3>4, <3>6 DEF Passed
        <5>2. \A k \in 1 .. at : k \in 1 .. at - 1 \/ References'[k] = h
          BY <2>2, <3>4
        <5> QED BY <3>3, <5>1, <5>2
      <4>2. pc' = IF at < Len(References) THEN "token" ELSE "built"
        BY <2>6, <3>6 DEF AfterToken
      <4>3. Len(References) \in Nat /\ at \in Nat
        BY <2>2, ReferencesRead
      <4>4. CASE pc' = "token"
        <5>1. at' - 1 = at
          BY <3>6, <4>3, <4>4
        <5> QED BY <2>3, <3>2, <4>1, <4>4, <5>1 DEF ReadingInv
      <4>5. CASE pc' = "built"
        <5>1. at = Len(References)'
          BY <2>2, <3>4, <4>2, <4>3, <4>5
        <5> QED BY <2>3, <3>2, <4>1, <4>5, <5>1 DEF ReadingInv
      <4> QED BY <4>2, <4>4, <4>5
    <3> QED BY <2>1, <2>6, <3>5, <3>6
  <2> QED BY <2>4, <2>5, <2>6
<1>5. ASSUME NEW v \in Histories, NEW from \in 1 .. MaxLedger + 1, NEW current \in {0, from},
             CheckVersion(v, from, current)
      PROVE  ReadingInv' /\ StaleInv'
  <2>0. pc = "version" /\ at \in 1 .. Len(References) /\ References[at] \in Holders
    BY <1>5, ReferencesRead DEF CheckVersion, WorkInv
  <2> PICK h \in Holders : h = References[at]
    BY <2>0
  <2>1. /\ UNCHANGED <<kind, work, issuance, tokens, index>> /\ fresh' = fresh \cup {h}
        /\ versions' = IF pc' \in {"stale", "stale_missing"} THEN v ELSE versions
        /\ \/ pc' = "stale_missing"
           \/ pc' = "stale" /\ Superseded(current, v, v[from])
           \/ pc' = AfterToken(tokens[h]) /\ at' = IF pc' = "token" THEN at + 1 ELSE at
    BY <1>5 DEF CheckVersion, snapshotVars
  <2>2. CASE pc' = "stale_missing"
    BY <2>2 DEF ReadingInv, StaleInv
  <2>3. CASE pc' = "stale" /\ Superseded(current, v, v[from])
    <3>1. index \in Nat /\ current > index /\ v[from] # v[index]
      BY <2>3, LedgerAssumption DEF Superseded, EntriesInv, SnapshotTypeOK
    <3>2. from \in index + 1 .. MaxLedger + 1
      BY <3>1, LedgerAssumption
    <3>3. Superseding'
      BY <2>1, <2>3, <3>1, <3>2 DEF Superseding
    <3> QED BY <2>3, <3>3 DEF ReadingInv, StaleInv
  <2>4. CASE pc' = AfterToken(tokens[h]) /\ at' = IF pc' = "token" THEN at + 1 ELSE at
    <3>1. StaleInv'
      BY <2>4 DEF StaleInv, AfterToken
    <3>2. CASE kind = "balance"
      BY <2>1, <3>1, <3>2 DEF ReadingInv
    <3>3. CASE kind # "balance"
      <4>1. /\ References' = References
            /\ ~IssuanceRefused(issuance)'
            /\ \A g \in Holders : Passed(g) => Passed(g)'
        BY <2>0, <2>1, <3>3, SameJudgement DEF ReadingInv, Passed
      <4>2. Passed(h)'
        BY <2>0, <2>1, <3>3, SameJudgement DEF ReadingInv, Passed
      <4>3. \A k \in 1 .. at - 1 : Passed(References[k]) /\ References[k] \in Holders
        BY <2>0, <3>3, ReferencesRead DEF ReadingInv
      <4>4. \A k \in 1 .. at : Passed(References[k])'
        <5>1. \A k \in 1 .. at : k \in 1 .. at - 1 \/ References'[k] = h
          BY <2>0, <4>1
        <5> QED BY <4>1, <4>2, <4>3, <5>1
      <4>5. pc' = IF at < Len(References) THEN "token" ELSE "built"
        BY <2>4, <3>3 DEF AfterToken
      <4>6. Len(References) \in Nat /\ at \in Nat
        BY <2>0, ReferencesRead
      <4>7. CASE pc' = "token"
        <5>1. at' - 1 = at
          BY <2>4, <4>6, <4>7
        <5> QED BY <3>1, <4>1, <4>4, <4>7, <5>1 DEF ReadingInv
      <4>8. CASE pc' = "built"
        <5>1. at = Len(References)'
          BY <2>0, <4>1, <4>5, <4>6, <4>8
        <5> QED BY <3>1, <4>1, <4>4, <4>8, <5>1 DEF ReadingInv
      <4> QED BY <4>5, <4>7, <4>8
    <3> QED BY <3>2, <3>3
  <2> QED BY <2>1, <2>2, <2>3, <2>4
<1> QED BY <1>1, <1>2, <1>3, <1>4, <1>5 DEF BuildNext

LEMMA ReadsHold == BuildSpec => [](WorkInv /\ EntriesInv /\ ReadingInv /\ StaleInv)
<1>1. BuildInit => WorkInv /\ EntriesInv /\ ReadingInv /\ StaleInv
  <2> SUFFICES ASSUME BuildInit PROVE WorkInv /\ EntriesInv /\ ReadingInv /\ StaleInv
      OBVIOUS
  <2>1. IsWork(<< >>)
    <3> DEFINE O == UNION {Work(k) : k \in Kinds}
    <3> HIDE DEF O
    <3>1. << >> \in [1 .. 0 -> O]
      OBVIOUS
    <3> QED BY <3>1 DEF IsWork, OperationsOf, O
  <2>2. WorkInv
    BY <2>1 DEF BuildInit, WorkInv, Beginning
  <2>3. EntriesInv
    BY LedgerAssumption DEF BuildInit, SnapshotInit, EntriesInv, SnapshotTypeOK
  <2> QED BY <2>2, <2>3 DEF BuildInit, ReadingInv, StaleInv
<1>2. WorkInv /\ EntriesInv /\ ReadingInv /\ StaleInv /\ [BuildNext]_vars
        => (WorkInv /\ EntriesInv /\ ReadingInv /\ StaleInv)'
  <2>1. ASSUME WorkInv, EntriesInv, ReadingInv, StaleInv, UNCHANGED vars
        PROVE  (WorkInv /\ EntriesInv /\ ReadingInv /\ StaleInv)'
    <3>1. UNCHANGED <<kind, work, pc, at, issuance, tokens, fresh, versions, index, hash, used>>
      BY <2>1 DEF vars, buildVars, snapshotVars
    <3>2. WorkInv'
      BY <2>1, <3>1, SameJudgement DEF WorkInv
    <3>3. EntriesInv'
      BY <2>1, <3>1 DEF EntriesInv, SnapshotTypeOK
    <3>4. StaleInv'
      BY <2>1, <3>1 DEF StaleInv, Superseding
    <3>5. ReadingInv'
      <4>1. \A h : Passed(h)' <=> Passed(h)
        BY <3>1, SameJudgement DEF Passed
      <4>2. \A op : TransactorRejects(op)' <=> TransactorRejects(op)
        BY <3>1 DEF TransactorRejects
      <4> QED BY <2>1, <3>1, <4>1, <4>2, SameJudgement DEF ReadingInv
    <3> QED BY <3>2, <3>3, <3>4, <3>5
  <2> QED BY <2>1, StepWork, StepEntries, StepReading
<1> QED BY <1>1, <1>2, PTL DEF BuildSpec

\* A build that goes through has decided every operation as the ledger it read will,
\* for batches of any size and however the operations share their tokens: the access
\* that is merged over the operations is what each of them asks for.
THEOREM BuiltIsAcceptedHolds == BuildSpec => []BuiltIsAccepted
<1>1. ASSUME WorkInv, ReadingInv PROVE BuiltIsAccepted
  <2> SUFFICES ASSUME pc = "built", kind # "balance", NEW i \in 1 .. Len(work)
               PROVE  /\ ~TransactorRejects(work[i])
                      /\ \A h \in Touched(work[i]) :
                           tokens[h] # Unread /\ (BindsVersion(work[i], h) => h \in fresh)
      BY DEF BuiltIsAccepted
  <2>1. work # << >>
    OBVIOUS
  <2>2. ~IssuanceRefused(issuance)
    BY <1>1, <2>1 DEF ReadingInv
  <2>3. \A h \in Touched(work[i]) : Passed(h)
    <3>1. \A k \in 1 .. Len(References) : Passed(References[k])
      BY <1>1, <2>1 DEF ReadingInv
    <3> QED BY <1>1, <3>1, ReferencesRead
  <2>4. ASSUME NEW h \in Touched(work[i])
        PROVE  /\ tokens[h] # Unread /\ (BindsVersion(work[i], h) => h \in fresh)
               /\ tokens[h] # Missing
               /\ kind # "batch" => tokens[h].ready
               /\ KindOf(work[i]) # "clawback" => ~HolderRefused(issuance, tokens[h])
    <3>1. Passed(h)
      BY <2>3, <2>4
    <3>2. BindsVersion(work[i], h) => NeedsFreshVersion(h)
      BY DEF NeedsFreshVersion
    <3>3. KindOf(work[i]) # "clawback" => Usable(h)
      BY <2>4 DEF Usable, RunsHolderChecks
    <3> QED BY <1>1, <3>1, <3>2, <3>3 DEF Passed, TokenRefused, WorkInv
  <2>5. /\ issuance # Missing /\ issuance.confidential
        /\ KindOf(work[i]) # "merge" => issuance.issuerKey
        /\ kind # "batch" => issuance.permits
    BY <1>1, <2>2 DEF IssuanceRefused, NeedsIssuerKey, WorkInv
  <2> QED BY <2>4, <2>5 DEF TransactorRejects
<1> QED BY <1>1, ReadsHold, PTL

\* A build is refused only for what the ledger would refuse one of its operations for,
\* and for a stale version only if a later ledger has another one.
THEOREM RefusedIsRejectedHolds == BuildSpec => []RefusedIsRejected
<1>1. ReadingInv /\ StaleInv => RefusedIsRejected
  BY DEF ReadingInv, StaleInv, RefusedIsRejected
<1> QED BY <1>1, ReadsHold, PTL

Places == {"resolve", "resolved", "plan", "choose", "issuance", "token", "version", "built",
           "refused", "stale", "stale_missing", "failed"}

\* Type correctness: whatever the answers are, the snapshot is of a ledger there is.
THEOREM BuildTypeCorrect == BuildSpec => []BuildTypeOK
<1>1. BuildInit => pc \in Places
  BY DEF BuildInit, Places
<1>2. pc \in Places /\ [BuildNext]_vars => (pc \in Places)'
  <2> SUFFICES ASSUME pc \in Places, [BuildNext]_vars PROVE pc' \in Places
      OBVIOUS
  <2>1. CASE OptionsGiven \/ PlanStep \/ PlanMade \/ QueryFails
             \/ \E i \in 1 .. MaxLedger : AccountValidated(i)
    BY <2>1, EarlyStep DEF Places
  <2>2. CASE ChooseWork
    BY <2>2 DEF ChooseWork, Places
  <2>3. ASSUME NEW l \in Ledgers, NEW i \in Issuances, ReadIssuance(l, i) PROVE pc' \in Places
    BY <2>3 DEF ReadIssuance, Goto, Places
  <2>4. ASSUME NEW l \in Ledgers, NEW t \in Tokens, ReadToken(l, t) PROVE pc' \in Places
    BY <2>4 DEF ReadToken, Advance, AfterToken, Places
  <2>5. ASSUME NEW v \in Histories, NEW from \in 1 .. MaxLedger + 1, NEW current \in {0, from},
               CheckVersion(v, from, current)
        PROVE  pc' \in Places
    BY <2>5 DEF CheckVersion, AfterToken, Places
  <2>6. CASE UNCHANGED vars
    BY <2>6 DEF vars, buildVars
  <2> QED BY <2>1, <2>2, <2>3, <2>4, <2>5, <2>6 DEF BuildNext
<1>3. BuildInv /\ EntriesInv /\ pc \in Places => BuildTypeOK
  BY DEF BuildInv, PlanInv, EntriesInv, BuildTypeOK, Places
<1> QED BY <1>1, <1>2, <1>3, BuildInvHolds, ReadsHold, PTL DEF BuildSpec
=============================================================================
