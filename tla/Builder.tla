------------------------------ MODULE Builder ------------------------------
(* The reads of the builders of confidential/builder: one call of BuildConvert,
   BuildConvertBack, BuildSend, BuildMergeInbox, BuildClawback, BuildBatch or
   GetSpendingBalance, from the caller's options to the state its proofs are
   made from.  A batch plans its numbers first (BatchNonces) and goes on with
   BatchState.  What entries say is chosen when they are read.              *)
EXTENDS BatchNonces, LedgerSnapshot

CONSTANTS Holders, MaxWork   \* bound: confidential operations of a batch

VARIABLES
  kind,       \* which builder is called
  work,       \* the operations to read for; one unless kind is "batch"
  pc,         \* where the builder is
  at,         \* the reference being read, an index of References
  issuance,   \* the MPTokenIssuance read, or Unread
  tokens,     \* the MPToken of each holder read, or Unread
  fresh,      \* the holders whose version was compared with the open ledger
  versions    \* of a token found stale: its version in each ledger

buildVars == <<kind, work, pc, at, issuance, tokens, fresh, versions>>
vars == <<planVars, snapshotVars, buildVars>>

Kinds == {"convert", "convert_back", "send", "merge", "clawback"}
Work(k) ==
  IF k = "send" THEN {<<k, h, d>> : h, d \in Holders} \ {<<k, h, h>> : h \in Holders}
  ELSE {<<k, h, h>> : h \in Holders}
KindOf(op) == op[1]

\* The holders whose MPTokens the operation reads.
Touched(op) == {op[2], op[3]}

\* spenderAccess and its bindsVersion, and the access of everyone but a clawback.
BindsVersion(op, h) == KindOf(op) \in {"send", "convert_back"} /\ op[2] = h
RunsHolderChecks(op, h) == KindOf(op) # "clawback" /\ h \in Touched(op)

\* Each MPToken is read once, in the order of first mention, sender first.
Mention(refs, h) == IF Contains(refs, h) THEN refs ELSE Append(refs, h)
ReferencesOf(ops) ==
  FoldLeft(LAMBDA refs, op : Mention(Mention(refs, op[2]), op[3]), << >>, ops)
References == ReferencesOf(work)

\* Variant: the access of the first operation that mentions the token.
UsableFirst(h) ==
  LET first == CHOOSE i \in 1 .. Len(work) :
                 /\ h \in Touched(work[i])
                 /\ \A j \in 1 .. i - 1 : h \notin Touched(work[j])
  IN RunsHolderChecks(work[first], h)

\* mptokenAccess.merge over the operations that touch the token.
Usable(h) == \E i \in 1 .. Len(work) : RunsHolderChecks(work[i], h)

NeedsFreshVersion(h) == \E i \in 1 .. Len(work) : BindsVersion(work[i], h)

\* getProvableIssuance, for everything but inbox merges.
NeedsIssuerKey == \E i \in 1 .. Len(work) : KindOf(work[i]) # "merge"

-----------------------------------------------------------------------------
(* Entries.  permits is what the operation needs of the issuance besides: that it
   is transferable without a fee, allows clawback, or has the amount
   outstanding.  ready is what it needs of the token besides: the fields of
   the account's role, a matching key, enough of a balance.                 *)
Unread == [unread |-> TRUE]
Missing == [missing |-> TRUE]

Issuances ==
  {Missing} \cup [confidential : BOOLEAN, issuerKey : BOOLEAN, locked : BOOLEAN,
                    auth : {"no", "flag", "domain"}, permits : BOOLEAN]
Tokens == {Missing} \cup [locked : BOOLEAN, authorized : BOOLEAN, ready : BOOLEAN]

\* Versions of one token in the validated ledgers and the open one after them:
\* not there yet, version 1 or 2, or deleted.
Histories == {v \in [1 .. MaxLedger + 1 -> 0 .. 3] :
                \A i \in 1 .. MaxLedger : v[i] <= v[i + 1]}
NoHistory == [i \in 1 .. MaxLedger + 1 |-> 0]
Absent(version) == version \in {0, 3}

BuildInit ==
  /\ kind \in Kinds \cup {"batch", "balance"}
  /\ IF kind = "batch" THEN PlanInit
     ELSE /\ PlanInit /\ held = [a \in Accounts |-> {}]
          /\ outer.sequence \in {0, FirstSequence} /\ outer.ticket = 0
  /\ SnapshotInit
  /\ work = << >> /\ at = 1 /\ issuance = Unread
  /\ pc = IF kind = "balance" THEN "choose" ELSE "resolve"
  /\ tokens = [h \in Holders |-> Unread]
  /\ fresh = {} /\ versions = NoHistory

Goto(label) == pc' = label /\ UNCHANGED <<kind, work, at, fresh, versions>>

-----------------------------------------------------------------------------
(* resolveTxOptions: a caller who gave no number gets the account's sequence,
   and the snapshot an index.                                               *)
OptionsGiven ==
  /\ pc = "resolve" /\ (outer.sequence # 0 \/ outer.ticket # 0)
  /\ Goto(IF kind = "batch" THEN "plan" ELSE "resolved")
  /\ UNCHANGED <<planVars, snapshotVars, issuance, tokens>>

AccountValidated(i) ==
  /\ pc = "resolve" /\ outer.sequence = 0 /\ outer.ticket = 0
  /\ SelectIndex(i)
  /\ Goto(IF kind = "batch" THEN "plan" ELSE "resolved")
  /\ UNCHANGED <<planVars, issuance, tokens>>

\* planBatchNonces.  Its first step is the account_info of the open ledger.
PlanStep ==
  /\ pc = "plan"
  /\ PlanNext
  /\ UNCHANGED <<snapshotVars, buildVars>>

\* The plan is made.  Nothing below looks at it or at the accounts' sequences, which
\* are forgotten so that the states of the two phases add up.
PlanMade ==
  /\ pc \in {"plan", "resolved"}
  /\ pc = "plan" => planning = "planned"
  /\ open' = [a \in Accounts |-> FirstSequence]
  /\ held' = [a \in Accounts |-> {}]
  /\ next' = [a \in Accounts |-> 0]
  /\ outer' = NoOperation /\ spent' = {} /\ nonces' = << >>
  /\ planning' = "outer" /\ refused' = NoOperation
  /\ Goto("choose")
  /\ UNCHANGED <<snapshotVars, issuance, tokens>>

WorkChoices ==
  LET operations == UNION {Work(k) : k \in Kinds}
  IN IF kind = "batch" THEN UNION {[1 .. n -> operations] : n \in 0 .. MaxWork}
     ELSE {<<op>> : op \in Work(IF kind = "balance" THEN "clawback" ELSE kind)}

ChooseWork ==
  /\ pc = "choose"
  /\ work' \in WorkChoices
  /\ pc' = IF work' = << >> THEN "built" ELSE IF kind = "balance" THEN "token" ELSE "issuance"
  /\ UNCHANGED <<planVars, snapshotVars, kind, at, issuance, tokens, fresh, versions>>

-----------------------------------------------------------------------------
(* readIssuance and the checks of the builder on it. *)
IssuanceRefused(i) ==
  \/ i = Missing
  \/ ~i.confidential
  \/ kind # "balance" /\ NeedsIssuerKey /\ ~i.issuerKey
  \/ kind \in Kinds /\ ~i.permits

ReadIssuance(ledger, i) ==
  /\ pc = "issuance"
  /\ Accepts(ledger, TRUE)
  /\ IF i = Missing THEN UNCHANGED snapshotVars ELSE Bind(ledger)
  /\ issuance' = i
  /\ Goto(IF IssuanceRefused(i) THEN "refused"
          ELSE IF kind = "balance" THEN "built" ELSE "token")
  /\ UNCHANGED <<planVars, tokens>>

\* requireHolderUsable.
HolderRefused(i, t) ==
  i.locked \/ t.locked \/ (i.auth = "flag" /\ ~t.authorized)

TokenRefused(h, t) ==
  \/ t = Missing
  \/ kind # "balance" /\ Usable(h) /\ HolderRefused(issuance, t)
  \/ kind \in Kinds /\ ~t.ready

\* Where the builder goes when it is done with a token.  The spending balance of a
\* token without a ciphertext is zero, and no other read is needed.
AfterToken(t) ==
  IF kind = "balance" THEN (IF t.ready THEN "issuance" ELSE "built")
  ELSE IF at < Len(References) THEN "token" ELSE "built"

Advance(label) ==
  /\ pc' = label
  /\ at' = IF label = "token" THEN at + 1 ELSE at
  /\ UNCHANGED <<kind, work, issuance>>

ReadToken(ledger, t) ==
  LET h == References[at] IN
  /\ pc = "token"
  /\ Accepts(ledger, TRUE)
  /\ IF t = Missing THEN UNCHANGED snapshotVars ELSE Bind(ledger)
  /\ tokens' = [tokens EXCEPT ![h] = t]
  /\ IF TokenRefused(h, t) THEN pc' = "refused" /\ UNCHANGED <<kind, work, issuance, at>>
     ELSE IF kind # "balance" /\ NeedsFreshVersion(h)
     THEN pc' = "version" /\ UNCHANGED <<kind, work, issuance, at>>
     ELSE Advance(AfterToken(t))
  /\ UNCHANGED <<planVars, fresh, versions>>

-----------------------------------------------------------------------------
(* requireCurrentBalanceVersion.  current is the index of the open ledger that
   answers, and 0 if the answer is about a validated ledger.                *)

\* Variant: a version is compared without looking at which ledger it is from.
SupersededAnywhere(current, v, w) == w # v[index]

\* The answer is of a later ledger than the snapshot's, and differs.  An answer
\* without the token is no answer to compare: the code reports it with the same
\* ErrStaleBalanceVersion, and CheckVersion keeps it apart as "stale_missing".
Superseded(current, v, w) == current > index /\ w # v[index]

CheckVersion(v, from, current) ==
  LET h == References[at] IN
  /\ pc = "version"
  /\ ~Absent(v[index])
  /\ IF Absent(v[from]) THEN pc' = "stale_missing" /\ at' = at
     ELSE IF Superseded(current, v, v[from]) THEN pc' = "stale" /\ at' = at
     ELSE pc' = AfterToken(tokens[h]) /\ at' = IF pc' = "token" THEN at + 1 ELSE at
  /\ fresh' = fresh \cup {h}
  /\ versions' = IF pc' \in {"stale", "stale_missing"} THEN v ELSE versions
  /\ UNCHANGED <<planVars, snapshotVars, kind, work, issuance, tokens>>

\* A query fails, or its answer is refused: no ledger, another one than the
\* snapshot's, an entry that was not asked for.
QueryFails ==
  /\ pc \in {"resolve", "issuance", "token", "version"} \/ (pc = "plan" /\ planning # "refused")
  /\ Goto("failed")
  /\ UNCHANGED <<planVars, snapshotVars, issuance, tokens>>

BuildNext ==
  \/ OptionsGiven \/ PlanStep \/ PlanMade \/ ChooseWork \/ QueryFails
  \/ \E i \in 1 .. MaxLedger : AccountValidated(i)
  \/ \E l \in Ledgers :
       \/ \E i \in Issuances : ReadIssuance(l, i)
       \/ \E t \in Tokens : ReadToken(l, t)
  \/ \E v \in Histories, from \in 1 .. MaxLedger + 1 :
       \E current \in {0, from} : CheckVersion(v, from, current)

BuildSpec == BuildInit /\ [][BuildNext]_vars

-----------------------------------------------------------------------------
(* What the transactor of one operation makes of the entries read, written from
   the operation's side: an entry that was not read refuses nothing.        *)
TransactorRejects(op) ==
  \/ issuance = Missing
  \/ /\ issuance # Unread
     /\ \/ ~issuance.confidential
        \/ KindOf(op) # "merge" /\ ~issuance.issuerKey
        \/ kind # "batch" /\ ~issuance.permits
  \/ \E h \in Touched(op) :
       \/ tokens[h] = Missing
       \/ /\ tokens[h] # Unread
          /\ \/ kind # "batch" /\ ~tokens[h].ready
             \/ KindOf(op) # "clawback" /\ HolderRefused(issuance, tokens[h])

\* A finished build has decided every operation as the ledger it read will: none of
\* them would be rejected for the entries read, all the tokens were read, and a
\* token whose version some proof binds was compared with the open ledger, however
\* the operations of a batch share their tokens.
BuiltIsAccepted ==
  pc = "built" /\ kind # "balance" =>
    \A i \in 1 .. Len(work) :
      LET op == work[i]
      IN /\ ~TransactorRejects(op)
         /\ \A h \in Touched(op) :
              tokens[h] # Unread /\ (BindsVersion(op, h) => h \in fresh)

Superseding == \E i \in index + 1 .. MaxLedger + 1 : versions[i] # versions[index]

\* A build is refused only if the ledger would reject one of its operations: an
\* issuer may claw back from a holder it has locked, also when other operations
\* of the batch are on other holders.  It is refused for a version that differs
\* only if a later ledger has another one, although servers whose open ledger
\* trails the snapshot answer too.  A refusal because the answer does not find the
\* token is left out here, and the subject of MissingIsSuperseded.
RefusedIsRejected ==
  /\ pc = "refused" /\ kind # "balance" => \E i \in 1 .. Len(work) : TransactorRejects(work[i])
  /\ pc = "stale" => Superseding

\* "a read that does not demonstrably lead is skipped rather than trusted"
\* (requireCurrentBalanceVersion), also when it does not find the token: a build
\* is refused for that only if a later ledger has another version of the token.
MissingIsSuperseded == pc = "stale_missing" => Superseding

BuildTypeOK ==
  /\ PlanTypeOK /\ SnapshotTypeOK
  /\ pc \in {"resolve", "resolved", "plan", "choose", "issuance", "token", "version", "built",
             "refused", "stale", "stale_missing", "failed"}
  /\ issuance \in Issuances \cup {Unread}
  /\ tokens \in [Holders -> Tokens \cup {Unread}]
  /\ fresh \subseteq Holders
=============================================================================
