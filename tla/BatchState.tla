------------------------------ MODULE BatchState ------------------------------
(***************************************************************************)
(* BuildBatch (confidential/builder) predicts the state every operation of  *)
(* a batch will find: it loads the tokens of one issuance, builds the       *)
(* operations in order, and applies each to the prediction before it builds *)
(* the next.  A ciphertext is known by its key and the amount inside; sums  *)
(* are homomorphic, and worthless if the keys differ.  The first operation  *)
(* that cannot be built ends the whole call.                                *)
(***************************************************************************)
EXTENDS Integers, FiniteSets, Functions

CONSTANTS Holders, HolderKeys,
          IssuerKey, AuditorKey,
          Absent,           \* an empty field
          Garbled,          \* the key of a sum over two keys: nobody has it
          MaxAmount,        \* types.MaxMPTAmount
          VersionLimit,     \* 2^32, where ConfidentialBalanceVersion wraps
          StartVersions,    \* versions tokens are loaded with
          MinOperations, MaxOperations  \* minBatchOperations, maxBatchOperations

Keys == HolderKeys \cup {IssuerKey, AuditorKey}

Ciphertext == [key : Keys \cup {Garbled}, amount : Int]

ASSUME BatchAssumption ==
    /\ IsFiniteSet(Holders)
    /\ MaxAmount \in Nat /\ MinOperations \in Nat /\ MaxOperations \in Nat
    /\ VersionLimit \in Nat /\ MaxOperations < VersionLimit
    /\ StartVersions \subseteq 0..(VersionLimit - 1)
    /\ IssuerKey \notin HolderKeys /\ AuditorKey \notin HolderKeys \cup {IssuerKey}
    /\ Absent \notin Keys /\ Garbled \notin Keys
    /\ Absent \notin Ciphertext

Amounts == 0..MaxAmount
SearchRange == {r \in [low : Amounts, high : Amounts] : r.low <= r.high}

VARIABLES
    policy,       \* what the issuance allows: auditing, transfers, clawbacks
    tokens,       \* batchState.tokens
    outstanding,  \* batchIssuance.outstanding
    elsewhere,    \* the confidential supply of holders the batch does not touch
    built,        \* operations built so far
    status,       \* "building", "done" or "failed"
    bound         \* balance versions bound by the proofs built so far

vars == <<policy, tokens, outstanding, elsewhere, built, status, bound>>

(* BuildXParams of each operation, as far as the state can tell them apart. *)
Operation ==
    [kind : {"convert"}, account : Holders, key : HolderKeys, amount : Amounts]
        \cup [kind : {"convertBack"}, account : Holders, key : HolderKeys,
              amount : Amounts \ {0}, range : SearchRange]
        \cup {o \in [kind : {"send"}, account : Holders, key : HolderKeys,
                     amount : Amounts \ {0}, range : SearchRange, destination : Holders] :
                o.destination # o.account}
        \cup [kind : {"merge"}, account : Holders]
        \cup [kind : {"clawback"}, holder : Holders, range : SearchRange]

-----------------------------------------------------------------------------
(* Ciphertexts.                                                            *)
Encrypt(a, k) == [key |-> k, amount |-> a]
CommonKey(c, d) == IF c.key = d.key THEN c.key ELSE Garbled

AddCiphertext(balance, ct) ==
    IF balance = Absent THEN ct
    ELSE [key |-> CommonKey(balance, ct), amount |-> balance.amount + ct.amount]

SubtractCiphertext(balance, ct) ==
    [key |-> CommonKey(balance, ct), amount |-> balance.amount - ct.amount]

(* Variant: a range that reaches past the supply is refused, not narrowed.  *)
DecryptsWithinSupply(ct, k, range) ==
    /\ ct.key = k
    /\ range.high <= outstanding
    /\ ct.amount \in range.low..range.high

(* decryptPredictedBalance: the range is narrowed to the confidential supply.*)
Decrypts(ct, k, range) ==
    /\ ct.key = k
    /\ range.low <= outstanding
    /\ ct.amount \in range.low..(IF range.high > outstanding THEN outstanding ELSE range.high)

(* The amount under the keys of the mirror balances.                       *)
Mirrors(a) ==
    [issuer |-> Encrypt(a, IssuerKey),
     auditor |-> IF policy.audited THEN Encrypt(a, AuditorKey) ELSE Absent]

NextVersion(v) == (v + 1) % VersionLimit

-----------------------------------------------------------------------------
(* What an operation leaves behind on a token.                             *)

Unused(t) == {t.spending, t.inbox, t.issuer, t.auditor} = {Absent}

(* Variant: the spender's version stays what it was.                       *)
ApplySpendSameVersion(t, ct, mirrors) ==
    [t EXCEPT !.spending = SubtractCiphertext(@, ct),
              !.issuer = SubtractCiphertext(@, mirrors.issuer),
              !.auditor = IF policy.audited THEN SubtractCiphertext(@, mirrors.auditor) ELSE @]

ApplySpend(t, ct, mirrors) ==
    [t EXCEPT !.spending = SubtractCiphertext(@, ct),
              !.issuer = SubtractCiphertext(@, mirrors.issuer),
              !.auditor = IF policy.audited THEN SubtractCiphertext(@, mirrors.auditor) ELSE @,
              !.version = NextVersion(@)]

Credit(t, ct, mirrors) ==
    [t EXCEPT !.inbox = AddCiphertext(@, ct),
              !.issuer = AddCiphertext(@, mirrors.issuer),
              !.auditor = IF policy.audited THEN AddCiphertext(@, mirrors.auditor) ELSE @]

(* The first convert of a holder also writes its spending balance.         *)
ApplyConvert(t, ct, mirrors) ==
    IF Unused(t)
    THEN [t EXCEPT !.spending = Encrypt(0, t.key), !.inbox = ct,
                   !.issuer = mirrors.issuer, !.auditor = mirrors.auditor, !.version = 0]
    ELSE Credit(t, ct, mirrors)

(* A send is credited re-randomized: an encrypted zero is added.           *)
Rerandomize(ct, k) == AddCiphertext(ct, Encrypt(0, k))

ApplyInboxCredit(t, ct, mirrors) ==
    Credit(t, Rerandomize(ct, t.key),
           [issuer |-> Rerandomize(mirrors.issuer, IssuerKey),
            auditor |-> IF policy.audited THEN Rerandomize(mirrors.auditor, AuditorKey) ELSE Absent])

(* Variant: the inbox is added to the spending balance and kept.           *)
ApplyMergeKeepsInbox(t) ==
    [t EXCEPT !.spending = AddCiphertext(@, t.inbox), !.version = NextVersion(@)]

ApplyMerge(t) ==
    [t EXCEPT !.spending = AddCiphertext(@, t.inbox), !.inbox = Encrypt(0, t.key),
              !.version = NextVersion(@)]

(* Variant: the mirror is reset under the holder's key.                    *)
ApplyClawbackHolderKey(t) ==
    [t EXCEPT !.spending = Encrypt(0, t.key), !.inbox = Encrypt(0, t.key),
              !.issuer = Encrypt(0, t.key),
              !.auditor = IF @ = Absent THEN @ ELSE Encrypt(0, AuditorKey),
              !.version = NextVersion(@)]

ApplyClawback(t) ==
    [t EXCEPT !.spending = Encrypt(0, t.key), !.inbox = Encrypt(0, t.key),
              !.issuer = Encrypt(0, IssuerKey),
              !.auditor = IF @ = Absent THEN @ ELSE Encrypt(0, AuditorKey),
              !.version = NextVersion(@)]

(* creditOutstanding and creditPublic saturate, debitOutstanding stops at 0. *)
Credited(n, a) == IF n > MaxAmount - a THEN MaxAmount ELSE n + a

Debited(n, a) == IF a > n THEN 0 ELSE n - a

-----------------------------------------------------------------------------
(* The checks of each prepareBatch function and of the PrepareX it calls.   *)

Spendable(t, k) ==
    /\ t.key = k
    /\ Absent \notin {t.spending, t.issuer}
    /\ policy.audited => t.auditor # Absent

Receivable(t) ==
    /\ Absent \notin {t.key, t.inbox, t.issuer}
    /\ policy.audited => t.auditor # Absent

CanConvert(o) ==
    /\ o.amount <= tokens[o.account].public
    /\ tokens[o.account].key \in {Absent, o.key}

CanSpend(o) ==
    LET t == tokens[o.account]
    IN  /\ Spendable(t, o.key)
        /\ Decrypts(t.spending, o.key, o.range)
        /\ o.amount <= t.spending.amount

CanConvertBack(o) == o.amount <= outstanding /\ CanSpend(o)

CanSend(o) == policy.transferable /\ CanSpend(o) /\ Receivable(tokens[o.destination])

CanMerge(o) ==
    LET t == tokens[o.account] IN Absent \notin {t.key, t.spending, t.inbox}

CanClawback(o) ==
    LET t == tokens[o.holder]
    IN  /\ policy.clawable
        /\ Absent \notin {t.key, t.issuer}
        /\ Decrypts(t.issuer, IssuerKey, o.range)
        /\ t.issuer.amount > 0

Buildable(o) ==
    \/ o.kind = "convert" /\ CanConvert(o)
    \/ o.kind = "convertBack" /\ CanConvertBack(o)
    \/ o.kind = "send" /\ CanSend(o)
    \/ o.kind = "merge" /\ CanMerge(o)
    \/ o.kind = "clawback" /\ CanClawback(o)

-----------------------------------------------------------------------------
(* One operation of the batch: checked, built and applied.                 *)
Building(o, kind) == status = "building" /\ built < MaxOperations /\ o.kind = kind

Advance == built' = built + 1 /\ UNCHANGED <<policy, elsewhere, status>>

Fail ==
    /\ status' = "failed"
    /\ UNCHANGED <<policy, tokens, outstanding, elsewhere, built, bound>>

BuildConvert(o) ==
    /\ Building(o, "convert")
    /\ \/ /\ CanConvert(o)
          /\ LET t == [tokens[o.account] EXCEPT !.key = o.key]
             IN  tokens' = [tokens EXCEPT ![o.account] =
                     [ApplyConvert(t, Encrypt(o.amount, o.key), Mirrors(o.amount))
                         EXCEPT !.public = @ - o.amount]]
          /\ outstanding' = Credited(outstanding, o.amount)
          /\ Advance /\ UNCHANGED bound
       \/ ~CanConvert(o) /\ Fail

(* The proof of a spend binds the version its token has at that point.     *)
BindVersion(h) == bound' = bound \cup {<<h, tokens[h].version>>}

BuildConvertBack(o) ==
    /\ Building(o, "convertBack")
    /\ \/ /\ CanConvertBack(o)
          /\ LET t == tokens[o.account]
             IN  tokens' = [tokens EXCEPT ![o.account] =
                     [ApplySpend(t, Encrypt(o.amount, o.key), Mirrors(o.amount))
                         EXCEPT !.public = Credited(@, o.amount)]]
          /\ outstanding' = Debited(outstanding, o.amount)
          /\ BindVersion(o.account)
          /\ Advance
       \/ ~CanConvertBack(o) /\ Fail

BuildSend(o) ==
    /\ Building(o, "send")
    /\ \/ /\ CanSend(o)
          /\ LET t == tokens[o.account]
                 r == tokens[o.destination]
             IN  tokens' = [tokens EXCEPT
                     ![o.account] = ApplySpend(t, Encrypt(o.amount, o.key), Mirrors(o.amount)),
                     ![o.destination] =
                         ApplyInboxCredit(r, Encrypt(o.amount, r.key), Mirrors(o.amount))]
          /\ BindVersion(o.account)
          /\ Advance /\ UNCHANGED outstanding
       \/ ~CanSend(o) /\ Fail

BuildMergeInbox(o) ==
    /\ Building(o, "merge")
    /\ \/ /\ CanMerge(o)
          /\ tokens' = [tokens EXCEPT ![o.account] = ApplyMerge(@)]
          /\ Advance /\ UNCHANGED <<outstanding, bound>>
       \/ ~CanMerge(o) /\ Fail

BuildClawback(o) ==
    /\ Building(o, "clawback")
    /\ \/ /\ CanClawback(o)
          /\ tokens' = [tokens EXCEPT ![o.holder] = ApplyClawback(@)]
          /\ outstanding' = Debited(outstanding, tokens[o.holder].issuer.amount)
          /\ Advance /\ UNCHANGED bound
       \/ ~CanClawback(o) /\ Fail

(* A ready-made transaction touches no confidential state.                 *)
BuildTransaction ==
    /\ status = "building" /\ built < MaxOperations
    /\ Advance
    /\ UNCHANGED <<tokens, outstanding, bound>>

Finish ==
    /\ status = "building" /\ built >= MinOperations
    /\ status' = "done"
    /\ UNCHANGED <<policy, tokens, outstanding, elsewhere, built, bound>>

Next ==
    \/ \E o \in Operation :
          BuildConvert(o) \/ BuildConvertBack(o) \/ BuildSend(o)
              \/ BuildMergeInbox(o) \/ BuildClawback(o)
    \/ BuildTransaction \/ Finish

-----------------------------------------------------------------------------
(* loadBatchState: the validated ledger a batch starts from.  A holder has  *)
(* every confidential field or none, its mirrors agree with its balances,   *)
(* and no more was ever issued than the protocol allows.                   *)
Registered(t) == t.key # Absent

Loaded(k, s, i, p, v) ==
    IF k = Absent
    THEN [key |-> Absent, spending |-> Absent, inbox |-> Absent, issuer |-> Absent,
          auditor |-> Absent, version |-> 0, public |-> p]
    ELSE [key |-> k, spending |-> Encrypt(s, k), inbox |-> Encrypt(i, k),
          issuer |-> Encrypt(s + i, IssuerKey),
          auditor |-> IF policy.audited THEN Encrypt(s + i, AuditorKey) ELSE Absent,
          version |-> v, public |-> p]

LoadedTokens ==
    {Loaded(k, s, i, p, v) : k \in HolderKeys \cup {Absent}, s \in Amounts, i \in Amounts,
                             p \in Amounts, v \in StartVersions}

Held(t) == IF t.issuer = Absent THEN 0 ELSE t.issuer.amount
TotalHeld == SumFunction([h \in Holders |-> Held(tokens[h])])
TotalPublic == SumFunction([h \in Holders |-> tokens[h].public])

Init ==
    /\ policy \in [audited : BOOLEAN, transferable : BOOLEAN, clawable : BOOLEAN]
    /\ tokens \in [Holders -> LoadedTokens]
    /\ elsewhere \in Amounts
    /\ outstanding = elsewhere + TotalHeld
    /\ outstanding + TotalPublic <= MaxAmount
    /\ built = 0 /\ status = "building" /\ bound = {}

Spec == Init /\ [][Next]_vars

-----------------------------------------------------------------------------
Token ==
    [key : HolderKeys \cup {Absent}, spending : Ciphertext \cup {Absent},
     inbox : Ciphertext \cup {Absent}, issuer : Ciphertext \cup {Absent},
     auditor : Ciphertext \cup {Absent}, version : 0..(VersionLimit - 1), public : Amounts]

TypeOK ==
    /\ policy \in [audited : BOOLEAN, transferable : BOOLEAN, clawable : BOOLEAN]
    /\ tokens \in [Holders -> Token]
    /\ outstanding \in Amounts /\ elsewhere \in Amounts
    /\ built \in 0..MaxOperations
    /\ status \in {"building", "done", "failed"}
    /\ bound \subseteq Holders \X (0..(VersionLimit - 1))

(* After any prefix of a batch, every balance is encrypted under its own    *)
(* owner's key, none is negative, and what issuer and auditor see is the    *)
(* sum of the two balances the holder sees.                                *)
MirrorsAgree ==
    \A h \in Holders :
        LET t == tokens[h]
        IN  IF ~Registered(t) THEN Unused(t)
            ELSE \E s, i \in Amounts :
                    /\ t.spending = Encrypt(s, t.key)
                    /\ t.inbox = Encrypt(i, t.key)
                    /\ t.issuer = Encrypt(s + i, IssuerKey)
                    /\ t.auditor = IF policy.audited THEN Encrypt(s + i, AuditorKey) ELSE Absent

(* What an operation needs at its place in the batch, in plain amounts: the *)
(* keys and rights, enough to spend, and a range that holds the balance.    *)
Amount(ct) == IF ct = Absent THEN 0 ELSE ct.amount

Valid(o) ==
    \/ o.kind = "convert" /\ CanConvert(o)
    \/ o.kind = "merge" /\ Registered(tokens[o.account])
    \/ /\ o.kind \in {"convertBack", "send"}
       /\ tokens[o.account].key = o.key
       /\ o.amount <= Amount(tokens[o.account].spending)
       /\ Amount(tokens[o.account].spending) \in o.range.low..o.range.high
       /\ o.kind = "send" => policy.transferable /\ Registered(tokens[o.destination])
    \/ /\ o.kind = "clawback"
       /\ policy.clawable
       /\ Held(tokens[o.holder]) \in (o.range.low..o.range.high) \ {0}

(* A batch fails only on an operation that is invalid at its place: every   *)
(* field a valid one needs is there, under the right key, and narrowing the *)
(* caller's range to the confidential supply never hides a balance.        *)
RejectsOnlyInvalid == \A o \in Operation : Valid(o) => Buildable(o)

(* No two proofs of a batch bind the same version of a token, and none      *)
(* binds one that the token will have when a later proof is checked.       *)
FreshVersions == \A h \in Holders : <<h, tokens[h].version>> \notin bound

(* The amounts behind the tokens.                                          *)
Publics == [h \in Holders |-> tokens[h].public]
Inboxes == [h \in Holders |-> Amount(tokens[h].inbox)]
Spendings == [h \in Holders |-> Amount(tokens[h].spending)]

View == INSTANCE ConfidentialToken WITH
            public <- Publics, inbox <- Inboxes, spending <- Spendings, supply <- outstanding

(* In plain amounts, a batch does what ConfidentialToken allows: deposits,  *)
(* withdrawals, transfers, merges and burns, each of one holder's own.      *)
ImplementsToken == View!TokenSpec
=============================================================================
