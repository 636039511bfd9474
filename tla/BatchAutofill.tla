---------------------------- MODULE BatchAutofill ----------------------------
(* AutofillBatchRawTransactions of xrpl/internal/client/transaction.go, which the
   rpc and websocket clients run last when they autofill a Batch: each inner
   transaction without a number gets the next sequence of its account.  The
   numbers the caller gives are the right ones.                             *)
EXTENDS Naturals, Sequences

CONSTANTS
  Accounts,
  FirstSequence,   \* the accounts' sequences when the Batch is built, from 1
  MaxInners        \* bound; the protocol allows eight inner transactions

VARIABLES
  batchAccount,      \* the account of the Batch
  batchSequence,     \* its Sequence; 0 when it spends a ticket
  accountSequences,  \* the next sequence cached for an account, 0 before it is fetched
  inners,            \* the inner transactions so far: account, number and whether it was filled in
  filled             \* the loop has ended

autofillVars == <<batchAccount, batchSequence, accountSequences, inners, filled>>

AutofillInit ==
  /\ batchAccount \in Accounts
  /\ batchSequence \in {0, FirstSequence}
  /\ accountSequences = [a \in Accounts |-> 0]
  /\ inners = << >> /\ filled = FALSE

\* fetchAccountSequence, and the increment for the account of the Batch.
Fetched(a) == IF a = batchAccount THEN FirstSequence + 1 ELSE FirstSequence

Sequence(a) == IF accountSequences[a] = 0 THEN Fetched(a) ELSE accountSequences[a]

\* The sequence of an account's previous transaction: an earlier inner one, the
\* Batch itself, or the last one before it.
Previous(a) ==
  LET spent == {inners[i].sequence : i \in {j \in 1 .. Len(inners) : inners[j].account = a}}
                 \cup (IF a = batchAccount THEN {batchSequence} ELSE {})
                 \cup {FirstSequence - 1}
  IN CHOOSE s \in spent : \A t \in spent : t <= s

\* An inner transaction with neither Sequence nor TicketSequence.
FillSequence(a) ==
  /\ inners' = Append(inners, [account |-> a, sequence |-> Sequence(a), previous |-> Previous(a)])
  /\ accountSequences' = [accountSequences EXCEPT ![a] = Sequence(a) + 1]

\* One with a Sequence is left alone; one with a ticket says nothing here.
KeepSequence(a) ==
  /\ inners' = Append(inners, [account |-> a, sequence |-> Previous(a) + 1, previous |-> Previous(a)])
  /\ UNCHANGED accountSequences

Inner(a) ==
  /\ ~filled /\ Len(inners) < MaxInners
  /\ FillSequence(a) \/ KeepSequence(a)
  /\ UNCHANGED <<batchAccount, batchSequence, filled>>

Finish ==
  /\ ~filled /\ filled' = TRUE
  /\ UNCHANGED <<batchAccount, batchSequence, accountSequences, inners>>

AutofillNext == Finish \/ \E a \in Accounts : Inner(a)

AutofillSpec == AutofillInit /\ [][AutofillNext]_autofillVars

\* "A transaction is only valid if the Sequence number is exactly 1 greater than
\* the previous transaction from the same account" (xrpl/transaction/tx.go): of a
\* filled Batch this holds of every inner transaction.
FollowsPrevious ==
  filled => \A i \in 1 .. Len(inners) : inners[i].sequence = inners[i].previous + 1
=============================================================================
