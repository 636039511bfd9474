--------------------------- MODULE LedgerSnapshot ---------------------------
(* ledgerSnapshot of confidential/builder/querier.go: the validated ledger all
   reads of one build are bound to.  Answers come from any server of a pool:
   of any validated ledger, of an open ledger, or of a server that follows
   another chain, whatever was asked for.  An answer says truthfully what
   ledger it is about.                                                      *)
EXTENDS Integers, FiniteSets

CONSTANTS
  MaxLedger,   \* bound: indices of validated ledgers run from 1 to MaxLedger
  Chains       \* ledgers of one index and different chains have different hashes

ASSUME LedgerAssumption == MaxLedger \in Nat \ {0}

VARIABLES
  index,   \* ledgerSnapshot.index, 0 when no ledger is selected
  hash,    \* ledgerSnapshot.hash, NoHash when no ledger is bound
  used     \* the ledgers the entries read so far came from

snapshotVars == <<index, hash, used>>

\* A hash stands for the ledger it identifies.
Ledgers == (1 .. MaxLedger) \X Chains
NoHash == <<0, "none">>
IndexOf(ledger) == ledger[1]

SnapshotInit == index = 0 /\ hash = NoHash /\ used = {}

\* The account_info of beginBuild selects an index and no hash.
SelectIndex(i) ==
  /\ index' = i
  /\ UNCHANGED <<hash, used>>

\* Variant: an entry is accepted from any ledger of the selected index.
AcceptsIndexOnly(ledger, validated) == validated /\ index \in {0, IndexOf(ledger)}

\* What readEntry checks of an answer.
Accepts(ledger, validated) ==
  /\ validated
  /\ index \in {0, IndexOf(ledger)}
  /\ hash \in {NoHash, ledger}

\* The first entry binds the snapshot to the hash of its ledger.
Bind(ledger) ==
  /\ index' = IndexOf(ledger)
  /\ hash' = ledger
  /\ used' = used \cup {ledger}

SnapshotTypeOK ==
  /\ index \in 0 .. MaxLedger
  /\ hash \in Ledgers \cup {NoHash}
  /\ used \subseteq Ledgers

\* The entries one build is made from all come from one validated ledger, and
\* from the one its account was looked up in, although ledgers close and servers
\* of different progress answer between any two reads.
OneLedger == Cardinality(used) <= 1 /\ \A l \in used : IndexOf(l) = index
=============================================================================
