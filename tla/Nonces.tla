------------------------------- MODULE Nonces -------------------------------
(* What a ledger asks of the transactions of one batch.  Every account has a
   next sequence and a set of tickets it holds.  A transaction spends the next
   sequence of its account or one of its tickets, never anything else, and a
   TicketCreate turns the sequences that follow into tickets.  This is what
   rippled does with numbers while it applies an all-or-nothing batch; the
   batch is lost if one transaction carries another number.                 *)
EXTENDS Integers, Sequences

CONSTANTS Accounts, MaxCreated   \* tickets one TicketCreate may create

VARIABLES
  sequence,   \* the sequence each account spends next
  tickets,    \* the tickets each account holds
  applied     \* the numbers spent so far by the batch, in order: <<account, number>>

nonceVars == <<sequence, tickets, applied>>

\* A transaction of account a spends number n and creates k tickets.
Apply(a, n, k) ==
  LET after == IF n = sequence[a] THEN n + 1 ELSE sequence[a]
  IN /\ n = sequence[a] \/ n \in tickets[a]
     /\ sequence' = [sequence EXCEPT ![a] = after + k]
     /\ tickets' = [tickets EXCEPT ![a] = (@ \ {n}) \cup after .. after + k - 1]
     /\ applied' = Append(applied, <<a, n>>)

\* A transaction that is not of the batch spends a sequence.
ApplyOther(a) ==
  /\ sequence' = [sequence EXCEPT ![a] = @ + 1]
  /\ UNCHANGED <<tickets, applied>>

\* The batch is over, and the next one meets whatever ledger there is then.
NextBatch == applied' = << >>

Next ==
  \/ \E a \in Accounts :
       \/ ApplyOther(a)
       \/ \E n \in {sequence[a]} \cup tickets[a], k \in 0 .. MaxCreated : Apply(a, n, k)
  \/ NextBatch

Spec == applied = << >> /\ [][Next]_nonceVars
=============================================================================
