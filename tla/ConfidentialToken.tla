-------------------------- MODULE ConfidentialToken --------------------------
(***************************************************************************)
(* What a batch of confidential operations does to one issuance, in plain   *)
(* amounts: no keys, no ciphertexts, no versions.  Amounts move between a   *)
(* holder's public balance, its inbox and its spending balance, and from a  *)
(* spending balance to another inbox; only a clawback destroys any.         *)
(***************************************************************************)
EXTENDS Naturals

CONSTANT Holders

VARIABLES public, inbox, spending,  \* amounts of each holder
          supply                    \* the confidential supply of the issuance

tokenVars == <<public, inbox, spending, supply>>

Balances == [Holders -> Nat]

TokenInit ==
    /\ public \in Balances /\ inbox \in Balances /\ spending \in Balances
    /\ supply \in Nat

Deposit(h, a) ==
    /\ public' = [public EXCEPT ![h] = @ - a]
    /\ inbox' = [inbox EXCEPT ![h] = @ + a]
    /\ supply' = supply + a
    /\ UNCHANGED spending

Withdraw(h, a) ==
    /\ a <= supply
    /\ public' = [public EXCEPT ![h] = @ + a]
    /\ spending' = [spending EXCEPT ![h] = @ - a]
    /\ supply' = supply - a
    /\ UNCHANGED inbox

Transfer(h, d, a) ==
    /\ h # d
    /\ spending' = [spending EXCEPT ![h] = @ - a]
    /\ inbox' = [inbox EXCEPT ![d] = @ + a]
    /\ UNCHANGED <<public, supply>>

Merge(h) ==
    /\ spending' = [spending EXCEPT ![h] = @ + inbox[h]]
    /\ inbox' = [inbox EXCEPT ![h] = 0]
    /\ UNCHANGED <<public, supply>>

Burn(h) ==
    /\ spending[h] + inbox[h] <= supply
    /\ supply' = supply - (spending[h] + inbox[h])
    /\ spending' = [spending EXCEPT ![h] = 0]
    /\ inbox' = [inbox EXCEPT ![h] = 0]
    /\ UNCHANGED public

TokenNext ==
    \E h \in Holders :
        \/ Merge(h) \/ Burn(h)
        \/ \E a \in 0..public[h] : Deposit(h, a)
        \/ \E a \in 0..spending[h] : Withdraw(h, a) \/ \E d \in Holders : Transfer(h, d, a)

TokenSpec == TokenInit /\ [][TokenNext]_tokenVars
=============================================================================
