-------------------------- MODULE RPCIdentityProofs --------------------------
(* Proofs about RPCIdentity, for any number of callers and networks.        *)
EXTENDS RPCIdentity, TLAPS

(* A discovery is led by one caller until it is done, and nobody starts one *)
(* once the identity is known.                                              *)
LeaderInv ==
    /\ OneDiscovery
    /\ ready => networkID \in Networks /\ discovering = None
    /\ \A c \in Callers : c \in finished => pc[c] = "done"
    /\ \A c \in Callers : pc[c] \in {"wait", "woken"} => waitsFor[c] \in Callers
    /\ \A c \in Callers : pc[c] = "woken" => waitsFor[c] \in finished

(* What a running or finished discovery holds: a network the client may     *)
(* adopt or has adopted, or a cancellation that is marked as its leader's.  *)
OutcomeInv ==
    \A c \in Callers :
        /\ pc[c] \in {"check", "finish"} => outcome[c] # "none"
        /\ pc[c] \in {"check", "finish"} /\ outcome[c] \in Networks =>
               networkID \in {Unknown, outcome[c]}
        /\ c \in finished /\ outcome[c] \in Networks =>
               ready /\ outcome[c] = networkID
        /\ pc[c] \in {"check", "finish"} /\ outcome[c] = "canceled" => c \in cancelled
        /\ pc[c] = "finish" \/ c \in finished =>
               (outcome[c] = "canceled" => c \in leaderCancelled)

IInv ==
    /\ TypeOK
    /\ LeaderInv
    /\ OutcomeInv
    /\ AnswersAgree
    /\ NoInheritedCancellation

LEMMA InitInv == Init => IInv
BY IdentityAssumption
DEF Init, IInv, TypeOK, Outcomes, Errors, LeaderInv, OneDiscovery, Leads,
    OutcomeInv, AnswersAgree, NoInheritedCancellation

-----------------------------------------------------------------------------
LEMMA StepInv == IInv /\ [Next]_vars => IInv'
<1> SUFFICES ASSUME IInv, [Next]_vars PROVE IInv'
    OBVIOUS
<1> USE IdentityAssumption
    DEF IInv, TypeOK, Outcomes, Errors, LeaderInv, OneDiscovery, Leads,
        OutcomeInv, AnswersAgree, NoInheritedCancellation, Goto, Return, identity, discovery
<1>1. ASSUME NEW c \in Callers, CheckContext(c) PROVE IInv'
  BY <1>1 DEF CheckContext
<1>2. ASSUME NEW c \in Callers, Begin(c) PROVE IInv'
  BY <1>2 DEF Begin
<1>3. ASSUME NEW c \in Callers, Wait(c) PROVE IInv'
  BY <1>3 DEF Wait
<1>4. ASSUME NEW c \in Callers, Woken(c) PROVE IInv'
  BY <1>4 DEF Woken
<1>5. ASSUME NEW c \in Callers, Request(c) PROVE IInv'
  BY <1>5 DEF Request, Resolves
<1>6. ASSUME NEW c \in Callers, CheckLeader(c) PROVE IInv'
  BY <1>6 DEF CheckLeader
<1>7. ASSUME NEW c \in Callers, Finish(c) PROVE IInv'
  <2>1. TypeOK'
    <3>1. ready' \in BOOLEAN
      <4>1. CASE outcome[c] \in Networks
        BY <1>7, <4>1 DEF Finish
      <4>2. CASE outcome[c] \notin Networks
        BY <1>7, <4>2 DEF Finish
      <4> QED BY <4>1, <4>2
    <3>2. /\ networkID' \in Networks \cup {Unknown} /\ discovering' \in Callers \cup {None}
          /\ outcome' \in [Callers -> Outcomes]
          /\ leaderCancelled' \subseteq Callers /\ finished' \subseteq Callers
          /\ cancelled' \subseteq Callers
      BY <1>7 DEF Finish
    <3>3. /\ pc' \in [Callers -> {"loop", "begin", "wait", "woken", "request", "check", "finish", "done"}]
          /\ waitsFor' \in [Callers -> Callers \cup {None}]
          /\ answer' \in [Callers -> Outcomes]
      BY <1>7 DEF Finish
    <3> QED BY <3>1, <3>2, <3>3
  <2>2. LeaderInv'
    BY <1>7 DEF Finish
  <2>3. OutcomeInv'
    BY <1>7 DEF Finish
  <2>4. AnswersAgree' /\ NoInheritedCancellation'
    BY <1>7 DEF Finish
  <2> QED BY <2>1, <2>2, <2>3, <2>4
<1>8. ASSUME NEW c \in Callers, Cancel(c) PROVE IInv'
  BY <1>8 DEF Cancel
<1>9. CASE UNCHANGED vars
  BY <1>9 DEF vars
<1> QED BY <1>1, <1>2, <1>3, <1>4, <1>5, <1>6, <1>7, <1>8, <1>9 DEF Next, Step

LEMMA InvHolds == Spec => []IInv
BY InitInv, StepInv, PTL DEF Spec

(* Type correctness.                                                       *)
THEOREM TypeCorrect == Spec => []TypeOK
<1>1. IInv => TypeOK
  BY DEF IInv
<1> QED BY <1>1, InvHolds, PTL

(* One discovery at a time, and the registered one is running.             *)
THEOREM OneDiscoveryHolds == Spec => []OneDiscovery
<1>1. IInv => OneDiscovery
  BY DEF IInv, LeaderInv
<1> QED BY <1>1, InvHolds, PTL

(* All successful calls return the client's one identity.                  *)
THEOREM AnswersAgreeHolds == Spec => []AnswersAgree
<1>1. IInv => AnswersAgree
  BY DEF IInv
<1> QED BY <1>1, InvHolds, PTL

(* A cancelled leader cancels nobody else.                                 *)
THEOREM NoInheritedCancellationHolds == Spec => []NoInheritedCancellation
<1>1. IInv => NoInheritedCancellation
  BY DEF IInv
<1> QED BY <1>1, InvHolds, PTL

(* A network id is never replaced.                                         *)
THEOREM IdentityStableHolds == Spec => IdentityStable
<1>1. IInv /\ [Next]_vars => [networkID # Unknown => networkID' = networkID]_vars
  <2> SUFFICES ASSUME IInv, [Next]_vars, networkID # Unknown PROVE networkID' = networkID
      OBVIOUS
  <2>1. ASSUME NEW c \in Callers, Finish(c) PROVE networkID' = networkID
    BY <2>1 DEF IInv, OutcomeInv, LeaderInv, Finish
  <2>2. ASSUME NEW c \in Callers,
               CheckContext(c) \/ Begin(c) \/ Wait(c) \/ Woken(c) \/ Request(c) \/ CheckLeader(c) \/ Cancel(c)
        PROVE  networkID' = networkID
    BY <2>2 DEF CheckContext, Begin, Wait, Woken, Request, CheckLeader, Cancel, identity, discovery, discovery
  <2> QED BY <2>1, <2>2 DEF Next, Step, vars, identity
<1> QED BY <1>1, InvHolds, PTL DEF Spec, IdentityStable
=============================================================================
