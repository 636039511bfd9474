----------------------------- MODULE RPCIdentity -----------------------------
(***************************************************************************)
(* ensureNetworkIdentity of the rpc Client (xrpl/rpc/network_identity.go):  *)
(* concurrent operations that need the network id share one discovery.  The *)
(* first of them leads it with a server_info request under its own context, *)
(* the others wait for it, and a discovery that ends because its leader was *)
(* cancelled sends them round again.  A caller leads at most once, so its   *)
(* name also names its networkIdentityDiscovery.                            *)
(***************************************************************************)
CONSTANTS Callers,    \* operations that need the identity, one call each
          None,       \* the nil discovery
          Networks,   \* network ids servers report
          Unknown     \* the nil network id

ASSUME IdentityAssumption ==
    /\ None \notin Callers
    /\ Unknown \notin Networks
    /\ Networks \cap {"none", "failed", "canceled"} = {}

VARIABLES
    networkID, ready, discovering,   \* the state identity.mu protects
    outcome,          \* [Callers -> the result of the discovery that caller leads]
    leaderCancelled,  \* discoveries marked as ended by their leader's context
    finished,         \* discoveries whose done channel is closed
    cancelled,    \* callers whose context is done
    pc,
    waitsFor,     \* the discovery a follower waits for
    answer        \* what a call returned: a network id or an error

identity == <<networkID, ready, discovering>>
discovery == <<outcome, leaderCancelled, finished>>
vars == <<identity, discovery, cancelled, pc, waitsFor, answer>>

Errors == {"failed", "canceled"}
Outcomes == {"none"} \cup Errors \cup Networks

TypeOK ==
    /\ networkID \in Networks \cup {Unknown} /\ ready \in BOOLEAN
    /\ discovering \in Callers \cup {None}
    /\ outcome \in [Callers -> Outcomes]
    /\ leaderCancelled \subseteq Callers /\ finished \subseteq Callers
    /\ cancelled \subseteq Callers
    /\ pc \in [Callers -> {"loop", "begin", "wait", "woken", "request", "check", "finish", "done"}]
    /\ waitsFor \in [Callers -> Callers \cup {None}]
    /\ answer \in [Callers -> Outcomes]

(* NewClient: a configured network id, trusted if it came with a version,   *)
(* which is taken to be well formed.                                       *)
Init ==
    /\ networkID \in Networks \cup {Unknown}
    /\ ready \in BOOLEAN /\ (ready => networkID # Unknown)
    /\ discovering = None
    /\ outcome = [c \in Callers |-> "none"]
    /\ leaderCancelled = {} /\ finished = {}
    /\ cancelled = {}
    /\ pc = [c \in Callers |-> "loop"]
    /\ waitsFor = [c \in Callers |-> None]
    /\ answer = [c \in Callers |-> "none"]

Goto(c, label) == pc' = [pc EXCEPT ![c] = label] /\ UNCHANGED answer
Return(c, value) == pc' = [pc EXCEPT ![c] = "done"] /\ answer' = [answer EXCEPT ![c] = value]

-----------------------------------------------------------------------------
CheckContext(c) ==
    /\ pc[c] = "loop"
    /\ IF c \in cancelled THEN Return(c, "canceled") ELSE Goto(c, "begin")
    /\ UNCHANGED <<identity, discovery, cancelled, waitsFor>>

(* Variant: a leader does not register its discovery.                       *)
BeginUnregistered(c) ==
    /\ pc[c] = "begin"
    /\ IF ready THEN Return(c, networkID) ELSE Goto(c, "request")
    /\ UNCHANGED <<identity, discovery, cancelled, waitsFor>>

(* beginNetworkIdentityDiscovery, and the return of a known identity.      *)
Begin(c) ==
    /\ pc[c] = "begin"
    /\ \/ ready /\ Return(c, networkID) /\ UNCHANGED <<discovering, waitsFor>>
       \/ /\ ~ready /\ discovering # None
          /\ waitsFor' = [waitsFor EXCEPT ![c] = discovering]
          /\ Goto(c, "wait")
          /\ UNCHANGED discovering
       \/ /\ ~ready /\ discovering = None
          /\ discovering' = c
          /\ Goto(c, "request")
          /\ UNCHANGED waitsFor
    /\ UNCHANGED <<networkID, ready, discovery, cancelled>>

(* A follower waits for its own context and for the discovery.             *)
Wait(c) ==
    /\ pc[c] = "wait"
    /\ \/ c \in cancelled /\ Return(c, "canceled")
       \/ waitsFor[c] \in finished /\ Goto(c, "woken")
    /\ UNCHANGED <<identity, discovery, cancelled, waitsFor>>

(* Variant: a follower takes whatever its leader ended with.                *)
WokenInherits(c) ==
    /\ pc[c] = "woken"
    /\ IF c \in cancelled THEN Return(c, "canceled")
       ELSE Return(c, outcome[waitsFor[c]])
    /\ UNCHANGED <<identity, discovery, cancelled, waitsFor>>

Woken(c) ==
    /\ pc[c] = "woken"
    /\ IF c \in cancelled THEN Return(c, "canceled")
       ELSE IF waitsFor[c] \in leaderCancelled THEN Goto(c, "loop")
       ELSE Return(c, outcome[waitsFor[c]])
    /\ UNCHANGED <<identity, discovery, cancelled, waitsFor>>

(* ResolveNetworkIdentity against the id the attempt began with, which does *)
(* not change while a discovery is registered.                              *)
Resolves(n) == IF networkID \in {Unknown, n} THEN n ELSE "failed"

(* The leader's server_info request, retries included: it is answered,     *)
(* fails, or is cut short.                                                 *)
Request(c) ==
    /\ pc[c] = "request"
    /\ \E o \in {Resolves(n) : n \in Networks} \cup Errors :
          /\ o = "canceled" => c \in cancelled
          /\ outcome' = [outcome EXCEPT ![c] = o]
    /\ Goto(c, "check")
    /\ UNCHANGED <<identity, leaderCancelled, finished, cancelled, waitsFor>>

(* ctx.Err() != nil, evaluated before the lock is taken.                   *)
CheckLeader(c) ==
    /\ pc[c] = "check"
    /\ leaderCancelled' = leaderCancelled \cup (cancelled \cap {c})
    /\ Goto(c, "finish")
    /\ UNCHANGED <<identity, outcome, finished, cancelled, waitsFor>>

(* Variant: the discovery is given up without waking its followers.         *)
FinishUnclosed(c) ==
    /\ pc[c] = "finish"
    /\ discovering' = None
    /\ Return(c, outcome[c])
    /\ UNCHANGED <<networkID, ready, discovery, cancelled, waitsFor>>

(* finishNetworkIdentityDiscovery: store a success, wake the followers.    *)
Finish(c) ==
    /\ pc[c] = "finish"
    /\ IF outcome[c] \in Networks
       THEN networkID' = outcome[c] /\ ready' = TRUE
       ELSE UNCHANGED <<networkID, ready>>
    /\ discovering' = None
    /\ finished' = finished \cup {c}
    /\ Return(c, outcome[c])
    /\ UNCHANGED <<outcome, leaderCancelled, cancelled, waitsFor>>

Cancel(c) ==
    /\ pc[c] # "done"
    /\ cancelled' = cancelled \cup {c}
    /\ UNCHANGED <<identity, discovery, pc, waitsFor, answer>>

-----------------------------------------------------------------------------
Step(c) ==
    \/ CheckContext(c) \/ Begin(c) \/ Wait(c) \/ Woken(c)
    \/ Request(c) \/ CheckLeader(c) \/ Finish(c)

Next == \E c \in Callers : Step(c) \/ Cancel(c)

Spec == Init /\ [][Next]_vars

(* Every goroutine runs; a request ends, since the number of attempts and   *)
(* the duration of each are bounded.                                       *)
FairSpec == Spec /\ \A c \in Callers : WF_vars(Step(c))

-----------------------------------------------------------------------------
(* One server_info request at a time, and the registered discovery is the   *)
(* one that is running: none is left behind to be waited for in vain.       *)
Leads(c) == pc[c] \in {"request", "check", "finish"}
OneDiscovery == \A c \in Callers : Leads(c) <=> discovering = c

(* Every call that succeeds, led or shared, returned the client's identity. *)
AnswersAgree == \A c \in Callers : answer[c] \in Networks => ready /\ answer[c] = networkID

(* No call is told about a cancellation that was not its own.               *)
NoInheritedCancellation == \A c \in Callers : answer[c] = "canceled" => c \in cancelled

(* A network id, given or discovered, is never replaced.                   *)
IdentityStable == [][networkID # Unknown => networkID' = networkID]_vars

(* Every call returns, whichever leaders fail or are cancelled.            *)
CallsReturn == \A c \in Callers : pc[c] = "begin" ~> pc[c] = "done"
=============================================================================
