------------------------------ MODULE WSClient ------------------------------
(***************************************************************************)
(* One websocket Client (xrpl/websocket/client.go) and the goroutines that *)
(* share it: the application, which serializes Connect and Disconnect; one *)
(* reader per lifecycle, which also reconnects; and concurrent requests.   *)
(* A step is one locked region, one blocking call or one context check, so *)
(* everything the code lets happen between two of them can happen here.    *)
(* Stream delivery inside handleMessage is the subject of LifecycleStream. *)
(***************************************************************************)
EXTENDS ConnectionSlots, Naturals, FiniteSets

CONSTANTS Requests,         \* request ids
          Networks,         \* network ids servers report
          Unknown,          \* the nil network id
          Configured,       \* the network id given in the configuration
          Trusted,          \* WithNetworkIdentity with a build version
          Complete,         \* the configured identity passes ValidateNetworkIdentity
          Ctl,              \* the application goroutine
          MaxLife,          \* bound: successful calls of Connect
          MaxDisconnects,   \* bound: calls of Disconnect
          MaxReconnects     \* cfg.maxReconnects

Lives == 1..MaxLife
Connectors == {Ctl} \cup Lives
Procs == Connectors \cup Requests

ASSUME ClientAssumption ==
    /\ MaxLife \in Nat /\ MaxDisconnects \in Nat /\ MaxReconnects \in Nat
    /\ Configured \in Networks \cup {Unknown}
    /\ Unknown \notin Networks
    /\ Trusted \in BOOLEAN /\ Complete \in BOOLEAN
    /\ Trusted => Configured # Unknown
    /\ Ctl \notin Lives /\ Ctl \notin Requests /\ Lives \cap Requests = {}

VARIABLES
    lost,         \* sockets whose peer or network is gone
    net,          \* the network of the server behind each socket
    identity,     \* identity.current.NetworkID
    ready,        \* identity.ready
    owed,         \* requests the server received on a socket and has to answer
    inbox,        \* responses on their way to the client, per socket
    life,         \* number of the newest lifecycle context
    live,         \* lifecycle contexts that are not cancelled
    retry,        \* retryCount of each reader
    wasCurrent,   \* what invalidateSocketState told each reader
    msg,          \* the response each reader has in hand
    pending,      \* keys of pendingResponses
    out,          \* what a request's pendingResponse was completed with
    calls,        \* calls of Disconnect so far
    pc, mine      \* where each goroutine is, and its local socket

clientVars == <<identity, ready, life, live, retry, wasCurrent, msg>>
wire == <<lost, net, owed, inbox>>
requestVars == <<pending, out>>
vars == <<conn, preparing, disconnecting, sock, lost, net, owed, inbox,
          identity, ready, life, live, retry, wasCurrent, msg,
          pending, out, calls, pc, mine>>

Outcomes == {"none", "response", "disconnected", "timeout", "notConnected"}

Handshake == {"dial", "dialed", "identity", "closing", "replace", "cancelOld", "publish"}
Disconnecting == {"fail", "claim", "cancel", "close", "release", "failAgain"}
Reading == {"top", "take", "wantRead", "reading", "gotMessage", "gotError", "handle",
            "invalidate", "closeOld", "failSocket", "staleCheck", "failAll"}
Reconnecting == {"retry", "backoff", "lock", "connectError", "connected"}
Requesting == {"new", "register", "write", "writeClose", "writeFailed", "timeoutClose", "await"}
Labels ==
    {"idle", "none", "done", "reset"} \cup Handshake \cup Disconnecting
        \cup Reading \cup Reconnecting \cup Requesting

TypeOK ==
    /\ SlotsType
    /\ lost \subseteq Sockets
    /\ net \in [Sockets -> Networks \cup {Unknown}]
    /\ identity \in Networks \cup {Unknown} /\ ready \in BOOLEAN
    /\ owed \in [Sockets -> SUBSET Requests]
    /\ inbox \in [Sockets -> SUBSET Requests]
    /\ life \in 0..MaxLife /\ live \subseteq Lives
    /\ retry \in [Lives -> 0..MaxReconnects]
    /\ wasCurrent \in [Lives -> BOOLEAN]
    /\ msg \in [Lives -> Requests \cup {NoSocket}]
    /\ pending \subseteq Requests
    /\ out \in [Requests -> Outcomes]
    /\ calls \in 0..MaxDisconnects
    /\ pc \in [Procs -> Labels]
    /\ mine \in [Procs -> Sockets \cup {NoSocket}]

Init ==
    /\ SlotsInit
    /\ lost = {} /\ net = [s \in Sockets |-> Unknown]
    /\ identity = Configured /\ ready = Trusted
    /\ owed = [s \in Sockets |-> {}] /\ inbox = [s \in Sockets |-> {}]
    /\ life = 0 /\ live = {}
    /\ retry = [r \in Lives |-> 0]
    /\ wasCurrent = [r \in Lives |-> FALSE]
    /\ msg = [r \in Lives |-> NoSocket]
    /\ pending = {} /\ out = [q \in Requests |-> "none"] /\ calls = 0
    /\ pc = [p \in Procs |-> IF p = Ctl THEN "idle" ELSE IF p \in Lives THEN "none" ELSE "new"]
    /\ mine = [p \in Procs |-> NoSocket]

At(p, label) == pc[p] = label
Goto(p, label) == pc' = [pc EXCEPT ![p] = label] /\ UNCHANGED mine
GoWith(p, label, s) == pc' = [pc EXCEPT ![p] = label] /\ mine' = [mine EXCEPT ![p] = s]

(* A socket that can carry nothing any more.                               *)
Gone(s) == s \in lost \cup {t \in Sockets : sock[t] = "closed"}

(* A reader's context; the application connects with context.Background(). *)
ContextAlive(p) == p = Ctl \/ p \in live

-----------------------------------------------------------------------------
(* pendingResponses: failing a set of requests takes them out of the map    *)
(* and completes those the once has not settled yet.                       *)
FailPending(Q) ==
    /\ pending' = pending \ Q
    /\ out' = [q \in Requests |->
                  IF q \in pending \cap Q /\ out[q] = "none" THEN "disconnected" ELSE out[q]]

OnSocket(s) == {q \in Requests : mine[q] = s}

(* A request returns with its own verdict: cancel, then unregister.        *)
ReturnRequest(q, verdict) ==
    /\ out' = [out EXCEPT ![q] = IF @ = "none" THEN verdict ELSE @]
    /\ pending' = pending \ {q}
    /\ Goto(q, "done")

-----------------------------------------------------------------------------
(* connect: the caller holds connectionHandshakeMu exclusively from its     *)
(* first step to its last, a request holds it shared until it has written. *)
HandshakeLocked == \E p \in Connectors : pc[p] \in Handshake
HandshakeShared == \E q \in Requests : pc[q] \in {"register", "write", "writeClose", "timeoutClose"}

ConnectFailed(p) == GoWith(p, IF p = Ctl THEN "idle" ELSE "connectError", NoSocket)

BeginConnect(p) ==
    /\ At(p, "lock")
    /\ ~HandshakeLocked /\ ~HandshakeShared
    /\ IF Free THEN Goto(p, "dial") ELSE ConnectFailed(p)
    /\ UNCHANGED <<slots, sock, wire, clientVars, requestVars, calls>>

DialSucceeds(p, s, n) ==
    /\ At(p, "dial")
    /\ Dialed(s)
    /\ net' = [net EXCEPT ![s] = n]
    /\ GoWith(p, "dialed", s)
    /\ UNCHANGED <<lost, owed, inbox, clientVars, requestVars, calls>>

DialFails(p) ==
    /\ At(p, "dial")
    /\ ConnectFailed(p)
    /\ UNCHANGED <<slots, sock, wire, clientVars, requestVars, calls>>

Adopt(p) ==
    /\ At(p, "dialed")
    /\ ContextAlive(p)
    /\ AdoptDialed(mine[p])
    /\ Goto(p, "identity")
    /\ UNCHANGED <<wire, clientVars, requestVars, calls>>

(* The connect timeout can expire before any context check.                *)
Refuse(p) ==
    /\ At(p, "dialed")
    /\ \E expired \in BOOLEAN : RefuseDialed(mine[p], expired)
    /\ ConnectFailed(p)
    /\ UNCHANGED <<wire, clientVars, requestVars, calls>>

(* prepareNetworkIdentity: a trusted identity is validated and needs no     *)
(* discovery; otherwise the server's own network id must agree with the id  *)
(* known so far.                                                           *)
ReaderReading == \E r \in Lives : pc[r] = "reading"

(* Variant: whatever network the server reports is accepted.                *)
DiscoversAnything(s) == sock[s] = "open" /\ s \notin lost /\ ~ReaderReading

Discovers(s) ==
    /\ sock[s] = "open" /\ s \notin lost /\ ~ReaderReading
    /\ identity \in {Unknown, net[s]}

PrepareIdentity(p) ==
    /\ At(p, "identity")
    /\ \/ Trusted /\ Complete /\ UNCHANGED <<identity, ready>>
       \/ ~Trusted /\ Discovers(mine[p]) /\ identity' = net[mine[p]] /\ ready' = TRUE
    /\ Goto(p, IF p = Ctl THEN "replace" ELSE "publish")
    /\ UNCHANGED <<slots, sock, wire, life, live, retry, wasCurrent, msg, requestVars, calls>>

(* Variant: the private socket is dropped without being closed.            *)
IdentityFailsUnclosed(p) ==
    /\ At(p, "identity")
    /\ ~(Trusted /\ Complete)
    /\ Invalidate(mine[p])
    /\ ConnectFailed(p)
    /\ UNCHANGED <<wire, clientVars, requestVars, calls>>

(* A mismatch, a lost socket, a timeout, or a configured build version that *)
(* is none: invalidate the private socket.                                  *)
IdentityFails(p) ==
    /\ At(p, "identity")
    /\ ~(Trusted /\ Complete)
    /\ Invalidate(mine[p])
    /\ IF disconnecting = mine[p] THEN ConnectFailed(p) ELSE Goto(p, "closing")
    /\ UNCHANGED <<wire, clientVars, requestVars, calls>>

ClosePrepared(p) ==
    /\ At(p, "closing")
    /\ CloseSocket(mine[p])
    /\ ConnectFailed(p)
    /\ UNCHANGED <<slots, wire, clientVars, requestVars, calls>>

(* cancelLifecycleForReplacement, which only a manual Connect runs.         *)
FailReplaced ==
    /\ At(Ctl, "replace")
    /\ FailPending(Requests)
    /\ Goto(Ctl, "cancelOld")
    /\ UNCHANGED <<slots, sock, wire, clientVars, calls>>

(* Variant: the old lifecycle is left alone until resetLifecycle.           *)
CancelReplacedLater ==
    /\ At(Ctl, "cancelOld")
    /\ Goto(Ctl, "publish")
    /\ UNCHANGED <<slots, sock, wire, clientVars, requestVars, calls>>

CancelReplaced ==
    /\ At(Ctl, "cancelOld")
    /\ live' = live \ {life}
    /\ Goto(Ctl, "publish")
    /\ UNCHANGED <<slots, sock, wire, identity, ready, life, retry, wasCurrent, msg,
                   requestVars, calls>>

PublishPrepared(p) ==
    /\ At(p, "publish")
    /\ \/ /\ ContextAlive(p)
          /\ Publish(mine[p])
          /\ Goto(p, IF p = Ctl THEN "reset" ELSE "connected")
       \/ PublishExpired(mine[p]) /\ ConnectFailed(p)
       \/ PublishWithdrawn(mine[p]) /\ ConnectFailed(p)
    /\ UNCHANGED <<wire, clientVars, requestVars, calls>>

-----------------------------------------------------------------------------
(* Connect and Disconnect, one call at a time.                             *)

CallConnect ==
    /\ At(Ctl, "idle")
    /\ life < MaxLife
    /\ Goto(Ctl, "lock")
    /\ UNCHANGED <<slots, sock, wire, clientVars, requestVars, calls>>

(* resetLifecycle, then the new reader starts.                             *)
StartLifecycle ==
    /\ At(Ctl, "reset")
    /\ life' = life + 1
    /\ live' = (live \ {life}) \cup {life + 1}
    /\ pc' = [pc EXCEPT ![Ctl] = "idle", ![life + 1] = "top"]
    /\ mine' = [mine EXCEPT ![Ctl] = NoSocket]
    /\ UNCHANGED <<slots, sock, wire, identity, ready, retry, wasCurrent, msg,
                   requestVars, calls>>

CallDisconnect ==
    /\ At(Ctl, "idle")
    /\ calls < MaxDisconnects
    /\ calls' = calls + 1
    /\ FailPending(Requests)
    /\ Goto(Ctl, "claim")
    /\ UNCHANGED <<slots, sock, wire, clientVars>>

ClaimForDisconnect ==
    /\ At(Ctl, "claim")
    /\ Claim
    /\ GoWith(Ctl, "cancel", Claimable)
    /\ UNCHANGED <<wire, clientVars, requestVars, calls>>

(* Variant: Disconnect waits for the reader before it closes the socket.    *)
CancelLifecycleWaits ==
    /\ At(Ctl, "cancel")
    /\ \A r \in Lives : pc[r] \in {"none", "done"}
    /\ live' = live \ {life}
    /\ Goto(Ctl, IF mine[Ctl] = NoSocket THEN "failAgain" ELSE "close")
    /\ UNCHANGED <<slots, sock, wire, identity, ready, life, retry, wasCurrent, msg,
                   requestVars, calls>>

CancelLifecycle ==
    /\ At(Ctl, "cancel")
    /\ live' = live \ {life}
    /\ Goto(Ctl, IF mine[Ctl] = NoSocket THEN "failAgain" ELSE "close")
    /\ UNCHANGED <<slots, sock, wire, identity, ready, life, retry, wasCurrent, msg,
                   requestVars, calls>>

CloseClaimed(p) ==
    /\ p \in Connectors
    /\ At(p, "close")
    /\ CloseSocket(mine[p])
    /\ Goto(p, "release")
    /\ UNCHANGED <<slots, wire, clientVars, requestVars, calls>>

FinishDisconnect(p) ==
    /\ At(p, "release")
    /\ ReleaseClaim(mine[p])
    /\ GoWith(p, IF p = Ctl THEN "failAgain" ELSE "done", NoSocket)
    /\ UNCHANGED <<wire, clientVars, requestVars, calls>>

(* Variant: requests that raced with the claim are forgotten.               *)
FailRacedSkipped ==
    /\ At(Ctl, "failAgain")
    /\ Goto(Ctl, "idle")
    /\ UNCHANGED <<slots, sock, wire, clientVars, requestVars, calls>>

FailRaced ==
    /\ At(Ctl, "failAgain")
    /\ FailPending(Requests)
    /\ Goto(Ctl, "idle")
    /\ UNCHANGED <<slots, sock, wire, clientVars, calls>>

-----------------------------------------------------------------------------
(* readMessages(ctx) of lifecycle r.                                       *)

(* A context check that leads on, or ends the goroutine.                   *)
CheckContext(r, label, next) ==
    /\ At(r, label)
    /\ GoWith(r, IF r \in live THEN next ELSE "done", IF r \in live THEN mine[r] ELSE NoSocket)
    /\ UNCHANGED <<slots, sock, wire, clientVars, requestVars, calls>>

TakeCurrent(r) ==
    /\ At(r, "take")
    /\ GoWith(r, IF conn = NoSocket THEN "gotError" ELSE "wantRead", conn)
    /\ UNCHANGED <<slots, sock, wire, clientVars, requestVars, calls>>

LockReadMu(r) ==
    /\ At(r, "wantRead")
    /\ ~ReaderReading
    /\ Goto(r, "reading")
    /\ UNCHANGED <<slots, sock, wire, clientVars, requestVars, calls>>

ReadMessage(r, q) ==
    /\ At(r, "reading")
    /\ sock[mine[r]] = "open"
    /\ q \in inbox[mine[r]]
    /\ inbox' = [inbox EXCEPT ![mine[r]] = @ \ {q}]
    /\ msg' = [msg EXCEPT ![r] = q]
    /\ Goto(r, "gotMessage")
    /\ UNCHANGED <<slots, sock, lost, net, owed, identity, ready, life, live, retry,
                   wasCurrent, requestVars, calls>>

ReadFails(r) ==
    /\ At(r, "reading")
    /\ Gone(mine[r])
    /\ Goto(r, "gotError")
    /\ UNCHANGED <<slots, sock, wire, clientVars, requestVars, calls>>

(* Variant: the response is read but never handed to its request.           *)
HandleMessageDropped(r) ==
    /\ At(r, "handle")
    /\ retry' = [retry EXCEPT ![r] = 0]
    /\ msg' = [msg EXCEPT ![r] = NoSocket]
    /\ GoWith(r, "top", NoSocket)
    /\ UNCHANGED <<slots, sock, wire, identity, ready, life, live, wasCurrent, requestVars, calls>>

(* handleMessage for a response, then the reset of retryCount.             *)
HandleMessage(r) ==
    /\ At(r, "handle")
    /\ out' = [q \in Requests |->
                  IF q = msg[r] /\ q \in pending /\ out[q] = "none" THEN "response" ELSE out[q]]
    /\ retry' = [retry EXCEPT ![r] = 0]
    /\ msg' = [msg EXCEPT ![r] = NoSocket]
    /\ GoWith(r, "top", NoSocket)
    /\ UNCHANGED <<slots, sock, wire, identity, ready, life, live, wasCurrent, pending, calls>>

AfterError(r) == CheckContext(r, "gotError", IF mine[r] = NoSocket THEN "failAll" ELSE "invalidate")

InvalidateOld(r) ==
    /\ At(r, "invalidate")
    /\ Invalidate(mine[r])
    /\ wasCurrent' = [wasCurrent EXCEPT ![r] = (conn = mine[r])]
    /\ Goto(r, IF disconnecting = mine[r] THEN "failSocket" ELSE "closeOld")
    /\ UNCHANGED <<wire, identity, ready, life, live, retry, msg, requestVars, calls>>

CloseOld(r) ==
    /\ At(r, "closeOld")
    /\ CloseSocket(mine[r])
    /\ Goto(r, "failSocket")
    /\ UNCHANGED <<slots, wire, clientVars, requestVars, calls>>

FailForSocket(r) ==
    /\ At(r, "failSocket")
    /\ FailPending(OnSocket(mine[r]))
    /\ Goto(r, "staleCheck")
    /\ UNCHANGED <<slots, sock, wire, clientVars, calls>>

(* Variant: whoever invalidated the socket is taken to have replaced it.    *)
StaleCheckTrusting(r) ==
    /\ At(r, "staleCheck")
    /\ GoWith(r, IF wasCurrent[r] THEN "retry" ELSE "done", NoSocket)
    /\ UNCHANGED <<slots, sock, wire, clientVars, requestVars, calls>>

StaleCheck(r) ==
    /\ At(r, "staleCheck")
    /\ GoWith(r, IF ~wasCurrent[r] /\ conn # NoSocket THEN "done" ELSE "retry", NoSocket)
    /\ UNCHANGED <<slots, sock, wire, clientVars, requestVars, calls>>

FailForAll(r) ==
    /\ At(r, "failAll")
    /\ FailPending(Requests)
    /\ Goto(r, "retry")
    /\ UNCHANGED <<slots, sock, wire, clientVars, calls>>

-----------------------------------------------------------------------------
(* reconnectWithBackoff of reader r.                                       *)

RetryReconnect(r) ==
    /\ At(r, "retry")
    /\ \/ conn # NoSocket /\ Goto(r, "top") /\ UNCHANGED retry
       \/ conn = NoSocket /\ retry[r] >= MaxReconnects /\ Goto(r, "done") /\ UNCHANGED retry
       \/ /\ conn = NoSocket /\ retry[r] < MaxReconnects
          /\ retry' = [retry EXCEPT ![r] = @ + 1]
          /\ Goto(r, "backoff")
    /\ UNCHANGED <<slots, sock, wire, identity, ready, life, live, wasCurrent, msg,
                   requestVars, calls>>

(* The timer and a cancelled context may both be ready.                    *)
Backoff(r) ==
    /\ At(r, "backoff")
    /\ \/ Goto(r, "lock")
       \/ r \notin live /\ Goto(r, "done")
    /\ UNCHANGED <<slots, sock, wire, clientVars, requestVars, calls>>

AfterConnectError(r) == CheckContext(r, "connectError", "retry")

(* After the buffered messages: back to reading, or take the socket down.  *)
AfterConnected(r) ==
    /\ At(r, "connected")
    /\ GoWith(r, IF r \in live THEN "top" ELSE "claim", NoSocket)
    /\ UNCHANGED <<slots, sock, wire, clientVars, requestVars, calls>>

DisconnectConnection(r) ==
    /\ At(r, "claim")
    /\ Claim
    /\ GoWith(r, IF Claimable = NoSocket THEN "done" ELSE "close", Claimable)
    /\ UNCHANGED <<wire, clientVars, requestVars, calls>>

-----------------------------------------------------------------------------
(* request(ctx, req) with id q.                                            *)

TakeSocket(q) ==
    /\ At(q, "new")
    /\ ~HandshakeLocked
    /\ IF conn = NoSocket
       THEN ReturnRequest(q, "notConnected")
       ELSE GoWith(q, "register", conn) /\ UNCHANGED requestVars
    /\ UNCHANGED <<slots, sock, wire, clientVars, calls>>

Register(q) ==
    /\ At(q, "register")
    /\ pending' = pending \cup {q}
    /\ Goto(q, "write")
    /\ UNCHANGED <<slots, sock, wire, clientVars, out, calls>>

(* The write token is held from the write to the close after its failure.  *)
WriteLocked == \E q \in Requests : pc[q] \in {"writeClose", "timeoutClose"}

(* A write on a socket whose peer is gone may still succeed.               *)
WriteRequest(q) ==
    /\ At(q, "write") /\ ~WriteLocked
    /\ sock[mine[q]] = "open"
    /\ owed' = IF mine[q] \in lost THEN owed ELSE [owed EXCEPT ![mine[q]] = @ \cup {q}]
    /\ Goto(q, "await")
    /\ UNCHANGED <<slots, sock, lost, net, inbox, clientVars, requestVars, calls>>

WriteFails(q) ==
    /\ At(q, "write") /\ ~WriteLocked
    /\ Gone(mine[q])
    /\ Invalidate(mine[q])
    /\ Goto(q, IF disconnecting = mine[q] THEN "writeFailed" ELSE "writeClose")
    /\ UNCHANGED <<wire, clientVars, requestVars, calls>>

(* The request context ends during the write: the watcher invalidates the  *)
(* socket, and the request returns without failing its neighbours.  Before *)
(* the write it ends without touching the socket.                          *)
WriteTimesOut(q) ==
    /\ At(q, "write")
    /\ \/ /\ ~WriteLocked
          /\ Invalidate(mine[q])
          /\ IF disconnecting = mine[q]
             THEN ReturnRequest(q, "timeout")
             ELSE Goto(q, "timeoutClose") /\ UNCHANGED requestVars
       \/ UNCHANGED <<slots, sock>> /\ ReturnRequest(q, "timeout")
    /\ UNCHANGED <<wire, clientVars, calls>>

CloseWritten(q) ==
    /\ \/ At(q, "writeClose") /\ Goto(q, "writeFailed") /\ UNCHANGED requestVars
       \/ At(q, "timeoutClose") /\ ReturnRequest(q, "timeout")
    /\ CloseSocket(mine[q])
    /\ UNCHANGED <<slots, wire, clientVars, calls>>

(* Variant: one failed write fails every request.                          *)
WriteFailedFailsAll(q) ==
    /\ At(q, "writeFailed")
    /\ FailPending(Requests)
    /\ Goto(q, "done")
    /\ UNCHANGED <<slots, sock, wire, clientVars, calls>>

(* failPendingResponsesForSocket, then the deferred cleanup; a request that *)
(* timed out meanwhile leaves its neighbours to the reader.                *)
WriteFailed(q) ==
    /\ At(q, "writeFailed")
    /\ \/ FailPending(OnSocket(mine[q])) /\ Goto(q, "done")
       \/ ReturnRequest(q, "timeout")
    /\ UNCHANGED <<slots, sock, wire, clientVars, calls>>

AwaitResponse(q) ==
    /\ At(q, "await")
    /\ out[q] # "none"
    /\ ReturnRequest(q, out[q])
    /\ UNCHANGED <<slots, sock, wire, clientVars, calls>>

(* The context also ends while the request waits: for the handshake lock,   *)
(* or for its answer.                                                      *)
WaitTimesOut(q) ==
    /\ At(q, "await") \/ (At(q, "new") /\ ~HandshakeLocked)
    /\ ReturnRequest(q, "timeout")
    /\ UNCHANGED <<slots, sock, wire, clientVars, calls>>

-----------------------------------------------------------------------------
(* The other side.                                                         *)

LoseSocket(s) ==
    /\ sock[s] = "open" /\ s \notin lost
    /\ lost' = lost \cup {s}
    /\ UNCHANGED <<slots, sock, net, owed, inbox, clientVars, requestVars, calls, pc, mine>>

Answer(s, q) ==
    /\ s \notin lost /\ sock[s] = "open"
    /\ q \in owed[s]
    /\ owed' = [owed EXCEPT ![s] = @ \ {q}]
    /\ inbox' = [inbox EXCEPT ![s] = @ \cup {q}]
    /\ UNCHANGED <<slots, sock, lost, net, clientVars, requestVars, calls, pc, mine>>

-----------------------------------------------------------------------------
ConnectStep(p) ==
    \/ BeginConnect(p) \/ DialFails(p) \/ Adopt(p) \/ Refuse(p) \/ PrepareIdentity(p)
    \/ IdentityFails(p) \/ ClosePrepared(p) \/ PublishPrepared(p)
    \/ \E s \in Sockets, n \in Networks : DialSucceeds(p, s, n)

DisconnectStep ==
    \/ ClaimForDisconnect \/ CancelLifecycle \/ FailRaced
    \/ CloseClaimed(Ctl) \/ FinishDisconnect(Ctl)

(* What the application has begun; whether it calls again is its choice.   *)
CtlStep == ConnectStep(Ctl) \/ FailReplaced \/ CancelReplaced \/ StartLifecycle \/ DisconnectStep

ReadStep(r) ==
    \/ CheckContext(r, "top", "take") \/ TakeCurrent(r) \/ LockReadMu(r)
    \/ ReadFails(r) \/ \E q \in Requests : ReadMessage(r, q)
    \/ CheckContext(r, "gotMessage", "handle") \/ HandleMessage(r)
    \/ AfterError(r) \/ InvalidateOld(r) \/ CloseOld(r) \/ FailForSocket(r)
    \/ StaleCheck(r) \/ FailForAll(r)

ReaderStep(r) ==
    \/ ReadStep(r) \/ RetryReconnect(r) \/ Backoff(r) \/ ConnectStep(r)
    \/ AfterConnectError(r) \/ AfterConnected(r) \/ DisconnectConnection(r)
    \/ CloseClaimed(r) \/ FinishDisconnect(r)

(* Everything a request does on its own, but for its timeout.              *)
RequestStep(q) ==
    \/ TakeSocket(q) \/ Register(q) \/ WriteRequest(q) \/ WriteFails(q)
    \/ CloseWritten(q) \/ WriteFailed(q) \/ AwaitResponse(q)

Timeout(q) == WriteTimesOut(q) \/ WaitTimesOut(q)

Environment ==
    \E s \in Sockets : LoseSocket(s) \/ \E q \in Requests : Answer(s, q)

Next ==
    \/ CallConnect \/ CallDisconnect \/ CtlStep
    \/ \E r \in Lives : ReaderStep(r)
    \/ \E q \in Requests : RequestStep(q) \/ Timeout(q)
    \/ Environment

Spec == Init /\ [][Next]_vars

(* The scheduler runs every goroutine that can go on.  Nothing is assumed   *)
(* of servers, of the network, of timeouts, or of the application's calls.  *)
FairSpec ==
    /\ Spec
    /\ WF_vars(CtlStep)
    /\ \A r \in Lives : WF_vars(ReaderStep(r))
    /\ \A q \in Requests : WF_vars(RequestStep(q))

-----------------------------------------------------------------------------
(* No socket leaks: one that is open on this side is published or being     *)
(* prepared, or a goroutine is on its way to adopt or to close it.          *)
NoLeak ==
    \A s \in Sockets : sock[s] = "open" =>
        \/ s \in {conn, preparing}
        \/ \E p \in Procs : mine[p] = s /\ pc[p] \in
              {"dialed", "closing", "cancel", "close", "closeOld", "writeClose", "timeoutClose"}

(* Every request was bound to a socket whose server reported exactly the    *)
(* network the client now believes in: no request slips onto a socket       *)
(* before its discovery, and no reconnect changes the network.              *)
RequestsOnPinnedNetwork ==
    \A q \in Requests : mine[q] # NoSocket /\ ~Trusted => ready /\ net[mine[q]] = identity

(* Only the newest lifecycle can be live: the one before it is cancelled    *)
(* before a new socket is published, by Connect and by Disconnect alike.    *)
OneLiveLifecycle ==
    /\ live \subseteq {life}
    /\ At(Ctl, "reset") => live = {}

(* The published socket has a reader that will read it, or a goroutine on   *)
(* its way to start one or to take the socket down.                         *)
PublishedIsAttended ==
    conn # NoSocket =>
        \/ At(Ctl, "reset") \/ At(Ctl, "claim")
        \/ \E r \in live : pc[r] \notin {"none", "done"}
        \/ \E r \in Lives : pc[r] \in {"connected", "claim"}

(* The reader of a live lifecycle stops only when its reconnections are     *)
(* used up.  Writes, watchers and disconnects may have invalidated its      *)
(* socket before it noticed the loss, and the socket it finds afterwards,   *)
(* if any, is one it published itself.                                      *)
ReconnectsUntilSpent ==
    \A r \in live : At(r, "done") => retry[r] >= MaxReconnects

(* A reader whose lifecycle is over never waits on, or holds a message of,  *)
(* the published socket: that message belongs to the reader after it.       *)
StaleReaderOffReplacement ==
    \A r \in Lives \ live :
        pc[r] \in {"reading", "gotMessage"} => mine[r] # conn

(* A request is failed as disconnected only when its own socket is lost,    *)
(* closed or no longer published, or the application is disconnecting.      *)
NoSpuriousFailure ==
    [][\A q \in Requests : out[q] = "none" /\ out'[q] = "disconnected" =>
          \/ mine[q] # conn \/ Gone(mine[q])
          \/ calls' # calls \/ At(Ctl, "failAgain")]_vars

(* The client implements Link: one socket shown at a time, and none again   *)
(* that was shown, refused or withdrawn, whoever connects and disconnects.  *)
Fresh ==
    {s \in Sockets :
        \/ sock[s] = "unused"
        \/ preparing = s
        \/ \E p \in Procs : pc[p] = "dialed" /\ mine[p] = s}

LinkView == INSTANCE Link WITH shown <- conn, fresh <- Fresh
ImplementsLink == LinkView!LinkSpec

(* A request whose socket is gone returns without waiting for its timeout,  *)
(* whoever noticed the loss first.                                          *)
LostRequestsReturn ==
    \A q \in Requests : (At(q, "await") /\ Gone(mine[q])) ~> At(q, "done")

(* So does one that registered between a Disconnect's first sweep of the    *)
(* pending requests and its claim of their socket, as long as no reader     *)
(* publishes a socket after the Disconnect that ends its lifecycle.         *)
PublishedIsLive == conn # NoSocket => live # {} \/ At(Ctl, "reset")
RacedRequestsReturn == []PublishedIsLive => LostRequestsReturn

(* A response that reached the client is given to its request, unless the   *)
(* socket is lost first.                                                    *)
AnswersArrive ==
    \A q \in Requests :
        (At(q, "await") /\ q \in inbox[mine[q]]) ~> (At(q, "done") \/ Gone(mine[q]))

(* Connect and Disconnect return: nobody they wait for waits for them.      *)
CallsReturn == []<>At(Ctl, "idle")
=============================================================================
