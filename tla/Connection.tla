----------------------------- MODULE Connection -----------------------------
(***************************************************************************)
(* A Connection used by any number of goroutines at once: "all methods are *)
(* safe for concurrent use".  Every caller runs one method at a time; the  *)
(* steps of a method are its locked regions and the calls between them, so *)
(* dials, closes and identity handshakes of different callers interleave.  *)
(* A context that expires is a choice at each place the code looks at it.  *)
(***************************************************************************)
EXTENDS ConnectionSlots

CONSTANT Callers

VARIABLES pc,     \* where each caller is inside a method
          mine    \* the socket it holds in a local variable, or NoSocket

vars == <<conn, preparing, disconnecting, sock, pc, mine>>

PCs == {"idle", "dialing", "dialed", "preparing", "using",
        "closing", "claimed", "releasing"}

TypeOK ==
    /\ SlotsType
    /\ pc \in [Callers -> PCs]
    /\ mine \in [Callers -> Sockets \cup {NoSocket}]

Init ==
    /\ SlotsInit
    /\ pc = [c \in Callers |-> "idle"]
    /\ mine = [c \in Callers |-> NoSocket]

At(c, label) == pc[c] = label

GoWith(c, label, s) ==
    /\ pc' = [pc EXCEPT ![c] = label]
    /\ mine' = [mine EXCEPT ![c] = s]

Goto(c, label) == GoWith(c, label, mine[c])
Return(c) == GoWith(c, "idle", NoSocket)

-----------------------------------------------------------------------------
(* Connect: beginConnect, the private handshake, publishSocket.            *)

BeginConnect(c) ==
    /\ At(c, "idle")
    /\ Free
    /\ Goto(c, "dialing")
    /\ UNCHANGED <<slots, sock>>

DialSucceeds(c, s) ==
    /\ At(c, "dialing")
    /\ Dialed(s)
    /\ GoWith(c, "dialed", s)

DialFails(c) ==
    /\ At(c, "dialing")
    /\ Return(c)
    /\ UNCHANGED <<slots, sock>>

Adopt(c) ==
    /\ At(c, "dialed")
    /\ AdoptDialed(mine[c])
    /\ Goto(c, "preparing")

Refuse(c) ==
    /\ At(c, "dialed")
    /\ \E expired \in BOOLEAN : RefuseDialed(mine[c], expired)
    /\ Return(c)

PublishPrepared(c) ==
    /\ At(c, "preparing")
    /\ \/ Publish(mine[c])
       \/ PublishExpired(mine[c])
       \/ PublishWithdrawn(mine[c])
    /\ Return(c)

-----------------------------------------------------------------------------
(* Disconnect: claim under the lock, close without it, release the claim.  *)

ClaimForDisconnect(c) ==
    /\ At(c, "idle")
    /\ Claimable # NoSocket
    /\ Claim
    /\ GoWith(c, "claimed", Claimable)

CloseClaimed(c) ==
    /\ At(c, "claimed")
    /\ CloseSocket(mine[c])
    /\ Goto(c, "releasing")
    /\ UNCHANGED slots

FinishDisconnect(c) ==
    /\ At(c, "releasing")
    /\ ReleaseClaim(mine[c])
    /\ Return(c)

-----------------------------------------------------------------------------
(* Reads and writes take the published socket and use it with no lock      *)
(* held; a failure, like a failed handshake, invalidates that very socket. *)

TakeCurrent(c) ==
    /\ At(c, "idle")
    /\ conn # NoSocket
    /\ GoWith(c, "using", conn)
    /\ UNCHANGED <<slots, sock>>

(* A goroutine that a user of a socket starts for it; see Writes.           *)
Share(c) ==
    /\ At(c, "idle")
    /\ \E d \in Callers : At(d, "using") /\ GoWith(c, "using", mine[d])
    /\ UNCHANGED <<slots, sock>>

(* It succeeded, or was given up before it touched the socket.              *)
UseEnds(c) ==
    /\ At(c, "using")
    /\ Return(c)
    /\ UNCHANGED <<slots, sock>>

(* Variant: every invalidation trusts a disconnect to close the socket.     *)
InvalidateFailedUnclosed(c) ==
    /\ At(c, "using") \/ At(c, "preparing")
    /\ Invalidate(mine[c])
    /\ Return(c)

InvalidateFailed(c) ==
    /\ At(c, "using") \/ At(c, "preparing")
    /\ Invalidate(mine[c])
    /\ IF disconnecting = mine[c] THEN Return(c) ELSE Goto(c, "closing")

CloseFailed(c) ==
    /\ At(c, "closing")
    /\ CloseSocket(mine[c])
    /\ Return(c)
    /\ UNCHANGED slots

-----------------------------------------------------------------------------
Step(c) ==
    \/ BeginConnect(c) \/ DialFails(c) \/ Adopt(c) \/ Refuse(c)
    \/ PublishPrepared(c)
    \/ ClaimForDisconnect(c) \/ CloseClaimed(c) \/ FinishDisconnect(c)
    \/ TakeCurrent(c) \/ UseEnds(c) \/ InvalidateFailed(c) \/ CloseFailed(c)
    \/ \E s \in Sockets : DialSucceeds(c, s)

Next == \E c \in Callers : Step(c) \/ Share(c)

Spec == Init /\ [][Next]_vars

(* A method once begun runs to its end: dials and handshakes are bounded by *)
(* the connect timeout and a read or a write on a closed socket returns; a  *)
(* read on an open socket may block for ever.                               *)
Finish(c) ==
    /\ pc[c] # "idle"
    /\ pc[c] = "using" => sock[mine[c]] = "closed"
    /\ Step(c)

FairSpec == Spec /\ \A c \in Callers : WF_vars(Finish(c))

-----------------------------------------------------------------------------
(* No socket leaks: an open one is in a slot, or a caller that will adopt  *)
(* or close it holds it.  In particular invalidateSocketState may leave    *)
(* the close to a disconnect only while that disconnect still has to do it.*)
NoLeak ==
    \A s \in Sockets : sock[s] = "open" =>
        \/ s \in {conn, preparing}
        \/ \E c \in Callers :
               mine[c] = s /\ pc[c] \in {"dialed", "closing", "claimed"}

(* A socket offered to readers and writers, or about to be, was not closed *)
(* by this side: whoever closes a socket has it out of the slots first.    *)
ShownIsOpen ==
    \A s \in {conn, preparing} \ {NoSocket} : sock[s] = "open"

(* A published socket is withdrawn only by a disconnect or by a goroutine   *)
(* that took this very socket and saw it fail, however long ago it took it: *)
(* the failure of a socket that was replaced since leaves the new one alone.*)
WithdrawnByItsUsers ==
    [][conn # NoSocket /\ conn' # conn =>
          \E c \in Callers :
              \/ At(c, "using") /\ mine[c] = conn /\ pc'[c] # "using"
              \/ At(c, "idle") /\ pc'[c] = "claimed" /\ mine'[c] = conn]_vars

(* The sockets that may still be published: never dialed, or on their way. *)
Fresh ==
    {s \in Sockets :
        \/ sock[s] = "unused"
        \/ preparing = s
        \/ \E c \in Callers : pc[c] = "dialed" /\ mine[c] = s}

LinkView == INSTANCE Link WITH shown <- conn, fresh <- Fresh

(* Connection implements Link: one socket shown at a time, none shown      *)
(* twice, none shown after it was refused, invalidated or withdrawn.       *)
ImplementsLink == LinkView!LinkSpec

(* A socket that left the slots is eventually closed.                      *)
Abandoned(s) == sock[s] = "open" /\ ~InSlot(s)
AbandonedSocketsClose ==
    \A s \in Sockets : Abandoned(s) ~> (sock[s] = "closed" \/ InSlot(s))

=============================================================================
