--------------------------- MODULE ConnectionSlots ---------------------------
(***************************************************************************)
(* The state Connection.mu protects (xrpl/websocket/connection.go) and the *)
(* critical sections that change it, one operator per locked region.  They *)
(* are put together by Connection (arbitrary callers) and by WSClient (the *)
(* goroutines of one Client).                                              *)
(***************************************************************************)
CONSTANTS Sockets,      \* every socket the dialer can ever return
          NoSocket      \* the nil websocketConnection

ASSUME SocketAssumption == NoSocket \notin Sockets

VARIABLES conn,           \* published: ordinary reads and writes use it
          preparing,      \* dialed and adopted, still private to its connector
          disconnecting,  \* claimed by a disconnect that has yet to close it
          sock            \* what this side did with each socket

slots == <<conn, preparing, disconnecting>>

SlotsType ==
    /\ conn \in Sockets \cup {NoSocket}
    /\ preparing \in Sockets \cup {NoSocket}
    /\ disconnecting \in Sockets \cup {NoSocket}
    /\ sock \in [Sockets -> {"unused", "open", "closed"}]

SlotsInit ==
    /\ conn = NoSocket /\ preparing = NoSocket /\ disconnecting = NoSocket
    /\ sock = [s \in Sockets |-> "unused"]

Free == conn = NoSocket /\ preparing = NoSocket /\ disconnecting = NoSocket

InSlot(s) == s \in {conn, preparing, disconnecting}

CloseSocket(s) == sock' = [sock EXCEPT ![s] = "closed"]

(* The dialer hands over a socket nobody has seen.                         *)
Dialed(s) ==
    /\ sock[s] = "unused"
    /\ sock' = [sock EXCEPT ![s] = "open"]
    /\ UNCHANGED slots

(* beginConnect, second region: adopt the socket, or close it at once.     *)
AdoptDialed(s) ==
    /\ Free
    /\ preparing' = s
    /\ UNCHANGED <<conn, disconnecting, sock>>

RefuseDialed(s, expired) ==
    /\ ~Free \/ expired
    /\ CloseSocket(s)
    /\ UNCHANGED slots

(* Variant: a socket is published although it was withdrawn.               *)
PublishUnchecked(s) ==
    /\ preparing' = IF preparing = s THEN NoSocket ELSE preparing
    /\ conn' = s
    /\ UNCHANGED <<disconnecting, sock>>

(* publishSocket: the three ways out of the region.                        *)
Publish(s) ==
    /\ preparing = s
    /\ preparing' = NoSocket
    /\ conn' = s
    /\ UNCHANGED <<disconnecting, sock>>

PublishExpired(s) ==
    /\ preparing = s
    /\ preparing' = NoSocket
    /\ CloseSocket(s)
    /\ UNCHANGED <<conn, disconnecting>>

PublishWithdrawn(s) ==
    /\ preparing # s
    /\ UNCHANGED <<slots, sock>>

(* disconnect: the socket it claims, and the two locked regions.           *)
Claimable == IF conn # NoSocket THEN conn ELSE preparing

Claim ==
    /\ conn' = NoSocket
    /\ preparing' = IF conn # NoSocket THEN preparing ELSE NoSocket
    /\ disconnecting' = IF Claimable # NoSocket THEN Claimable ELSE disconnecting
    /\ UNCHANGED sock

ReleaseClaim(s) ==
    /\ disconnecting' = IF disconnecting = s THEN NoSocket ELSE disconnecting
    /\ UNCHANGED <<conn, preparing, sock>>

(* Variant: an invalidation clears the slots without comparing sockets.     *)
InvalidateAny(s) ==
    /\ conn' = NoSocket
    /\ preparing' = IF preparing = s THEN NoSocket ELSE preparing
    /\ UNCHANGED <<disconnecting, sock>>

(* invalidateSocketState up to its unlock; the close that follows is left  *)
(* to the disconnect when disconnecting = s.                               *)
Invalidate(s) ==
    /\ conn' = IF conn = s THEN NoSocket ELSE conn
    /\ preparing' = IF preparing = s THEN NoSocket ELSE preparing
    /\ UNCHANGED <<disconnecting, sock>>

(* The three slots never hold two sockets: no connector adopts a socket    *)
(* while another one is published, being prepared or being disconnected,   *)
(* although the check and the dial are not one step.                       *)
OneSlot ==
    /\ conn # NoSocket => preparing = NoSocket /\ disconnecting = NoSocket
    /\ preparing # NoSocket => disconnecting = NoSocket
=============================================================================
