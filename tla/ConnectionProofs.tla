-------------------------- MODULE ConnectionProofs --------------------------
(* Proofs about Connection, for any number of callers and sockets.          *)
EXTENDS Connection, TLAPS

(* What a caller may rely on between its own steps, whatever the others do. *)
CallerInv(c) ==
    /\ mine[c] = NoSocket <=> pc[c] \in {"idle", "dialing"}
    /\ mine[c] # NoSocket => sock[mine[c]] # "unused"
    /\ pc[c] = "dialed" => sock[mine[c]] = "open" /\ ~InSlot(mine[c])
    /\ pc[c] = "preparing" => conn # mine[c]
    /\ pc[c] = "closing" => ~InSlot(mine[c])
    /\ pc[c] \in {"claimed", "releasing"} => disconnecting = mine[c]
    /\ pc[c] = "releasing" => sock[mine[c]] = "closed"

(* Who else may hold its socket: nobody while it is fresh from the dialer,  *)
(* only a disconnect while it is being prepared; and only one caller at a   *)
(* time disconnects.                                                        *)
PairInv(c, d) ==
    c # d =>
        /\ pc[c] = "dialed" => mine[d] # mine[c]
        /\ pc[c] = "preparing" /\ mine[d] = mine[c] => pc[d] \in {"claimed", "releasing"}
        /\ pc[c] \in {"claimed", "releasing"} => pc[d] \notin {"claimed", "releasing"}

(* The slots never hold a socket the dialer has yet to return, and a        *)
(* prepared or claimed socket has the caller that put it there.             *)
SlotInv ==
    /\ \A s \in Sockets : InSlot(s) => sock[s] # "unused"
    /\ preparing # NoSocket => \E c \in Callers : pc[c] = "preparing" /\ mine[c] = preparing
    /\ disconnecting # NoSocket =>
           \E c \in Callers : pc[c] \in {"claimed", "releasing"} /\ mine[c] = disconnecting
    /\ OneSlot
    /\ ShownIsOpen

IInv ==
    /\ TypeOK
    /\ \A c \in Callers : CallerInv(c)
    /\ \A c, d \in Callers : PairInv(c, d)
    /\ SlotInv

LEMMA InitInv == Init => IInv /\ NoLeak
BY SocketAssumption DEF Init, SlotsInit, IInv, TypeOK, SlotsType, PCs, CallerInv, PairInv,
   SlotInv, OneSlot, ShownIsOpen, InSlot, NoLeak

-----------------------------------------------------------------------------
LEMMA StepType == TypeOK /\ [Next]_vars => TypeOK'
<1> SUFFICES ASSUME TypeOK, [Next]_vars PROVE TypeOK'
    OBVIOUS
<1> USE SocketAssumption DEF TypeOK, SlotsType, PCs, slots, At, GoWith, Goto, Return, CloseSocket
<1>1. ASSUME NEW c \in Callers, NEW s \in Sockets, DialSucceeds(c, s) PROVE TypeOK'
  BY <1>1 DEF DialSucceeds, Dialed
<1>2. ASSUME NEW c \in Callers,
             BeginConnect(c) \/ DialFails(c) \/ TakeCurrent(c) \/ Share(c) \/ UseEnds(c)
      PROVE  TypeOK'
  BY <1>2 DEF BeginConnect, DialFails, TakeCurrent, Share, UseEnds
<1>3. ASSUME NEW c \in Callers, Adopt(c) PROVE TypeOK'
  BY <1>3 DEF Adopt, AdoptDialed
<1>4. ASSUME NEW c \in Callers, Refuse(c) PROVE TypeOK'
  BY <1>4 DEF Refuse, RefuseDialed
<1>5. ASSUME NEW c \in Callers, PublishPrepared(c) PROVE TypeOK'
  BY <1>5 DEF PublishPrepared, Publish, PublishExpired, PublishWithdrawn
<1>6. ASSUME NEW c \in Callers, ClaimForDisconnect(c) PROVE TypeOK'
  BY <1>6 DEF ClaimForDisconnect, Claim, Claimable
<1>7. ASSUME NEW c \in Callers, CloseClaimed(c) \/ CloseFailed(c) PROVE TypeOK'
  BY <1>7 DEF CloseClaimed, CloseFailed
<1>8. ASSUME NEW c \in Callers, FinishDisconnect(c) PROVE TypeOK'
  BY <1>8 DEF FinishDisconnect, ReleaseClaim
<1>9. ASSUME NEW c \in Callers, InvalidateFailed(c) PROVE TypeOK'
  BY <1>9 DEF InvalidateFailed, Invalidate
<1>10. CASE UNCHANGED vars
  BY <1>10 DEF vars
<1> QED BY <1>1, <1>2, <1>3, <1>4, <1>5, <1>6, <1>7, <1>8, <1>9, <1>10 DEF Next, Step

LEMMA StepInv == IInv /\ [Next]_vars => IInv'
<1> SUFFICES ASSUME IInv, [Next]_vars PROVE IInv'
    OBVIOUS
<1>0. TypeOK'
  BY StepType DEF IInv
<1> USE <1>0, SocketAssumption
    DEF IInv, TypeOK, SlotsType, PCs, slots, At, GoWith, Goto, Return, CloseSocket,
        CallerInv, PairInv, SlotInv, OneSlot, ShownIsOpen, InSlot
<1>1. ASSUME NEW c \in Callers, NEW s \in Sockets, DialSucceeds(c, s) PROVE IInv'
  BY <1>1 DEF DialSucceeds, Dialed
<1>2. ASSUME NEW c \in Callers,
             BeginConnect(c) \/ DialFails(c) \/ TakeCurrent(c) \/ Share(c) \/ UseEnds(c)
      PROVE  IInv'
  BY <1>2 DEF BeginConnect, DialFails, TakeCurrent, Share, UseEnds
<1>3. ASSUME NEW c \in Callers, Adopt(c) PROVE IInv'
  BY <1>3 DEF Adopt, AdoptDialed, Free
<1>4. ASSUME NEW c \in Callers, Refuse(c) PROVE IInv'
  BY <1>4 DEF Refuse, RefuseDialed
<1>5. ASSUME NEW c \in Callers, PublishPrepared(c) PROVE IInv'
  BY <1>5 DEF PublishPrepared, Publish, PublishExpired, PublishWithdrawn
<1>6. ASSUME NEW c \in Callers, ClaimForDisconnect(c) PROVE IInv'
  BY <1>6 DEF ClaimForDisconnect, Claim, Claimable
<1>7. ASSUME NEW c \in Callers, CloseClaimed(c) \/ CloseFailed(c) PROVE IInv'
  BY <1>7 DEF CloseClaimed, CloseFailed
<1>8. ASSUME NEW c \in Callers, FinishDisconnect(c) PROVE IInv'
  BY <1>8 DEF FinishDisconnect, ReleaseClaim
<1>9. ASSUME NEW c \in Callers, InvalidateFailed(c) PROVE IInv'
  BY <1>9 DEF InvalidateFailed, Invalidate
<1>10. CASE UNCHANGED vars
  BY <1>10 DEF vars
<1> QED BY <1>1, <1>2, <1>3, <1>4, <1>5, <1>6, <1>7, <1>8, <1>9, <1>10 DEF Next, Step

LEMMA InvHolds == Spec => []IInv
<1>1. Init => IInv
  BY InitInv
<1> QED BY <1>1, StepInv, PTL DEF Spec

(* Type correctness.                                                       *)
THEOREM TypeCorrect == Spec => []TypeOK
<1>1. IInv => TypeOK
  BY DEF IInv
<1> QED BY <1>1, InvHolds, PTL

(* No two of the three slots are ever taken at once: connectors cannot race *)
(* each other, or a disconnect, into a second socket.                       *)
THEOREM OneSlotHolds == Spec => []OneSlot
<1>1. IInv => OneSlot
  BY DEF IInv, SlotInv
<1> QED BY <1>1, InvHolds, PTL

(* The socket readers and writers find is one this side has not closed.     *)
THEOREM ShownIsOpenHolds == Spec => []ShownIsOpen
<1>1. IInv => ShownIsOpen
  BY DEF IInv, SlotInv
<1> QED BY <1>1, InvHolds, PTL

-----------------------------------------------------------------------------
(* The caller that answers for an open socket outside the slots.            *)
Keeper(c, s) == mine[c] = s /\ pc[c] \in {"dialed", "closing", "claimed"}

LEMMA StepNoLeak == IInv /\ NoLeak /\ [Next]_vars => NoLeak'
<1> SUFFICES ASSUME IInv, NoLeak, [Next]_vars, NEW s \in Sockets, sock'[s] = "open"
             PROVE  (s \in {conn, preparing} \/ \E d \in Callers : Keeper(d, s))'
    BY DEF NoLeak, Keeper
<1>0. sock[s] = "open" => s \in {conn, preparing} \/ \E d \in Callers : Keeper(d, s)
  BY DEF NoLeak, Keeper
<1> USE <1>0, SocketAssumption
    DEF IInv, TypeOK, SlotsType, PCs, slots, At, GoWith, Goto, Return, CloseSocket,
        CallerInv, PairInv, SlotInv, OneSlot, InSlot, Keeper
<1> DEFINE Kept == (s \in {conn, preparing} \/ \E d \in Callers : Keeper(d, s))'
<1>1. ASSUME NEW c \in Callers, NEW t \in Sockets, DialSucceeds(c, t) PROVE Kept
  BY <1>1 DEF DialSucceeds, Dialed
<1>2. ASSUME NEW c \in Callers,
             BeginConnect(c) \/ DialFails(c) \/ TakeCurrent(c) \/ Share(c) \/ UseEnds(c)
      PROVE  Kept
  BY <1>2 DEF BeginConnect, DialFails, TakeCurrent, Share, UseEnds
<1>3. ASSUME NEW c \in Callers, Adopt(c) PROVE Kept
  BY <1>3 DEF Adopt, AdoptDialed, Free
<1>4. ASSUME NEW c \in Callers, Refuse(c) PROVE Kept
  BY <1>4 DEF Refuse, RefuseDialed
<1>5. ASSUME NEW c \in Callers, PublishPrepared(c) PROVE Kept
  BY <1>5 DEF PublishPrepared, Publish, PublishExpired, PublishWithdrawn
<1>6. ASSUME NEW c \in Callers, ClaimForDisconnect(c) PROVE Kept
  BY <1>6 DEF ClaimForDisconnect, Claim, Claimable
<1>7. ASSUME NEW c \in Callers, CloseClaimed(c) \/ CloseFailed(c) PROVE Kept
  BY <1>7 DEF CloseClaimed, CloseFailed
<1>8. ASSUME NEW c \in Callers, FinishDisconnect(c) PROVE Kept
  BY <1>8 DEF FinishDisconnect, ReleaseClaim
<1>9. ASSUME NEW c \in Callers, InvalidateFailed(c) PROVE Kept
  BY <1>9 DEF InvalidateFailed, Invalidate
<1>10. CASE UNCHANGED vars
  BY <1>10 DEF vars
<1> QED BY <1>1, <1>2, <1>3, <1>4, <1>5, <1>6, <1>7, <1>8, <1>9, <1>10 DEF Next, Step

(* No socket leaks: in particular, an invalidation that leaves the close to *)
(* a disconnect leaves it to one that still has it to do.                   *)
THEOREM NoLeakHolds == Spec => []NoLeak
<1>1. Init => NoLeak
  BY InitInv
<1> QED BY <1>1, StepNoLeak, InvHolds, PTL DEF Spec

-----------------------------------------------------------------------------
(* Withdrawals.  A socket leaves its slot by a claim, or by the failure of  *)
(* a goroutine that still has this very socket in hand.                     *)
Withdraws(c) ==
    \/ At(c, "using") /\ mine[c] = conn /\ pc'[c] # "using"
    \/ At(c, "idle") /\ pc'[c] = "claimed" /\ mine'[c] = conn

LEMMA StepWithdrawn ==
    ASSUME IInv, [Next]_vars, conn # NoSocket, conn' # conn
    PROVE  \E c \in Callers : Withdraws(c)
<1> USE SocketAssumption
    DEF IInv, TypeOK, SlotsType, slots, At, GoWith, Goto, Return, CloseSocket,
        CallerInv, SlotInv, OneSlot
<1>1. ASSUME NEW c \in Callers, NEW s \in Sockets, DialSucceeds(c, s) PROVE FALSE
  BY <1>1 DEF DialSucceeds, Dialed
<1>2. ASSUME NEW c \in Callers,
             BeginConnect(c) \/ DialFails(c) \/ TakeCurrent(c) \/ Share(c) \/ UseEnds(c)
      PROVE  FALSE
  BY <1>2 DEF BeginConnect, DialFails, TakeCurrent, Share, UseEnds
<1>3. ASSUME NEW c \in Callers, Adopt(c) \/ Refuse(c) PROVE FALSE
  BY <1>3 DEF Adopt, AdoptDialed, Refuse, RefuseDialed
<1>4. ASSUME NEW c \in Callers, PublishPrepared(c) PROVE FALSE
  BY <1>4 DEF PublishPrepared, Publish, PublishExpired, PublishWithdrawn
<1>5. ASSUME NEW c \in Callers, ClaimForDisconnect(c) PROVE Withdraws(c)
  BY <1>5 DEF ClaimForDisconnect, Claim, Claimable, Withdraws
<1>6. ASSUME NEW c \in Callers, CloseClaimed(c) \/ CloseFailed(c) \/ FinishDisconnect(c) PROVE FALSE
  BY <1>6 DEF CloseClaimed, CloseFailed, FinishDisconnect, ReleaseClaim
<1>7. ASSUME NEW c \in Callers, InvalidateFailed(c) PROVE Withdraws(c)
  BY <1>7 DEF InvalidateFailed, Invalidate, Withdraws
<1>8. CASE UNCHANGED vars
  BY <1>8 DEF vars
<1> QED BY <1>1, <1>2, <1>3, <1>4, <1>5, <1>6, <1>7, <1>8 DEF Next, Step

(* For any number of callers, the late failure of a socket that was         *)
(* replaced never withdraws the one that replaced it.                       *)
THEOREM WithdrawnByItsUsersHolds == Spec => WithdrawnByItsUsers
<1>1. IInv /\ [Next]_vars =>
          [conn # NoSocket /\ conn' # conn =>
              \E c \in Callers :
                  \/ At(c, "using") /\ mine[c] = conn /\ pc'[c] # "using"
                  \/ At(c, "idle") /\ pc'[c] = "claimed" /\ mine'[c] = conn]_vars
  BY StepWithdrawn DEF Withdraws
<1> QED BY <1>1, InvHolds, PTL DEF Spec, WithdrawnByItsUsers

-----------------------------------------------------------------------------
(* Connection implements Link.                                             *)
LEMMA InitLink == Init => LinkView!LinkInit
BY DEF Init, SlotsInit, LinkView!LinkInit, Fresh

LEMMA StepLink == IInv /\ [Next]_vars => [LinkView!LinkNext]_(LinkView!linkVars)
<1> SUFFICES ASSUME IInv, [Next]_vars PROVE [LinkView!LinkNext]_(LinkView!linkVars)
    OBVIOUS
<1> USE SocketAssumption
    DEF IInv, TypeOK, SlotsType, PCs, slots, At, GoWith, Goto, Return, CloseSocket,
        CallerInv, PairInv, SlotInv, OneSlot, InSlot, LinkView!linkVars
<1>1. ASSUME NEW c \in Callers, NEW s \in Sockets, DialSucceeds(c, s)
      PROVE  UNCHANGED <<conn, Fresh>>
  BY <1>1 DEF DialSucceeds, Dialed, Fresh
<1>2. ASSUME NEW c \in Callers,
             BeginConnect(c) \/ DialFails(c) \/ TakeCurrent(c) \/ Share(c) \/ UseEnds(c)
      PROVE  UNCHANGED <<conn, Fresh>>
  BY <1>2 DEF BeginConnect, DialFails, TakeCurrent, Share, UseEnds, Fresh
<1>3. ASSUME NEW c \in Callers, Adopt(c) PROVE UNCHANGED <<conn, Fresh>>
  BY <1>3 DEF Adopt, AdoptDialed, Free, Fresh
<1>4. ASSUME NEW c \in Callers, Refuse(c) PROVE LinkView!Discard(mine[c])
  BY <1>4 DEF Refuse, RefuseDialed, Fresh, LinkView!Discard
<1>5. ASSUME NEW c \in Callers, PublishPrepared(c)
      PROVE  UNCHANGED <<conn, Fresh>> \/ LinkView!Show(mine[c]) \/ LinkView!Discard(mine[c])
  <2>1. CASE Publish(mine[c])
    BY <1>5, <2>1 DEF PublishPrepared, Publish, Fresh, LinkView!Show
  <2>2. CASE PublishExpired(mine[c])
    BY <1>5, <2>2 DEF PublishPrepared, PublishExpired, Fresh, LinkView!Discard
  <2>3. CASE PublishWithdrawn(mine[c])
    BY <1>5, <2>3 DEF PublishPrepared, PublishWithdrawn, Fresh
  <2> QED BY <1>5, <2>1, <2>2, <2>3 DEF PublishPrepared
<1>6. ASSUME NEW c \in Callers, ClaimForDisconnect(c)
      PROVE  LinkView!Hide \/ LinkView!Discard(Claimable)
  BY <1>6 DEF ClaimForDisconnect, Claim, Claimable, Fresh, LinkView!Hide, LinkView!Discard
<1>7. ASSUME NEW c \in Callers, CloseClaimed(c) \/ CloseFailed(c)
      PROVE  UNCHANGED <<conn, Fresh>>
  BY <1>7 DEF CloseClaimed, CloseFailed, Fresh
<1>8. ASSUME NEW c \in Callers, FinishDisconnect(c) PROVE UNCHANGED <<conn, Fresh>>
  BY <1>8 DEF FinishDisconnect, ReleaseClaim, Fresh
<1>9. ASSUME NEW c \in Callers, InvalidateFailed(c)
      PROVE  UNCHANGED <<conn, Fresh>> \/ LinkView!Hide \/ LinkView!Discard(mine[c])
  <2>1. CASE conn = mine[c]
    BY <1>9, <2>1 DEF InvalidateFailed, Invalidate, Fresh, LinkView!Hide
  <2>2. CASE preparing = mine[c]
    BY <1>9, <2>2 DEF InvalidateFailed, Invalidate, Fresh, LinkView!Discard
  <2>3. CASE mine[c] \notin {conn, preparing}
    BY <1>9, <2>3 DEF InvalidateFailed, Invalidate, Fresh
  <2> QED BY <2>1, <2>2, <2>3
<1>10. CASE UNCHANGED vars
  BY <1>10 DEF vars, Fresh
<1>11. ASSUME NEW c \in Callers, Refuse(c) \/ PublishPrepared(c) \/ InvalidateFailed(c)
       PROVE  mine[c] \in Sockets
  BY <1>11 DEF Refuse, PublishPrepared, InvalidateFailed
<1>12. ASSUME NEW c \in Callers, ClaimForDisconnect(c) PROVE Claimable \in Sockets
  BY <1>12 DEF ClaimForDisconnect, Claimable
<1> QED
  BY <1>1, <1>2, <1>3, <1>4, <1>5, <1>6, <1>7, <1>8, <1>9, <1>10, <1>11, <1>12
  DEF Next, Step, LinkView!LinkNext

THEOREM ConnectionImplementsLink == Spec => ImplementsLink
BY InitLink, StepLink, InvHolds, PTL DEF Spec, ImplementsLink, LinkView!LinkSpec
=============================================================================
