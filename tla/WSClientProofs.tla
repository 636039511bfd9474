--------------------------- MODULE WSClientProofs ---------------------------
(* Proofs about WSClient, for any number of sockets, requests, networks,    *)
(* lifecycles, disconnects and reconnect attempts.                          *)
EXTENDS WSClient, TLAPS

ControlType == pc \in [Procs -> Labels] /\ mine \in [Procs -> Sockets \cup {NoSocket}]

(* Every context but the newest was cancelled, and once Connect is past     *)
(* cancelling the lifecycle it replaces, nobody makes another one live.     *)
LiveInv ==
    /\ live \subseteq {life}
    /\ pc[Ctl] \in {"publish", "reset"} => live = {}

(* A socket in a slot or in a goroutine's hands has been dialed, and its    *)
(* server is on some network.                                               *)
DialedInv ==
    /\ SlotsType
    /\ net \in [Sockets -> Networks \cup {Unknown}]
    /\ \A s \in Sockets : sock[s] # "unused" => net[s] \in Networks
    /\ \A s \in Sockets : InSlot(s) => sock[s] # "unused"
    /\ \A p \in Procs : mine[p] # NoSocket => sock[mine[p]] # "unused"
    /\ \A p \in Connectors : pc[p] \in {"dialed", "identity"} => mine[p] # NoSocket

(* Once discovered the network never changes, and every socket past its     *)
(* discovery is on it.                                                      *)
Verified(s) == s # NoSocket => ready /\ net[s] = identity
PinnedInv ==
    ~Trusted =>
        /\ identity \in Networks \cup {Unknown}
        /\ ready => identity \in Networks
        /\ Verified(conn)
        /\ \A p \in Connectors :
              pc[p] \in {"replace", "cancelOld", "publish"} => ready /\ Verified(mine[p])
        /\ \A q \in Requests : Verified(mine[q])

IInv == ControlType /\ LiveInv /\ DialedInv /\ PinnedInv

LEMMA InitInv == Init => IInv
<1> SUFFICES ASSUME Init PROVE IInv
    OBVIOUS
<1>1. ControlType
  BY DEF Init, ControlType, Labels, Requesting
<1>2. \A p \in Connectors : pc[p] \in {"idle", "none"}
  BY DEF Init, Connectors, Procs
<1>3. pc[Ctl] = "idle"
  BY DEF Init, Connectors, Procs
<1>4. LiveInv
  BY <1>3 DEF Init, LiveInv
<1>5. DialedInv
  BY <1>2, SocketAssumption DEF Init, SlotsInit, DialedInv, SlotsType, InSlot
<1>6. PinnedInv
  BY <1>2, ClientAssumption DEF Init, SlotsInit, PinnedInv, Verified, Connectors, Procs
<1> QED BY <1>1, <1>4, <1>5, <1>6 DEF IInv

-----------------------------------------------------------------------------
(* The form of pc and mine.                                                *)
LEMMA StepControl == SlotsType /\ ControlType /\ [Next]_vars => ControlType'
<1> SUFFICES ASSUME SlotsType /\ ControlType, [Next]_vars PROVE ControlType'
    OBVIOUS
<1>0. Ctl \in Connectors /\ Lives \subseteq Connectors /\ Connectors \subseteq Procs /\ Requests \subseteq Procs
  BY DEF Connectors, Procs
<1> USE <1>0 DEF SlotsType, ControlType, slots, At, Goto, GoWith, clientVars, wire, Labels, Handshake, Disconnecting, Reading, Reconnecting, Requesting
<1>1. ASSUME NEW p \in Connectors, BeginConnect(p) \/ DialFails(p)
      PROVE  ControlType'
  BY <1>1 DEF BeginConnect, DialFails, ConnectFailed
<1>2. ASSUME NEW p \in Connectors, NEW s \in Sockets, NEW n \in Networks, DialSucceeds(p, s, n)
      PROVE  ControlType'
  BY <1>2 DEF DialSucceeds, Dialed
<1>3. ASSUME NEW p \in Connectors, Adopt(p)
      PROVE  ControlType'
  BY <1>3 DEF Adopt, AdoptDialed
<1>4. ASSUME NEW p \in Connectors, Refuse(p)
      PROVE  ControlType'
  BY <1>4 DEF Refuse, RefuseDialed, CloseSocket, ConnectFailed
<1>5. ASSUME NEW p \in Connectors, PrepareIdentity(p)
      PROVE  ControlType'
  BY <1>5 DEF PrepareIdentity, Discovers
<1>6. ASSUME NEW p \in Connectors, IdentityFails(p)
      PROVE  ControlType'
  BY <1>6 DEF IdentityFails, Invalidate, ConnectFailed
<1>7. ASSUME NEW p \in Connectors, ClosePrepared(p)
      PROVE  ControlType'
  BY <1>7 DEF ClosePrepared, CloseSocket, ConnectFailed
<1>8. ASSUME NEW p \in Connectors, PublishPrepared(p)
      PROVE  ControlType'
  BY <1>8 DEF PublishPrepared, Publish, PublishExpired, PublishWithdrawn, CloseSocket, ConnectFailed
<1>9. CASE CallConnect \/ CallDisconnect
  BY <1>9 DEF CallConnect, CallDisconnect
<1>10. CASE FailReplaced
  BY <1>10 DEF FailReplaced
<1>11. CASE CancelReplaced
  BY <1>11 DEF CancelReplaced
<1>12. CASE StartLifecycle
  BY <1>12 DEF StartLifecycle
<1>13. CASE ClaimForDisconnect
  BY <1>13 DEF ClaimForDisconnect, Claim, Claimable
<1>14. CASE CancelLifecycle \/ FailRaced
  BY <1>14 DEF CancelLifecycle, FailRaced
<1>15. ASSUME NEW p \in Connectors, CloseClaimed(p)
      PROVE  ControlType'
  BY <1>15 DEF CloseClaimed, CloseSocket
<1>16. ASSUME NEW p \in Connectors, FinishDisconnect(p)
      PROVE  ControlType'
  BY <1>16 DEF FinishDisconnect, ReleaseClaim
<1>17. ASSUME NEW r \in Lives, CheckContext(r, "top", "take") \/ CheckContext(r, "gotMessage", "handle") \/ AfterError(r) \/ AfterConnectError(r)
      PROVE  ControlType'
  BY <1>17 DEF CheckContext, AfterError, AfterConnectError
<1>18. ASSUME NEW r \in Lives, TakeCurrent(r) \/ LockReadMu(r) \/ ReadFails(r)
      PROVE  ControlType'
  BY <1>18 DEF TakeCurrent, LockReadMu, ReadFails
<1>19. ASSUME NEW r \in Lives, NEW q \in Requests, ReadMessage(r, q)
      PROVE  ControlType'
  BY <1>19 DEF ReadMessage
<1>20. ASSUME NEW r \in Lives, HandleMessage(r)
      PROVE  ControlType'
  BY <1>20 DEF HandleMessage
<1>21. ASSUME NEW r \in Lives, InvalidateOld(r)
      PROVE  ControlType'
  BY <1>21 DEF InvalidateOld, Invalidate
<1>22. ASSUME NEW r \in Lives, CloseOld(r)
      PROVE  ControlType'
  BY <1>22 DEF CloseOld, CloseSocket
<1>23. ASSUME NEW r \in Lives, FailForSocket(r) \/ StaleCheck(r) \/ FailForAll(r)
      PROVE  ControlType'
  BY <1>23 DEF FailForSocket, StaleCheck, FailForAll
<1>24. ASSUME NEW r \in Lives, RetryReconnect(r) \/ Backoff(r) \/ AfterConnected(r)
      PROVE  ControlType'
  BY <1>24 DEF RetryReconnect, Backoff, AfterConnected
<1>25. ASSUME NEW r \in Lives, DisconnectConnection(r)
      PROVE  ControlType'
  BY <1>25 DEF DisconnectConnection, Claim, Claimable
<1>26. ASSUME NEW q \in Requests, TakeSocket(q)
      PROVE  ControlType'
  BY <1>26 DEF TakeSocket, ReturnRequest
<1>27. ASSUME NEW q \in Requests, Register(q) \/ WriteRequest(q) \/ AwaitResponse(q)
      PROVE  ControlType'
  BY <1>27 DEF Register, WriteRequest, AwaitResponse, ReturnRequest
<1>28. ASSUME NEW q \in Requests, WriteFails(q)
      PROVE  ControlType'
  BY <1>28 DEF WriteFails, Invalidate
<1>29. ASSUME NEW q \in Requests, CloseWritten(q)
      PROVE  ControlType'
  BY <1>29 DEF CloseWritten, CloseSocket, ReturnRequest
<1>30. ASSUME NEW q \in Requests, WriteFailed(q)
      PROVE  ControlType'
  BY <1>30 DEF WriteFailed, ReturnRequest
<1>31. ASSUME NEW q \in Requests, WriteTimesOut(q)
      PROVE  ControlType'
  BY <1>31 DEF WriteTimesOut, Invalidate, ReturnRequest
<1>32. ASSUME NEW q \in Requests, WaitTimesOut(q)
      PROVE  ControlType'
  BY <1>32 DEF WaitTimesOut, ReturnRequest
<1>33. CASE Environment
  BY <1>33 DEF Environment, LoseSocket, Answer
<1>34. CASE UNCHANGED vars
  BY <1>34 DEF vars
<1> QED
  BY <1>1, <1>2, <1>3, <1>4, <1>5, <1>6, <1>7, <1>8, <1>9, <1>10, <1>11, <1>12, <1>13, <1>14, 
     <1>15, <1>16, <1>17, <1>18, <1>19, <1>20, <1>21, <1>22, <1>23, <1>24, <1>25, <1>26, 
     <1>27, <1>28, <1>29, <1>30, <1>31, <1>32, <1>33, <1>34
  DEF Next, CtlStep, ConnectStep, DisconnectStep, ReaderStep, ReadStep, RequestStep, Timeout,
      Connectors

(* Only the application makes a lifecycle live, after the last one died.    *)
LEMMA StepLive == ControlType /\ LiveInv /\ [Next]_vars => LiveInv'
<1> SUFFICES ASSUME ControlType /\ LiveInv, [Next]_vars PROVE LiveInv'
    OBVIOUS
<1> USE SocketAssumption, ClientAssumption
    DEF ControlType, LiveInv, Procs, Connectors, At, Goto, GoWith, clientVars
<1>1. ASSUME NEW p \in Connectors, BeginConnect(p) \/ DialFails(p)
      PROVE  LiveInv'
  BY <1>1 DEF BeginConnect, DialFails, ConnectFailed
<1>2. ASSUME NEW p \in Connectors, NEW s \in Sockets, NEW n \in Networks, DialSucceeds(p, s, n)
      PROVE  LiveInv'
  BY <1>2 DEF DialSucceeds, Dialed
<1>3. ASSUME NEW p \in Connectors, Adopt(p)
      PROVE  LiveInv'
  BY <1>3 DEF Adopt, AdoptDialed
<1>4. ASSUME NEW p \in Connectors, Refuse(p)
      PROVE  LiveInv'
  BY <1>4 DEF Refuse, RefuseDialed, CloseSocket, ConnectFailed
<1>5. ASSUME NEW p \in Connectors, PrepareIdentity(p)
      PROVE  LiveInv'
  BY <1>5 DEF PrepareIdentity, Discovers
<1>6. ASSUME NEW p \in Connectors, IdentityFails(p)
      PROVE  LiveInv'
  BY <1>6 DEF IdentityFails, Invalidate, ConnectFailed
<1>7. ASSUME NEW p \in Connectors, ClosePrepared(p)
      PROVE  LiveInv'
  BY <1>7 DEF ClosePrepared, CloseSocket, ConnectFailed
<1>8. ASSUME NEW p \in Connectors, PublishPrepared(p)
      PROVE  LiveInv'
  BY <1>8 DEF PublishPrepared, Publish, PublishExpired, PublishWithdrawn, CloseSocket, ConnectFailed
<1>9. CASE CallConnect \/ CallDisconnect
  BY <1>9 DEF CallConnect, CallDisconnect
<1>10. CASE FailReplaced
  BY <1>10 DEF FailReplaced
<1>11. CASE CancelReplaced
  BY <1>11 DEF CancelReplaced
<1>12. CASE StartLifecycle
  BY <1>12 DEF StartLifecycle
<1>13. CASE ClaimForDisconnect
  BY <1>13 DEF ClaimForDisconnect, Claim, Claimable
<1>14. CASE CancelLifecycle \/ FailRaced
  BY <1>14 DEF CancelLifecycle, FailRaced
<1>15. ASSUME NEW p \in Connectors, CloseClaimed(p)
      PROVE  LiveInv'
  BY <1>15 DEF CloseClaimed, CloseSocket
<1>16. ASSUME NEW p \in Connectors, FinishDisconnect(p)
      PROVE  LiveInv'
  BY <1>16 DEF FinishDisconnect, ReleaseClaim
<1>17. ASSUME NEW r \in Lives, CheckContext(r, "top", "take") \/ CheckContext(r, "gotMessage", "handle") \/ AfterError(r) \/ AfterConnectError(r)
      PROVE  LiveInv'
  BY <1>17 DEF CheckContext, AfterError, AfterConnectError
<1>18. ASSUME NEW r \in Lives, TakeCurrent(r) \/ LockReadMu(r) \/ ReadFails(r)
      PROVE  LiveInv'
  BY <1>18 DEF TakeCurrent, LockReadMu, ReadFails
<1>19. ASSUME NEW r \in Lives, NEW q \in Requests, ReadMessage(r, q)
      PROVE  LiveInv'
  BY <1>19 DEF ReadMessage
<1>20. ASSUME NEW r \in Lives, HandleMessage(r)
      PROVE  LiveInv'
  BY <1>20 DEF HandleMessage
<1>21. ASSUME NEW r \in Lives, InvalidateOld(r)
      PROVE  LiveInv'
  BY <1>21 DEF InvalidateOld, Invalidate
<1>22. ASSUME NEW r \in Lives, CloseOld(r)
      PROVE  LiveInv'
  BY <1>22 DEF CloseOld, CloseSocket
<1>23. ASSUME NEW r \in Lives, FailForSocket(r) \/ StaleCheck(r) \/ FailForAll(r)
      PROVE  LiveInv'
  BY <1>23 DEF FailForSocket, StaleCheck, FailForAll
<1>24. ASSUME NEW r \in Lives, RetryReconnect(r) \/ Backoff(r) \/ AfterConnected(r)
      PROVE  LiveInv'
  BY <1>24 DEF RetryReconnect, Backoff, AfterConnected
<1>25. ASSUME NEW r \in Lives, DisconnectConnection(r)
      PROVE  LiveInv'
  BY <1>25 DEF DisconnectConnection, Claim, Claimable
<1>26. ASSUME NEW q \in Requests, TakeSocket(q)
      PROVE  LiveInv'
  BY <1>26 DEF TakeSocket, ReturnRequest
<1>27. ASSUME NEW q \in Requests, Register(q) \/ WriteRequest(q) \/ AwaitResponse(q)
      PROVE  LiveInv'
  BY <1>27 DEF Register, WriteRequest, AwaitResponse, ReturnRequest
<1>28. ASSUME NEW q \in Requests, WriteFails(q)
      PROVE  LiveInv'
  BY <1>28 DEF WriteFails, Invalidate
<1>29. ASSUME NEW q \in Requests, CloseWritten(q)
      PROVE  LiveInv'
  BY <1>29 DEF CloseWritten, CloseSocket, ReturnRequest
<1>30. ASSUME NEW q \in Requests, WriteFailed(q)
      PROVE  LiveInv'
  BY <1>30 DEF WriteFailed, ReturnRequest
<1>31. ASSUME NEW q \in Requests, WriteTimesOut(q)
      PROVE  LiveInv'
  BY <1>31 DEF WriteTimesOut, Invalidate, ReturnRequest
<1>32. ASSUME NEW q \in Requests, WaitTimesOut(q)
      PROVE  LiveInv'
  BY <1>32 DEF WaitTimesOut, ReturnRequest
<1>33. CASE Environment
  BY <1>33 DEF Environment, LoseSocket, Answer
<1>34. CASE UNCHANGED vars
  BY <1>34 DEF vars
<1> QED
  BY <1>1, <1>2, <1>3, <1>4, <1>5, <1>6, <1>7, <1>8, <1>9, <1>10, <1>11, <1>12, <1>13, <1>14, 
     <1>15, <1>16, <1>17, <1>18, <1>19, <1>20, <1>21, <1>22, <1>23, <1>24, <1>25, <1>26, 
     <1>27, <1>28, <1>29, <1>30, <1>31, <1>32, <1>33, <1>34
  DEF Next, CtlStep, ConnectStep, DisconnectStep, ReaderStep, ReadStep, RequestStep, Timeout,
      Connectors

(* Sockets are dialed before anybody holds them, and stay on their network. *)
LEMMA StepDialed == ControlType /\ DialedInv /\ [Next]_vars => DialedInv'
<1> SUFFICES ASSUME ControlType /\ DialedInv, [Next]_vars PROVE DialedInv'
    OBVIOUS
<1> USE SocketAssumption, ClientAssumption
    DEF ControlType, DialedInv, SlotsType, InSlot, slots, Procs, Connectors, At, Goto, GoWith, clientVars, wire
<1>1. ASSUME NEW p \in Connectors, BeginConnect(p) \/ DialFails(p)
      PROVE  DialedInv'
  BY <1>1 DEF BeginConnect, DialFails, ConnectFailed
<1>2. ASSUME NEW p \in Connectors, NEW s \in Sockets, NEW n \in Networks, DialSucceeds(p, s, n)
      PROVE  DialedInv'
  BY <1>2 DEF DialSucceeds, Dialed
<1>3. ASSUME NEW p \in Connectors, Adopt(p)
      PROVE  DialedInv'
  BY <1>3 DEF Adopt, AdoptDialed
<1>4. ASSUME NEW p \in Connectors, Refuse(p)
      PROVE  DialedInv'
  BY <1>4 DEF Refuse, RefuseDialed, CloseSocket, ConnectFailed
<1>5. ASSUME NEW p \in Connectors, PrepareIdentity(p)
      PROVE  DialedInv'
  BY <1>5 DEF PrepareIdentity, Discovers
<1>6. ASSUME NEW p \in Connectors, IdentityFails(p)
      PROVE  DialedInv'
  BY <1>6 DEF IdentityFails, Invalidate, ConnectFailed
<1>7. ASSUME NEW p \in Connectors, ClosePrepared(p)
      PROVE  DialedInv'
  BY <1>7 DEF ClosePrepared, CloseSocket, ConnectFailed
<1>8. ASSUME NEW p \in Connectors, PublishPrepared(p)
      PROVE  DialedInv'
  BY <1>8 DEF PublishPrepared, Publish, PublishExpired, PublishWithdrawn, CloseSocket, ConnectFailed
<1>9. CASE CallConnect \/ CallDisconnect
  BY <1>9 DEF CallConnect, CallDisconnect
<1>10. CASE FailReplaced
  BY <1>10 DEF FailReplaced
<1>11. CASE CancelReplaced
  BY <1>11 DEF CancelReplaced
<1>12. CASE StartLifecycle
  BY <1>12 DEF StartLifecycle
<1>13. CASE ClaimForDisconnect
  BY <1>13 DEF ClaimForDisconnect, Claim, Claimable
<1>14. CASE CancelLifecycle \/ FailRaced
  BY <1>14 DEF CancelLifecycle, FailRaced
<1>15. ASSUME NEW p \in Connectors, CloseClaimed(p)
      PROVE  DialedInv'
  BY <1>15 DEF CloseClaimed, CloseSocket
<1>16. ASSUME NEW p \in Connectors, FinishDisconnect(p)
      PROVE  DialedInv'
  BY <1>16 DEF FinishDisconnect, ReleaseClaim
<1>17. ASSUME NEW r \in Lives, CheckContext(r, "top", "take") \/ CheckContext(r, "gotMessage", "handle") \/ AfterError(r) \/ AfterConnectError(r)
      PROVE  DialedInv'
  BY <1>17 DEF CheckContext, AfterError, AfterConnectError
<1>18. ASSUME NEW r \in Lives, TakeCurrent(r) \/ LockReadMu(r) \/ ReadFails(r)
      PROVE  DialedInv'
  BY <1>18 DEF TakeCurrent, LockReadMu, ReadFails
<1>19. ASSUME NEW r \in Lives, NEW q \in Requests, ReadMessage(r, q)
      PROVE  DialedInv'
  BY <1>19 DEF ReadMessage
<1>20. ASSUME NEW r \in Lives, HandleMessage(r)
      PROVE  DialedInv'
  BY <1>20 DEF HandleMessage
<1>21. ASSUME NEW r \in Lives, InvalidateOld(r)
      PROVE  DialedInv'
  BY <1>21 DEF InvalidateOld, Invalidate
<1>22. ASSUME NEW r \in Lives, CloseOld(r)
      PROVE  DialedInv'
  BY <1>22 DEF CloseOld, CloseSocket
<1>23. ASSUME NEW r \in Lives, FailForSocket(r) \/ StaleCheck(r) \/ FailForAll(r)
      PROVE  DialedInv'
  BY <1>23 DEF FailForSocket, StaleCheck, FailForAll
<1>24. ASSUME NEW r \in Lives, RetryReconnect(r) \/ Backoff(r) \/ AfterConnected(r)
      PROVE  DialedInv'
  BY <1>24 DEF RetryReconnect, Backoff, AfterConnected
<1>25. ASSUME NEW r \in Lives, DisconnectConnection(r)
      PROVE  DialedInv'
  BY <1>25 DEF DisconnectConnection, Claim, Claimable
<1>26. ASSUME NEW q \in Requests, TakeSocket(q)
      PROVE  DialedInv'
  BY <1>26 DEF TakeSocket, ReturnRequest
<1>27. ASSUME NEW q \in Requests, Register(q) \/ WriteRequest(q) \/ AwaitResponse(q)
      PROVE  DialedInv'
  BY <1>27 DEF Register, WriteRequest, AwaitResponse, ReturnRequest
<1>28. ASSUME NEW q \in Requests, WriteFails(q)
      PROVE  DialedInv'
  BY <1>28 DEF WriteFails, Invalidate
<1>29. ASSUME NEW q \in Requests, CloseWritten(q)
      PROVE  DialedInv'
  BY <1>29 DEF CloseWritten, CloseSocket, ReturnRequest
<1>30. ASSUME NEW q \in Requests, WriteFailed(q)
      PROVE  DialedInv'
  BY <1>30 DEF WriteFailed, ReturnRequest
<1>31. ASSUME NEW q \in Requests, WriteTimesOut(q)
      PROVE  DialedInv'
  BY <1>31 DEF WriteTimesOut, Invalidate, ReturnRequest
<1>32. ASSUME NEW q \in Requests, WaitTimesOut(q)
      PROVE  DialedInv'
  BY <1>32 DEF WaitTimesOut, ReturnRequest
<1>33. CASE Environment
  BY <1>33 DEF Environment, LoseSocket, Answer
<1>34. CASE UNCHANGED vars
  BY <1>34 DEF vars
<1> QED
  BY <1>1, <1>2, <1>3, <1>4, <1>5, <1>6, <1>7, <1>8, <1>9, <1>10, <1>11, <1>12, <1>13, <1>14, 
     <1>15, <1>16, <1>17, <1>18, <1>19, <1>20, <1>21, <1>22, <1>23, <1>24, <1>25, <1>26, 
     <1>27, <1>28, <1>29, <1>30, <1>31, <1>32, <1>33, <1>34
  DEF Next, CtlStep, ConnectStep, DisconnectStep, ReaderStep, ReadStep, RequestStep, Timeout,
      Connectors

(* Only sockets past their discovery are published and handed to requests.  *)
LEMMA StepPinned == ControlType /\ DialedInv /\ PinnedInv /\ [Next]_vars => PinnedInv'
<1> SUFFICES ASSUME ControlType /\ DialedInv /\ PinnedInv, [Next]_vars PROVE PinnedInv'
    OBVIOUS
<1> USE SocketAssumption, ClientAssumption
    DEF ControlType, DialedInv, PinnedInv, Verified, SlotsType, InSlot, slots, Procs, Connectors, At, Goto, GoWith, clientVars, wire
<1>1. ASSUME NEW p \in Connectors, BeginConnect(p) \/ DialFails(p)
      PROVE  PinnedInv'
  BY <1>1 DEF BeginConnect, DialFails, ConnectFailed
<1>2. ASSUME NEW p \in Connectors, NEW s \in Sockets, NEW n \in Networks, DialSucceeds(p, s, n)
      PROVE  PinnedInv'
  BY <1>2 DEF DialSucceeds, Dialed
<1>3. ASSUME NEW p \in Connectors, Adopt(p)
      PROVE  PinnedInv'
  BY <1>3 DEF Adopt, AdoptDialed
<1>4. ASSUME NEW p \in Connectors, Refuse(p)
      PROVE  PinnedInv'
  BY <1>4 DEF Refuse, RefuseDialed, CloseSocket, ConnectFailed
<1>5. ASSUME NEW p \in Connectors, PrepareIdentity(p)
      PROVE  PinnedInv'
  BY <1>5 DEF PrepareIdentity, Discovers
<1>6. ASSUME NEW p \in Connectors, IdentityFails(p)
      PROVE  PinnedInv'
  BY <1>6 DEF IdentityFails, Invalidate, ConnectFailed
<1>7. ASSUME NEW p \in Connectors, ClosePrepared(p)
      PROVE  PinnedInv'
  BY <1>7 DEF ClosePrepared, CloseSocket, ConnectFailed
<1>8. ASSUME NEW p \in Connectors, PublishPrepared(p)
      PROVE  PinnedInv'
  BY <1>8 DEF PublishPrepared, Publish, PublishExpired, PublishWithdrawn, CloseSocket, ConnectFailed
<1>9. CASE CallConnect \/ CallDisconnect
  BY <1>9 DEF CallConnect, CallDisconnect
<1>10. CASE FailReplaced
  BY <1>10 DEF FailReplaced
<1>11. CASE CancelReplaced
  BY <1>11 DEF CancelReplaced
<1>12. CASE StartLifecycle
  BY <1>12 DEF StartLifecycle
<1>13. CASE ClaimForDisconnect
  BY <1>13 DEF ClaimForDisconnect, Claim, Claimable
<1>14. CASE CancelLifecycle \/ FailRaced
  BY <1>14 DEF CancelLifecycle, FailRaced
<1>15. ASSUME NEW p \in Connectors, CloseClaimed(p)
      PROVE  PinnedInv'
  BY <1>15 DEF CloseClaimed, CloseSocket
<1>16. ASSUME NEW p \in Connectors, FinishDisconnect(p)
      PROVE  PinnedInv'
  BY <1>16 DEF FinishDisconnect, ReleaseClaim
<1>17. ASSUME NEW r \in Lives, CheckContext(r, "top", "take") \/ CheckContext(r, "gotMessage", "handle") \/ AfterError(r) \/ AfterConnectError(r)
      PROVE  PinnedInv'
  BY <1>17 DEF CheckContext, AfterError, AfterConnectError
<1>18. ASSUME NEW r \in Lives, TakeCurrent(r) \/ LockReadMu(r) \/ ReadFails(r)
      PROVE  PinnedInv'
  BY <1>18 DEF TakeCurrent, LockReadMu, ReadFails
<1>19. ASSUME NEW r \in Lives, NEW q \in Requests, ReadMessage(r, q)
      PROVE  PinnedInv'
  BY <1>19 DEF ReadMessage
<1>20. ASSUME NEW r \in Lives, HandleMessage(r)
      PROVE  PinnedInv'
  BY <1>20 DEF HandleMessage
<1>21. ASSUME NEW r \in Lives, InvalidateOld(r)
      PROVE  PinnedInv'
  BY <1>21 DEF InvalidateOld, Invalidate
<1>22. ASSUME NEW r \in Lives, CloseOld(r)
      PROVE  PinnedInv'
  BY <1>22 DEF CloseOld, CloseSocket
<1>23. ASSUME NEW r \in Lives, FailForSocket(r) \/ StaleCheck(r) \/ FailForAll(r)
      PROVE  PinnedInv'
  BY <1>23 DEF FailForSocket, StaleCheck, FailForAll
<1>24. ASSUME NEW r \in Lives, RetryReconnect(r) \/ Backoff(r) \/ AfterConnected(r)
      PROVE  PinnedInv'
  BY <1>24 DEF RetryReconnect, Backoff, AfterConnected
<1>25. ASSUME NEW r \in Lives, DisconnectConnection(r)
      PROVE  PinnedInv'
  BY <1>25 DEF DisconnectConnection, Claim, Claimable
<1>26. ASSUME NEW q \in Requests, TakeSocket(q)
      PROVE  PinnedInv'
  BY <1>26 DEF TakeSocket, ReturnRequest
<1>27. ASSUME NEW q \in Requests, Register(q) \/ WriteRequest(q) \/ AwaitResponse(q)
      PROVE  PinnedInv'
  BY <1>27 DEF Register, WriteRequest, AwaitResponse, ReturnRequest
<1>28. ASSUME NEW q \in Requests, WriteFails(q)
      PROVE  PinnedInv'
  BY <1>28 DEF WriteFails, Invalidate
<1>29. ASSUME NEW q \in Requests, CloseWritten(q)
      PROVE  PinnedInv'
  BY <1>29 DEF CloseWritten, CloseSocket, ReturnRequest
<1>30. ASSUME NEW q \in Requests, WriteFailed(q)
      PROVE  PinnedInv'
  BY <1>30 DEF WriteFailed, ReturnRequest
<1>31. ASSUME NEW q \in Requests, WriteTimesOut(q)
      PROVE  PinnedInv'
  BY <1>31 DEF WriteTimesOut, Invalidate, ReturnRequest
<1>32. ASSUME NEW q \in Requests, WaitTimesOut(q)
      PROVE  PinnedInv'
  BY <1>32 DEF WaitTimesOut, ReturnRequest
<1>33. CASE Environment
  BY <1>33 DEF Environment, LoseSocket, Answer
<1>34. CASE UNCHANGED vars
  BY <1>34 DEF vars
<1> QED
  BY <1>1, <1>2, <1>3, <1>4, <1>5, <1>6, <1>7, <1>8, <1>9, <1>10, <1>11, <1>12, <1>13, <1>14, 
     <1>15, <1>16, <1>17, <1>18, <1>19, <1>20, <1>21, <1>22, <1>23, <1>24, <1>25, <1>26, 
     <1>27, <1>28, <1>29, <1>30, <1>31, <1>32, <1>33, <1>34
  DEF Next, CtlStep, ConnectStep, DisconnectStep, ReaderStep, ReadStep, RequestStep, Timeout,
      Connectors

LEMMA InvHolds == Spec => []IInv
<1>1. IInv /\ [Next]_vars => IInv'
  BY StepControl, StepLive, StepDialed, StepPinned DEF IInv, DialedInv
<1> QED BY <1>1, InitInv, PTL DEF Spec

(* At most one lifecycle is live, the newest, and none while a replacement  *)
(* is about to start its own.                                              *)
THEOREM OneLiveLifecycleHolds == Spec => []OneLiveLifecycle
<1>1. IInv => OneLiveLifecycle
  BY DEF IInv, LiveInv, OneLiveLifecycle, At
<1> QED BY <1>1, InvHolds, PTL

(* Every request was bound to a socket whose network was verified, by the   *)
(* first connection or by any reconnection after it.                       *)
THEOREM RequestsOnPinnedNetworkHolds == Spec => []RequestsOnPinnedNetwork
<1>1. IInv => RequestsOnPinnedNetwork
  BY DEF IInv, PinnedInv, Verified, RequestsOnPinnedNetwork
<1> QED BY <1>1, InvHolds, PTL

-----------------------------------------------------------------------------
(* No more lifecycles are begun than there can be, and no reader runs before *)
(* its own.                                                                 *)
LifeInv ==
    /\ life \in 0..MaxLife
    /\ pc[Ctl] \in {"lock", "reset"} \cup Handshake => life < MaxLife
    /\ \A r \in Lives : r > life => pc[r] = "none"

LEMMA InitLife == Init => LifeInv
BY ClientAssumption DEF Init, LifeInv, Handshake, Procs, Connectors, Lives

LEMMA StepLife == ControlType /\ LifeInv /\ [Next]_vars => LifeInv'
<1> SUFFICES ASSUME ControlType, LifeInv, [Next]_vars PROVE LifeInv'
    OBVIOUS
<1> USE ClientAssumption
    DEF ControlType, LifeInv, Procs, Connectors, Lives, Handshake, At, Goto, GoWith, clientVars
<1>1. CASE CallConnect \/ CallDisconnect \/ FailReplaced \/ CancelReplaced \/ StartLifecycle
  BY <1>1 DEF CallConnect, CallDisconnect, FailReplaced, CancelReplaced, StartLifecycle
<1>2. CASE DisconnectStep
  BY <1>2 DEF DisconnectStep, ClaimForDisconnect, CancelLifecycle, FailRaced, CloseClaimed,
              FinishDisconnect
<1>3. ASSUME NEW p \in Connectors, ConnectStep(p) PROVE LifeInv'
  BY <1>3 DEF ConnectStep, BeginConnect, DialSucceeds, DialFails, Adopt, Refuse, PrepareIdentity,
              IdentityFails, ClosePrepared, PublishPrepared, ConnectFailed
<1>4. ASSUME NEW r \in Lives, ReadStep(r) PROVE LifeInv'
  BY <1>4 DEF ReadStep, CheckContext, TakeCurrent, LockReadMu, ReadFails, ReadMessage,
              HandleMessage, AfterError, InvalidateOld, CloseOld, FailForSocket, StaleCheck,
              FailForAll
<1>5. ASSUME NEW r \in Lives,
             \/ RetryReconnect(r) \/ Backoff(r) \/ AfterConnectError(r) \/ AfterConnected(r)
             \/ DisconnectConnection(r) \/ CloseClaimed(r) \/ FinishDisconnect(r)
      PROVE  LifeInv'
  BY <1>5 DEF RetryReconnect, Backoff, AfterConnectError, CheckContext, AfterConnected,
              DisconnectConnection, CloseClaimed, FinishDisconnect
<1>6. ASSUME NEW q \in Requests, RequestStep(q) \/ Timeout(q) PROVE LifeInv'
  BY <1>6 DEF RequestStep, TakeSocket, Register, WriteRequest, WriteFails, CloseWritten,
              WriteFailed, AwaitResponse, Timeout, WriteTimesOut, WaitTimesOut, ReturnRequest
<1>7. CASE Environment \/ UNCHANGED vars
  BY <1>7 DEF Environment, LoseSocket, Answer, vars
<1> QED BY <1>1, <1>2, <1>3, <1>4, <1>5, <1>6, <1>7
        DEF Next, CtlStep, ReaderStep

-----------------------------------------------------------------------------
(* A goroutine of the client as a caller of Connection: its place in one of *)
(* the methods and the socket it holds there.  One that awaits a response,  *)
(* or is done with a socket and only fails its requests, is in none.        *)
PlaceAt(label, s) ==
    CASE label = "dial" -> "dialing"
      [] label = "dialed" -> "dialed"
      [] label \in {"identity", "replace", "cancelOld", "publish"} -> "preparing"
      [] label \in {"closing", "closeOld", "writeClose", "timeoutClose"} -> "closing"
      [] label = "close" \/ (label = "cancel" /\ s # NoSocket) -> "claimed"
      [] label = "release" -> "releasing"
      [] label \in {"wantRead", "reading", "gotMessage", "handle", "invalidate", "register", "write"}
             \/ (label = "gotError" /\ s # NoSocket) -> "using"
      [] OTHER -> "idle"

HeldAt(label, s) == IF PlaceAt(label, s) \in {"idle", "dialing"} THEN NoSocket ELSE s

Place == [p \in Procs |-> PlaceAt(pc[p], mine[p])]
Held == [p \in Procs |-> HeldAt(pc[p], mine[p])]

Conn == INSTANCE ConnectionProofs WITH Callers <- Procs, pc <- Place, mine <- Held

LEMMA Here ==
    ASSUME NEW p \in Procs, NEW label
    PROVE  Conn!At(p, label) <=> PlaceAt(pc[p], mine[p]) = label
BY DEF Conn!At, Place

LEMMA Holds ==
    ASSUME NEW p \in Procs
    PROVE  Held[p] = HeldAt(pc[p], mine[p])
BY DEF Held

LEMMA Stays ==
    ASSUME ControlType, NEW p \in Procs, NEW label, Goto(p, label)
    PROVE  GoWith(p, label, mine[p])
BY DEF ControlType, Goto, GoWith

LEMMA Moves ==
    ASSUME ControlType, NEW p \in Procs, NEW label, NEW s, GoWith(p, label, s)
    PROVE  Conn!GoWith(p, PlaceAt(label, s), HeldAt(label, s))
BY DEF ControlType, GoWith, Conn!GoWith, Place, Held

LEMMA Unmoved ==
    ASSUME ControlType, NEW p \in Procs, NEW label, NEW s, GoWith(p, label, s),
           PlaceAt(label, s) = PlaceAt(pc[p], mine[p]),
           HeldAt(label, s) = HeldAt(pc[p], mine[p])
    PROVE  UNCHANGED <<Place, Held>>
BY DEF ControlType, GoWith, Place, Held

(* What each step of the client is to Connection.                           *)
LEMMA StepConnection ==
    ControlType /\ LifeInv /\ [Next]_vars => [Conn!Next]_(Conn!vars)
<1> SUFFICES ASSUME ControlType, LifeInv, [Next]_vars PROVE [Conn!Next]_(Conn!vars)
    OBVIOUS
<1> DEFINE Does(p) == Conn!Step(p) \/ UNCHANGED Conn!vars
<1>0. Ctl \in Procs /\ Lives \subseteq Procs /\ Requests \subseteq Procs /\ Connectors \subseteq Procs
  BY DEF Procs, Connectors
<1> USE <1>0, SocketAssumption, Here, Holds, Stays, Moves, Unmoved
    DEF At, Conn!Goto, Conn!Return, slots, Conn!slots, Conn!vars, PlaceAt, HeldAt,
        CloseSocket, Conn!CloseSocket
<1>1. ASSUME NEW p \in Procs, BeginConnect(p) PROVE Does(p)
  <2>1. CASE Free
    <3>1. Conn!BeginConnect(p)
      BY <1>1, <2>1 DEF BeginConnect, Conn!BeginConnect, Free, Conn!Free
    <3> QED BY <3>1 DEF Conn!Step
  <2>2. CASE ~Free
    <3>1. UNCHANGED <<Place, Held>>
      BY <1>1, <2>2 DEF BeginConnect, ConnectFailed
    <3> QED BY <1>1, <3>1 DEF BeginConnect
  <2> QED BY <2>1, <2>2
<1>2. ASSUME NEW p \in Procs, NEW s \in Sockets, NEW n \in Networks, DialSucceeds(p, s, n)
      PROVE  Does(p)
  <2>1. GoWith(p, "dialed", s) /\ pc[p] = "dial" /\ Dialed(s)
    BY <1>2 DEF DialSucceeds
  <2>2. Conn!GoWith(p, "dialed", s) /\ Conn!At(p, "dialing")
    BY <2>1
  <2>3. Conn!DialSucceeds(p, s)
    BY <2>1, <2>2 DEF Conn!DialSucceeds, Dialed, Conn!Dialed
  <2> QED BY <2>3 DEF Conn!Step
<1>3. ASSUME NEW p \in Procs, DialFails(p) PROVE Does(p)
  <2>1. Conn!DialFails(p)
    BY <1>3 DEF DialFails, ConnectFailed, Conn!DialFails
  <2> QED BY <2>1 DEF Conn!Step
<1>4. ASSUME NEW p \in Procs, Adopt(p) PROVE Does(p)
  <2>1. Conn!Adopt(p)
    BY <1>4 DEF Adopt, AdoptDialed, Conn!Adopt, Conn!AdoptDialed, Free, Conn!Free
  <2> QED BY <2>1 DEF Conn!Step
<1>5. ASSUME NEW p \in Procs, Refuse(p) PROVE Does(p)
  <2>1. pc[p] = "dialed" /\ \E l \in {"idle", "connectError"} : GoWith(p, l, NoSocket)
    BY <1>5 DEF Refuse, ConnectFailed
  <2>2. Conn!GoWith(p, "idle", NoSocket) /\ Conn!At(p, "dialed") /\ Held[p] = mine[p]
    BY <2>1
  <2>3. Conn!Refuse(p)
    BY <1>5, <2>2 DEF Refuse, RefuseDialed, Free, Conn!Refuse, Conn!RefuseDialed, Conn!Free
  <2> QED BY <2>3 DEF Conn!Step
<1>6. ASSUME NEW p \in Procs, PrepareIdentity(p) PROVE Does(p)
  <2>1. UNCHANGED <<Place, Held>>
    BY <1>6 DEF PrepareIdentity
  <2> QED BY <1>6, <2>1 DEF PrepareIdentity, Discovers
<1>7. ASSUME NEW p \in Procs, IdentityFails(p) PROVE Does(p)
  <2>1. Conn!InvalidateFailed(p)
    BY <1>7 DEF IdentityFails, Invalidate, ConnectFailed, Conn!InvalidateFailed, Conn!Invalidate
  <2> QED BY <2>1 DEF Conn!Step
<1>8. ASSUME NEW p \in Procs, ClosePrepared(p) \/ CloseOld(p) \/ CloseWritten(p) PROVE Does(p)
  <2>1. Conn!CloseFailed(p)
    BY <1>8 DEF ClosePrepared, CloseOld, CloseWritten, ReturnRequest, ConnectFailed, Conn!CloseFailed
  <2> QED BY <2>1 DEF Conn!Step
<1>9. ASSUME NEW p \in Procs, PublishPrepared(p) PROVE Does(p)
  <2>1. /\ pc[p] = "publish"
        /\ \E l \in {"idle", "connectError", "reset", "connected"} : \E s : GoWith(p, l, s)
    BY <1>9 DEF PublishPrepared, ConnectFailed
  <2>2. Conn!GoWith(p, "idle", NoSocket) /\ Conn!At(p, "preparing") /\ Held[p] = mine[p]
    BY <2>1
  <2>3. Publish(mine[p]) \/ PublishExpired(mine[p]) \/ PublishWithdrawn(mine[p])
    BY <1>9 DEF PublishPrepared
  <2>4. Conn!PublishPrepared(p)
    BY <2>2, <2>3 DEF Publish, PublishExpired, PublishWithdrawn, Conn!PublishPrepared,
                      Conn!Publish, Conn!PublishExpired, Conn!PublishWithdrawn
  <2> QED BY <2>4 DEF Conn!Step
<1>10. CASE CallConnect \/ CallDisconnect \/ FailReplaced \/ CancelReplaced \/ CancelLifecycle \/ FailRaced
  <2>1. UNCHANGED <<Place, Held>>
    BY <1>10 DEF CallConnect, CallDisconnect, FailReplaced, CancelReplaced, CancelLifecycle, FailRaced
  <2> QED BY <1>10, <2>1
          DEF CallConnect, CallDisconnect, FailReplaced, CancelReplaced, CancelLifecycle, FailRaced
<1>11. CASE StartLifecycle
  <2>1. /\ pc[Ctl] = "reset" /\ life + 1 \in Lives \ {Ctl} /\ pc[life + 1] = "none"
        /\ pc' = [pc EXCEPT ![Ctl] = "idle", ![life + 1] = "top"]
        /\ mine' = [mine EXCEPT ![Ctl] = NoSocket]
    BY <1>11, ClientAssumption DEF StartLifecycle, LifeInv, Lives
  <2>2. ASSUME NEW p \in Procs
        PROVE  /\ PlaceAt(pc'[p], mine'[p]) = PlaceAt(pc[p], mine[p])
               /\ HeldAt(pc'[p], mine'[p]) = HeldAt(pc[p], mine[p])
    <3>1. CASE p # Ctl /\ p # life + 1
      BY <2>1, <3>1 DEF ControlType
    <3>2. CASE p = Ctl
      BY <2>1, <3>2 DEF ControlType, PlaceAt, HeldAt
    <3>3. CASE p # Ctl /\ p = life + 1
      BY <2>1, <3>3 DEF ControlType, PlaceAt, HeldAt
    <3> QED BY <3>1, <3>2, <3>3
  <2>3. UNCHANGED <<Place, Held>>
    BY <2>2 DEF Place, Held
  <2> QED BY <1>11, <2>3 DEF StartLifecycle
<1>12. ASSUME NEW p \in Procs, At(p, "claim"), Claim, NEW label,
             GoWith(p, label, Claimable),
             label = "cancel" \/ label = IF Claimable = NoSocket THEN "done" ELSE "close"
      PROVE  Does(p)
  <2>1. CASE Claimable # NoSocket
    <3>1. Conn!At(p, "idle") /\ Conn!GoWith(p, "claimed", Claimable)
      BY <1>12, <2>1
    <3>2. Conn!ClaimForDisconnect(p)
      BY <1>12, <2>1, <3>1 DEF Claim, Claimable, Conn!ClaimForDisconnect, Conn!Claim, Conn!Claimable
    <3> QED BY <3>2 DEF Conn!Step
  <2>2. CASE Claimable = NoSocket
    <3>1. UNCHANGED <<Place, Held>>
      BY <1>12, <2>2
    <3> QED BY <1>12, <2>2, <3>1 DEF Claim, Claimable
  <2> QED BY <2>1, <2>2
<1>13. ASSUME NEW p \in Procs, CloseClaimed(p) PROVE Does(p)
  <2>1. GoWith(p, "release", mine[p]) /\ pc[p] = "close"
    BY <1>13 DEF CloseClaimed
  <2>2. Conn!GoWith(p, "releasing", mine[p]) /\ Conn!At(p, "claimed") /\ Held[p] = mine[p]
    BY <2>1
  <2>3. Conn!CloseClaimed(p)
    BY <1>13, <2>2 DEF CloseClaimed, Conn!CloseClaimed
  <2> QED BY <2>3 DEF Conn!Step
<1>14. ASSUME NEW p \in Procs, FinishDisconnect(p) PROVE Does(p)
  <2>1. Conn!FinishDisconnect(p)
    BY <1>14 DEF FinishDisconnect, ReleaseClaim, Conn!FinishDisconnect, Conn!ReleaseClaim
  <2> QED BY <2>1 DEF Conn!Step
<1>15. ASSUME NEW p \in Procs,
             CheckContext(p, "top", "take") \/ CheckContext(p, "gotMessage", "handle")
               \/ AfterError(p) \/ AfterConnectError(p)
      PROVE  Does(p)
  <2>1. UNCHANGED <<slots, sock>>
    BY <1>15 DEF CheckContext, AfterError, AfterConnectError
  <2>2. CASE pc[p] \in {"top", "connectError"}
    <3>1. \E l \in {"take", "retry", "done"} : \E s : GoWith(p, l, s)
      BY <1>15, <2>2 DEF CheckContext, AfterError, AfterConnectError
    <3>2. UNCHANGED <<Place, Held>>
      BY <2>2, <3>1
    <3> QED BY <2>1, <3>2
  <2>3. CASE pc[p] \in {"gotMessage", "gotError"}
    <3>1. \/ GoWith(p, "done", NoSocket)
          \/ pc[p] = "gotMessage" /\ GoWith(p, "handle", mine[p])
          \/ /\ pc[p] = "gotError"
             /\ GoWith(p, IF mine[p] = NoSocket THEN "failAll" ELSE "invalidate", mine[p])
      BY <1>15, <2>3 DEF CheckContext, AfterError, AfterConnectError
    <3>2. UNCHANGED <<Place, Held>> \/ (Conn!At(p, "using") /\ Conn!GoWith(p, "idle", NoSocket))
      <4>1. CASE pc[p] = "gotMessage"
        BY <3>1, <4>1
      <4>2. CASE pc[p] = "gotError" /\ mine[p] = NoSocket
        BY <3>1, <4>2
      <4>3. CASE pc[p] = "gotError" /\ mine[p] # NoSocket
        BY <3>1, <4>3
      <4> QED BY <2>3, <4>1, <4>2, <4>3
    <3> QED BY <2>1, <3>2 DEF Conn!UseEnds, Conn!Step
  <2> QED BY <1>15, <2>2, <2>3 DEF CheckContext, AfterError, AfterConnectError
<1>16. ASSUME NEW p \in Procs, TakeCurrent(p) \/ TakeSocket(p) PROVE Does(p)
  <2>1. CASE conn # NoSocket
    <3>1. Conn!TakeCurrent(p)
      BY <1>16, <2>1 DEF TakeCurrent, TakeSocket, Conn!TakeCurrent
    <3> QED BY <3>1 DEF Conn!Step
  <2>2. CASE conn = NoSocket
    <3>1. UNCHANGED <<Place, Held>>
      BY <1>16, <2>2 DEF TakeCurrent, TakeSocket, ReturnRequest
    <3> QED BY <1>16, <3>1 DEF TakeCurrent, TakeSocket
  <2> QED BY <2>1, <2>2
<1>17. ASSUME NEW p \in Procs, LockReadMu(p) \/ Register(p) \/ \E q \in Requests : ReadMessage(p, q)
      PROVE  Does(p)
  <2>1. UNCHANGED <<Place, Held>>
    BY <1>17 DEF LockReadMu, Register, ReadMessage
  <2> QED BY <1>17, <2>1 DEF LockReadMu, Register, ReadMessage
<1>18. ASSUME NEW p \in Procs, ReadFails(p) \/ HandleMessage(p) \/ WriteRequest(p) PROVE Does(p)
  <2>1. /\ pc[p] \in {"reading", "handle", "write"}
        /\ \/ GoWith(p, "gotError", mine[p])
           \/ \E l \in {"top", "await"} : \E s : GoWith(p, l, s)
    BY <1>18 DEF ReadFails, HandleMessage, WriteRequest
  <2>2. UNCHANGED <<Place, Held>> \/ (Conn!At(p, "using") /\ Conn!GoWith(p, "idle", NoSocket))
    <3>1. CASE GoWith(p, "gotError", mine[p]) /\ mine[p] = NoSocket
      BY <2>1, <3>1
    <3>2. CASE GoWith(p, "gotError", mine[p]) /\ mine[p] # NoSocket
      BY <2>1, <3>2
    <3>3. CASE \E l \in {"top", "await"} : \E s : GoWith(p, l, s)
      BY <2>1, <3>3
    <3> QED BY <2>1, <3>1, <3>2, <3>3
  <2>3. UNCHANGED <<slots, sock>>
    BY <1>18 DEF ReadFails, HandleMessage, WriteRequest
  <2> QED BY <2>2, <2>3 DEF Conn!UseEnds, Conn!Step
<1>19. ASSUME NEW p \in Procs, InvalidateOld(p) \/ WriteFails(p) PROVE Does(p)
  <2>1. Conn!InvalidateFailed(p)
    BY <1>19 DEF InvalidateOld, WriteFails, Invalidate, Conn!InvalidateFailed, Conn!Invalidate
  <2> QED BY <2>1 DEF Conn!Step
<1>20. ASSUME NEW p \in Procs,
             FailForSocket(p) \/ StaleCheck(p) \/ FailForAll(p) \/ RetryReconnect(p) \/ Backoff(p)
               \/ AfterConnected(p) \/ WriteFailed(p) \/ AwaitResponse(p) \/ WaitTimesOut(p)
      PROVE  Does(p)
  <2>1. /\ \E l \in {"staleCheck", "done", "retry", "top", "backoff", "lock", "claim"} : \E s : GoWith(p, l, s)
        /\ pc[p] \in {"failSocket", "staleCheck", "failAll", "retry", "backoff", "connected",
                      "writeFailed", "await", "new"}
    BY <1>20 DEF FailForSocket, StaleCheck, FailForAll, RetryReconnect, Backoff, AfterConnected,
             WriteFailed, AwaitResponse, WaitTimesOut, ReturnRequest
  <2>2. UNCHANGED <<Place, Held>>
    BY <2>1
  <2> QED BY <1>20, <2>2
          DEF FailForSocket, StaleCheck, FailForAll, RetryReconnect, Backoff, AfterConnected,
              WriteFailed, AwaitResponse, WaitTimesOut
<1>21. ASSUME NEW p \in Procs, WriteTimesOut(p) PROVE Does(p)
  <2>1. Conn!InvalidateFailed(p) \/ Conn!UseEnds(p)
    BY <1>21 DEF WriteTimesOut, ReturnRequest, Invalidate, Conn!InvalidateFailed, Conn!Invalidate,
             Conn!UseEnds
  <2> QED BY <2>1 DEF Conn!Step
<1>22. CASE Environment \/ UNCHANGED vars
  BY <1>22 DEF Environment, LoseSocket, Answer, vars, Place, Held
<1>23. ClaimForDisconnect => Does(Ctl)
  BY <1>12 DEF ClaimForDisconnect
<1>24. \A r \in Lives : DisconnectConnection(r) => Does(r)
  BY <1>12 DEF DisconnectConnection
<1> QED
  BY <1>1, <1>2, <1>3, <1>4, <1>5, <1>6, <1>7, <1>8, <1>9, <1>10, <1>11, <1>13,
     <1>14, <1>15, <1>16, <1>17, <1>18, <1>19, <1>20, <1>21, <1>22, <1>23, <1>24
  DEF Next, CtlStep, ConnectStep, DisconnectStep, ReaderStep, ReadStep, RequestStep, Timeout,
      Conn!Next

LEMMA LifeHolds == Spec => [](ControlType /\ LifeInv)
<1>1. ControlType /\ SlotsType /\ LifeInv /\ [Next]_vars => ControlType' /\ LifeInv'
  BY StepControl, StepLife
<1>2. IInv => ControlType /\ SlotsType
  BY DEF IInv, DialedInv
<1> QED BY <1>1, <1>2, InitLife, InitInv, InvHolds, PTL DEF Spec

(* Whatever its goroutines do, the client is a set of callers of Connection, *)
(* so every theorem about Connection holds of it.                           *)
THEOREM ClientImplementsConnection == Spec => Conn!Spec
<1>1. Init => Conn!Init
  BY DEF Init, SlotsInit, Conn!Init, Conn!SlotsInit, Place, Held, PlaceAt, HeldAt
<1> QED BY <1>1, LifeHolds, StepConnection, PTL DEF Spec, Conn!Spec

(* No socket leaks, for any number of connections, reconnections, requests  *)
(* and disconnects at once.                                                 *)
THEOREM NoLeakHolds == Spec => []NoLeak
<1>1. ControlType /\ Conn!NoLeak => NoLeak
  BY SocketAssumption DEF ControlType, Conn!NoLeak, NoLeak, Place, Held, PlaceAt, HeldAt
<1> QED BY <1>1, LifeHolds, ClientImplementsConnection, Conn!NoLeakHolds, SocketAssumption, PTL

(* At most one socket is shown at a time, and none again once withdrawn.    *)
THEOREM ClientImplementsLink == Spec => ImplementsLink
<1>0. Fresh = Conn!Fresh
  BY DEF Fresh, Conn!Fresh, Place, Held, PlaceAt, HeldAt
<1>1. Conn!LinkView!LinkInit => LinkView!LinkInit
  BY <1>0 DEF Conn!LinkView!LinkInit, LinkView!LinkInit
<1>2. Fresh' = Conn!Fresh'
  BY DEF Fresh, Conn!Fresh, Place, Held, PlaceAt, HeldAt
<1>3. [Conn!LinkView!LinkNext]_(Conn!LinkView!linkVars) => [LinkView!LinkNext]_(LinkView!linkVars)
  BY <1>0, <1>2
  DEF Conn!LinkView!LinkNext, LinkView!LinkNext, Conn!LinkView!Hide, LinkView!Hide,
      Conn!LinkView!Show, LinkView!Show, Conn!LinkView!Discard, LinkView!Discard,
      Conn!LinkView!linkVars, LinkView!linkVars
<1> QED
  BY <1>1, <1>3, ClientImplementsConnection, Conn!ConnectionImplementsLink, SocketAssumption, PTL
  DEF Conn!ImplementsLink, ImplementsLink, LinkView!LinkSpec, Conn!LinkView!LinkSpec

-----------------------------------------------------------------------------
(* What the server, the readers and the requests keep.                      *)
DataType ==
    /\ lost \subseteq Sockets
    /\ owed \in [Sockets -> SUBSET Requests]
    /\ inbox \in [Sockets -> SUBSET Requests]
    /\ live \subseteq Lives
    /\ retry \in [Lives -> 0..MaxReconnects]
    /\ wasCurrent \in [Lives -> BOOLEAN]
    /\ msg \in [Lives -> Requests \cup {NoSocket}]
    /\ pending \subseteq Requests
    /\ out \in [Requests -> Outcomes]
    /\ calls \in 0..MaxDisconnects
    /\ identity \in Networks \cup {Unknown} /\ ready \in BOOLEAN

LEMMA StepData == ControlType /\ LifeInv /\ DialedInv /\ DataType /\ [Next]_vars => DataType'
<1> SUFFICES ASSUME ControlType, LifeInv, DialedInv, DataType, [Next]_vars PROVE DataType'
    OBVIOUS
<1> USE ClientAssumption DEF DataType, At, clientVars, wire, requestVars, FailPending, Outcomes
<1>1. CASE CallConnect \/ CallDisconnect \/ FailReplaced \/ CancelReplaced
  BY <1>1 DEF CallConnect, CallDisconnect, FailReplaced, CancelReplaced
<1>2. CASE StartLifecycle
  BY <1>2 DEF StartLifecycle, LifeInv, Lives
<1>3. CASE DisconnectStep
  BY <1>3 DEF DisconnectStep, ClaimForDisconnect, CancelLifecycle, FailRaced, CloseClaimed,
              FinishDisconnect
<1>4. ASSUME NEW p \in Connectors, ConnectStep(p) PROVE DataType'
  <2>1. CASE PrepareIdentity(p)
    <3>1. mine[p] \in Sockets /\ net[mine[p]] \in Networks
      BY <2>1 DEF PrepareIdentity, DialedInv, ControlType, Procs
    <3> QED BY <2>1, <3>1 DEF PrepareIdentity
  <2> QED BY <1>4, <2>1
          DEF ConnectStep, BeginConnect, DialSucceeds, DialFails, Adopt, Refuse, IdentityFails,
              ClosePrepared, PublishPrepared
<1>5. ASSUME NEW r \in Lives, ReadStep(r) PROVE DataType'
  <2>1. CASE \E q \in Requests : ReadMessage(r, q)
    <3>1. PICK q \in Requests : ReadMessage(r, q)
      BY <2>1
    <3>2. inbox' \in [Sockets -> SUBSET Requests]
      BY <3>1 DEF ReadMessage
    <3>3. msg' \in [Lives -> Requests \cup {NoSocket}]
      BY <3>1 DEF ReadMessage
    <3> QED BY <3>1, <3>2, <3>3 DEF ReadMessage
  <2>2. CASE InvalidateOld(r)
    BY <2>2 DEF InvalidateOld
  <2>3. CASE HandleMessage(r)
    BY <2>3 DEF HandleMessage
  <2>4. CASE FailForSocket(r) \/ FailForAll(r)
    BY <2>4 DEF FailForSocket, FailForAll
  <2> QED BY <1>5, <2>1, <2>2, <2>3, <2>4
          DEF ReadStep, CheckContext, TakeCurrent, LockReadMu, ReadFails, AfterError, CloseOld,
              StaleCheck
<1>6. ASSUME NEW r \in Lives, RetryReconnect(r) PROVE DataType'
  BY <1>6 DEF RetryReconnect
<1>7. ASSUME NEW r \in Lives,
             \/ Backoff(r) \/ AfterConnectError(r) \/ AfterConnected(r)
             \/ DisconnectConnection(r) \/ CloseClaimed(r) \/ FinishDisconnect(r)
      PROVE  DataType'
  BY <1>7 DEF Backoff, AfterConnectError, CheckContext, AfterConnected, DisconnectConnection,
              CloseClaimed, FinishDisconnect
<1>8. ASSUME NEW q \in Requests, RequestStep(q) \/ Timeout(q) PROVE DataType'
  BY <1>8 DEF RequestStep, TakeSocket, Register, WriteRequest, WriteFails, CloseWritten,
              WriteFailed, AwaitResponse, Timeout, WriteTimesOut, WaitTimesOut, ReturnRequest,
              ControlType, Procs
<1>9. CASE Environment \/ UNCHANGED vars
  BY <1>9 DEF Environment, LoseSocket, Answer, vars
<1> QED BY <1>1, <1>2, <1>3, <1>4, <1>5, <1>6, <1>7, <1>8, <1>9
        DEF Next, CtlStep, ReaderStep, Connectors

(* Type correctness.                                                        *)
THEOREM TypeCorrect == Spec => []TypeOK
<1>1. Init => DataType
  BY ClientAssumption DEF Init, DataType, Outcomes, Lives
<1>2. ControlType /\ DialedInv /\ LifeInv /\ DataType => TypeOK
  BY DEF TypeOK, ControlType, DialedInv, LifeInv, DataType
<1>3. IInv => DialedInv
  BY DEF IInv
<1> QED BY <1>1, <1>2, <1>3, StepData, LifeHolds, InvHolds, PTL DEF Spec
-----------------------------------------------------------------------------
(* The published socket.  A step moves one goroutine, but for the one that  *)
(* also starts a reader, and only a connector publishes.                    *)
OnlyMoves(p) == \A t \in Procs \ {p} : pc'[t] = pc[t] /\ mine'[t] = mine[t]

LEMMA StepMoves ==
    ASSUME ControlType
    PROVE  /\ \A p \in Connectors :
                 ConnectStep(p) \/ CloseClaimed(p) \/ FinishDisconnect(p) => OnlyMoves(p)
           /\ CallConnect \/ CallDisconnect \/ FailReplaced \/ CancelReplaced
                \/ DisconnectStep => OnlyMoves(Ctl)
           /\ \A r \in Lives : ReaderStep(r) => OnlyMoves(r)
           /\ \A u \in Requests : RequestStep(u) \/ Timeout(u) => OnlyMoves(u)
<1> USE DEF ControlType, OnlyMoves, Goto, GoWith, ConnectFailed, ReturnRequest
<1>1. ASSUME NEW p \in Connectors, ConnectStep(p) \/ CloseClaimed(p) \/ FinishDisconnect(p)
      PROVE  OnlyMoves(p)
  BY <1>1 DEF ConnectStep, BeginConnect, DialSucceeds, DialFails, Adopt, Refuse, PrepareIdentity,
              IdentityFails, ClosePrepared, PublishPrepared, CloseClaimed, FinishDisconnect
<1>2. ASSUME CallConnect \/ CallDisconnect \/ FailReplaced \/ CancelReplaced \/ DisconnectStep
      PROVE  OnlyMoves(Ctl)
  BY <1>2 DEF CallConnect, CallDisconnect, FailReplaced, CancelReplaced, DisconnectStep,
              ClaimForDisconnect, CancelLifecycle, FailRaced, CloseClaimed, FinishDisconnect
<1>3. ASSUME NEW r \in Lives, ReaderStep(r) PROVE OnlyMoves(r)
  <2>1. CASE ConnectStep(r) \/ CloseClaimed(r) \/ FinishDisconnect(r)
    BY <1>1, <2>1 DEF Connectors
  <2>2. CASE ReadStep(r)
    BY <2>2 DEF ReadStep, CheckContext, TakeCurrent, LockReadMu, ReadFails, ReadMessage,
                HandleMessage, AfterError, InvalidateOld, CloseOld, FailForSocket, StaleCheck,
                FailForAll
  <2> QED BY <1>3, <2>1, <2>2
          DEF ReaderStep, RetryReconnect, Backoff, AfterConnectError, CheckContext,
              AfterConnected, DisconnectConnection
<1>4. ASSUME NEW u \in Requests, RequestStep(u) \/ Timeout(u) PROVE OnlyMoves(u)
  BY <1>4 DEF RequestStep, TakeSocket, Register, WriteRequest, WriteFails, CloseWritten,
              WriteFailed, AwaitResponse, Timeout, WriteTimesOut, WaitTimesOut
<1> QED BY <1>1, <1>2, <1>3, <1>4

Publishes(p) ==
    /\ At(p, "publish") /\ ContextAlive(p)
    /\ Publish(mine[p])
    /\ Goto(p, IF p = Ctl THEN "reset" ELSE "connected")

LEMMA ConnMoves ==
    ASSUME [Next]_vars
    PROVE  conn' \in {conn, NoSocket} \/ \E p \in Connectors : Publishes(p)
<1> USE DEF slots, clientVars
<1>1. ASSUME NEW p \in Connectors, ConnectStep(p)
      PROVE  conn' \in {conn, NoSocket} \/ Publishes(p)
  BY <1>1 DEF ConnectStep, BeginConnect, DialSucceeds, Dialed, DialFails, Adopt, AdoptDialed,
              Refuse, RefuseDialed, PrepareIdentity, IdentityFails, Invalidate, ClosePrepared,
              PublishPrepared, Publishes, PublishExpired, PublishWithdrawn
<1>2. CASE CallConnect \/ CallDisconnect \/ FailReplaced \/ CancelReplaced \/ StartLifecycle
  BY <1>2 DEF CallConnect, CallDisconnect, FailReplaced, CancelReplaced, StartLifecycle
<1>3. ASSUME NEW p \in Connectors, CloseClaimed(p) \/ FinishDisconnect(p)
      PROVE  conn' \in {conn, NoSocket}
  BY <1>3 DEF CloseClaimed, FinishDisconnect, ReleaseClaim
<1>4. CASE ClaimForDisconnect \/ CancelLifecycle \/ FailRaced
  BY <1>4 DEF ClaimForDisconnect, CancelLifecycle, FailRaced, Claim
<1>5. ASSUME NEW r \in Lives, ReadStep(r) PROVE conn' \in {conn, NoSocket}
  BY <1>5 DEF ReadStep, CheckContext, TakeCurrent, LockReadMu, ReadFails, ReadMessage,
              HandleMessage, AfterError, InvalidateOld, Invalidate, CloseOld, FailForSocket,
              StaleCheck, FailForAll
<1>6. ASSUME NEW r \in Lives,
             \/ RetryReconnect(r) \/ Backoff(r) \/ AfterConnectError(r) \/ AfterConnected(r)
             \/ DisconnectConnection(r)
      PROVE  conn' \in {conn, NoSocket}
  BY <1>6 DEF RetryReconnect, Backoff, AfterConnectError, CheckContext, AfterConnected,
              DisconnectConnection, Claim
<1>7. ASSUME NEW u \in Requests, RequestStep(u) \/ Timeout(u) PROVE conn' \in {conn, NoSocket}
  BY <1>7 DEF RequestStep, TakeSocket, Register, WriteRequest, WriteFails, CloseWritten,
              WriteFailed, AwaitResponse, Timeout, WriteTimesOut, WaitTimesOut, Invalidate
<1>8. CASE Environment \/ UNCHANGED vars
  BY <1>8 DEF Environment, LoseSocket, Answer, vars
<1> QED BY <1>1, <1>2, <1>3, <1>4, <1>5, <1>6, <1>7, <1>8
        DEF Next, CtlStep, DisconnectStep, ReaderStep, Connectors

(* connectionHandshakeMu admits one connector, and nothing is published     *)
(* until it is through.                                                     *)
HandshakeInv ==
    /\ \A p, t \in Connectors : pc[p] \in Handshake /\ pc[t] \in Handshake => p = t
    /\ \A p \in Connectors : pc[p] \in Handshake => conn = NoSocket

(* A connector enters the handshake by BeginConnect alone.                  *)
Begins(p) == ~HandshakeLocked /\ Free /\ OnlyMoves(p) /\ UNCHANGED conn

LEMMA HandshakeMoves ==
    ASSUME ControlType, [Next]_vars, NEW p \in Connectors, pc'[p] \in Handshake
    PROVE  pc[p] \in Handshake \/ Begins(p)
<1> SUFFICES ASSUME pc[p] \notin Handshake PROVE Begins(p)
    OBVIOUS
<1>0. /\ p \in Procs /\ Ctl \in Procs /\ Connectors \subseteq Procs /\ Lives \subseteq Procs
      /\ Requests \subseteq Procs /\ p \notin Requests /\ (p # Ctl => p \in Lives)
      /\ Ctl \notin Lives
  BY ClientAssumption DEF Procs, Connectors
<1>1. ASSUME ConnectStep(p) PROVE Begins(p)
  <2>1. BeginConnect(p) /\ Free
    BY <1>0, <1>1 DEF ConnectStep, BeginConnect, DialSucceeds, DialFails, Adopt, Refuse, PrepareIdentity,
              IdentityFails, ClosePrepared, PublishPrepared, ConnectFailed, ControlType, Goto,
              GoWith, At, Handshake
  <2> QED BY <1>1, <2>1, StepMoves DEF Begins, BeginConnect, slots
<1>2. ASSUME p \in Lives, ReadStep(p) PROVE FALSE
  BY <1>0, <1>2 DEF ReadStep, CheckContext, TakeCurrent, LockReadMu, ReadFails, ReadMessage,
              HandleMessage, AfterError, InvalidateOld, CloseOld, FailForSocket, StaleCheck,
              FailForAll, ControlType, Goto, GoWith, Handshake
<1>3. ASSUME p \in Lives,
             \/ RetryReconnect(p) \/ Backoff(p) \/ AfterConnectError(p) \/ AfterConnected(p)
             \/ DisconnectConnection(p)
      PROVE  FALSE
  BY <1>0, <1>3 DEF RetryReconnect, Backoff, AfterConnectError, CheckContext, AfterConnected,
              DisconnectConnection, ControlType, Goto, GoWith, Handshake
<1>4. ASSUME CloseClaimed(p) \/ FinishDisconnect(p) PROVE FALSE
  BY <1>0, <1>4 DEF CloseClaimed, FinishDisconnect, ControlType, Goto, GoWith, Handshake
<1>5. ASSUME p = Ctl,
             \/ CallConnect \/ CallDisconnect \/ FailReplaced \/ CancelReplaced \/ StartLifecycle
             \/ ClaimForDisconnect \/ CancelLifecycle \/ FailRaced
      PROVE  FALSE
  BY <1>0, <1>5 DEF CallConnect, CallDisconnect, FailReplaced, CancelReplaced, StartLifecycle,
              ClaimForDisconnect, CancelLifecycle, FailRaced, ControlType, Goto, GoWith, At,
              Handshake
<1>6. ASSUME OnlyMoves(Ctl) \/ StartLifecycle, p # Ctl PROVE FALSE
  BY <1>0, <1>6 DEF OnlyMoves, StartLifecycle, ControlType, Handshake
<1>7. ASSUME NEW t \in Procs, OnlyMoves(t), t # p PROVE FALSE
  BY <1>0, <1>7 DEF OnlyMoves
<1>8. CASE Environment \/ UNCHANGED vars
  BY <1>8 DEF Environment, LoseSocket, Answer, vars
<1>9. CASE CallConnect \/ CallDisconnect \/ CtlStep
  <2>1. CASE p = Ctl
    BY <1>1, <1>4, <1>5, <1>9, <2>1 DEF CtlStep, DisconnectStep
  <2>2. CASE p # Ctl
    BY <1>0, <1>6, <1>9, <2>2, StepMoves DEF CtlStep, DisconnectStep, Connectors
  <2> QED BY <2>1, <2>2
<1>10. ASSUME NEW r \in Lives, ReaderStep(r) PROVE Begins(p)
  <2>1. CASE p = r
    BY <1>1, <1>2, <1>3, <1>4, <1>10, <2>1 DEF ReaderStep
  <2>2. CASE p # r
    BY <1>0, <1>7, <1>10, <2>2, StepMoves
  <2> QED BY <2>1, <2>2
<1>11. ASSUME NEW u \in Requests, RequestStep(u) \/ Timeout(u) PROVE FALSE
  BY <1>0, <1>7, <1>11, StepMoves
<1> QED BY <1>8, <1>9, <1>10, <1>11 DEF Next

LEMMA StepHandshake ==
    ASSUME ControlType, HandshakeInv, [Next]_vars
    PROVE  HandshakeInv'
<1>0. Connectors \subseteq Procs
  BY DEF Procs
<1>1. ASSUME NEW p \in Connectors, NEW t \in Connectors, pc'[p] \in Handshake, pc'[t] \in Handshake
      PROVE  p = t
  <2>1. CASE pc[p] \in Handshake /\ pc[t] \in Handshake
    BY <2>1 DEF HandshakeInv
  <2>2. CASE Begins(p)
    BY <1>0, <1>1, <2>2 DEF Begins, OnlyMoves, HandshakeLocked
  <2>3. CASE Begins(t)
    BY <1>0, <1>1, <2>3 DEF Begins, OnlyMoves, HandshakeLocked
  <2> QED BY <1>1, <2>1, <2>2, <2>3, HandshakeMoves
<1>2. ASSUME NEW p \in Connectors, pc'[p] \in Handshake PROVE conn' = NoSocket
  <2>1. CASE Begins(p)
    BY <2>1 DEF Begins, Free
  <2>2. CASE pc[p] \in Handshake
    <3>1. conn = NoSocket
      BY <2>2 DEF HandshakeInv
    <3>2. ASSUME NEW t \in Connectors, Publishes(t) PROVE FALSE
      <4>1. pc[t] \in Handshake
        BY <3>2 DEF Publishes, At, Handshake
      <4>2. t = p
        BY <2>2, <4>1 DEF HandshakeInv
      <4>3. pc'[p] \in {"reset", "connected"}
        BY <1>0, <3>2, <4>2 DEF Publishes, Goto, ControlType
      <4> QED BY <1>2, <4>3 DEF Handshake
    <3> QED BY <3>1, <3>2, ConnMoves
  <2> QED BY <1>2, <2>1, <2>2, HandshakeMoves
<1> QED BY <1>1, <1>2 DEF HandshakeInv

(* What a live reader knows of the published socket: it is the one the      *)
(* reader works on, or none, since nobody else can publish meanwhile.       *)
KnowsConn(r) ==
    /\ pc[r] \in {"wantRead", "reading", "gotMessage", "gotError", "handle", "invalidate"} =>
           conn \in {mine[r], NoSocket}
    /\ pc[r] \in {"closeOld", "failSocket", "staleCheck", "failAll"} => conn = NoSocket
    /\ pc[r] \notin {"claim", "close", "release"}

KnowsInv == \A r \in live : KnowsConn(r)

LEMMA ReaderKnows ==
    ASSUME ControlType, NEW r \in Lives, r \in live, KnowsConn(r), ReaderStep(r)
    PROVE  KnowsConn(r)' /\ (pc'[r] \in {"none", "done"} => conn' = NoSocket)
<1> USE DEF ControlType, Procs, Connectors, KnowsConn, At, Goto, GoWith, slots
<1>1. CASE ConnectStep(r)
  <2>1. r # Ctl
    BY ClientAssumption
  <2>2. pc'[r] \in Handshake \cup {"connectError", "connected"}
    BY <1>1, <2>1 DEF ConnectStep, BeginConnect, DialSucceeds, DialFails, Adopt, Refuse,
              PrepareIdentity, IdentityFails, ClosePrepared, PublishPrepared, ConnectFailed,
              Handshake
  <2> QED BY <2>2 DEF Handshake
<1>2. CASE CheckContext(r, "top", "take") \/ CheckContext(r, "gotMessage", "handle") \/ AfterError(r)
  BY <1>2 DEF CheckContext, AfterError
<1>3. CASE TakeCurrent(r) \/ LockReadMu(r) \/ ReadFails(r) \/ \E u \in Requests : ReadMessage(r, u)
  BY <1>3 DEF TakeCurrent, LockReadMu, ReadFails, ReadMessage
<1>4. CASE HandleMessage(r) \/ CloseOld(r) \/ FailForSocket(r) \/ StaleCheck(r) \/ FailForAll(r)
  BY <1>4 DEF HandleMessage, CloseOld, FailForSocket, StaleCheck, FailForAll
<1>5. CASE InvalidateOld(r)
  BY <1>5 DEF InvalidateOld, Invalidate
<1>6. CASE RetryReconnect(r) \/ Backoff(r) \/ AfterConnectError(r) \/ AfterConnected(r)
  BY <1>6 DEF RetryReconnect, Backoff, AfterConnectError, AfterConnected, CheckContext
<1>7. ~(DisconnectConnection(r) \/ CloseClaimed(r) \/ FinishDisconnect(r))
  BY DEF DisconnectConnection, CloseClaimed, FinishDisconnect
<1> QED BY <1>1, <1>2, <1>3, <1>4, <1>5, <1>6, <1>7 DEF ReaderStep, ReadStep

(* Who changes the lifecycles, and who counts calls of Disconnect.          *)
LEMMA LiveMoves ==
    ASSUME [Next]_vars
    PROVE  /\ \/ UNCHANGED <<life, live>>
              \/ CancelReplaced \/ CancelLifecycle \/ StartLifecycle
           /\ CallDisconnect \/ UNCHANGED calls
<1> USE DEF clientVars, wire
<1>1. CASE CallConnect \/ CallDisconnect \/ FailReplaced
  BY <1>1 DEF CallConnect, CallDisconnect, FailReplaced
<1>2. CASE ClaimForDisconnect \/ FailRaced \/ CloseClaimed(Ctl) \/ FinishDisconnect(Ctl)
  BY <1>2 DEF ClaimForDisconnect, FailRaced, CloseClaimed, FinishDisconnect
<1>8. CASE CancelReplaced \/ CancelLifecycle \/ StartLifecycle
  <2>1. UNCHANGED calls
    BY <1>8 DEF CancelReplaced, CancelLifecycle, StartLifecycle
  <2> QED BY <1>8, <2>1
<1>3. ASSUME NEW p \in Connectors, ConnectStep(p) PROVE UNCHANGED <<life, live, calls>>
  BY <1>3 DEF ConnectStep, BeginConnect, DialSucceeds, DialFails, Adopt, Refuse, PrepareIdentity,
              IdentityFails, ClosePrepared, PublishPrepared
<1>4. ASSUME NEW r \in Lives, ReadStep(r) PROVE UNCHANGED <<life, live, calls>>
  BY <1>4 DEF ReadStep, CheckContext, TakeCurrent, LockReadMu, ReadFails, ReadMessage,
              HandleMessage, AfterError, InvalidateOld, CloseOld, FailForSocket, StaleCheck,
              FailForAll
<1>5. ASSUME NEW r \in Lives,
             \/ RetryReconnect(r) \/ Backoff(r) \/ AfterConnectError(r) \/ AfterConnected(r)
             \/ DisconnectConnection(r) \/ CloseClaimed(r) \/ FinishDisconnect(r)
      PROVE  UNCHANGED <<life, live, calls>>
  BY <1>5 DEF RetryReconnect, Backoff, AfterConnectError, CheckContext, AfterConnected,
              DisconnectConnection, CloseClaimed, FinishDisconnect
<1>6. ASSUME NEW u \in Requests, RequestStep(u) \/ Timeout(u) PROVE UNCHANGED <<life, live, calls>>
  BY <1>6 DEF RequestStep, TakeSocket, Register, WriteRequest, WriteFails, CloseWritten,
              WriteFailed, AwaitResponse, Timeout, WriteTimesOut, WaitTimesOut
<1>7. CASE Environment \/ UNCHANGED vars
  BY <1>7 DEF Environment, LoseSocket, Answer, vars
<1> QED BY <1>1, <1>2, <1>3, <1>4, <1>5, <1>6, <1>7, <1>8
        DEF Next, CtlStep, DisconnectStep, ReaderStep, Connectors

(* Whose step it is, as the goroutines p and r see it.                      *)
LEMMA WhoMoves ==
    ASSUME ControlType, [Next]_vars, NEW p \in Connectors
    PROVE  \/ pc'[p] = pc[p] /\ mine'[p] = mine[p]
           \/ StartLifecycle
           \/ p = Ctl /\ (CallConnect \/ CallDisconnect \/ CtlStep)
           \/ p \in Lives /\ ReaderStep(p)
<1>0. /\ p \in Procs /\ Ctl \in Procs /\ Lives \subseteq Procs /\ Requests \subseteq Procs
      /\ p \notin Requests
  BY ClientAssumption DEF Procs, Connectors
<1>1. CASE CallConnect \/ CallDisconnect \/ CtlStep
  BY <1>0, <1>1, StepMoves DEF OnlyMoves, CtlStep, DisconnectStep, Connectors
<1>2. ASSUME NEW r \in Lives, ReaderStep(r), p # r PROVE pc'[p] = pc[p] /\ mine'[p] = mine[p]
  BY <1>0, <1>2, StepMoves DEF OnlyMoves
<1>3. ASSUME NEW u \in Requests, RequestStep(u) \/ Timeout(u)
      PROVE  pc'[p] = pc[p] /\ mine'[p] = mine[p]
  BY <1>0, <1>3, StepMoves DEF OnlyMoves
<1>4. CASE Environment \/ UNCHANGED vars
  BY <1>4 DEF Environment, LoseSocket, Answer, vars
<1> QED BY <1>1, <1>2, <1>3, <1>4 DEF Next

(* A new lifecycle is the only live one, and its reader is at its start.    *)
LEMMA LifecycleStarts ==
    ASSUME ControlType, LiveInv, LifeInv, StartLifecycle
    PROVE  \E r \in Lives : pc'[r] = "top" /\ live' = {r}
<1>1. life + 1 \in Lives
  BY ClientAssumption DEF StartLifecycle, At, LifeInv, Lives
<1> PICK r \in Lives : r = life + 1
  BY <1>1
<1>2. live' = (live \ {life}) \cup {r} /\ pc' = [pc EXCEPT ![Ctl] = "idle", ![r] = "top"]
  BY DEF StartLifecycle
<1>3. live \ {life} = {} /\ r \in Procs
  BY DEF LiveInv, Procs, Connectors
<1> QED BY <1>2, <1>3 DEF ControlType

LEMMA StepKnows ==
    ASSUME ControlType, LiveInv, LifeInv, live \subseteq Lives, KnowsInv, [Next]_vars
    PROVE  KnowsInv'
<1>0. Ctl \in Procs /\ Lives \subseteq Connectors /\ Connectors \subseteq Procs /\ Ctl \notin Lives
  BY ClientAssumption DEF Connectors, Procs
<1>1. CASE StartLifecycle
  BY <1>1, LifecycleStarts DEF KnowsInv, KnowsConn
<1>2. ASSUME ~StartLifecycle, NEW r \in live' PROVE KnowsConn(r)'
  <2>1. r \in live /\ r \in Lives /\ KnowsConn(r)
    BY <1>2, LiveMoves DEF KnowsInv, CancelReplaced, CancelLifecycle
  <2>2. CASE ReaderStep(r)
    BY <2>1, <2>2, ReaderKnows
  <2>3. CASE pc'[r] = pc[r] /\ mine'[r] = mine[r]
    <3>1. CASE conn' \in {conn, NoSocket}
      BY <2>1, <2>3, <3>1 DEF KnowsConn
    <3>2. ASSUME NEW p \in Connectors, Publishes(p) PROVE FALSE
      <4>1. p = r
        BY <2>1, <3>2 DEF Publishes, ContextAlive, At, LiveInv
      <4>2. pc'[r] # pc[r]
        BY <1>0, <2>1, <3>2, <4>1 DEF Publishes, Goto, At, ControlType
      <4> QED BY <2>3, <4>2
    <3> QED BY <3>1, <3>2, ConnMoves
  <2> QED BY <1>0, <1>2, <2>1, <2>2, <2>3, WhoMoves
<1> QED BY <1>1, <1>2 DEF KnowsInv

(* As long as the application has not called Disconnect.                    *)
Attended ==
    /\ pc[Ctl] \in {"idle", "lock", "reset"} \cup Handshake
    /\ PublishedIsAttended

LEMMA StepAttended ==
    ASSUME ControlType, LiveInv, LifeInv, live \subseteq Lives, HandshakeInv, KnowsInv, Attended,
           [Next]_vars, ~CallDisconnect
    PROVE  Attended'
<1>0. /\ Ctl \in Procs /\ Ctl \in Connectors /\ Lives \subseteq Connectors
      /\ Connectors \subseteq Procs /\ Ctl \notin Lives
  BY ClientAssumption DEF Connectors, Procs
<1>1. pc'[Ctl] \in {"idle", "lock", "reset"} \cup Handshake
  <2>1. CASE pc'[Ctl] = pc[Ctl]
    BY <2>1 DEF Attended
  <2>2. CASE ConnectStep(Ctl)
    BY <1>0, <2>2 DEF ConnectStep, BeginConnect, DialSucceeds, DialFails, Adopt, Refuse,
              PrepareIdentity, IdentityFails, ClosePrepared, PublishPrepared, ConnectFailed,
              ControlType, Goto, GoWith, Handshake
  <2>3. CASE CallConnect \/ FailReplaced \/ CancelReplaced \/ StartLifecycle
    BY <1>0, <2>3 DEF CallConnect, FailReplaced, CancelReplaced, StartLifecycle, ControlType,
              Goto, GoWith, Handshake, LifeInv, Lives
  <2>4. ~DisconnectStep
    BY DEF DisconnectStep, ClaimForDisconnect, CancelLifecycle, FailRaced, CloseClaimed,
           FinishDisconnect, At, Attended, Handshake
  <2> QED BY <1>0, <2>1, <2>2, <2>3, <2>4, WhoMoves DEF CtlStep
<1>2. CASE StartLifecycle
  BY <1>1, <1>2, LifecycleStarts DEF Attended, PublishedIsAttended
<1>3. CASE ~StartLifecycle
  <2>1. live' \subseteq live /\ (conn # NoSocket => live' = live)
    <3>1. pc[Ctl] # "cancel"
      BY DEF Attended, Handshake
    <3>2. pc[Ctl] = "cancelOld" => conn = NoSocket
      BY <1>0 DEF HandshakeInv, Handshake
    <3>3. CASE CancelReplaced
      BY <3>2, <3>3 DEF CancelReplaced, At
    <3>4. CASE ~CancelReplaced
      BY <1>3, <3>1, <3>4, LiveMoves DEF CancelLifecycle, At
    <3> QED BY <3>3, <3>4
  <2>2. PublishedIsAttended'
    <3> SUFFICES ASSUME conn' # NoSocket PROVE PublishedIsAttended'
      BY DEF PublishedIsAttended
    <3>1. ASSUME NEW p \in Connectors, Publishes(p) PROVE PublishedIsAttended'
      <4>1. pc'[p] = IF p = Ctl THEN "reset" ELSE "connected"
        BY <1>0, <3>1 DEF Publishes, Goto, ControlType
      <4> QED BY <1>0, <4>1 DEF PublishedIsAttended, At, Connectors
    <3>2. CASE conn' = conn
      <4>0. conn # NoSocket /\ live' = live /\ pc[Ctl] # "claim"
        BY <2>1, <3>2 DEF Attended, Handshake
      <4>1. CASE At(Ctl, "reset")
        <5>1. pc'[Ctl] = "reset"
          <6>1. ~(CallConnect \/ CtlStep)
            BY <1>0, <1>3, <4>1
            DEF CallConnect, CtlStep, ConnectStep, BeginConnect, DialSucceeds, DialFails, Adopt,
                Refuse, PrepareIdentity, IdentityFails, ClosePrepared, PublishPrepared,
                FailReplaced, CancelReplaced, DisconnectStep, ClaimForDisconnect,
                CancelLifecycle, FailRaced, CloseClaimed, FinishDisconnect, At
          <6> QED BY <1>0, <1>3, <4>1, <6>1, WhoMoves DEF At
        <5> QED BY <5>1 DEF PublishedIsAttended, At
      <4>2. ASSUME NEW r \in live, pc[r] \notin {"none", "done"} PROVE PublishedIsAttended'
        <5>1. r \in Lives /\ KnowsConn(r) /\ r \in live'
          BY <4>0 DEF KnowsInv
        <5>2. pc'[r] \notin {"none", "done"}
          BY <1>0, <1>3, <3>2, <4>0, <4>2, <5>1, ReaderKnows, WhoMoves
        <5> QED BY <5>1, <5>2 DEF PublishedIsAttended
      <4>3. ASSUME NEW r \in Lives, pc[r] \in {"connected", "claim"} PROVE PublishedIsAttended'
        <5>1. CASE pc'[r] = pc[r]
          BY <4>3, <5>1 DEF PublishedIsAttended
        <5>2. CASE ReaderStep(r)
          <6>1. AfterConnected(r) \/ DisconnectConnection(r)
            BY <4>3, <5>2
            DEF ReaderStep, ReadStep, CheckContext, TakeCurrent, LockReadMu, ReadFails,
                ReadMessage, HandleMessage, AfterError, InvalidateOld, CloseOld, FailForSocket,
                StaleCheck, FailForAll, RetryReconnect, Backoff, AfterConnectError, ConnectStep,
                BeginConnect, DialSucceeds, DialFails, Adopt, Refuse, PrepareIdentity,
                IdentityFails, ClosePrepared, PublishPrepared, CloseClaimed, FinishDisconnect, At
          <6>2. ~DisconnectConnection(r)
            BY <3>2, <4>0 DEF DisconnectConnection, Claim
          <6>3. pc'[r] = IF r \in live THEN "top" ELSE "claim"
            BY <1>0, <6>1, <6>2 DEF AfterConnected, GoWith, ControlType
          <6> QED BY <4>0, <6>3 DEF PublishedIsAttended
        <5> QED BY <1>0, <1>3, <5>1, <5>2, WhoMoves
      <4> QED BY <4>0, <4>1, <4>2, <4>3 DEF Attended, PublishedIsAttended, At
    <3> QED BY <3>1, <3>2, ConnMoves
  <2> QED BY <1>1, <2>2 DEF Attended
<1> QED BY <1>2, <1>3

AttendInv == calls = 0 => Attended

LEMMA KnowsHolds == Spec => [](HandshakeInv /\ KnowsInv)
<1>1. Init => HandshakeInv /\ KnowsInv
  <2> SUFFICES ASSUME Init PROVE HandshakeInv /\ KnowsInv
    OBVIOUS
  <2>1. \A p \in Connectors : pc[p] \in {"idle", "none"}
    BY DEF Init, Connectors, Procs
  <2> QED BY <2>1 DEF Init, HandshakeInv, KnowsInv, Handshake
<1>2. /\ ControlType /\ LiveInv /\ LifeInv /\ live \subseteq Lives /\ HandshakeInv /\ KnowsInv
      /\ [Next]_vars
      => (HandshakeInv /\ KnowsInv)'
  BY StepHandshake, StepKnows
<1>3. TypeOK => live \subseteq Lives
  BY DEF TypeOK
<1>4. IInv => LiveInv
  BY DEF IInv
<1> QED BY <1>1, <1>2, <1>3, <1>4, LifeHolds, InvHolds, TypeCorrect, PTL DEF Spec

LEMMA AttendHolds == Spec => []AttendInv
<1>1. Init => AttendInv
  BY DEF Init, SlotsInit, Procs, Connectors, AttendInv, Attended, PublishedIsAttended
<1>2. /\ ControlType /\ LiveInv /\ LifeInv /\ live \subseteq Lives /\ calls \in Nat
      /\ HandshakeInv /\ KnowsInv /\ AttendInv /\ [Next]_vars
      => AttendInv'
  <2> SUFFICES ASSUME ControlType, LiveInv, LifeInv, live \subseteq Lives, calls \in Nat,
                      HandshakeInv, KnowsInv, AttendInv, [Next]_vars, calls' = 0
               PROVE  Attended'
    BY DEF AttendInv
  <2>1. calls = 0 /\ ~CallDisconnect
    BY LiveMoves DEF CallDisconnect
  <2> QED BY <2>1, StepAttended DEF AttendInv
<1>3. TypeOK => live \subseteq Lives /\ calls \in Nat
  BY ClientAssumption DEF TypeOK
<1>4. IInv => LiveInv
  BY DEF IInv
<1> QED BY <1>1, <1>2, <1>3, <1>4, KnowsHolds, LifeHolds, InvHolds, TypeCorrect, PTL DEF Spec

(* Until the application calls Disconnect, a published socket is attended,  *)
(* whatever requests, readers and replacing calls of Connect do.            *)
THEOREM AttendedUntilDisconnect == Spec => [](calls = 0 => PublishedIsAttended)
<1>1. AttendInv => (calls = 0 => PublishedIsAttended)
  BY DEF AttendInv, Attended
<1> QED BY <1>1, AttendHolds, PTL

(* So an application that never calls it never leaves a socket unattended.  *)
THEOREM PublishedIsAttendedHolds ==
    ASSUME MaxDisconnects = 0
    PROVE  Spec => []PublishedIsAttended
<1>1. TypeOK => calls = 0
  BY DEF TypeOK
<1> QED BY <1>1, AttendedUntilDisconnect, TypeCorrect, PTL

-----------------------------------------------------------------------------
(* Giving up.  Only a reader that handles a message or counts an attempt    *)
(* touches its own count.                                                   *)
LEMMA RetryMoves ==
    ASSUME retry \in [Lives -> Nat], [Next]_vars, NEW r \in Lives
    PROVE  retry'[r] = retry[r] \/ HandleMessage(r) \/ RetryReconnect(r)
<1> USE DEF clientVars, wire
<1>1. CASE CallConnect \/ CallDisconnect \/ FailReplaced \/ CancelReplaced \/ StartLifecycle
  BY <1>1 DEF CallConnect, CallDisconnect, FailReplaced, CancelReplaced, StartLifecycle
<1>2. CASE ClaimForDisconnect \/ CancelLifecycle \/ FailRaced
  BY <1>2 DEF ClaimForDisconnect, CancelLifecycle, FailRaced
<1>3. ASSUME NEW p \in Connectors, ConnectStep(p) \/ CloseClaimed(p) \/ FinishDisconnect(p)
      PROVE  retry' = retry
  BY <1>3 DEF ConnectStep, BeginConnect, DialSucceeds, DialFails, Adopt, Refuse, PrepareIdentity,
              IdentityFails, ClosePrepared, PublishPrepared, CloseClaimed, FinishDisconnect
<1>4. ASSUME NEW t \in Lives, ReadStep(t), ~HandleMessage(t) PROVE retry' = retry
  BY <1>4 DEF ReadStep, CheckContext, TakeCurrent, LockReadMu, ReadFails, ReadMessage,
              AfterError, InvalidateOld, CloseOld, FailForSocket, StaleCheck, FailForAll
<1>5. ASSUME NEW t \in Lives,
             Backoff(t) \/ AfterConnectError(t) \/ AfterConnected(t) \/ DisconnectConnection(t)
      PROVE  retry' = retry
  BY <1>5 DEF Backoff, AfterConnectError, CheckContext, AfterConnected, DisconnectConnection
<1>6. ASSUME NEW t \in Lives, HandleMessage(t) \/ RetryReconnect(t), t # r
      PROVE  retry'[r] = retry[r]
  BY <1>6 DEF HandleMessage, RetryReconnect
<1>7. ASSUME NEW u \in Requests, RequestStep(u) \/ Timeout(u) PROVE retry' = retry
  BY <1>7 DEF RequestStep, TakeSocket, Register, WriteRequest, WriteFails, CloseWritten,
              WriteFailed, AwaitResponse, Timeout, WriteTimesOut, WaitTimesOut
<1>8. CASE Environment \/ UNCHANGED vars
  BY <1>8 DEF Environment, LoseSocket, Answer, vars
<1> QED BY <1>1, <1>2, <1>3, <1>4, <1>5, <1>6, <1>7, <1>8
        DEF Next, CtlStep, DisconnectStep, ReaderStep, Connectors

(* Since nobody else publishes while its lifecycle is live, the reader that *)
(* lost its socket finds none in its place, whoever invalidated it.         *)
LEMMA ReaderStops ==
    ASSUME ControlType, NEW r \in Lives, r \in live, KnowsConn(r), ReaderStep(r),
           pc'[r] = "done"
    PROVE  RetryReconnect(r) /\ retry' = retry /\ retry[r] >= MaxReconnects
<1> USE DEF ControlType, Procs, Connectors, KnowsConn, At, Goto, GoWith
<1>1. r # Ctl
  BY ClientAssumption
<1>2. CASE ConnectStep(r)
  BY <1>1, <1>2 DEF ConnectStep, BeginConnect, DialSucceeds, DialFails, Adopt, Refuse,
            PrepareIdentity, IdentityFails, ClosePrepared, PublishPrepared, ConnectFailed
<1>3. CASE ReadStep(r)
  BY <1>3 DEF ReadStep, CheckContext, TakeCurrent, LockReadMu, ReadFails, ReadMessage,
            HandleMessage, AfterError, InvalidateOld, CloseOld, FailForSocket, StaleCheck,
            FailForAll
<1>4. CASE Backoff(r) \/ AfterConnectError(r) \/ AfterConnected(r)
  BY <1>4 DEF Backoff, AfterConnectError, AfterConnected, CheckContext
<1>5. ~(DisconnectConnection(r) \/ CloseClaimed(r) \/ FinishDisconnect(r))
  BY DEF DisconnectConnection, CloseClaimed, FinishDisconnect
<1>6. CASE RetryReconnect(r)
  BY <1>6 DEF RetryReconnect
<1> QED BY <1>2, <1>3, <1>4, <1>5, <1>6 DEF ReaderStep

LEMMA StepSpentReconnects ==
    ASSUME ControlType, LiveInv, LifeInv, live \subseteq Lives, retry \in [Lives -> Nat],
           KnowsInv, ReconnectsUntilSpent, [Next]_vars
    PROVE  ReconnectsUntilSpent'
<1> SUFFICES ASSUME NEW r \in live', pc'[r] = "done" PROVE retry'[r] >= MaxReconnects
    BY DEF ReconnectsUntilSpent, At
<1>1. ~StartLifecycle
  BY LifecycleStarts
<1>2. r \in live /\ r \in Lives /\ KnowsConn(r) /\ r \in Connectors /\ r # Ctl
  BY <1>1, LiveMoves, ClientAssumption DEF KnowsInv, CancelReplaced, CancelLifecycle, Connectors
<1>3. CASE ReaderStep(r)
  BY <1>2, <1>3, ReaderStops
<1>4. CASE pc'[r] = pc[r]
  <2>1. retry[r] >= MaxReconnects
    BY <1>2, <1>4 DEF ReconnectsUntilSpent, At
  <2>2. ~(HandleMessage(r) \/ RetryReconnect(r))
    BY <1>4 DEF HandleMessage, RetryReconnect, At
  <2> QED BY <1>2, <2>1, <2>2, RetryMoves
<1> QED BY <1>1, <1>2, <1>3, <1>4, WhoMoves

(* The reader of a live lifecycle gives up only when its reconnections are  *)
(* used up, whoever invalidated its sockets and however often the           *)
(* application connects and disconnects.                                    *)
THEOREM ReconnectsUntilSpentHolds == Spec => []ReconnectsUntilSpent
<1>1. Init => ReconnectsUntilSpent
  BY DEF Init, ReconnectsUntilSpent
<1>2. /\ ControlType /\ LiveInv /\ LifeInv /\ live \subseteq Lives /\ retry \in [Lives -> Nat]
      /\ KnowsInv /\ ReconnectsUntilSpent /\ [Next]_vars
      => ReconnectsUntilSpent'
  BY StepSpentReconnects
<1>3. TypeOK => live \subseteq Lives /\ retry \in [Lives -> Nat]
  BY ClientAssumption DEF TypeOK
<1>4. IInv => LiveInv
  BY DEF IInv
<1> QED BY <1>1, <1>2, <1>3, <1>4, KnowsHolds, LifeHolds, InvHolds, TypeCorrect, PTL DEF Spec

-----------------------------------------------------------------------------
(* Failures.  A socket that was ever published is not prepared again, so    *)
(* one that was invalidated stays unpublished while somebody still fails    *)
(* the requests that used it.                                               *)
Prepares(p) == pc[p] \in {"dialed", "identity", "replace", "cancelOld", "publish"}

Barred(x) == pc[x] \in {"closeOld", "failSocket", "writeClose", "writeFailed"}

Users == Lives \cup Requests
Uses(x) ==
    /\ mine[x] # NoSocket
    /\ \/ x \in Requests \/ Barred(x)
       \/ pc[x] \in {"wantRead", "reading", "gotMessage", "gotError", "handle", "invalidate"}

SpentInv == \A p \in Connectors, x \in Users : Prepares(p) /\ Uses(x) => mine[x] # mine[p]
BarredInv == \A x \in Users : Barred(x) => mine[x] = NoSocket \/ mine[x] # conn
HeldInv == \A u \in Requests : At(u, "register") \/ u \in pending => mine[u] # NoSocket

FailInv == SpentInv /\ BarredInv /\ HeldInv

(* What a step of its own does to the socket a reader or a request uses.    *)
UseMoves(x) ==
    /\ Uses(x)' => (Uses(x) /\ mine'[x] = mine[x]) \/ mine'[x] = conn
    /\ Barred(x)' =>
          /\ mine'[x] = mine[x]
          /\ Barred(x) \/ mine[x] = NoSocket \/ conn' # mine[x]

LEMMA ReaderUses ==
    ASSUME ControlType, NEW r \in Lives, ReaderStep(r)
    PROVE  UseMoves(r)
<1>0. r \in Procs /\ r \notin Requests /\ r # Ctl /\ r \in Connectors
  BY ClientAssumption DEF Procs, Connectors
<1> USE <1>0 DEF ControlType, UseMoves, Uses, Barred, At, Goto, GoWith, slots
<1>1. CASE ConnectStep(r)
  <2>1. pc'[r] \in Handshake \cup {"connectError", "connected"}
    BY <1>1 DEF ConnectStep, BeginConnect, DialSucceeds, DialFails, Adopt, Refuse,
              PrepareIdentity, IdentityFails, ClosePrepared, PublishPrepared, ConnectFailed,
              Handshake
  <2> QED BY <2>1 DEF Handshake
<1>2. CASE CheckContext(r, "top", "take") \/ CheckContext(r, "gotMessage", "handle") \/ AfterError(r)
  BY <1>2 DEF CheckContext, AfterError
<1>3. CASE TakeCurrent(r) \/ LockReadMu(r) \/ ReadFails(r) \/ \E u \in Requests : ReadMessage(r, u)
  BY <1>3 DEF TakeCurrent, LockReadMu, ReadFails, ReadMessage
<1>4. CASE HandleMessage(r) \/ CloseOld(r) \/ FailForSocket(r) \/ StaleCheck(r) \/ FailForAll(r)
  BY <1>4 DEF HandleMessage, CloseOld, FailForSocket, StaleCheck, FailForAll
<1>5. CASE InvalidateOld(r)
  BY <1>5 DEF InvalidateOld, Invalidate
<1>6. CASE RetryReconnect(r) \/ Backoff(r) \/ AfterConnectError(r) \/ AfterConnected(r)
  BY <1>6 DEF RetryReconnect, Backoff, AfterConnectError, AfterConnected, CheckContext
<1>7. CASE DisconnectConnection(r) \/ CloseClaimed(r) \/ FinishDisconnect(r)
  BY <1>7 DEF DisconnectConnection, CloseClaimed, FinishDisconnect
<1> QED BY <1>1, <1>2, <1>3, <1>4, <1>5, <1>6, <1>7 DEF ReaderStep, ReadStep

LEMMA RequestUses ==
    ASSUME ControlType, NEW u \in Requests, RequestStep(u) \/ Timeout(u)
    PROVE  UseMoves(u)
<1>0. u \in Procs /\ u \notin Lives
  BY ClientAssumption DEF Procs
<1> USE <1>0 DEF ControlType, UseMoves, Uses, Barred, At, Goto, GoWith, slots, ReturnRequest
<1>1. CASE TakeSocket(u) \/ Register(u) \/ WriteRequest(u) \/ AwaitResponse(u) \/ WaitTimesOut(u)
  BY <1>1 DEF TakeSocket, Register, WriteRequest, AwaitResponse, WaitTimesOut
<1>2. CASE WriteFails(u)
  BY <1>2 DEF WriteFails, Invalidate
<1>3. CASE WriteTimesOut(u)
  BY <1>3 DEF WriteTimesOut, Invalidate
<1>4. CASE CloseWritten(u) \/ WriteFailed(u)
  BY <1>4 DEF CloseWritten, WriteFailed
<1> QED BY <1>1, <1>2, <1>3, <1>4 DEF RequestStep, Timeout

LEMMA UserMoves ==
    ASSUME ControlType, LiveInv, LifeInv, [Next]_vars, NEW x \in Users
    PROVE  UseMoves(x) \/ (pc'[x] = pc[x] /\ mine'[x] = mine[x])
<1>0. /\ Ctl \in Procs /\ Lives \subseteq Procs /\ Requests \subseteq Procs /\ x \in Procs /\ x # Ctl
  BY ClientAssumption DEF Procs, Connectors, Users
<1>1. CASE CallConnect \/ CallDisconnect \/ CtlStep
  <2>1. CASE StartLifecycle
    BY <1>0, <2>1 DEF StartLifecycle, ControlType, UseMoves, Uses, Barred, Users, Lives
  <2> QED BY <1>0, <1>1, <2>1, StepMoves DEF OnlyMoves, CtlStep, DisconnectStep, Connectors
<1>2. ASSUME NEW r \in Lives, ReaderStep(r)
      PROVE  UseMoves(x) \/ (pc'[x] = pc[x] /\ mine'[x] = mine[x])
  BY <1>0, <1>2, ReaderUses, StepMoves DEF OnlyMoves
<1>3. ASSUME NEW u \in Requests, RequestStep(u) \/ Timeout(u)
      PROVE  UseMoves(x) \/ (pc'[x] = pc[x] /\ mine'[x] = mine[x])
  BY <1>0, <1>3, RequestUses, StepMoves DEF OnlyMoves
<1>4. CASE Environment \/ UNCHANGED vars
  BY <1>4 DEF Environment, LoseSocket, Answer, vars
<1> QED BY <1>1, <1>2, <1>3, <1>4 DEF Next

(* A connector that prepares a socket had it already, or dialed it now.     *)
LEMMA PrepareMoves ==
    ASSUME ControlType, [Next]_vars, NEW p \in Connectors, Prepares(p)'
    PROVE  \/ Prepares(p) /\ mine'[p] = mine[p]
           \/ mine'[p] \in Sockets /\ sock[mine'[p]] = "unused" /\ pc[p] = "dial"
<1>0. p \in Procs /\ (p # Ctl => p \in Lives) /\ Ctl \notin Lives
  BY ClientAssumption DEF Procs, Connectors
<1> USE <1>0 DEF ControlType, Prepares, At, Goto, GoWith
<1>1. CASE pc'[p] = pc[p] /\ mine'[p] = mine[p]
  BY <1>1
<1>2. CASE ConnectStep(p)
  BY <1>2 DEF ConnectStep, BeginConnect, DialSucceeds, Dialed, DialFails, Adopt, Refuse,
              PrepareIdentity, IdentityFails, ClosePrepared, PublishPrepared, ConnectFailed
<1>3. CASE StartLifecycle
  BY <1>3 DEF StartLifecycle
<1>4. CASE p = Ctl /\ (CallConnect \/ CallDisconnect \/ FailReplaced \/ CancelReplaced)
  BY <1>4 DEF CallConnect, CallDisconnect, FailReplaced, CancelReplaced
<1>5. CASE p = Ctl /\ (ClaimForDisconnect \/ CancelLifecycle \/ FailRaced)
  BY <1>5 DEF ClaimForDisconnect, CancelLifecycle, FailRaced
<1>6. CASE CloseClaimed(p) \/ FinishDisconnect(p)
  BY <1>6 DEF CloseClaimed, FinishDisconnect
<1>7. CASE p \in Lives /\ ReadStep(p)
  BY <1>7 DEF ReadStep, CheckContext, TakeCurrent, LockReadMu, ReadFails, ReadMessage,
              HandleMessage, AfterError, InvalidateOld, CloseOld, FailForSocket, StaleCheck,
              FailForAll
<1>8. CASE \/ RetryReconnect(p) \/ Backoff(p) \/ AfterConnectError(p) \/ AfterConnected(p)
           \/ DisconnectConnection(p)
  BY <1>8 DEF RetryReconnect, Backoff, AfterConnectError, CheckContext, AfterConnected,
              DisconnectConnection
<1> QED BY <1>1, <1>2, <1>3, <1>4, <1>5, <1>6, <1>7, <1>8, WhoMoves
        DEF CtlStep, DisconnectStep, ReaderStep

LEMMA StepSpent ==
    ASSUME ControlType, LiveInv, LifeInv, DialedInv, HandshakeInv, SpentInv, [Next]_vars
    PROVE  SpentInv'
<1>0. Connectors \subseteq Procs /\ Users \subseteq Procs /\ Connectors' = Connectors /\ Users' = Users
  BY DEF Procs, Connectors, Users
<1> SUFFICES ASSUME NEW p \in Connectors, NEW x \in Users, Prepares(p)', Uses(x)'
             PROVE  mine'[x] # mine'[p]
  BY <1>0 DEF SpentInv
<1>1. (Uses(x) /\ mine'[x] = mine[x]) \/ mine'[x] = conn
  <2>1. CASE pc'[x] = pc[x] /\ mine'[x] = mine[x]
    BY <2>1 DEF Uses, Barred
  <2> QED BY <2>1, UserMoves DEF UseMoves
<1>2. mine'[x] # NoSocket
  BY DEF Uses
<1>3. CASE Prepares(p) /\ mine'[p] = mine[p]
  <2>1. conn = NoSocket
    BY <1>3 DEF HandshakeInv, Prepares, Handshake
  <2> QED BY <1>1, <1>2, <1>3, <2>1 DEF SpentInv
<1>4. CASE mine'[p] \in Sockets /\ sock[mine'[p]] = "unused" /\ pc[p] = "dial"
  <2>1. conn = NoSocket
    BY <1>4 DEF HandshakeInv, Handshake
  <2>2. mine'[x] = mine[x] /\ x \in Procs
    BY <1>0, <1>1, <1>2, <2>1
  <2> QED BY <1>2, <1>4, <2>2 DEF DialedInv
<1> QED BY <1>3, <1>4, PrepareMoves

LEMMA StepBarred ==
    ASSUME ControlType, LiveInv, LifeInv, SpentInv, BarredInv, [Next]_vars
    PROVE  BarredInv'
<1> SUFFICES ASSUME NEW x \in Users, Barred(x)'
             PROVE  mine'[x] = NoSocket \/ mine'[x] # conn'
  BY DEF BarredInv, Users
<1>1. \/ mine'[x] = mine[x] /\ Barred(x)
      \/ mine'[x] = mine[x] /\ (mine[x] = NoSocket \/ conn' # mine[x])
  <2>1. CASE pc'[x] = pc[x] /\ mine'[x] = mine[x]
    BY <2>1 DEF Barred
  <2> QED BY <2>1, UserMoves DEF UseMoves
<1>2. CASE mine'[x] = mine[x] /\ Barred(x)
  <2>1. mine[x] = NoSocket \/ mine[x] # conn
    BY <1>2 DEF BarredInv
  <2>2. mine[x] # NoSocket => Uses(x)
    BY <1>2 DEF Uses
  <2>3. ASSUME NEW p \in Connectors, Publishes(p), mine[x] # NoSocket PROVE mine[x] # conn'
    <3>1. Prepares(p) /\ conn' = mine[p]
      BY <2>3 DEF Publishes, Prepares, At, Publish
    <3> QED BY <2>2, <2>3, <3>1 DEF SpentInv
  <2> QED BY <1>2, <2>1, <2>3, ConnMoves
<1> QED BY <1>1, <1>2

LEMMA StepHeld ==
    ASSUME ControlType, LiveInv, LifeInv, HeldInv, [Next]_vars
    PROVE  HeldInv'
<1> USE DEF At, clientVars, wire, requestVars, FailPending
<1>1. ASSUME NEW u \in Requests, mine'[u] = mine[u], pending' \subseteq pending, pc'[u] = pc[u]
      PROVE  (At(u, "register") \/ u \in pending => mine[u] # NoSocket)'
  BY <1>1 DEF HeldInv
<1>2. ASSUME NEW u \in Requests, RequestStep(u) \/ Timeout(u)
      PROVE  /\ pending' \subseteq pending \cup {u}
             /\ (At(u, "register") \/ u \in pending => mine[u] # NoSocket)'
  <2>0. u \in Procs
    BY DEF Procs
  <2>1. CASE TakeSocket(u)
    BY <2>0, <2>1 DEF TakeSocket, ReturnRequest, Goto, GoWith, ControlType, HeldInv
  <2>2. CASE Register(u) \/ WriteRequest(u) \/ AwaitResponse(u) \/ WaitTimesOut(u)
    BY <2>0, <2>2 DEF Register, WriteRequest, AwaitResponse, WaitTimesOut, ReturnRequest, Goto,
                      ControlType, HeldInv
  <2>3. CASE WriteFails(u) \/ WriteTimesOut(u) \/ CloseWritten(u) \/ WriteFailed(u)
    BY <2>0, <2>3 DEF WriteFails, WriteTimesOut, CloseWritten, WriteFailed, ReturnRequest, Goto,
                      ControlType, HeldInv
  <2> QED BY <1>2, <2>1, <2>2, <2>3 DEF RequestStep, Timeout
<1>3. ASSUME NEW u \in Requests, RequestStep(u) \/ Timeout(u) PROVE HeldInv'
  <2>1. \A t \in Requests \ {u} : mine'[t] = mine[t] /\ pc'[t] = pc[t]
    BY <1>3, StepMoves DEF OnlyMoves, Procs
  <2> QED BY <1>2, <1>3, <2>1 DEF HeldInv
<1>4. CASE ~\E u \in Requests : RequestStep(u) \/ Timeout(u)
  <2>1. pending' \subseteq pending
    <3>1. CASE CallConnect \/ CallDisconnect \/ FailReplaced \/ CancelReplaced \/ StartLifecycle
      BY <3>1 DEF CallConnect, CallDisconnect, FailReplaced, CancelReplaced, StartLifecycle
    <3>2. CASE DisconnectStep
      BY <3>2 DEF DisconnectStep, ClaimForDisconnect, CancelLifecycle, FailRaced, CloseClaimed,
                  FinishDisconnect
    <3>3. ASSUME NEW p \in Connectors, ConnectStep(p) PROVE pending' \subseteq pending
      BY <3>3 DEF ConnectStep, BeginConnect, DialSucceeds, DialFails, Adopt, Refuse,
                  PrepareIdentity, IdentityFails, ClosePrepared, PublishPrepared
    <3>4. ASSUME NEW r \in Lives, ReaderStep(r) PROVE pending' \subseteq pending
      BY <3>3, <3>4
      DEF ReaderStep, ReadStep, CheckContext, TakeCurrent, LockReadMu, ReadFails, ReadMessage,
          HandleMessage, AfterError, InvalidateOld, CloseOld, FailForSocket, StaleCheck,
          FailForAll, RetryReconnect, Backoff, AfterConnectError, AfterConnected,
          DisconnectConnection, CloseClaimed, FinishDisconnect, Connectors
    <3>5. CASE Environment \/ UNCHANGED vars
      BY <3>5 DEF Environment, LoseSocket, Answer, vars
    <3> QED BY <1>4, <3>1, <3>2, <3>3, <3>4, <3>5 DEF Next, CtlStep, Connectors
  <2>2. ASSUME NEW u \in Requests PROVE mine'[u] = mine[u] /\ pc'[u] = pc[u]
    <3>0. u \in Procs /\ u \notin Connectors /\ Ctl \in Procs /\ u \notin Lives /\ Lives \subseteq Procs
      BY ClientAssumption DEF Procs, Connectors
    <3>1. CASE StartLifecycle
      <4>1. PICK r \in Lives : r = life + 1
        BY <3>1, ClientAssumption DEF StartLifecycle, LifeInv, Lives, At
      <4>2. /\ pc' = [pc EXCEPT ![Ctl] = "idle", ![r] = "top"]
            /\ mine' = [mine EXCEPT ![Ctl] = NoSocket]
        BY <3>1, <4>1 DEF StartLifecycle
      <4>3. u # Ctl /\ u # r
        BY <3>0 DEF Connectors
      <4> QED BY <3>0, <4>2, <4>3 DEF ControlType
    <3>2. CASE Environment \/ UNCHANGED vars
      BY <3>2 DEF Environment, LoseSocket, Answer, vars
    <3>3. CASE (CallConnect \/ CallDisconnect \/ CtlStep) /\ ~StartLifecycle
      BY <3>0, <3>3, StepMoves DEF OnlyMoves, CtlStep, DisconnectStep, Connectors
    <3>4. ASSUME NEW r \in Lives, ReaderStep(r) PROVE mine'[u] = mine[u] /\ pc'[u] = pc[u]
      BY <3>0, <3>4, StepMoves DEF OnlyMoves
    <3> QED BY <1>4, <3>1, <3>2, <3>3, <3>4 DEF Next
  <2> QED BY <1>1, <2>1, <2>2 DEF HeldInv
<1> QED BY <1>3, <1>4

(* Who fails a request as disconnected, and that it was registered.         *)
Fails(u) == out[u] = "none" /\ out'[u] = "disconnected"

LEMMA FailMoves ==
    ASSUME DataType, [Next]_vars, NEW u \in Requests, Fails(u)
    PROVE  /\ u \in pending
           /\ \/ CallDisconnect \/ FailReplaced \/ FailRaced
              \/ \E r \in Lives : FailForAll(r) \/ (FailForSocket(r) /\ mine[u] = mine[r])
              \/ \E t \in Requests : At(t, "writeFailed") /\ mine[u] = mine[t]
<1> USE DEF Fails, DataType, clientVars, requestVars
<1>1. CASE CallDisconnect \/ FailReplaced \/ FailRaced
  BY <1>1 DEF CallDisconnect, FailReplaced, FailRaced, FailPending
<1>2. CASE CallConnect \/ CancelReplaced \/ StartLifecycle \/ ClaimForDisconnect \/ CancelLifecycle
  BY <1>2 DEF CallConnect, CancelReplaced, StartLifecycle, ClaimForDisconnect, CancelLifecycle
<1>3. ASSUME NEW p \in Connectors, ConnectStep(p) \/ CloseClaimed(p) \/ FinishDisconnect(p)
      PROVE  FALSE
  BY <1>3 DEF ConnectStep, BeginConnect, DialSucceeds, DialFails, Adopt, Refuse, PrepareIdentity,
              IdentityFails, ClosePrepared, PublishPrepared, CloseClaimed, FinishDisconnect
<1>4. ASSUME NEW r \in Lives, FailForAll(r) \/ FailForSocket(r)
      PROVE  u \in pending /\ (FailForSocket(r) => mine[u] = mine[r])
  BY <1>4 DEF FailForAll, FailForSocket, FailPending, OnSocket, At
<1>5. ASSUME NEW r \in Lives, ReaderStep(r), ~FailForAll(r), ~FailForSocket(r) PROVE FALSE
  <2>1. CASE HandleMessage(r)
    BY <2>1 DEF HandleMessage
  <2> QED BY <1>3, <1>5, <2>1
          DEF ReaderStep, ReadStep, CheckContext, TakeCurrent, LockReadMu, ReadFails, ReadMessage,
              AfterError, InvalidateOld, CloseOld, StaleCheck, RetryReconnect, Backoff,
              AfterConnectError, AfterConnected, DisconnectConnection, Connectors
<1>6. ASSUME NEW t \in Requests, RequestStep(t) \/ Timeout(t)
      PROVE  u \in pending /\ At(t, "writeFailed") /\ mine[u] = mine[t]
  <2>1. ASSUME NEW verdict \in {"timeout", "notConnected"}, ReturnRequest(t, verdict) PROVE FALSE
    BY <2>1 DEF ReturnRequest
  <2>2. CASE AwaitResponse(t)
    BY <2>2 DEF AwaitResponse, ReturnRequest
  <2>3. CASE WriteFailed(t)
    BY <2>1, <2>3 DEF WriteFailed, FailPending, OnSocket, At
  <2> QED BY <1>6, <2>1, <2>2, <2>3
          DEF RequestStep, TakeSocket, Register, WriteRequest, WriteFails, CloseWritten, Timeout,
              WriteTimesOut, WaitTimesOut
<1>7. CASE Environment \/ UNCHANGED vars
  BY <1>7 DEF Environment, LoseSocket, Answer, vars
<1>8. CASE CtlStep
  BY <1>1, <1>2, <1>3, <1>8 DEF CtlStep, DisconnectStep, Connectors
<1>9. ASSUME NEW r \in Lives, ReaderStep(r)
      PROVE  u \in pending /\ (FailForAll(r) \/ (FailForSocket(r) /\ mine[u] = mine[r]))
  BY <1>4, <1>5, <1>9
<1>10. CASE CallConnect \/ CallDisconnect
  BY <1>1, <1>2, <1>10
<1> HIDE DEF Fails, DataType
<1> QED BY <1>6, <1>7, <1>8, <1>9, <1>10 DEF Next

(* A reader whose lifecycle is over found no socket before that, and sweeps *)
(* every request although a newer lifecycle has published one since.        *)
StaleSweep == \E r \in Lives \ live : At(r, "failAll") /\ conn # NoSocket

Deserved(u) ==
    \/ mine[u] # conn \/ Gone(mine[u])
    \/ calls' # calls \/ At(Ctl, "failAgain")

LEMMA FailuresAreDeserved ==
    ASSUME DataType, HandshakeInv, KnowsInv, BarredInv, HeldInv, [Next]_vars, ~StaleSweep,
           NEW u \in Requests, Fails(u)
    PROVE  Deserved(u)
<1>1. mine[u] # NoSocket
  BY FailMoves DEF HeldInv
<1>2. CASE CallDisconnect
  BY <1>2 DEF CallDisconnect, Deserved, DataType
<1>3. CASE FailReplaced
  <2>1. conn = NoSocket
    BY <1>3 DEF FailReplaced, HandshakeInv, Handshake, At, Connectors
  <2> QED BY <1>1, <2>1 DEF Deserved
<1>4. CASE FailRaced
  BY <1>4 DEF FailRaced, Deserved
<1>5. ASSUME NEW r \in Lives, FailForAll(r) PROVE Deserved(u)
  <2>1. conn = NoSocket
    BY <1>5 DEF FailForAll, StaleSweep, KnowsInv, KnowsConn, At
  <2> QED BY <1>1, <2>1 DEF Deserved
<1>6. ASSUME NEW x \in Users, Barred(x), mine[u] = mine[x] PROVE Deserved(u)
  BY <1>1, <1>6 DEF BarredInv, Deserved
<1>7. ASSUME NEW r \in Lives, FailForSocket(r), mine[u] = mine[r] PROVE Deserved(u)
  BY <1>6, <1>7 DEF FailForSocket, At, Barred, Users
<1>8. ASSUME NEW t \in Requests, At(t, "writeFailed"), mine[u] = mine[t] PROVE Deserved(u)
  BY <1>6, <1>8 DEF At, Barred, Users
<1> QED BY <1>2, <1>3, <1>4, <1>5, <1>7, <1>8, FailMoves

LEMMA FailInvHolds == Spec => []FailInv
<1>1. Init => FailInv
  BY DEF Init, SlotsInit, FailInv, SpentInv, BarredInv, HeldInv, Uses, Barred, Users, At, Procs
<1>2. /\ ControlType /\ LiveInv /\ LifeInv /\ DialedInv /\ HandshakeInv /\ FailInv /\ [Next]_vars
      => FailInv'
  BY StepSpent, StepBarred, StepHeld DEF FailInv
<1>3. IInv => LiveInv /\ DialedInv
  BY DEF IInv
<1> QED BY <1>1, <1>2, <1>3, KnowsHolds, LifeHolds, InvHolds, PTL DEF Spec

(* A request is failed as disconnected only when its own socket is lost,    *)
(* closed or unpublished, or while the application disconnects: the sweep   *)
(* of a reader that outlived its lifecycle is the only exception, whatever  *)
(* calls, readers and requests interleave.                                  *)
THEOREM OnlyStaleSweepsAreSpurious == Spec /\ []~StaleSweep => NoSpuriousFailure
<1>1. DataType /\ HandshakeInv /\ KnowsInv /\ FailInv /\ [Next]_vars /\ ~StaleSweep
      => [\A q \in Requests : out[q] = "none" /\ out'[q] = "disconnected" =>
             \/ mine[q] # conn \/ Gone(mine[q])
             \/ calls' # calls \/ At(Ctl, "failAgain")]_vars
  BY FailuresAreDeserved DEF FailInv, Fails, Deserved
<1>2. TypeOK => DataType
  BY DEF TypeOK, DataType
<1> QED BY <1>1, <1>2, TypeCorrect, KnowsHolds, FailInvHolds, PTL DEF Spec, NoSpuriousFailure

(* A client with one lifecycle, never disconnected: each reader is live.    *)
SingleInv == \A r \in Lives : pc[r] # "none" => r \in live

LEMMA StepSingle ==
    ASSUME MaxLife <= 1, ControlType, LiveInv, LifeInv, live \subseteq Lives, Attended, SingleInv,
           [Next]_vars
    PROVE  SingleInv'
<1>0. Lives \subseteq Connectors /\ Ctl \notin Lives
  BY ClientAssumption DEF Connectors
<1>1. CASE StartLifecycle
  <2>1. PICK r \in Lives : pc'[r] = "top" /\ live' = {r}
    BY <1>1, LifecycleStarts
  <2>2. \A x \in Lives : x = r
    BY ClientAssumption DEF Lives
  <2> QED BY <2>1, <2>2 DEF SingleInv
<1>2. ASSUME ~StartLifecycle, NEW r \in Lives, pc'[r] # "none" PROVE r \in live'
  <2>1. live' = live
    <3>1. CASE CancelReplaced
      <4>1. life = 0
        BY <3>1, ClientAssumption DEF CancelReplaced, At, LifeInv, Handshake
      <4> QED BY <3>1, <4>1 DEF CancelReplaced, Lives
    <3>2. ~CancelLifecycle
      BY DEF CancelLifecycle, At, Attended, Handshake
    <3> QED BY <1>2, <3>1, <3>2, LiveMoves
  <2>2. pc[r] # "none"
    <3>1. CASE pc'[r] = pc[r]
      BY <1>2, <3>1
    <3>2. CASE ReaderStep(r)
      BY <3>2
      DEF ReaderStep, ReadStep, CheckContext, TakeCurrent, LockReadMu, ReadFails, ReadMessage,
          HandleMessage, AfterError, InvalidateOld, CloseOld, FailForSocket, StaleCheck,
          FailForAll, RetryReconnect, Backoff, AfterConnectError, AfterConnected,
          DisconnectConnection, ConnectStep, BeginConnect, DialSucceeds, DialFails, Adopt,
          Refuse, PrepareIdentity, IdentityFails, ClosePrepared, PublishPrepared, CloseClaimed,
          FinishDisconnect, At
    <3> QED BY <1>0, <1>2, <3>1, <3>2, WhoMoves
  <2> QED BY <2>1, <2>2 DEF SingleInv
<1> QED BY <1>1, <1>2 DEF SingleInv

(* In particular there is no exception in a client that connects once and   *)
(* never disconnects, however often it reconnects.                          *)
THEOREM NoSpuriousFailureHolds ==
    ASSUME MaxLife <= 1, MaxDisconnects = 0
    PROVE  Spec => NoSpuriousFailure
<1>1. Init => SingleInv
  BY ClientAssumption DEF Init, SingleInv, Procs, Connectors
<1>2. /\ ControlType /\ LiveInv /\ LifeInv /\ live \subseteq Lives /\ Attended /\ SingleInv
      /\ [Next]_vars
      => SingleInv'
  BY StepSingle
<1>3. TypeOK /\ AttendInv => Attended /\ live \subseteq Lives
  BY DEF TypeOK, AttendInv
<1>4. IInv => LiveInv
  BY DEF IInv
<1>5. SingleInv => ~StaleSweep
  BY DEF SingleInv, StaleSweep, At
<1> QED BY <1>1, <1>2, <1>3, <1>4, <1>5, OnlyStaleSweepsAreSpurious, AttendHolds, LifeHolds,
           InvHolds, TypeCorrect, PTL DEF Spec
=============================================================================
