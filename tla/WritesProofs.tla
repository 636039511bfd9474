---------------------------- MODULE WritesProofs ----------------------------
(* Proofs about Writes, for any number of writers, other callers and        *)
(* sockets.                                                                 *)
EXTENDS Writes, ConnectionProofs

(* The phases in which a writer holds the token, and in which its watcher   *)
(* may run.                                                                 *)
Holding == {"deadline", "write", "publish", "join", "check", "clear", "release"}
Watched == {"write", "publish", "join"}

(* The token has one holder, which knows its socket; the deadline is its    *)
(* own.                                                                     *)
TokenInv ==
    /\ \A w \in Writers : phase[w] \in Holding => token = w
    /\ \A w \in Writers : ~In(w, "none") => target[w] \in Sockets
    /\ DeadlineIsOwn

(* A watcher runs only while its write does, and closes only what it claimed *)
(* before the completion was published.                                     *)
WatcherInv ==
    \A w \in Bounded :
        /\ Watching(w) => phase[w] \in Watched
        /\ pc[Watcher[w]] = "closing" => writeState[w] = "canceled"

-----------------------------------------------------------------------------
(* Every step of the writers, their watchers and the others is a step of    *)
(* some caller of Connection, or none of its steps.                         *)
LEMMA StepImplements == [WritesNext]_writeVars => [Next]_vars
<1> SUFFICES ASSUME [WritesNext]_writeVars PROVE [Next]_vars
    OBVIOUS
<1> USE WriteAssumption
<1>1. ASSUME NEW w \in Writers, BeginWrite(w) \/ WriterStep(w) PROVE [Next]_vars
  <2>1. Writers \subseteq Callers
    OBVIOUS
  <2>2. CASE BeginWrite(w)
    BY <2>1, <2>2 DEF BeginWrite, Next, Step
  <2>3. CASE GiveUp(w)
    BY <2>1, <2>3 DEF GiveUp, Next, Step
  <2>4. CASE SetDeadline(w)
    <3>1. w \in Bounded => Watcher[w] \in Callers
      OBVIOUS
    <3> QED BY <2>4, <3>1 DEF SetDeadline, Quiet, Next
  <2>5. CASE SetDeadlineFails(w) \/ ClearFails(w)
    BY <2>1, <2>5 DEF SetDeadlineFails, ClearFails, Next, Step
  <2>6. CASE Check(w)
    BY <2>1, <2>6 DEF Check, Quiet, Next, Step
  <2>7. CASE WriterCloses(w)
    BY <2>1, <2>7 DEF WriterCloses, Next, Step
  <2>8. CASE Release(w)
    BY <2>1, <2>8 DEF Release, Quiet, Next, Step
  <2>9. CASE Acquire(w) \/ Write(w) \/ PublishCompletion(w) \/ Join(w) \/ Clear(w)
    BY <2>9 DEF Acquire, Write, PublishCompletion, Join, Clear, Quiet
  <2> QED BY <1>1, <2>2, <2>3, <2>4, <2>5, <2>6, <2>7, <2>8, <2>9 DEF WriterStep
<1>2. ASSUME NEW w \in Bounded, EndContext(w) \/ WatcherStep(w) PROVE [Next]_vars
  <2>1. Watcher[w] \in Callers
    OBVIOUS
  <2>2. CASE EndContext(w) \/ WatcherClaims(w)
    BY <2>2 DEF EndContext, WatcherClaims, Quiet
  <2>3. CASE WatcherInvalidates(w)
    BY <2>1, <2>3 DEF WatcherInvalidates, Next, Step
  <2>4. CASE WatcherCloses(w)
    BY <2>1, <2>4 DEF WatcherCloses, Next, Step
  <2>5. CASE WatcherEnds(w)
    BY <2>1, <2>5 DEF WatcherEnds, Next, Step
  <2> QED BY <1>2, <2>2, <2>3, <2>4, <2>5 DEF WatcherStep
<1>3. ASSUME NEW c \in Others, OtherStep(c) PROVE [Next]_vars
  BY <1>3 DEF OtherStep, Others, Next
<1>4. CASE UNCHANGED writeVars
  BY <1>4 DEF writeVars
<1> QED BY <1>1, <1>2, <1>3, <1>4 DEF WritesNext

(* Writers and watchers are callers of Connection like any others, so every *)
(* theorem about Connection holds while they write.                         *)
THEOREM WritesImplementConnection == WritesSpec => ImplementsConnection
<1>1. WritesInit => Init
  BY DEF WritesInit
<1> QED BY <1>1, StepImplements, PTL DEF WritesSpec, Spec, ImplementsConnection

(* No socket leaks, whatever the writers and their watchers do to it.       *)
THEOREM WritesLeakNothing == WritesSpec => []NoLeak
BY WritesImplementConnection, NoLeakHolds, PTL DEF ImplementsConnection

(* A write never brings back a socket that was withdrawn or replaced.       *)
THEOREM WritesImplementLink == WritesSpec => ImplementsLink
BY WritesImplementConnection, ConnectionImplementsLink, PTL DEF ImplementsConnection

(* A socket that is shown was not closed by a writer or its watcher either: *)
(* they take it out of its slot first.                                      *)
THEOREM WritesShowOpen == WritesSpec => []ShownIsOpen
BY WritesImplementConnection, ShownIsOpenHolds, PTL DEF ImplementsConnection

(* And a writer, or its watcher, withdraws no socket but its own.           *)
THEOREM WritesWithdrawOwn == WritesSpec => WithdrawnByItsUsers
BY WritesImplementConnection, WithdrawnByItsUsersHolds, PTL DEF ImplementsConnection

-----------------------------------------------------------------------------
LEMMA InitWrites == WritesInit => WritesTypeOK /\ TokenInv /\ WatcherInv
BY InitInv, WriteAssumption
DEF WritesInit, Init, IInv, WritesTypeOK, TokenInv, WatcherInv, Watching, In, DeadlineIsOwn,
    Phases, Holding

LEMMA StepWritesType == WritesTypeOK /\ [WritesNext]_writeVars => WritesTypeOK'
<1> SUFFICES ASSUME WritesTypeOK, [WritesNext]_writeVars PROVE WritesTypeOK'
    OBVIOUS
<1>0. TypeOK'
  BY StepImplements, StepType DEF WritesTypeOK
<1> USE <1>0, WriteAssumption
    DEF WritesTypeOK, Phases, In, Enter, Locals
<1>1. ASSUME NEW w \in Writers, BeginWrite(w) PROVE WritesTypeOK'
  BY <1>1 DEF BeginWrite, TakeCurrent, TypeOK, SlotsType
<1>2. ASSUME NEW w \in Writers, GiveUp(w) \/ Acquire(w) \/ Release(w) PROVE WritesTypeOK'
  BY <1>2 DEF GiveUp, Acquire, Release
<1>3. ASSUME NEW w \in Writers, SetDeadline(w) \/ SetDeadlineFails(w) PROVE WritesTypeOK'
  BY <1>3 DEF SetDeadline, SetDeadlineFails
<1>4. ASSUME NEW w \in Writers, Write(w) \/ Join(w) \/ Check(w) \/ WriterCloses(w)
      PROVE  WritesTypeOK'
  BY <1>4 DEF Write, Join, Check, WriterCloses, writes
<1>5. ASSUME NEW w \in Writers, PublishCompletion(w) PROVE WritesTypeOK'
  BY <1>5 DEF PublishCompletion
<1>6. ASSUME NEW w \in Writers, Clear(w) \/ ClearFails(w) PROVE WritesTypeOK'
  BY <1>6 DEF Clear, ClearFails
<1>7. ASSUME NEW w \in Bounded, EndContext(w) \/ WatcherStep(w) PROVE WritesTypeOK'
  BY <1>7 DEF EndContext, WatcherStep, WatcherClaims, WatcherInvalidates, WatcherCloses,
      WatcherEnds, writes
<1>8. ASSUME NEW c \in Others, OtherStep(c) PROVE WritesTypeOK'
  BY <1>8 DEF OtherStep, writes
<1>9. CASE UNCHANGED writeVars
  BY <1>9 DEF writeVars, writes
<1> QED BY <1>1, <1>2, <1>3, <1>4, <1>5, <1>6, <1>7, <1>8, <1>9 DEF WritesNext, WriterStep

LEMMA StepToken == WritesTypeOK /\ TokenInv /\ [WritesNext]_writeVars => TokenInv'
<1> SUFFICES ASSUME WritesTypeOK, TokenInv, [WritesNext]_writeVars PROVE TokenInv'
    OBVIOUS
<1> USE WriteAssumption, SocketAssumption
    DEF WritesTypeOK, TokenInv, DeadlineIsOwn, Phases, Holding, In, Enter, Locals
<1>1. ASSUME NEW w \in Writers, BeginWrite(w) PROVE TokenInv'
  BY <1>1 DEF BeginWrite, TakeCurrent, TypeOK, SlotsType
<1>2. ASSUME NEW w \in Writers, GiveUp(w) \/ Acquire(w) \/ Release(w) PROVE TokenInv'
  BY <1>2 DEF GiveUp, Acquire, Release
<1>3. ASSUME NEW w \in Writers, SetDeadline(w) \/ SetDeadlineFails(w) PROVE TokenInv'
  BY <1>3 DEF SetDeadline, SetDeadlineFails
<1>4. ASSUME NEW w \in Writers, Write(w) \/ Join(w) \/ Check(w) \/ WriterCloses(w)
      PROVE  TokenInv'
  BY <1>4 DEF Write, Join, Check, WriterCloses, writes
<1>5. ASSUME NEW w \in Writers, PublishCompletion(w) PROVE TokenInv'
  BY <1>5 DEF PublishCompletion
<1>6. ASSUME NEW w \in Writers, Clear(w) \/ ClearFails(w) PROVE TokenInv'
  BY <1>6 DEF Clear, ClearFails
<1>7. ASSUME NEW w \in Bounded, EndContext(w) \/ WatcherStep(w) PROVE TokenInv'
  BY <1>7 DEF EndContext, WatcherStep, WatcherClaims, WatcherInvalidates, WatcherCloses,
      WatcherEnds, writes
<1>8. ASSUME NEW c \in Others, OtherStep(c) PROVE TokenInv'
  BY <1>8 DEF OtherStep, writes
<1>9. CASE UNCHANGED writeVars
  BY <1>9 DEF writeVars, writes
<1> QED BY <1>1, <1>2, <1>3, <1>4, <1>5, <1>6, <1>7, <1>8, <1>9 DEF WritesNext, WriterStep

(* What a step of Connection by one caller does to the others' places.      *)
LEMMA OnlyItself ==
    ASSUME NEW c \in Callers, NEW d \in Callers \ {c}, TypeOK,
           Step(c) \/ Share(c) \/ UNCHANGED vars
    PROVE  pc'[d] = pc[d]
<1> USE DEF TypeOK, At, GoWith, Goto, Return
<1>1. CASE \E s \in Sockets : DialSucceeds(c, s)
  BY <1>1 DEF DialSucceeds
<1>2. CASE BeginConnect(c) \/ DialFails(c) \/ Adopt(c) \/ Refuse(c) \/ PublishPrepared(c)
  BY <1>2 DEF BeginConnect, DialFails, Adopt, Refuse, PublishPrepared
<1>3. CASE ClaimForDisconnect(c) \/ CloseClaimed(c) \/ FinishDisconnect(c)
  BY <1>3 DEF ClaimForDisconnect, CloseClaimed, FinishDisconnect
<1>4. CASE TakeCurrent(c) \/ Share(c) \/ UseEnds(c) \/ InvalidateFailed(c) \/ CloseFailed(c)
  BY <1>4 DEF TakeCurrent, Share, UseEnds, InvalidateFailed, CloseFailed
<1>5. CASE UNCHANGED vars
  BY <1>5 DEF vars
<1> QED BY <1>1, <1>2, <1>3, <1>4, <1>5 DEF Step

LEMMA StepWatcher == WritesTypeOK /\ WatcherInv /\ [WritesNext]_writeVars => WatcherInv'
<1> SUFFICES ASSUME WritesTypeOK, WatcherInv, [WritesNext]_writeVars,
                    NEW x \in Bounded
             PROVE  /\ Watching(x)' => phase'[x] \in Watched
                    /\ pc'[Watcher[x]] = "closing" => writeState'[x] = "canceled"
    BY DEF WatcherInv
<1>0. /\ Watching(x) => phase[x] \in Watched
      /\ pc[Watcher[x]] = "closing" => writeState[x] = "canceled"
      /\ x \in Writers /\ Watcher[x] \in Callers \ Writers
  BY WriteAssumption DEF WatcherInv
<1>t. TypeOK
  BY DEF WritesTypeOK
<1> DEFINE v == Watcher[x]
<1> DEFINE Kept == /\ Watching(x)' => phase'[x] \in Watched
                   /\ pc'[v] = "closing" => writeState'[x] = "canceled"
<1> USE DEF Watching, Watched, In, Enter, Locals
<1>1. ASSUME NEW w \in Writers, BeginWrite(w) \/ WriterStep(w) PROVE Kept
  <2>0. w \in Callers /\ v # w
    BY <1>0, WriteAssumption
  <2>1. CASE SetDeadline(w) /\ w = x
    BY <1>0, <1>t, <2>0, <2>1, WriteAssumption
    DEF SetDeadline, Share, GoWith, At, WritesTypeOK, TypeOK
  <2>2. CASE SetDeadline(w) /\ w # x
    <3>1. w \in Bounded => Watcher[w] # v /\ Watcher[w] \in Callers
      BY <2>2, WriteAssumption
    <3>2. pc'[v] = pc[v]
      BY <1>0, <1>t, <2>2, <3>1, OnlyItself DEF SetDeadline, Quiet, vars
    <3> QED BY <1>0, <2>2, <3>2 DEF SetDeadline, WritesTypeOK
  <2>3. CASE BeginWrite(w) \/ GiveUp(w) \/ SetDeadlineFails(w) \/ Check(w) \/ WriterCloses(w)
             \/ ClearFails(w) \/ Release(w)
    <3>1. Step(w) \/ UNCHANGED vars
      BY <2>3 DEF BeginWrite, GiveUp, SetDeadlineFails, Check, WriterCloses, ClearFails,
         Release, Quiet, Step
    <3>2. pc'[v] = pc[v]
      BY <1>0, <1>t, <2>0, <3>1, OnlyItself
    <3> QED BY <1>0, <2>3, <3>2
            DEF BeginWrite, GiveUp, SetDeadlineFails, Check, WriterCloses, ClearFails,
                Release, WritesTypeOK, writes
  <2>4. CASE Acquire(w) \/ Write(w) \/ PublishCompletion(w) \/ Join(w) \/ Clear(w)
    <3>1. pc' = pc
      BY <2>4 DEF Acquire, Write, PublishCompletion, Join, Clear, Quiet, vars
    <3>2. CASE Acquire(w) \/ Write(w) \/ Clear(w)
      BY <1>0, <3>1, <3>2 DEF Acquire, Write, Clear, WritesTypeOK
    <3>3. CASE PublishCompletion(w)
      BY <1>0, <3>1, <3>3 DEF PublishCompletion, WritesTypeOK
    <3>4. CASE Join(w)
      BY <1>0, <3>1, <3>4 DEF Join, WritesTypeOK
    <3> QED BY <2>4, <3>2, <3>3, <3>4
  <2> QED BY <1>1, <2>1, <2>2, <2>3, <2>4 DEF WriterStep
<1>2. ASSUME NEW w \in Bounded, EndContext(w) \/ WatcherStep(w) PROVE Kept
  <2>0. Watcher[w] \in Callers /\ (w # x => Watcher[w] # v)
    BY WriteAssumption
  <2>1. CASE EndContext(w) \/ WatcherClaims(w)
    BY <1>0, <2>1 DEF EndContext, WatcherClaims, Quiet, vars, WritesTypeOK
  <2>2. CASE WatcherInvalidates(w) \/ WatcherCloses(w) \/ WatcherEnds(w)
    <3>1. /\ Step(Watcher[w]) /\ phase' = phase /\ writeState' = writeState
          /\ pc[Watcher[w]] # "idle"
      BY <2>2 DEF WatcherInvalidates, WatcherCloses, WatcherEnds, Step, writes,
                  InvalidateFailed, CloseFailed, UseEnds, At
    <3>2. CASE w # x
      <4>1. pc'[v] = pc[v]
        BY <1>0, <1>t, <2>0, <3>1, <3>2, OnlyItself
      <4> QED BY <1>0, <3>1, <4>1
    <3>3. CASE w = x
      <4>1. phase[x] \in Watched
        BY <1>0, <3>1, <3>3
      <4>2. pc'[v] = "closing" => writeState[x] = "canceled"
        BY <1>0, <1>t, <2>2, <3>3
        DEF WatcherInvalidates, WatcherCloses, WatcherEnds, CloseFailed, UseEnds, Return,
            GoWith, TypeOK
      <4> QED BY <3>1, <4>1, <4>2
    <3> QED BY <3>2, <3>3
  <2> QED BY <1>2, <2>1, <2>2 DEF WatcherStep
<1>3. ASSUME NEW c \in Others, OtherStep(c) PROVE Kept
  <2>1. c \in Callers /\ v # c
    BY DEF Others
  <2>2. pc'[v] = pc[v]
    BY <1>0, <1>3, <1>t, <2>1, OnlyItself DEF OtherStep
  <2> QED BY <1>0, <1>3, <2>2 DEF OtherStep, writes
<1>4. CASE UNCHANGED writeVars
  BY <1>0, <1>4 DEF writeVars, writes, vars
<1> QED BY <1>1, <1>2, <1>3, <1>4 DEF WritesNext

LEMMA WritesInvHolds == WritesSpec => [](WritesTypeOK /\ TokenInv /\ WatcherInv)
BY InitWrites, StepWritesType, StepToken, StepWatcher, PTL DEF WritesSpec

(* Type correctness.                                                        *)
THEOREM WritesTypeCorrect == WritesSpec => []WritesTypeOK
BY WritesInvHolds, PTL

(* A message is written under the deadline of its own write, for any number *)
(* of writes waiting for the token or giving up on it.                      *)
THEOREM DeadlineIsOwnHolds == WritesSpec => []DeadlineIsOwn
<1>1. TokenInv => DeadlineIsOwn
  BY DEF TokenInv
<1> QED BY <1>1, WritesInvHolds, PTL

(* A completed write whose context ends too late keeps its socket.          *)
THEOREM HealthyWriteKeepsSocketHolds == WritesSpec => []HealthyWriteKeepsSocket
<1>1. WatcherInv => HealthyWriteKeepsSocket
  BY DEF WatcherInv, HealthyWriteKeepsSocket
<1> QED BY <1>1, WritesInvHolds, PTL

(* No watcher is left when its write has returned.                          *)
THEOREM NoWatcherOutlivesWriteHolds == WritesSpec => []NoWatcherOutlivesWrite
<1>1. WatcherInv => NoWatcherOutlivesWrite
  BY DEF WatcherInv, NoWatcherOutlivesWrite, In, Watched
<1> QED BY <1>1, WritesInvHolds, PTL
=============================================================================
