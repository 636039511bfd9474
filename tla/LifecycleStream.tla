--------------------------- MODULE LifecycleStream ---------------------------
(***************************************************************************)
(* One lifecycleStream of a Client (xrpl/websocket/streams.go) across the   *)
(* client's lifecycles (resetLifecycle, cancelLifecycle and                 *)
(* cancelLifecycleForReplacement in client.go): the registered handler, its *)
(* runner goroutines, and the readers that report events to it over an      *)
(* unbuffered channel.  The reader of an old lifecycle may still be inside  *)
(* Report when the next lifecycle starts.                                   *)
(***************************************************************************)
EXTENDS Naturals, FiniteSets

CONSTANTS Handlers, NoHandler,
          Runners,      \* identities of the goroutines that execute run
          Nil,          \* the nil channel, and the nil runner
          MaxLife,      \* bound: lifecycles started
          MaxEvents,    \* bound: events one reader reports
          MaxOn         \* bound: calls of On

Lives == 1..MaxLife
Event == [life : Lives, value : 1..MaxEvents, handler : Handlers]

ASSUME StreamAssumption ==
    /\ NoHandler \notin Handlers /\ Nil \notin Runners
    /\ MaxLife \in Nat /\ MaxEvents \in Nat /\ MaxOn \in Nat

VARIABLES
    life,       \* number of the client's newest context, c.ctx
    live,       \* whether that context is not cancelled; every older one is
    resetting,  \* resetLifecycle is waiting for runners
    waiting,    \* doneChannels of that reset
    detached,   \* detachedHandlerRunners
    handler, ch, running, done,   \* the fields of the lifecycleStream
    runner,     \* [Runners -> where it is, its ctx, its channel, its event]
    report,     \* [Lives -> where its reader is in Report, what it read]
    delivered,  \* the last event handed to a handler, per lifecycle
    ons         \* calls of On so far

stream == <<handler, ch, running, done>>
context == <<life, live, resetting, waiting, detached>>
vars == <<life, live, resetting, waiting, detached, handler, ch, running, done,
          runner, report, delivered, ons>>

Busy == {"handling", "inDisconnect", "handled"}     \* inside event.handler

TypeOK ==
    /\ life \in 0..MaxLife /\ live \in BOOLEAN /\ resetting \in BOOLEAN
    /\ waiting \subseteq Runners /\ detached \subseteq Runners
    /\ handler \in Handlers \cup {NoHandler}
    /\ ch \in Runners \cup {Nil} /\ done \in Runners \cup {Nil}
    /\ running \in BOOLEAN
    /\ runner \in [Runners -> [pc : {"unused", "ready", "accepted", "exited"} \cup Busy,
                               ctx : 0..MaxLife,
                               ch : Runners \cup {Nil},
                               event : Event \cup {Nil}]]
    /\ report \in [Lives -> [pc : {"idle", "snapshot", "check", "send"},
                             next : 1..(MaxEvents + 1),
                             ch : Runners \cup {Nil},
                             handler : Handlers \cup {NoHandler}]]
    /\ delivered \in [Lives -> 0..MaxEvents]
    /\ ons \in 0..MaxOn

Init ==
    /\ life = 0 /\ live = FALSE /\ resetting = FALSE
    /\ waiting = {} /\ detached = {}
    /\ handler = NoHandler /\ ch = Nil /\ running = FALSE /\ done = Nil
    /\ runner = [i \in Runners |-> [pc |-> "unused", ctx |-> 0, ch |-> Nil, event |-> Nil]]
    /\ report = [r \in Lives |-> [pc |-> "idle", next |-> 1, ch |-> Nil, handler |-> NoHandler]]
    /\ delivered = [r \in Lives |-> 0]
    /\ ons = 0

Cancelled(r) == r # life \/ ~live

-----------------------------------------------------------------------------
(* startLocked and the goroutine it asks for, under context l.              *)
StartRunner(l) ==
    \E i \in Runners :
        /\ runner[i].pc = "unused"
        /\ ch' = IF ch = Nil THEN i ELSE ch
        /\ done' = i
        /\ running' = TRUE
        /\ runner' = [runner EXCEPT ![i] = [pc |-> "ready", ctx |-> l, ch |-> ch', event |-> Nil]]

StartUnlessRunning(l) ==
    IF running THEN UNCHANGED <<ch, running, done, runner>> ELSE StartRunner(l)

(* On, through registerLifecycleHandler: streamHandlerStateMu keeps the     *)
(* context from being cancelled between the check and the start.            *)
On(h) ==
    /\ ons < MaxOn
    /\ ons' = ons + 1
    /\ handler' = h
    /\ IF h = NoHandler \/ ~live
       THEN UNCHANGED <<ch, running, done, runner>>
       ELSE StartUnlessRunning(life)
    /\ UNCHANGED <<context, report, delivered>>

(* Reset, always under a context that was just cancelled.                  *)
Reset == ch' = Nil /\ done' = Nil /\ running' = FALSE /\ UNCHANGED handler

DoneRunner == {done} \ {Nil}

(* cancelLifecycleForReplacement: the context ends, the runners stay.      *)
CancelForReplacement ==
    /\ ~resetting /\ live
    /\ live' = FALSE
    /\ UNCHANGED <<life, resetting, waiting, detached, stream, runner, report, delivered, ons>>

(* Variant: the runners are waited for under a context still alive.         *)
BeginResetUncancelled ==
    /\ ~resetting
    /\ life < MaxLife
    /\ resetting' = TRUE
    /\ waiting' = detached \cup DoneRunner
    /\ detached' = {}
    /\ Reset
    /\ UNCHANGED <<life, live, runner, report, delivered, ons>>

(* Variant: runners a Disconnect detached are not waited for.               *)
BeginResetForgetful ==
    /\ ~resetting
    /\ life < MaxLife
    /\ live' = FALSE
    /\ resetting' = TRUE
    /\ waiting' = DoneRunner
    /\ detached' = {}
    /\ Reset
    /\ UNCHANGED <<life, runner, report, delivered, ons>>

(* resetLifecycle up to the wait, and from it to the new lifecycle.         *)
BeginReset ==
    /\ ~resetting
    /\ life < MaxLife
    /\ live' = FALSE
    /\ resetting' = TRUE
    /\ waiting' = detached \cup DoneRunner
    /\ detached' = {}
    /\ Reset
    /\ UNCHANGED <<life, runner, report, delivered, ons>>

(* Variant: the handlers registered so far are not started again.           *)
FinishResetDormant ==
    /\ resetting
    /\ \A i \in waiting : runner[i].pc = "exited"
    /\ life' = life + 1
    /\ live' = TRUE
    /\ resetting' = FALSE
    /\ waiting' = {}
    /\ UNCHANGED <<detached, stream, runner, report, delivered, ons>>

FinishReset ==
    /\ resetting
    /\ \A i \in waiting : runner[i].pc = "exited"
    /\ life' = life + 1
    /\ live' = TRUE
    /\ resetting' = FALSE
    /\ waiting' = {}
    /\ IF handler = NoHandler
       THEN UNCHANGED <<ch, running, done, runner>>
       ELSE StartUnlessRunning(life + 1)
    /\ UNCHANGED <<detached, handler, report, delivered, ons>>

(* cancelLifecycle: cancel and detach, without waiting.                    *)
Detach ==
    /\ live' = FALSE
    /\ detached' = detached \cup DoneRunner
    /\ Reset
    /\ UNCHANGED <<life, resetting, waiting, report, delivered, ons>>

Disconnect == ~resetting /\ Detach /\ UNCHANGED runner

-----------------------------------------------------------------------------
(* Report(ctx, value) by the reader of lifecycle r.                         *)
SetReport(r, label) == report' = [report EXCEPT ![r].pc = label]

ReturnFromReport(r) ==
    report' = [report EXCEPT ![r] = [pc |-> "idle", next |-> @.next + 1,
                                     ch |-> Nil, handler |-> NoHandler]]

BeginReport(r) ==
    /\ report[r].pc = "idle" /\ report[r].next <= MaxEvents
    /\ ~Cancelled(r)
    /\ SetReport(r, "snapshot")
    /\ UNCHANGED <<context, stream, runner, delivered, ons>>

Snapshot(r) ==
    /\ report[r].pc = "snapshot"
    /\ IF handler = NoHandler \/ ch = Nil
       THEN ReturnFromReport(r)
       ELSE report' = [report EXCEPT ![r] = [@ EXCEPT !.pc = "check", !.ch = ch, !.handler = handler]]
    /\ UNCHANGED <<context, stream, runner, delivered, ons>>

(* Variant: the context is not looked at again after the snapshot.          *)
CheckNothing(r) ==
    /\ report[r].pc = "check"
    /\ SetReport(r, "send")
    /\ UNCHANGED <<context, stream, runner, delivered, ons>>

CheckAgain(r) ==
    /\ report[r].pc = "check"
    /\ IF Cancelled(r) THEN ReturnFromReport(r) ELSE SetReport(r, "send")
    /\ UNCHANGED <<context, stream, runner, delivered, ons>>

(* Variant: a blocked reader does not watch its context.                    *)
GiveUpNever(r) == FALSE /\ UNCHANGED vars

GiveUp(r) ==
    /\ report[r].pc = "send"
    /\ Cancelled(r)
    /\ ReturnFromReport(r)
    /\ UNCHANGED <<context, stream, runner, delivered, ons>>

-----------------------------------------------------------------------------
(* run(ctx, ch, done) by runner i.                                          *)
SetRunner(i, label) == runner' = [runner EXCEPT ![i].pc = label]

(* The event a reader offers on its channel.                               *)
Reported(r) == [life |-> r, value |-> report[r].next, handler |-> report[r].handler]

(* Variant: the reader does not learn that its event was taken.             *)
AcceptAndResend(i, r) ==
    /\ runner[i].pc = "ready"
    /\ report[r].pc = "send" /\ report[r].ch = runner[i].ch
    /\ runner' = [runner EXCEPT ![i] = [@ EXCEPT !.pc = "accepted", !.event = Reported(r)]]
    /\ UNCHANGED <<context, stream, report, delivered, ons>>

(* The rendezvous on the unbuffered channel.                               *)
Accept(i, r) ==
    /\ runner[i].pc = "ready"
    /\ report[r].pc = "send" /\ report[r].ch = runner[i].ch
    /\ runner' = [runner EXCEPT ![i] = [@ EXCEPT !.pc = "accepted", !.event = Reported(r)]]
    /\ ReturnFromReport(r)
    /\ UNCHANGED <<context, stream, delivered, ons>>

Deliver(i) ==
    /\ runner[i].pc = "accepted"
    /\ IF Cancelled(runner[i].ctx)
       THEN SetRunner(i, "exited") /\ UNCHANGED delivered
       ELSE /\ SetRunner(i, "handling")
            /\ delivered' = [delivered EXCEPT ![runner[i].event.life] = runner[i].event.value]
    /\ UNCHANGED <<context, stream, report, ons>>

HandlerReturns(i) ==
    /\ runner[i].pc \in {"handling", "handled"}
    /\ runner' = [runner EXCEPT ![i] = [@ EXCEPT !.pc = "ready", !.event = Nil]]
    /\ UNCHANGED <<context, stream, report, delivered, ons>>

HandlerCallsDisconnect(i) ==
    /\ runner[i].pc = "handling"
    /\ SetRunner(i, "inDisconnect")
    /\ UNCHANGED <<context, stream, report, delivered, ons>>

(* Variant: a Disconnect waits for the runners it detaches.                 *)
DisconnectInHandlerWaits(i) ==
    /\ runner[i].pc = "inDisconnect"
    /\ \A j \in DoneRunner : runner[j].pc = "exited"
    /\ Detach
    /\ SetRunner(i, "handled")

DisconnectInHandler(i) ==
    /\ runner[i].pc = "inDisconnect"
    /\ Detach
    /\ SetRunner(i, "handled")

RunnerStops(i) ==
    /\ runner[i].pc = "ready"
    /\ Cancelled(runner[i].ctx)
    /\ SetRunner(i, "exited")
    /\ UNCHANGED <<context, stream, report, delivered, ons>>

-----------------------------------------------------------------------------
ReportStep(r) == BeginReport(r) \/ Snapshot(r) \/ CheckAgain(r) \/ GiveUp(r)

RunnerStep(i) ==
    \/ Deliver(i) \/ HandlerReturns(i) \/ DisconnectInHandler(i) \/ RunnerStops(i)

Next ==
    \/ \E h \in Handlers \cup {NoHandler} : On(h)
    \/ CancelForReplacement \/ BeginReset \/ FinishReset \/ Disconnect
    \/ \E r \in Lives : ReportStep(r) \/ \E i \in Runners : Accept(i, r)
    \/ \E i \in Runners : RunnerStep(i) \/ HandlerCallsDisconnect(i)

Spec == Init /\ [][Next]_vars

(* Goroutines that can go on do, and handlers return.                      *)
FairSpec ==
    /\ Spec
    /\ WF_vars(FinishReset)
    /\ \A r \in Lives : WF_vars(ReportStep(r)) /\ WF_vars(\E i \in Runners : Accept(i, r))
    /\ \A i \in Runners : WF_vars(RunnerStep(i))

-----------------------------------------------------------------------------
(* "Calls to one handler are serialized": no two runners are ever alive at  *)
(* once, within a lifecycle or across a disconnect and a later connection,  *)
(* even when the old handler is still running.                              *)
Alive(i) == runner[i].pc \notin {"unused", "exited"}
HandlersSerialized == \A i, j \in Runners : Alive(i) /\ Alive(j) => i = j

(* An event read under one lifecycle is never accepted by the runner of     *)
(* another, although its reader may have found the newer channel.           *)
NoStaleDelivery ==
    \A i \in Runners : runner[i].event # Nil => runner[i].event.life = runner[i].ctx

(* A live lifecycle with a registered handler has a runner that serves the  *)
(* stream's own channel: no race of On with a reset leaves it dormant.      *)
RegisteredIsServed ==
    live /\ handler # NoHandler =>
        /\ running /\ done \in Runners
        /\ Alive(done) /\ runner[done].ctx = life /\ runner[done].ch = ch

(* Handlers see the events of a connection in wire order, none twice.       *)
WireOrder ==
    [][\A i \in Runners :
          runner[i].pc = "accepted" /\ runner'[i].pc = "handling" =>
              runner[i].event.value > delivered[runner[i].event.life]]_vars

(* Connect gets past the wait for old runners.                             *)
ResetReturns == resetting ~> ~resetting

(* A reader is never stuck in Report: its event is taken, or its lifecycle  *)
(* ends, as long as handlers return.                                        *)
ReportReturns == \A r \in Lives : report[r].pc # "idle" ~> report[r].pc = "idle"

(* Disconnect called inside a handler returns to it.                        *)
DisconnectInHandlerReturns ==
    \A i \in Runners : runner[i].pc = "inDisconnect" ~> runner[i].pc = "handled"
=============================================================================
