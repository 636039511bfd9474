------------------------ MODULE LifecycleStreamProofs ------------------------
(* Proofs about LifecycleStream, for any number of lifecycles, runners,     *)
(* handlers, events and registrations.                                      *)
EXTENDS LifecycleStream, TLAPS

RunnerRecord ==
    [pc : {"unused", "ready", "accepted", "exited"} \cup Busy, ctx : 0..MaxLife,
     ch : Runners \cup {Nil}, event : Event \cup {Nil}]
ReportRecord ==
    [pc : {"idle", "snapshot", "check", "send"}, next : 1..(MaxEvents + 1),
     ch : Runners \cup {Nil}, handler : Handlers \cup {NoHandler}]

(* TypeOK without its flags and counters, and what a reader holds where.    *)
StreamType ==
    /\ life \in Nat
    /\ waiting \subseteq Runners /\ detached \subseteq Runners
    /\ handler \in Handlers \cup {NoHandler}
    /\ ch \in Runners \cup {Nil} /\ done \in Runners \cup {Nil}
    /\ runner \in [Runners -> RunnerRecord]
    /\ report \in [Lives -> ReportRecord]
    /\ life \in 0..MaxLife
    /\ \A r \in Lives : report[r].pc # "idle" => report[r].next <= MaxEvents
    /\ \A r \in Lives : report[r].pc \in {"check", "send"} => report[r].handler \in Handlers

(* Where the runners that still execute can be found: a reset waits for     *)
(* those of the past, and a live lifecycle knows of one runner at most.     *)
OwnedInv ==
    /\ \A i \in Runners : Alive(i) => i = done \/ i \in detached \/ i \in waiting
    /\ running <=> done # Nil
    /\ ch = done
    /\ resetting => ~live /\ done = Nil /\ detached = {} /\ life < MaxLife
    /\ ~resetting => waiting = {}
    /\ live => detached = {}
    /\ live /\ running => Alive(done) /\ runner[done].ctx = life

(* Every channel has one runner, of the lifecycle that made it, and an      *)
(* event is only offered on the channel of the lifecycle it was read under. *)
Offering(r) == report[r].pc = "send" \/ (report[r].pc = "check" /\ ~Cancelled(r))
OffersOwnChannel(r) ==
    /\ report[r].ch \in Runners
    /\ runner[report[r].ch].pc # "unused"
    /\ runner[report[r].ch].ctx = r

ChannelInv ==
    /\ \A i \in Runners : Alive(i) => runner[i].ch = i
    /\ \A r \in Lives : report[r].pc # "idle" => r <= life
    /\ \A r \in Lives : Offering(r) => OffersOwnChannel(r)

(* A registered handler is being served.                                   *)
ServedInv == live /\ handler # NoHandler => running

IInv ==
    /\ StreamType
    /\ OwnedInv
    /\ ChannelInv
    /\ ServedInv
    /\ HandlersSerialized
    /\ NoStaleDelivery

LEMMA InitInv == Init => IInv
BY StreamAssumption DEF Init, IInv, StreamType, OwnedInv, ChannelInv, ServedInv,
   HandlersSerialized, NoStaleDelivery, Alive, Lives, Busy, Cancelled, RunnerRecord, ReportRecord,
   Offering, OffersOwnChannel

-----------------------------------------------------------------------------
(* Starting a runner makes an unused identity both runner and channel.      *)
LEMMA StartEffect ==
    ASSUME IInv, NEW l \in 0..MaxLife, ~running, StartRunner(l)
    PROVE  \E i \in Runners :
              /\ runner[i].pc = "unused"
              /\ ch' = i /\ done' = i /\ running' = TRUE
              /\ runner' = [runner EXCEPT
                              ![i] = [pc |-> "ready", ctx |-> l, ch |-> i, event |-> Nil]]
BY DEF StartRunner, IInv, OwnedInv

(* What a step leaves of the runners, and of the readers, but for the one   *)
(* that takes it.                                                          *)
RunnerMoved(i, label) ==
    /\ runner' \in [Runners -> RunnerRecord]
    /\ \A j \in Runners \ {i} : runner'[j] = runner[j]
    /\ runner'[i].pc = label /\ runner'[i].ctx = runner[i].ctx
    /\ runner'[i].ch = runner[i].ch

ReportMoved(r, label) ==
    /\ report' \in [Lives -> ReportRecord]
    /\ \A q \in Lives \ {r} : report'[q] = report[q]
    /\ report'[r].pc = label

LEMMA RunnerMoves ==
    ASSUME StreamType, NEW i \in Runners, NEW label \in {"accepted", "exited"} \cup Busy,
           SetRunner(i, label)
    PROVE  RunnerMoved(i, label) /\ runner'[i].event = runner[i].event
<1>1. [runner[i] EXCEPT !.pc = label] \in RunnerRecord
  BY DEF StreamType, RunnerRecord
<1>2. runner' = [runner EXCEPT ![i] = [runner[i] EXCEPT !.pc = label]]
  BY DEF SetRunner
<1> QED BY <1>1, <1>2 DEF StreamType, RunnerMoved, RunnerRecord

LEMMA ReportMoves ==
    ASSUME StreamType, NEW r \in Lives, NEW label \in {"snapshot", "check", "send"},
           SetReport(r, label)
    PROVE  /\ ReportMoved(r, label) /\ report'[r].next = report[r].next
           /\ report'[r].ch = report[r].ch /\ report'[r].handler = report[r].handler
<1>1. [report[r] EXCEPT !.pc = label] \in ReportRecord
  BY DEF StreamType, ReportRecord
<1>2. report' = [report EXCEPT ![r] = [report[r] EXCEPT !.pc = label]]
  BY DEF SetReport
<1> QED BY <1>1, <1>2 DEF StreamType, ReportMoved, ReportRecord

(* A reader that leaves Report, with its event taken or not.                *)
LEMMA ReportReturned ==
    ASSUME StreamType, NEW r \in Lives, report[r].pc # "idle", ReturnFromReport(r)
    PROVE  ReportMoved(r, "idle") /\ report'[r].next = report[r].next + 1
<1> DEFINE idle == [pc |-> "idle", next |-> report[r].next + 1, ch |-> Nil, handler |-> NoHandler]
<1>1. report[r].next + 1 \in 1..(MaxEvents + 1)
  BY StreamAssumption DEF StreamType, ReportRecord
<1>2. idle \in ReportRecord /\ idle.pc = "idle" /\ idle.next = report[r].next + 1
  BY <1>1 DEF ReportRecord
<1>3. report' = [report EXCEPT ![r] = idle]
  BY DEF ReturnFromReport
<1> QED BY <1>2, <1>3 DEF StreamType, ReportMoved

LEMMA ReportTakesChannel ==
    ASSUME StreamType, NEW r \in Lives, report[r].pc # "idle",
           report' = [report EXCEPT ![r] = [@ EXCEPT !.pc = "check", !.ch = ch, !.handler = handler]]
    PROVE  /\ ReportMoved(r, "check") /\ report'[r].next = report[r].next
           /\ report'[r].ch = ch /\ report'[r].handler = handler
<1> DEFINE taken == [report[r] EXCEPT !.pc = "check", !.ch = ch, !.handler = handler]
<1>1. /\ taken \in ReportRecord /\ taken.pc = "check" /\ taken.next = report[r].next
      /\ taken.ch = ch /\ taken.handler = handler
  BY DEF StreamType, ReportRecord
<1>2. report' = [report EXCEPT ![r] = taken]
  OBVIOUS
<1> QED BY <1>1, <1>2 DEF StreamType, ReportMoved

LEMMA RunnerReturns ==
    ASSUME StreamType, NEW i \in Runners,
           runner' = [runner EXCEPT ![i] = [@ EXCEPT !.pc = "ready", !.event = Nil]]
    PROVE  RunnerMoved(i, "ready") /\ runner'[i].event = Nil
<1> DEFINE free == [runner[i] EXCEPT !.pc = "ready", !.event = Nil]
<1>1. free \in RunnerRecord /\ free.pc = "ready" /\ free.ctx = runner[i].ctx
      /\ free.ch = runner[i].ch /\ free.event = Nil
  BY DEF StreamType, RunnerRecord
<1>2. runner' = [runner EXCEPT ![i] = free]
  OBVIOUS
<1> QED BY <1>1, <1>2 DEF StreamType, RunnerMoved

LEMMA RunnerTakes ==
    ASSUME StreamType, NEW i \in Runners, NEW r \in Lives, report[r].pc = "send",
           runner' = [runner EXCEPT ![i] = [@ EXCEPT !.pc = "accepted", !.event = Reported(r)]]
    PROVE  /\ RunnerMoved(i, "accepted") /\ runner'[i].event = Reported(r)
           /\ Reported(r) \in Event /\ Reported(r).life = r
<1> DEFINE taken == [runner[i] EXCEPT !.pc = "accepted", !.event = Reported(r)]
<1>1. report[r].next \in 1..MaxEvents /\ report[r].handler \in Handlers
  BY StreamAssumption DEF StreamType, ReportRecord
<1>2. Reported(r) \in Event /\ Reported(r).life = r
  BY <1>1 DEF Reported, Event
<1>3. /\ taken \in RunnerRecord /\ taken.pc = "accepted" /\ taken.event = Reported(r)
      /\ taken.ctx = runner[i].ctx /\ taken.ch = runner[i].ch
  BY <1>2 DEF StreamType, RunnerRecord
<1>4. runner' = [runner EXCEPT ![i] = taken]
  OBVIOUS
<1> QED BY <1>2, <1>3, <1>4 DEF StreamType, RunnerMoved

(* What such a step must respect to keep the invariant.                     *)
LEMMA ReportKeepsInv ==
    ASSUME IInv, NEW r \in Lives, NEW label, ReportMoved(r, label),
           UNCHANGED <<context, stream, runner>>,
           label \in {"idle", "snapshot", "check", "send"},
           label # "idle" => report'[r].next <= MaxEvents /\ r <= life,
           label \in {"check", "send"} => report'[r].handler \in Handlers,
           Offering(r)' => OffersOwnChannel(r)'
    PROVE  IInv'
<1>1. StreamType'
  BY DEF IInv, StreamType, ReportMoved, context, stream, Lives
<1>2. OwnedInv' /\ ServedInv' /\ HandlersSerialized' /\ NoStaleDelivery'
  BY DEF IInv, OwnedInv, ServedInv, HandlersSerialized, NoStaleDelivery, Alive, context, stream
<1>3. ASSUME NEW q \in Lives, Offering(q)' PROVE OffersOwnChannel(q)'
  <2>1. CASE q = r
    BY <1>3, <2>1
  <2>2. CASE q # r
    <3>1. report'[q] = report[q] /\ UNCHANGED <<life, live, runner>>
      BY <2>2 DEF ReportMoved, context
    <3> QED BY <1>3, <3>1 DEF IInv, ChannelInv, Offering, OffersOwnChannel, Cancelled
  <2> QED BY <2>1, <2>2
<1>4. \A q \in Lives : report'[q].pc # "idle" => q <= life'
  BY DEF IInv, ChannelInv, ReportMoved, context
<1>5. \A i \in Runners : Alive(i)' => runner'[i].ch = i
  BY DEF IInv, ChannelInv, Alive
<1> QED BY <1>1, <1>2, <1>3, <1>4, <1>5 DEF IInv, ChannelInv

LEMMA RunnerKeepsInv ==
    ASSUME IInv, NEW i \in Runners, NEW label, RunnerMoved(i, label), Alive(i),
           UNCHANGED <<context, stream, report>>,
           label # "unused", label = "exited" => Cancelled(runner[i].ctx),
           runner'[i].event # Nil => runner'[i].event = runner[i].event
    PROVE  IInv'
<1>1. StreamType'
  BY DEF IInv, StreamType, RunnerMoved, context, stream
<1>2. \A j \in Runners : Alive(j)' => Alive(j)
  BY DEF RunnerMoved, Alive
<1>3. \A j \in Runners : runner'[j].ctx = runner[j].ctx /\ runner'[j].ch = runner[j].ch
  BY DEF RunnerMoved
<1>4. OwnedInv'
  <2>1. ASSUME live, running PROVE Alive(done)'
    <3>1. done \in Runners /\ done' = done /\ Alive(done) /\ ~Cancelled(runner[done].ctx)
      BY <2>1 DEF IInv, StreamType, OwnedInv, Cancelled, stream
    <3> QED BY <3>1 DEF RunnerMoved, Alive
  <2> QED BY <1>2, <1>3, <2>1 DEF IInv, OwnedInv, StreamType, context, stream
<1>5. ChannelInv'
  <2>1. \A j \in Runners : runner'[j].pc = "unused" => runner[j].pc = "unused"
    BY DEF RunnerMoved
  <2>2. \A q \in Lives : Offering(q)' => Offering(q)
    BY DEF Offering, Cancelled, context
  <2> QED BY <1>2, <1>3, <2>1, <2>2 DEF IInv, ChannelInv, OffersOwnChannel, context
<1>6. ServedInv'
  BY DEF IInv, ServedInv, context, stream
<1>7. HandlersSerialized'
  BY <1>2 DEF IInv, HandlersSerialized
<1>8. NoStaleDelivery'
  <2>1. NoStaleDelivery
    BY DEF IInv
  <2>2. \A j \in Runners : runner'[j].event # Nil => runner'[j].event = runner[j].event
    BY DEF RunnerMoved
  <2> QED BY <1>3, <2>1, <2>2 DEF NoStaleDelivery
<1> QED BY <1>1, <1>4, <1>5, <1>6, <1>7, <1>8 DEF IInv

LEMMA StepInv == IInv /\ [Next]_vars => IInv'
<1> SUFFICES ASSUME IInv, [Next]_vars PROVE IInv'
    OBVIOUS
<1>1. ASSUME NEW r \in Lives, BeginReport(r) PROVE IInv'
  <2>1. ReportMoved(r, "snapshot") /\ report'[r].next = report[r].next
    BY <1>1, ReportMoves DEF IInv, BeginReport
  <2>2. report[r].next <= MaxEvents /\ r <= life /\ ~Offering(r)'
    BY <1>1, <2>1 DEF IInv, StreamType, BeginReport, Cancelled, Offering, ReportMoved
  <2> QED BY <1>1, <2>1, <2>2, ReportKeepsInv DEF BeginReport
<1>2. ASSUME NEW r \in Lives, Snapshot(r) PROVE IInv'
  <2>1. report[r].next <= MaxEvents /\ r <= life
    BY <1>2 DEF IInv, StreamType, ChannelInv, Snapshot
  <2>2. CASE handler = NoHandler \/ ch = Nil
    <3>1. ReportMoved(r, "idle") /\ ~Offering(r)'
      BY <1>2, <2>2, ReportReturned DEF IInv, Snapshot, ReportMoved, Offering
    <3> QED BY <1>2, <3>1, ReportKeepsInv DEF Snapshot
  <2>3. CASE ~(handler = NoHandler \/ ch = Nil)
    <3>1. /\ ReportMoved(r, "check") /\ report'[r].next = report[r].next
          /\ report'[r].ch = ch /\ report'[r].handler = handler
      BY <1>2, <2>3, ReportTakesChannel DEF IInv, Snapshot
    <3>h. handler \in Handlers
      BY <2>3 DEF IInv, StreamType
    <3>2. ~Cancelled(r) => OffersOwnChannel(r)'
      BY <1>2, <2>3, <3>1
      DEF IInv, StreamType, OwnedInv, OffersOwnChannel, Cancelled, Alive, Snapshot
    <3>3. Offering(r)' => ~Cancelled(r)
      BY <1>2, <3>1 DEF Offering, Cancelled, ReportMoved, Snapshot, context
    <3> QED BY <1>2, <2>1, <3>1, <3>2, <3>3, <3>h, ReportKeepsInv DEF Snapshot
  <2> QED BY <2>2, <2>3
<1>3. ASSUME NEW r \in Lives, CheckAgain(r) PROVE IInv'
  <2>1. report[r].next <= MaxEvents /\ r <= life /\ report[r].handler \in Handlers
    BY <1>3 DEF IInv, StreamType, ChannelInv, CheckAgain
  <2>2. CASE Cancelled(r)
    <3>1. ReportMoved(r, "idle") /\ ~Offering(r)'
      BY <1>3, <2>2, ReportReturned DEF IInv, CheckAgain, ReportMoved, Offering
    <3> QED BY <1>3, <3>1, ReportKeepsInv DEF CheckAgain
  <2>3. CASE ~Cancelled(r)
    <3>1. /\ ReportMoved(r, "send") /\ report'[r].next = report[r].next
          /\ report'[r].ch = report[r].ch /\ report'[r].handler = report[r].handler
      BY <1>3, <2>3, ReportMoves DEF IInv, CheckAgain
    <3>2. OffersOwnChannel(r)'
      BY <1>3, <2>3, <3>1 DEF IInv, ChannelInv, Offering, OffersOwnChannel, CheckAgain
    <3> QED BY <1>3, <2>1, <3>1, <3>2, ReportKeepsInv DEF CheckAgain
  <2> QED BY <2>2, <2>3
<1>4. ASSUME NEW r \in Lives, GiveUp(r) PROVE IInv'
  <2>1. ReportMoved(r, "idle") /\ ~Offering(r)'
    BY <1>4, ReportReturned DEF IInv, GiveUp, ReportMoved, Offering
  <2> QED BY <1>4, <2>1, ReportKeepsInv DEF GiveUp
<1>5. ASSUME NEW i \in Runners, Deliver(i) PROVE IInv'
  <2>1. CASE Cancelled(runner[i].ctx)
    BY <1>5, <2>1, RunnerMoves, RunnerKeepsInv DEF IInv, Deliver, Alive
  <2>2. CASE ~Cancelled(runner[i].ctx)
    <3>1. RunnerMoved(i, "handling") /\ runner'[i].event = runner[i].event
      BY <1>5, <2>2, RunnerMoves DEF IInv, Deliver, Busy
    <3> QED BY <1>5, <3>1, RunnerKeepsInv DEF Deliver, Alive
  <2> QED BY <2>1, <2>2
<1>6. ASSUME NEW i \in Runners, HandlerReturns(i) PROVE IInv'
  <2>1. RunnerMoved(i, "ready") /\ runner'[i].event = Nil
    BY <1>6, RunnerReturns DEF IInv, HandlerReturns
  <2> QED BY <1>6, <2>1, RunnerKeepsInv DEF HandlerReturns, Alive
<1>7. ASSUME NEW i \in Runners, HandlerCallsDisconnect(i) PROVE IInv'
  <2>1. RunnerMoved(i, "inDisconnect") /\ runner'[i].event = runner[i].event
    BY <1>7, RunnerMoves DEF IInv, HandlerCallsDisconnect, Busy
  <2> QED BY <1>7, <2>1, RunnerKeepsInv DEF HandlerCallsDisconnect, Alive
<1>8. ASSUME NEW i \in Runners, RunnerStops(i) PROVE IInv'
  <2>1. RunnerMoved(i, "exited") /\ runner'[i].event = runner[i].event
    BY <1>8, RunnerMoves DEF IInv, RunnerStops
  <2> QED BY <1>8, <2>1, RunnerKeepsInv DEF RunnerStops, Alive
<1>9. ASSUME NEW r \in Lives, NEW i \in Runners, Accept(i, r) PROVE IInv'
  <2>1. /\ runner[i].pc = "ready" /\ report[r].pc = "send" /\ report[r].ch = runner[i].ch
        /\ UNCHANGED <<context, stream, delivered, ons>>
    BY <1>9 DEF Accept
  <2>2. RunnerMoved(i, "accepted") /\ runner'[i].event = Reported(r) /\ Reported(r).life = r
    BY <1>9, <2>1, RunnerTakes DEF IInv, Accept
  <2>3. ReportMoved(r, "idle")
    BY <1>9, <2>1, ReportReturned DEF IInv, Accept
  <2>4. runner[i].ctx = r /\ runner[i].ch = i
    BY <2>1 DEF IInv, ChannelInv, Offering, OffersOwnChannel, Alive
  <2>5. \A j \in Runners : /\ Alive(j)' <=> Alive(j)
                           /\ runner'[j].pc = "unused" <=> runner[j].pc = "unused"
                           /\ runner'[j].ctx = runner[j].ctx /\ runner'[j].ch = runner[j].ch
    BY <2>1, <2>2 DEF RunnerMoved, Alive
  <2>6. StreamType'
    BY <2>1, <2>2, <2>3 DEF IInv, StreamType, RunnerMoved, ReportMoved, context, stream
  <2>7. OwnedInv'
    BY <2>1, <2>5 DEF IInv, OwnedInv, StreamType, context, stream
  <2>8. ChannelInv'
    <3>1. \A q \in Lives : Offering(q)' => Offering(q) /\ report'[q] = report[q]
      BY <2>1, <2>3 DEF Offering, ReportMoved, Cancelled, context
    <3>2. \A q \in Lives : report[q].ch \in Runners /\ report'[q] = report[q] =>
              (OffersOwnChannel(q) => OffersOwnChannel(q)')
      BY <2>5 DEF OffersOwnChannel
    <3>3. \A q \in Lives : Offering(q)' => OffersOwnChannel(q)'
      BY <3>1, <3>2 DEF IInv, ChannelInv, OffersOwnChannel
    <3>4. \A q \in Lives : report'[q].pc # "idle" => q <= life'
      BY <2>1, <2>3 DEF IInv, ChannelInv, ReportMoved, context
    <3> QED BY <2>5, <3>3, <3>4 DEF IInv, ChannelInv
  <2>9. ServedInv' /\ HandlersSerialized'
    BY <2>1, <2>5 DEF IInv, ServedInv, HandlersSerialized, context, stream
  <2>10. NoStaleDelivery'
    BY <2>2, <2>4, <2>5 DEF IInv, NoStaleDelivery, RunnerMoved
  <2> QED BY <2>6, <2>7, <2>8, <2>9, <2>10 DEF IInv
<1> USE StreamAssumption
    DEF IInv, StreamType, OwnedInv, ChannelInv, ServedInv, HandlersSerialized,
        NoStaleDelivery, Alive, Cancelled, Busy, Lives, context, stream, RunnerRecord, ReportRecord,
        Offering, OffersOwnChannel
<1>10. ASSUME NEW h \in Handlers \cup {NoHandler}, On(h) PROVE IInv'
  <2>1. CASE (h = NoHandler \/ ~live \/ running) /\ UNCHANGED <<ch, running, done, runner>>
    BY <1>10, <2>1 DEF On
  <2>2. CASE live /\ ~running /\ StartRunner(life)
    <3>0. \A j \in Runners : ~Alive(j)
      BY <2>2
    <3> PICK i \in Runners :
              /\ runner[i].pc = "unused"
              /\ ch' = i /\ done' = i /\ running' = TRUE
              /\ runner' = [runner EXCEPT
                              ![i] = [pc |-> "ready", ctx |-> life, ch |-> i, event |-> Nil]]
      BY <2>2, StartEffect
    <3>1. StreamType'
      BY <1>10, <2>2 DEF On
    <3>2. OwnedInv'
      BY <1>10, <2>2 DEF On
    <3>3. ChannelInv'
      BY <1>10, <2>2 DEF On
    <3>4. ServedInv'
      BY <1>10, <2>2 DEF On
    <3>5. HandlersSerialized'
      BY <3>0 DEF On
    <3>6. NoStaleDelivery'
      BY <1>10, <2>2 DEF On
    <3> QED BY <3>1, <3>2, <3>3, <3>4, <3>5, <3>6 DEF IInv
  <2> QED BY <1>10, <2>1, <2>2 DEF On, StartUnlessRunning
<1>11. CASE CancelForReplacement
  BY <1>11 DEF CancelForReplacement
<1>12. CASE BeginReset
  BY <1>12 DEF BeginReset, Reset, DoneRunner
<1>13. CASE FinishReset
  <2>0. life + 1 \in 1..MaxLife /\ ~running /\ \A j \in Runners : ~Alive(j)
    BY <1>13 DEF FinishReset
  <2>1. CASE handler = NoHandler
    BY <1>13, <2>0, <2>1 DEF FinishReset
  <2>2. CASE handler # NoHandler
    <3>0. StartRunner(life + 1) /\ life + 1 \in 0..MaxLife
      BY <1>13, <2>0, <2>2 DEF FinishReset, StartUnlessRunning
    <3> PICK i \in Runners :
              /\ runner[i].pc = "unused"
              /\ ch' = i /\ done' = i /\ running' = TRUE
              /\ runner' = [runner EXCEPT
                              ![i] = [pc |-> "ready", ctx |-> life + 1, ch |-> i, event |-> Nil]]
      BY <2>0, <3>0, StartEffect
    <3>1. StreamType'
      BY <1>13, <2>0, <2>2 DEF FinishReset
    <3>2. OwnedInv'
      BY <1>13, <2>0, <2>2 DEF FinishReset
    <3>3. ChannelInv'
      BY <1>13, <2>0, <2>2 DEF FinishReset
    <3>4. ServedInv'
      BY <1>13, <2>0, <2>2 DEF FinishReset
    <3>5. HandlersSerialized'
      BY <1>13, <2>0, <2>2 DEF FinishReset
    <3>6. NoStaleDelivery'
      BY <1>13, <2>0, <2>2 DEF FinishReset
    <3> QED BY <3>1, <3>2, <3>3, <3>4, <3>5, <3>6 DEF IInv
  <2> QED BY <2>1, <2>2
<1>14. CASE Disconnect
  BY <1>14 DEF Disconnect, Detach, Reset, DoneRunner
<1>15. ASSUME NEW i \in Runners, DisconnectInHandler(i) PROVE IInv'
  BY <1>15 DEF DisconnectInHandler, Detach, Reset, DoneRunner, SetRunner
<1>16. CASE UNCHANGED vars
  BY <1>16 DEF vars
<1> HIDE DEF IInv
<1> QED
  BY <1>1, <1>2, <1>3, <1>4, <1>5, <1>6, <1>7, <1>8, <1>9, <1>10, <1>11, <1>12, <1>13, <1>14, <1>15, <1>16
  DEF Next, ReportStep, RunnerStep

LEMMA InvHolds == Spec => []IInv
BY InitInv, StepInv, PTL DEF Spec

(* "Calls to one handler are serialized", across lifecycles too.            *)
THEOREM HandlersSerializedHolds == Spec => []HandlersSerialized
<1>1. IInv => HandlersSerialized
  BY DEF IInv
<1> QED BY <1>1, InvHolds, PTL

(* No runner accepts an event that was read under another lifecycle.        *)
THEOREM NoStaleDeliveryHolds == Spec => []NoStaleDelivery
<1>1. IInv => NoStaleDelivery
  BY DEF IInv
<1> QED BY <1>1, InvHolds, PTL

(* A handler registered in a live lifecycle is being served.                *)
THEOREM RegisteredIsServedHolds == Spec => []RegisteredIsServed
<1>1. IInv => RegisteredIsServed
  BY DEF IInv, StreamType, OwnedInv, ChannelInv, ServedInv, RegisteredIsServed
<1> QED BY <1>1, InvHolds, PTL

-----------------------------------------------------------------------------
(* The order of events: what a lifecycle delivered last lies before what    *)
(* its reader reads next, and an event that was taken lies between the two. *)
Between(e) ==
    /\ e \in Event
    /\ delivered[e.life] < e.value
    /\ e.value < report[e.life].next

OrderInv ==
    /\ delivered \in [Lives -> 0..MaxEvents]
    /\ \A r \in Lives : delivered[r] < report[r].next
    /\ \A i \in Runners : runner[i].pc = "accepted" => Between(runner[i].event)

LEMMA InitOrder == Init => OrderInv
BY StreamAssumption DEF Init, OrderInv, Lives

(* A step that delivers nothing and takes no event keeps the order.         *)
LEMMA OrderKept ==
    ASSUME OrderInv, StreamType, StreamType', UNCHANGED delivered,
           \A r \in Lives : report[r].next <= report'[r].next,
           \A i \in Runners : runner'[i].pc = "accepted" =>
               runner[i].pc = "accepted" /\ runner'[i].event = runner[i].event
    PROVE  OrderInv'
<1>1. \A r \in Lives : /\ delivered[r] \in Nat /\ report[r].next \in Nat
                       /\ report'[r].next \in Nat
  BY StreamAssumption DEF OrderInv, StreamType, ReportRecord
<1>2. \A r \in Lives : delivered'[r] < report'[r].next
  BY <1>1 DEF OrderInv
<1>3. ASSUME NEW i \in Runners, runner'[i].pc = "accepted"
      PROVE  Between(runner[i].event)' /\ runner'[i].event = runner[i].event
  <2>1. Between(runner[i].event) /\ runner'[i].event = runner[i].event
    BY <1>3 DEF OrderInv
  <2> DEFINE e == runner[i].event
  <2>2. e.life \in Lives /\ e.value \in Nat /\ e \in Event
    BY <2>1 DEF Between, Event
  <2>3. e.value < report'[e.life].next
    BY <1>1, <2>1, <2>2 DEF Between
  <2> QED BY <2>1, <2>2, <2>3 DEF Between
<1> QED BY <1>2, <1>3 DEF OrderInv, Between

LEMMA StepOrder == IInv /\ OrderInv /\ [Next]_vars => OrderInv'
<1> SUFFICES ASSUME IInv, OrderInv, [Next]_vars PROVE OrderInv'
  OBVIOUS
<1>0. IInv' /\ StreamType /\ StreamType'
  BY StepInv DEF IInv
<1>n. \A r \in Lives : report[r].next \in Nat /\ report[r].next <= report[r].next
  BY <1>0, StreamAssumption DEF StreamType, ReportRecord
<1>1. ASSUME NEW r \in Lives, ReportStep(r) PROVE OrderInv'
  <2>1. UNCHANGED <<runner, delivered>>
    BY <1>1 DEF ReportStep, BeginReport, Snapshot, CheckAgain, GiveUp
  <2>2. \/ SetReport(r, "snapshot") \/ SetReport(r, "send")
        \/ report[r].pc # "idle" /\ ReturnFromReport(r)
        \/ /\ report[r].pc # "idle"
           /\ report' = [report EXCEPT
                            ![r] = [@ EXCEPT !.pc = "check", !.ch = ch, !.handler = handler]]
    BY <1>1 DEF ReportStep, BeginReport, Snapshot, CheckAgain, GiveUp
  <2>3. /\ \A q \in Lives \ {r} : report'[q] = report[q]
        /\ report'[r].next \in {report[r].next, report[r].next + 1}
    BY <1>0, <2>2, ReportMoves, ReportReturned, ReportTakesChannel DEF ReportMoved
  <2>4. \A q \in Lives : report[q].next <= report'[q].next
    BY <1>n, <2>3
  <2> QED BY <1>0, <2>1, <2>4, OrderKept
<1>2. ASSUME NEW i \in Runners, Deliver(i) PROVE OrderInv'
  <2>1. CASE Cancelled(runner[i].ctx)
    <3>1. UNCHANGED <<report, delivered>> /\ RunnerMoved(i, "exited")
      BY <1>0, <1>2, <2>1, RunnerMoves DEF Deliver
    <3> QED BY <1>0, <1>n, <3>1, OrderKept DEF RunnerMoved
  <2>2. CASE ~Cancelled(runner[i].ctx)
    <3>1. UNCHANGED report /\ RunnerMoved(i, "handling")
      BY <1>0, <1>2, <2>2, RunnerMoves DEF Deliver, Busy
    <3> DEFINE e == runner[i].event
    <3>2. Between(e) /\ delivered' = [delivered EXCEPT ![e.life] = e.value]
      BY <1>2, <2>2 DEF OrderInv, Deliver
    <3>3. e.life \in Lives /\ e.value \in 0..MaxEvents
      BY <3>2, StreamAssumption DEF Between, Event
    <3>4. delivered' \in [Lives -> 0..MaxEvents]
      BY <3>2, <3>3 DEF OrderInv
    <3>5. \A r \in Lives : delivered'[r] < report'[r].next
      BY <3>1, <3>2, <3>3 DEF OrderInv, Between
    <3>6. \A j \in Runners : runner'[j].pc # "accepted"
      <4>1. \A j \in Runners \ {i} : runner[j].pc # "accepted"
        BY <1>2 DEF IInv, HandlersSerialized, Alive, Deliver
      <4> QED BY <3>1, <4>1 DEF RunnerMoved
    <3> QED BY <3>4, <3>5, <3>6 DEF OrderInv
  <2> QED BY <2>1, <2>2
<1>3. ASSUME NEW i \in Runners, NEW r \in Lives, Accept(i, r) PROVE OrderInv'
  <2>1. UNCHANGED delivered /\ report[r].pc = "send" /\ runner[i].pc = "ready"
    BY <1>3 DEF Accept
  <2>2. ReportMoved(r, "idle") /\ report'[r].next = report[r].next + 1
    BY <1>0, <1>3, <2>1, ReportReturned DEF Accept
  <2>3. /\ RunnerMoved(i, "accepted") /\ runner'[i].event = Reported(r)
        /\ Reported(r) \in Event /\ Reported(r).life = r
    BY <1>0, <1>3, <2>1, RunnerTakes DEF Accept
  <2>4. \A q \in Lives : delivered[q] \in Nat
    BY StreamAssumption DEF OrderInv
  <2>5. \A q \in Lives : delivered'[q] < report'[q].next
    BY <1>n, <2>1, <2>2, <2>4 DEF OrderInv, ReportMoved
  <2>6. delivered[r] < report[r].next /\ report[r].next < report[r].next + 1
    BY <1>n DEF OrderInv
  <2> PICK e \in Event : e = Reported(r)
    BY <2>3
  <2>7. Between(e)'
    <3>1. e.life = r /\ e.value = report[r].next
      BY DEF Reported
    <3> QED BY <2>1, <2>2, <2>6, <3>1 DEF Between
  <2>8. \A j \in Runners : runner'[j].pc = "accepted" => j = i
    BY <2>1, <2>3 DEF IInv, HandlersSerialized, Alive, RunnerMoved
  <2> QED BY <2>1, <2>3, <2>5, <2>7, <2>8 DEF OrderInv
<1>4. ASSUME UNCHANGED <<report, delivered>>,
             \A i \in Runners : runner'[i].pc = "accepted" =>
                 runner[i].pc = "accepted" /\ runner'[i].event = runner[i].event
      PROVE  OrderInv'
  BY <1>0, <1>n, <1>4, OrderKept
<1>5. ASSUME NEW l, StartRunner(l) \/ UNCHANGED runner, UNCHANGED <<report, delivered>>
      PROVE  OrderInv'
  BY <1>0, <1>4, <1>5 DEF StartRunner, StreamType
<1>6. ASSUME NEW i \in Runners,
             \/ HandlerReturns(i) \/ HandlerCallsDisconnect(i) \/ DisconnectInHandler(i)
             \/ RunnerStops(i)
      PROVE  OrderInv'
  <2>1. UNCHANGED <<report, delivered>>
    BY <1>6 DEF HandlerReturns, HandlerCallsDisconnect, DisconnectInHandler, RunnerStops, Detach
  <2>2. \/ runner' = [runner EXCEPT ![i] = [@ EXCEPT !.pc = "ready", !.event = Nil]]
        \/ SetRunner(i, "inDisconnect") \/ SetRunner(i, "handled") \/ SetRunner(i, "exited")
    BY <1>6 DEF HandlerReturns, HandlerCallsDisconnect, DisconnectInHandler, RunnerStops
  <2>3. \E label \in {"ready", "inDisconnect", "handled", "exited"} : RunnerMoved(i, label)
    BY <1>0, <2>2, RunnerMoves, RunnerReturns DEF Busy
  <2> QED BY <1>4, <2>1, <2>3 DEF RunnerMoved
<1>7. ASSUME NEW h, On(h) PROVE OrderInv'
  BY <1>5, <1>7 DEF On, StartUnlessRunning
<1>8. CASE CancelForReplacement \/ BeginReset \/ Disconnect \/ UNCHANGED vars
  BY <1>5, <1>8 DEF CancelForReplacement, BeginReset, Disconnect, Detach, vars
<1>9. CASE FinishReset
  BY <1>5, <1>9 DEF FinishReset, StartUnlessRunning
<1> QED BY <1>1, <1>2, <1>3, <1>6, <1>7, <1>8, <1>9 DEF Next, RunnerStep

LEMMA OrderHolds == Spec => [](IInv /\ OrderInv)
<1>1. Init => IInv /\ OrderInv
  BY InitInv, InitOrder
<1>2. IInv /\ OrderInv /\ [Next]_vars => (IInv /\ OrderInv)'
  BY StepInv, StepOrder
<1> QED BY <1>1, <1>2, PTL DEF Spec

(* Events of one lifecycle reach the handler in the order they were read,   *)
(* and none of them twice.                                                  *)
THEOREM WireOrderHolds == Spec => WireOrder
<1>1. OrderInv => \A i \in Runners :
          runner[i].pc = "accepted" /\ runner'[i].pc = "handling" =>
              runner[i].event.value > delivered[runner[i].event.life]
  <2> SUFFICES ASSUME OrderInv, NEW i \in Runners, runner[i].pc = "accepted"
               PROVE  runner[i].event.value > delivered[runner[i].event.life]
    OBVIOUS
  <2>1. Between(runner[i].event)
    BY DEF OrderInv
  <2>2. runner[i].event.life \in Lives /\ runner[i].event.value \in Nat
    BY <2>1 DEF Between, Event
  <2>3. delivered[runner[i].event.life] \in Nat
    BY <2>2 DEF OrderInv
  <2> QED BY <2>1, <2>2, <2>3 DEF Between
<1> QED BY <1>1, OrderHolds, PTL DEF WireOrder

-----------------------------------------------------------------------------
(* The rest of the state: flags, and the number of registrations.           *)
FlagType == live \in BOOLEAN /\ resetting \in BOOLEAN /\ running \in BOOLEAN

LEMMA FlagsHold == Spec => []FlagType
<1>1. Init => FlagType
  BY Zenon DEF Init, FlagType
<1>2. FlagType /\ [Next]_vars => FlagType'
  <2> SUFFICES ASSUME FlagType, [Next]_vars PROVE FlagType'
    OBVIOUS
  <2>1. live' \in {live, TRUE, FALSE}
    BY ZenonT(60) DEF Next, vars, context, On, CancelForReplacement, BeginReset, FinishReset, Disconnect,
       Detach, ReportStep, BeginReport, Snapshot, CheckAgain, GiveUp, Accept, RunnerStep, Deliver,
       HandlerReturns, HandlerCallsDisconnect, DisconnectInHandler, RunnerStops
  <2>2. resetting' \in {resetting, TRUE, FALSE}
    BY ZenonT(60) DEF Next, vars, context, On, CancelForReplacement, BeginReset, FinishReset, Disconnect,
       Detach, ReportStep, BeginReport, Snapshot, CheckAgain, GiveUp, Accept, RunnerStep, Deliver,
       HandlerReturns, HandlerCallsDisconnect, DisconnectInHandler, RunnerStops
  <2>3. running' \in {running, TRUE, FALSE}
    BY ZenonT(60) DEF Next, vars, stream, On, CancelForReplacement, BeginReset, FinishReset, Disconnect,
       Detach, Reset, StartRunner, StartUnlessRunning,
       ReportStep, BeginReport, Snapshot, CheckAgain, GiveUp, Accept, RunnerStep, Deliver,
       HandlerReturns, HandlerCallsDisconnect, DisconnectInHandler, RunnerStops
  <2> QED BY <2>1, <2>2, <2>3, Zenon DEF FlagType
<1> QED BY <1>1, <1>2, PTL DEF Spec

OnsType == ons \in 0..MaxOn

LEMMA RegistrationsHold == Spec => []OnsType
<1>1. Init => OnsType
  BY StreamAssumption DEF Init, OnsType
<1>2. OnsType /\ [Next]_vars => OnsType'
  <2> SUFFICES ASSUME OnsType, [Next]_vars PROVE OnsType'
    OBVIOUS
  <2>1. ons' = ons \/ (ons < MaxOn /\ ons' = ons + 1)
    BY ZenonT(60) DEF Next, vars, On, CancelForReplacement, BeginReset, FinishReset, Disconnect,
       Detach, ReportStep, BeginReport, Snapshot, CheckAgain, GiveUp, Accept, RunnerStep, Deliver,
       HandlerReturns, HandlerCallsDisconnect, DisconnectInHandler, RunnerStops
  <2> QED BY <2>1, StreamAssumption DEF OnsType
<1> QED BY <1>1, <1>2, PTL DEF Spec

(* Every variable of the stream keeps its type.                             *)
THEOREM TypeCorrect == Spec => []TypeOK
<1>1. IInv /\ OrderInv /\ FlagType /\ OnsType => TypeOK
  <2> SUFFICES ASSUME IInv, OrderInv, FlagType, OnsType PROVE TypeOK
    OBVIOUS
  <2>1. delivered \in [Lives -> 0..MaxEvents]
    BY DEF OrderInv
  <2>2. live \in BOOLEAN /\ resetting \in BOOLEAN /\ running \in BOOLEAN
    BY Zenon DEF FlagType
  <2> QED BY <2>1, <2>2, Zenon DEF IInv, StreamType, OnsType, TypeOK, RunnerRecord, ReportRecord
<1> QED BY <1>1, OrderHolds, FlagsHold, RegistrationsHold, PTL
=============================================================================
