------------------------------- MODULE Writes -------------------------------
(***************************************************************************)
(* writeMessageTo of websocket/connection.go: goroutines that write to      *)
(* sockets of one Connection, while others connect, disconnect and read.    *)
(* A write holds the write token, sets the socket's write deadline for      *)
(* itself, and has a watcher that takes the socket down when the write's    *)
(* context ends first.  A writer and its watcher are callers of Connection. *)
(***************************************************************************)
EXTENDS Connection

CONSTANTS Writers,    \* callers that write
          Bounded,    \* those whose context can end, and sets a deadline
          Watcher,    \* the caller that watches each such writer's context
          NoWriter

ASSUME WriteAssumption ==
    /\ Bounded \subseteq Writers /\ Writers \subseteq Callers /\ NoWriter \notin Writers
    /\ Watcher \in [Bounded -> Callers \ Writers]
    /\ \A w, x \in Bounded : Watcher[w] = Watcher[x] => w = x

VARIABLES
    phase,      \* where each writer is
    target,     \* the socket it writes to
    ended,      \* its context has ended
    writeState, \* of the race between the write and its watcher
    failed,     \* WriteMessage returned an error
    token,      \* the writer that holds the write token
    deadline    \* whose write deadline each socket has

writes == <<phase, target, ended, writeState, failed, token, deadline>>
writeVars == <<vars, writes>>

Phases == {"none", "acquire", "deadline", "write", "publish", "join", "check",
           "clear", "release"}

WritesTypeOK ==
    /\ TypeOK
    /\ phase \in [Writers -> Phases]
    /\ target \in [Writers -> Sockets \cup {NoSocket}]
    /\ ended \in [Writers -> BOOLEAN]
    /\ writeState \in [Writers -> {"active", "finished", "canceled"}]
    /\ failed \in [Writers -> BOOLEAN]
    /\ token \in Writers \cup {NoWriter}
    /\ deadline \in [Sockets -> Writers \cup {NoWriter}]

WritesInit ==
    /\ Init
    /\ phase = [w \in Writers |-> "none"]
    /\ target = [w \in Writers |-> NoSocket]
    /\ ended = [w \in Writers |-> FALSE]
    /\ writeState = [w \in Writers |-> "active"]
    /\ failed = [w \in Writers |-> FALSE]
    /\ token = NoWriter
    /\ deadline = [s \in Sockets |-> NoWriter]

In(w, p) == phase[w] = p
Enter(w, p) == phase' = [phase EXCEPT ![w] = p]

(* A step that concerns no socket.                                         *)
Quiet == UNCHANGED vars

(* The locals of a write, as it begins and once it has returned.            *)
Locals(w, s) ==
    /\ target' = [target EXCEPT ![w] = s]
    /\ ended' = [ended EXCEPT ![w] = FALSE]
    /\ writeState' = [writeState EXCEPT ![w] = "active"]
    /\ failed' = [failed EXCEPT ![w] = FALSE]

(* The socket the writer invalidated is closed, by it or by a disconnect.   *)
Settled(w) == pc[w] \in {"using", "idle"}
Watching(w) == pc[Watcher[w]] # "idle"

-----------------------------------------------------------------------------
BeginWrite(w) ==
    /\ In(w, "none")
    /\ TakeCurrent(w)
    /\ Enter(w, "acquire")
    /\ Locals(w, conn)
    /\ UNCHANGED <<token, deadline>>

(* The caller cancels, or the deadline passes.  Once the watcher is gone    *)
(* that only decides which error is returned.                               *)
EndContext(w) ==
    /\ phase[w] \in {"acquire", "deadline", "write", "publish", "join"}
    /\ ~ended[w]
    /\ ended' = [ended EXCEPT ![w] = TRUE]
    /\ Quiet /\ UNCHANGED <<phase, target, writeState, failed, token, deadline>>

(* Variant: a write that never got the token gives it back all the same.    *)
GiveUpReleases(w) ==
    /\ In(w, "acquire") /\ ended[w]
    /\ UseEnds(w)
    /\ Enter(w, "none") /\ Locals(w, NoSocket)
    /\ token' = NoWriter
    /\ UNCHANGED deadline

(* Variant: a write waits for the token whatever becomes of its context.     *)
GiveUpNever(w) == FALSE

(* acquireWrite: a free token and an ended context may both be ready.       *)
GiveUp(w) ==
    /\ In(w, "acquire") /\ ended[w]
    /\ UseEnds(w)
    /\ Enter(w, "none") /\ Locals(w, NoSocket)
    /\ UNCHANGED <<token, deadline>>

Acquire(w) ==
    /\ In(w, "acquire") /\ token = NoWriter
    /\ token' = w
    /\ Enter(w, "deadline")
    /\ Quiet /\ UNCHANGED <<target, ended, writeState, failed, deadline>>

(* SetWriteDeadline replaces whatever deadline the socket has; on a closed   *)
(* socket it may fail, and the write ends there.  Then the watcher starts.   *)
SetDeadline(w) ==
    /\ In(w, "deadline")
    /\ deadline' = [deadline EXCEPT ![target[w]] = IF w \in Bounded THEN w ELSE NoWriter]
    /\ IF w \in Bounded THEN Share(Watcher[w]) /\ mine'[Watcher[w]] = target[w] ELSE Quiet
    /\ Enter(w, "write")
    /\ UNCHANGED <<target, ended, writeState, failed, token>>

SetDeadlineFails(w) ==
    /\ In(w, "deadline") /\ sock[target[w]] = "closed"
    /\ InvalidateFailed(w)
    /\ Enter(w, "release")
    /\ UNCHANGED <<target, ended, writeState, failed, token, deadline>>

(* WriteMessage: on an open socket it may block for as long as the peer does *)
(* not read, or fail; on a closed one it fails.                             *)
Write(w) ==
    /\ In(w, "write")
    /\ \E error \in BOOLEAN :
          /\ sock[target[w]] = "closed" => error
          /\ failed' = [failed EXCEPT ![w] = error]
    /\ Enter(w, "publish")
    /\ Quiet /\ UNCHANGED <<target, ended, writeState, token, deadline>>

(* The completion is published unless the watcher claimed the write first.   *)
PublishCompletion(w) ==
    /\ In(w, "publish")
    /\ writeState' = [writeState EXCEPT ![w] = IF @ = "active" THEN "finished" ELSE @]
    /\ Enter(w, IF w \in Bounded THEN "join" ELSE "check")
    /\ Quiet /\ UNCHANGED <<target, ended, failed, token, deadline>>

(* The watcher: claim the write of an ended context, take its socket down,   *)
(* or see the write done.                                                   *)
WatcherClaims(w) ==
    /\ Watching(w) /\ ended[w] /\ writeState[w] = "active"
    /\ writeState' = [writeState EXCEPT ![w] = "canceled"]
    /\ Quiet /\ UNCHANGED <<phase, target, ended, failed, token, deadline>>

(* Variant: an ended context takes the socket down without claiming it.      *)
WatcherInvalidatesUnclaimed(w) ==
    /\ ended[w]
    /\ InvalidateFailed(Watcher[w])
    /\ UNCHANGED writes

WatcherInvalidates(w) ==
    /\ writeState[w] = "canceled"
    /\ InvalidateFailed(Watcher[w])
    /\ UNCHANGED writes

WatcherCloses(w) == CloseFailed(Watcher[w]) /\ UNCHANGED writes

WatcherEnds(w) ==
    /\ writeState[w] = "finished"
    /\ UseEnds(Watcher[w])
    /\ UNCHANGED writes

Join(w) ==
    /\ In(w, "join") /\ ~Watching(w)
    /\ Enter(w, "check")
    /\ Quiet /\ UNCHANGED <<target, ended, writeState, failed, token, deadline>>

(* A failed write invalidates its socket; then the deferred calls run.       *)
Check(w) ==
    /\ In(w, "check")
    /\ IF failed[w] THEN InvalidateFailed(w) ELSE Quiet
    /\ Enter(w, "clear")
    /\ UNCHANGED <<target, ended, writeState, failed, token, deadline>>

WriterCloses(w) == CloseFailed(w) /\ UNCHANGED writes

(* The deadline is cleared; where that fails, the socket is invalidated.     *)
Clear(w) ==
    /\ In(w, "clear") /\ Settled(w)
    /\ deadline' = IF w \in Bounded THEN [deadline EXCEPT ![target[w]] = NoWriter] ELSE deadline
    /\ Enter(w, "release")
    /\ Quiet /\ UNCHANGED <<target, ended, writeState, failed, token>>

ClearFails(w) ==
    /\ In(w, "clear") /\ w \in Bounded /\ sock[target[w]] = "closed"
    /\ InvalidateFailed(w)
    /\ Enter(w, "release")
    /\ UNCHANGED <<target, ended, writeState, failed, token, deadline>>

(* releaseWrite, and the method returns.                                     *)
Release(w) ==
    /\ In(w, "release") /\ Settled(w)
    /\ token' = NoWriter
    /\ IF At(w, "using") THEN UseEnds(w) ELSE Quiet
    /\ Enter(w, "none") /\ Locals(w, NoSocket)
    /\ UNCHANGED deadline

-----------------------------------------------------------------------------
WriterStep(w) ==
    \/ GiveUp(w) \/ Acquire(w) \/ SetDeadline(w) \/ SetDeadlineFails(w)
    \/ Write(w) \/ PublishCompletion(w) \/ Join(w) \/ Check(w) \/ WriterCloses(w)
    \/ Clear(w) \/ ClearFails(w) \/ Release(w)

WatcherStep(w) ==
    WatcherClaims(w) \/ WatcherInvalidates(w) \/ WatcherCloses(w) \/ WatcherEnds(w)

Others == Callers \ (Writers \cup {Watcher[w] : w \in Bounded})

OtherStep(c) == Step(c) /\ UNCHANGED writes

WritesNext ==
    \/ \E w \in Writers : BeginWrite(w) \/ WriterStep(w)
    \/ \E w \in Bounded : EndContext(w) \/ WatcherStep(w)
    \/ \E c \in Others : OtherStep(c)

WritesSpec == WritesInit /\ [][WritesNext]_writeVars

(* Go runs every goroutine that can go on.  A peer need not read, so a write *)
(* on an open socket is not bound to end.                                   *)
WriterGoesOn(w) ==
    /\ In(w, "write") => sock[target[w]] = "closed"
    /\ WriterStep(w)

OtherFinishes(c) == Finish(c) /\ UNCHANGED writes

FairWritesSpec ==
    /\ WritesSpec
    /\ \A w \in Writers : WF_writeVars(WriterGoesOn(w))
    /\ \A w \in Bounded : WF_writeVars(WatcherStep(w))
    /\ \A c \in Others : WF_writeVars(OtherFinishes(c))

-----------------------------------------------------------------------------
(* A message is never written under the deadline of another write, nor under *)
(* one an earlier write left behind: SetWriteDeadline belongs to the socket, *)
(* not to the write, and only the token keeps two writes apart.             *)
DeadlineIsOwn ==
    \A w \in Writers : In(w, "write") =>
        deadline[target[w]] = IF w \in Bounded THEN w ELSE NoWriter

(* A write whose completion was published before its context ended never has *)
(* its socket taken down by the watcher, however the context and the write   *)
(* race: the connection outlives a request that was cancelled too late.      *)
HealthyWriteKeepsSocket ==
    \A w \in Bounded : writeState[w] = "finished" => pc[Watcher[w]] # "closing"

(* No watcher outlives its write, so a context that ends after its write     *)
(* returned, as every request's does, cannot close the socket under others.  *)
NoWatcherOutlivesWrite ==
    \A w \in Bounded : In(w, "none") => ~Watching(w)

(* A write whose context ends returns, although the peer may never read, the *)
(* token may be held by a write that never ends, and the socket may be       *)
(* claimed by a disconnect that is still to close it.                        *)
CancelledWritesReturn ==
    \A w \in Bounded : ended[w] ~> In(w, "none")

(* The writers and their watchers only do to the slots what any callers of   *)
(* Connection do, so what holds of Connection holds while they write.        *)
ImplementsConnection == Spec
=============================================================================
