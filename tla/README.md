# Verification of xrpl-go

xrpl-go is a Go SDK for the XRP Ledger: clients that talk to a node over a
websocket or over JSON-RPC, signing, a binary codec, typed transactions and
queries, and a builder of confidential-token transactions.  This directory
holds TLA+ models of the parts of it that have behaviour (state shared between
goroutines, servers that fail or trail, ledgers that close, batches whose later
parts depend on earlier ones), the TLC configurations that check them on small
instances, and proofs, checked by TLAPS, of what holds for every instance.
`PROJECT.json` maps every definition to the lines it models and lists runs,
mutants, hazards, findings and theorems.

## 1. Inventory

| Part | State it keeps | Operations | Modules |
|---|---|---|---|
| websocket `Connection` (`connection.go`) | the three socket slots `conn`, `preparing`, `disconnecting` under `mu`; read lock; write token; a write deadline per socket | connect, publish, disconnect, invalidate, read, write with its watcher | `ConnectionSlots`, `Connection`, `Writes`, `Link` |
| websocket `Client` (`client.go`) | current lifecycle context, pinned network identity, pending responses, retry budget | Connect, Disconnect, request, the reader and its reconnection | `WSClient` |
| websocket network identity (`network_identity.go`) | identity of the client; a private socket during the handshake | prepare, discover | part of `WSClient` |
| websocket stream handlers (`streams.go`) | handler, channel, running flag and done channel of each stream; runners detached by a Disconnect | On..., Report, the runner, reset of a lifecycle | `LifecycleStream` |
| reliable submission (`SubmitTx...AndWait` of both clients, `internal/client/finality*.go`, `transaction.go`) | the state of one call: the transaction, the attempts, the round of the polling loop | prepare, inspect, submit, retry, wait | `Submission`, `Finality`, `Outcome` |
| RPC requests (`rpc/client.go`) | none between requests | a request with its retries of 503 | part of `Submission` |
| RPC network identity (`rpc/network_identity.go`) | pinned identity and the discovery in progress | ensureNetworkIdentity | `RPCIdentity` |
| confidential builder: reads (`confidential/builder`: `querier.go`, `preflight.go`, `tx_options.go`, the standalone builders, loading in `batch.go`) | the ledger snapshot; the numbers planned; the entries read | BuildConvert ... BuildBatch, GetSpendingBalance | `LedgerSnapshot`, `BatchNonces`, `Builder`, `Nonces` |
| confidential builder: prediction (`batch_state.go`, `batch_operations.go`) | predicted token state of one batch | prepare and apply one operation | `BatchState`, `ConfidentialToken` |
| autofill of a Batch (`internal/client/transaction.go`) | sequences cached during one call | AutofillBatchRawTransactions | `BatchAutofill` |
| fees, amounts, NetworkID policy (`internal/client`) | none, pure | | no |
| wallet, multisign, batch signing (`wallet/`, `multisign.go`) | none, pure | | no |
| confidential cryptography, keypairs, address codec | none | bindings, curve arithmetic, base58 | no: number theory |
| binary codec | none | serialization | no |
| transaction, ledger-entry and query types | none | field tables, validation | no: no behaviour |
| faucet, currency, hash, examples | none | | no: conversions, pure I/O |

### How the parts interact

The application calls `Client.Connect` and `Client.Disconnect`; the client
serializes the two with a mutex.  `Connect` holds the handshake lock, dials
through its `Connection`, checks the server's network, cancels the lifecycle
before it, publishes the socket, and starts a new lifecycle: a context, one
reader goroutine, and one runner per registered stream handler.  The reader
takes the current socket, reads, and hands a response to the request that waits
for it, or a stream message to a runner over an unbuffered channel.  When a read
fails it invalidates the socket, fails the requests written to it, and
reconnects within its budget, through the same `connect`.  Requests take the
current socket under the shared handshake lock, register, write, and wait for
an answer, a failure or their context.  A write takes the connection's write
token, sets a deadline on the socket for itself, and starts a watcher that takes
the socket down if the write's context ends before the write does; a
compare-and-swap decides between the two.  A Disconnect, which a handler may
call, fails the requests, claims the socket, cancels the lifecycle and closes.
Every one of these is a separate goroutine, and between any two locked regions
of one of them anything of the others may happen.

Reliable submission prepares and signs a transaction unless it is signed
already, checks what it is about to send, submits it, and then uses the client
as a source of two answers, the latest validated ledger and the transaction.
The RPC client has no connection: it sends each request up to its attempts while
the server is overloaded, and its concurrent operations share one discovery of
the network identity.

The confidential builder selects a validated ledger, plans the number each
transaction of a batch spends, reads issuance and tokens from that one ledger,
compares versions with the open ledger, and from then on uses only its own
prediction: each operation is checked and proved against the state the
operations before it are predicted to leave.

### What is hard here

* sockets that outlive the slot they were in, late failures and late closes;
* a Disconnect between any two steps of a reader, a connector, a request or a write;
* a write that completes while its context ends, and one blocked by a peer that
  does not read;
* two generations of readers and runners alive at the same time;
* a request that races with the loss of its socket, its answer and its timeout;
* channels whose only receiver has stopped; a Disconnect inside a handler;
* a submission whose answer is lost, which is retried although it was applied,
  or which arrives late; verdicts about a ledger that moves on between two
  queries, from servers of different progress;
* a shared discovery whose leader fails or is cancelled;
* reads of one build answered from several ledgers; a batch whose later numbers
  and proofs depend on what earlier operations are predicted to do.

`PROJECT.json` lists them as hazards, each at its line with the properties that
would catch it.

### What makes each part correct

* `Connection`: one socket at a time in the slots, nothing leaked, nothing
  closed ever offered, nothing offered twice; a write runs under its own
  deadline, keeps its socket if it was done first, and can be cancelled.
* `Client`: one live lifecycle, the published socket has a reader, requests stay
  on the pinned network, are failed only for a loss of their own and are always
  failed for it, answers arrive, Connect and Disconnect return.
* Streams: calls of one handler are serialized and in wire order, events do not
  cross lifecycles, a registered handler has a runner, nobody is stuck.
* Submission: only what can be monitored is sent; "rejected" and "expired" are
  never said of a transaction that is or will be validated; a cancellation is
  reported as one; the call returns.
* RPC identity: one discovery at a time, one identity, cancellation is private,
  every call returns.
* Builder: the numbers planned are those the ledger asks for; all entries are of
  one ledger; a build goes through or is refused as the ledger would decide.
* Batches: predicted balances are under their owners' keys and agree with their
  mirrors and the supply, no version is bound twice, only invalid batches fail.

## 2. Modules

**`Link`** is what a connection promises to its users: a socket is shown at most
once, never while another one is, and withdrawn for good.  Two variables, two
actions.

**`ConnectionSlots`** holds the locked regions of `Connection` that its users
need: `AdoptDialed` and `RefuseDialed` (second half of `beginConnect`),
`Publish`, `PublishExpired`, `PublishWithdrawn` (`publishSocket`), `Claim` and
`ReleaseClaim` (`disconnect`), `Invalidate` (`invalidateSocketState`).  `sock`
is not a field of the program: it records whether this side has a socket unused,
open or closed.  Closing is the external operation `CloseSocket`, and it always
is a step of its own because the code closes after it unlocks `mu`.

**`Connection`** runs any number of callers through these regions, each with a
label and a local socket: the "safe for concurrent use" contract, without what
`Client` adds.  It implements `Link`, and `Writes` and `WSClient` are shown to
implement it.

**`Writes`** is `writeMessageTo`.  A writer and its watcher are two callers of
`Connection`; the other callers connect, disconnect, read and fail meanwhile.
`phase` is the writer's place, `token` the one-place channel `writeToken`,
`deadline` the write that last set the socket's deadline, `writeState` the atomic
the write and its watcher race for.  A write whose context can end at all (a
deadline, a cancellation) is `Bounded`; only such a one sets a deadline and has
a watcher, as in the code.  The second half of the module is the same promise
seen from outside: `ImplementsConnection`.

**`WSClient`** is the client: the application goroutine `Ctl`, one reader per
lifecycle, and requests.  `pc` labels are places in the functions of
`client.go`; `mine` is the socket a goroutine holds in a local.  `Trusted` is a
network identity given in the configuration with its build version, and
`Complete` that it passes `ValidateNetworkIdentity`; one that does not fails every
handshake, as a mismatch does.  The handshake
lock, the read lock and the write token are not variables: they are held exactly
at certain labels, and `HandshakeLocked`, `HandshakeShared`, `ReaderReading` and
`WriteLocked` say at which.  `connect` has the same actions for the application
and for a reader, as in the code.  The peer may answer a request (`Answer`) or
be lost (`LoseSocket`) at any time.  `resetLifecycle` is one step here, because
waiting for runners is the subject of the next module, and a write is one step
that succeeds, fails or takes its socket down, because `Writes` has the rest.

**`LifecycleStream`** is one stream of the client with its handler, its runners
and the readers that report to it.  `Runners` are identities of goroutines;
a runner's identity also names the channel that was made for it and its done
channel.  A stream's channel survives a second start within a lifecycle, as in
`startLocked`.  `Accept` is the rendezvous on the unbuffered channel.  The other
seven streams of a client are copies that share only the wait in
`resetLifecycle`.

**`Outcome`**, **`Finality`** and **`Submission`**: a transaction has one fate,
validated or never, and the verdict on it agrees (`Outcome`).  `Finality` is the
polling loop of `WaitForFinality` with its attempts, waits, two queries and
context checks.  The network is the environment: ledgers close on their own,
and each query is answered by some server of a pool, which trails the validated
chain by at most `LedgerLag` ledgers when it says which ledger is validated, and
by at most `LookupLag` when it looks the transaction up.  `LookupLag` is 0 or 1,
for the loop stops only when the validated ledger is past the last permitted
one, and a server two ledgers behind could then answer "not found" of a
transaction that is in the last.  `Submission` puts the whole call before it.  A
transaction is the combination of its signing fields (`Transactions`); `Form` is
`InspectSignedTransaction`, `InnerForm` the check of a Batch's inner
transactions, `Prepare` and `Autofill` are `getSignedTx`, `CheckBlob` is what
`submitTxBlobAndWait` asks of a blob.  An `Attempt` may reach the network
whatever becomes of its answer, at once or late; `Overloaded` is the 503 after
which the RPC transport tries again.  An answer that names no engine result is
an `AnswerFails`.  When the transaction is sent its fields are forgotten, since
nothing looks at them any more.

**`RPCIdentity`** is `ensureNetworkIdentity`: a leader registers a discovery,
asks, finishes it and wakes the followers, who take its result or, when the
leader was cancelled, start over.

**`Nonces`** is what a ledger asks of the numbers of one batch: every transaction
spends the next sequence of its account or a ticket it holds.  **`BatchNonces`**
is `planBatchNonces`: `next` and `spent` are the fields of its plan, `open` the
accounts' sequences in the open ledger, `held` the tickets.  **`LedgerSnapshot`**
is `ledgerSnapshot`, with a hash that stands for the ledger it identifies.
**`Builder`** composes them into one call of any builder: options, plan, issuance,
tokens, versions.  Entries are chosen when they are read, from any server's
ledger.  `Usable` and `NeedsFreshVersion` are `mptokenAccess` merged over the
operations that touch a token.  The numbers and the entries of a build have
nothing to do with each other, so the plan is forgotten when it is made
(`PlanMade`), which adds the states of the two phases up instead of multiplying
them.  One issuance is read: the reads of two are two builds, but for the one
snapshot that `OneLedger` is about.

**`ConfidentialToken`** and **`BatchState`**: in plain amounts, the operations of
a batch move amounts between the public, inbox and spending balances of holders,
and a clawback destroys them.  `BatchState` is what `BuildBatch` predicts for one
issuance: `tokens` and `outstanding` are the fields of `tokenState` and
`batchIssuance`, `policy` is what the issuance allows.  A ciphertext is the pair
of a key and an amount; adding two ciphertexts of different keys gives one that
nobody can decrypt.  `CanX` are the checks of `prepareBatchX`, the `Apply...`
operators are the functions of those names, `BuildX` is one operation checked and
applied, and `Fail` ends the call.  `elsewhere` and `bound` are not in the
program: the supply of other holders, and the versions bound by the proofs so
far.  `Loaded` says that the validated ledger is consistent to begin with.

**`BatchAutofill`** is `AutofillBatchRawTransactions`: the loop over the inner
transactions and its cache of sequences, against the numbers the ledger expects.

`MC...` modules name the instances, `...Proofs` modules hold the theorems.

Definitions marked "Variant" are wrong versions of the definition that follows
them, the way a plausible bug would make it.  Nothing uses them except the
mutants of `PROJECT.json`, which show that each property notices them.

## 3. Runs

| Run | Instance | Shows |
|---|---|---|
| `conn` | `Writes`: 2 writers, one with a watcher, 2 other callers, 2 sockets | no leak while writes, cancellations, connects and disconnects race; a published socket is withdrawn by its own users only; deadlines, healthy sockets; abandoned sockets are closed and cancelled writes return |
| `ws_reconnect` | `WSClient`: 2 sockets, 2 requests, 2 networks, 1 Connect, 1 reconnect | identity pinned across a reconnect, only the requests of a lost socket fail; answers arrive |
| `ws_calls` | `WSClient`: 2 sockets, 1 request, 2 Connects, 1 Disconnect, 1 reconnect | no leak, one live lifecycle, `Link`; a live reader gives up only when its reconnections are spent; a request that races with Disconnect returns; Connect and Disconnect return |
| `ws_orphan`, `ws_lost`, `ws_spurious`, `autofill` | 1 or 2 lifecycles; 2 inner transactions | the findings of section 5 |
| `stream` | 2 lifecycles, 2 handlers, 3 runners, 2 events per reader, 2 calls of On | serialization, order, no stale event, no dormant handler, nobody stuck |
| `submission` | `Submission`: last ledger 4 of 6, 3 incomplete rounds, 4 attempts, servers that trail by 1 | what is sent can be monitored; "rejected" and "expired" are final; `Finality`; cancellation; the call returns |
| `rpc_identity` | 3 callers, 2 networks | agreement, no inherited cancellation, calls return |
| `batch_state` | 2 holders, 2 holder keys, amounts to 3, batches of up to 3, versions modulo 4 | from every consistent ledger and policy: keys and mirrors agree, rejections are justified, versions are fresh, `ConfidentialToken` |
| `build` | `Builder`: 2 accounts, batches of 3 numbers and 2 operations, 2 holders, 2 ledgers on each of 2 chains | `Nonces`, justified refusals, one ledger, a build decides as the ledger would, except where an open ledger lacks a token (section 5) |

**Why the bounds are enough.**  A race on a `Connection` needs the two that race
and one that interferes; in `conn` a write can be blocked, cancelled, taken over
by its watcher and overtaken by a second write on the replacement socket.  The
client has two sockets, the lost one and its replacement; `MaxLife` bounds
Connects, `MaxDisconnects` calls of Disconnect, and `MaxReconnects` is the real
configuration value; two lifecycles give a stale reader and a live one.
`ws_reconnect` has one lifecycle and no Disconnect, because `NoSpuriousFailure` is
false otherwise (section 5).  A configured identity is always complete in the runs,
for an incomplete one publishes nothing.
In `LifecycleStream`, `MaxLife`, `MaxEvents` and `MaxOn` let a
stale reader, a detached runner and a new runner be alive together, and handlers
replace each other.  In `submission` the chain runs from well before to past the
last permitted ledger, failures can exhaust the budget or stop just short of
it, and `MaxSends` is the transport's real number of attempts.  In `BatchState`
two holders can be each other's destination and use one key or two, three
operations are enough to convert, merge and spend, an amount of 3 can be split
and the rest spent again, and `StartVersions` is the last version before the
counter wraps; `MaxOperations` (8 in the code) must stay below `VersionLimit`
(2^32), or a batch could bind a version twice.  In `build` two accounts share a
batch with sequences given, predicted and taken from tickets, `MaxSequence` lets
another transaction enter the open ledger once per account, and two holders are
enough for two operations of a batch to share a token, or not.  Most safety
properties are also proved for all bounds (section 4).

**Fairness.**  `FairSpec` assumes weak fairness of each goroutine's own steps:
the Go scheduler runs a goroutine that can go on, a mutex that is free is
eventually given, and dials, closes and identity requests end (they have
timeouts).  Nothing is assumed of servers, of the loss of sockets, of a
request's timeout or cancellation, or of what the application calls next.  In
`Writes`, `WriterGoesOn` excludes the completion of the write itself: a peer need
not read, and a write without a context may then block for ever.
`LifecycleStream` also assumes that handlers return, which the documentation
demands of them.  `Submission` assumes that the client runs and that ledgers keep
closing, and `RPCIdentity` that a request ends.  `BuildSpec`, `BatchState` and
`BatchAutofill` state no fairness: they are sequential, and only their safety is
checked.

**`RacedRequestsReturn`** says that a request whose socket is gone returns
without waiting for its timeout, under the condition that no reader publishes a
socket after the Disconnect that ended its lifecycle (`PublishedIsLive`).  The
condition excludes exactly the behaviour of the findings `ws_orphan` and
`ws_lost`, and what remains is the race the second sweep of `Disconnect` is
written for: a request that registered after the first sweep on the socket the
Disconnect claims.

All configurations switch off the deadlock check, since every system modelled
here may come to rest: requests are answered once, budgets are finite, a build
ends.

## 4. Proofs

Every safety invariant, safety action property and refinement that a run checks
is also a theorem.

| Module | Proved for all constants | Along |
|---|---|---|
| `ConnectionProofs` | `TypeOK`, `OneSlot`, `ShownIsOpen`, `NoLeak`, `WithdrawnByItsUsers`, `ImplementsLink` | an invariant that says which socket each label implies: a dialed socket is in no slot and held by one caller, a claimed one is in `disconnecting` and nowhere else, ... |
| `WritesProofs` | `ImplementsConnection`, from it `NoLeak`, `ShownIsOpen`, `WithdrawnByItsUsers` and `ImplementsLink`; `WritesTypeOK`, `DeadlineIsOwn`, `HealthyWriteKeepsSocket`, `NoWatcherOutlivesWrite` | every step of a writer or a watcher is a step of a caller of `Connection`, or none; the token has one holder and a deadline belongs to it; a watcher is at work only where its writer waits for it |
| `WSClientProofs` | `Conn!Spec` (the client implements `Connection`), from it `NoLeak` and `ImplementsLink`; `TypeOK`, `OneLiveLifecycle`, `RequestsOnPinnedNetwork`, `ReconnectsUntilSpent`; `PublishedIsAttended` and `NoSpuriousFailure` under the conditions below | `Place` and `Held` map each goroutine to a caller of `Connection`; one lifecycle from the labels of `Ctl`; a published socket's network is the identity, which needs that `ready` is set before a publication and the handshake lock is held by one connector |
| `LifecycleStreamProofs` | `HandlersSerialized`, `NoStaleDelivery`, `RegisteredIsServed`, `WireOrder`, `TypeOK` | every runner not yet exited is the stream's own `done`, detached, or waited for by the reset, and these are empty when a new one starts; a channel belongs to one lifecycle, and a reader that is sending found its own; an accepted event lies between the last one delivered in its lifecycle and the next one to be read (`OrderInv`) |
| `SubmissionProofs` | of `Finality`: `TypeOK`, `ExpiredNeverValidated`, `ImplementsOutcome`; of the whole call: `ImplementsFinality`, `RejectedNeverValidated`, `ExpiredNeverValidated`, `SentIsMonitorable`, `SubmissionTypeOK` | a "not found" after a ledger past the last one was seen is final, since inclusion stops there and a lookup trails by one ledger at most; every way through preparation, requests and answers is a submission of `Finality`, and retries and late arrivals keep its invariant; a transaction reported rejected is malformed, and no ledger holds a malformed one |
| `RPCIdentityProofs` | `TypeOK`, `OneDiscovery`, `AnswersAgree`, `NoInheritedCancellation`, `IdentityStable` | a leader is exactly the registered discovery; a finished discovery that succeeded left its answer in the client |
| `BuilderProofs` | `ImplementsNonces`, `RefusalsJustified`, `OneLedger`, `BuiltIsAccepted`, `RefusedIsRejected`, `BuildTypeOK` | tickets and numbers spent stay below the sequence predicted for their account, so neither a predicted sequence nor a created ticket was ever spent; every entry read is of the ledger bound; `ReferencesOf` mentions exactly the holders some operation touches, and what was read before the place `at` passed the checks of all operations that touch it |
| `BatchStateProofs` | `TypeOK`, `MirrorsAgree`, `RejectsOnlyInvalid`, `FreshVersions`, `ImplementsToken` | a registered token's balances are ciphertexts of amounts under its own key with mirrors of their sum; what the tokens hold and `elsewhere` add up to `outstanding`, which bounds each of them; a bound version lies between one and `built` increments behind its token's, fewer than it takes to wrap around |

The assumptions are the named `ASSUME`s of the modules (the configured network
is known or absent, bounds are natural numbers, there are finitely many holders,
identities are distinct, lags as above); TLC evaluates them in every run.  Each
proof states an inductive invariant, shows it initially and for each action in a
step of its own, and derives the property.  The type invariants are left to the
proofs and not repeated in the runs.  The properties alone are not inductive:
`NoLeak`, for example, says nothing of which caller may close which socket, and
`RefusalsJustified` nothing of an operation that was accepted.

**`PublishedIsAttended`** is false once the application disconnects
(`ws_orphan`), so `AttendedUntilDisconnect` says precisely that: it holds in
every state before the first call of Disconnect, for any number of Connects that
replace a live lifecycle and of reconnections.  The argument is `HandshakeInv`
(one connector at a time, and nothing is published while it is at work) and
`KnowsInv` (a live reader that saw its socket fail knows that no other socket is
published, since nobody but itself could publish one), from which a reader that
stops leaves no socket behind.  `PublishedIsAttendedHolds` is the instance of a
client that is never disconnected.  No passing run checks
it: with one Connect and no Disconnect it says little more than that a reader
survives its own publication.

**`ReconnectsUntilSpent`** is about what `PublishedIsAttended` leaves open, a reader
that gives up too early when no socket is published.  It needs no
condition: `KnowsInv` says that the live reader of a lost socket finds no other
socket published, whoever invalidated its own, so of the ways out of
`readMessages` only the spent budget is open to it.

**`NoSpuriousFailure`** is false for the one reason of `ws_spurious`, and
`OnlyStaleSweepsAreSpurious` says that there is no other: for any number of
Connects, Disconnects, reconnections and requests, if no reader whose lifecycle
is over reaches its sweep of all requests while a socket is published
(`StaleSweep`), no request is failed without cause.  A sweep for one socket is
harmless because a socket that was published is never prepared again
(`SpentInv`), so one that a goroutine has invalidated stays unpublished
(`BarredInv`).  `NoSpuriousFailureHolds` shows that with one Connect and no
Disconnect no stale sweep exists.

`RefusedIsRejected` speaks of the two refusals that follow from what was read: a
check on the entries, and a version that the open ledger reports differently.  The
third, that the open ledger does not have the token at all, is left out of it and
of its theorem: the code returns the same `ErrStaleBalanceVersion`, but from a
server of any progress, and what should hold of it does not (`MissingIsSuperseded`,
section 5).

`BuilderProofs` speaks of the plan as the ledger would apply it: a transaction
from elsewhere that spends an account's sequence after the plan has read it makes
the batch fail on the ledger, and no builder can prevent that.

The sum over holders in `BatchState` and the fold over operations in `Builder`
are handled by induction in set form: `NatSet` says that a set of naturals that
has 0 and the successor of each member has them all, and from it follow an
induction over the subsets of a finite set and one over the prefixes of a
sequence, each for a set that is given and not for an arbitrary predicate.

Only model-checked: all liveness (the prover does not handle `ENABLED`, hence
weak fairness), that is `AnswersArrive`, `RacedRequestsReturn`, both
`CallsReturn`, `ResetReturns`, `ReportReturns`, `DisconnectInHandlerReturns`,
`AbandonedSocketsClose`, `CancelledWritesReturn`, `CallReturns` and
`CancellationReported`; and `BatchAutofill`, whose property is violated.

## 5. Findings

1. **`ws_orphan`.** `Connection.disconnect` claims the current socket and only
   later cancels the lifecycle.  If there was no current socket because the
   reader was between a loss and its reconnection, the reader may publish a
   replacement, and pass its last context check, in between.  Disconnect has
   then returned, the reader stops, and a published socket remains that nobody
   reads and nobody will close.
2. **`ws_lost`.** In the same gap, when the reader's last check does notice the
   end of its lifecycle, it closes the socket it has just published and leaves
   without failing the requests registered on it; Disconnect's sweeps are over.
   Such a request waits for its timeout.
3. **`ws_spurious`.** A reader that found no socket fails every pending request;
   one registered on a replacement published meanwhile is failed with it.
4. **`autofill`.** `AutofillBatchRawTransactions` does not count the inner
   transactions that carry a Sequence, and counts one for the Batch also when it
   spends a ticket: a number is then used twice or skipped, and the ledger
   refuses the Batch.

Two more observations have a property in their module and no run:

* `StaleReaderOffReplacement` of `WSClient` is violated: a reader checks its
  context before it takes the current socket, and between the two a Disconnect
  and a Connect can replace the socket; the old reader reads one message of the
  new socket and drops it.  Naming it under `INVARIANTS` of `MCWSOrphan.cfg`
  with `MaxLife = 2` shows it.
* `MissingIsSuperseded` of `Builder` is violated: `requireCurrentBalanceVersion`
  says that "a read that does not demonstrably lead is skipped rather than
  trusted", yet an answer that the token is not there is reported as
  `ErrStaleBalanceVersion` before the ledger indexes are compared
  (`preflight.go:172-174`).  A token created in the snapshot's ledger, looked up at
  a server that trails it, is refused as stale although nothing superseded it.
  Naming it in `MCBuilder.cfg` shows it.

## 6. Not modelled

* The fee calculation, the normalisation of addresses and amounts and the
  NetworkID policy: arithmetic and case distinctions on one transaction.
* Wallets: merging the signatures of several signers and of batch signers.
* The timing of backoff and timeouts (they are choices), the contents of messages,
  messages buffered while the identity is discovered, response size limits, the
  typed queries on top of `request`, and the authorization rules of
  `transport_security.go`.
* A Connect whose `publishSocket` fails after it has cancelled the lifecycle
  before it (`client.go:284`) is in `WSClient`, and it leaves the client without a
  lifecycle as the code does; no property says what it should leave instead.
* A LastLedgerSequence of 2^32-1 is accepted, but no ledger is past it; the models
  have a ledger after the last one.
* Several issuances in one batch, and the ciphertext arithmetic itself.
  Cryptography and codecs are functions over bytes, too large for a small
  instance to say anything.
* Transaction, ledger entry and query types, which are most of the repository's
  lines: field tables and stateless validators, where nothing runs concurrently
  and nothing is kept.

## 7. Plan

Done, in this order: `Link`, `ConnectionSlots`, `Connection`, `WSClient`,
`LifecycleStream`, `Outcome`, `Finality`, `RPCIdentity`, `ConfidentialToken`,
`BatchState`; then `Writes`, `Submission`, `LedgerSnapshot`, `Nonces`,
`BatchNonces`, `Builder`, `BatchAutofill`; and the proofs of section 4.

Left:

1. Proofs: what of `BatchAutofill` does hold, namely that a Batch without a
   ticket and without given Sequences is filled with consecutive numbers; the
   safety part of `CancellationReported`; a statement of when
   `StaleReaderOffReplacement` holds.
2. Messages buffered during the identity discovery, and their order relative to
   the first message read by the new reader.
3. The merge of multisigners and batch signers, as operators checked against
   reference definitions.
