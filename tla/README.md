# A verification project for eth-proxy

eth-proxy is an HTTP service that forwards a few Ethereum JSON-RPC queries to
one of several nodes, and fails over from one node to the next.  This directory
holds TLA+ models of it, the TLC runs that check them, and proofs, checked by
TLAPS, of what matters most.  File names below are relative to the repository.

## 1. Inventory of the system

| Component | Source | State | Operations |
|---|---|---|---|
| multi-node client | `proxy/eth_client.go` | `nodes`, the list of items (id, client) in order of priority; `mu`, a `sync.RWMutex` | `BalanceAt`, `TransactionByHash`, `TransactionReceipt`, `SendTransaction`, `BlockNumber`, `increaseNodePriority` |
| its constructor | `proxy/eth_client.go` 45-75 | `nodes`; `errs` while it runs, and the error text made of it | `NewMultiNodeClient`, `NewEthClient` |
| HTTP handlers | `proxy/api.go` | none; one context of 5 seconds per request | `Status`, `Health`, `Balance`, `Tx`, `TxReceipt`, `SendTx` |
| logging middleware | `proxy/http.go` 132-197 | `entry`, captured by the closure of each endpoint; one `responseRecorder` per request | `logHTTPRequest`, `WriteHeader`, `Write`, `respondWithJSON`, `respondWithError` |
| routing | `proxy/http.go` 16-89 | table of endpoints and their methods, fixed after start | `makeProxyAPIs`, `routes`, `/metrics` |
| HTTP server | `proxy/http.go` 91-130, `proxy/service.go` | `http.Server` | `New`, `Start`, `Stop` |
| process | `cmd/eth-proxy/main.go`, `proxy/config.go` | `cfg`, `sigChan` | `parseYAMLConfig`, `Sanitize`, `main` |
| logger | `proxy/logger.go` | logrus entry | `NewLogger` |
| Go client | `client/client.go` | headers, which nobody changes after `New`; one channel per request | the six operations, `executeRequest`, `sendHTTP`, `doRequest`, `wait` |
| test stack | `internal/stack`, `integrationtests` | simulated chain | `MockEthProxyService` and others |
| keys | `keys` | fixtures | signing helper |

How they interact.  `main` reads the configuration, connects the multi-node
client and hands it to `New`, which builds one handler per endpoint around it.
`Start` spawns the goroutine that listens and serves; net/http runs one
goroutine per request.  Such a goroutine goes through the middleware into a
handler, which creates a context, calls the client once, and writes a response
through the recorder; the middleware then logs it.  All request goroutines
share the client, and, per endpoint, the variable `entry`.  A signal makes
`main` call `Stop`, which lets running requests finish for 5 seconds.

On the other side, a caller of the Go client waits for the response in the
goroutine that sent the request; status code and body are all that the two
programs share.  The contexts of caller and handler have nothing to do with each
other: the handler's comes from `context.Background()`.

What is hard:

* *Concurrency in the client.*  A loop over the nodes holds the read lock for
  one position at a time, during the call to the node; promotions reorder the
  list between two positions.  The promotion itself uses a position read
  earlier.  A waiting writer holds up new readers.
* *Timeouts.*  One deadline covers the whole loop over the nodes.  The wait for
  the lock does not look at it.
* *Lost answers.*  A node may have taken a transaction although the call failed.
* *Text as a protocol.*  `BlockNumber` joins its errors with `|`, `Health` takes
  them apart.
* *The shared log entry* and the recorder that keeps the last status code, where
  net/http keeps the first.
* *Two deadlines.*  The caller's context may end while the handler goes on, and
  with both channels ready `wait` picks either.
* *The status code as a protocol.*  It decides what the Go client decodes the
  body as; the router answers a wrong method with a text, `Health` an
  unhealthy state with a payload.
* *Start and stop.*  Listening may fail, or begin after `Stop`; signals may come
  at any time.

What makes each component correct:

* client: the list stays a permutation; a node moves up only when it has just
  answered; nobody is passed over or asked twice without a promotion to blame;
  every operation returns; a reliable node reaches the head; success of
  `SendTransaction` means that a node said so; the probe's verdict follows from
  all the answers.
* constructor: ids are positions, and it fails only if no URL could be connected.
* handlers and middleware: the status code tells the outcome; errors are logged
  as errors; a line is about the request that logs it.
* Go client: what a caller is told of its operation is true, for good; a call
  that is given up has a reason of its own; every call returns, and a caller who
  leaves leaves nothing behind in the service.
* server and process: nothing is accepted before the service is ready or after
  `Stop`; a clean stop has answered everything; a signal, whenever it comes, ends
  the process.

## 2. Modules

| Module | Extends | Instantiated by | Proved about in |
|---|---|---|---|
| `MultiNodeClient` | `RWMutex`, `BlockHeights` | `MCMultiNodeClient` | `MultiNodeClientProofs`, `ProbeProofs` |
| `Failover` | | `MultiNodeClient`, which implements it | `MultiNodeClientProofs` |
| `HealthProbe` | `BlockHeights` | `MCHealthProbe` | `HealthProbeProofs` |
| `Api` | | `MCApi`, `EthProxy` | `ApiProofs` |
| `ProxyClient` | `Api` | `EthProxy` | `ProxyClientProofs` |
| `RemoteCall` | | `ProxyClient`, which implements it | `ProxyClientProofs` |
| `EthProxy` | `ProxyClient`; instantiates `MultiNodeClient` | `MCEthProxy` | `EthProxyProofs` |
| `Service` | `NodeSetup` | `MCService` | `ServiceProofs` |
| `ServerLife` | | `Service`, which implements it | `ServiceProofs` |

**RWMutex** is Go's lock, which is not in this repository: `Lock` announces the
writer and then waits for the readers of that moment; from the announcement on,
`RLock` queues; `Unlock` turns the queued goroutines into readers.

**BlockHeights** is `absDiff` and the comparison of neighbouring heights, on
integers modulo `Modulus` (2^64 in the program).

**MultiNodeClient** is the heart of the project.

| In the model | In the code |
|---|---|
| `nodes` | `m.nodes`: position (from 0) to id |
| `pc` | where a handler's goroutine is: `rlock`, `fetch`, `call` (line 96), `sent` (the node has taken the transaction), `lock` and `drain` (the two halves of line 82), `done` |
| `op`, `index`, `node`, `err` | the operation, `i`, `node`, and the result `err` |
| `expired` | has the deadline of the handler's context passed? |
| `heights`, `errStr` | `blockheights`, and whether `errStr` is non-empty |
| `accepted`, `lost`, `asked`, `promoted`, `demoted` | history, for the properties |

| Action | Code |
|---|---|
| `BalanceAt` ... `BlockNumber` | entry of the operation |
| `TakeReadLock`, `Fetch` | lines 94-95 and their four copies |
| `Accept` | the node takes the transaction, before it answers or though it never does |
| `ReplyOK`, `ReplyErr` | lines 96-103 of a failover operation, with `RUnlock`, the loop increment and condition, and the early return of `increaseNodePriority` for position 0 |
| `HeightOK`, `HeightErr` | lines 125-138 of `BlockNumber`, and 139-142 after the last position |
| `LockList`, `Promote` | lines 82-88; the swap happens only if the node is still there |
| `Return` | the operation returns; its locals are gone |
| `Expire` | the context's deadline passes, at any moment of the loop |

A node answers, fails at once, or keeps the call waiting; the constants
`Answering`, `Failing` and `Slow` say which of these each node may do, and one
node may do all three.  A call whose deadline has passed fails.  A failed call
says nothing of the transaction: a node of any kind may have taken it, or may
still take it when the call has long failed, which `Accept` anticipates (nobody
but the node can tell the two apart, and only its answer depends on it).  The five
operations share their loop, since the code repeats it; `BlockNumber` branches
off after the node's answer.  Heights are chosen freely from `Tips`.  The
release of the read lock and the local steps that follow it are one action:
nobody else can see the local variables, and what is read after the release
(`node.id`, `err`) is local.

**Failover** is the abstract specification: no positions, locks or deadlines.  A
query is served by one node or fails; only a query that succeeds may change the
order, once, by moving the node that served it up by one place.  `MultiNodeClient`
implements it under the mapping `Phase`, `Server`, `Result`.  A failed answer
inside the loop is hidden there, and so are all the lock's steps.

**HealthProbe** takes the error text of `BlockNumber` seriously.  A text is the
sequence that `strings.Split(text, "|")` makes of it, so appending a message
with its bar, and dropping the last piece, are what they are in the code; a
node may put a bar in its own error text.  The client is the `multiNodeClient`
that `main` passes to `New`.

**Api** runs requests concurrently through router, handler and middleware: check
of the input, call of the Ethereum client, response, assignment of the shared
`entry`, log line.

| In the model | In the code |
|---|---|
| `conn` | the request's connection, which may break at any moment; no handler looks at it |
| `stage` | where the request is: `client` (inside the Ethereum client), `respond`, `merge` (`http.go` 148), `emit` (158-161), `done`; `unrouted` if the router answered |
| `wire` | the status code and kind of body that reach the HTTP client |
| `recorder` | `statusCode` and `response` of the `responseRecorder` |
| `entry`, `log` | the captured `entry` of each endpoint, and the lines logged |
| `outcome`, `merged` | history: what the Ethereum client returned; the order of assignments to `entry` |

`NotAllowed` is the router's answer to a wrong method, past the middleware.
`Reject`, `Accept`, `ClientReturns`, `Respond` and `Status` are the parts of the
handlers; a call of `respondWithJSON` or `respondWithError` belongs to the action
that makes it.  A payload too big for net/http's buffer is sent at once and its
`Write` can fail; the handlers answer that with a second response.  The checks
`len(txHash.Bytes()) != 32` never fail, since `common.HexToHash` pads or crops to
32 bytes.

**ProxyClient** puts the Go client in front of it.

| In the model | In the code |
|---|---|
| `call` | `sent` (inside `Do`, line 183), `decoding` (lines 138-151), `waiting` (line 203), `returned` |
| `ctx` | has the caller's context ended? |
| `resp` | the channel `op.resp` |
| `answer` | what the call returned: `ok`; an error with the proxy's text (`message`) or with none (`empty`); `ErrMethodNotAllowed` (`method`); the context's error (`timeout`); any other (`failed`) |

| Action | Code |
|---|---|
| `Send`, `CannotSend` | `doRequest` up to the request on its way, or an error before that |
| `Receive`, `GiveUp`, `ConnectionLost` | the outcomes of `Do`; giving up closes the connection |
| `MethodNotAllowed`, `BodyLost`, `Deliver` | `sendHTTP` after `Do` |
| `WaitTimeout`, `WaitResponse` | the `select` of `wait`, which takes either when both are ready |

`executeRequest` is modelled for any endpoint and method.  The six operations
always choose the endpoint's own method and a well-formed path, but the
repository's tests call `executeRequest` with others.  The retries that
net/http's transport makes by itself, for a GET on a connection that was idle,
are left out: they change nothing but the time.

**RemoteCall** is the abstract specification: the proxy refuses an operation,
which is then never begun, or it begins it by handing it to the nodes, after
which it is done or has failed.  A caller is told what has been settled, and only
afterwards; or is told, at any time, that nobody knows.  `ProxyClient` implements
it under `Begun`, `Settled` and `Told`.  So a retry is as good as a first call only
after a refusal, which is an error with status 400 or `ErrMethodNotAllowed`.  After
any other error, or when the caller has left, a transaction may be in a node's
pool: `SendIsTold` says at which nodes.

**EthProxy** composes the two with the multi-node client: a handler's call
(`CallNodes`) is the entry of its operation in `MultiNodeClient`, its return
(`NodesReturn`) the return of that, with `outcome` decided by `err`.  The
operation's steps in between (`InNodes`) interleave with everybody else's.
`taken`, `unheard` and `reported` keep the history of an operation that is over:
who took its transaction, whose answer was lost, and the heights of its probe.

**NodeSetup** is `NewMultiNodeClient`; **Service** extends it with `main`, the
server goroutine and the signals.  `errs` becomes the text of an error (`message`) or,
if any node could be connected, disappears.  A configuration field is absent, given or
invalid.  `Interrupt` and `Terminate` are signals, which may come at any time: before
`Notify` they end the process, afterwards an interrupt waits in `sigChan`, whose room
for one (`Buffered`) keeps it until `main` receives.  http.Server looks at its shutdown flag before it listens and again
before it serves, which is what makes the race between `Start` and `Stop` safe.

**ServerLife** is what all of it promises to those who connect: the process opens
at most once, accepts requests only while it is open, and then either stops when
all of them have been answered, or aborts the ones that have not.  `Service`
implements it under the mapping `Life`.

## 3. Runs

`tlc -config X.cfg M` with the module named in `PROJECT.json`.

| Run | Instance | Shows |
|---|---|---|
| FailoverOrder | 2 handlers, 3 nodes that answer or fail, a failover operation and the probe | `TypeOK`, `NoNodeLost`, `LockDiscipline`, `NodeStable`, `NoSilentSkip`, `NoSilentRepeat`, `PromotionEarned`, `OperationsWindDown`, `ImplementsFailover` |
| Deadlines | 2 handlers that send and probe, 2 nodes that answer, fail, take a transaction and then fail, or hang; heights 0, 3, 4, `Modulus` 10 | `SentIffAcknowledged`, `ProbeVerdict`, `LockIsPassedOn`, `EveryOperationReturns` |
| HungHead | 2 handlers, all five operations, node 0 never answers | `HungHeadServesNothing` |
| Convergence | 3 handlers that never stop, 3 nodes, only the last answers | `ServersStayAhead`, `ServedMovesUp`, `ReliableHeadEventually`, `EveryOperationReturns` |
| HealthReport | 4 nodes, heights 0, 3, 4, 8, error texts with and without a bar | `HealthListsEveryFault`, `NothingInvented` |
| Requests | 2 concurrent calls on the whole way, 2 nodes of which one may fail and one hang, heights 0 and 4 | `CodeTellsOutcome`, `ErrorsLoggedAsErrors`, `LinesAreFresh`, `OnlyHealthIsMute`, `NoAnswerThrownAway`, `SendIsTold`, `HealthIsTold`, `NothingLeftBehind`, `NobodyHangs`, `EveryStepCounts`, `ImplementsRemoteCall`, `EveryCallReturns` |
| Lifecycle | 3 URLs, two of them equal, 2 requests | `UsableList`, `ServesOnlyWhenReady`, `PanicsWithCause`, `NeverStuck`, `ImplementsServerLife`, `SignalEndsProcess` |

Bounds, and why they are enough:

* *Two handlers* give every pair of a loop and a promotion.  *Three* are needed
  for a goroutine to queue behind a writer that waits for a reader, which
  happens in Convergence.
* *Three nodes* are the fewest for which a promotion can happen both ahead of
  and behind a loop that has begun, and a node can move twice.  Two suffice for
  the lock.
* The four failover operations are the same code up to the call of the node;
  FailoverOrder uses one of them, Deadlines the one that differs, HungHead all.
* *Heights* lie below, at and above the limit of 3; *Modulus* is so small that a
  subtraction the wrong way round lands near zero or at the limit.  Requests has
  two heights only, which are too far apart: what it adds is who is told.
* *Requests*: one call goes to any endpoint by either method, with a caller who
  may leave and a connection that may break at any moment.  The other sends a
  transaction and is patient (`CONSTRAINT SendsAlongside`, `ACTION_CONSTRAINT
  Patience`): it is the one that must not suffer from the first.  Two calls that
  both send are among these, so that they share the log entry as well as the
  nodes.  Four endpoints stand for six: `Balance` does what `SendTx` does without
  the transaction, and `Tx` what `TxReceipt` does without an absent receipt.  The
  safety properties are proved for all endpoints, requests and nodes.
* Handlers are interchangeable in `MultiNodeClient`, so they are symmetric in the runs
  that check only safety.
* No counter is unbounded: a handler returns to `idle` and starts anew.

`CHECK_DEADLOCK FALSE` appears where the system comes to rest: a health probe or
a set of calls that is over, and a process that has ended.  The client of
`MultiNodeClient` never rests, and there deadlock is checked.

Fairness.  Every step of a running goroutine is weakly fair: the Go scheduler
runs what can run, and timers fire.  `LockList` is strongly fair, since
`sync.Mutex` hands the lock to a waiter that has starved.  A slow node owes no
answer; only its deadline is fair.  Requests need not arrive, except in
Convergence, which is about a service under load.  In `Service` only the steps
of `main` are fair; whether requests are answered and signals sent is up to
others.  In `EthProxy` one weak fairness on `Progress` is enough, since a run has
finitely many calls and every loop is bounded: as long as some goroutine can go
on, or a deadline of a handler pass, or a connection deliver what was sent, one
of these happens.  Not among them are that a caller makes a call, that its
context ends, that a connection breaks, and that a slow node answers.

### Where the program does not do what is said of it

Each of these runs violates one statement of a comment, log message or document.

| Run | Statement | What happens |
|---|---|---|
| TipsDisparity | `eth_client.go` 115: heights further apart than `blockDiff` are an error | only neighbours are compared: 0, 3, 6 is healthy |
| HealthCoverage | `api.go` 67: health ensures that the clients are ready | a promotion during the probe makes it ask one node twice and one never |
| TipsMessage | `eth_client.go` 134: the message names the two nodes that differ | it names `index-1` even if that node failed |
| WarningRace | `http.go` 155: error responses are logged with their data | two requests share `entry`; a warning may show the other one's data |
| PortInUse | `service.go` 40: "listening on port" | logged even if listening fails |

Five smaller observations from reading the code have no run: ids are positions
among the nodes that could be connected, not in the URL string
(`eth_client.go` 41, 61); URLs that could not be connected are dropped without a
word if another one could (`eth_client.go` 72-74); after a failed write the recorder has code 500 where
the wire has 200, so a warning need not mean an error response (`http.go` 175);
the failures in a 503 of `/health` never reach a caller of the Go client, whose
error has an empty text (`client.go` 142, the exception that `OnlyHealthIsMute`
makes); and `Health` cuts away an error text that has no bar at all, which a client other
than `multiNodeClient` may return (`api.go` 83, `internal/stack/mock.go` 38).

## 4. Proofs

`tlapm M.tla` for each of the modules below.  The theorems hold for every value
of the constants that satisfies the named assumptions.

### The multi-node client: `MultiNodeClientProofs`, `ProbeProofs`

For any number of nodes and handlers, whatever the nodes do, under the
assumptions `N > 0` (the constructor refuses an empty list), `NoHandler \notin
Handlers`, and that each node can do at least one of the three things a node can
do.

The inductive invariant is

```
IInv == TypeOK, LoopInv, LockDiscipline, NoNodeLost, NodeStable, NoSilentSkip,
        RepeatInv, HungInv, SentInv
```

Why the properties alone do not suffice:

* `LoopInv` ties the program counter to the locals: the position of a loop is in
  the list, a promotion happens away from position 0 and after an answer.
  Without it not even `TypeOK` is inductive.
* `LockDiscipline` is what makes `NodeStable` inductive: a swap waits until there
  are no readers, and every caller is a reader.
* `NoSilentSkip` and `NoSilentRepeat` say where the nodes are that a loop has
  asked.  A promotion moves two neighbours; if exactly one of them crosses the
  loop's position, it is in `promoted` or `demoted`.  `RepeatInv` also covers the
  moment of the call, where the node in flight stands at the position itself.
* `HungInv` adds to `HungHeadServesNothing` that a loop past the head has
  outlived its deadline.  The hung head may have taken the transaction; it never
  says so.
* `SentInv` follows `accepted` and `lost` through the loop.

From it follow `TypeCorrect`, `LockUsedProperly`, `ListStaysPermutation`,
`NodeInFlightStable`, `SkippedNodesHaveServed`, `RepeatedNodesWereOvertaken`,
`SendReportsAcknowledgement`, `HungHeadBlocksService`, `PromotionsAreEarned`, and
`ClientImplementsFailover`: the mapped initial state is one of `Failover`, and
under `IInv` every step maps to a step of it or a stutter.

Liveness needs fairness, which the prover cannot use, but what fairness has to
work with is a matter of safety, and proved.

* For `EveryOperationReturns`: `NobodyWaitsInVain` (a handler that cannot go on
  waits for one that holds the lock and can) and `OperationsAreBounded`
  (`StepsLeft`, a natural number, falls with each step of an operation and rises
  with nobody's).  The first is why a loop that holds the read lock may wait for
  a node but never for the lock, and why the deadline suffices for the rest.
* For `ReliableHeadEventually`: `DeadNodesNeverOvertake` and `EveryServiceMovesUp`.
  Both rest on `ServedInv`, that a promotion which is waiting for the lock is about
  a node that answers.  The second adds `PlaceInv` for requests that carry a stale
  position: the only node that answers is never behind the position at which a
  request has found it, since nobody is ever promoted past it
  (`OnlyServerNeverFalls`).

`ProbeProofs` adds `ProbeTellsTheTruth` (`Spec => []ProbeVerdict`), for every
number of nodes, set of heights and `Modulus`.  Lemma `Distance` of
`BlockHeightsProofs` shows that the subtraction in `absDiff` never wraps,
`AgreeStep` that comparing each height with
the one before it decides whether all neighbours are near.  The invariant added
to `IInv` is `ProbeInv`: in the loop, `errStr` is empty iff every position so far
has given a height and these agree.

### The health probe: `HealthProbeProofs`

For any number of nodes, any heights, and error texts of the nodes with or without a
bar of their own.  `HealthInv` speaks of the set of pieces that the text says before its
last bar: each is about something that has happened, and all that has happened
is among them.  Lemma `PlusSays` is the reason: appending a message with its bar
adds the message's pieces to the set and keeps an empty piece at the end, the
one that `Health` cuts off.  From it follow `NoFaultIsLost` and
`NoFaultIsInvented`.  `VerdictSurvivesTheText` closes the gap to the probes of
`MultiNodeClient`, which know no text: with `Accounted` (every position gave a
height or is silent) the text is empty iff all heights came and are near, which
is `ProbeVerdict` (`HealthyIffAllNear`; TLC checks the two properties that imply it).

### Handlers and middleware: `ApiProofs`

For any number of requests and any endpoints.  `ApiInv` adds to the properties
`ServedInv`, which says for each stage what is on the wire and in the recorder
(a failed `Write` may leave the two with different codes, but never with an error
code on the wire and a success in the recorder), and `EntryInv`: between its
assignment and its line, a request finds in `entry` itself or somebody who was
merged after it.  From it follow `CodesTellOutcomes`, `ErrorsAreLogged` and
`LogLinesAreFresh`.

### The Go client: `ProxyClientProofs`

`CallersAreHTTPClients` shows that the Go client and the service together are a
behaviour of `Api`, whatever the client does, so that `ApiInv` holds there too.
`CallInv` adds where a call can be while its request is where it is, and what
the channel and the answer say of the wire.  From it follow `ErrorsHaveTexts`,
`NothingThrownAway`, and `CallersAreToldTheTruth`: every step is one of
`RemoteCall` or a stutter.  What carries the refinement is that the service
answers 400 exactly when it has not called the Ethereum client, which `ApiInv`
says of the wire.

### The whole path: `EthProxyProofs`

`WholeIsCalls` and `WholeRunsNodes` show that the composition is a behaviour of
`ProxyClient` and, with the requests as handlers, of `MultiNodeClient`; both
invariants carry over, the second through an instance of `MultiNodeClientProofs`.
`WholeInv` joins them: a request is in the multi-node client exactly while its
stage is `client`, in the operation of its endpoint, and what its operation has
left in `taken`, `unheard` and `reported` agrees with its outcome.  From it follow
`SendersAreToldTheTruth`, `HealthCallersAreToldTheTruth` and
`NoHandlerStaysBehind`.

What is proved of the multi-node client alone is used in the whole:
`WholeImplementsFailover` and `WholeKeepsNodesAndLock` are its theorems, carried
over.  `NobodyWaitsInACircle` (`NobodyHangs`) chains three of them: a caller that
cannot go on has a handler that can (`CallGoesOn`), or whose operation waits for
the lock, which somebody holds who can go on (`NobodyWaitsInVain`).
`NothingIsPutOff` (`EveryStepCounts`) adds up what is left of the call, the handler,
the operation inside it, the connection and the context.  A step of an operation
that reorders the list touches all loops' lists, but none of their counts
(`LeftDepends`).  Together the two are what `EveryCallReturns` needs besides
fairness: some step is possible as long as a call has not returned, and there are
finitely many.

### The process: `ServiceProofs`

For any non-empty list of URLs and any number of requests.  `SetupInv` says of
the constructor's list that it has the nodes of the URLs tried so far, in order;
`ProgressInv` how far `main` has come and what must be in place by then;
`ServerInv` what the server does meanwhile, above all that it is not serving once
`main` drains, also if it was still to listen when `Stop` began.  From them follow
`ListIsUsable`, `ReadyBeforeServing`, `PanicsHaveCauses` and `ClosedAfterStop`.

`ClientStartsAsAssumed` ties the constructor to `MultiNodeClient`: what it returns is
not empty, and item p is at position p, which is what `NAssumption` and `Init`
there assume.  `MainIsNeverStuck` (`NeverStuck`) is the safety core of
`SignalEndsProcess`: a signal that is in the channel is taken, and `Stop` returns with the deadline if the
requests do not.  `ProcessImplementsServerLife` is the refinement of `ServerLife`,
which promises more than `ClosedAfterStop`.
Two more invariants carry these: `Listens` (while `main` waits, it is registered for
the signal) and `ClosedForGood` (a listener is closed only once `main` drains, so
that the server does not go back from open to closed).

### Only model-checked

Liveness (`EveryOperationReturns`, `ReliableHeadEventually`, `EveryCallReturns`,
`SignalEndsProcess`): fairness speaks of ENABLED, which is out of the prover's
reach.  Their safety cores are proved, as said above; that fairness turns these
into progress is what TLC checks.  All safety properties of the passing runs are
proved, the action properties and the three refinements among them.

## 5. Not modelled

* `/metrics`: the Prometheus library, registered on one line.
* The payloads: balances, transactions and receipts pass through unchanged and
  the model only keeps whether they came.  Likewise the headers of the Go client.
* Formatting of log lines, build information, build files.
* The test stack (`internal/stack`, `integrationtests`): a harness, driven by one
  goroutine, around go-ethereum's simulated chain.  What it starts of this
  repository is in `Service`.
* `keys`: two JSON texts of 4004 lines each, which make up most of the
  repository's lines of Go, hold keys and signatures for one test; `Sign` is one
  call into go-ethereum's crypto.  There is no behaviour in them, so that a map
  from the model to the source can never cover more than the other 1400 lines.

## 6. Plan

1. Done: every component of the service and its Go client is modelled, all safety
   properties are proved, and so are the safety cores of the liveness properties
   and the link from the constructor to the client.
2. Left: the composition of `Service` with `EthProxy`, so that the requests that
   `Stop` waits for are those of the handlers.  `NobodyHangs` and `EveryStepCounts`
   then say when it need not wait in vain.
