# A TLA+ model of faultline

faultline is a fault-injecting proxy for HTTP, gRPC, raw TCP, PostgreSQL and MySQL.
A rule of its configuration selects *flows* (an exchange, a connection, a command cycle of
a database session) and applies one fault to each selected flow; a recorder writes what
happened to an artifact; the configuration can be reloaded, or edited through a managed API
that keeps it on disk. This directory holds TLA+ modules of the parts in which order,
failure and concurrency matter, the TLC runs that check them on small instances, and TLAPS
proofs about most of them. `PROJECT.json` lists components, runs, mutants, hazards and
theorems, and maps each definition to the lines of `src/` it models. All paths below are
under `src/`.

## The system and its parts

| Part | Source | Modules | State |
| --- | --- | --- | --- |
| Recorder | `internal/recorder` | `FlowEvents`, `Recorder` | modelled; safety proved |
| Control service, engine | `internal/control/service.go`, `internal/engine` | `Control` | modelled, matching is arbitrary; safety proved |
| Managed store and API | `internal/control/remote` | `Managed`, `DurableConfig` | every write modelled, login is not; safety and refinement proved |
| TCP proxy | `internal/proxy/tcp` | `TcpFlow`, `Serve` | modelled; conservation, exactness and refinement proved |
| PostgreSQL proxy | `internal/proxy/postgresql` | `PgServer`, `PgExchange` | modelled; safety and refinement proved |
| MySQL proxy | `internal/proxy/mysql` | `MySqlSession`, `Serve` | modelled; safety and refinement proved |
| HTTP and gRPC proxy, fault executors | `internal/proxy/http`, `internal/proxy/grpc`, `internal/fault` | `HttpExchange`, `GrpcTimeout`, `Serve` | exchange modelled; its safety and refinement and the conversion of timeouts proved |
| Local admin socket, process | `internal/control/admin`, `cmd/faultline` | `Serve` | modelled; order of shutdown and of control events proved |
| Configuration | `internal/config` | `FaultRules` | rules for faults and selectors, proved sufficient |

How they interact. An adapter accepts a connection, asks the service for the active
*snapshot* (`Acquire`), and decides with that snapshot for the whole life of the flow. The
engine of a revision numbers the eligible flows of each rule and selects from the numbers.
The adapter tells the recorder `flow_started`, `decision`, `fault_applied` and
`flow_finished`; the recorder counts what it is told and trusts the adapter with the order.

The models are composed where the code is:

* `FlowEvents` states the order of a flow's events. `Recorder` assumes it, and
  `RecordsInOrder` shows that `TcpFlow`, `PgExchange`, `MySqlSession` and `HttpExchange`
  each implement it (a refinement with the life of the flow as mapping), which is proved
  for all four.
* `FaultRules` states which faults a validated configuration has. `HttpExchange` extends it
  and takes its faults from it; `ValidFaultsExecute` shows that every adapter finds the
  optional fields it dereferences.
* `Serve` assumes that a flow ends once its server has cancelled it. `ConnectionEnds`,
  `SessionEnds`, `ExchangeEnds` and `CancelAndCloseWork` show that of the adapters.
* `ApplyRevision` calls `persist`, which saves the data directory under the publication lock.
  `Control` models the callback by its two results, and `Managed` what is behind it.

### What makes it hard

* The gauges of the recorder are unsigned and are decremented on the word of the adapters.
* Flows outlive the configuration that they decide with.
* `persist` does file I/O while it holds the lock of the service.
* Processes stop between any two system calls; a rename can be visible and not durable.
* Timers, pumps, contexts, hooks and peers race for the end of each flow.
* The proxy follows a transaction by the tags and status flags that a database sends.
* Outcomes are decided by deferred calls, some of them while a panic passes.
* Shutdown runs deferred calls in reverse order beside flows that have not yet noticed.

`PROJECT.json` lists each hazard at its line with the properties that would catch it.

## The modules

### Recorder (`Recorder`, `FlowEvents`, `RecorderProofs`)

State: the counters and the outcome map, the bounded queue, the event in the writer's
hands, the sink, the mutex (free, or held by a `Record` whose send was accepted or
refused), what each `Close` call is doing; as history the log of all calls of `Record`.
`RecordBegin` tallies and sends, `RecordEnd` counts the delivery: between the two the
writer may already have taken and written the event. The writer takes, encodes and counts
in separate steps. A failed encode breaks the encoder for good. `Close` marks the queue
closed, waits for the writer, or gives up at its deadline and tells the writer to stop.

An event is its type, flow, flags and outcome. Time stamps and the other fields are left
out, and so is the JSON encoding: an encoded event is in the sink or it is not. Events
outside a flow (control events) only use the queue, like any other event.

### Control (`Control`, `ControlProofs`)

State: the active snapshot, the documents of the revisions published so far, three counters
for each rule of each revision (eligible, selected, numbers drawn), the mutex and the call
in progress, and for each flow its snapshot and decision. `SetEnabled` and `Apply` are one
step each, as they hold the mutex throughout. `ApplyRevision` is two: up to `persist`, and
the result of `persist`. `managed` says whether the service has a `persist` callback: with
one, `Apply` is refused and editors name the revision they have read.

A document is a sequence of rules with a matcher (a set of requests), a selector and the
infrastructure that only a restart may change. The generator of a rule is a constant
sequence of outcomes, because its seed is the rule's and nothing else reads from it. The
first revision is number 1; a managed service may start at a later number, which shifts
every number alike.

### Managed store (`Managed`, `DurableConfig`, `ManagedProofs`)

State: `state.json` as a process sees it and as a power failure would leave it, the instance
lock, and for each process its mode, the step of the save in progress, the copy in memory,
whether the store is poisoned, and the active configuration. The actions are the steps of
`atomicFile` (temporary file with rename, sync of the directory), the requests that start
a save (`configure`, bootstrap, toggle, apply, and any request that only leaves an
audit entry), their completions, and the failures: a save refused before the rename, a
failed sync after it, the end of a process, the loss of power.

`DurableConfig` is what the directory promises: a committed configuration replaced only by
later revisions, and acknowledgments of committed configurations only. `CommitsAreDurable`
shows that `Managed` implements it, with the durable file as the committed configuration.
Audit entries are an operation and a revision. That parsing gives back what encoding wrote
is assumed. Login and sessions are not modelled: they change neither file nor service.

### TCP connection (`TcpFlow`, `TcpFlowProofs`)

One connection from accept to release: the goroutine of `serve`, the two pumps, the fault's
timer and the timer of a hold, the context that the request timeout or `Close` of the server
ends. The mutex of `faultState` is explicit, as `activate` records with it held. Bytes are
counted, not named: each direction has what it took from its source, forwarded, discarded
and still holds. Peers write, close, reset or do nothing at any step. `pace` is no step of
its own: a delay between two writes is not observable without a clock.

### PostgreSQL (`PgServer`, `PgExchange`, `PgExchangeProofs`)

`PgServer` has the connections of a server from accept to release: the handshake slots, the
session slots, TLS negotiation, the stages of authentication, the cancel keys, and `Close`.
What a session exchanges is one step there, and is `PgExchange`: the client pump and the
backend pump with their channels of one frame, the main loop, the database, the timers and
the context. Frames are their kind; a query is the sequence of statements in it. The
database (external) has a transaction block status, may fail any statement, and skips what
follows an error as the protocol says. A client sends a new frame at any time, whether or
not it has been answered. What a frame is gets chosen when the loop takes it from the
channel, not when it is sent: nothing looks at it in between.

### MySQL session (`MySqlSession`, `MySqlSessionProofs`)

One connection from its slot and the handshake (TLS where the listener requires it, the
rounds of authentication) to the loop over its commands, with both pumps, the timer of a
cycle and the hook that cancels on it. The database (external) keeps a transaction status
and the statements it has prepared, and answers with its status flags; the proxy keeps its
own view of both, and the properties compare the two. Column definitions are one packet,
rows are left out, and a packet with a wrong sequence number is a malformed packet.

### HTTP exchange (`HttpExchange`, `HttpExchangeProofs`) and timeouts of RPCs (`GrpcTimeout`)

`ServeHTTP` is one goroutine whose steps are its waits: slot, decision, executor, round
trip, copy of the response, deferred calls. Beside it run the transport that reads the
client's upload (through `fault.Body` if the fault is one of the request body, perhaps still
after an early response), the discarding of a withheld upload, the deadline and the hook on
the context that ends the connection. `net/http` is external: a round trip may answer early,
fail, and go on reading the upload after either; `ReverseProxy` gives an error to the error
handler before the response has begun and panics after that. `Builtin.Execute` and `Body` are
part of the actions in which they run. A body is the number of its bytes.

`GrpcTimeout` has `Timeout` and `TimeoutHeader` as operators on numbers of nanoseconds. The
digits of a header are the number they denote.

### Process (`Serve`, `ServeProofs`)

`serve` of `main.go` as a stack of deferred calls: each server that starts pushes its
`Close`, a failed start, a signal or a failed listener runs the stack. Each of the four
servers has its state, its accept loop and the connections in its wait group. For HTTP the
wait group is entered through `track`, under the mutex that `Close` takes, and a drain
(`Shutdown`) comes before `Close`. The requests of the local admin socket change the service
and record their control event under the mutex of the admin server.

### Faults and selectors (`FaultRules`)

`validateFault`, `validateSelector` and the capabilities of each protocol as predicates, and
beside them what each adapter and `selectAttempt` read. An optional field is the empty set,
or the set of its value. The theorems about them are in `HttpExchangeProofs`, as `HttpExchange`
takes its faults from here.

## The runs

Each run has its bounds in its `.cfg`. Every property of a passing run has a mutant in
`PROJECT.json`: a change of the model, as a plausible mistake in the code would make it, that
the run catches.

| Run | Instance | What holds |
| --- | --- | --- |
| `recorder` | 1 flow, queue of 1, 2 closers, a sink that fails or blocks | Counters do not wrap; every event is written, dropped or pending; gauges equal what is open; with nothing dropped the artifact is complete; a nil `Close` left nothing behind; `Close` returns |
| `control` | 3 flows, 3 documents, 2 editors, 3 revisions, both modes | Numbers name one snapshot; rules number their flows without gaps; selectors select what they say; random decisions depend on the number only; no update lost; no switch undone |
| `managed` | 2 processes, 2 documents, 4 revisions, processes die | A revision number names one document across restarts and `configure`; flows run on what is stored |
| `managed_power` | 1 process, 2 revisions, power fails | Implements `DurableConfig`; a toggle is audited on disk first; an uncertain commit stops the instance |
| `managed_exit` | as `managed`, lock released before handlers end | *violated*: two processes may write (see Findings) |
| `tcp_flow` | every action and trigger, 3 bytes each way | Byte triggers are exact; a hold lets at most one write through; bytes are conserved; events in order; every connection ends |
| `pg_exchange` | 2 client frames, batches, savepoints, errors, COPY | Decisions on real commits only, and on each of a single-statement cycle; withheld acknowledgments stay withheld; `ReadyForQuery` ends its own cycle; events in order; cycles and cancelled sessions end |
| `pg_exchange_eof` | 3 client frames, no timers | *violated*: an EOF behind two pipelined frames does not end a wait (see Findings) |
| `pg_server` | 3 connections to a TLS listener, 1 session, 1 spare handshake | Sessions are authenticated, private and limited; keys are live; nothing outlives `Close`; sessions alone cannot keep a cancel request out; a cancel request ends its session and `Close` returns |
| `mysql_session` | 3 commands, 6 statements, 1 prepared statement | Decisions on real commits only; withheld acknowledgments stay withheld; proxy and database are in step between commands; events in order; commands and sessions end |
| `http_exchange` | 3 protocols, 12 faults, bodies of up to 2 bytes | Outcomes are true; a fault does what its action says and no more; no hook, deadline, slot or reader is left on the connection; events in order; every exchange ends |
| `serve` | a request, a connection, 2 admin requests, 1 failing listener | No flow records after the shutdown summary; control events of the socket are in order and complete; a signal or a failed listener ends the process |

### Bounds

A queue of one event is the least with overflow and an event in the writer's hands; two
closers are the first to close and one that finds it closed. Two flows under a blocked sink
exceed what TLC explores in minutes (more than 3.9 million states); the safety properties are
proved for any number. Three flows and three revisions let a flow of an old revision decide
between two of a new one, twice for `nth` and `every` with n = 2. Two processes are a `serve`
and a `configure`, or two generations of one. An audit ring of one entry overflows on every
save. Three bytes with a trigger at two reach a read before, at and across the trigger; the
buffers of 3, 1 and 2 bytes stand for 4096, 1024 and 16 KiB, and the proofs are about any
sizes. Two PostgreSQL frames are a transaction block and its `COMMIT`, or a pipelined frame
behind a batch that commits; a third is only needed to fill channel and pump
(`pg_exchange_eof`). Three MySQL commands are `BEGIN`, `COMMIT` and what follows, or prepare,
execute and reset. Three connections over one session slot and one spare handshake are the
least with a refusal. Bodies of two bytes are one more than a truncation at one lets through.
In `serve` the accept loops of TCP, PostgreSQL and MySQL are alike, so that one connection
stands for them; HTTP has its own. Symmetry is used for flows, editors, processes and documents, which
are only ever compared for equality, and never in a run with a liveness property.

Deadlock checking is off for the recorder and for control, where a run ends once all flows
are done and the bounds are reached. Elsewhere the end states stutter explicitly.

### Fairness

* `recorder`: the writer's own steps and the end of `Record` are weakly fair: they are local
  computation. Taking the mutex is strongly fair, as `sync.Mutex` serves a starving waiter.
  The deadline of `Close` comes. The sink may block for ever.
* `managed_power`: `main` reads the error channel of the API server and returns.
* `tcp_flow`: local steps, the context's end and the closing of connections by it are fair.
  Peers are not.
* `pg_exchange`, `mysql_session`: local steps, the timers of a cycle and of a fault, and the
  failure of I/O on a closed connection are fair; in MySQL the deadline of the handshake as
  well. A write may block, and the database stay silent, until then. Client, database and
  the end of the context are not fair. `pg_exchange_eof` reads the EOF of a client that has
  closed, but no timer must fire.
* `pg_server`: the steps of a connection's goroutine that its cancelled context allows are
  fair. Clients and the database are not.
* `http_exchange`: the handler's local steps, the deadline, the hook, and the return of a round
  trip, a copy or a read once its context or connection has ended. The client and the upstream
  are not fair.
* `serve`: `main` runs, a closed listener returns from `Accept`, and a flow ends once its
  server is closing, which is what the runs of the adapters show. A signal need not come.

## What is proved

TLAPS checks the proofs for every value of the constants that satisfies the named assumption
of the module: any number of flows, closers, editors, documents and connections, any
capacity and bound. Each inductive invariant was first checked with TLC on the instance of
the run. A refinement is proved step by step: an initial state maps to an initial state, and
each step, from a state of the inductive invariant, to a step of the abstract specification
or to none.

`RecorderProofs` (from `RecorderAssumption`: finitely many flows and outcomes, a positive
capacity): `RecorderInv` is inductive. It adds to the properties what the writer holds in
each of its states, that `Pending` plus the event being counted is the backlog
(`PendingIsBacklog`, without which `Accounting` is not inductive), that sink, hands and queue
in order make up the log while nothing was dropped, and what a closed queue and an exited
writer mean for `Close`. The gauges need that the stage of a flow and the log agree, which is
where the order of `FlowEvents` enters. From it follow `CountersExact`, `ArtifactComplete` and
`NilMeansFlushed`, and that the outcome map never exceeds its limit (`OutcomesStayBounded`).

`ControlProofs` (from `ControlAssumption`: finitely many flows, and rules with n > 0):
`ControlInv` is inductive. It adds that numbers of revisions and revision objects keep step,
that a persist call in progress still describes the next revision (because nothing else runs
while the lock is held), that no pinned snapshot is ahead of the active one, that counters of
unpublished revisions are zero, that a generator gave one number per eligible flow, and that
each decision is what its selector says of its number. For `every` it needs that `n \div k`
grows exactly when `k` divides `n`, which is proved from arithmetic. All five invariants of
the run `control` follow.

`TcpFlowProofs` (from `TcpAssumption`: positive buffer sizes, faults that validation admits):
`BytesConserved` and `FaultExact`. Bytes are conserved because a pump reads only with nothing
left to write and writes no more than it has read (`Bytes`). For the faults the invariant
says who may be inside `activate` and where they stand (`Lock`, `Callable`), that before the
fault is active no write reaches past a byte trigger and only the pump of that direction can
reach it (`Cut`), and where the pump of a held direction may be afterwards (`Held`): it stands
in `activate` itself, which is why no byte follows a byte trigger and at most one write
follows any other. That the connection implements
`FlowEvents` (`FlowRefinesFlowEvents`) needs one thing more: `serve`, its pumps and a timer may
all call `activate`, but whoever takes the mutex first is the only one to get past it, and
not after the flow has been finished (`Once`). Then the log is determined by where `serve` is
and by the flag `applied` (`Story`).

`ManagedProofs` (from `ManagedAssumption`): `RevisionNamesOneDocument`, `PublishedIsStored`, the
action property `ToggleAudited`, and that the directory implements `DurableConfig`. All of them
have the hypothesis `Alone`: exits are prompt, or there is one process. Without it they are
false, as the run `managed_exit` shows, and with it `LockKeepsOneWriter` proves what that run
refutes. `RevisionNamesOneDocument` also has the hypothesis that the power does not fail
(`~PowerFails`), as the docs leave power loss out of that guarantee (see Findings); the others
hold with power failures. The invariant says who may use the directory (`Locked`, `Sole`), how
the file, the durable file, the store in memory and the state being saved are related at each
step of a save (`Saving`), and how they are related to the active configuration for each kind
of request (`Working`). A state is only ever replaced by one that follows it, which is what
makes the documents of past revisions unique and commits monotonic.

`HttpExchangeProofs` (from `HttpAssumption`: the protocols are those of HTTP, and the faults
are faults of `FaultRules`, with one limit at most, that validation admits): `OutcomeSound`,
`FaultExact`, `NothingLeft` and the refinement of `FlowEvents`. The invariant has one group
for each thing that the steps of `ServeHTTP` and of what runs beside it disturb, and each
group is inductive given the types and some of the others: the events recorded so far
(`Events`), the reader, hook, deadline and slot that must be gone at the end (`Ends`), what
the report may say at each place (`Reporting`), that a fault which blocks the request lets
nothing through (`Barred`) and one which ends the flow writes no response (`Silent`), and
that what has passed of a truncated body and what may still pass make up its limit
(`Counted`).

The same module proves the two results about the pure functions on both sides of the
exchange. Every fault and selector that validation admits has the fields that its adapter or
`selectAttempt` reads, and no selector divides by zero (`ValidFaultsExecute`,
`ValidSelectorsDecide`). `TimeoutHeader` never reaches its panic (`HeaderExists`), and its header,
read back by `Timeout`, is never shorter than the time left and less than one unit longer
(`HeaderKeepsDeadline`), for every duration. The longest duration, 2^63 - 1, is a parameter of
which the proof uses only that it is 2562047 hours and a fraction: the prover computes
numerals with 63 bits, so that it must not see one so large.

`MySqlSessionProofs` (from `MySqlAssumption`: the statements, actions and limits that the model
knows): `DecisionsFollowCommits`, `AckWithheld`, `InStep` and the refinement of `FlowEvents` with
the commands of the session as flows. The proxy sees the database through its replies alone,
so that the invariant is about what is under way. Of the commands that the database has not
executed only the last is one with a reply, and what may be left of a reply depends on the
packet that comes next (`Order`). The table of prepared statements differs from the database's
by the closes under way and by the statement whose reply is being read (`Table`). The local
`transaction` is right, or the OK packet or the end of the rows that is still to be read makes
it right (`Views`). Then an OK packet that confirms a `COMMIT` confirms what was committed
(`Decisions`). What the fault withholds (`Acks`), the timer of a cycle (`Timer`) and the events
(`Told`) follow the place of the loop.

`PgExchangeProofs` (from `PgAssumption`: the statements and actions that the model knows):
`DecisionsFollowCommits`, `AckWithheld`, `ReadyEndsItsCycle` and the refinement of `FlowEvents`
with the cycles of the session as flows. The loop follows the transaction by the tags of the
frames it relays, so its view lags behind the database by the frames that are still coming:
the one in the channel, the one in the hand of the pump and those on the wire, of which the
last are lost once the pump has stopped (`Coming`). The client does not wait for answers, so
that more statements may be on their way behind them. The invariant is about these frames:

* a `ReadyForQuery` is the last of them, and when the loop has taken it nothing of the cycle
  is under way and the view is right (`Order`);
* while the database has committed nothing in the cycle, the frames that come take the view
  through values with which none of them counts as a commit (`Views`). It says so with the
  set of the frames after which the view is true (`Forecast`), which loses its first frame
  when the loop takes one and gets one more when the database answers. So a frame that does
  count comes after a commit;
* in a cycle of one statement the view is right when the statement is executed, so that its
  `COMMIT` will count, unless the pump has stopped, and then the cycle is never relayed to
  its end (`Single`).

What the decision, the acknowledgment and the outcome say (`Decisions`, `Acks`), that each cycle
was begun by a frame of the client (`Counted`) and where its events have got (`Told`) follow
from these. Of the database the proof uses only what an answer does to the block and to the
view (`Sound`), which is proved of every answer in the table of the model.

`ServeProofs` has the process and the PostgreSQL server. From `ServeAssumption` (connections
belong to servers): `FlowsBeforeSummary`.
The invariant is about the stack of deferred calls: every open server has its `Close` on it,
the recorder's `Close` is below all of them, and when the summary is on it, each server is
closed or has a call above it that closes it (`InOrder`); and about the wait groups: what runs
has an open server, and so has an accept loop that may still start something (`Kept`). The
control events of the socket are in order (`ControlEventsOrdered`) because a request records
its event with the mutex of the admin server held, so that one request at most has changed
the service and not yet recorded it.

From `PgServerAssumption` (finitely many connections, positive limits) the same module proves
`SessionsGuarded`, `NothingLeft` and the action property `RoomToCancel` of `PgServer`. The
invariant (`ServerIInv`) says, for each thing a connection may hold (a handshake, a slot, a
key), at which of its places the goroutine may be while it holds it.

Model-checked only is what lies out of the prover's reach, liveness under fairness:
`CloseReturns`, `PoisonStops`, `ConnectionEnds`, `SessionEnds`, `ExchangeEnds`,
`CancelAndCloseWork` and `ShutdownEnds`.

## Findings

1. **The instance lock is released under a save in progress** (`managed_exit`). At exit,
   `internal/control/remote/server.go:83` closes the HTTP server without waiting for its
   handlers, and the deferred `store.Close` (`cmd/faultline/main.go:118`) unlocks the
   directory. Until the process is gone, a request may still be saving while another process
   has opened the directory. plans/07-tester-experience/README.md:47 says that the lock keeps
   two processes from writing the same storage. The run `managed` assumes that
   no other process comes before it is gone (`PromptExit`); `managed_power` has one process.
2. **An EOF behind pipelined frames does not end a wait** (`pg_exchange_eof`). While
   `hold_response` or `delay` waits, the loop takes no frames, the channel holds one and the
   pump another, and nobody reads the client's connection.
   plans/09-semantic-adapters/contract.md:49 says that a client EOF ends waits. The timer of
   the fault, or of the cycle, ends it. The MySQL session has the same pumps and behaves alike
   (mysql-contract.md:35 in the same directory).

Further observations that no property is about:

* A timer of a TCP fault that fires after `serve` has read `active` and before `stop` gives a
  flow with a recorded `fault_applied` and outcome `forwarded`.
* Under power loss, a revision that was visible and not yet durable when its process stopped
  can be published by the next start, then lost, and its number used again. The docs leave
  power loss out of their guarantee for this.
* After a rename whose directory sync failed, the stored audit says that a toggle succeeded
  that was not performed.
* In one simple query, `START TRANSACTION; COMMIT` is not seen as a transaction, as its tag is
  not `BEGIN`. Batches are outside the guarantees of the contract, and the second half of
  `DecisionsFollowCommits` is about cycles of one statement.
* The admin socket's `Close` does not wait for its handlers, so that one in progress may
  record a control event after the shutdown summary
  (compare plans/04-runtime-control/03-events-and-counters.md:44).
* `main` reads the state of the service before it records `ready` and `shutdown`, so these two
  events may be out of order with those of the socket; `ControlEventsOrdered` is about the
  socket's own.
* An HTTP/2 `hold_response` that runs to its end is reported as `stream_error`; `hold_request`,
  and HTTP/1, report `fault_applied`.
* `client_canceled` may be reported for an exchange whose connection the proxy itself ended.

## What is not modelled, and why

* Login sessions, roles, the login rate limit and the account file of the managed API: they
  guard requests and change neither the stored configuration nor the service.
* The comparison of methods, paths, patterns and headers in the engine: string handling. The
  matcher of a rule is an arbitrary set of requests.
* Parsing, addresses, TLS files and the canonical form of configurations, and their defaults:
  string handling and file access at start-up that change no state.
* In the HTTP handler, the error of `Decide` for an unknown proxy and a nil `Executor` (`main`
  passes neither), the text of error kinds, header handling and the transport's settings.
* The bytes of protocols: framing, SCRAM arithmetic, TLS records, JSON and YAML syntax.
* The command-line client of the admin socket, which is one blocking call, command-line
  output, the browser code of the managed UI, and the examples.
