---------------------------- MODULE HttpExchange ----------------------------
(***************************************************************************)
(* internal/proxy/http/handler.go with internal/fault: one HTTP exchange   *)
(* or RPC.  ServeHTTP is one goroutine.  Beside it the transport reads the *)
(* client's upload, through a fault.Body if the fault is one of the        *)
(* request body and perhaps still when the upstream has answered; a        *)
(* withheld upload is discarded; and the end of the context ends the       *)
(* connection.                                                             *)
(*                                                                         *)
(* net/http is external: a RoundTripper may answer early, fail at any time *)
(* and go on reading the upload after either; ReverseProxy gives an error  *)
(* to fail before the response has begun and panics after that.  A body is *)
(* the number of its bytes.                                                *)
(***************************************************************************)
EXTENDS FaultRules

CONSTANTS
  Listeners,    \* protocols of the listeners
  Faults,       \* faults of the rules
  MaxUpload,    \* bound on the bytes of the request body
  MaxBody       \* bound on the bytes of the response body

ASSUME HttpAssumption ==
  /\ Listeners \subseteq Http /\ MaxUpload \in Nat /\ MaxBody \in Nat
  /\ Faults \subseteq Fault /\ \A f \in Faults : \E p \in Listeners : validate(p, f)
  /\ \A f \in Faults : \A m, n \in f.bytes : m = n

VARIABLES
  protocol,     \* of the listener
  pc,           \* where ServeHTTP is
  fault,        \* Decision.Fault when Selected, else Blank
  shutdown,     \* the context of the server has been cancelled
  ctx,          \* "live", "deadline" or "canceled"
  hook,         \* the AfterFunc on ctx: "off", "armed", "due" or "ran"
  upstream,     \* cancelUpstream has not been called
  leg,          \* the client's connection or stream: "open", "gone" or "closed"
  expired,      \* a read from the client fails: its deadline has passed
  complete,     \* upload.complete
  reader,       \* the goroutine that reads the upload: "off", "idle", "reading", "pacing" or "done"
  discarding,   \* ... is the one that discards it
  remaining,    \* Body.remaining
  terminal, disconnected,   \* fields of flow
  applied,      \* the flag shared by the executor, the bodies and the handler
  report,       \* Outcome, Err, ErrorKind, Reached and Applied of the Report
  slot,         \* a place in handler.slots is held
  life,         \* history: how far the events of the flow have got
  contacted,    \* history: ReverseProxy has been called
  forwarded,    \* history: bytes of the upload that the transport was given
  wrote         \* history: what was written to the client

client == <<leg, expired, complete>>
upload == <<reader, discarding, forwarded>>
flow == <<terminal, disconnected>>
marks == <<applied, life>>
vars == <<protocol, pc, fault, shutdown, ctx, hook, upstream, client, upload, remaining,
          flow, marks, report, slot, contacted, wrote>>

\* What the steps of the handler leave alone once it has decided.
fixed == <<protocol, fault, shutdown, ctx>>

HTTP2 == protocol # "http1"
Cancelled == ctx # "live"

Init ==
  /\ protocol \in Listeners
  /\ pc = "start" /\ fault = Blank /\ shutdown = FALSE /\ ctx = "live" /\ hook = "off" /\ upstream = TRUE
  /\ leg = "open" /\ expired = FALSE /\ complete \in BOOLEAN
  /\ reader = "off" /\ discarding = FALSE /\ remaining = 0 /\ forwarded = 0
  /\ terminal = FALSE /\ disconnected = FALSE /\ applied = FALSE /\ slot = FALSE /\ life = "none"
  /\ report = [outcome |-> "completed", err |-> FALSE, kind |-> "", reached |-> FALSE, applied |-> FALSE]
  /\ contacted = FALSE /\ wrote = [head |-> "none", bytes |-> 0, whole |-> FALSE]

Step(from, to) == pc = from /\ pc' = to

Record(stage) == life' = IF life = stage THEN "twice" ELSE stage

\* onApplied: the first call records fault_applied.
FaultApplied == applied' = TRUE /\ IF applied THEN UNCHANGED life ELSE Record("applied")

-----------------------------------------------------------------------------
(* ServeHTTP up to the decision *)

Start ==
  /\ Step("start", "check") /\ Record("open")
  /\ UNCHANGED <<fixed, hook, upstream, client, upload, remaining, flow, applied, report, slot, contacted, wrote>>

\* A request that is not supported or finds no slot; or, with the slot, a bad grpc-timeout.
Refuse ==
  /\ Step("check", "finish")
  /\ \E kind \in {"unsupported_request", "proxy_overload"} :
       /\ report' = [report EXCEPT !.outcome = kind, !.kind = kind]
       /\ slot' \in IF protocol = "grpc" /\ kind = "unsupported_request" THEN BOOLEAN ELSE {FALSE}
  /\ wrote' = [wrote EXCEPT !.head = "error"]
  /\ UNCHANGED <<fixed, hook, upstream, client, upload, remaining, flow, marks, contacted>>

\* The slot, the context with its deadline, the AfterFunc; ctx may be cancelled already.
Accept ==
  /\ Step("check", "decide") /\ slot' = TRUE /\ hook' = IF Cancelled THEN "due" ELSE "armed"
  /\ UNCHANGED <<fixed, upstream, client, upload, remaining, flow, marks, report, contacted, wrote>>

Decide ==
  /\ Step("decide", "before")
  /\ fault' \in {Blank} \cup {f \in Faults : validate(protocol, f)}
  /\ Record(IF fault' = Blank THEN "passed" ELSE "selected")
  /\ remaining' \in IF Given(fault'.bytes) THEN fault'.bytes ELSE {0}
  /\ UNCHANGED <<protocol, shutdown, ctx, hook, upstream, client, upload, flow, applied, report, slot, contacted, wrote>>

-----------------------------------------------------------------------------
(* apply, with Builtin.Execute *)

Phase == IF pc = "before" THEN BeforeUpstreamRequest ELSE AfterUpstreamHeaders
Due == fault.phase = Phase

\* Where apply returns to without an error.
Onward == IF contacted THEN "deliver" ELSE "send"

\* No fault is due at the phase, or one of a body.
Proceed ==
  /\ pc \in {"before", "after"} /\ pc' = Onward
  /\ Due => fault.action \in BodyActions
  /\ report' = [report EXCEPT !.reached = @ \/ Due]
  /\ UNCHANGED <<fixed, hook, upstream, client, upload, remaining, flow, marks, slot, contacted, wrote>>

\* The executor returned an error; without one a terminal flow is at its end.
ExecutorError == pc' = "fail" /\ report' = [report EXCEPT !.reached = TRUE, !.outcome = "executor_error", !.err = TRUE]
Executed == pc' = (IF terminal' THEN "terminal" ELSE Onward) /\ UNCHANGED report

\* The upload of an HTTP/1 request that is held is read and discarded.  Execute looks at
\* the context before it does anything.
Reach ==
  /\ pc \in {"before", "after"} /\ Due /\ fault.action \notin BodyActions
  /\ discarding' = (~HTTP2 /\ fault.action = "hold_request" /\ ~complete)
  /\ reader' = IF discarding' THEN "idle" ELSE reader
  /\ IF Cancelled THEN ExecutorError ELSE pc' = "execute" /\ report' = [report EXCEPT !.reached = TRUE]
  /\ UNCHANGED <<fixed, hook, upstream, client, remaining, forwarded, flow, marks, slot, contacted, wrote>>

\* delay and hold are applied, and wait; a hold has cancelled the upstream before.
ExecuteWait ==
  /\ Step("execute", "wait") /\ fault.action \in Holds \cup {"delay"}
  /\ FaultApplied /\ upstream' = (upstream /\ fault.action = "delay")
  /\ UNCHANGED <<fixed, hook, client, upload, remaining, flow, report, slot, contacted, wrote>>

\* A write to a client that is not there may fail or be lost.
ExecuteRespond ==
  /\ pc = "execute" /\ fault.action = "respond" /\ FaultApplied /\ terminal' = TRUE
  /\ \/ Executed /\ wrote' = [wrote EXCEPT !.head = "synthetic", !.whole = TRUE]
     \/ (leg # "open" \/ expired) /\ ExecutorError /\ UNCHANGED wrote
  /\ UNCHANGED <<fixed, hook, upstream, client, upload, remaining, disconnected, slot, contacted>>

\* CloseConnection of HTTP/1; it fails on a connection that was closed before.
CloseConnection ==
  IF terminal THEN UNCHANGED <<flow, leg>>
  ELSE terminal' = TRUE /\ disconnected' = TRUE /\ leg' = "closed"

ExecuteClose ==
  /\ pc = "execute" /\ fault.action = "close_connection"
  /\ upstream' = FALSE /\ CloseConnection
  /\ IF leg = "closed" THEN ExecutorError /\ UNCHANGED marks ELSE Executed /\ FaultApplied
  /\ UNCHANGED <<fixed, hook, expired, complete, upload, remaining, slot, contacted, wrote>>

\* The timer or the context ends the wait; a hold then ends the stream or connection.
\* apply calls FaultApplied for what the executor says it applied.
WaitOver ==
  /\ pc = "wait" /\ FaultApplied
  /\ \/ /\ fault.action = "delay" /\ UNCHANGED <<flow, leg>>
        /\ IF Cancelled THEN ExecutorError ELSE Executed
     \/ /\ fault.action \in Holds
        /\ IF HTTP2 THEN terminal' = TRUE /\ disconnected' = TRUE /\ UNCHANGED leg ELSE CloseConnection
        /\ IF Cancelled \/ leg = "closed" THEN ExecutorError ELSE Executed
  /\ UNCHANGED <<fixed, hook, upstream, expired, complete, upload, remaining, slot, contacted, wrote>>

-----------------------------------------------------------------------------
(* fail.  A panic inside ReverseProxy passes the handler's recover. *)

\* The fault is one of the body that goes this way: WrapBody.
Wraps(direction) == fault.action \in BodyActions /\ fault.direction = direction

\* The first of the deferred calls.
Unwind == IF Wraps("request") THEN "expire" ELSE "cleanup"

\* Mutant: nothing recovers the panic.
Unrecovered == report

StreamError == [report EXCEPT !.outcome = "stream_error", !.err = TRUE]

\* errTerminal: on HTTP/2 a stream is ended by a panic.
FailTerminal ==
  /\ Step("terminal", Unwind)
  /\ report' = IF HTTP2 /\ disconnected /\ contacted THEN StreamError ELSE report
  /\ UNCHANGED <<fixed, hook, upstream, client, upload, remaining, flow, marks, slot, contacted, wrote>>

\* The context is done: no reply.
FailCancelled ==
  /\ Step("fail", Unwind) /\ Cancelled
  /\ report' = IF HTTP2 /\ contacted THEN StreamError ELSE [report EXCEPT !.err = TRUE]
  /\ IF HTTP2 THEN UNCHANGED <<flow, leg>> ELSE CloseConnection
  /\ UNCHANGED <<fixed, hook, upstream, expired, complete, upload, remaining, marks, slot, contacted, wrote>>

\* Any other error is answered by a 502 or UNAVAILABLE.
FailReply ==
  /\ Step("fail", Unwind) /\ ~Cancelled
  /\ report' = [report EXCEPT !.err = TRUE, !.outcome = IF @ = "completed" THEN "upstream_error" ELSE @]
  /\ wrote' = IF terminal THEN wrote ELSE [wrote EXCEPT !.head = "error"]
  /\ UNCHANGED <<fixed, hook, upstream, client, upload, remaining, flow, marks, slot, contacted>>

-----------------------------------------------------------------------------
(* ReverseProxy: the round trip, and the response through a fault.Body if one is due *)

Send ==
  /\ Step("send", "response") /\ contacted' = TRUE
  /\ reader' = IF complete THEN "done" ELSE "idle"
  /\ UNCHANGED <<fixed, hook, upstream, client, discarding, forwarded, remaining, flow, marks, report, slot, wrote>>

\* The answer, or an error: of the upstream, the upload or the context, or a refused 101.
RoundTrip ==
  /\ pc = "response" /\ pc' \in {"after", "fail"}
  /\ UNCHANGED <<fixed, hook, upstream, client, upload, remaining, flow, marks, report, slot, contacted, wrote>>

Deliver ==
  /\ Step("deliver", "copy") /\ wrote' = [wrote EXCEPT !.head = "upstream"]
  /\ UNCHANGED <<fixed, hook, upstream, client, upload, remaining, flow, marks, report, slot, contacted>>

Panics == pc' = Unwind /\ report' = StreamError

\* Mutant: the limit is noticed one byte late.
CutsLate == fault.action = "truncate" /\ remaining < 0

\* Body.Read at the limit probes for one byte more, and fails if there is one.
Cuts == fault.action = "truncate" /\ remaining = 0

\* Body.Read looks at its context first.
Refuses == Cancelled \/ ~upstream

\* Body.Read got a byte: it is cut off, paced or let through.
Limited(cut, pace, pass) ==
  \/ Cuts /\ FaultApplied /\ cut /\ UNCHANGED remaining
  \/ fault.action = "truncate" /\ ~Cuts /\ remaining' = remaining - 1 /\ pass /\ UNCHANGED marks
  \/ fault.action = "throttle" /\ FaultApplied /\ pace /\ UNCHANGED remaining

Write == pc' = "copy" /\ wrote' = [wrote EXCEPT !.bytes = @ + 1] /\ UNCHANGED report

CopyByte ==
  /\ pc = "copy" /\ wrote.bytes < MaxBody
  /\ IF Wraps("response")
     THEN ~Refuses /\ Limited(Panics /\ UNCHANGED wrote, pc' = "pace" /\ UNCHANGED <<report, wrote>>, Write)
     ELSE Write /\ UNCHANGED <<remaining, marks>>
  /\ UNCHANGED <<fixed, hook, upstream, client, upload, flow, slot, contacted>>

CopyPaced ==
  /\ pc = "pace" /\ ~Refuses /\ Write
  /\ UNCHANGED <<fixed, hook, upstream, client, upload, remaining, flow, marks, slot, contacted>>

\* The end of the response; that of an RPC may carry a status other than OK.
CopyEnds ==
  /\ Step("copy", Unwind) /\ (Wraps("response") => ~Refuses)
  /\ wrote' = [wrote EXCEPT !.whole = TRUE]
  /\ \/ UNCHANGED report
     \/ protocol = "grpc" /\ report' = [report EXCEPT !.outcome = "rpc_error", !.kind = "upstream_rpc"]
  /\ UNCHANGED <<fixed, hook, upstream, client, upload, remaining, flow, marks, slot, contacted>>

\* The upstream breaks off, the client does, or the context is done.
CopyFails ==
  /\ pc = "copy" \/ (pc = "pace" /\ Refuses)
  /\ Panics
  /\ UNCHANGED <<fixed, hook, upstream, client, upload, remaining, flow, marks, slot, contacted, wrote>>

-----------------------------------------------------------------------------
(* The deferred calls *)

\* A wrapped upload: the transport is cut off from it and the client's read is ended.
Expire ==
  /\ Step("expire", "join") /\ upstream' = FALSE /\ expired' = (expired \/ ~complete)
  /\ UNCHANGED <<fixed, hook, leg, complete, upload, remaining, flow, marks, report, slot, contacted, wrote>>

\* Mutant: Close of a Body does not take its mutex.
CloseAtOnce == TRUE

\* Close of a Body waits for the read that holds its mutex.
Joined == reader \notin {"reading", "pacing"}

Join ==
  /\ Step("join", "cleanup") /\ Joined /\ report' = [report EXCEPT !.applied = applied]
  /\ UNCHANGED <<fixed, hook, upstream, client, upload, remaining, flow, marks, slot, contacted, wrote>>

\* An HTTP/1 connection with an unfinished upload is closed.
Cleanup ==
  /\ Step("cleanup", "drain") /\ leg' = IF ~HTTP2 /\ ~complete THEN "closed" ELSE leg
  /\ upstream' = FALSE /\ report' = [report EXCEPT !.applied = applied]
  /\ UNCHANGED <<fixed, hook, expired, complete, upload, remaining, flow, marks, slot, contacted, wrote>>

\* Closing the connection on purpose may end the context, too: that is no cancellation.
Drain ==
  /\ Step("drain", "unhook") /\ (discarding => reader = "done")
  /\ report' =
       IF Cancelled /\ (~disconnected \/ report.err)
       THEN [report EXCEPT !.outcome = "canceled", !.err = TRUE,
                           !.kind = IF shutdown THEN "shutdown"
                                    ELSE IF ctx = "deadline" THEN "proxy_timeout" ELSE "client_canceled"]
       ELSE [report EXCEPT !.kind = IF @ = "" /\ report.err THEN report.outcome ELSE @]
  /\ UNCHANGED <<fixed, hook, upstream, client, upload, remaining, flow, marks, slot, contacted, wrote>>

\* Mutant: the deadlines are cleared while the AfterFunc may still be running.
StopsAtOnce == TRUE

\* The AfterFunc is stopped, or has run to its end.
Stopped == hook # "due"

Unhook ==
  /\ Step("unhook", "finish") /\ Stopped
  /\ hook' = (IF hook = "armed" THEN "off" ELSE hook) /\ expired' = FALSE
  /\ UNCHANGED <<fixed, upstream, leg, complete, upload, remaining, flow, marks, report, slot, contacted, wrote>>

\* The outcome flow_finished reports.
Outcome ==
  IF report.outcome = "completed" THEN (IF report.applied THEN "fault_applied" ELSE "pass_through")
  ELSE IF report.outcome = "canceled" THEN report.kind ELSE report.outcome

Finish ==
  /\ Step("finish", "done") /\ slot' = FALSE
  /\ ctx' = IF Cancelled THEN ctx ELSE "canceled"
  /\ Record(IF report.applied = (life = "applied") THEN "done" ELSE "wrong")
  /\ UNCHANGED <<protocol, fault, shutdown, hook, upstream, client, upload, remaining, flow, applied, report, contacted, wrote>>

Ended == pc = "done" /\ UNCHANGED vars

-----------------------------------------------------------------------------
(* The goroutine that reads the upload *)

handler == <<protocol, pc, fault, shutdown, ctx, hook, upstream, flow, report, slot, contacted, wrote>>

Readable == leg = "open" /\ ~expired

ReadStart ==
  /\ reader = "idle"
  /\ reader' = IF Wraps("request") /\ Refuses THEN "done" ELSE "reading"
  /\ UNCHANGED <<handler, client, remaining, marks, discarding, forwarded>>

Forward == reader' = "idle" /\ forwarded' = forwarded + 1

ReadByte ==
  /\ reader = "reading" /\ Readable /\ forwarded < MaxUpload
  /\ IF Wraps("request")
     THEN Limited(reader' = "done" /\ UNCHANGED forwarded, reader' = "pacing" /\ UNCHANGED forwarded, Forward)
     ELSE UNCHANGED <<remaining, marks>> /\ IF discarding THEN reader' = "idle" /\ UNCHANGED forwarded ELSE Forward
  /\ UNCHANGED <<handler, client, discarding>>

ReadPaced ==
  /\ reader = "pacing" /\ IF Refuses THEN reader' = "done" /\ UNCHANGED forwarded ELSE Forward
  /\ UNCHANGED <<handler, client, remaining, marks, discarding>>

ReadEOF ==
  /\ reader = "reading" /\ Readable /\ reader' = "done" /\ complete' = TRUE
  /\ UNCHANGED <<handler, leg, expired, remaining, marks, discarding, forwarded>>

ReadFails ==
  /\ reader = "reading" /\ ~Readable /\ reader' = "done"
  /\ UNCHANGED <<handler, client, remaining, marks, discarding, forwarded>>

\* The transport needs no more of the upload.
Abandon ==
  /\ reader = "idle" /\ ~discarding /\ reader' = "done"
  /\ UNCHANGED <<handler, client, remaining, marks, discarding, forwarded>>

-----------------------------------------------------------------------------
(* Client, clock and server *)

others == <<protocol, pc, fault, upstream, complete, upload, remaining, flow, marks, report, slot, contacted, wrote>>

EndCtx(why) == ctx' = why /\ hook' = IF hook = "armed" THEN "due" ELSE hook

ClientLeaves == pc # "done" /\ leg = "open" /\ leg' = "gone" /\ UNCHANGED <<others, shutdown, ctx, hook, expired>>

\* net/http notices a client that is gone, or a connection the proxy has ended, at the
\* stream or, on HTTP/1, at a connection whose request has been read.
ClientCancels ==
  /\ pc # "done" /\ ~Cancelled /\ ~Readable /\ (HTTP2 \/ complete \/ reader = "reading")
  /\ EndCtx("canceled") /\ UNCHANGED <<others, shutdown, leg, expired>>

\* Mutant: only an RPC that brings a timeout has one.
TimedRPC == hook = "armed" /\ protocol = "grpc"

\* The context of an exchange that goes on has a deadline.
Timed == hook = "armed"

\* The deadline of the context, and that of the connection, which is the same instant.
Deadline == Timed /\ EndCtx("deadline") /\ UNCHANGED <<others, shutdown, leg, expired>>

ConnDeadline ==
  /\ pc \notin {"start", "check", "finish", "done"} /\ ~expired /\ expired' = TRUE
  /\ UNCHANGED <<others, shutdown, ctx, hook, leg>>

\* Close of the server cancels the contexts of all requests.
ServerCloses ==
  /\ pc # "done" /\ ~shutdown /\ shutdown' = TRUE
  /\ IF Cancelled THEN UNCHANGED <<ctx, hook>> ELSE EndCtx("canceled")
  /\ UNCHANGED <<others, leg, expired>>

Hook ==
  /\ hook = "due" /\ hook' = "ran"
  /\ IF HTTP2 THEN expired' = TRUE /\ UNCHANGED leg ELSE leg' = "closed" /\ UNCHANGED expired
  /\ UNCHANGED <<others, shutdown, ctx>>

-----------------------------------------------------------------------------
\* What the handler does by itself; RoundTrip and the response are up to the peers.
Handle ==
  \/ Start \/ Refuse \/ Accept \/ Decide \/ Proceed \/ Reach
  \/ ExecuteWait \/ ExecuteRespond \/ ExecuteClose \/ WaitOver
  \/ FailTerminal \/ FailCancelled \/ FailReply \/ Send \/ Deliver \/ CopyPaced
  \/ Expire \/ Join \/ Cleanup \/ Drain \/ Unhook \/ Finish

Next ==
  \/ Handle \/ RoundTrip \/ CopyByte \/ CopyEnds \/ CopyFails \/ Ended
  \/ ReadStart \/ ReadByte \/ ReadPaced \/ ReadEOF \/ ReadFails \/ Abandon
  \/ ClientLeaves \/ ClientCancels \/ Deadline \/ ConnDeadline \/ ServerCloses \/ Hook

\* Goroutines run, timers fire, a read of an ended connection returns, and a round trip or
\* a copy ends once its context has.
Spec ==
  /\ Init /\ [][Next]_vars
  /\ WF_vars(Handle) /\ WF_vars(Cancelled /\ (RoundTrip \/ CopyFails))
  /\ WF_vars(ReadStart) /\ WF_vars(ReadPaced) /\ WF_vars(ReadFails)
  /\ WF_vars(Deadline) /\ WF_vars(Hook)

-----------------------------------------------------------------------------
\* Whatever the goroutines of an exchange do, its events come in the order the recorder
\* counts on: no fault_applied of an upload that is still being read follows
\* flow_finished, and the Applied flag of flow_finished says whether there was one.
F == INSTANCE FlowEvents WITH Flows <- {"flow"}, life <- [f \in {"flow"} |-> life]
RecordsInOrder == F!FlowSpec

\* The outcome of flow_finished is true: pass_through is a whole upstream response and no
\* fault; fault_applied a fault that left the response whole or ended the flow itself; and
\* only an exchange whose context ended is a timeout, a client's cancellation or a shutdown.
OutcomeSound ==
  pc = "done" =>
    /\ Outcome = "pass_through" => wrote.head = "upstream" /\ wrote.whole /\ ~applied
    /\ Outcome = "fault_applied" => applied /\ (wrote.whole \/ disconnected)
    /\ Outcome = "proxy_timeout" => ctx = "deadline"
    /\ Outcome = "shutdown" => shutdown

\* A fault does what its action says and no more.  A request that was held, answered or
\* closed before the upstream never reaches it; nothing of a response is written once it
\* is held or closed; truncate lets exactly its bytes through when it applies, and does
\* not apply to a body that ends within them.
FaultExact ==
  LET passed == IF Wraps("request") THEN forwarded ELSE wrote.bytes IN
  /\ fault.phase = BeforeUpstreamRequest /\ fault.action \in Holds \cup {"respond", "close_connection"}
       => ~contacted /\ forwarded = 0
  /\ applied /\ fault.action \in Holds \cup {"close_connection"} => wrote.head = "none" /\ ~upstream
  /\ fault.action = "truncate" => \A n \in fault.bytes : passed <= n
  /\ fault.action = "truncate" /\ applied => passed \in fault.bytes /\ ~(Wraps("response") /\ wrote.whole)

\* An exchange that has ended leaves nothing behind that could touch the next one on its
\* connection: no hook still to run, no deadline set, no slot held, no read of a body it
\* wrapped or discarded; and an HTTP/1 connection with an unread upload is closed.
NothingLeft ==
  pc = "done" =>
    /\ hook \in {"off", "ran"} /\ ~expired /\ ~slot
    /\ (discarding => reader = "done") /\ (Wraps("request") => Joined)
    /\ ~HTTP2 /\ contacted /\ leg = "open" => complete

\* Every exchange ends: the request timeout is enough, whatever client and upstream do.
ExchangeEnds == <>(pc = "done")
=============================================================================
