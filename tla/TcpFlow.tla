------------------------------- MODULE TcpFlow -------------------------------
(***************************************************************************)
(* internal/proxy/tcp/server.go: one TCP connection, from serve to the end *)
(* of its two pumps.  Four goroutines share it: serve itself, a pump per   *)
(* direction, and the timer that activates a time-triggered fault; the     *)
(* request timeout and the server's Close act through the context.         *)
(*                                                                         *)
(* Bytes are counted, not carried.  Reads, writes, dials and timers may    *)
(* take any time and peers may end or reset at any moment.                 *)
(***************************************************************************)
EXTENDS Integers, Sequences, FiniteSets

CONSTANTS
  Faults,        \* decisions under study; NoFault is the one that selects nothing
  NoFault,
  MaxBytes,      \* bound on the bytes a peer sends in a direction
  ReadSize,      \* the buffer of a pump (4096)
  ThrottleSize,  \* the longest throttled chunk (1024)
  PrefetchSize   \* the buffer of waitBeforeDial (16 KiB)

Directions == {"client_to_upstream", "upstream_to_client"}
Ends == {"client", "upstream"}
Src(d) == IF d = "client_to_upstream" THEN "client" ELSE "upstream"
Dst(d) == IF d = "client_to_upstream" THEN "upstream" ELSE "client"

\* config.Fault as validateTCPRule leaves it: one trigger, a direction where one is used.
IsFault(f) ==
  /\ f.action \in {"none", "delay_connect", "close_connection", "hold", "throttle"}
  /\ f.trigger \in {"start", "duration", "bytes"}
  /\ f.afterBytes \in Nat
  /\ f.triggerDirection \in Directions /\ f.direction \in Directions

ASSUME TcpAssumption ==
  /\ MaxBytes \in Nat /\ {ReadSize, ThrottleSize, PrefetchSize} \subseteq Nat \ {0}
  /\ NoFault \in Faults /\ NoFault.action = "none"
  /\ \A f \in Faults : IsFault(f)

VARIABLES
  fault,       \* decision.Fault, NoFault unless Selected
  pc,          \* where serve is
  ctx,         \* "live" or "done": request timeout, or Close of the server
  conn,        \* each leg: "none", "open" or "closed" on our side
  prefetched,  \* bytes read before the dial
  timer,       \* faultState.timer: "off", "armed", or "fired" once its goroutine runs
  holdTimer,   \* faultState.holdTimer: "off" or "armed"
  mu,          \* faultState.mu: "free", or who is in activate
  active,      \* faultState.active
  finished,    \* faultState.finished
  applied,     \* the atomic applied of serve
  outcome,     \* "forwarded", "client_closed", "dial_error" or the action
  pump,        \* each pump's position; "idle" before forward, "done" after it
  payload,     \* bytes read and not yet written
  chunk,       \* bytes of the next Write
  count,       \* bytes written: clientBytes, upstreamBytes
  taken,       \* history: bytes read from the source
  dropped,     \* history: bytes read and discarded by a hold
  log,         \* history: the events recorded for the flow
  late         \* history: writes in the direction that ended after the fault was active

controller == <<timer, holdTimer, mu, active, finished>>
data == <<payload, chunk, count, taken, dropped, late>>
said == <<applied, outcome, log>>
vars == <<fault, pc, ctx, conn, prefetched, controller, said, pump, data>>

Event(type, flag) == [type |-> type, flag |-> flag]
Record(type, flag) == log' = Append(log, Event(type, flag))

Zero == [d \in Directions |-> 0]

Init ==
  /\ fault \in Faults
  /\ pc = "accepted" /\ ctx = "live"
  /\ conn = [e \in Ends |-> IF e = "client" THEN "open" ELSE "none"]
  /\ prefetched = 0
  /\ timer = "off" /\ holdTimer = "off" /\ mu = "free"
  /\ active = FALSE /\ finished = FALSE /\ applied = FALSE
  /\ outcome = "forwarded" /\ log = <<>>
  /\ pump = [d \in Directions |-> "idle"]
  /\ payload = Zero /\ chunk = Zero /\ count = Zero
  /\ taken = Zero /\ dropped = Zero /\ late = Zero

Controlled == fault.action \in {"close_connection", "hold", "throttle"}

\* Mutant: the direction of the trigger is held.
BlockedAtTrigger(d) == active /\ fault.action = "hold" /\ fault.triggerDirection = d

Blocked(d) == active /\ fault.action = "hold" /\ fault.direction = d

Close(E) == [e \in Ends |-> IF e \in E /\ conn[e] = "open" THEN "closed" ELSE conn[e]]

-----------------------------------------------------------------------------
(* serve up to the pumps *)

Least(S) == CHOOSE x \in S : \A y \in S : x <= y

\* serve goes from one place to the next; the pumps and the context are left alone.
Step(from, to) == pc = from /\ pc' = to /\ UNCHANGED <<fault, ctx, pump>>

RecordStarted ==
  /\ Step("accepted", "started") /\ Record("flow_started", FALSE)
  /\ UNCHANGED <<conn, prefetched, applied, outcome, controller, data>>

RecordDecision ==
  /\ Step("started", IF fault.action = "delay_connect" THEN "delay" ELSE "dial")
  /\ Record("decision", fault # NoFault)
  /\ UNCHANGED <<conn, prefetched, applied, outcome, controller, data>>

\* Mutant: a read may overrun the buffer.
RoomForAny(n) == TRUE
Room(n) == prefetched + n <= PrefetchSize

\* waitBeforeDial buffers what the client sends while it waits for the deadline.
Prefetch(n) ==
  /\ Step("delay", "delay")
  /\ conn["client"] = "open" /\ Room(n) /\ prefetched + n <= MaxBytes
  /\ prefetched' = prefetched + n
  /\ taken' = [taken EXCEPT !["client_to_upstream"] = prefetched + n]
  /\ UNCHANGED <<conn, said, controller, payload, chunk, count, dropped, late>>

\* The deadline: the delay was applied.  With a full buffer the select may take the timer
\* although the context is done.
DelayOver ==
  /\ Step("delay", "dial")
  /\ ctx = "live" \/ prefetched = PrefetchSize
  /\ applied' = TRUE /\ Record("fault_applied", TRUE)
  /\ UNCHANGED <<conn, prefetched, outcome, controller, data>>

\* A read error, which an early close of the client is, or the end of the context.
DelayFails ==
  /\ Step("delay", "finish")
  /\ prefetched < PrefetchSize \/ ctx = "done"
  /\ outcome' = "client_closed"
  /\ UNCHANGED <<conn, prefetched, applied, log, controller, data>>

DialFails ==
  /\ Step("dial", "finish") /\ outcome' = "dial_error"
  /\ UNCHANGED <<conn, prefetched, applied, log, controller, data>>

AtOnce == Controlled /\ (fault.trigger = "start" \/ (fault.trigger = "bytes" /\ fault.afterBytes = 0))

\* The dial succeeds and the controller starts: its timer, or the fault at once.
Dial ==
  /\ Step("dial", IF AtOnce THEN "activate" ELSE "forward")
  /\ conn' = [conn EXCEPT !["upstream"] = "open"]
  /\ timer' = IF Controlled /\ fault.trigger = "duration" THEN "armed" ELSE timer
  /\ UNCHANGED <<prefetched, said, holdTimer, mu, active, finished, data>>

Forward ==
  /\ pc = "forward" /\ pc' = "join"
  /\ pump' = [d \in Directions |-> "check"]
  /\ UNCHANGED <<fault, ctx, conn, prefetched, said, controller, data>>

-----------------------------------------------------------------------------
(* faultState.activate: called by serve, by the timer's goroutine or by a pump *)

Callers == {"serve", "timer"} \cup Directions

Calls(who) ==
  \/ who = "serve" /\ pc = "activate"
  \/ who = "timer" /\ timer = "fired"
  \/ who \in Directions /\ pump[who] = "trigger"

\* The caller goes on where it was.
Returns(who) ==
  /\ pc' = IF who = "serve" THEN "forward" ELSE pc
  /\ timer' = IF who = "timer" THEN "off" ELSE timer
  /\ pump' = [d \in Directions |-> IF d = who THEN "wrote" ELSE pump[d]]

TimerFires ==
  /\ timer = "armed" /\ timer' = "fired"
  /\ UNCHANGED <<fault, pc, ctx, conn, prefetched, holdTimer, mu, active, finished, said, pump, data>>

\* Mutant: activate does not ask whether the flow is over.
NeverOver == FALSE
Over == finished

\* The lock is taken and, unless the flow is over, active is set: pumps see it from now on.
ActivateBegin(who) ==
  /\ Calls(who) /\ mu = "free"
  /\ \/ ~Over /\ mu' = who /\ active' = TRUE /\ UNCHANGED <<pc, timer, pump>>
     \/ Over /\ Returns(who) /\ UNCHANGED <<mu, active>>
  /\ UNCHANGED <<fault, ctx, conn, prefetched, holdTimer, finished, said, data>>

\* onApply records fault_applied; then the action itself, and the lock is released.
ActivateEnd(who) ==
  /\ mu = who /\ mu' = "free" /\ Returns(who)
  /\ applied' = TRUE /\ Record("fault_applied", TRUE)
  /\ conn' = IF fault.action = "close_connection" THEN Close(Ends) ELSE conn
  /\ holdTimer' = IF fault.action = "hold" THEN "armed" ELSE holdTimer
  /\ UNCHANGED <<fault, ctx, prefetched, outcome, active, finished, data>>

HoldTimerFires ==
  /\ holdTimer = "armed" /\ holdTimer' = "off" /\ conn' = Close(Ends)
  /\ UNCHANGED <<fault, pc, ctx, prefetched, timer, mu, active, finished, said, pump, data>>

-----------------------------------------------------------------------------
(* pump *)

Goto(d, where) ==
  /\ pump' = [pump EXCEPT ![d] = where]
  /\ UNCHANGED <<fault, pc, ctx, conn, controller, said>>

Check(d) ==
  /\ pump[d] = "check"
  /\ Goto(d, IF Blocked(d) THEN "held" ELSE "read")
  /\ UNCHANGED <<prefetched, data>>

\* Mutant: the pumps do not get what was read before the dial.
BufferedNone(d) == 0

\* The prefetched bytes come before those of the client.
Buffered(d) == IF d = "client_to_upstream" THEN prefetched ELSE 0

\* The pump returns, and half-closes the leg it writes to: a hold is over or the context
\* done; the source has ended, was reset, or its leg is closed on our side; or the context
\* ends while pace waits.
Return(d) ==
  /\ \/ pump[d] = "held"
     \/ pump[d] = "read" /\ Buffered(d) = 0
     \/ /\ pump[d] = "write" /\ ctx = "done"
        /\ active /\ fault.action = "throttle" /\ fault.direction = d
  /\ Goto(d, "done")
  /\ UNCHANGED <<prefetched, data>>

ReadPrefetched(d) ==
  /\ pump[d] = "read" /\ Buffered(d) > 0
  /\ payload' = [payload EXCEPT ![d] = Least({prefetched, ReadSize})]
  /\ prefetched' = prefetched - payload'[d]
  /\ Goto(d, "got")
  /\ UNCHANGED <<chunk, count, taken, dropped, late>>

Read(d, n) ==
  /\ pump[d] = "read" /\ Buffered(d) = 0
  /\ conn[Src(d)] = "open" /\ taken[d] + n <= MaxBytes
  /\ taken' = [taken EXCEPT ![d] = @ + n]
  /\ payload' = [payload EXCEPT ![d] = n]
  /\ Goto(d, "got")
  /\ UNCHANGED <<prefetched, chunk, count, dropped, late>>

Drop(d) ==
  /\ dropped' = [dropped EXCEPT ![d] = @ + payload[d]]
  /\ payload' = [payload EXCEPT ![d] = 0]

Triggers(d) == Controlled /\ fault.trigger = "bytes" /\ fault.triggerDirection = d

\* Mutant: the chunk is not cut at the byte trigger.
ChunkLengthUncut(d) ==
  Least({payload[d]} \cup {n \in {ThrottleSize} : fault.action = "throttle"})

\* The chunk ends at the byte trigger, and is short when it may be throttled.
ChunkLength(d) ==
  LET remaining == fault.afterBytes - count[d] IN
    Least({payload[d]}
          \cup {n \in {remaining} : Triggers(d) /\ ~active /\ n > 0}
          \cup {n \in {ThrottleSize} : fault.action = "throttle"})

NextChunk(d) ==
  /\ chunk' = [chunk EXCEPT ![d] = ChunkLength(d)]
  /\ Goto(d, "write")

\* What a pump does with what it read: nothing if the direction is held by now.
Got(d) ==
  /\ pump[d] = "got"
  /\ \/ Blocked(d) /\ Drop(d) /\ Goto(d, "check") /\ UNCHANGED chunk
     \/ ~Blocked(d) /\ NextChunk(d) /\ UNCHANGED <<payload, dropped>>
  /\ UNCHANGED <<prefetched, count, taken, late>>

Wrote(d, n) ==
  /\ count' = [count EXCEPT ![d] = @ + n]
  /\ payload' = [payload EXCEPT ![d] = @ - n]
  /\ late' = [late EXCEPT ![d] = IF active /\ n > 0 THEN @ + 1 ELSE @]
  /\ UNCHANGED <<prefetched, chunk, taken, dropped>>

\* A complete write; it may reach the byte trigger.
Write(d) ==
  /\ pump[d] = "write" /\ conn[Dst(d)] = "open"
  /\ Wrote(d, chunk[d])
  /\ Goto(d, IF Triggers(d) /\ ~active /\ count'[d] >= fault.afterBytes THEN "trigger" ELSE "wrote")

\* A write that fails after n bytes: the leg is closed here, or reset by the peer.
WriteFails(d, n) ==
  /\ pump[d] = "write" /\ n < chunk[d]
  /\ conn[Dst(d)] # "open" => n = 0
  /\ Wrote(d, n)
  /\ Goto(d, "done")

\* A held direction discards the rest; otherwise the rest, then the next read.
AfterWrite(d) ==
  /\ pump[d] = "wrote"
  /\ \/ /\ ~Blocked(d) /\ payload[d] > 0
        /\ NextChunk(d)
        /\ UNCHANGED <<payload, dropped>>
     \/ /\ Blocked(d) \/ payload[d] = 0
        /\ Drop(d) /\ Goto(d, IF ctx = "done" THEN "done" ELSE "check")
        /\ UNCHANGED chunk
  /\ UNCHANGED <<prefetched, count, taken, late>>

-----------------------------------------------------------------------------
(* The end of serve, and the context *)

\* Mutant: the outcome names the action whether or not its trigger was reached.
OutcomeAlways == IF Controlled THEN fault.action ELSE outcome
Outcome == IF Controlled /\ active THEN fault.action ELSE outcome

\* Both pumps returned; the outcome is read from active before the controller stops.
Join ==
  /\ Step("join", IF Controlled THEN "stop" ELSE "finish")
  /\ \A d \in Directions : pump[d] = "done"
  /\ outcome' = Outcome
  /\ UNCHANGED <<conn, prefetched, applied, log, controller, data>>

\* faultState.stop: a timer that has already fired finds finished set.
Stop ==
  /\ Step("stop", "finish")
  /\ mu = "free" /\ finished' = TRUE
  /\ timer' = IF timer = "armed" THEN "off" ELSE timer
  /\ holdTimer' = "off"
  /\ UNCHANGED <<conn, prefetched, said, mu, active, data>>

\* The upstream leg is closed and flow_finished is recorded.
RecordFinished ==
  /\ Step("finish", "finished") /\ Record("flow_finished", applied)
  /\ conn' = Close({"upstream"})
  /\ UNCHANGED <<prefetched, applied, outcome, controller, data>>

\* The other deferred calls: the context is cancelled, the client's leg closed, the slot
\* of the connection released.
End ==
  /\ pc = "finished" /\ pc' = "ended" /\ ctx' = "done" /\ conn' = Close(Ends)
  /\ UNCHANGED <<fault, prefetched, said, controller, pump, data>>

\* RequestTimeout passes, or the server is closed.
ContextEnds ==
  /\ ctx = "live" /\ ctx' = "done"
  /\ UNCHANGED <<fault, pc, conn, prefetched, said, controller, pump, data>>

\* Mutant: nothing closes the upstream leg when the context ends.
BoundClient == {"client"}
Bound == Ends

\* context.AfterFunc closes each leg once the context is done.
ContextCloses(e) ==
  /\ ctx = "done" /\ conn[e] = "open" /\ e \in Bound
  /\ conn' = Close({e})
  /\ UNCHANGED <<fault, pc, ctx, prefetched, said, controller, pump, data>>

\* Steps that depend on a peer, and may never come.
Peer ==
  \/ \E n \in 1 .. PrefetchSize : Prefetch(n)
  \/ Dial
  \/ \E d \in Directions : Write(d) \/ \E n \in 1 .. ReadSize : Read(d, n)

Activate == \E who \in Callers : ActivateBegin(who) \/ ActivateEnd(who)

Serve ==
  \/ RecordStarted \/ RecordDecision \/ DelayOver \/ DelayFails \/ DialFails \/ Forward
  \/ Join \/ Stop \/ RecordFinished \/ End

Pump(d) ==
  \/ Check(d) \/ Return(d) \/ ReadPrefetched(d) \/ Got(d) \/ AfterWrite(d)
  \/ \E n \in 0 .. ReadSize : WriteFails(d, n)

Ended == pc = "ended" /\ timer = "off" /\ UNCHANGED vars

Next ==
  \/ Peer \/ Activate \/ Serve \/ Ended
  \/ \E d \in Directions : Pump(d)
  \/ TimerFires \/ HoldTimerFires \/ ContextEnds
  \/ \E e \in Ends : ContextCloses(e)

Spec == Init /\ [][Next]_vars

\* What goes on without a peer: a read or a write fails for sure only on a closed leg.
PumpAlone(d) ==
  \/ Check(d) \/ ReadPrefetched(d) \/ Got(d) \/ AfterWrite(d)
  \/ (pump[d] = "read" => conn[Src(d)] = "closed") /\ Return(d)
  \/ conn[Dst(d)] = "closed" /\ WriteFails(d, 0)

ServeAlone ==
  \/ RecordStarted \/ RecordDecision \/ Forward \/ Join \/ Stop \/ RecordFinished \/ End
  \/ ctx = "done" /\ (DelayFails \/ DialFails)

FairSpec ==
  /\ Spec
  /\ WF_vars(ContextEnds) /\ WF_vars(Activate) /\ WF_vars(ServeAlone)
  /\ \A e \in Ends : WF_vars(ContextCloses(e))
  /\ \A d \in Directions : WF_vars(PumpAlone(d))

-----------------------------------------------------------------------------
(* Properties *)

Said(type) == \E i \in 1 .. Len(log) : log[i].type = type

\* How far the events recorded so far bring the flow.
Life ==
  IF log = <<>> THEN "none"
  ELSE LET e == log[Len(log)] IN
    CASE e.type = "flow_started"  -> "open"
      [] e.type = "decision"      -> IF e.flag THEN "selected" ELSE "passed"
      [] e.type = "fault_applied" -> "applied"
      [] e.type = "flow_finished" -> IF e.flag = Said("fault_applied") THEN "done" ELSE "wrong"

\* A connection records its events in the order the recorder counts on, whatever the
\* timer, the pumps, the timeout and the peers do: in particular no fault_applied follows
\* flow_finished, and the Applied flag of flow_finished says whether there was one.
E == INSTANCE FlowEvents WITH Flows <- {"flow"}, life <- [f \in {"flow"} |-> Life]
RecordsInOrder == E!FlowSpec

\* A byte trigger fires after exactly after_bytes forwarded bytes of its direction, and a
\* close or a hold of that direction lets no byte more through; any hold lets through at
\* most the one write that was under way when it began; and an outcome that names the
\* action is only given to a flow whose fault was applied.
FaultExact ==
  /\ \A d \in Directions :
       /\ Triggers(d) /\ fault.afterBytes > 0 /\ active
       /\ fault.action = "close_connection" \/ (fault.action = "hold" /\ fault.direction = d)
       /\ mu = "free"
       => count[d] = fault.afterBytes
  /\ \A d \in Directions : fault.action = "hold" /\ fault.direction = d => late[d] <= 1
  /\ pc = "finished" /\ outcome = fault.action => applied

\* Bytes are neither invented nor lost: what was read was written, is about to be, or was
\* discarded by a hold of its direction; a pump that failed may keep the rest of one read.
\* What is read ahead of a delayed dial fits its buffer.
BytesConserved ==
  /\ \A d \in Directions :
       /\ taken[d] = count[d] + payload[d] + dropped[d] + Buffered(d)
       /\ dropped[d] > 0 => Blocked(d)
  /\ prefetched <= PrefetchSize

\* Every connection ends, and its slot is free again, whatever the peers do: the request
\* timeout, or Close of the server, is enough to end it.
ConnectionEnds == <>(pc = "ended")
=============================================================================
