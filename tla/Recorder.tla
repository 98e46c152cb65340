------------------------------ MODULE Recorder ------------------------------
(***************************************************************************)
(* internal/recorder/recorder.go: run counters and a bounded queue of      *)
(* events that one goroutine encodes onto a sink.                          *)
(*                                                                         *)
(* Record holds r.mu from its first counter to its last, but the channel   *)
(* send inside it is visible to the writer before Pending is incremented,  *)
(* so Record is two steps (RecordBegin, RecordEnd) and the writer may run  *)
(* between them.  Close and the writer's bookkeeping are single critical   *)
(* sections.  The sink may fail or block: encoding has no fairness.        *)
(***************************************************************************)
EXTENDS Integers, Sequences, FiniteSets, FlowEvents

CONSTANTS
  Capacity,     \* size of the event queue (recorder.go:14, DefaultBuffer)
  Outcomes,     \* outcomes a flow may finish with
  MaxOutcomes,  \* keys the outcome map may hold (recorder.go:103, 32)
  Closers       \* callers of Close

ASSUME RecorderAssumption ==
  /\ Capacity \in Nat \ {0}
  /\ MaxOutcomes \in Nat
  /\ IsFiniteSet(Flows)
  /\ IsFiniteSet(Outcomes)

VARIABLES
  counts,    \* Recorder.counts, indexed by the names of its fields
  outcomes,  \* Recorder.outcomes; an absent key is a zero
  queue,     \* the buffered channel
  closed,    \* Recorder.closed, and the queue channel being closed
  aborted,   \* the abort channel being closed
  mu,        \* "free", or a Record in progress: "sent" or "refused"
  writer,    \* the write goroutine: "range", "encode", "written", "failed", "exited"
  held,      \* the event the writer took last, as a sequence of at most one
  broken,    \* json.Encoder keeps its first write error for ever
  closer,    \* progress and result of each Close call
  sink,      \* history: events the sink accepted, in order
  log        \* history: events passed to Record, in the order of r.mu

recVars == <<counts, outcomes, queue, closed, aborted, mu, writer, held,
             broken, closer, sink, log>>
vars == <<life, recVars>>

EventTypes == {"flow_started", "decision", "fault_applied", "flow_finished"}

\* The fields of recorder.Event that Record looks at.
Event(f, type, rule, selected, applied, outcome) ==
  [flow |-> f, type |-> type, rule |-> rule, selected |-> selected,
   applied |-> applied, outcome |-> outcome]

Events == [flow : Flows, type : EventTypes, rule : BOOLEAN, selected : BOOLEAN,
           applied : BOOLEAN, outcome : Outcomes \cup {""}]

CounterNames == {"Total", "Eligible", "Selected", "Applied", "Active", "ActiveFaults",
                 "Dropped", "WriteErrors", "Written", "Pending"}

Init ==
  /\ FlowInit
  /\ counts = [n \in CounterNames |-> 0]
  /\ outcomes = [o \in Outcomes |-> 0]
  /\ queue = <<>> /\ held = <<>> /\ sink = <<>> /\ log = <<>>
  /\ closed = FALSE /\ aborted = FALSE /\ broken = FALSE
  /\ mu = "free" /\ writer = "range"
  /\ closer = [c \in Closers |-> "idle"]

-----------------------------------------------------------------------------
(* Record *)

One(b) == IF b THEN 1 ELSE 0

\* The counters with those named in up incremented and those named in down decremented.
Counted(up, down) ==
  [n \in CounterNames |-> counts[n] + One(n \in up) - One(n \in down)]

If(b, names) == IF b THEN names ELSE {}

\* Mutant: every finished flow is taken to have applied its fault.
TallyAllFaulted(e) ==
  Counted(If(e.type = "flow_started", {"Total", "Active"})
            \cup If(e.type = "decision" /\ e.rule, {"Eligible"})
            \cup If(e.type = "decision" /\ e.selected, {"Selected"})
            \cup If(e.type = "fault_applied", {"Applied", "ActiveFaults"}),
          If(e.type = "flow_finished", {"Active", "ActiveFaults"}))

\* The switch on the event's type.
Tally(e) ==
  Counted(If(e.type = "flow_started", {"Total", "Active"})
            \cup If(e.type = "decision" /\ e.rule, {"Eligible"})
            \cup If(e.type = "decision" /\ e.selected, {"Selected"})
            \cup If(e.type = "fault_applied", {"Applied", "ActiveFaults"}),
          If(e.type = "flow_finished", {"Active"})
            \cup If(e.type = "flow_finished" /\ e.applied, {"ActiveFaults"}))

\* The keys of the outcome map are the outcomes counted at least once; it takes no new
\* key once it holds MaxOutcomes of them.
OutcomeKeys == {o \in Outcomes : outcomes[o] > 0}

TallyOutcome(e) ==
  IF e.type = "flow_finished" /\ (e.outcome \in OutcomeKeys \/ Cardinality(OutcomeKeys) < MaxOutcomes)
  THEN [outcomes EXCEPT ![e.outcome] = @ + 1]
  ELSE outcomes

\* Mutant: the send does not look at closed.
AcceptsAfterClose == Len(queue) < Capacity

\* The send succeeds: the channel has room and Close has not closed it.
Accepts == ~closed /\ Len(queue) < Capacity

\* Lock r.mu, count the event, and try the non-blocking send.
RecordBegin(e) ==
  /\ mu = "free"
  /\ counts' = Tally(e)
  /\ outcomes' = TallyOutcome(e)
  /\ log' = Append(log, e)
  /\ IF Accepts
     THEN queue' = Append(queue, e) /\ mu' = "sent"
     ELSE mu' = "refused" /\ UNCHANGED queue
  /\ UNCHANGED <<closed, aborted, writer, held, broken, closer, sink>>

\* Mutant: a refused event is not counted.
SilentDrop ==
  \/ mu = "sent" /\ counts' = Counted({"Pending"}, {})
  \/ mu = "refused" /\ counts' = counts

CountDelivery ==
  \/ mu = "sent" /\ counts' = Counted({"Pending"}, {})
  \/ mu = "refused" /\ counts' = Counted({"Dropped"}, {})

\* Count the delivery or the drop, and unlock.
RecordEnd ==
  /\ CountDelivery
  /\ mu' = "free"
  /\ UNCHANGED <<life, outcomes, queue, closed, aborted, writer, held, broken,
                 closer, sink, log>>

\* The calls the adapters make, in the order FlowEvents allows.
RecordStarted(f) ==
  Start(f) /\ RecordBegin(Event(f, "flow_started", FALSE, FALSE, FALSE, ""))

RecordDecision(f) ==
  \E r, s \in BOOLEAN :
    /\ s => r
    /\ Decide(f, s)
    /\ RecordBegin(Event(f, "decision", r, s, FALSE, ""))

RecordApplied(f) ==
  ApplyFault(f) /\ RecordBegin(Event(f, "fault_applied", FALSE, TRUE, TRUE, ""))

RecordFinished(f) ==
  \E a \in BOOLEAN, o \in Outcomes :
    Finish(f, a) /\ RecordBegin(Event(f, "flow_finished", FALSE, FALSE, a, o))

-----------------------------------------------------------------------------
(* The write goroutine *)

\* range receives an event; an aborted writer returns without encoding it.
Take ==
  /\ writer = "range" /\ queue # <<>>
  /\ held' = <<Head(queue)>>
  /\ queue' = Tail(queue)
  /\ writer' = IF aborted THEN "exited" ELSE "encode"
  /\ UNCHANGED <<life, counts, outcomes, closed, aborted, mu, broken, closer, sink, log>>

\* range ends on a closed, drained channel; done is closed on return.
RangeEnd ==
  /\ writer = "range" /\ queue = <<>> /\ closed
  /\ writer' = "exited"
  /\ UNCHANGED <<life, counts, outcomes, queue, closed, aborted, mu, held, broken,
                 closer, sink, log>>

\* encoder.Encode(e), outside the lock.  It may block, so nothing forces it.
Encode ==
  /\ writer = "encode"
  /\ \/ /\ ~broken
        /\ sink' = Append(sink, Head(held))
        /\ writer' = "written"
        /\ UNCHANGED broken
     \/ /\ broken' = TRUE
        /\ writer' = "failed"
        /\ UNCHANGED sink
  /\ UNCHANGED <<life, counts, outcomes, queue, closed, aborted, mu, held, closer, log>>

\* Mutant: a failed write is not counted as dropped.
NoDropOnError ==
  \/ writer = "written" /\ counts' = Counted({"Written"}, {"Pending"})
  \/ writer = "failed" /\ counts' = Counted({"WriteErrors"}, {"Pending"})

CountResult ==
  \/ writer = "written" /\ counts' = Counted({"Written"}, {"Pending"})
  \/ writer = "failed" /\ counts' = Counted({"Dropped", "WriteErrors"}, {"Pending"})

\* The writer's critical section after Encode.
CountWrite ==
  /\ mu = "free"
  /\ CountResult
  /\ held' = <<>>
  /\ writer' = "range"
  /\ UNCHANGED <<life, outcomes, queue, closed, aborted, mu, broken, closer, sink, log>>

-----------------------------------------------------------------------------
(* Close *)

\* A caller invokes Close and is about to lock r.mu.
CloseCall(c) ==
  /\ closer[c] = "idle"
  /\ closer' = [closer EXCEPT ![c] = "locking"]
  /\ UNCHANGED <<life, counts, outcomes, queue, closed, aborted, mu, writer, held,
                 broken, sink, log>>

\* Mutant: Close waits for the writer to be idle before it closes the queue.
CloseQueueIdle(c) ==
  /\ closer[c] = "locking" /\ mu = "free" /\ writer # "encode"
  /\ closed' = TRUE
  /\ closer' = [closer EXCEPT ![c] = "waiting"]
  /\ UNCHANGED <<life, counts, outcomes, queue, aborted, mu, writer, held, broken,
                 sink, log>>

CloseQueue(c) ==
  /\ closer[c] = "locking" /\ mu = "free"
  /\ closed' = TRUE
  /\ closer' = [closer EXCEPT ![c] = "waiting"]
  /\ UNCHANGED <<life, counts, outcomes, queue, aborted, mu, writer, held, broken,
                 sink, log>>

\* <-r.done, then Counters() under the lock.
CloseDone(c) ==
  /\ closer[c] = "waiting" /\ writer = "exited" /\ mu = "free"
  /\ closer' = [closer EXCEPT ![c] = IF counts["Pending"] = 0 THEN "nil" ELSE "unflushed"]
  /\ UNCHANGED <<life, counts, outcomes, queue, closed, aborted, mu, writer, held,
                 broken, sink, log>>

\* <-ctx.Done(): tell the writer to stop and give up.
CloseDeadline(c) ==
  /\ closer[c] = "waiting"
  /\ aborted' = TRUE
  /\ closer' = [closer EXCEPT ![c] = "deadline"]
  /\ UNCHANGED <<life, counts, outcomes, queue, closed, mu, writer, held, broken,
                 sink, log>>

Record(f) ==
  RecordStarted(f) \/ RecordDecision(f) \/ RecordApplied(f) \/ RecordFinished(f)

Next ==
  \/ \E f \in Flows : Record(f)
  \/ RecordEnd
  \/ Take \/ RangeEnd \/ Encode \/ CountWrite
  \/ \E c \in Closers :
       CloseCall(c) \/ CloseQueue(c) \/ CloseDone(c) \/ CloseDeadline(c)

Spec == Init /\ [][Next]_vars

(* A sink that may block for ever.  RecordEnd and the writer's own steps run to *)
(* their end once scheduled; a mutex request is served (sync.Mutex hands a      *)
(* starving waiter the lock); the context given to Close has a deadline.        *)
BlockedSinkSpec ==
  /\ Spec
  /\ WF_vars(RecordEnd) /\ WF_vars(Take) /\ WF_vars(RangeEnd) /\ SF_vars(CountWrite)
  /\ \A c \in Closers : SF_vars(CloseQueue(c)) /\ WF_vars(CloseDeadline(c))

-----------------------------------------------------------------------------
(* Properties *)

\* Every counter stays a natural number: none of the decrements Record and write
\* make on the uint64 counters can wrap.
TypeOK ==
  /\ life \in [Flows -> Stages]
  /\ counts \in [CounterNames -> Nat]
  /\ outcomes \in [Outcomes -> Nat]
  /\ queue \in Seq(Events) /\ Len(queue) <= Capacity
  /\ closed \in BOOLEAN /\ aborted \in BOOLEAN /\ broken \in BOOLEAN
  /\ mu \in {"free", "sent", "refused"}
  /\ writer \in {"range", "encode", "written", "failed", "exited"}
  /\ held \in Seq(Events) /\ Len(held) <= 1
  /\ closer \in [Closers -> {"idle", "locking", "waiting", "nil", "unflushed", "deadline"}]
  /\ sink \in Seq(Events)
  /\ log \in Seq(Events)

\* No event is lost without trace or counted twice: each call of Record is, once it
\* has returned, exactly one of written, dropped or pending, whatever the queue, the
\* sink and Close do (the counters of Record, write and Close).
Accounting ==
  Len(log) = counts["Written"] + counts["Dropped"] + counts["Pending"] + One(mu # "free")

\* Pending is the backlog: the queue plus the event in the writer's hands, even while
\* a Record is between its send and its increment, and even after an abort.
PendingIsBacklog ==
  counts["Pending"] + One(mu = "sent") = Len(queue) + Len(held)

OpenFlows == {f \in Flows : life[f] \in Open}
FaultedFlows == {f \in Flows : life[f] = "applied"}

\* Active and ActiveFaults are gauges, not drifting counters: they equal the number of
\* flows that are open, and of open flows whose fault was applied.
GaugesExact ==
  /\ counts["Active"] = Cardinality(OpenFlows)
  /\ counts["ActiveFaults"] = Cardinality(FaultedFlows)

\* The counters are exact: none of the unsigned ones ever wraps, every event is written,
\* dropped or pending, and the gauges agree with the flows that are under way.
CountersExact == counts \in [CounterNames -> Nat] /\ Accounting /\ GaugesExact

\* The outcome map keeps within its limit, whatever outcomes the adapters come up with.
OutcomesBounded == Cardinality(OutcomeKeys) <= MaxOutcomes

\* What docs/operations.md tells the reader of a status: with no dropped and no pending
\* events the artifact is complete, that is the sink holds every recorded event, once,
\* in the order of recording.
ArtifactComplete ==
  mu = "free" /\ counts["Dropped"] = 0 /\ counts["Pending"] = 0 => sink = log

\* Close returning nil is final: nothing is pending then or later, and every event of
\* the run is either in the sink or counted as dropped.
NilMeansFlushed ==
  (\E c \in Closers : closer[c] = "nil") =>
    /\ counts["Pending"] = 0 /\ queue = <<>>
    /\ Len(sink) = counts["Written"]
    /\ Len(log) = Len(sink) + counts["Dropped"] + One(mu # "free")

\* The conjuncts that make the invariants above inductive.  The writer's hands are
\* empty exactly between two events, unless an abort made it leave with one.
WriterHolds ==
  /\ writer = "range" => held = <<>>
  /\ writer \in {"encode", "written", "failed"} => Len(held) = 1

\* What a closed channel, an exited writer and each result of Close imply.
Closing ==
  /\ mu = "sent" => ~closed
  /\ writer = "exited" \/ aborted => closed
  /\ writer = "exited" /\ held = <<>> => queue = <<>>
  /\ \A c \in Closers : closer[c] \notin {"idle", "locking"} => closed
  /\ \A c \in Closers : closer[c] = "nil" => writer = "exited" /\ held = <<>>

SinkCounted == Len(sink) = counts["Written"] + One(writer = "written")

\* As long as nothing was dropped, the sink, the event in the writer's hands and the
\* queue concatenate to the log.
Unsunk == IF writer \in {"encode", "exited"} THEN held ELSE <<>>

Gapless ==
  counts["Dropped"] = 0 /\ mu # "refused" /\ writer # "failed" =>
    log = (sink \o Unsunk) \o queue

\* The inductive invariant of the recorder.
RecorderInv ==
  /\ TypeOK /\ Accounting /\ PendingIsBacklog /\ GaugesExact
  /\ WriterHolds /\ Closing /\ SinkCounted /\ Gapless

Returned(c) == closer[c] \in {"nil", "unflushed", "deadline"}

\* Close is bounded by its context even when the sink blocks for ever (the comment on
\* Close): neither the lock nor the queue can hold it up.
CloseReturns == \A c \in Closers : closer[c] = "locking" ~> Returned(c)

=============================================================================
