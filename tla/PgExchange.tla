----------------------------- MODULE PgExchange -----------------------------
(***************************************************************************)
(* internal/proxy/postgresql/session.go: exchange, the life of one         *)
(* authenticated PostgreSQL session.  Its loop relays frames between the   *)
(* client and the database; a pump per leg feeds it through a channel of   *)
(* one frame.  A flow is a command cycle, from the first frontend frame to *)
(* ReadyForQuery, and its one fault waits for CommandComplete("COMMIT") of *)
(* an explicit transaction.                                                *)
(*                                                                         *)
(* The database is external: what PostgreSQL 17 answers to the statements  *)
(* that open and close transaction blocks.  Frames are their kind and what *)
(* the loop looks at; bodies, SQL and parameters are left out.             *)
(***************************************************************************)
EXTENDS Integers, Sequences, FiniteSets

CONSTANTS
  Queries,      \* statement sequences that a Query frame may carry
  Executes,     \* statements that an Execute frame may run
  Actions,      \* fault actions of the rule: delay, hold_response, close_connection
  MaxFrames     \* bound on the frames the client sends

Statements == {"begin", "start", "commit", "chain", "rollback", "rollback_to", "copy", "other"}

ASSUME PgAssumption ==
  /\ Queries \subseteq Seq(Statements) /\ Executes \subseteq Statements
  /\ Actions \subseteq {"delay", "hold_response", "close_connection"}
  /\ MaxFrames \in Nat

VARIABLES
  service,      \* Service.active: whether its snapshots inject
  block,        \* the database's transaction status: "I", "T" or "E"
  work,         \* what the database has been told and has not done
  skip,         \* after an error it drops its work up to this
  wire,         \* frames it has sent
  gone,         \* the client has closed its end
  ctx,          \* "live" or "done": the context of the session
  pump,         \* each pump: "read", "send" or "done"
  hand,         \* the frame a pump wants to send
  channel,      \* front and back
  pc,           \* where the loop is
  frame,        \* the frame it handles
  snap,         \* the snapshot of the cycle
  active, awaiting, transaction, executed, decided,   \* the locals of exchange
  outcome,
  fault,        \* decision.Fault.Action when Selected, else "none"
  cycleTimer,   \* whether the timer of the cycle is running
  cycle,        \* history: the number of the cycle, 0 before the first
  life,         \* history: how far its events have got
  finished,     \* history: the outcome of its flow_finished
  statements,   \* history: statements it has sent
  committed,    \* history: the database has committed an explicit transaction in it
  acked,        \* history: a COMMIT has reached the client after its decision
  sent          \* history: frames the client has sent

database == <<block, work, skip, wire>>
pumps == <<pump, hand, channel>>
locals == <<snap, active, awaiting, transaction, executed, decided, outcome, fault, cycleTimer>>
events == <<life, finished>>
history == <<cycle, events, statements, committed, acked, sent>>
vars == <<service, database, gone, ctx, pumps, pc, frame, locals, history>>

Legs == {"front", "back"}
Capacity == 1

Front(kind, todo) == [kind |-> kind, todo |-> todo]
Back(kind, tag, c) == [kind |-> kind, tag |-> tag, cycle |-> c]
NoFrame == Back("none", "none", 0)

\* The client's next frame: what it is matters when the loop takes it.
Unread == Front("unread", <<>>)

Init ==
  /\ service \in BOOLEAN
  /\ block = "I" /\ work = <<>> /\ skip = "nothing" /\ wire = <<>>
  /\ gone = FALSE /\ ctx = "live"
  /\ pump = [l \in Legs |-> "read"]
  /\ hand = [l \in Legs |-> NoFrame] /\ channel = [l \in Legs |-> <<>>]
  /\ pc = "select" /\ frame = NoFrame
  /\ snap = FALSE
  /\ active = FALSE /\ awaiting = FALSE /\ transaction = FALSE
  /\ executed = FALSE /\ decided = FALSE
  /\ outcome = "forwarded" /\ fault = "none" /\ cycleTimer = FALSE
  /\ cycle = 0 /\ life = "none" /\ finished = "none"
  /\ statements = 0 /\ committed = FALSE /\ acked = FALSE /\ sent = 0

-----------------------------------------------------------------------------
(* The database *)

Token(op, simple) == [op |-> op, simple |-> simple]

Reply(kind, tag, b) == [kind |-> kind, tag |-> tag, block |-> b]
Done(tag, b) == Reply("C", tag, b)
Error(b) == Reply("E", "none", b)

\* What a statement may be answered in a transaction status.
Answers ==
  UNION {
    {"begin"} \X {"I", "T"} \X {Done("BEGIN", "T")},
    {"start"} \X {"I", "T"} \X {Done("START", "T")},
    {"commit"} \X {"I", "T"} \X {Done("COMMIT", "I")},
    {"chain"} \X {"T"} \X {Done("COMMIT", "T")},
    {"commit", "chain"} \X {"T"} \X {Error("I")},
    {"commit"} \X {"E"} \X {Done("ROLLBACK", "I")},
    {"chain"} \X {"E"} \X {Done("ROLLBACK", "T")},
    {"rollback"} \X {"I", "T", "E"} \X {Done("ROLLBACK", "I")},
    {"rollback_to"} \X {"T", "E"} \X {Done("ROLLBACK", "T")},
    {"chain", "rollback_to", "other"} \X {"I"} \X {Error("I")},
    {"other"} \X {"T"} \X {Error("E")},
    {"begin", "start", "copy", "other"} \X {"E"} \X {Error("E")},
    {<<"other", b, Done("OTHER", b)>> : b \in {"I", "T"}},
    {<<"copy", b, Reply("G", "none", b)>> : b \in {"I", "T"}},
    {<<"parse", b, Reply("1", "none", b)>> : b \in {"I", "T", "E"}},
    {<<op, b, Reply("Z", b, b)>> : op \in {"ready", "sync"}, b \in {"I", "T", "E"}} }

Replies(op, b) == {a[3] : a \in {x \in Answers : x[1] = op /\ x[2] = b}}

\* The loop of exchange has not returned.  What the database does later is not followed.
Running == pc \in {"select", "write_up", "write_down", "record", "apply"}

\* The database drops a token after an error, or answers it.
Database ==
  /\ Running /\ work # <<>>
  /\ work' = Tail(work)
  /\ LET t == Head(work) IN
       \/ /\ skip # "nothing" /\ t.op # skip
          /\ UNCHANGED <<block, skip, wire, committed>>
       \/ /\ skip \in {"nothing", t.op}
          /\ \E r \in Replies(t.op, block) :
               /\ block' = r.block
               /\ wire' = Append(wire, Back(r.kind, r.tag, cycle))
               /\ skip' = IF r.kind = "E" THEN IF t.simple THEN "ready" ELSE "sync" ELSE "nothing"
               /\ committed' = (committed \/ (r.tag = "COMMIT" /\ block = "T"))
  /\ UNCHANGED <<service, gone, ctx, pumps, pc, frame, locals, cycle, events, statements, acked, sent>>

-----------------------------------------------------------------------------
(* pump, and what ends the context *)

Readable(l) ==
  IF l = "back" THEN IF wire = <<>> THEN {} ELSE {Head(wire)}
  ELSE IF sent = MaxFrames THEN {} ELSE {Unread}

PumpRead(l) ==
  /\ pump[l] = "read" /\ pc \notin {"closing", "done"}
  /\ \E f \in Readable(l) : hand' = [hand EXCEPT ![l] = f]
  /\ pump' = [pump EXCEPT ![l] = "send"]
  /\ wire' = IF l = "back" THEN Tail(wire) ELSE wire
  /\ sent' = IF l = "front" THEN sent + 1 ELSE sent
  /\ UNCHANGED <<service, block, work, skip, gone, ctx, channel, pc, frame, locals, cycle, events, statements, committed, acked>>

Room(l) == Len(channel[l]) < Capacity

PumpSend(l) ==
  /\ pump[l] = "send" /\ Room(l)
  /\ channel' = [channel EXCEPT ![l] = Append(channel[l], hand[l])]
  /\ hand' = [hand EXCEPT ![l] = NoFrame]
  /\ pump' = [pump EXCEPT ![l] = "read"]
  /\ UNCHANGED <<service, database, gone, ctx, pc, frame, locals, history>>

PumpQuits(l) ==
  /\ pump[l] = "send" /\ ctx = "done"
  /\ hand' = [hand EXCEPT ![l] = NoFrame]
  /\ pump' = [pump EXCEPT ![l] = "done"]
  /\ UNCHANGED <<service, database, gone, ctx, channel, pc, frame, locals, history>>

\* EOF, the deadline of the connection, a malformed frame, or the connection was closed.
PumpFails(l) ==
  /\ pump[l] = "read"
  /\ pump' = [pump EXCEPT ![l] = "done"]
  /\ ctx' = "done"
  /\ UNCHANGED <<service, database, gone, hand, channel, pc, frame, locals, history>>

ClientEnds ==
  /\ ~gone /\ Running /\ gone' = TRUE /\ sent' = MaxFrames
  /\ UNCHANGED <<service, database, ctx, pumps, pc, frame, locals, cycle, events, statements, committed, acked>>

\* Server.Close, or a cancel request for this session.
ContextEnds ==
  /\ Running /\ ctx = "live" /\ ctx' = "done"
  /\ UNCHANGED <<service, database, gone, pumps, pc, frame, locals, history>>

CycleTimeout ==
  /\ cycleTimer /\ cycleTimer' = FALSE
  /\ ctx' = "done"
  /\ UNCHANGED <<service, database, gone, pumps, pc, frame, snap, active, awaiting,
                 transaction, executed, decided, outcome, fault, history>>

\* Service.apply and Service.SetEnabled, at any time.
ServiceChanges ==
  /\ Running /\ service' = ~service
  /\ UNCHANGED <<database, gone, ctx, pumps, pc, frame, locals, history>>

-----------------------------------------------------------------------------
(* The loop of exchange *)

\* Record takes the flow to its next event; the same event twice is one too many.
Record(stage) == life' = IF life = stage THEN "twice" ELSE stage

\* Mutant: finish leaves the flow active.
StillActive == active
NoLongerActive == FALSE

\* finish: the cycle is over and its timer stopped; nothing when no cycle is active.
Finish(out) ==
  /\ active' = NoLongerActive /\ snap' = FALSE /\ cycleTimer' = FALSE
  /\ IF active THEN Record("done") /\ finished' = out ELSE UNCHANGED <<life, finished>>

Take(l) ==
  /\ pc = "select" /\ channel[l] # <<>>
  /\ channel' = [channel EXCEPT ![l] = Tail(channel[l])]
  /\ UNCHANGED <<service, database, gone, ctx, pump, hand, sent>>

FrontFrames ==
  {Front("Q", q) : q \in Queries} \cup {Front("E", <<x>>) : x \in Executes}
    \cup {Front(k, <<>>) : k \in {"P", "S", "X", "d"}}

\* Mutant: the loop waits for frames alone.
Unaware == FALSE
Cancelled == ctx = "done"

Quit ==
  /\ pc = "select" /\ Cancelled /\ pc' = "return"
  /\ UNCHANGED <<service, database, gone, ctx, pumps, frame, locals, history>>

\* Mutant: a frame may follow before ReadyForQuery.
RefusedKind(f) == f.kind = "d"
Refused(f) == f.kind = "d" \/ awaiting

\* Terminate, a frame that is not supported or comes too early, a second Execute.
Last(f) == f.kind = "X" \/ Refused(f) \/ (f.kind = "E" /\ active /\ executed)

TakeLast ==
  /\ Take("front") /\ (\E f \in FrontFrames : Last(f))
  /\ pc' = "return"
  /\ UNCHANGED <<frame, locals, cycle, events, statements, committed, acked>>

\* Mutant: the cycle has no timer.
Untimed == FALSE
Timed == TRUE

\* The first frame of a cycle pins the snapshot and starts the flow.
Begin ==
  /\ snap' = service
  /\ active' = TRUE /\ decided' = FALSE
  /\ outcome' = "forwarded" /\ fault' = "none" /\ cycleTimer' = Timed
  /\ cycle' = cycle + 1 /\ Record("open") /\ finished' = "none"
  /\ committed' = FALSE /\ acked' = FALSE

TakeFront(f) ==
  /\ Take("front") /\ ~Last(f)
  /\ frame' = f
  /\ executed' = (f.kind = "E" \/ (active /\ executed))
  /\ awaiting' = (f.kind \in {"Q", "S"})
  /\ statements' = Len(f.todo) + IF active THEN statements ELSE 0
  /\ \/ ~active /\ Begin
     \/ active /\ UNCHANGED <<snap, active, decided, outcome, fault, cycleTimer, cycle, life,
                                finished, committed, acked>>
  /\ pc' = "write_up"
  /\ UNCHANGED transaction

Tokens(f) ==
  UNION {
    IF f.kind = "Q" THEN {[i \in 1 .. Len(f.todo) |-> Token(f.todo[i], TRUE)] \o <<Token("ready", TRUE)>>} ELSE {},
    IF f.kind = "E" THEN {<<Token(f.todo[1], FALSE)>>} ELSE {},
    IF f.kind = "P" THEN {<<Token("parse", FALSE)>>} ELSE {},
    IF f.kind = "S" THEN {<<Token("sync", FALSE)>>} ELSE {} }

WriteUp ==
  /\ pc = "write_up" /\ pc' = "select"
  /\ \E t \in Tokens(frame) : work' = work \o t
  /\ frame' = NoFrame
  /\ UNCHANGED <<service, block, skip, wire, gone, ctx, pumps, locals, history>>

\* A write fails at any time, and at the latest once the context has closed both legs.
WriteFails ==
  /\ pc \in {"write_up", "write_down"} /\ pc' = "return"
  /\ frame' = NoFrame
  /\ UNCHANGED <<service, database, gone, ctx, pumps, locals, history>>

\* A backend frame that the proxy does not relay: COPY.
TakeCopy ==
  /\ Take("back") /\ Head(channel["back"]).kind = "G"
  /\ pc' = "return"
  /\ UNCHANGED <<frame, locals, cycle, events, statements, committed, acked>>

\* Mutant: any COMMIT tag counts.
ConfirmsAny(f) == f.tag = "COMMIT" /\ active /\ ~decided

Confirms(f) == f.tag = "COMMIT" /\ transaction /\ active /\ ~decided

\* Mutant: ReadyForQuery is not looked at.
TagView(f) == f.tag = "BEGIN" \/ (f.tag # "ROLLBACK" /\ transaction)

View(f) ==
  IF f.kind = "Z" THEN f.tag # "I" ELSE f.tag = "BEGIN" \/ (f.tag # "ROLLBACK" /\ transaction)

\* Any other frame is relayed; tags and ReadyForQuery update the view of the transaction.
TakeBack ==
  /\ Take("back")
  /\ LET f == Head(channel["back"]) IN
       /\ f.kind # "G" /\ ~Confirms(f)
       /\ frame' = f
       /\ transaction' = View(f)
       /\ awaiting' = (f.kind # "Z" /\ awaiting)
       /\ outcome' = IF f.kind = "E" THEN "upstream_error" ELSE outcome
  /\ pc' = "write_down"
  /\ UNCHANGED <<snap, active, executed, decided, fault, cycleTimer, cycle, events, statements,
                 committed, acked>>

\* The COMMIT of an explicit transaction is decided on before any of it is relayed.
TakeCommit ==
  /\ Take("back") /\ Confirms(Head(channel["back"]))
  /\ frame' = Head(channel["back"])
  /\ transaction' = FALSE /\ decided' = TRUE
  /\ \E selected \in BOOLEAN :
       /\ selected => snap
       /\ \/ selected /\ fault' \in Actions /\ pc' = "record"
          \/ ~selected /\ fault' = "none" /\ pc' = "write_down"
       /\ Record(IF selected THEN "selected" ELSE "passed")
  /\ UNCHANGED <<snap, active, awaiting, executed, outcome, cycleTimer, cycle, finished,
                 statements, committed, acked>>

RecordApplied ==
  /\ pc = "record" /\ pc' = "apply"
  /\ Record("applied")
  /\ UNCHANGED <<service, database, gone, ctx, pumps, frame, locals, cycle,
                 finished, statements, committed, acked, sent>>

\* Mutant: the hold relays the frame when it ends.
ForwardsHeld == fault # "close_connection"
Forwards == fault = "delay"

\* apply returned true: the delay is over.
ApplyForwards ==
  /\ pc = "apply" /\ Forwards /\ pc' = "write_down"
  /\ UNCHANGED <<service, database, gone, ctx, pumps, frame, locals, history>>

\* apply returned false: close_connection, the end of a hold, or the context is done.
ApplyLoses ==
  /\ pc = "apply" /\ (~Forwards \/ ctx = "done")
  /\ pc' = "return" /\ frame' = NoFrame
  /\ Finish("commit_ack_lost")
  /\ UNCHANGED <<service, database, gone, ctx, pumps, awaiting, transaction, executed, decided,
                 outcome, fault, cycle, statements, committed, acked, sent>>

WriteDown ==
  /\ pc = "write_down" /\ pc' = "select" /\ frame' = NoFrame
  /\ acked' = (acked \/ (decided /\ frame.tag = "COMMIT"))
  /\ \/ frame.kind = "Z" /\ Finish(outcome)
     \/ frame.kind # "Z" /\ UNCHANGED <<active, snap, cycleTimer, life, finished>>
  /\ UNCHANGED <<service, database, gone, ctx, pumps, awaiting, transaction, executed, decided,
                 outcome, fault, cycle, statements, committed, sent>>

\* The deferred finish, the timer, cancel and the closing of both legs.
Return ==
  /\ pc = "return" /\ pc' = "closing" /\ ctx' = "done"
  /\ Finish("connection_closed")
  /\ UNCHANGED <<service, database, gone, pumps, frame, awaiting, transaction, executed, decided,
                 outcome, fault, cycle, statements, committed, acked, sent>>

Join ==
  /\ pc = "closing" /\ (\A l \in Legs : pump[l] = "done")
  /\ pc' = "done"
  /\ UNCHANGED <<service, database, gone, ctx, pumps, frame, locals, history>>

Ended == pc = "done" /\ UNCHANGED vars

Loop ==
  \/ Quit \/ TakeLast \/ (\E f \in FrontFrames : TakeFront(f)) \/ TakeCopy \/ TakeBack \/ TakeCommit
  \/ RecordApplied \/ Return \/ Join

Pump(l) == PumpRead(l) \/ PumpSend(l) \/ PumpQuits(l) \/ PumpFails(l)

Next ==
  \/ Loop \/ WriteUp \/ WriteDown \/ WriteFails \/ ApplyForwards \/ ApplyLoses \/ Ended
  \/ \E l \in Legs : Pump(l)
  \/ Database \/ ClientEnds \/ ContextEnds \/ CycleTimeout \/ ServiceChanges

Spec == Init /\ [][Next]_vars

\* Goroutines run when they can, a closed connection fails, and a client that has closed
\* its end is read as EOF.  A write may block for as long as the context lives.
Prompt ==
  /\ WF_vars(Loop)
  /\ WF_vars(ctx = "done" /\ WriteFails)
  /\ WF_vars((ctx = "done" \/ fault = "close_connection") /\ ApplyLoses)
  /\ \A l \in Legs :
       /\ WF_vars(PumpSend(l)) /\ WF_vars(PumpQuits(l))
       /\ WF_vars((ctx = "done" \/ (l = "front" /\ gone)) /\ PumpFails(l))

PromptSpec == Spec /\ Prompt

\* Timers fire as well.
FairSpec == PromptSpec /\ WF_vars(CycleTimeout) /\ WF_vars(ApplyForwards \/ ApplyLoses)

-----------------------------------------------------------------------------
(* Properties *)

\* A rule is only ever consulted about a commit that happened: in every cycle with a
\* decision, the database has committed an explicit transaction.  Batches, errors, failed
\* commits, savepoints and commits outside a block are no exception.  And no commit is
\* missed: a cycle of one statement that committed an explicit transaction, and was relayed
\* to its end, had a decision, whatever the cycles before it were like.
DecisionsFollowCommits ==
  /\ decided => committed
  /\ finished = "forwarded" /\ committed /\ statements = 1 => decided

\* The acknowledgment is really withheld: after a hold_response or close_connection no
\* COMMIT reaches the client, and the outcome commit_ack_lost says exactly that the
\* database has committed and the client was not told.
AckWithheld ==
  /\ decided /\ fault \in {"hold_response", "close_connection"} => ~acked
  /\ finished = "commit_ack_lost" => committed /\ ~acked

BackFrames ==
  {wire[i] : i \in 1 .. Len(wire)} \cup {channel["back"][i] : i \in 1 .. Len(channel["back"])}
    \cup {hand["back"]} \cup IF pc = "write_down" THEN {frame} ELSE {}

\* A ReadyForQuery ends the cycle that asked for it: none is on its way while no cycle is
\* active, or is left over for a later one; and a pump never holds more than the frame in
\* its hands and its channel of one.
ReadyEndsItsCycle ==
  /\ Running => \A f \in BackFrames : f.kind = "Z" => active /\ f.cycle = cycle
  /\ \A l \in Legs : Len(channel[l]) <= Capacity

Life(c) ==
  IF c < cycle THEN "done" ELSE IF c = cycle THEN life ELSE "none"

\* Every cycle records its events in the order the recorder counts on: this session
\* implements FlowEvents.
F == INSTANCE FlowEvents WITH Flows <- 1 .. MaxFrames, life <- [c \in 1 .. MaxFrames |-> Life(c)]
RecordsInOrder == F!FlowSpec

\* A cycle does not outlive its timer, whatever the client and the database do or do not
\* do; and once its context is done a session gives back its goroutines and connections.
SessionEnds ==
  /\ active ~> ~active
  /\ (ctx = "done") ~> (pc = "done")

\* "Client EOF, valid cancellation and shutdown close both legs and end waits"
\* (plans/09-semantic-adapters/contract.md:49): the end of the client ends the wait of a
\* fault without the help of a timer.
EofEndsWait == (gone /\ pc = "apply") ~> (pc # "apply")
=============================================================================
