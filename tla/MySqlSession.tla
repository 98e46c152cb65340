---------------------------- MODULE MySqlSession ----------------------------
(***************************************************************************)
(* internal/proxy/mysql: serve, one connection of a client, from its slot  *)
(* and the handshake to exchange, the loop over its commands.  A flow is   *)
(* one command and its reply.  Its one fault waits for the OK packet of    *)
(* the COMMIT of an explicit transaction, recognised by the status flags   *)
(* that the database sends with every reply.                               *)
(*                                                                         *)
(* The database is external: the reply and the transaction status with     *)
(* which MySQL answers the statements that open and close transactions.    *)
(* Column definitions are one packet and rows are left out: the loop       *)
(* relays each of them alike.                                              *)
(***************************************************************************)
EXTENDS Integers, Sequences, FiniteSets

CONSTANTS
  Statements,   \* statements the client may send
  Ids,          \* statement ids of the database
  MaxPrepared,  \* prepared statements of a session (128)
  MaxRounds,    \* packets of the database in an authentication (12)
  Secure,       \* whether the listener requires TLS
  Actions,      \* fault actions of the rule
  MaxCommands   \* bound on the commands of the client

ASSUME MySqlAssumption ==
  /\ Statements \subseteq {"begin", "start", "commit", "rollback", "chain", "ddl", "write", "select", "call"}
  /\ Actions \subseteq {"delay", "hold_response", "close_connection"}
  /\ MaxPrepared \in Nat /\ MaxRounds \in Nat \ {0} /\ MaxCommands \in Nat /\ Secure \in BOOLEAN

VARIABLES
  open,         \* the database's transaction: "none", "implicit" or "explicit"
  prepared,     \* the statement it has prepared under an id, or "none"
  todo,         \* commands it has received and not executed
  wire,         \* packets it has sent that the loop has not taken
  pc,           \* where serve is
  rounds,       \* packets of the authentication so far
  tls,          \* the legs that are encrypted
  slot,         \* whether the session holds a place in Server.slots
  ctx,          \* "live" or "done": the context of the session
  pump,         \* each pump: "run" or "done"
  queue,        \* commands in front, the channel, and in the hand of its pump
  command,      \* the command of the cycle
  packet,       \* the reply packet the loop handles
  expect,       \* which packet comes next
  transaction,  \* the local of exchange
  statements,   \* the local of exchange: the class of each prepared statement, or "none"
  timer,        \* cycleCtx: "off", "armed" with abort registered, "loose" without, "fired"
  outcome, failed,   \* the locals outcome and err
  fault,        \* the action when the decision selected, else "none"
  cycle,        \* history: the number of the cycle, 0 before the first
  life,         \* history: how far its events have got
  finished,     \* history: the outcome of its flow_finished
  tracked,      \* history: a recognised BEGIN opened the transaction, nothing failed since
  committed,    \* history: in this cycle a COMMIT has committed an explicit transaction
  due,          \* history: ... that was tracked
  decided,      \* history: the cycle has had a decision
  acked,        \* history: the OK packet of a decided COMMIT has reached the client
  cause         \* history: why the context ended

database == <<open, prepared, todo, wire>>
session == <<rounds, tls, slot>>
locals == <<command, packet, expect, transaction, statements, timer, outcome, failed, fault>>
truth == <<tracked, committed, due>>
history == <<cycle, life, finished, decided, acked>>
vars == <<database, pc, session, ctx, pump, queue, locals, truth, history, cause>>

Legs == {"front", "back"}
Limit == 2     \* packets a pump and its channel hold

Command(op, stmt, id) == [op |-> op, stmt |-> stmt, id |-> id]
NoCommand == Command("none", "none", 0)
Packet(kind, trans, id) == [kind |-> kind, trans |-> trans, id |-> id]
NoPacket == Packet("none", FALSE, 0)

Init ==
  /\ open = "none" /\ prepared = [i \in Ids |-> "none"] /\ todo = <<>> /\ wire = <<>>
  /\ pc = "slot" /\ rounds = 0 /\ tls = {} /\ slot = FALSE
  /\ ctx = "live" /\ cause = "none" /\ pump = [l \in Legs |-> "done"] /\ queue = 0
  /\ command = NoCommand /\ packet = NoPacket /\ expect = "first"
  /\ transaction = FALSE /\ statements = [i \in Ids |-> "none"]
  /\ timer = "off" /\ outcome = "forwarded" /\ failed = FALSE /\ fault = "none"
  /\ cycle = 0 /\ life = "none" /\ finished = "none" /\ decided = FALSE /\ acked = FALSE
  /\ tracked = FALSE /\ committed = FALSE /\ due = FALSE

-----------------------------------------------------------------------------
(* The database *)

\* The transaction after a statement has succeeded.
After(stmt, o) ==
  UNION {
    IF stmt \in {"begin", "start", "chain"} THEN {"explicit"} ELSE {},
    IF stmt \in {"commit", "rollback", "ddl"} THEN {"none"} ELSE {},
    IF stmt \in {"write", "select", "call"} THEN {o} ELSE {},
    IF stmt \in {"write", "select"} /\ o = "none" THEN {"implicit"} ELSE {} }

Good(stmt, o) ==
  IF stmt = "select" THEN <<Packet("head", FALSE, 0), Packet("def", FALSE, 0), Packet("end", o # "none", 0)>>
  ELSE <<Packet("ok", o # "none", 0)>>

Err == Packet("err", FALSE, 0)

Bad(stmt) ==
  {<<Err>>, <<Packet("odd", FALSE, 0)>>}
    \cup IF stmt = "select" THEN {<<Packet("head", FALSE, 0), Packet("def", FALSE, 0), Err>>} ELSE {}

\* A statement succeeds, or fails and may roll its transaction back.
Run(stmt) ==
  \/ \E o \in After(stmt, open) :
       /\ open' = o /\ wire' = wire \o Good(stmt, o)
       /\ tracked' = (stmt = "begin" \/ (tracked /\ o = "explicit"))
       /\ committed' = (stmt = "commit" /\ open = "explicit")
       /\ due' = (stmt = "commit" /\ tracked)
  \/ \E r \in Bad(stmt) :
       /\ open' \in {open, "none"} /\ wire' = wire \o r
       /\ tracked' = FALSE
       /\ UNCHANGED <<committed, due>>

\* reset, a COM_PING or COM_INIT_DB, COM_RESET_CONNECTION and the life of a prepared statement.
Other(c) ==
  \/ /\ c.op \in {"reset", "ping"}
     /\ wire' = Append(wire, Packet("ok", open # "none", 0)) /\ UNCHANGED <<open, prepared, truth>>
  \/ /\ c.op = "renew"
     /\ wire' = Append(wire, Packet("ok", FALSE, 0))
     /\ open' = "none" /\ prepared' = [i \in Ids |-> "none"] /\ tracked' = FALSE
     /\ UNCHANGED <<committed, due>>
  \/ /\ c.op = "prepare"
     /\ \E i \in Ids :
          /\ prepared[i] = "none" /\ prepared' = [prepared EXCEPT ![i] = c.stmt]
          /\ wire' = wire \o <<Packet("prep", FALSE, i), Packet("def", FALSE, 0)>>
     /\ UNCHANGED <<open, truth>>
  \/ /\ c.op = "prepare"
     /\ wire' = Append(wire, Err) /\ tracked' = FALSE
     /\ UNCHANGED <<open, prepared, committed, due>>
  \/ /\ c.op = "close"
     /\ prepared' = [prepared EXCEPT ![c.id] = "none"] /\ UNCHANGED <<open, wire, truth>>

\* What the database does after its leg was closed is not followed.
Database ==
  /\ todo # <<>> /\ pump["back"] = "run" /\ todo' = Tail(todo)
  /\ LET c == Head(todo) IN
       \/ c.op = "query" /\ Run(c.stmt) /\ UNCHANGED prepared
       \/ c.op = "execute" /\ Run(prepared[c.id]) /\ UNCHANGED prepared
       \/ Other(c)
  /\ UNCHANGED <<pc, session, ctx, cause, pump, queue, locals, history>>

-----------------------------------------------------------------------------
(* serve: the slot, the upstream and authenticate *)

Prologue == {"slot", "dial", "greet", "answer", "encrypt", "auth"}

Step(from, to) == pc = from /\ pc' = to

TakeSlot ==
  /\ Step("slot", "dial") /\ slot' = TRUE
  /\ UNCHANGED <<database, rounds, tls, ctx, cause, pump, queue, locals, truth, history>>

\* The dial, then the greeting of the database, stripped of what the proxy does not support.
Greet ==
  /\ (Step("dial", "greet") \/ Step("greet", "answer"))
  /\ UNCHANGED <<database, session, ctx, cause, pump, queue, locals, truth, history>>

\* The client's answer; where TLS is required it asks for it, and answers again once
\* the upstream leg and then its own are encrypted.
Answer ==
  /\ IF Secure THEN Step("answer", "encrypt") \/ (tls = Legs /\ Step("encrypt", "auth"))
     ELSE Step("answer", "auth")
  /\ UNCHANGED <<database, session, ctx, cause, pump, queue, locals, truth, history>>

Encrypt ==
  /\ pc = "encrypt" /\ UNCHANGED pc
  /\ tls' = IF "back" \in tls THEN Legs ELSE {"back"}
  /\ UNCHANGED <<database, rounds, slot, ctx, cause, pump, queue, locals, truth, history>>

\* A packet of the authentication method, with the client's answer to it.
AuthRound ==
  /\ pc = "auth" /\ rounds < MaxRounds /\ rounds' = rounds + 1 /\ UNCHANGED pc
  /\ UNCHANGED <<database, tls, slot, ctx, cause, pump, queue, locals, truth, history>>

\* The OK packet: exchange starts its pumps.
Authenticated ==
  /\ Step("auth", "receive") /\ rounds < MaxRounds
  /\ pump' = [l \in Legs |-> "run"]
  /\ UNCHANGED <<database, session, ctx, cause, queue, locals, truth, history>>

\* No slot, or any dial, read, write or handshake fails, takes too long or is malformed.
PrologueFails ==
  /\ pc \in Prologue /\ pc' = "closing" /\ ctx' = "done" /\ cause' = "return"
  /\ UNCHANGED <<database, session, pump, queue, locals, truth, history>>

-----------------------------------------------------------------------------
(* pump, and what ends the context *)

Ends(why) == ctx' = "done" /\ cause' = IF ctx = "live" THEN why ELSE cause

PumpRead ==
  /\ pump["front"] = "run" /\ queue < Limit /\ cycle + queue < MaxCommands
  /\ queue' = queue + 1
  /\ UNCHANGED <<database, pc, session, ctx, cause, pump, locals, truth, history>>

\* EOF, a deadline, a malformed packet or a closed connection; or the context is done
\* while the pump waits for room.  Of the packets still to come one may be in the channel.
PumpEnds(l) ==
  /\ pump[l] = "run" /\ (l = "front" /\ ctx = "live" => queue < Limit)
  /\ pump' = [pump EXCEPT ![l] = "done"]
  /\ Ends("peer")
  /\ wire' \in IF l = "back" THEN {SubSeq(wire, 1, n) : n \in 0 .. (IF wire = <<>> THEN 0 ELSE 1)} ELSE {wire}
  /\ UNCHANGED <<open, prepared, todo, pc, session, queue, locals, truth, history>>

\* Server.Close.
ServerCloses ==
  /\ ctx = "live" /\ Ends("close")
  /\ UNCHANGED <<database, pc, session, pump, queue, locals, truth, history>>

\* The deadline of cycleCtx; abort, while it is registered, cancels the session.
CycleTimeout ==
  /\ timer \in {"armed", "loose"} /\ timer' = "fired"
  /\ IF timer = "armed" THEN Ends("timer") ELSE UNCHANGED <<ctx, cause>>
  /\ UNCHANGED <<database, pc, session, pump, queue, command, packet, expect, transaction,
                 statements, outcome, failed, fault, truth, history>>

-----------------------------------------------------------------------------
(* The loop of exchange *)

classify(stmt) ==
  IF stmt \in {"begin", "commit", "rollback"} THEN stmt
  ELSE IF stmt = "call" THEN "unsupported" ELSE "ordinary"

Prepared(st) == {i \in Ids : st[i] # "none"}

Commands ==
  {Command(op, s, 0) : op \in {"query", "prepare"}, s \in Statements}
    \cup {Command(op, "none", i) : op \in {"execute", "close", "reset"}, i \in Ids}
    \cup {Command(op, "none", 0) : op \in {"ping", "renew", "quit", "bad"}}

\* COM_QUIT, what the proxy does not support, a prepared statement too many or unknown.
Last(c) ==
  \/ c.op \in {"quit", "bad"}
  \/ c.op \in {"query", "prepare"} /\ classify(c.stmt) = "unsupported"
  \/ c.op = "prepare" /\ Cardinality(Prepared(statements)) >= MaxPrepared
  \/ c.op = "execute" /\ statements[c.id] = "none"

Class(c) ==
  IF c.op \in {"query", "prepare"} THEN classify(c.stmt)
  ELSE IF c.op = "execute" THEN statements[c.id] ELSE "ordinary"

Record(stage) == life' = IF life = stage THEN "twice" ELSE stage

Receive ==
  /\ pc = "receive" /\ queue > 0 /\ queue' = queue - 1
  /\ UNCHANGED <<database, session, ctx, cause, pump, tracked>>

ReceiveLast ==
  /\ Receive /\ (\E c \in Commands : Last(c)) /\ pc' = "return"
  /\ UNCHANGED <<locals, committed, due, history>>

\* Mutant: cycleCtx has no deadline.
Untimed == "off"
Timed == "armed"

\* A command starts a flow, with a timer over the cycle.
ReceiveCommand(c) ==
  /\ Receive /\ ~Last(c) /\ pc' = "write_up"
  /\ command' = c /\ timer' = Timed /\ fault' = "none"
  /\ cycle' = cycle + 1 /\ Record("open") /\ finished' = "none"
  /\ decided' = FALSE /\ acked' = FALSE /\ committed' = FALSE /\ due' = FALSE
  /\ UNCHANGED <<packet, expect, transaction, statements, outcome, failed>>

Quit ==
  /\ Step("receive", "return") /\ ctx = "done"
  /\ UNCHANGED <<database, session, ctx, cause, pump, queue, locals, truth, history>>

\* Mutant: a closed statement stays in the table.
KeepClosed == statements
DropClosed == [statements EXCEPT ![command.id] = "none"]

WriteUp ==
  /\ pc = "write_up" /\ todo' = Append(todo, command)
  /\ \/ command.op = "close" /\ pc' = "stop" /\ statements' = DropClosed
     \/ command.op # "close" /\ pc' = "read" /\ UNCHANGED statements
  /\ UNCHANGED <<open, prepared, wire, session, ctx, cause, pump, queue, command, packet, expect,
                 transaction, timer, outcome, failed, fault, truth, history>>

\* cycleCtx is done.
Expired == ctx = "done" \/ timer = "fired"

\* A write fails at any time, a read once cycleCtx is done.
Fails ==
  /\ pc \in {"write_up", "forward"} \/ (pc = "read" /\ Expired)
  /\ pc' = "stop" /\ failed' = TRUE
  /\ UNCHANGED <<database, session, ctx, cause, pump, queue, command, packet, expect, transaction,
                 statements, timer, outcome, fault, truth, history>>

\* Mutant: an OK packet does not end the transaction.
Sticky(p) == Class(command) = "begin" \/ (transaction /\ Class(command) # "rollback")

\* The transaction as the loop sees it after an OK packet.
View(p) ==
  \/ Class(command) = "begin" /\ p.trans
  \/ Class(command) # "begin" /\ transaction /\ p.trans /\ Class(command) # "rollback" /\ command.op # "renew"

Confirms(p) == Class(command) = "commit" /\ transaction /\ ~p.trans

\* Mutant: the decision is recorded when it does not select.
RecordUnselected(selected) == IF selected THEN UNCHANGED life ELSE Record("passed")

RecordDecision(selected) == Record(IF selected THEN "selected" ELSE "passed")

Forward(then) == pc' = "forward" /\ expect' = then /\ UNCHANGED failed
Abandon == pc' = "stop" /\ failed' = TRUE /\ UNCHANGED expect

\* The first packet of the reply.
First(p) ==
  \/ /\ p.kind = "err" /\ Forward("nothing")
     /\ transaction' = FALSE /\ outcome' = "upstream_error"
     /\ UNCHANGED <<statements, fault, life, decided>>
  \/ /\ p.kind = "prep"
     /\ IF statements[p.id] # "none" THEN Abandon ELSE Forward("params")
     /\ UNCHANGED <<transaction, outcome, statements, fault, life, decided>>
  \/ /\ p.kind \in {"odd", "def", "end"} /\ Abandon
     /\ UNCHANGED <<transaction, outcome, statements, fault, life, decided>>
  \/ /\ p.kind = "head" /\ Forward("columns")
     /\ UNCHANGED <<transaction, outcome, statements, fault, life, decided>>
  \/ /\ p.kind = "ok"
     /\ transaction' = View(p)
     /\ statements' = IF command.op = "renew" THEN [i \in Ids |-> "none"] ELSE statements
     /\ UNCHANGED outcome
     /\ \/ ~Confirms(p) /\ Forward("nothing") /\ UNCHANGED <<fault, life, decided>>
        \/ /\ Confirms(p) /\ decided' = TRUE
           /\ \/ Forward("nothing") /\ UNCHANGED fault /\ RecordDecision(FALSE)
              \/ pc' = "record" /\ expect' = "nothing" /\ UNCHANGED failed
                 /\ fault' \in Actions /\ RecordDecision(TRUE)

\* definitions and result: the packets after the first.
Later(p) ==
  /\ \/ expect = "params" /\ Forward("table") /\ UNCHANGED transaction
     \/ expect = "columns" /\ Forward("rows") /\ UNCHANGED transaction
     \/ expect = "rows" /\ Forward("nothing") /\ transaction' = (transaction /\ p.trans)
  /\ UNCHANGED <<outcome, statements, fault, life, decided>>

Read ==
  /\ pc = "read" /\ wire # <<>>
  /\ packet' = Head(wire) /\ wire' = Tail(wire)
  /\ command' = IF Head(wire).kind = "prep" THEN [command EXCEPT !.id = Head(wire).id] ELSE command
  /\ IF expect = "first" THEN First(Head(wire)) ELSE Later(Head(wire))
  /\ UNCHANGED <<open, prepared, todo, session, ctx, cause, pump, queue, timer, truth,
                 cycle, finished, acked>>

\* A packet is relayed; after the last one of a prepare its statement is known.
ForwardPacket ==
  /\ pc = "forward"
  /\ pc' = IF expect \in {"nothing", "table"} THEN "stop" ELSE "read"
  /\ acked' = (acked \/ (decided /\ packet.kind = "ok"))
  /\ packet' = NoPacket
  /\ statements' = IF expect = "table" THEN [statements EXCEPT ![command.id] = Class(command)] ELSE statements
  /\ UNCHANGED <<database, session, ctx, cause, pump, queue, command, expect, transaction,
                 timer, outcome, failed, fault, truth, cycle, life, finished, decided>>

RecordApplied ==
  /\ Step("record", "apply") /\ Record("applied")
  /\ UNCHANGED <<database, session, ctx, cause, pump, queue, locals, truth, cycle, finished, decided, acked>>

\* Mutant: the hold relays the packet when it ends.
ForwardsHeld == fault # "close_connection"
Forwards == fault = "delay"

\* apply returned true: the delay is over.
ApplyForwards ==
  /\ Step("apply", "forward") /\ Forwards
  /\ UNCHANGED <<database, session, ctx, cause, pump, queue, locals, truth, history>>

\* apply returned false: close_connection, the end of a hold, or cycleCtx is done.
ApplyLoses ==
  /\ Step("apply", "stop") /\ (~Forwards \/ Expired)
  /\ outcome' = "commit_ack_lost" /\ failed' = TRUE
  /\ UNCHANGED <<database, session, ctx, cause, pump, queue, command, packet, expect, transaction,
                 statements, timer, fault, truth, history>>

\* abort unregisters the cancellation before stopCycle ends cycleCtx.
Abort ==
  /\ Step("stop", "stop_cycle") /\ timer' = IF timer = "armed" THEN "loose" ELSE timer
  /\ UNCHANGED <<database, session, ctx, cause, pump, queue, command, packet, expect, transaction,
                 statements, outcome, failed, fault, truth, history>>

\* stopCycle, and flow_finished.
FinishCycle ==
  /\ pc = "stop_cycle" /\ timer' = "off"
  /\ IF timer = "armed" THEN Ends("cycle") ELSE UNCHANGED <<ctx, cause>>
  /\ Record("done")
  /\ finished' = IF failed /\ outcome = "forwarded" THEN "connection_closed" ELSE outcome
  /\ pc' = IF failed THEN "return" ELSE "receive"
  /\ command' = NoCommand /\ packet' = NoPacket /\ expect' = "first"
  /\ outcome' = "forwarded" /\ failed' = FALSE
  /\ UNCHANGED <<database, session, pump, queue, transaction, statements, fault, truth, cycle, decided, acked>>

\* The deferred calls of exchange: cancel, and both legs are closed.
Return ==
  /\ Step("return", "closing") /\ Ends("return")
  /\ UNCHANGED <<database, session, pump, queue, locals, truth, history>>

\* ... the pumps are waited for, then the deferred calls of serve give the slot back.
Join ==
  /\ Step("closing", "done") /\ (\A l \in Legs : pump[l] = "done") /\ slot' = FALSE
  /\ UNCHANGED <<database, rounds, tls, ctx, cause, pump, queue, locals, truth, history>>

Ended == pc = "done" /\ UNCHANGED vars

Loop ==
  \/ ReceiveLast \/ (\E c \in Commands : ReceiveCommand(c)) \/ Quit \/ Read \/ RecordApplied
  \/ Abort \/ FinishCycle \/ Return \/ Join

Serve == TakeSlot \/ Greet \/ Answer \/ Encrypt \/ AuthRound \/ Authenticated \/ PrologueFails

Next ==
  \/ Database \/ Serve \/ Loop \/ WriteUp \/ ForwardPacket \/ Fails \/ ApplyForwards \/ ApplyLoses
  \/ PumpRead \/ (\E l \in Legs : PumpEnds(l)) \/ ServerCloses \/ CycleTimeout \/ Ended

\* Goroutines run when they can and timers fire; the handshake has a deadline; a closed
\* connection fails.  A write may block, and the database stay silent, until then.
Spec ==
  /\ Init /\ [][Next]_vars
  /\ WF_vars(Loop) /\ WF_vars(PrologueFails) /\ WF_vars(CycleTimeout)
  /\ WF_vars((ctx = "done" \/ timer = "fired") /\ Fails)
  /\ WF_vars(ApplyForwards \/ ApplyLoses)
  /\ \A l \in Legs : WF_vars(ctx = "done" /\ PumpEnds(l))

-----------------------------------------------------------------------------
(* Properties *)

\* Decisions and commits correspond: a rule is only consulted about a COMMIT with which the
\* database has committed an explicit transaction, whatever errors, implicit commits,
\* chained transactions and prepared statements came before; and no COMMIT of a transaction
\* that a recognised BEGIN opened, and in which nothing failed, is relayed without one.
DecisionsFollowCommits ==
  /\ decided => committed
  /\ finished = "forwarded" /\ due => decided

\* The acknowledgment is really withheld: after a hold_response or close_connection the OK
\* packet does not reach the client, and commit_ack_lost says exactly that.
AckWithheld ==
  /\ fault \in {"hold_response", "close_connection"} => ~acked
  /\ finished = "commit_ack_lost" => committed /\ ~acked

\* Between two commands proxy and database are in step: once the database has done all it
\* was told, no packet of a reply is left for the next cycle, and the classes of the
\* prepared statements are those of the statements the database has prepared.  The end of a
\* cycle is never what ends the session: abort is gone before stopCycle cancels.
InStep ==
  /\ pc = "receive" /\ todo = <<>> =>
       /\ wire = <<>>
       /\ \A i \in Ids : statements[i] = IF prepared[i] = "none" THEN "none" ELSE classify(prepared[i])
  /\ cause # "cycle"

Life(c) == IF c < cycle THEN "done" ELSE IF c = cycle THEN life ELSE "none"

\* Every command records its events in the order the recorder counts on: this session
\* implements FlowEvents.
F == INSTANCE FlowEvents WITH Flows <- 1 .. MaxCommands, life <- [c \in 1 .. MaxCommands |-> Life(c)]
RecordsInOrder == F!FlowSpec

\* No command outlives the timer of its cycle, whatever the client and the database do, and
\* once its context is done a session gives back its goroutines, connections and slot.
SessionEnds ==
  /\ (life \notin {"none", "done"}) ~> (life \in {"none", "done"})
  /\ (ctx = "done") ~> (pc = "done" /\ ~slot)
=============================================================================
