------------------------- MODULE MySqlSessionProofs -------------------------
(***************************************************************************)
(* The safety of MySqlSession, for any statements, prepared statements,    *)
(* actions and commands.                                                   *)
(*                                                                         *)
(* The proxy sees the database through its replies alone.  What it takes   *)
(* for the state of the transaction is right whenever a reply has been     *)
(* read to its end (Settled), because a reply that is still on its way     *)
(* carries what is missing (Views): an OK packet, or the packet that ends  *)
(* the rows, says whether a transaction is open, and its class is that of  *)
(* the statement the database has run, since the table of prepared         *)
(* statements differs from the database's by the COM_STMT_CLOSE commands   *)
(* that it has not executed (Table).  Replies and commands cannot be       *)
(* confused: of the commands the database has not executed only the last   *)
(* is one with a reply, and a reply is read to its end, or the session     *)
(* ends (Order).                                                           *)
(*                                                                         *)
(* So an OK packet that confirms a COMMIT confirms what the database has   *)
(* committed (Decisions), its acknowledgement is withheld or relayed as    *)
(* the fault says (Acks), the timer of a cycle never ends the session once *)
(* the cycle is over (Timer), and the events of a command follow the place *)
(* of the loop (Told).                                                     *)
(***************************************************************************)
EXTENDS MySqlSession, TLAPS

Sql == Statements \ {"call"}
Classes == {"none", "begin", "commit", "rollback", "ordinary"}
Opened == {"none", "implicit", "explicit"}

\* Commands that are sent to the database.
Ops == {"query", "prepare", "execute", "close", "reset", "ping", "renew"}
Requests ==
  {c \in [op : Ops, stmt : Sql \cup {"none"}, id : Ids \cup {0}] :
     /\ c.op \in {"query", "prepare"} => c.stmt \in Sql
     /\ c.op \in {"execute", "close", "reset"} => c.id \in Ids}

Kinds == {"ok", "err", "odd", "head", "def", "end", "prep"}
Packets == {p \in [kind : Kinds, trans : BOOLEAN, id : Ids \cup {0}] : p.kind = "prep" => p.id \in Ids}

Over == {"return", "closing", "done"}
Cycling == {"write_up", "read", "forward", "record", "apply"}

Types ==
  /\ open \in Opened /\ transaction \in BOOLEAN /\ failed \in BOOLEAN /\ decided \in BOOLEAN
  /\ tracked \in BOOLEAN /\ committed \in BOOLEAN /\ due \in BOOLEAN /\ acked \in BOOLEAN
  /\ prepared \in [Ids -> Sql \cup {"none"}]
  /\ statements \in [Ids -> Classes]
  /\ todo \in Seq(Requests) /\ wire \in Seq(Packets)
  /\ pc \in Cycling => command \in Requests

\* Where the loop and the database owe each other nothing but the execution of closes.
Quiet == pc \in Prologue \cup {"receive", "write_up"} \/ (pc \in {"stop", "stop_cycle"} /\ ~failed)

\* The loop waits for the reply, has at least the beginning of it to read, or relays a packet.
Waiting == pc = "read" /\ todo # <<>>
Answered == pc = "read" /\ todo = <<>>
Relaying == pc \in {"forward", "record", "apply"}

OnlyCloses == \A k \in 1 .. Len(todo) : todo[k].op = "close"

\* What may be left of a reply, or of its beginning, when packet e comes next.
Rest(e, w) ==
  /\ e = "first" /\ w # <<>> =>
       \/ Len(w) = 1 /\ w[1].kind \in {"ok", "err", "odd"}
       \/ w[1].kind = "prep" /\ Len(w) <= 2 /\ (Len(w) = 2 => w[2].kind = "def")
       \/ /\ w[1].kind = "head" /\ Len(w) <= 3
          /\ Len(w) = 3 => w[3].kind \in {"end", "err"}
  /\ e = "params" => Len(w) <= 1 /\ (Len(w) = 1 => w[1].kind = "def")
  /\ e = "columns" => Len(w) <= 2
  /\ e = "rows" => Len(w) <= 1
  /\ e \in {"nothing", "table"} => w = <<>>

Order ==
  /\ failed => pc \in {"stop", "stop_cycle"}
  /\ Quiet => wire = <<>> /\ OnlyCloses
  /\ Waiting =>
       /\ wire = <<>> /\ expect = "first"
       /\ todo[Len(todo)] = command /\ command.op # "close"
       /\ \A k \in 1 .. Len(todo) - 1 : todo[k].op = "close"
  /\ Answered => expect \in {"first", "params", "columns", "rows"} /\ Rest(expect, wire)
  /\ Relaying => todo = <<>> /\ expect \in {"params", "columns", "rows", "nothing", "table"} /\ Rest(expect, wire)
  /\ pc \in {"record", "apply"} => expect = "nothing"
  /\ pc \in Prologue \cup {"receive", "write_up"} => expect = "first"

\* The table and the database agree on a statement, closes under way included; and
\* while the reply to a prepare is read they agree on all but the new one.
Closed(i) == \E k \in 1 .. Len(todo) : todo[k].op = "close" /\ todo[k].id = i
Row(i) == statements[i] = IF prepared[i] = "none" \/ Closed(i) THEN "none" ELSE classify(prepared[i])
Rows == \A i \in Ids : Row(i)
NewRow(i) ==
  /\ i \in Ids /\ statements[i] = "none" /\ command.op = "prepare" /\ prepared[i] = command.stmt
  /\ \A j \in Ids \ {i} : Row(j)

Table ==
  /\ Quiet \/ Waiting => Rows
  /\ Answered /\ expect = "first" /\ wire # <<>> =>
       IF wire[1].kind = "prep" THEN NewRow(wire[1].id)
       ELSE IF command.op = "renew" THEN wire[1].kind = "ok" /\ \A i \in Ids : prepared[i] = "none"
       ELSE Rows
  /\ (Answered \/ Relaying) /\ expect \in {"params", "table"} => NewRow(command.id)
  /\ (Answered \/ Relaying) /\ expect \in {"columns", "rows", "nothing"} => Rows

\* The loop's view of the transaction is right; or it will be, after an OK packet or the
\* packet that ends the rows.
Settled == (transaction => open = "explicit") /\ (tracked => transaction)
Settles(p) == (View(p) => open = "explicit") /\ (tracked => View(p))
Ending(p) == (transaction /\ p.trans => open = "explicit") /\ (tracked => transaction /\ p.trans)

Views ==
  /\ Quiet \/ Waiting => Settled
  /\ (Answered \/ Relaying) /\ expect \in {"params", "table", "nothing"} => Settled
  /\ Answered /\ expect = "first" /\ wire # <<>> =>
       /\ wire[1].kind = "ok" => Settles(wire[1])
       /\ wire[1].kind = "prep" => Settled
       /\ wire[1].kind = "err" => ~tracked
       /\ wire[1].kind = "head" /\ Len(wire) = 3 => Ending(wire[3])
  /\ (Answered \/ Relaying) /\ expect = "columns" /\ Len(wire) = 2 => Ending(wire[2])
  /\ (Answered \/ Relaying) /\ expect = "rows" /\ Len(wire) = 1 => Ending(wire[1])

\* Decisions and commits, while the cycle goes on and after it.
Decisions ==
  /\ decided => committed /\ todo = <<>>
  /\ pc \in {"write_up", "read"} => ~decided
  /\ pc = "write_up" \/ Waiting => ~due
  /\ Answered /\ due => expect = "first" /\ (wire # <<>> => wire[1].kind = "ok" /\ Confirms(wire[1]))
  /\ Answered /\ expect = "first" /\ wire # <<>> /\ wire[1].kind = "ok" => (Confirms(wire[1]) => committed)
  /\ Quiet \/ Relaying => (due => decided)
  /\ Relaying /\ expect # "nothing" => ~decided
  /\ pc \in Cycling \cup {"stop", "stop_cycle"} => finished = "none"
  /\ finished = "forwarded" => (due => decided) /\ OnlyCloses

\* An acknowledgement, the fault that withholds it and the outcome that says so.
Acks ==
  /\ acked => decided
  /\ fault # "none" => decided
  /\ fault \in {"hold_response", "close_connection"} => pc # "forward" /\ ~acked
  /\ pc \in {"record", "apply"} => decided /\ ~acked
  /\ pc \in {"write_up", "read"} => fault = "none"
  /\ outcome = "commit_ack_lost" => decided /\ ~acked /\ pc \in {"stop", "stop_cycle"}
  /\ finished = "commit_ack_lost" => decided /\ ~acked /\ pc \in Over \cup {"receive"}

\* abort is registered from the first step of a cycle until it is called.
Timer ==
  /\ cause # "cycle"
  /\ timer = "armed" => pc \in Cycling \cup {"stop"}

\* The commands received so far, and how far the events of the current one have got.
Told ==
  /\ cycle \in Nat /\ queue \in Nat /\ cycle + queue <= MaxCommands
  /\ life = "none" <=> cycle = 0
  /\ pc \in Prologue \cup {"receive"} \cup Over => life \in {"none", "done"}
  /\ pc \in {"write_up", "read"} => life = "open"
  /\ pc = "forward" => life = "open" \/ (decided /\ life \in {"passed", "applied"})
  /\ pc = "record" => life = "selected"
  /\ pc = "apply" => life = "applied"
  /\ pc \in {"stop", "stop_cycle"} => life \in {"open", "passed", "selected", "applied"}

-----------------------------------------------------------------------------
(* Packets, commands and sequences *)

LEMMA Constants ==
  /\ Statements \subseteq {"begin", "start", "commit", "rollback", "chain", "ddl", "write", "select", "call"}
  /\ Actions \subseteq {"delay", "hold_response", "close_connection"}
  /\ MaxCommands \in Nat
  BY Zenon, MySqlAssumption

LEMMA PacketType ==
  ASSUME NEW k \in Kinds, NEW t \in BOOLEAN, NEW i \in Ids \cup {0}, k = "prep" => i \in Ids
  PROVE  /\ Packet(k, t, i) \in Packets
         /\ Packet(k, t, i).kind = k /\ Packet(k, t, i).trans = t /\ Packet(k, t, i).id = i
  BY Zenon DEF Packet, Packets

LEMMA PacketsAre ==
  /\ \A t \in BOOLEAN : Packet("ok", t, 0) \in Packets /\ Packet("end", t, 0) \in Packets
  /\ Packet("head", FALSE, 0) \in Packets /\ Packet("def", FALSE, 0) \in Packets
  /\ Packet("odd", FALSE, 0) \in Packets /\ Err \in Packets
  /\ \A i \in Ids : Packet("prep", FALSE, i) \in Packets
  <1>1. \A t \in BOOLEAN : Packet("ok", t, 0) \in Packets /\ Packet("end", t, 0) \in Packets
    BY Zenon DEF Packet, Packets, Kinds
  <1>2. Packet("head", FALSE, 0) \in Packets /\ Packet("def", FALSE, 0) \in Packets
    BY Zenon DEF Packet, Packets, Kinds
  <1>3. Packet("odd", FALSE, 0) \in Packets /\ Err \in Packets
    BY Zenon DEF Packet, Packets, Kinds, Err
  <1>4. \A i \in Ids : Packet("prep", FALSE, i) \in Packets
    BY Zenon DEF Packet, Packets, Kinds
  <1> QED
    BY Zenon, <1>1, <1>2, <1>3, <1>4

LEMMA RequestType == ASSUME NEW c \in Commands, ~Last(c) PROVE c \in Requests
  <1>1. CASE \E op \in {"query", "prepare"}, s \in Statements : c = Command(op, s, 0)
    <2>1. PICK op \in {"query", "prepare"}, s \in Statements : c = Command(op, s, 0)
      BY Zenon, <1>1
    <2>2. c.op = op /\ c.stmt = s
      BY Zenon, <2>1 DEF Command
    <2>3. s \in Sql
      BY Zenon, <2>2 DEF Last, classify, Sql
    <2> QED
      BY Zenon, <2>1, <2>3 DEF Command, Requests, Ops
  <1>2. CASE \E op \in {"execute", "close", "reset"}, i \in Ids : c = Command(op, "none", i)
    BY <1>2 DEF Command, Requests, Ops
  <1>3. CASE \E op \in {"ping", "renew", "quit", "bad"} : c = Command(op, "none", 0)
    BY <1>3 DEF Command, Last, Requests, Ops
  <1> QED
    BY <1>1, <1>2, <1>3 DEF Commands

LEMMA ClassType ==
  ASSUME statements \in [Ids -> Classes], NEW c \in Requests
  PROVE  Class(c) \in Classes
  BY Zenon, Constants DEF Class, classify, Requests, Sql, Classes

\* A reply sent to an empty wire.
LEMMA Tuples ==
  ASSUME NEW S, NEW a \in S, NEW b \in S, NEW c \in S, wire = <<>>
  PROVE  /\ Append(wire, a) = <<a>> /\ wire \o <<a>> = <<a>>
         /\ wire \o <<a, b>> = <<a, b>> /\ wire \o <<a, b, c>> = <<a, b, c>>
  OBVIOUS

LEMMA Longer ==
  ASSUME NEW S, NEW a \in S, NEW b \in S, NEW c \in S, NEW w \in Seq(S)
  PROVE  /\ Append(w, a) \in Seq(S) /\ w \o <<a>> \in Seq(S)
         /\ w \o <<a, b>> \in Seq(S) /\ w \o <<a, b, c>> \in Seq(S)
  OBVIOUS

LEMMA Longer1 ==
  ASSUME NEW S, NEW w \in Seq(S), NEW a \in S
  PROVE  Append(w, a) \in Seq(S)
  OBVIOUS

LEMMA NoneIs == ASSUME NEW S, NEW w \in Seq(S) PROVE w = <<>> <=> Len(w) = 0
  OBVIOUS

LEMMA TailIs ==
  ASSUME NEW S, NEW w \in Seq(S), w # <<>>
  PROVE  /\ Head(w) \in S /\ Head(w) = w[1] /\ Len(w) \in Nat /\ Len(w) >= 1
         /\ Tail(w) \in Seq(S) /\ Len(Tail(w)) = Len(w) - 1
         /\ \A k \in 1 .. Len(w) - 1 : Tail(w)[k] = w[k + 1]
         /\ Len(w) = 1 => Tail(w) = <<>>
         /\ Len(w) > 1 => Tail(w) # <<>>
  <1>1. Len(w) \in Nat /\ Len(w) >= 1
    OBVIOUS
  <1>2. Head(w) \in S /\ Head(w) = w[1]
    BY <1>1
  <1>3. Tail(w) \in Seq(S) /\ Len(Tail(w)) = Len(w) - 1
    BY <1>1
  <1>4. \A k \in 1 .. Len(w) - 1 : Tail(w)[k] = w[k + 1]
    BY <1>1
  <1>5. Tail(w) = <<>> <=> Len(Tail(w)) = 0
    BY Zenon, <1>3, NoneIs
  <1>6. (Len(w) = 1 => Tail(w) = <<>>) /\ (Len(w) > 1 => Tail(w) # <<>>)
    BY <1>1, <1>3, <1>5
  <1> QED
    BY Zenon, <1>1, <1>2, <1>3, <1>4, <1>6

\* The packets that one of its pumps had taken.
LEMMA TailAt ==
  ASSUME NEW S, NEW w \in Seq(S), w # <<>>
  PROVE  /\ Len(Tail(w)) = 2 => Len(w) = 3 /\ Tail(w)[2] = w[3]
         /\ Len(Tail(w)) = 1 => Len(w) = 2 /\ Tail(w)[1] = w[2]
  OBVIOUS

LEMMA CutIs ==
  ASSUME NEW S, NEW w \in Seq(S), NEW n \in 0 .. (IF w = <<>> THEN 0 ELSE 1)
  PROVE  /\ SubSeq(w, 1, n) \in Seq(S)
         /\ SubSeq(w, 1, n) = <<>> \/ (w # <<>> /\ Len(SubSeq(w, 1, n)) = 1 /\ SubSeq(w, 1, n)[1] = w[1])
  <1>1. CASE n = 0
    BY <1>1
  <1>2. CASE n = 1
    BY <1>2
  <1> QED
    BY <1>1, <1>2

-----------------------------------------------------------------------------
(* The steps *)

core == <<open, prepared, todo, wire, command, expect, transaction, statements, failed, decided, truth>>

\* Steps that leave alone what the loop and the database know of each other.
Aside ==
  /\ UNCHANGED core
  /\ \/ pc' = pc
     \/ pc \in Prologue /\ pc' \in Prologue \cup {"receive"}
     \/ pc \in Prologue \cup {"receive"} \cup Over /\ pc' \in Over
     \/ pc = "record" /\ pc' = "apply"
     \/ pc = "apply" /\ pc' = "forward"
     \/ pc = "stop" /\ pc' = "stop_cycle"

Aways ==
  \/ Serve \/ PumpRead \/ PumpEnds("front") \/ ServerCloses \/ CycleTimeout \/ ReceiveLast \/ Quit
  \/ RecordApplied \/ ApplyForwards \/ Abort \/ Return \/ Join \/ Ended \/ UNCHANGED vars

LEMMA AsideDoes == ASSUME Aways PROVE Aside
  <1>1. CASE Serve
    <2>1. UNCHANGED core
      BY Zenon, <1>1 DEF Serve, TakeSlot, Greet, Answer, Encrypt, AuthRound, Authenticated, PrologueFails,
        core, database, locals, truth, history
    <2>2. pc' = pc \/ (pc \in Prologue /\ pc' \in Prologue \cup {"receive", "closing"})
      BY Zenon, <1>1 DEF Serve, TakeSlot, Greet, Answer, Encrypt, AuthRound, Authenticated,
           PrologueFails, Step, Prologue
    <2> QED
      BY Zenon, <2>1, <2>2 DEF Aside, Over
  <1>2. CASE PumpRead \/ PumpEnds("front") \/ ServerCloses \/ CycleTimeout \/ Ended \/ UNCHANGED vars
    <2>1. UNCHANGED core /\ pc' = pc
      <3>1. CASE PumpEnds("front")
        <4>1. wire' = wire
          BY Zenon, <3>1 DEF PumpEnds
        <4> QED
          BY Zenon, <3>1, <4>1 DEF PumpEnds, core, locals, truth, history
      <3>2. CASE PumpRead \/ ServerCloses \/ CycleTimeout \/ Ended \/ UNCHANGED vars
        BY Zenon, <3>2 DEF PumpRead, ServerCloses, CycleTimeout, Ended, vars, core, database, locals,
             truth, history
      <3> QED
        BY Zenon, <1>2, <3>1, <3>2
    <2> QED
      BY Zenon, <2>1 DEF Aside
  <1>3. CASE ReceiveLast \/ Quit \/ Return \/ Join
    <2>1. UNCHANGED core
      BY Zenon, <1>3 DEF ReceiveLast, Receive, Quit, Return, Join, core, database, locals, truth, history
    <2>2. pc \in {"receive", "return", "closing"} /\ pc' \in Over
      BY Zenon, <1>3 DEF ReceiveLast, Receive, Quit, Return, Join, Step, Over
    <2> QED
      BY Zenon, <2>1, <2>2 DEF Aside, Over
  <1>4. CASE RecordApplied \/ ApplyForwards \/ Abort
    BY Zenon, <1>4 DEF RecordApplied, ApplyForwards, Abort, Step, Aside, core, database, locals, truth,
         history
  <1> QED
    BY Zenon, <1>1, <1>2, <1>3, <1>4 DEF Aways

\* What these steps do to the rest of the cycle.
LEMMA AsideKeeps ==
  ASSUME Aways
  PROVE  /\ UNCHANGED <<outcome, fault, finished, decided, acked, cycle>>
         /\ RecordApplied \/ (UNCHANGED life /\ ~(pc = "record" /\ pc' = "apply"))
         /\ pc = "apply" /\ pc' = "forward" => fault = "delay"
         /\ timer' = "armed" => timer = "armed" /\ ~(pc = "stop" /\ pc' = "stop_cycle")
         /\ cause' = "cycle" => cause = "cycle"
         /\ \/ queue' = queue
            \/ queue' = queue + 1 /\ cycle + queue < MaxCommands
            \/ queue' = queue - 1 /\ queue > 0
  <1>1. UNCHANGED <<outcome, fault, finished, decided, acked, cycle>> /\ (RecordApplied \/ UNCHANGED life)
    <2>1. CASE Serve
      BY Zenon, <2>1 DEF Serve, TakeSlot, Greet, Answer, Encrypt, AuthRound, Authenticated,
           PrologueFails, locals, history
    <2>2. CASE PumpRead \/ PumpEnds("front") \/ ServerCloses \/ CycleTimeout \/ Ended \/ UNCHANGED vars
      BY Zenon, <2>2 DEF PumpRead, PumpEnds, ServerCloses, CycleTimeout, Ended, vars, locals, history
    <2>3. CASE ReceiveLast \/ Quit \/ RecordApplied \/ ApplyForwards \/ Abort \/ Return \/ Join
      BY Zenon, <2>3 DEF ReceiveLast, Quit, RecordApplied, ApplyForwards, Abort, Return, Join, locals, history
    <2> QED
      BY Zenon, <2>1, <2>2, <2>3 DEF Aways
  <1>2. /\ timer' = "armed" => timer = "armed" /\ ~(pc = "stop" /\ pc' = "stop_cycle")
        /\ pc = "apply" /\ pc' = "forward" => fault = "delay"
        /\ pc = "record" /\ pc' = "apply" => RecordApplied
    <2>1. CASE Abort
      BY Zenon, <2>1 DEF Abort, Step
    <2>2. CASE CycleTimeout
      BY Zenon, <2>2 DEF CycleTimeout
    <2>3. CASE ApplyForwards
      BY Zenon, <2>3 DEF ApplyForwards, Step, Forwards, locals
    <2>4. CASE Serve
      <3>1. pc \in Prologue
        BY Zenon, <2>4 DEF Serve, TakeSlot, Greet, Answer, Encrypt, AuthRound, Authenticated,
             PrologueFails, Step, Prologue
      <3>2. timer' = timer
        BY Zenon, <2>4 DEF Serve, TakeSlot, Greet, Answer, Encrypt, AuthRound, Authenticated,
             PrologueFails, locals
      <3> QED
        BY Zenon, <3>1, <3>2 DEF Prologue
    <2>5. CASE PumpRead \/ PumpEnds("front") \/ ServerCloses \/ Ended \/ UNCHANGED vars
      <3>1. timer' = timer /\ pc' = pc
        BY Zenon, <2>5 DEF PumpRead, PumpEnds, ServerCloses, Ended, vars, locals
      <3> QED
        BY Zenon, <3>1
    <2>6. CASE ReceiveLast \/ Quit \/ RecordApplied \/ Return \/ Join
      <3>1. timer' = timer
        BY Zenon, <2>6 DEF ReceiveLast, Quit, RecordApplied, Return, Join, locals
      <3>2. RecordApplied \/ pc' \in {"return", "closing", "done"}
        BY Zenon, <2>6 DEF ReceiveLast, Quit, RecordApplied, Return, Join, Step
      <3>3. RecordApplied => pc' = "apply"
        BY Zenon DEF RecordApplied, Step
      <3> QED
        BY Zenon, <3>1, <3>2, <3>3
    <2> QED
      BY Zenon, <2>1, <2>2, <2>3, <2>4, <2>5, <2>6 DEF Aways
  <1>3. cause' = "cycle" => cause = "cycle"
    <2>1. CASE Serve
      BY Zenon, <2>1 DEF Serve, TakeSlot, Greet, Answer, Encrypt, AuthRound, Authenticated, PrologueFails
    <2>2. CASE PumpEnds("front") \/ ServerCloses \/ CycleTimeout \/ Return
      BY Zenon, <2>2 DEF PumpEnds, ServerCloses, CycleTimeout, Return, Ends
    <2>3. CASE PumpRead \/ Ended \/ UNCHANGED vars \/ ReceiveLast \/ Quit \/ RecordApplied \/ ApplyForwards \/ Abort \/ Join
      BY Zenon, <2>3 DEF PumpRead, Ended, vars, ReceiveLast, Receive, Quit, RecordApplied,
           ApplyForwards, Abort, Join
    <2> QED
      BY Zenon, <2>1, <2>2, <2>3 DEF Aways
  <1>4. \/ queue' = queue
        \/ queue' = queue + 1 /\ cycle + queue < MaxCommands
        \/ queue' = queue - 1 /\ queue > 0
    <2>1. CASE Serve
      BY Zenon, <2>1 DEF Serve, TakeSlot, Greet, Answer, Encrypt, AuthRound, Authenticated, PrologueFails
    <2>2. CASE PumpRead \/ PumpEnds("front") \/ ServerCloses \/ CycleTimeout \/ Ended \/ UNCHANGED vars
      BY Zenon, <2>2 DEF PumpRead, PumpEnds, ServerCloses, CycleTimeout, Ended, vars
    <2>3. CASE ReceiveLast \/ Quit \/ RecordApplied \/ ApplyForwards \/ Abort \/ Return \/ Join
      BY Zenon, <2>3 DEF ReceiveLast, Receive, Quit, RecordApplied, ApplyForwards, Abort, Return, Join
    <2> QED
      BY Zenon, <2>1, <2>2, <2>3 DEF Aways
  <1>5. RecordApplied \/ (UNCHANGED life /\ ~(pc = "record" /\ pc' = "apply"))
    BY Zenon, <1>1, <1>2
  <1> QED
    BY Zenon, <1>1, <1>2, <1>3, <1>4, <1>5

LEMMA NextDoes ==
  ASSUME [Next]_vars
  PROVE  \/ Aways \/ Database \/ PumpEnds("back") \/ (\E c \in Commands : ReceiveCommand(c))
         \/ WriteUp \/ Fails \/ Read \/ ForwardPacket \/ ApplyLoses \/ FinishCycle
  <1>1. (\E l \in Legs : PumpEnds(l)) => PumpEnds("front") \/ PumpEnds("back")
    BY Zenon DEF Legs
  <1> QED
    BY Zenon, <1>1 DEF Next, Loop, Aways

LEMMA AfterIs ==
  ASSUME NEW stmt, NEW o, NEW a \in After(stmt, o)
  PROVE  /\ stmt \in {"begin", "start", "chain"} => a = "explicit"
         /\ stmt \in {"commit", "rollback", "ddl"} => a = "none"
         /\ stmt \in {"write", "select", "call"} => a = o \/ (a = "implicit" /\ o = "none")
         /\ stmt \in {"begin", "start", "chain", "commit", "rollback", "ddl", "write", "select", "call"}
         /\ a \in {"none", "explicit", "implicit", o}
  BY Zenon DEF After

\* A statement that succeeded, and one that failed.
Succeeded(stmt) ==
  /\ open' \in After(stmt, open)
  /\ tracked' = (stmt = "begin" \/ (tracked /\ open' = "explicit"))
  /\ committed' = (stmt = "commit" /\ open = "explicit")
  /\ due' = (stmt = "commit" /\ tracked)
  /\ wire' = wire \o Good(stmt, open')

Failed(stmt) ==
  /\ open' \in {open, "none"} /\ tracked' = FALSE /\ UNCHANGED <<committed, due>>
  /\ \E r \in Bad(stmt) : wire' = wire \o r

LEMMA RunDoes == ASSUME NEW stmt, Run(stmt) PROVE Succeeded(stmt) \/ Failed(stmt)
  BY Zenon DEF Run, Succeeded, Failed

LEMMA GoodIs ==
  ASSUME NEW stmt, NEW o, NEW w \in Seq(Packets)
  PROVE  w \o Good(stmt, o) \in Seq(Packets)
  <1>1. (o # "none") \in BOOLEAN
    BY Zenon
  <1>2. /\ Packet("head", FALSE, 0) \in Packets /\ Packet("def", FALSE, 0) \in Packets
        /\ Packet("end", o # "none", 0) \in Packets /\ Packet("ok", o # "none", 0) \in Packets
    BY Zenon, <1>1, PacketsAre
  <1>3. CASE stmt = "select"
    BY Zenon, <1>2, <1>3, Longer DEF Good
  <1>4. CASE stmt # "select"
    BY Zenon, <1>2, <1>4, Longer DEF Good
  <1> QED
    BY Zenon, <1>3, <1>4

LEMMA BadIs ==
  ASSUME NEW stmt, NEW w \in Seq(Packets), NEW r \in Bad(stmt)
  PROVE  w \o r \in Seq(Packets)
  <1>1. /\ Packet("head", FALSE, 0) \in Packets /\ Packet("def", FALSE, 0) \in Packets
        /\ Err \in Packets /\ Packet("odd", FALSE, 0) \in Packets
    BY Zenon, PacketsAre
  <1> QED
    BY Zenon, <1>1, Longer DEF Bad

\* What the database does with the first of its commands.
Executed(c) ==
  \/ c.op = "query" /\ Run(c.stmt) /\ UNCHANGED prepared
  \/ c.op = "execute" /\ Run(prepared[c.id]) /\ UNCHANGED prepared
  \/ Other(c)

LEMMA ExecutedTypes ==
  ASSUME Types, NEW c \in Requests, Executed(c)
  PROVE  /\ open' \in Opened /\ wire' \in Seq(Packets) /\ prepared' \in [Ids -> Sql \cup {"none"}]
         /\ tracked' \in BOOLEAN /\ committed' \in BOOLEAN /\ due' \in BOOLEAN
  <1>0. /\ open \in Opened /\ wire \in Seq(Packets) /\ prepared \in [Ids -> Sql \cup {"none"}]
        /\ tracked \in BOOLEAN /\ committed \in BOOLEAN /\ due \in BOOLEAN
    BY Zenon DEF Types
  <1>1. ASSUME NEW stmt, Run(stmt), UNCHANGED prepared
        PROVE  /\ open' \in Opened /\ wire' \in Seq(Packets) /\ prepared' \in [Ids -> Sql \cup {"none"}]
               /\ tracked' \in BOOLEAN /\ committed' \in BOOLEAN /\ due' \in BOOLEAN
    <2>1. Succeeded(stmt) \/ Failed(stmt)
      BY Zenon, <1>1, RunDoes
    <2>2. CASE Succeeded(stmt)
      <3>1. open' \in Opened
        BY <1>0, <2>2, AfterIs DEF Succeeded, Opened
      <3>2. wire' \in Seq(Packets)
        BY Zenon, <1>0, <2>2, GoodIs DEF Succeeded
      <3> QED
        BY Zenon, <1>0, <1>1, <2>2, <3>1, <3>2 DEF Succeeded
    <2>3. CASE Failed(stmt)
      <3>1. open' \in Opened
        BY Zenon, <1>0, <2>3 DEF Failed, Opened
      <3>2. wire' \in Seq(Packets)
        BY Zenon, <1>0, <2>3, BadIs DEF Failed
      <3> QED
        BY Zenon, <1>0, <1>1, <2>3, <3>1, <3>2 DEF Failed
    <2> QED
      BY Zenon, <2>1, <2>2, <2>3
  <1>2. CASE Other(c)
    <2>1. (open # "none") \in BOOLEAN
      BY Zenon
    <2>2. Packet("ok", open # "none", 0) \in Packets /\ Packet("ok", FALSE, 0) \in Packets
      BY Zenon, <2>1, PacketsAre
    <2>3. wire' \in Seq(Packets)
      <3>1. \/ wire' = Append(wire, Packet("ok", open # "none", 0)) \/ wire' = Append(wire, Packet("ok", FALSE, 0))
            \/ wire' = Append(wire, Err) \/ wire' = wire
            \/ \E i \in Ids : wire' = wire \o <<Packet("prep", FALSE, i), Packet("def", FALSE, 0)>>
        BY Zenon, <1>2 DEF Other
      <3>2. CASE \E i \in Ids : wire' = wire \o <<Packet("prep", FALSE, i), Packet("def", FALSE, 0)>>
        <4>1. PICK i \in Ids : wire' = wire \o <<Packet("prep", FALSE, i), Packet("def", FALSE, 0)>>
          BY Zenon, <3>2
        <4>2. Packet("prep", FALSE, i) \in Packets /\ Packet("def", FALSE, 0) \in Packets
          BY Zenon, PacketsAre
        <4>3. wire \o <<Packet("prep", FALSE, i), Packet("def", FALSE, 0)>> \in Seq(Packets)
          BY Zenon, <1>0, <4>2, Longer
        <4> QED
          BY Zenon, <4>1, <4>3
      <3>3. CASE wire' = Append(wire, Packet("ok", open # "none", 0))
        BY Zenon, <1>0, <2>2, <3>3, Longer1
      <3> QED
        BY Zenon, <1>0, <2>2, <3>1, <3>2, <3>3, PacketsAre, Longer1
    <2>4. open' \in Opened
      BY Zenon, <1>0, <1>2 DEF Other, Opened
    <2>5. prepared' \in [Ids -> Sql \cup {"none"}]
      BY Zenon, <1>0, <1>2 DEF Other, Requests
    <2>6. tracked' \in BOOLEAN /\ committed' \in BOOLEAN /\ due' \in BOOLEAN
      BY Zenon, <1>0, <1>2 DEF Other, truth
    <2> QED
      BY Zenon, <2>3, <2>4, <2>5, <2>6
  <1> QED
    BY Zenon, <1>1, <1>2 DEF Executed

LEMMA TypesInit == ASSUME Init PROVE Types
  <1>1. /\ open = "none" /\ transaction = FALSE /\ failed = FALSE /\ decided = FALSE
        /\ tracked = FALSE /\ committed = FALSE /\ due = FALSE /\ acked = FALSE
        /\ prepared = [i \in Ids |-> "none"] /\ statements = [i \in Ids |-> "none"]
        /\ todo = <<>> /\ wire = <<>> /\ pc = "slot"
    BY Zenon DEF Init
  <1>2. open \in Opened /\ pc \notin Cycling
    BY Zenon, <1>1 DEF Opened, Cycling
  <1>3. prepared \in [Ids -> Sql \cup {"none"}] /\ statements \in [Ids -> Classes]
    BY Zenon, <1>1 DEF Classes
  <1>4. todo \in Seq(Requests) /\ wire \in Seq(Packets)
    BY <1>1
  <1> QED
    BY Zenon, <1>1, <1>2, <1>3, <1>4 DEF Types

LEMMA TypesStep == ASSUME Types, [Next]_vars PROVE Types'
  <1>1. CASE Aways
    <2>1. UNCHANGED core /\ (pc' \in Cycling => pc \in Cycling)
      BY Zenon, <1>1, AsideDoes DEF Aside, Cycling, Prologue, Over
    <2>2. UNCHANGED acked
      BY Zenon, <1>1 DEF Aways, Serve, TakeSlot, Greet, Answer, Encrypt, AuthRound, Authenticated,
           PrologueFails,
        PumpRead, PumpEnds, ServerCloses, CycleTimeout, ReceiveLast, Receive, Quit, RecordApplied, ApplyForwards,
        Abort, Return, Join, Ended, history, vars
    <2> QED
      BY Zenon, <2>1, <2>2 DEF Types, core, truth
  <1>2. CASE Database
    <2>1. /\ todo # <<>> /\ todo' = Tail(todo) /\ Executed(Head(todo))
          /\ UNCHANGED <<pc, command, transaction, statements, failed, decided, acked>>
      BY Zenon, <1>2 DEF Database, Executed, locals, history
    <2>2. Head(todo) \in Requests /\ todo' \in Seq(Requests)
      BY Zenon, <2>1, TailIs DEF Types
    <2>3. /\ open' \in Opened /\ wire' \in Seq(Packets) /\ prepared' \in [Ids -> Sql \cup {"none"}]
          /\ tracked' \in BOOLEAN /\ committed' \in BOOLEAN /\ due' \in BOOLEAN
      BY Zenon, <2>1, <2>2, ExecutedTypes
    <2> QED
      BY Zenon, <2>1, <2>2, <2>3 DEF Types
  <1>3. CASE PumpEnds("back")
    <2>1. /\ \E n \in 0 .. (IF wire = <<>> THEN 0 ELSE 1) : wire' = SubSeq(wire, 1, n)
          /\ UNCHANGED <<open, prepared, todo, pc, locals, truth, history>>
      BY Zenon, <1>3 DEF PumpEnds
    <2>2. wire' \in Seq(Packets)
      BY Zenon, <2>1, CutIs DEF Types
    <2> QED
      BY Zenon, <2>1, <2>2 DEF Types, locals, truth, history
  <1>4. CASE \E c \in Commands : ReceiveCommand(c)
    <2>1. PICK c \in Commands : ReceiveCommand(c)
      BY Zenon, <1>4
    <2>2. c \in Requests
      BY Zenon, <2>1, RequestType DEF ReceiveCommand
    <2>3. /\ decided' = FALSE /\ acked' = FALSE /\ committed' = FALSE /\ due' = FALSE /\ command' = c
          /\ UNCHANGED <<open, prepared, todo, wire, tracked, transaction, statements, failed>>
      BY Zenon, <2>1 DEF ReceiveCommand, Receive, database
    <2> QED
      BY Zenon, <2>2, <2>3 DEF Types
  <1>5. CASE WriteUp
    <2>1. /\ todo' = Append(todo, command) /\ pc \in Cycling
          /\ UNCHANGED <<open, prepared, wire, command, transaction, failed, truth, decided, acked>>
      BY Zenon, <1>5 DEF WriteUp, history, Cycling
    <2>2. todo' \in Seq(Requests)
      BY Zenon, <2>1, Longer1 DEF Types
    <2>3. statements' \in [Ids -> Classes]
      BY Zenon, <1>5 DEF WriteUp, DropClosed, Types, Classes
    <2> QED
      BY Zenon, <2>1, <2>2, <2>3 DEF Types, truth
  <1>6. CASE Fails \/ ApplyLoses
    <2>1. /\ failed' = TRUE /\ pc' = "stop"
          /\ UNCHANGED <<open, prepared, todo, wire, transaction, statements, decided, acked, truth>>
      BY Zenon, <1>6 DEF Fails, ApplyLoses, Step, database, history
    <2>2. pc' \notin Cycling
      BY Zenon, <2>1 DEF Cycling
    <2> QED
      BY Zenon, <2>1, <2>2 DEF Types, truth
  <1>7. CASE Read
    <2>1. /\ wire # <<>> /\ wire' = Tail(wire) /\ pc = "read"
          /\ UNCHANGED <<open, prepared, todo, acked, truth>>
          /\ command' = IF Head(wire).kind = "prep" THEN [command EXCEPT !.id = Head(wire).id] ELSE command
          /\ First(Head(wire)) \/ Later(Head(wire))
      BY Zenon, <1>7 DEF Read
    <2>2. wire' \in Seq(Packets) /\ Head(wire) \in Packets
      BY Zenon, <2>1, TailIs DEF Types
    <2>3. command' \in Requests
      <3>1. command \in Requests
        BY Zenon, <2>1 DEF Types, Cycling
      <3>2. Head(wire).kind = "prep" => Head(wire).id \in Ids
        BY Zenon, <2>2 DEF Packets
      <3> QED
        BY Zenon, <2>1, <3>1, <3>2 DEF Requests, Ops
    <2>4. statements' \in [Ids -> Classes]
      BY Zenon, <2>1 DEF First, Later, Types, Classes
    <2>5. transaction' \in BOOLEAN
      BY Zenon, <2>1 DEF First, Later, View, Types
    <2>6. failed' \in BOOLEAN /\ decided' \in BOOLEAN
      BY Zenon, <2>1 DEF First, Later, Forward, Abandon, Types
    <2> QED
      BY Zenon, <2>1, <2>2, <2>3, <2>4, <2>5, <2>6 DEF Types, truth
  <1>8. CASE ForwardPacket
    <2>1. /\ pc = "forward" /\ acked' \in BOOLEAN
          /\ UNCHANGED <<database, command, transaction, failed, truth, decided>>
      BY Zenon, <1>8 DEF ForwardPacket
    <2>2. command \in Requests
      BY Zenon, <2>1 DEF Types, Cycling
    <2>3. Class(command) \in Classes
      BY Zenon, <2>2, ClassType DEF Types
    <2>4. statements' \in [Ids -> Classes]
      BY Zenon, <1>8, <2>3 DEF ForwardPacket, Types
    <2> QED
      BY Zenon, <2>1, <2>2, <2>4 DEF Types, truth, database
  <1>9. CASE FinishCycle
    <2>1. /\ failed' = FALSE /\ pc' \in {"return", "receive"}
          /\ UNCHANGED <<database, transaction, statements, truth, decided, acked>>
      BY Zenon, <1>9 DEF FinishCycle
    <2>2. pc' \notin Cycling
      BY Zenon, <2>1 DEF Cycling
    <2> QED
      BY Zenon, <2>1, <2>2 DEF Types, truth, database
  <1> QED
    BY Zenon, <1>1, <1>2, <1>3, <1>4, <1>5, <1>6, <1>7, <1>8, <1>9, NextDoes
-----------------------------------------------------------------------------
(* The replies of the database *)

\* A reply of one packet, and one with rows.
Single(w, k, t) == w # <<>> /\ Len(w) = 1 /\ w[1].kind = k /\ w[1].trans = t
Triple(w, k, t) == w # <<>> /\ Len(w) = 3 /\ w[1].kind = "head" /\ w[3].kind = k /\ w[3].trans = t
Prepare(w, i) == w # <<>> /\ Len(w) = 2 /\ w[1].kind = "prep" /\ w[1].id = i /\ w[2].kind = "def"

LEMMA SingleIs == ASSUME NEW k, NEW t PROVE Single(<<Packet(k, t, 0)>>, k, t)
  BY Zenon DEF Single, Packet

LEMMA TripleIs ==
  ASSUME NEW k, NEW t
  PROVE  Triple(<<Packet("head", FALSE, 0), Packet("def", FALSE, 0), Packet(k, t, 0)>>, k, t)
  BY Zenon DEF Triple, Packet

LEMMA PrepareIs == ASSUME NEW i PROVE Prepare(<<Packet("prep", FALSE, i), Packet("def", FALSE, 0)>>, i)
  BY Zenon DEF Prepare, Packet

LEMMA EmptyConcat == \A s \in Seq(Packets) : <<>> \o s = s /\ \A p : Append(<<>>, p) = <<p>>
  OBVIOUS

LEMMA TuplesAre ==
  ASSUME NEW S, NEW a \in S, NEW b \in S, NEW c \in S
  PROVE  <<a>> \in Seq(S) /\ <<a, b, c>> \in Seq(S)
  OBVIOUS

LEMMA SucceededIs ==
  ASSUME wire = <<>>, NEW stmt, Succeeded(stmt)
  PROVE  /\ stmt # "select" => Single(wire', "ok", open' # "none")
         /\ stmt = "select" => Triple(wire', "end", open' # "none")
  <1>1. wire' = Good(stmt, open')
    <2>1. Good(stmt, open') \in Seq(Packets)
      <3>1. (open' # "none") \in BOOLEAN
        BY Zenon
      <3>2. /\ Packet("head", FALSE, 0) \in Packets /\ Packet("def", FALSE, 0) \in Packets
            /\ Packet("end", open' # "none", 0) \in Packets /\ Packet("ok", open' # "none", 0) \in Packets
        BY Zenon, <3>1, PacketsAre
      <3> QED
        BY Zenon, <3>2, TuplesAre DEF Good
    <2> QED
      BY Zenon, <2>1, EmptyConcat DEF Succeeded
  <1> QED
    BY Zenon, <1>1, SingleIs, TripleIs DEF Good

LEMMA FailedIs ==
  ASSUME wire = <<>>, NEW stmt, Failed(stmt)
  PROVE  \/ Single(wire', "err", FALSE) \/ Single(wire', "odd", FALSE)
         \/ stmt = "select" /\ Triple(wire', "err", FALSE)
  <1>1. PICK r \in Bad(stmt) : wire' = wire \o r
    BY Zenon DEF Failed
  <1>4. \/ r = <<Err>> \/ r = <<Packet("odd", FALSE, 0)>>
        \/ stmt = "select" /\ r = <<Packet("head", FALSE, 0), Packet("def", FALSE, 0), Err>>
    BY Zenon DEF Bad
  <1>2. r \in Seq(Packets)
    <2>1. /\ Packet("head", FALSE, 0) \in Packets /\ Packet("def", FALSE, 0) \in Packets
          /\ Err \in Packets /\ Packet("odd", FALSE, 0) \in Packets
      BY Zenon, PacketsAre
    <2> QED
      BY Zenon, <1>4, <2>1, TuplesAre
  <1>3. wire' = r
    BY Zenon, <1>1, <1>2, EmptyConcat
  <1> QED
    BY Zenon, <1>3, <1>4, SingleIs, TripleIs DEF Err

\* The replies to the commands that run no statement.
LEMMA OtherIs ==
  ASSUME wire = <<>>, NEW c, Other(c), c.op # "close"
  PROVE  \/ /\ c.op \in {"reset", "ping"} /\ Single(wire', "ok", open # "none") /\ UNCHANGED <<open, prepared, truth>>
         \/ /\ c.op = "renew" /\ Single(wire', "ok", FALSE) /\ open' = "none" /\ tracked' = FALSE
            /\ prepared' = [i \in Ids |-> "none"] /\ UNCHANGED <<committed, due>>
         \/ /\ c.op = "prepare" /\ UNCHANGED <<open, truth>>
            /\ \E i \in Ids : /\ prepared[i] = "none" /\ prepared' = [prepared EXCEPT ![i] = c.stmt]
                             /\ Prepare(wire', i)
         \/ /\ c.op = "prepare" /\ Single(wire', "err", FALSE) /\ tracked' = FALSE
            /\ UNCHANGED <<open, prepared, committed, due>>
  <1>1. \A p : Append(<<>>, p) = <<p>>
    OBVIOUS
  <1>2. \A i \in Ids : <<>> \o <<Packet("prep", FALSE, i), Packet("def", FALSE, 0)>>
                       = <<Packet("prep", FALSE, i), Packet("def", FALSE, 0)>>
    OBVIOUS
  <1> QED
    BY Zenon, <1>1, <1>2, SingleIs, PrepareIs DEF Other, Err

LEMMA RunIs ==
  ASSUME wire = <<>>, NEW stmt, Run(stmt)
  PROVE  \/ /\ Succeeded(stmt)
            /\ stmt # "select" => Single(wire', "ok", open' # "none")
            /\ stmt = "select" => Triple(wire', "end", open' # "none")
         \/ /\ Failed(stmt)
            /\ Single(wire', "err", FALSE) \/ Single(wire', "odd", FALSE) \/ Triple(wire', "err", FALSE)
  BY Zenon, RunDoes, SucceededIs, FailedIs

\* Every command but a close has a reply.
LEMMA RepliesFit ==
  ASSUME wire = <<>>, NEW c, Executed(c), c.op # "close"
  PROVE  wire' # <<>> /\ Rest("first", wire')
  <1>1. \/ \E k \in {"ok", "err", "odd"} : \E t : Single(wire', k, t)
        \/ \E k \in {"end", "err"} : \E t : Triple(wire', k, t)
        \/ \E i : Prepare(wire', i)
    <2>1. "ok" \in {"ok", "err", "odd"} /\ "err" \in {"ok", "err", "odd"} /\ "odd" \in {"ok", "err", "odd"}
          /\ "end" \in {"end", "err"} /\ "err" \in {"end", "err"}
      BY Zenon
    <2>2. CASE \E stmt : Run(stmt)
      BY Zenon, <2>1, <2>2, RunIs
    <2>3. CASE Other(c)
      BY Zenon, <2>1, <2>3, OtherIs
    <2> QED
      BY Zenon, <2>2, <2>3 DEF Executed
  <1>2. CASE \E k \in {"ok", "err", "odd"} : \E t : Single(wire', k, t)
    BY Zenon, <1>2 DEF Single, Rest
  <1>3. CASE \E k \in {"end", "err"} : \E t : Triple(wire', k, t)
    BY <1>3 DEF Triple, Rest
  <1>4. CASE \E i : Prepare(wire', i)
    BY <1>4 DEF Prepare, Rest
  <1> QED
    BY Zenon, <1>1, <1>2, <1>3, <1>4
-----------------------------------------------------------------------------
(* Commands and replies *)

LEMMA RestCut ==
  ASSUME NEW e, NEW w \in Seq(Packets), Rest(e, w), NEW n \in 0 .. (IF w = <<>> THEN 0 ELSE 1)
  PROVE  Rest(e, SubSeq(w, 1, n))
  <1> DEFINE v == SubSeq(w, 1, n)
  <1>1. v \in Seq(Packets) /\ (v = <<>> \/ (w # <<>> /\ Len(v) = 1 /\ v[1] = w[1]))
    BY Zenon, CutIs
  <1>2. Len(<<>>) = 0
    BY Zenon
  <1> HIDE DEF v
  <1>3. Rest(e, v)
    BY <1>1, <1>2 DEF Rest
  <1> QED
    BY Zenon, <1>3 DEF v

LEMMA RestTail ==
  ASSUME NEW w \in Seq(Packets), w # <<>>
  PROVE  /\ Rest("first", w) /\ w[1].kind = "head" => Rest("columns", Tail(w))
         /\ Rest("first", w) /\ w[1].kind = "prep" => Rest("params", Tail(w))
         /\ Rest("first", w) /\ w[1].kind \in {"ok", "err"} => Tail(w) = <<>>
         /\ Rest("columns", w) => Rest("rows", Tail(w))
         /\ Rest("params", w) \/ Rest("rows", w) => Tail(w) = <<>>
  <1>1. /\ Len(w) \in Nat /\ Len(w) >= 1 /\ Len(Tail(w)) = Len(w) - 1 /\ (Len(w) = 1 => Tail(w) = <<>>)
        /\ \A k \in 1 .. Len(w) - 1 : Tail(w)[k] = w[k + 1]
    BY Zenon, TailIs
  <1> QED
    BY <1>1 DEF Rest

LEMMA RestEmpty == ASSUME NEW e PROVE Rest(e, <<>>)
  BY DEF Rest

\* A command of the database that is not the last one without a reply.
LEMMA CloseDoes ==
  ASSUME NEW c, Executed(c), c.op = "close"
  PROVE  prepared' = [prepared EXCEPT ![c.id] = "none"] /\ UNCHANGED <<open, wire, truth>>
  BY Zenon DEF Executed, Other

LEMMA DatabaseDoes ==
  ASSUME Types, Database
  PROVE  /\ todo # <<>> /\ todo' = Tail(todo) /\ Executed(Head(todo)) /\ Head(todo) \in Requests /\ Head(todo) = todo[1]
         /\ Len(todo) \in Nat /\ Len(todo) >= 1 /\ Len(todo') = Len(todo) - 1
         /\ \A k \in 1 .. Len(todo) - 1 : todo'[k] = todo[k + 1]
         /\ (Len(todo) = 1 => todo' = <<>>) /\ (Len(todo) > 1 => todo' # <<>>)
         /\ UNCHANGED <<pc, locals, history>>
  <1>1. todo # <<>> /\ todo' = Tail(todo) /\ Executed(Head(todo)) /\ UNCHANGED <<pc, locals, history>>
    BY Zenon DEF Database, Executed
  <1>2. todo \in Seq(Requests)
    BY Zenon DEF Types
  <1> QED
    BY Zenon, <1>1, <1>2, TailIs

LEMMA OrderInit == ASSUME Init PROVE Order
  <1>1. /\ todo = <<>> /\ wire = <<>> /\ pc = "slot" /\ expect = "first" /\ failed = FALSE /\ Len(<<>>) = 0
    BY Zenon DEF Init
  <1> QED
    BY <1>1 DEF Order, Quiet, Waiting, Answered, Relaying, OnlyCloses, Prologue

LEMMA OrderDatabase == ASSUME Types, Order, Database PROVE Order'
  <1>1. /\ todo # <<>> /\ todo' = Tail(todo) /\ Executed(Head(todo)) /\ Head(todo) \in Requests /\ Head(todo) = todo[1]
        /\ Len(todo) \in Nat /\ Len(todo) >= 1 /\ Len(todo') = Len(todo) - 1
        /\ \A k \in 1 .. Len(todo) - 1 : todo'[k] = todo[k + 1]
        /\ (Len(todo) = 1 => todo' = <<>>) /\ (Len(todo) > 1 => todo' # <<>>)
        /\ UNCHANGED <<pc, locals, history>>
    BY Zenon, DatabaseDoes
  <1>2. UNCHANGED <<pc, failed, expect, command>>
    BY Zenon, <1>1 DEF locals
  <1>3. CASE Quiet
    <2>1. Head(todo).op = "close"
      BY <1>1, <1>3 DEF Order, OnlyCloses
    <2>2. wire' = <<>>
      BY Zenon, <1>1, <1>3, <2>1, CloseDoes DEF Order
    <2>3. OnlyCloses'
      BY <1>1, <1>3 DEF Order, OnlyCloses
    <2>4. pc \notin {"read", "forward", "record", "apply"}
      BY Zenon, <1>3 DEF Quiet, Prologue
    <2> QED
      BY Zenon, <1>2, <2>2, <2>3, <2>4 DEF Order, Waiting, Answered, Relaying
  <1>4. CASE pc = "read"
    <2>1. /\ wire = <<>> /\ expect = "first" /\ todo[Len(todo)] = command /\ command.op # "close"
          /\ \A k \in 1 .. Len(todo) - 1 : todo[k].op = "close"
      BY Zenon, <1>1, <1>4 DEF Order, Waiting
    <2>2. CASE Len(todo) = 1
      <3>1. todo' = <<>> /\ Head(todo).op # "close"
        BY Zenon, <1>1, <2>1, <2>2
      <3>2. wire' # <<>> /\ Rest("first", wire')
        BY Zenon, <1>1, <2>1, <3>1, RepliesFit
      <3> QED
        BY Zenon, <1>2, <1>4, <2>1, <3>1, <3>2 DEF Order, Quiet, Prologue, Waiting, Answered, Relaying
    <2>3. CASE Len(todo) > 1
      <3>1. Head(todo).op = "close"
        BY <1>1, <2>1, <2>3
      <3>2. wire' = <<>>
        BY Zenon, <1>1, <2>1, <3>1, CloseDoes
      <3>3. todo' # <<>> /\ todo'[Len(todo')] = command /\ \A k \in 1 .. Len(todo') - 1 : todo'[k].op = "close"
        BY <1>1, <2>1, <2>3
      <3> QED
        BY Zenon, <1>2, <1>4, <2>1, <3>2, <3>3 DEF Order, Quiet, Prologue, Waiting, Answered, Relaying
    <2> QED
      BY <1>1, <2>2, <2>3
  <1>5. CASE ~Quiet /\ pc # "read"
    <2>1. ~Relaying
      BY Zenon, <1>1 DEF Order
    <2> QED
      BY Zenon, <1>2, <1>5, <2>1 DEF Order, Quiet, Waiting, Answered, Relaying
  <1> QED
    BY Zenon, <1>3, <1>4, <1>5

\* The cases of a packet that the loop takes.
Given(p) ==
  \/ pc' = "stop" /\ failed' = TRUE /\ UNCHANGED <<decided, fault, life, outcome>>
  \/ /\ pc' = "forward" /\ UNCHANGED <<failed, decided, fault, life>>
     /\ \/ /\ expect = "first" /\ p.kind = "err" /\ expect' = "nothing"
           /\ transaction' = FALSE /\ UNCHANGED statements /\ outcome' = "upstream_error"
        \/ /\ expect = "first" /\ p.kind = "prep" /\ expect' = "params"
           /\ UNCHANGED <<transaction, statements, outcome>>
        \/ /\ expect = "first" /\ p.kind = "head" /\ expect' = "columns"
           /\ UNCHANGED <<transaction, statements, outcome>>
        \/ /\ expect = "params" /\ expect' = "table" /\ UNCHANGED <<transaction, statements, outcome>>
        \/ /\ expect = "columns" /\ expect' = "rows" /\ UNCHANGED <<transaction, statements, outcome>>
        \/ /\ expect = "rows" /\ expect' = "nothing" /\ transaction' = (transaction /\ p.trans)
           /\ UNCHANGED <<statements, outcome>>
        \/ /\ expect = "first" /\ p.kind = "ok" /\ expect' = "nothing" /\ ~Confirms(p)
           /\ transaction' = View(p) /\ UNCHANGED outcome
           /\ statements' = IF command.op = "renew" THEN [i \in Ids |-> "none"] ELSE statements
  \/ /\ expect = "first" /\ p.kind = "ok" /\ expect' = "nothing" /\ Confirms(p)
     /\ transaction' = View(p) /\ decided' = TRUE /\ UNCHANGED <<outcome, failed>>
     /\ statements' = IF command.op = "renew" THEN [i \in Ids |-> "none"] ELSE statements
     /\ \/ pc' = "forward" /\ UNCHANGED fault /\ Record("passed")
        \/ pc' = "record" /\ fault' \in Actions /\ Record("selected")

LEMMA ReadDoes ==
  ASSUME Types, Order, Read
  PROVE  /\ pc = "read" /\ Answered /\ wire # <<>> /\ wire' = Tail(wire) /\ Given(wire[1]) /\ wire[1] \in Packets
         /\ command' = IF wire[1].kind = "prep" THEN [command EXCEPT !.id = wire[1].id] ELSE command
         /\ UNCHANGED <<open, prepared, todo, truth, cycle, finished, acked, timer, ctx, cause>>
  <1>1. /\ pc = "read" /\ wire # <<>> /\ wire' = Tail(wire)
        /\ UNCHANGED <<open, prepared, todo, truth, cycle, finished, acked, timer, ctx, cause>>
        /\ command' = IF Head(wire).kind = "prep" THEN [command EXCEPT !.id = Head(wire).id] ELSE command
        /\ IF expect = "first" THEN First(Head(wire)) ELSE Later(Head(wire))
    BY Zenon DEF Read
  <1>2. Head(wire) = wire[1] /\ wire[1] \in Packets
    <2>1. wire \in Seq(Packets)
      BY Zenon DEF Types
    <2>2. Head(wire) \in Packets /\ Head(wire) = wire[1]
      BY Zenon, <1>1, <2>1, TailIs
    <2> QED
      BY Zenon, <2>2
  <1>3. Answered
    BY Zenon, <1>1 DEF Order, Waiting, Answered
  <1>4. ASSUME expect = "first", First(wire[1]) PROVE Given(wire[1])
    BY Zenon, <1>4 DEF First, Given, Forward, Abandon, RecordDecision
  <1>5. ASSUME expect # "first", Later(wire[1]) PROVE Given(wire[1])
    BY Zenon, <1>5 DEF Later, Given, Forward
  <1> QED
    BY Zenon, <1>1, <1>2, <1>3, <1>4, <1>5

LEMMA OrderStep == ASSUME Types, Order, [Next]_vars PROVE Order'
  <1>1. CASE Aways
    <2>1. UNCHANGED <<todo, wire, command, expect, failed>>
      BY Zenon, <1>1, AsideDoes DEF Aside, core
    <2>2. (OnlyCloses' <=> OnlyCloses) /\ (Rest(expect, wire)' <=> Rest(expect, wire))
      BY Zenon, <2>1 DEF OnlyCloses, Rest
    <2>3. \/ pc' = pc
          \/ pc \in Prologue /\ pc' \in Prologue \cup {"receive"}
          \/ pc \in Prologue \cup {"receive"} \cup Over /\ pc' \in Over
          \/ pc = "record" /\ pc' = "apply"
          \/ pc = "apply" /\ pc' = "forward"
          \/ pc = "stop" /\ pc' = "stop_cycle"
      BY Zenon, <1>1, AsideDoes DEF Aside
    <2> HIDE DEF OnlyCloses, Rest
    <2> QED
      BY Zenon, <2>1, <2>2, <2>3 DEF Order, Quiet, Waiting, Answered, Relaying, Prologue, Over
  <1>2. CASE Database
    BY Zenon, <1>2, OrderDatabase
  <1>3. CASE PumpEnds("back")
    <2>1. PICK n \in 0 .. (IF wire = <<>> THEN 0 ELSE 1) : wire' = SubSeq(wire, 1, n)
      BY Zenon, <1>3 DEF PumpEnds
    <2>2. UNCHANGED <<pc, todo, command, expect, failed>>
      BY Zenon, <1>3 DEF PumpEnds, locals
    <2>3. wire \in Seq(Packets)
      BY Zenon DEF Types
    <2>4. Rest(expect, wire) => Rest(expect, wire)'
      BY Zenon, <2>1, <2>2, <2>3, RestCut
    <2>5. wire = <<>> => wire' = <<>>
      BY Zenon, <2>1, <2>3, CutIs
    <2>6. OnlyCloses' <=> OnlyCloses
      BY Zenon, <2>2 DEF OnlyCloses
    <2> QED
      BY Zenon, <2>2, <2>4, <2>5, <2>6 DEF Order, Quiet, Waiting, Answered, Relaying, Prologue
  <1>4. CASE \E c \in Commands : ReceiveCommand(c)
    <2>1. pc = "receive" /\ pc' = "write_up" /\ UNCHANGED <<todo, wire, expect, failed>>
      BY Zenon, <1>4 DEF ReceiveCommand, Receive, database
    <2>2. OnlyCloses' <=> OnlyCloses
      BY Zenon, <2>1 DEF OnlyCloses
    <2> QED
      BY Zenon, <2>1, <2>2 DEF Order, Quiet, Waiting, Answered, Relaying, Prologue
  <1>5. CASE WriteUp
    <2>1. /\ pc = "write_up" /\ todo' = Append(todo, command) /\ UNCHANGED <<wire, expect, failed, command>>
          /\ \/ command.op = "close" /\ pc' = "stop"
             \/ command.op # "close" /\ pc' = "read"
      BY Zenon, <1>5 DEF WriteUp
    <2>2. todo \in Seq(Requests) /\ command \in Requests
      BY Zenon, <2>1 DEF Types, Cycling
    <2>3. /\ Len(todo) \in Nat /\ Len(todo') = Len(todo) + 1 /\ todo'[Len(todo')] = command /\ todo' # <<>>
          /\ \A k \in 1 .. Len(todo) : todo'[k] = todo[k]
      BY <2>1, <2>2
    <2>4. wire = <<>> /\ expect = "first" /\ ~failed /\ \A k \in 1 .. Len(todo) : todo[k].op = "close"
      BY Zenon, <2>1 DEF Order, Quiet, OnlyCloses
    <2>5. CASE command.op = "close" /\ pc' = "stop"
      <3>1. OnlyCloses'
        BY <2>3, <2>4, <2>5 DEF OnlyCloses
      <3> QED
        BY Zenon, <2>1, <2>4, <2>5, <3>1 DEF Order, Quiet, Waiting, Answered, Relaying, Prologue
    <2>6. CASE command.op # "close" /\ pc' = "read"
      BY <2>1, <2>3, <2>4, <2>6 DEF Order, Quiet, Waiting, Answered, Relaying, Prologue
    <2> QED
      BY Zenon, <2>1, <2>5, <2>6
  <1>6. CASE Fails \/ ApplyLoses
    <2>1. failed' = TRUE /\ pc' = "stop"
      BY Zenon, <1>6 DEF Fails, ApplyLoses, Step
    <2> QED
      BY Zenon, <2>1 DEF Order, Quiet, Waiting, Answered, Relaying, Prologue
  <1>7. CASE ForwardPacket
    <2>1. /\ pc = "forward" /\ UNCHANGED <<todo, wire, expect, failed, command>>
          /\ pc' = IF expect \in {"nothing", "table"} THEN "stop" ELSE "read"
      BY Zenon, <1>7 DEF ForwardPacket, database
    <2>2. todo = <<>> /\ Rest(expect, wire) /\ expect \in {"params", "columns", "rows", "nothing", "table"}
      BY Zenon, <2>1 DEF Order, Relaying
    <2>3. Rest(expect, wire)'
      BY Zenon, <2>1, <2>2
    <2>4. expect \in {"nothing", "table"} => wire = <<>>
      BY Zenon, <2>2 DEF Rest
    <2>5. OnlyCloses'
      BY <2>1, <2>2 DEF OnlyCloses
    <2> QED
      BY Zenon, <2>1, <2>2, <2>3, <2>4, <2>5 DEF Order, Quiet, Waiting, Answered, Relaying, Prologue
  <1>8. CASE FinishCycle
    <2>1. /\ pc = "stop_cycle" /\ UNCHANGED <<todo, wire>> /\ expect' = "first" /\ failed' = FALSE
          /\ pc' = IF failed THEN "return" ELSE "receive"
      BY Zenon, <1>8 DEF FinishCycle, database
    <2>2. OnlyCloses' <=> OnlyCloses
      BY Zenon, <2>1 DEF OnlyCloses
    <2> QED
      BY Zenon, <2>1, <2>2 DEF Order, Quiet, Waiting, Answered, Relaying, Prologue
  <1>9. CASE Read
    <2>1. pc = "read" /\ Answered /\ wire # <<>> /\ wire' = Tail(wire) /\ Given(wire[1]) /\ UNCHANGED todo
      BY Zenon, <1>9, ReadDoes
    <2>2. Rest(expect, wire) /\ todo' = <<>> /\ ~failed
      BY Zenon, <2>1 DEF Order, Answered
    <2>3. wire \in Seq(Packets)
      BY Zenon DEF Types
    <2>4. \/ pc' = "stop" /\ failed' = TRUE
          \/ /\ pc' \in {"forward", "record"} /\ failed' = failed /\ (pc' = "record" => expect' = "nothing")
             /\ \/ expect = "first" /\ wire[1].kind \in {"ok", "err"} /\ expect' = "nothing"
                \/ expect = "first" /\ wire[1].kind = "prep" /\ expect' = "params"
                \/ expect = "first" /\ wire[1].kind = "head" /\ expect' = "columns"
                \/ expect = "params" /\ expect' = "table"
                \/ expect = "columns" /\ expect' = "rows"
                \/ expect = "rows" /\ expect' = "nothing"
      BY Zenon, <2>1 DEF Given
    <2>5. /\ Rest("first", wire) /\ wire[1].kind = "head" => Rest("columns", Tail(wire))
          /\ Rest("first", wire) /\ wire[1].kind = "prep" => Rest("params", Tail(wire))
          /\ Rest("first", wire) /\ wire[1].kind \in {"ok", "err"} => Tail(wire) = <<>>
          /\ Rest("columns", wire) => Rest("rows", Tail(wire))
          /\ Rest("params", wire) \/ Rest("rows", wire) => Tail(wire) = <<>>
      BY Zenon, <2>1, <2>3, RestTail
    <2>6. Rest("nothing", <<>>) /\ Rest("table", <<>>)
      BY Zenon, RestEmpty
    <2>7. CASE pc' = "stop" /\ failed' = TRUE
      BY Zenon, <2>7 DEF Order, Quiet, Waiting, Answered, Relaying, Prologue
    <2>8. CASE ~(pc' = "stop" /\ failed' = TRUE)
      <3>1. Rest(expect, wire)' /\ expect' \in {"params", "columns", "rows", "nothing", "table"}
        BY Zenon, <2>1, <2>2, <2>4, <2>5, <2>6, <2>8
      <3>2. pc' \in {"forward", "record"} /\ ~failed' /\ (pc' = "record" => expect' = "nothing")
        BY <2>2, <2>4, <2>8
      <3> QED
        BY Zenon, <2>2, <3>1, <3>2 DEF Order, Quiet, Waiting, Answered, Relaying, Prologue
    <2> QED
      BY Zenon, <2>7, <2>8
  <1> QED
    BY Zenon, <1>1, <1>2, <1>3, <1>4, <1>5, <1>6, <1>7, <1>8, <1>9, NextDoes
-----------------------------------------------------------------------------
(* The prepared statements *)

LEMMA TableInit == ASSUME Init PROVE Table
  <1>1. /\ prepared = [i \in Ids |-> "none"] /\ statements = [i \in Ids |-> "none"] /\ pc = "slot"
    BY Zenon DEF Init
  <1>2. Rows
    BY Zenon, <1>1 DEF Rows, Row
  <1> QED
    BY Zenon, <1>1, <1>2 DEF Table, Answered, Relaying

\* What Table says is the same when nothing it speaks of changes.
LEMMA RowsSame ==
  ASSUME UNCHANGED <<prepared, statements, todo>>
  PROVE  (Rows' <=> Rows) /\ \A i : (Row(i)' <=> Row(i))
  <1>1. \A i : (Closed(i)' <=> Closed(i))
    BY Zenon DEF Closed
  <1>2. \A i : (Row(i)' <=> Row(i))
    BY Zenon, <1>1 DEF Row
  <1> QED
    BY Zenon, <1>2 DEF Rows

LEMMA TableAside == ASSUME Table, Aside PROVE Table'
  <1>1. UNCHANGED <<prepared, statements, todo, wire, command, expect, failed>>
    BY Zenon DEF Aside, core
  <1>2. Rows' <=> Rows
    BY Zenon, <1>1, RowsSame
  <1>3. \A i : (NewRow(i)' <=> NewRow(i))
    <2>1. \A i : (Row(i)' <=> Row(i))
      BY Zenon, <1>1, RowsSame
    <2> QED
      BY Zenon, <1>1, <2>1 DEF NewRow
  <1>4. (Quiet' => Quiet) /\ (Waiting' => Waiting) /\ (Answered' => Answered) /\ (Relaying' => Relaying)
    BY Zenon, <1>1 DEF Aside, Quiet, Waiting, Answered, Relaying, Prologue, Over
  <1> QED
    BY Zenon, <1>1, <1>2, <1>3, <1>4 DEF Table
\* The database closes a statement.
LEMMA RowsClose ==
  ASSUME Types, Rows, Database, Head(todo).op = "close"
  PROVE  Rows'
  <1>1. /\ Executed(Head(todo)) /\ Head(todo) \in Requests /\ Head(todo) = todo[1]
        /\ Len(todo) \in Nat /\ Len(todo) >= 1 /\ Len(todo') = Len(todo) - 1
        /\ \A k \in 1 .. Len(todo) - 1 : todo'[k] = todo[k + 1]
        /\ UNCHANGED <<pc, locals, history>>
    BY Zenon, DatabaseDoes
  <1> DEFINE x == Head(todo).id
  <1>2. prepared' = [prepared EXCEPT ![x] = "none"] /\ x \in Ids
    BY Zenon, <1>1, CloseDoes DEF Requests
  <1>3. statements' = statements
    BY Zenon, <1>1 DEF locals
  <1>4. Closed(x)
    BY <1>1 DEF Closed
  <1>5. ASSUME NEW i \in Ids, i # x PROVE Closed(i)' <=> Closed(i)
    <2>1. ASSUME NEW k \in 1 .. Len(todo), todo[k].op = "close" /\ todo[k].id = i PROVE Closed(i)'
      <3>1. k # 1 /\ k - 1 \in 1 .. Len(todo')
        BY <1>1, <1>5, <2>1
      <3>2. todo'[k - 1] = todo[k]
        BY <1>1, <3>1
      <3> QED
        BY Zenon, <2>1, <3>1, <3>2 DEF Closed
    <2>2. ASSUME NEW k \in 1 .. Len(todo'), todo'[k].op = "close" /\ todo'[k].id = i PROVE Closed(i)
      <3>1. k + 1 \in 1 .. Len(todo) /\ todo'[k] = todo[k + 1]
        BY <1>1
      <3> QED
        BY Zenon, <2>2, <3>1 DEF Closed
    <2> QED
      BY Zenon, <2>1, <2>2 DEF Closed
  <1>6. prepared \in [Ids -> Sql \cup {"none"}]
    BY Zenon DEF Types
  <1> HIDE DEF x
  <1>7. ASSUME NEW i \in Ids PROVE Row(i)'
    <2>1. CASE i = x
      BY Zenon, <1>2, <1>3, <1>4, <1>6, <2>1 DEF Rows, Row
    <2>2. CASE i # x
      BY Zenon, <1>2, <1>3, <1>5, <1>6, <2>2 DEF Rows, Row
    <2> QED
      BY Zenon, <2>1, <2>2
  <1> QED
    BY Zenon, <1>7 DEF Rows

LEMMA TableDatabase == ASSUME Types, Order, Table, Database PROVE Table'
  <1>1. /\ todo # <<>> /\ Executed(Head(todo)) /\ Head(todo) \in Requests /\ Head(todo) = todo[1]
        /\ Len(todo) \in Nat /\ Len(todo) >= 1
        /\ (Len(todo) = 1 => todo' = <<>>) /\ (Len(todo) > 1 => todo' # <<>>)
        /\ UNCHANGED <<pc, failed, expect, command, statements>>
    BY Zenon, DatabaseDoes DEF locals
  <1>2. CASE Quiet
    <2>1. Head(todo).op = "close"
      BY <1>1, <1>2 DEF Order, OnlyCloses
    <2>2. Rows'
      BY Zenon, <1>2, <2>1, RowsClose DEF Table
    <2>3. ~Answered' /\ ~Relaying'
      BY Zenon, <1>1, <1>2 DEF Quiet, Answered, Relaying, Prologue
    <2> QED
      BY Zenon, <2>2, <2>3 DEF Table
  <1>3. CASE pc = "read"
    <2>1. /\ Waiting /\ wire = <<>> /\ expect = "first" /\ todo[Len(todo)] = command /\ command.op # "close"
          /\ \A k \in 1 .. Len(todo) - 1 : todo[k].op = "close"
      BY Zenon, <1>1, <1>3 DEF Order, Waiting
    <2>2. Rows
      BY Zenon, <2>1 DEF Table
    <2>3. CASE Len(todo) > 1
      <3>1. Head(todo).op = "close"
        BY <1>1, <2>1, <2>3
      <3>2. Rows' /\ todo' # <<>>
        BY Zenon, <1>1, <2>2, <2>3, <3>1, RowsClose
      <3> QED
        BY Zenon, <1>1, <1>3, <3>2 DEF Table, Answered, Relaying
    <2>4. CASE Len(todo) = 1
      <3>1. Head(todo) = command /\ todo' = <<>>
        BY Zenon, <1>1, <2>1, <2>4
      <3>2. \A i : ~Closed(i) /\ ~Closed(i)'
        BY <1>1, <2>1, <2>4, <3>1 DEF Closed
      <3>3. Answered' /\ ~Quiet' /\ ~Waiting' /\ ~Relaying' /\ expect' = "first"
        BY Zenon, <1>1, <1>3, <2>1, <3>1 DEF Quiet, Answered, Waiting, Relaying, Prologue
      <3>4. prepared' = prepared => Rows'
        BY Zenon, <1>1, <2>2, <3>2 DEF Rows, Row
      <3>5. ASSUME NEW k, NEW t, Single(wire', k, t) PROVE wire'[1].kind = k
        BY Zenon, <3>5 DEF Single
      <3>6. ASSUME NEW k, NEW t, Triple(wire', k, t) PROVE wire'[1].kind = "head"
        BY Zenon, <3>6 DEF Triple
      <3>7. CASE \E stmt : command.op \in {"query", "execute"} /\ Run(stmt) /\ UNCHANGED prepared
        <4>1. wire'[1].kind \in {"ok", "err", "odd", "head"}
          BY Zenon, <2>1, <3>5, <3>6, <3>7, RunIs
        <4>2. command.op # "renew" /\ wire'[1].kind # "prep"
          BY Zenon, <3>7, <4>1
        <4> QED
          BY Zenon, <1>1, <3>3, <3>4, <3>7, <4>2 DEF Table
      <3>8. CASE Other(command)
        <4>1. \/ /\ command.op \in {"reset", "ping", "prepare"} /\ UNCHANGED prepared
                 /\ (\E t : Single(wire', "ok", t)) \/ (\E t : Single(wire', "err", t))
              \/ /\ command.op = "renew" /\ (\E t : Single(wire', "ok", t)) /\ prepared' = [i \in Ids |-> "none"]
              \/ /\ command.op = "prepare"
                 /\ \E i \in Ids : /\ prepared[i] = "none" /\ prepared' = [prepared EXCEPT ![i] = command.stmt]
                                  /\ Prepare(wire', i)
          BY Zenon, <2>1, <3>8, OtherIs
        <4>2. CASE \/ /\ command.op \in {"reset", "ping", "prepare"} /\ UNCHANGED prepared
                      /\ (\E t : Single(wire', "ok", t)) \/ (\E t : Single(wire', "err", t))
          <5>1. wire'[1].kind # "prep" /\ command.op # "renew" /\ Rows'
            BY Zenon, <3>4, <3>5, <4>2
          <5> QED
            BY Zenon, <1>1, <3>3, <5>1 DEF Table
        <4>3. CASE /\ command.op = "renew" /\ (\E t : Single(wire', "ok", t)) /\ prepared' = [i \in Ids |-> "none"]
          <5>1. wire'[1].kind = "ok" /\ \A i \in Ids : prepared'[i] = "none"
            BY Zenon, <3>5, <4>3
          <5> QED
            BY Zenon, <1>1, <3>3, <4>3, <5>1 DEF Table
        <4>4. CASE /\ command.op = "prepare"
                   /\ \E i \in Ids : /\ prepared[i] = "none" /\ prepared' = [prepared EXCEPT ![i] = command.stmt]
                                    /\ Prepare(wire', i)
          <5>1. PICK i \in Ids : /\ prepared[i] = "none" /\ prepared' = [prepared EXCEPT ![i] = command.stmt]
                                /\ Prepare(wire', i)
            BY Zenon, <4>4
          <5>2. wire'[1].kind = "prep" /\ wire'[1].id = i
            BY Zenon, <5>1 DEF Prepare
          <5>3. prepared \in [Ids -> Sql \cup {"none"}]
            BY Zenon DEF Types
          <5>4. statements'[i] = "none" /\ prepared'[i] = command.stmt
            BY Zenon, <1>1, <2>2, <5>1, <5>3 DEF Rows, Row
          <5>5. \A j \in Ids \ {i} : Row(j)'
            BY Zenon, <1>1, <2>2, <3>2, <5>1, <5>3 DEF Rows, Row
          <5>6. NewRow(i)'
            BY Zenon, <1>1, <4>4, <5>4, <5>5 DEF NewRow
          <5> QED
            BY Zenon, <1>1, <3>3, <5>2, <5>6 DEF Table
        <4> QED
          BY Zenon, <4>1, <4>2, <4>3, <4>4
      <3> QED
        BY Zenon, <1>1, <3>1, <3>7, <3>8 DEF Executed
    <2>5. Len(todo) = 1 \/ Len(todo) > 1
      <3>1. \A n \in Nat : n >= 1 => n = 1 \/ n > 1
        OBVIOUS
      <3> QED
        BY Zenon, <1>1, <3>1
    <2> QED
      BY Zenon, <2>3, <2>4, <2>5
  <1>4. CASE ~Quiet /\ pc # "read"
    <2>1. ~Relaying
      BY Zenon, <1>1 DEF Order
    <2>2. ~Quiet' /\ ~Waiting' /\ ~Answered' /\ ~Relaying'
      BY Zenon, <1>1, <1>4, <2>1 DEF Quiet, Waiting, Answered, Relaying
    <2> QED
      BY Zenon, <2>2 DEF Table
  <1> QED
    BY Zenon, <1>2, <1>3, <1>4
LEMMA TableStep == ASSUME Types, Order, Order', Table, [Next]_vars PROVE Table'
  <1>0. prepared \in [Ids -> Sql \cup {"none"}] /\ statements \in [Ids -> Classes] /\ todo \in Seq(Requests)
    BY Zenon DEF Types
  <1>1. CASE Aways
    BY Zenon, <1>1, AsideDoes, TableAside
  <1>2. CASE Database
    BY Zenon, <1>2, TableDatabase
  <1>3. CASE PumpEnds("back")
    <2>1. PICK n \in 0 .. (IF wire = <<>> THEN 0 ELSE 1) : wire' = SubSeq(wire, 1, n)
      BY Zenon, <1>3 DEF PumpEnds
    <2>2. UNCHANGED <<pc, todo, command, expect, failed, prepared, statements>>
      BY Zenon, <1>3 DEF PumpEnds, locals
    <2>3. wire \in Seq(Packets)
      BY Zenon DEF Types
    <2>4. wire' # <<>> => wire # <<>> /\ wire'[1] = wire[1]
      BY Zenon, <2>1, <2>3, CutIs
    <2>5. (Rows' <=> Rows) /\ \A i : (Row(i)' <=> Row(i))
      BY Zenon, <2>2, RowsSame
    <2>6. \A i : NewRow(i) => NewRow(i)'
      BY Zenon, <2>2, <2>5 DEF NewRow
    <2>7. /\ (Quiet' => Quiet) /\ (Waiting' => Waiting) /\ (Answered' => Answered) /\ (Relaying' => Relaying)
      BY Zenon, <2>2 DEF Quiet, Waiting, Answered, Relaying
    <2> QED
      BY Zenon, <2>2, <2>4, <2>5, <2>6, <2>7 DEF Table
  <1>4. CASE \E c \in Commands : ReceiveCommand(c)
    <2>1. pc = "receive" /\ pc' = "write_up" /\ UNCHANGED <<todo, prepared, statements>>
      BY Zenon, <1>4 DEF ReceiveCommand, Receive, database
    <2>2. Rows'
      BY Zenon, <2>1, RowsSame DEF Table, Quiet
    <2> QED
      BY Zenon, <2>1, <2>2 DEF Table, Answered, Relaying
  <1>5. CASE WriteUp
    <2>1. /\ pc = "write_up" /\ todo' = Append(todo, command) /\ UNCHANGED <<prepared, command>>
          /\ \/ command.op = "close" /\ pc' = "stop" /\ statements' = [statements EXCEPT ![command.id] = "none"]
             \/ command.op # "close" /\ pc' = "read" /\ UNCHANGED statements
      BY Zenon, <1>5 DEF WriteUp, DropClosed
    <2>2. Rows /\ command \in Requests
      BY Zenon, <2>1 DEF Table, Quiet, Types, Cycling
    <2>3. /\ Len(todo) \in Nat /\ Len(todo') = Len(todo) + 1 /\ todo'[Len(todo')] = command /\ todo' # <<>>
          /\ \A k \in 1 .. Len(todo) : todo'[k] = todo[k]
      BY <1>0, <2>1, <2>2
    <2>4. \A i : Closed(i)' <=> Closed(i) \/ (command.op = "close" /\ command.id = i)
      BY <2>3 DEF Closed
    <2>5. Rows'
      <3>1. CASE command.op = "close"
        <4>1. statements' = [statements EXCEPT ![command.id] = "none"] /\ prepared' = prepared
          BY Zenon, <2>1, <3>1
        <4> QED
          BY Zenon, <1>0, <2>2, <2>4, <3>1, <4>1 DEF Rows, Row
      <3>2. CASE command.op # "close"
        BY Zenon, <2>1, <2>2, <2>4, <3>2 DEF Rows, Row
      <3> QED
        BY Zenon, <3>1, <3>2
    <2>6. ~Answered' /\ ~Relaying'
      BY Zenon, <2>1, <2>3 DEF Answered, Relaying
    <2> QED
      BY Zenon, <2>5, <2>6 DEF Table
  <1>6. CASE Fails \/ ApplyLoses
    <2>1. failed' = TRUE /\ pc' = "stop"
      BY Zenon, <1>6 DEF Fails, ApplyLoses, Step
    <2>2. ~Quiet' /\ ~Waiting' /\ ~Answered' /\ ~Relaying'
      BY Zenon, <2>1 DEF Quiet, Waiting, Answered, Relaying, Prologue
    <2> QED
      BY Zenon, <2>2 DEF Table
  <1>7. CASE ForwardPacket
    <2>1. /\ pc = "forward" /\ UNCHANGED <<todo, wire, expect, failed, command, prepared>>
          /\ pc' = IF expect \in {"nothing", "table"} THEN "stop" ELSE "read"
          /\ statements' = IF expect = "table" THEN [statements EXCEPT ![command.id] = Class(command)] ELSE statements
      BY Zenon, <1>7 DEF ForwardPacket, database
    <2>2. todo = <<>> /\ expect \in {"params", "columns", "rows", "nothing", "table"} /\ command \in Requests
      BY Zenon, <2>1 DEF Order, Relaying, Types, Cycling
    <2>3. \A i : ~Closed(i) /\ ~Closed(i)'
      BY <2>1, <2>2 DEF Closed
    <2>4. CASE expect = "table"
      <3>1. NewRow(command.id)
        BY Zenon, <2>1, <2>4 DEF Table, Relaying
      <3>2. /\ Class(command) = classify(command.stmt) /\ command.stmt # "none"
        BY Zenon, <2>2, <3>1, Constants DEF NewRow, Class, Requests, Sql
      <3>3. Rows'
        BY Zenon, <1>0, <2>1, <2>3, <2>4, <3>1, <3>2 DEF Rows, Row, NewRow
      <3>4. ~Answered' /\ ~Relaying'
        BY Zenon, <2>1, <2>4 DEF Answered, Relaying
      <3> QED
        BY Zenon, <3>3, <3>4 DEF Table
    <2>5. CASE expect # "table"
      <3>1. (Rows' <=> Rows) /\ \A i : (Row(i)' <=> Row(i))
        BY Zenon, <2>1, <2>5, RowsSame
      <3>2. NewRow(command.id) => NewRow(command.id)'
        BY Zenon, <2>1, <2>5, <3>1 DEF NewRow
      <3>3. Relaying /\ ~Relaying' /\ expect' # "first" /\ (expect \in {"columns", "rows", "nothing"} => Rows)
        BY Zenon, <2>1, <2>2 DEF Relaying, Table
      <3>4. expect = "params" => pc' = "read" /\ NewRow(command.id) /\ todo' = <<>>
        BY Zenon, <2>1, <2>2, <3>3 DEF Table
      <3> QED
        BY Zenon, <2>1, <2>2, <2>5, <3>1, <3>2, <3>3, <3>4 DEF Table, Quiet, Waiting, Answered, Prologue
    <2> QED
      BY Zenon, <2>4, <2>5
  <1>8. CASE FinishCycle
    <2>1. /\ pc = "stop_cycle" /\ UNCHANGED <<todo, prepared, statements>> /\ failed' = FALSE
          /\ pc' = IF failed THEN "return" ELSE "receive"
      BY Zenon, <1>8 DEF FinishCycle, database
    <2>2. Rows' <=> Rows
      BY Zenon, <2>1, RowsSame
    <2> QED
      BY Zenon, <2>1, <2>2 DEF Table, Quiet, Waiting, Answered, Relaying, Prologue
  <1>9. CASE Read
    <2>1. /\ pc = "read" /\ Answered /\ wire # <<>> /\ Given(wire[1])
          /\ command' = IF wire[1].kind = "prep" THEN [command EXCEPT !.id = wire[1].id] ELSE command
          /\ UNCHANGED <<prepared, todo>>
      BY Zenon, <1>9, ReadDoes
    <2>2. \A i : ~Closed(i) /\ ~Closed(i)'
      BY <2>1 DEF Closed, Answered
    <2>3. command \in Requests
      BY Zenon, <2>1 DEF Types, Cycling
    <2>4. CASE pc' = "stop" /\ failed' = TRUE
      <3>1. ~Quiet' /\ ~Waiting' /\ ~Answered' /\ ~Relaying'
        BY Zenon, <2>4 DEF Quiet, Waiting, Answered, Relaying, Prologue
      <3> QED
        BY Zenon, <3>1 DEF Table
    <2>5. CASE pc' \in {"forward", "record"}
      <3>1. ~Quiet' /\ ~Waiting' /\ ~Answered' /\ Relaying'
        BY Zenon, <2>5 DEF Quiet, Waiting, Answered, Relaying, Prologue
      <3>2. (Rows /\ statements' = statements) => Rows'
        BY Zenon, <2>1, RowsSame
      <3>3. CASE expect = "first" /\ wire[1].kind = "prep" /\ expect' = "params" /\ UNCHANGED statements
        <4>1. NewRow(wire[1].id)
          BY Zenon, <2>1, <3>3 DEF Table
        <4>2. /\ command' = [command EXCEPT !.id = wire[1].id] /\ \A i : (Row(i)' <=> Row(i))
          BY Zenon, <2>1, <3>3, RowsSame
        <4>3. command'.id = wire[1].id /\ command'.op = command.op /\ command'.stmt = command.stmt
          BY Zenon, <2>3, <4>2 DEF Requests
        <4>4. NewRow(command.id)'
          BY Zenon, <2>1, <3>3, <4>1, <4>2, <4>3 DEF NewRow
        <4> QED
          BY Zenon, <3>1, <3>3, <4>4 DEF Table
      <3>4. CASE /\ expect = "params" /\ expect' = "table" /\ UNCHANGED statements
        <4>1. NewRow(command.id)
          BY Zenon, <2>1, <3>4 DEF Table
        <4>2. command' = command
          <5>1. Rest("params", wire)
            BY Zenon, <2>1, <3>4 DEF Order
          <5>2. Len(wire) >= 1 /\ Len(wire) \in Nat
            BY Zenon, <2>1, TailIs DEF Types
          <5>3. wire[1].kind = "def"
            BY <5>1, <5>2 DEF Rest
          <5>4. wire[1].kind # "prep"
            BY Zenon, <5>3
          <5> QED
            BY Zenon, <2>1, <5>4
        <4>3. NewRow(command.id)'
          BY Zenon, <2>1, <3>4, <4>1, <4>2, RowsSame DEF NewRow
        <4> QED
          BY Zenon, <3>1, <3>4, <4>3 DEF Table
      <3>5. CASE \/ expect = "first" /\ wire[1].kind \in {"head", "err"} /\ expect' \in {"columns", "nothing"} /\ UNCHANGED statements
                 \/ expect = "columns" /\ expect' = "rows" /\ UNCHANGED statements
                 \/ expect = "rows" /\ expect' = "nothing" /\ UNCHANGED statements
        <4>1. Rows
          BY Zenon, <2>1, <3>5 DEF Table
        <4> QED
          BY Zenon, <3>1, <3>2, <3>5, <4>1 DEF Table
      <3>6. CASE /\ expect = "first" /\ wire[1].kind = "ok" /\ expect' = "nothing"
                 /\ statements' = IF command.op = "renew" THEN [i \in Ids |-> "none"] ELSE statements
        <4>1. CASE command.op = "renew"
          <5>1. \A i \in Ids : prepared'[i] = "none" /\ statements'[i] = "none"
            BY Zenon, <2>1, <3>6, <4>1 DEF Table
          <5>2. Rows'
            BY Zenon, <5>1 DEF Rows, Row
          <5> QED
            BY Zenon, <3>1, <3>6, <5>2 DEF Table
        <4>2. CASE command.op # "renew"
          <5>1. Rows
            BY Zenon, <2>1, <3>6, <4>2 DEF Table
          <5> QED
            BY Zenon, <3>1, <3>2, <3>6, <4>2, <5>1 DEF Table
        <4> QED
          BY Zenon, <4>1, <4>2
      <3>7. \/ expect = "first" /\ wire[1].kind = "prep" /\ expect' = "params" /\ UNCHANGED statements
            \/ expect = "params" /\ expect' = "table" /\ UNCHANGED statements
            \/ expect = "first" /\ wire[1].kind \in {"head", "err"} /\ expect' \in {"columns", "nothing"} /\ UNCHANGED statements
            \/ expect = "columns" /\ expect' = "rows" /\ UNCHANGED statements
            \/ expect = "rows" /\ expect' = "nothing" /\ UNCHANGED statements
            \/ /\ expect = "first" /\ wire[1].kind = "ok" /\ expect' = "nothing"
               /\ statements' = IF command.op = "renew" THEN [i \in Ids |-> "none"] ELSE statements
        BY Zenon, <2>1, <2>5 DEF Given
      <3> QED
        BY Zenon, <3>3, <3>4, <3>5, <3>6, <3>7
    <2> QED
      BY Zenon, <2>1, <2>4, <2>5 DEF Given
  <1> QED
    BY Zenon, <1>1, <1>2, <1>3, <1>4, <1>5, <1>6, <1>7, <1>8, <1>9, NextDoes
-----------------------------------------------------------------------------
(* The transaction *)

\* The reply to the command brings the loop's view to the state of the database, and a
\* commit of the transaction that it sees is one that happened.
Brings ==
  /\ wire'[1].kind = "ok" => Settles(wire[1])' /\ (Confirms(wire[1])' => committed')
  /\ wire'[1].kind = "prep" => Settled'
  /\ wire'[1].kind = "err" => ~tracked'
  /\ wire'[1].kind = "head" /\ Len(wire') = 3 => Ending(wire[3])'
  /\ due' => wire'[1].kind = "ok" /\ Confirms(wire[1])'

LEMMA RunBrings ==
  ASSUME Types, wire = <<>>, Settled, ~due, NEW stmt, Run(stmt), command.op \in {"query", "execute"},
         stmt # "none" => Class(command) = classify(stmt),
         UNCHANGED <<command, statements, transaction>>
  PROVE  Brings
  <1>1. Class(command)' = Class(command)
    BY Zenon DEF Class
  <1>2. transaction \in BOOLEAN /\ tracked \in BOOLEAN
    BY Zenon DEF Types
  <1>3. CASE Succeeded(stmt) /\ stmt # "select" /\ Single(wire', "ok", open' # "none")
    <2>1. /\ stmt \in {"begin", "start", "chain"} => open' = "explicit"
          /\ stmt \in {"commit", "rollback", "ddl"} => open' = "none"
          /\ stmt \in {"write", "select", "call"} => open' = open \/ (open' = "implicit" /\ open = "none")
          /\ stmt \in {"begin", "start", "chain", "commit", "rollback", "ddl", "write", "select", "call"}
      BY Zenon, <1>3, AfterIs DEF Succeeded
    <2>2. /\ tracked' => stmt = "begin" \/ (tracked /\ open' = "explicit")
          /\ stmt = "commit" /\ open = "explicit" => committed'
          /\ due' => stmt = "commit" /\ tracked
      BY Zenon, <1>3 DEF Succeeded
    <2>3. wire'[1].kind = "ok" /\ wire'[1].trans = (open' # "none")
      BY Zenon, <1>3 DEF Single
    <2>4. wire'[1].trans <=> open' # "none"
      BY Zenon, <2>3
    <2>5. stmt # "select" /\ stmt # "none" /\ Class(command)' = classify(stmt) /\ command'.op # "renew" /\ transaction' = transaction
      BY Zenon, <1>1, <1>3, <2>1
    <2> HIDE DEF Class
    <2>6. View(wire[1])' => open' = "explicit"
      BY <2>1, <2>4, <2>5 DEF View, Settled, classify
    <2>7. tracked' => View(wire[1])'
      BY <2>1, <2>2, <2>4, <2>5 DEF View, Settled, classify
    <2>8. Confirms(wire[1])' => committed'
      BY <2>1, <2>2, <2>4, <2>5 DEF Confirms, Settled, classify
    <2>9. due' => Confirms(wire[1])'
      BY <2>1, <2>2, <2>4, <2>5 DEF Confirms, Settled, classify
    <2> QED
      BY Zenon, <2>3, <2>6, <2>7, <2>8, <2>9 DEF Brings, Settles
  <1>4. CASE Succeeded(stmt) /\ stmt = "select" /\ Triple(wire', "end", open' # "none")
    <2>1. open' = open \/ (open' = "implicit" /\ open = "none")
      BY Zenon, <1>4, AfterIs DEF Succeeded
    <2>2. (tracked' => tracked /\ open' = "explicit") /\ ~due'
      BY Zenon, <1>4 DEF Succeeded
    <2>3. wire'[1].kind = "head" /\ wire'[3].trans = (open' # "none")
      BY Zenon, <1>4 DEF Triple
    <2>4. wire'[3].trans <=> open' # "none"
      BY Zenon, <2>3
    <2>5. Ending(wire[3])'
      BY Zenon, <2>1, <2>2, <2>4 DEF Ending, Settled
    <2> QED
      BY Zenon, <2>2, <2>3, <2>5 DEF Brings
  <1>5. CASE Failed(stmt) /\ (Single(wire', "err", FALSE) \/ Single(wire', "odd", FALSE) \/ Triple(wire', "err", FALSE))
    <2>1. ~tracked' /\ ~due'
      BY Zenon, <1>5 DEF Failed
    <2>2. \/ wire'[1].kind \in {"err", "odd"}
          \/ wire'[1].kind = "head" /\ wire'[3].trans = FALSE
      BY Zenon, <1>5 DEF Single, Triple
    <2> QED
      BY Zenon, <2>1, <2>2 DEF Brings, Ending
  <1> QED
    BY Zenon, <1>3, <1>4, <1>5, RunIs

LEMMA OtherBrings ==
  ASSUME Types, wire = <<>>, Settled, ~due, Other(command), command.op # "close",
         UNCHANGED <<command, statements, transaction>>
  PROVE  Brings
  <1>1. transaction \in BOOLEAN /\ tracked \in BOOLEAN
    BY Zenon DEF Types
  <1>2. CASE command.op \in {"reset", "ping"} /\ Single(wire', "ok", open # "none") /\ UNCHANGED <<open, truth>>
    <2>1. Class(command)' = "ordinary"
      BY Zenon, <1>2 DEF Class
    <2>2. wire'[1].kind = "ok" /\ wire'[1].trans = (open # "none")
      BY Zenon, <1>2 DEF Single
    <2>3. wire'[1].trans <=> open # "none"
      BY Zenon, <2>2
    <2>4. ~due' /\ tracked' = tracked /\ open' = open /\ command'.op # "renew"
      BY Zenon, <1>2 DEF truth
    <2> HIDE DEF Class
    <2>5. Settles(wire[1])'
      BY Zenon, <1>1, <2>1, <2>3, <2>4 DEF Settles, View, Settled
    <2>6. ~Confirms(wire[1])'
      BY Zenon, <2>1 DEF Confirms
    <2> QED
      BY Zenon, <2>2, <2>4, <2>5, <2>6 DEF Brings
  <1>3. CASE command.op = "renew" /\ Single(wire', "ok", FALSE) /\ tracked' = FALSE /\ UNCHANGED due
    <2>1. Class(command)' = "ordinary"
      BY Zenon, <1>3 DEF Class
    <2>2. wire'[1].kind = "ok" /\ wire'[1].trans = FALSE
      BY Zenon, <1>3 DEF Single
    <2> HIDE DEF Class
    <2>3. ~View(wire[1])' /\ ~Confirms(wire[1])'
      BY Zenon, <2>1, <2>2 DEF View, Confirms
    <2> QED
      BY Zenon, <1>3, <2>2, <2>3 DEF Brings, Settles
  <1>4. CASE (\E i \in Ids : Prepare(wire', i)) /\ UNCHANGED <<open, truth>>
    <2>1. wire'[1].kind = "prep"
      BY Zenon, <1>4 DEF Prepare
    <2>2. Settled' /\ ~due'
      BY Zenon, <1>4 DEF Settled, truth
    <2> QED
      BY Zenon, <2>1, <2>2 DEF Brings
  <1>5. CASE Single(wire', "err", FALSE) /\ tracked' = FALSE /\ UNCHANGED due
    BY Zenon, <1>5 DEF Brings, Single
  <1> QED
    BY Zenon, <1>2, <1>3, <1>4, <1>5, OtherIs

\* A step of the database: the session is over, a close, or the reply the loop waits for.
LEMMA DatabaseBrings ==
  ASSUME Types, Order, Table, Views, Decisions, Database
  PROVE  /\ UNCHANGED <<pc, transaction, command, statements, expect, failed, decided, finished>> /\ ~decided
         /\ OnlyCloses => OnlyCloses' /\ UNCHANGED truth
         /\ \/ ~Quiet' /\ ~Waiting' /\ ~Answered' /\ ~Relaying'
            \/ /\ (Quiet' => Quiet) /\ (Waiting' => Waiting) /\ ~Answered' /\ ~Relaying'
               /\ UNCHANGED <<open, truth>>
            \/ ~Quiet' /\ ~Waiting' /\ Answered' /\ ~Relaying' /\ expect' = "first" /\ Brings
  <1>1. /\ todo # <<>> /\ todo' = Tail(todo) /\ Executed(Head(todo)) /\ Head(todo) \in Requests /\ Head(todo) = todo[1]
        /\ Len(todo) \in Nat /\ Len(todo) >= 1 /\ Len(todo') = Len(todo) - 1
        /\ \A k \in 1 .. Len(todo) - 1 : todo'[k] = todo[k + 1]
        /\ (Len(todo) = 1 => todo' = <<>>) /\ (Len(todo) > 1 => todo' # <<>>)
        /\ UNCHANGED <<pc, locals, history>>
    BY Zenon, DatabaseDoes
  <1>2. UNCHANGED <<pc, transaction, command, statements, expect, failed, decided, finished>> /\ ~decided
    BY Zenon, <1>1 DEF locals, history, Decisions
  <1>3. OnlyCloses => OnlyCloses' /\ UNCHANGED truth
    <2>1. OnlyCloses => Head(todo).op = "close"
      BY <1>1 DEF OnlyCloses
    <2>2. OnlyCloses => OnlyCloses'
      BY <1>1 DEF OnlyCloses
    <2> QED
      BY Zenon, <1>1, <2>1, <2>2, CloseDoes
  <1>4. CASE Quiet
    <2>1. OnlyCloses /\ Head(todo).op = "close"
      BY <1>1, <1>4 DEF Order, OnlyCloses
    <2>2. UNCHANGED <<open, truth>>
      BY Zenon, <1>1, <2>1, CloseDoes
    <2>3. ~Answered' /\ ~Relaying' /\ ~Waiting'
      BY Zenon, <1>2, <1>4 DEF Quiet, Answered, Relaying, Waiting, Prologue
    <2> QED
      BY Zenon, <1>2, <1>3, <1>4, <2>2, <2>3
  <1>5. CASE pc = "read"
    <2>1. /\ Waiting /\ wire = <<>> /\ expect = "first" /\ todo[Len(todo)] = command /\ command.op # "close"
          /\ \A k \in 1 .. Len(todo) - 1 : todo[k].op = "close"
      BY Zenon, <1>1, <1>5 DEF Order, Waiting
    <2>2. Settled /\ ~due /\ Rows
      BY Zenon, <2>1 DEF Views, Decisions, Table
    <2>3. ~Quiet' /\ ~Relaying'
      BY Zenon, <1>2, <1>5 DEF Quiet, Relaying, Prologue
    <2>4. CASE Len(todo) > 1
      <3>1. Head(todo).op = "close"
        BY <1>1, <2>1, <2>4
      <3>2. UNCHANGED <<open, truth>>
        BY Zenon, <1>1, <3>1, CloseDoes
      <3>3. ~Answered'
        BY Zenon, <1>1, <2>4 DEF Answered
      <3> QED
        BY Zenon, <1>2, <1>3, <2>1, <2>3, <3>2, <3>3
    <2>5. CASE Len(todo) = 1
      <3>1. Head(todo) = command /\ todo' = <<>>
        BY Zenon, <1>1, <2>1, <2>5
      <3>2. Answered' /\ ~Waiting'
        BY Zenon, <1>2, <1>5, <3>1 DEF Answered, Waiting
      <3>3. Executed(command)
        BY Zenon, <1>1, <3>1
      <3>4. CASE command.op = "query" /\ Run(command.stmt)
        <4>1. Class(command) = classify(command.stmt)
          BY Zenon, <3>4 DEF Class
        <4>2. command.op \in {"query", "execute"}
          BY Zenon, <3>4
        <4> QED
          BY Zenon, <1>2, <1>3, <2>1, <2>2, <2>3, <3>2, <3>4, <4>1, <4>2, RunBrings
      <3>5. CASE command.op = "execute" /\ Run(prepared[command.id])
        <4>1. command.id \in Ids
          BY Zenon, <1>1, <3>1, <3>5 DEF Requests
        <4>2. ~Closed(command.id)
          BY <1>1, <2>1, <2>5, <3>1 DEF Closed
        <4>3. prepared[command.id] # "none" => Class(command) = classify(prepared[command.id])
          BY Zenon, <2>2, <3>5, <4>1, <4>2 DEF Class, Rows, Row
        <4>4. command.op \in {"query", "execute"}
          BY Zenon, <3>5
        <4> QED
          BY Zenon, <1>2, <1>3, <2>1, <2>2, <2>3, <3>2, <3>5, <4>3, <4>4, RunBrings
      <3>6. CASE Other(command)
        BY Zenon, <1>2, <1>3, <2>1, <2>2, <2>3, <3>2, <3>6, OtherBrings
      <3> QED
        BY Zenon, <3>3, <3>4, <3>5, <3>6 DEF Executed
    <2>6. Len(todo) = 1 \/ Len(todo) > 1
      <3>1. \A n \in Nat : n >= 1 => n = 1 \/ n > 1
        OBVIOUS
      <3> QED
        BY Zenon, <1>1, <3>1
    <2> QED
      BY Zenon, <2>4, <2>5, <2>6
  <1>6. CASE ~Quiet /\ pc # "read"
    <2>1. ~Relaying
      BY Zenon, <1>1 DEF Order
    <2>2. ~Quiet' /\ ~Waiting' /\ ~Answered' /\ ~Relaying'
      BY Zenon, <1>2, <1>6, <2>1 DEF Quiet, Waiting, Answered, Relaying
    <2> QED
      BY Zenon, <1>2, <1>3, <2>2
  <1> QED
    BY Zenon, <1>4, <1>5, <1>6

LEMMA ViewsInit == ASSUME Init PROVE Views /\ Decisions
  <1>1. /\ transaction = FALSE /\ tracked = FALSE /\ pc = "slot" /\ decided = FALSE /\ due = FALSE /\ finished = "none"
    BY Zenon DEF Init
  <1> QED
    BY Zenon, <1>1 DEF Views, Decisions, Settled, Waiting, Answered, Relaying, Cycling

LEMMA ViewsStep == ASSUME Types, Order, Table, Views, Decisions, [Next]_vars PROVE Views'
  <1>1. CASE Aways
    <2>1. Aside /\ UNCHANGED <<open, transaction, tracked, wire, command, statements, expect, todo, failed>>
      BY Zenon, <1>1, AsideDoes DEF Aside, core, truth
    <2>2. (Quiet' => Quiet) /\ (Waiting' => Waiting) /\ (Answered' => Answered) /\ (Relaying' => Relaying)
      BY Zenon, <2>1 DEF Aside, Quiet, Waiting, Answered, Relaying, Prologue, Over
    <2>3. /\ (Settled' <=> Settled) /\ (Settles(wire[1])' <=> Settles(wire[1]))
          /\ \A k \in {1, 2, 3} : (Ending(wire[k])' <=> Ending(wire[k]))
      BY Zenon, <2>1 DEF Settled, Settles, Ending, View, Class
    <2> HIDE DEF Settled, Settles, Ending
    <2> QED
      BY Zenon, <2>1, <2>2, <2>3 DEF Views
  <1>2. CASE Database
    <2>1. UNCHANGED transaction
      BY Zenon, <1>2, DatabaseBrings
    <2>2. \/ ~Quiet' /\ ~Waiting' /\ ~Answered' /\ ~Relaying'
          \/ /\ (Quiet' => Quiet) /\ (Waiting' => Waiting) /\ ~Answered' /\ ~Relaying'
             /\ UNCHANGED <<open, truth>>
          \/ ~Quiet' /\ ~Waiting' /\ Answered' /\ ~Relaying' /\ expect' = "first" /\ Brings
      BY Zenon, <1>2, DatabaseBrings
    <2>3. UNCHANGED <<open, truth>> => (Settled' <=> Settled)
      BY <2>1 DEF Settled, truth
    <2> QED
      BY Zenon, <2>2, <2>3 DEF Views, Brings
  <1>3. CASE PumpEnds("back")
    <2>1. PICK n \in 0 .. (IF wire = <<>> THEN 0 ELSE 1) : wire' = SubSeq(wire, 1, n)
      BY Zenon, <1>3 DEF PumpEnds
    <2>2. UNCHANGED <<pc, todo, command, expect, failed, statements, transaction, open, tracked>>
      BY Zenon, <1>3 DEF PumpEnds, locals, truth
    <2>3. wire \in Seq(Packets)
      BY Zenon DEF Types
    <2>4. wire' = <<>> \/ (wire # <<>> /\ Len(wire') = 1 /\ wire'[1] = wire[1])
      BY Zenon, <2>1, <2>3, CutIs
    <2>5. (Quiet' => Quiet) /\ (Waiting' => Waiting) /\ (Answered' => Answered) /\ (Relaying' => Relaying)
      BY Zenon, <2>2 DEF Quiet, Waiting, Answered, Relaying
    <2>6. /\ (Settled' <=> Settled)
          /\ wire' # <<>> => (Settles(wire[1])' <=> Settles(wire[1])) /\ (Ending(wire[1])' <=> Ending(wire[1]))
      BY Zenon, <2>2, <2>4 DEF Settled, Settles, Ending, View, Class
    <2>7. (Answered \/ Relaying) /\ expect = "rows" /\ wire # <<>> => Len(wire) = 1
      <3>1. wire # <<>> => Len(wire) \in Nat /\ Len(wire) >= 1
        BY Zenon, <2>3, TailIs
      <3>2. (Answered \/ Relaying) /\ expect = "rows" => Rest("rows", wire)
        BY Zenon DEF Order
      <3>3. Rest("rows", wire) => Len(wire) <= 1
        BY Zenon DEF Rest
      <3>4. \A m \in Nat : m >= 1 /\ m <= 1 => m = 1
        OBVIOUS
      <3> QED
        BY Zenon, <3>1, <3>2, <3>3, <3>4
    <2>8. Len(wire') # 2 /\ Len(wire') # 3 /\ (Len(wire') = 1 => wire' # <<>> /\ wire # <<>>)
      BY <2>4
    <2> QED
      BY Zenon, <2>2, <2>4, <2>5, <2>6, <2>7, <2>8 DEF Views
  <1>4. CASE \E c \in Commands : ReceiveCommand(c)
    <2>1. pc = "receive" /\ pc' = "write_up" /\ UNCHANGED <<open, transaction, tracked>>
      BY Zenon, <1>4 DEF ReceiveCommand, Receive, database
    <2> QED
      BY Zenon, <2>1 DEF Views, Quiet, Settled, Waiting, Answered, Relaying
  <1>5. CASE WriteUp
    <2>1. /\ pc = "write_up" /\ todo' # <<>> /\ pc' \in {"stop", "read"} /\ UNCHANGED <<open, transaction, tracked>>
      <3>1. /\ pc = "write_up" /\ todo' = Append(todo, command) /\ pc' \in {"stop", "read"}
            /\ UNCHANGED <<open, transaction, tracked>>
        BY Zenon, <1>5 DEF WriteUp, truth
      <3>2. Append(todo, command) # <<>>
        BY <3>1 DEF Types, Cycling
      <3> QED
        BY Zenon, <3>1, <3>2
    <2> QED
      BY Zenon, <2>1 DEF Views, Quiet, Settled, Waiting, Answered, Relaying
  <1>6. CASE Fails \/ ApplyLoses
    <2>1. failed' = TRUE /\ pc' = "stop"
      BY Zenon, <1>6 DEF Fails, ApplyLoses, Step
    <2>2. ~Quiet' /\ ~Waiting' /\ ~Answered' /\ ~Relaying'
      BY Zenon, <2>1 DEF Quiet, Waiting, Answered, Relaying, Prologue
    <2> QED
      BY Zenon, <2>2 DEF Views
  <1>7. CASE ForwardPacket
    <2>1. /\ pc = "forward" /\ UNCHANGED <<todo, wire, expect, failed, open, transaction, tracked>>
          /\ pc' = IF expect \in {"nothing", "table"} THEN "stop" ELSE "read"
      BY Zenon, <1>7 DEF ForwardPacket, database, truth
    <2>2. todo = <<>> /\ expect \in {"params", "columns", "rows", "nothing", "table"}
      BY Zenon, <2>1 DEF Order, Relaying
    <2>3. (Settled' <=> Settled) /\ \A k \in {1, 2} : (Ending(wire[k])' <=> Ending(wire[k]))
      BY Zenon, <2>1 DEF Settled, Ending
    <2> HIDE DEF Settled, Ending
    <2>4. Relaying /\ ~Waiting' /\ ~Relaying' /\ (Quiet' => expect \in {"nothing", "table"})
      BY Zenon, <2>1, <2>2 DEF Quiet, Waiting, Answered, Relaying, Prologue
    <2> QED
      BY Zenon, <2>1, <2>2, <2>3, <2>4 DEF Views
  <1>8. CASE FinishCycle
    <2>1. /\ pc = "stop_cycle" /\ UNCHANGED <<open, transaction, tracked>> /\ failed' = FALSE
          /\ pc' = IF failed THEN "return" ELSE "receive"
      BY Zenon, <1>8 DEF FinishCycle, database, truth
    <2> QED
      BY Zenon, <2>1 DEF Views, Settled, Quiet, Waiting, Answered, Relaying, Prologue
  <1>9. CASE Read
    <2>1. /\ pc = "read" /\ Answered /\ wire # <<>> /\ wire' = Tail(wire) /\ Given(wire[1]) /\ wire[1] \in Packets
          /\ UNCHANGED <<open, tracked>>
      BY Zenon, <1>9, ReadDoes DEF truth
    <2>2. CASE pc' = "stop" /\ failed' = TRUE
      <3>1. ~Quiet' /\ ~Waiting' /\ ~Answered' /\ ~Relaying'
        BY Zenon, <2>2 DEF Quiet, Waiting, Answered, Relaying, Prologue
      <3> QED
        BY Zenon, <3>1 DEF Views
    <2>3. CASE pc' \in {"forward", "record"}
      <3>1. ~Quiet' /\ ~Waiting' /\ ~Answered' /\ Relaying'
        BY Zenon, <2>3 DEF Quiet, Waiting, Answered, Relaying, Prologue
      <3>2. CASE \/ expect = "first" /\ wire[1].kind = "prep" /\ expect' = "params" /\ UNCHANGED transaction
                 \/ expect = "params" /\ expect' = "table" /\ UNCHANGED transaction
        <4>1. Settled'
          <5>1. Settled
            BY Zenon, <2>1, <3>2 DEF Views
          <5>2. UNCHANGED <<open, tracked, transaction>>
            BY Zenon, <2>1, <3>2
          <5> QED
            BY Zenon, <5>1, <5>2 DEF Settled
        <4> QED
          BY Zenon, <3>1, <3>2, <4>1 DEF Views
      <3>3. CASE expect = "first" /\ wire[1].kind = "err" /\ expect' = "nothing" /\ transaction' = FALSE
        <4>1. ~tracked /\ ~tracked'
          BY Zenon, <2>1, <3>3 DEF Views
        <4>2. Settled'
          BY Zenon, <3>3, <4>1 DEF Settled
        <4> QED
          BY Zenon, <3>1, <3>3, <4>2 DEF Views
      <3>4. CASE expect = "first" /\ wire[1].kind = "ok" /\ expect' = "nothing" /\ transaction' = View(wire[1])
        <4>1. Settles(wire[1]) /\ (transaction' <=> View(wire[1]))
          BY Zenon, <2>1, <3>4 DEF Views
        <4>2. Settled'
          BY Zenon, <2>1, <4>1 DEF Settled, Settles
        <4> QED
          BY Zenon, <3>1, <3>4, <4>2 DEF Views
      <3>5. CASE expect = "rows" /\ expect' = "nothing" /\ transaction' = (transaction /\ wire[1].trans)
        <4>1. Len(wire) = 1
          <5>1. Len(wire) \in Nat /\ Len(wire) >= 1
            BY Zenon, <2>1, TailIs DEF Types
          <5>2. Rest("rows", wire)
            BY Zenon, <2>1, <3>5 DEF Order
          <5> QED
            BY <5>1, <5>2 DEF Rest
        <4>2. Ending(wire[1]) /\ (transaction' <=> transaction /\ wire[1].trans)
          BY Zenon, <2>1, <3>5, <4>1 DEF Views
        <4>3. Settled'
          BY Zenon, <2>1, <4>2 DEF Settled, Ending
        <4> QED
          BY Zenon, <3>1, <3>5, <4>3 DEF Views
      <3>6. CASE \/ expect = "first" /\ wire[1].kind = "head" /\ expect' = "columns" /\ UNCHANGED transaction
                 \/ expect = "columns" /\ expect' = "rows" /\ UNCHANGED transaction
        <4>1. wire \in Seq(Packets)
          BY Zenon DEF Types
        <4>2. Len(wire') = 2 => Len(wire) = 3 /\ wire'[2] = wire[3]
          BY Zenon, <2>1, <4>1, TailAt
        <4>3. Len(wire') = 1 => Len(wire) = 2 /\ wire'[1] = wire[2]
          BY Zenon, <2>1, <4>1, TailAt
        <4>4. /\ Len(wire') = 2 => (Ending(wire[2])' <=> Ending(wire[3]))
              /\ Len(wire') = 1 => (Ending(wire[1])' <=> Ending(wire[2]))
          BY <2>1, <3>6, <4>2, <4>3 DEF Ending
        <4> HIDE DEF Ending
        <4>5. CASE expect = "first" /\ wire[1].kind = "head" /\ expect' = "columns"
          BY Zenon, <2>1, <3>1, <4>2, <4>4, <4>5 DEF Views
        <4>6. CASE expect = "columns" /\ expect' = "rows"
          BY Zenon, <2>1, <3>1, <4>3, <4>4, <4>6 DEF Views
        <4> QED
          BY Zenon, <3>6, <4>5, <4>6
      <3> QED
        BY Zenon, <2>1, <2>3, <3>2, <3>3, <3>4, <3>5, <3>6 DEF Given
    <2> QED
      BY Zenon, <2>1, <2>2, <2>3 DEF Given
  <1> QED
    BY Zenon, <1>1, <1>2, <1>3, <1>4, <1>5, <1>6, <1>7, <1>8, <1>9, NextDoes

LEMMA DecisionsStep == ASSUME Types, Order, Table, Views, Decisions, [Next]_vars PROVE Decisions'
  <1> USE DEF Quiet, Waiting, Answered, Relaying
  <1>1. CASE Aways
    <2>1. Aside /\ UNCHANGED <<transaction, committed, due, wire, command, statements, expect, todo, failed, decided>>
      BY Zenon, <1>1, AsideDoes DEF Aside, core, truth
    <2>2. finished' = finished
      BY Zenon, <1>1, AsideKeeps
    <2>3. /\ OnlyCloses' <=> OnlyCloses
          /\ Confirms(wire[1])' <=> Confirms(wire[1])
      BY Zenon, <2>1 DEF OnlyCloses, Confirms, Class
    <2>4. (Quiet' => Quiet) /\ (Waiting' => Waiting) /\ (Answered' => Answered) /\ (Relaying' => Relaying)
      BY Zenon, <2>1 DEF Aside, Prologue, Over
    <2>5. /\ pc' \in {"write_up", "read"} => pc' = pc
          /\ pc' \in Cycling \cup {"stop", "stop_cycle"} => pc \in Cycling \cup {"stop", "stop_cycle"}
      BY Zenon, <2>1 DEF Aside, Prologue, Over, Cycling
    <2> HIDE DEF Quiet, Waiting, Answered, Relaying
    <2> QED
      BY Zenon, <2>1, <2>2, <2>3, <2>4, <2>5 DEF Decisions
  <1>2. CASE Database
    <2>1. UNCHANGED <<pc, expect, decided, finished>> /\ ~decided /\ (OnlyCloses => OnlyCloses' /\ UNCHANGED truth)
      BY Zenon, <1>2, DatabaseBrings
    <2>2. \/ ~Quiet' /\ ~Waiting' /\ ~Answered' /\ ~Relaying'
          \/ /\ (Quiet' => Quiet) /\ (Waiting' => Waiting) /\ ~Answered' /\ ~Relaying'
             /\ UNCHANGED <<open, truth>>
          \/ ~Quiet' /\ ~Waiting' /\ Answered' /\ ~Relaying' /\ expect' = "first" /\ Brings
      BY Zenon, <1>2, DatabaseBrings
    <2>3. pc' = "write_up" => Quiet
      BY Zenon, <2>1
    <2>4. pc' = "write_up" => OnlyCloses
      BY Zenon, <2>3 DEF Order
    <2>5. UNCHANGED truth => UNCHANGED <<committed, due>>
      BY Zenon DEF truth
    <2> HIDE DEF Quiet, Waiting, Answered, Relaying
    <2>6. CASE ~Quiet' /\ ~Waiting' /\ ~Answered' /\ ~Relaying'
      BY <2>1, <2>4, <2>5, <2>6 DEF Decisions
    <2>7. CASE (Quiet' => Quiet) /\ (Waiting' => Waiting) /\ ~Answered' /\ ~Relaying' /\ UNCHANGED truth
      BY <2>1, <2>5, <2>7 DEF Decisions
    <2>8. CASE ~Quiet' /\ ~Waiting' /\ Answered' /\ ~Relaying' /\ expect' = "first" /\ Brings
      BY <2>1, <2>4, <2>5, <2>8 DEF Decisions, Brings
    <2> QED
      BY Zenon, <2>2, <2>6, <2>7, <2>8
  <1>3. CASE PumpEnds("back")
    <2>1. PICK n \in 0 .. (IF wire = <<>> THEN 0 ELSE 1) : wire' = SubSeq(wire, 1, n)
      BY Zenon, <1>3 DEF PumpEnds
    <2>2. UNCHANGED <<pc, todo, command, expect, failed, statements, transaction, decided, finished, committed, due>>
      BY Zenon, <1>3 DEF PumpEnds, locals, truth, history
    <2>3. wire \in Seq(Packets)
      BY Zenon DEF Types
    <2>4. wire' = <<>> \/ (wire # <<>> /\ Len(wire') = 1 /\ wire'[1] = wire[1])
      BY Zenon, <2>1, <2>3, CutIs
    <2>5. (OnlyCloses' <=> OnlyCloses) /\ (wire' # <<>> => (Confirms(wire[1])' <=> Confirms(wire[1])))
      BY Zenon, <2>2, <2>4 DEF OnlyCloses, Confirms, Class
    <2> QED
      BY Zenon, <2>2, <2>4, <2>5 DEF Decisions
  <1>4. CASE \E c \in Commands : ReceiveCommand(c)
    <2>1. pc' = "write_up" /\ finished' = "none" /\ decided' = FALSE /\ due' = FALSE
      BY Zenon, <1>4 DEF ReceiveCommand
    <2> QED
      BY Zenon, <2>1 DEF Decisions
  <1>5. CASE WriteUp
    <2>1. /\ pc = "write_up" /\ UNCHANGED <<decided, finished, committed, due>> /\ pc' \in {"stop", "read"}
          /\ todo' = Append(todo, command)
      BY Zenon, <1>5 DEF WriteUp, truth, history
    <2>2. ~decided /\ ~due /\ finished = "none"
      BY Zenon, <2>1 DEF Decisions, Cycling
    <2> QED
      BY <2>1, <2>2 DEF Decisions
  <1>6. CASE Fails \/ ApplyLoses
    <2>1. failed' = TRUE /\ pc' = "stop" /\ UNCHANGED <<todo, decided, finished, committed, due>> /\ pc \in Cycling
      <3>1. CASE Fails
        <4>1. failed' = TRUE /\ pc' = "stop" /\ UNCHANGED <<todo, decided, finished, committed, due>>
          BY Zenon, <3>1 DEF Fails, database, truth, history
        <4>2. pc \in Cycling
          BY Zenon, <3>1 DEF Fails, Cycling
        <4> QED
          BY Zenon, <4>1, <4>2
      <3>2. CASE ApplyLoses
        <4>1. failed' = TRUE /\ pc' = "stop" /\ UNCHANGED <<todo, decided, finished, committed, due>>
          BY Zenon, <3>2 DEF ApplyLoses, Step, database, truth, history
        <4>2. pc \in Cycling
          BY Zenon, <3>2 DEF ApplyLoses, Step, Cycling
        <4> QED
          BY Zenon, <4>1, <4>2
      <3> QED
        BY Zenon, <1>6, <3>1, <3>2
    <2> QED
      BY Zenon, <2>1 DEF Decisions, Prologue
  <1>7. CASE ForwardPacket
    <2>1. /\ pc = "forward" /\ UNCHANGED <<todo, wire, expect, failed, decided, finished, committed, due>>
          /\ pc' = IF expect \in {"nothing", "table"} THEN "stop" ELSE "read"
      BY Zenon, <1>7 DEF ForwardPacket, database, truth
    <2>2. /\ todo = <<>> /\ expect \in {"params", "columns", "rows", "nothing", "table"}
          /\ (due => decided) /\ (expect # "nothing" => ~decided) /\ finished = "none"
      BY Zenon, <2>1 DEF Order, Decisions, Cycling
    <2> QED
      BY Zenon, <2>1, <2>2 DEF Decisions, Prologue
  <1>8. CASE FinishCycle
    <2>1. /\ pc = "stop_cycle" /\ UNCHANGED <<todo, decided, committed, due>> /\ failed' = FALSE
          /\ pc' = IF failed THEN "return" ELSE "receive"
          /\ finished' = IF failed /\ outcome = "forwarded" THEN "connection_closed" ELSE outcome
      BY Zenon, <1>8 DEF FinishCycle, database, truth
    <2>2. ~failed => Quiet
      BY Zenon, <2>1
    <2>3. ~failed => OnlyCloses /\ (due => decided)
      BY Zenon, <2>2 DEF Order, Decisions
    <2>4. failed => outcome # "commit_ack_lost" \/ finished' # "forwarded"
      BY Zenon, <2>1
    <2>5. OnlyCloses' <=> OnlyCloses
      BY Zenon, <2>1 DEF OnlyCloses
    <2>6. finished' = "forwarded" => ~failed
      BY Zenon, <2>1
    <2> QED
      BY Zenon, <2>1, <2>3, <2>5, <2>6 DEF Decisions, Prologue, Cycling
  <1>9. CASE Read
    <2>1. /\ pc = "read" /\ Answered /\ wire # <<>> /\ Given(wire[1]) /\ UNCHANGED <<todo, committed, due, finished>>
      BY Zenon, <1>9, ReadDoes DEF truth
    <2>2. finished = "none" /\ ~decided
      BY Zenon, <2>1 DEF Decisions, Cycling
    <2>3. CASE pc' = "stop" /\ failed' = TRUE /\ UNCHANGED decided
      BY Zenon, <2>1, <2>2, <2>3 DEF Decisions, Prologue
    <2>4. CASE pc' = "forward" /\ UNCHANGED decided /\ ~(expect = "first" /\ wire[1].kind = "ok" /\ Confirms(wire[1]))
      <3>1. ~due
        BY Zenon, <2>1, <2>4 DEF Decisions
      <3> QED
        BY Zenon, <2>1, <2>2, <2>4, <3>1 DEF Decisions, Prologue
    <2>5. CASE /\ expect = "first" /\ wire[1].kind = "ok" /\ expect' = "nothing" /\ Confirms(wire[1])
               /\ decided' = TRUE /\ pc' \in {"forward", "record"}
      <3>1. committed /\ todo = <<>>
        BY Zenon, <2>1, <2>5 DEF Decisions
      <3> QED
        BY Zenon, <2>1, <2>2, <2>5, <3>1 DEF Decisions, Prologue
    <2> QED
      BY Zenon, <2>1, <2>3, <2>4, <2>5 DEF Given
  <1> QED
    BY Zenon, <1>1, <1>2, <1>3, <1>4, <1>5, <1>6, <1>7, <1>8, <1>9, NextDoes

-----------------------------------------------------------------------------
(* Acknowledgements, the timer and the events *)

LEMMA AcksInit == ASSUME Init PROVE Acks /\ Timer /\ Told
  <1>1. /\ pc = "slot" /\ acked = FALSE /\ fault = "none" /\ outcome = "forwarded" /\ finished = "none" /\ cause = "none"
        /\ timer = "off" /\ cycle = 0 /\ queue = 0 /\ life = "none"
    BY Zenon DEF Init
  <1> QED
    BY <1>1, Constants DEF Acks, Timer, Told

\* What the steps of the loop do to its events.
LEMMA ReceiveDoes ==
  ASSUME \E c \in Commands : ReceiveCommand(c)
  PROVE  /\ pc = "receive" /\ pc' = "write_up" /\ queue > 0 /\ queue' = queue - 1 /\ cycle' = cycle + 1
         /\ Record("open") /\ fault' = "none" /\ finished' = "none" /\ decided' = FALSE /\ acked' = FALSE
         /\ UNCHANGED <<outcome, cause>>
  BY Zenon DEF ReceiveCommand, Receive

LEMMA FinishDoes ==
  ASSUME FinishCycle
  PROVE  /\ pc = "stop_cycle" /\ pc' \in {"return", "receive"} /\ Record("done") /\ timer' = "off"
         /\ outcome' = "forwarded" /\ finished' \in {"connection_closed", outcome}
         /\ timer # "armed" => UNCHANGED cause
         /\ UNCHANGED <<fault, queue, cycle, decided, acked>>
  <1>1. /\ pc = "stop_cycle" /\ Record("done") /\ timer' = "off" /\ outcome' = "forwarded"
        /\ UNCHANGED <<fault, queue, cycle, decided, acked>>
    BY Zenon DEF FinishCycle
  <1>2. pc' \in {"return", "receive"} /\ finished' \in {"connection_closed", outcome}
    BY Zenon DEF FinishCycle
  <1>3. timer # "armed" => UNCHANGED cause
    BY Zenon DEF FinishCycle
  <1> QED
    BY Zenon, <1>1, <1>2, <1>3

\* The other steps but Read: nothing is recorded.
LEMMA RestDoes ==
  ASSUME Database \/ PumpEnds("back") \/ WriteUp \/ Fails \/ ForwardPacket \/ ApplyLoses
  PROVE  /\ UNCHANGED <<life, cycle, queue, finished, decided, fault>>
         /\ \/ pc' = pc /\ UNCHANGED <<timer, outcome, acked>> /\ (cause' = "cycle" => cause = "cycle")
            \/ /\ pc \in {"write_up", "read", "forward"} /\ pc' \in {"read", "stop"} /\ UNCHANGED <<timer, outcome, cause>>
               /\ ForwardPacket \/ UNCHANGED acked
               /\ pc' = "read" => pc = "write_up" \/ ForwardPacket
            \/ pc = "apply" /\ pc' = "stop" /\ outcome' = "commit_ack_lost" /\ UNCHANGED <<acked, timer, cause>>
  <1>1. CASE Database
    <2>1. UNCHANGED <<life, cycle, queue, finished, decided, fault, pc, timer, outcome, acked, cause>>
      BY Zenon, <1>1 DEF Database, locals, history
    <2> QED
      BY Zenon, <2>1
  <1>2. CASE PumpEnds("back")
    <2>1. UNCHANGED <<life, cycle, queue, finished, decided, fault, pc, timer, outcome, acked>>
      BY Zenon, <1>2 DEF PumpEnds, locals, history
    <2>2. cause' = "cycle" => cause = "cycle"
      BY Zenon, <1>2 DEF PumpEnds, Ends
    <2> QED
      BY Zenon, <2>1, <2>2
  <1>3. CASE WriteUp
    <2>1. /\ UNCHANGED <<life, cycle, queue, finished, decided, fault, timer, outcome, acked, cause>>
          /\ pc = "write_up" /\ (pc' = "stop" \/ pc' = "read")
      BY Zenon, <1>3 DEF WriteUp, history
    <2> QED
      BY Zenon, <2>1
  <1>4. CASE Fails
    <2>1. /\ UNCHANGED <<life, cycle, queue, finished, decided, fault, timer, outcome, acked, cause>> /\ pc' = "stop"
      BY Zenon, <1>4 DEF Fails, history
    <2>2. pc \in {"write_up", "read", "forward"}
      BY Zenon, <1>4 DEF Fails
    <2> QED
      BY Zenon, <2>1, <2>2
  <1>5. CASE ForwardPacket
    <2>1. /\ UNCHANGED <<life, cycle, queue, finished, decided, fault, timer, outcome, cause>> /\ pc = "forward"
      BY Zenon, <1>5 DEF ForwardPacket
    <2>2. pc' \in {"read", "stop"}
      BY Zenon, <1>5 DEF ForwardPacket
    <2> QED
      BY Zenon, <1>5, <2>1, <2>2
  <1>6. CASE ApplyLoses
    BY Zenon, <1>6 DEF ApplyLoses, Step, history
  <1> QED
    BY Zenon, <1>1, <1>2, <1>3, <1>4, <1>5, <1>6

LEMMA AcksStep == ASSUME Types, Order, Decisions, Acks, [Next]_vars PROVE Acks'
  <1>1. CASE Aways
    <2>1. /\ UNCHANGED <<outcome, fault, finished, decided, acked>>
          /\ pc = "apply" /\ pc' = "forward" => fault = "delay"
      BY Zenon, <1>1, AsideKeeps
    <2>2. \/ pc' = pc
          \/ pc \in Prologue /\ pc' \in Prologue \cup {"receive"}
          \/ pc \in Prologue \cup {"receive"} \cup Over /\ pc' \in Over
          \/ pc = "record" /\ pc' = "apply"
          \/ pc = "apply" /\ pc' = "forward"
          \/ pc = "stop" /\ pc' = "stop_cycle"
      BY Zenon, <1>1, AsideDoes DEF Aside
    <2> QED
      BY Zenon, <2>1, <2>2 DEF Acks, Prologue, Over
  <1>2. CASE Database \/ PumpEnds("back") \/ WriteUp \/ Fails \/ ForwardPacket \/ ApplyLoses
    <2>1. UNCHANGED <<finished, decided, fault>>
      BY Zenon, <1>2, RestDoes
    <2>2. CASE pc' = pc /\ UNCHANGED <<outcome, acked>>
      BY Zenon, <2>1, <2>2 DEF Acks
    <2>3. CASE /\ pc \in {"write_up", "read", "forward"} /\ pc' \in {"read", "stop"} /\ UNCHANGED outcome
               /\ UNCHANGED acked /\ (pc' = "read" => pc = "write_up")
      BY Zenon, <2>1, <2>3 DEF Acks, Over
    <2>4. CASE pc = "apply" /\ pc' = "stop" /\ outcome' = "commit_ack_lost" /\ UNCHANGED acked
      BY Zenon, <2>1, <2>4 DEF Acks, Over
    <2>5. CASE ForwardPacket
      <3>1. /\ pc = "forward" /\ UNCHANGED outcome /\ (acked' => acked \/ decided) /\ acked' \in BOOLEAN
        BY Zenon, <2>5 DEF ForwardPacket
      <3>2. pc' = IF expect \in {"nothing", "table"} THEN "stop" ELSE "read"
        BY Zenon, <2>5 DEF ForwardPacket
      <3>3. pc' = "read" => ~decided
        BY Zenon, <3>1, <3>2 DEF Decisions, Relaying
      <3> QED
        BY Zenon, <2>1, <3>1, <3>2, <3>3 DEF Acks, Over
    <2> QED
      BY Zenon, <1>2, <2>2, <2>3, <2>4, <2>5, RestDoes
  <1>3. CASE \E c \in Commands : ReceiveCommand(c)
    <2>1. /\ pc = "receive" /\ pc' = "write_up" /\ fault' = "none" /\ finished' = "none" /\ acked' = FALSE /\ UNCHANGED outcome
      BY Zenon, <1>3, ReceiveDoes
    <2> QED
      BY Zenon, <2>1 DEF Acks
  <1>4. CASE FinishCycle
    <2>1. /\ pc = "stop_cycle" /\ pc' \in {"return", "receive"} /\ outcome' = "forwarded"
          /\ finished' \in {"connection_closed", outcome} /\ UNCHANGED <<fault, decided, acked>>
      BY Zenon, <1>4, FinishDoes
    <2> QED
      BY Zenon, <2>1 DEF Acks, Over
  <1>5. CASE Read
    <2>1. pc = "read" /\ Given(wire[1]) /\ UNCHANGED <<finished, acked>>
      BY Zenon, <1>5, ReadDoes
    <2>2. ~decided /\ ~acked /\ fault = "none" /\ outcome # "commit_ack_lost" /\ finished # "commit_ack_lost"
      BY Zenon, <2>1 DEF Decisions, Acks, Over
    <2>3. \/ pc' \in {"stop", "forward"} /\ UNCHANGED <<decided, fault>> /\ outcome' \in {outcome, "upstream_error"}
          \/ decided' = TRUE /\ pc' = "forward" /\ UNCHANGED <<fault, outcome>>
          \/ decided' = TRUE /\ pc' = "record" /\ UNCHANGED outcome
      BY Zenon, <2>1 DEF Given
    <2> QED
      BY Zenon, <2>1, <2>2, <2>3 DEF Acks, Over
  <1> QED
    BY Zenon, <1>1, <1>2, <1>3, <1>4, <1>5, NextDoes

LEMMA TimerStep == ASSUME Types, Order, Timer, [Next]_vars PROVE Timer'
  <1>1. CASE Aways
    <2>1. /\ timer' = "armed" => timer = "armed" /\ ~(pc = "stop" /\ pc' = "stop_cycle")
          /\ cause' = "cycle" => cause = "cycle"
      BY Zenon, <1>1, AsideKeeps
    <2>2. \/ pc' = pc
          \/ pc \in Prologue /\ pc' \in Prologue \cup {"receive"}
          \/ pc \in Prologue \cup {"receive"} \cup Over /\ pc' \in Over
          \/ pc = "record" /\ pc' = "apply"
          \/ pc = "apply" /\ pc' = "forward"
          \/ pc = "stop" /\ pc' = "stop_cycle"
      BY Zenon, <1>1, AsideDoes DEF Aside
    <2> QED
      BY Zenon, <2>1, <2>2 DEF Timer, Prologue, Over, Cycling
  <1>2. CASE Database \/ PumpEnds("back") \/ WriteUp \/ Fails \/ ForwardPacket \/ ApplyLoses
    <2>1. /\ UNCHANGED timer /\ (cause' = "cycle" => cause = "cycle")
          /\ pc' = pc \/ (pc \in Cycling /\ pc' \in {"read", "stop"})
      BY Zenon, <1>2, RestDoes DEF Cycling
    <2> QED
      BY Zenon, <2>1 DEF Timer, Cycling
  <1>3. CASE \E c \in Commands : ReceiveCommand(c)
    <2>1. pc' = "write_up" /\ UNCHANGED cause
      BY Zenon, <1>3, ReceiveDoes
    <2> QED
      BY Zenon, <2>1 DEF Timer, Cycling
  <1>4. CASE FinishCycle
    <2>1. pc = "stop_cycle" /\ timer' = "off" /\ (timer # "armed" => UNCHANGED cause)
      BY Zenon, <1>4, FinishDoes
    <2> QED
      BY Zenon, <2>1 DEF Timer, Cycling
  <1>5. CASE Read
    <2>1. pc = "read" /\ Given(wire[1]) /\ UNCHANGED <<timer, cause>>
      BY Zenon, <1>5, ReadDoes
    <2>2. pc' \in {"stop", "forward", "record"}
      BY Zenon, <2>1 DEF Given
    <2> QED
      BY Zenon, <2>1, <2>2 DEF Timer, Cycling
  <1> QED
    BY Zenon, <1>1, <1>2, <1>3, <1>4, <1>5, NextDoes

\* A step of the session as the events of its commands count it.
Advances ==
  \/ UNCHANGED <<cycle, life>>
  \/ cycle' = cycle + 1 /\ cycle' <= MaxCommands /\ life \in {"none", "done"} /\ life' = "open"
  \/ /\ cycle' = cycle /\ cycle \in 1 .. MaxCommands
     /\ \/ life = "open" /\ life' \in {"passed", "selected"}
        \/ life = "selected" /\ life' = "applied"
        \/ life \in {"open", "passed", "selected", "applied"} /\ life' = "done"

LEMMA ToldStep == ASSUME Types, Order, Decisions, Acks, Told, [Next]_vars PROVE Told' /\ Advances
  <1>0. /\ cycle \in Nat /\ queue \in Nat /\ cycle + queue <= MaxCommands /\ MaxCommands \in Nat
        /\ life = "none" <=> cycle = 0
    BY Zenon, Constants DEF Told
  <1>1. CASE RecordApplied
    <2>1. pc = "record" /\ pc' = "apply" /\ Record("applied") /\ UNCHANGED <<cycle, queue, decided>>
      BY Zenon, <1>1 DEF RecordApplied, Step
    <2>2. life = "selected"
      BY Zenon, <2>1 DEF Told
    <2>3. life' = "applied"
      BY Zenon, <2>1, <2>2 DEF Record
    <2> QED
      BY <1>0, <2>1, <2>2, <2>3 DEF Told, Advances, Prologue, Over
  <1>2. CASE Aways /\ ~RecordApplied
    <2>1. /\ UNCHANGED <<decided, cycle, life>>
          /\ \/ queue' = queue
             \/ queue' = queue + 1 /\ cycle + queue < MaxCommands
             \/ queue' = queue - 1 /\ queue > 0
      BY Zenon, <1>2, AsideKeeps
    <2>2. queue' \in Nat /\ cycle + queue' <= MaxCommands
      BY <1>0, <2>1
    <2>3. \/ pc' = pc
          \/ pc \in Prologue /\ pc' \in Prologue \cup {"receive"}
          \/ pc \in Prologue \cup {"receive"} \cup Over /\ pc' \in Over
          \/ pc = "record" /\ pc' = "apply"
          \/ pc = "apply" /\ pc' = "forward"
          \/ pc = "stop" /\ pc' = "stop_cycle"
      BY Zenon, <1>2, AsideDoes DEF Aside
    <2>4. ~(pc = "record" /\ pc' = "apply")
      BY Zenon, <1>2, AsideKeeps
    <2>5. pc \in {"record", "apply"} => decided
      BY Zenon DEF Acks
    <2> QED
      BY Zenon, <1>0, <2>1, <2>2, <2>3, <2>4, <2>5 DEF Told, Advances, Prologue, Over
  <1>3. CASE Database \/ PumpEnds("back") \/ WriteUp \/ Fails \/ ForwardPacket \/ ApplyLoses
    <2>1. /\ UNCHANGED <<life, cycle, queue, decided>>
      BY Zenon, <1>3, RestDoes
    <2>2. \/ pc' = pc
          \/ pc \in {"write_up", "read", "forward", "apply"} /\ pc' = "stop"
          \/ pc = "write_up" /\ pc' = "read"
          \/ pc = "forward" /\ pc' = "read" /\ ~decided
      <3>1. CASE ForwardPacket
        <4>1. pc = "forward" /\ pc' = IF expect \in {"nothing", "table"} THEN "stop" ELSE "read"
          BY Zenon, <3>1 DEF ForwardPacket
        <4> QED
          BY Zenon, <4>1 DEF Decisions, Relaying
      <3>2. CASE ~ForwardPacket
        BY Zenon, <1>3, <3>2, RestDoes
      <3> QED
        BY Zenon, <3>1, <3>2
    <2> QED
      BY Zenon, <1>0, <2>1, <2>2 DEF Told, Advances, Prologue, Over
  <1>4. CASE \E c \in Commands : ReceiveCommand(c)
    <2>1. pc = "receive" /\ pc' = "write_up" /\ queue > 0 /\ queue' = queue - 1 /\ cycle' = cycle + 1 /\ Record("open")
      BY Zenon, <1>4, ReceiveDoes
    <2>2. life \in {"none", "done"}
      BY Zenon, <2>1 DEF Told
    <2>3. life' = "open"
      BY Zenon, <2>1, <2>2 DEF Record
    <2>4. /\ cycle' \in Nat /\ queue' \in Nat /\ cycle' + queue' <= MaxCommands /\ cycle' # 0 /\ cycle' <= MaxCommands
      BY <1>0, <2>1
    <2> QED
      BY Zenon, <2>1, <2>2, <2>3, <2>4 DEF Told, Advances, Prologue, Over
  <1>5. CASE FinishCycle
    <2>1. pc = "stop_cycle" /\ pc' \in {"return", "receive"} /\ Record("done") /\ UNCHANGED <<queue, cycle>>
      BY Zenon, <1>5, FinishDoes
    <2>2. life \in {"open", "passed", "selected", "applied"}
      BY Zenon, <2>1 DEF Told
    <2>3. life' = "done"
      BY Zenon, <2>1, <2>2 DEF Record
    <2> QED
      BY <1>0, <2>1, <2>2, <2>3 DEF Told, Advances, Prologue, Over
  <1>6. CASE Read
    <2>1. pc = "read" /\ Given(wire[1]) /\ UNCHANGED cycle
      BY Zenon, <1>6, ReadDoes
    <2>2. queue' = queue
      BY Zenon, <1>6 DEF Read
    <2>3. life = "open"
      BY Zenon, <2>1 DEF Told
    <2>4. \/ pc' \in {"stop", "forward"} /\ life' = life
          \/ pc' = "forward" /\ decided' = TRUE /\ Record("passed")
          \/ pc' = "record" /\ Record("selected")
      BY Zenon, <2>1 DEF Given
    <2>5. \/ pc' \in {"stop", "forward"} /\ life' = "open"
          \/ pc' = "forward" /\ decided' = TRUE /\ life' = "passed"
          \/ pc' = "record" /\ life' = "selected"
      BY Zenon, <2>3, <2>4 DEF Record
    <2> QED
      BY <1>0, <2>1, <2>2, <2>3, <2>5 DEF Told, Advances, Prologue, Over
  <1> QED
    BY Zenon, <1>1, <1>2, <1>3, <1>4, <1>5, <1>6, NextDoes

-----------------------------------------------------------------------------
(* The theorems *)

IInv == Types /\ Order /\ Table /\ Views /\ Decisions /\ Acks /\ Timer /\ Told

\* At every step what the loop of exchange believes of the database's transaction and of its
\* prepared statements is right, or a reply that is still to be read makes it so.
THEOREM SessionInvariant == Spec => []IInv
<1>1. Init => IInv
  BY Zenon, TypesInit, OrderInit, TableInit, ViewsInit, AcksInit DEF IInv
<1>2. IInv /\ [Next]_vars => IInv'
  <2> SUFFICES ASSUME IInv, [Next]_vars PROVE IInv'
    BY Zenon
  <2>1. Types /\ Order /\ Table /\ Views /\ Decisions /\ Acks /\ Timer /\ Told
    BY Zenon DEF IInv
  <2>2. Types'
    BY Zenon, <2>1, TypesStep
  <2>3. Order'
    BY Zenon, <2>1, OrderStep
  <2>4. Table'
    BY Zenon, <2>1, <2>3, TableStep
  <2>5. Views' /\ Decisions'
    BY Zenon, <2>1, ViewsStep, DecisionsStep
  <2>6. Acks' /\ Timer' /\ Told'
    BY Zenon, <2>1, AcksStep, TimerStep, ToldStep
  <2> QED
    BY Zenon, <2>2, <2>3, <2>4, <2>5, <2>6 DEF IInv
<1> QED
  BY <1>1, <1>2, PTL DEF Spec

\* A rule is only consulted about a COMMIT that has committed an explicit transaction, and
\* every COMMIT that the loop is to recognise is decided before it is relayed.
THEOREM DecisionsAreCommits == Spec => []DecisionsFollowCommits
<1>1. IInv => DecisionsFollowCommits
  BY Zenon DEF IInv, Decisions, DecisionsFollowCommits
<1> QED
  BY <1>1, SessionInvariant, PTL

\* After hold_response or close_connection the OK packet of the COMMIT never reaches the
\* client, and commit_ack_lost is said of a commit whose OK packet did not reach it.
THEOREM AcksAreWithheld == Spec => []AckWithheld
<1>1. IInv => AckWithheld
  BY Zenon DEF IInv, Decisions, Acks, AckWithheld
<1> QED
  BY <1>1, SessionInvariant, PTL

\* Between two commands no packet of a reply is left over and the table of prepared
\* statements is the database's; and no cycle ends its session by ending.
THEOREM SessionStaysInStep == Spec => []InStep
<1>1. IInv => InStep
  <2> SUFFICES ASSUME IInv PROVE InStep
    BY Zenon
  <2>1. cause # "cycle"
    BY Zenon DEF IInv, Timer
  <2>2. ASSUME pc = "receive", todo = <<>>
        PROVE  /\ wire = <<>>
               /\ \A i \in Ids : statements[i] = IF prepared[i] = "none" THEN "none" ELSE classify(prepared[i])
    <3>1. Quiet
      BY Zenon, <2>2 DEF Quiet
    <3>2. wire = <<>> /\ Rows
      BY Zenon, <3>1 DEF IInv, Order, Table
    <3>3. \A i \in Ids : ~Closed(i)
      BY <2>2 DEF Closed
    <3> QED
      BY Zenon, <3>2, <3>3 DEF Rows, Row
  <2> QED
    BY Zenon, <2>1, <2>2 DEF InStep
<1> QED
  BY <1>1, SessionInvariant, PTL

\* The events of every command come in the order that the recorder counts on: the session
\* implements FlowEvents, with its commands as the flows.
THEOREM SessionRefinesFlowEvents == Spec => RecordsInOrder
<1> DEFINE lives == [c \in 1 .. MaxCommands |-> Life(c)]
<1>1. Init => F!FlowInit
  <2>1. Init => cycle = 0 /\ life = "none"
    BY Zenon DEF Init
  <2>2. cycle = 0 => lives = [c \in 1 .. MaxCommands |-> "none"]
    BY Constants DEF Life
  <2> QED
    BY Zenon, <2>1, <2>2 DEF F!FlowInit
<1>l. lives = [c \in 1 .. MaxCommands |-> lives[c]] /\ lives' = [c \in 1 .. MaxCommands |-> lives'[c]]
  BY Zenon
<1>2. Told /\ Advances => [F!FlowNext]_lives
  <2> SUFFICES ASSUME Told, Advances PROVE F!FlowNext \/ lives' = lives
    BY Zenon
  <2>0. cycle \in Nat /\ (life = "none" <=> cycle = 0) /\ MaxCommands \in Nat
    BY Zenon, Constants DEF Told
  <2>1. CASE UNCHANGED <<cycle, life>>
    <3>1. lives' = lives
      BY Zenon, <2>1 DEF Life
    <3> QED
      BY Zenon, <3>1
  <2>2. CASE cycle' = cycle + 1 /\ cycle' <= MaxCommands /\ life \in {"none", "done"} /\ life' = "open"
    <3>1. cycle' \in 1 .. MaxCommands /\ lives[cycle'] = "none"
      BY <2>0, <2>2 DEF Life
    <3>2. \A c \in 1 .. MaxCommands : lives'[c] = IF c = cycle' THEN "open" ELSE lives[c]
      BY <2>0, <2>2 DEF Life
    <3>3. lives' = [lives EXCEPT ![cycle'] = "open"]
      <4> HIDE DEF lives
      <4> QED
        BY Zenon, <1>l, <3>2
    <3> QED
      BY Zenon, <3>1, <3>3 DEF F!FlowNext, F!Start
  <2>3. CASE cycle' = cycle /\ cycle \in 1 .. MaxCommands
    <3>0. lives[cycle] = life /\ \A c \in 1 .. MaxCommands : lives'[c] = IF c = cycle THEN life' ELSE lives[c]
      BY <2>0, <2>3 DEF Life
    <3> HIDE DEF lives
    <3>1. lives[cycle] = life /\ lives' = [lives EXCEPT ![cycle] = life']
      BY Zenon, <1>l, <3>0
    <3>2. CASE life = "open" /\ life' \in {"passed", "selected"}
      <4>1. \E s \in BOOLEAN : lives' = [lives EXCEPT ![cycle] = IF s THEN "selected" ELSE "passed"]
        BY Zenon, <3>1, <3>2
      <4> QED
        BY Zenon, <2>3, <3>1, <3>2, <4>1 DEF F!FlowNext, F!Decide, lives
    <3>3. CASE life = "selected" /\ life' = "applied"
      BY Zenon, <2>3, <3>1, <3>3 DEF F!FlowNext, F!ApplyFault, lives
    <3>4. CASE life \in {"open", "passed", "selected", "applied"} /\ life' = "done"
      <4>1. lives[cycle] \in F!Open
        BY Zenon, <3>1, <3>4 DEF F!Open
      <4> QED
        BY Zenon, <2>3, <3>1, <3>4, <4>1 DEF F!FlowNext, F!Finish, lives
    <3>5. CASE life' = life
      BY Zenon, <2>1, <2>3, <3>5
    <3>6. \/ life = "open" /\ life' \in {"passed", "selected"}
          \/ life = "selected" /\ life' = "applied"
          \/ life \in {"open", "passed", "selected", "applied"} /\ life' = "done"
          \/ life' = life
      BY <2>0, <2>3 DEF Advances
    <3> QED
      BY Zenon, <3>2, <3>3, <3>4, <3>5, <3>6
  <2> QED
    BY Zenon, <2>1, <2>2, <2>3 DEF Advances
<1>3. IInv /\ [Next]_vars => [F!FlowNext]_lives
  BY Zenon, <1>2, ToldStep DEF IInv
<1> QED
  BY <1>1, <1>3, SessionInvariant, PTL DEF Spec, RecordsInOrder, F!FlowSpec
=============================================================================
