---------------------------- MODULE ServeProofs ----------------------------
(***************************************************************************)
(* FlowsBeforeSummary for any connections and any number of failures.      *)
(*                                                                         *)
(* The argument is about the order of the deferred calls: a server that is *)
(* open has its Close among them (Covered), the recorder is closed behind  *)
(* every server (RecorderLast, RecorderClosed), and before the summary is  *)
(* recorded every server is closed, by its Close or by the drain           *)
(* (SummaryLast).  A closed server has no connections, because Close has   *)
(* waited for them and for the accept loop that would add one (Kept).      *)
(*                                                                         *)
(* And ControlEventsOrdered for any number of admin requests: the holder   *)
(* of the mutex is the only one whose change may not be in the log yet     *)
(* (ControlInv).                                                           *)
(*                                                                         *)
(* The second part is about one of the servers, PgServer: its invariant    *)
(* says, for each thing that a connection may hold (a handshake, a slot, a *)
(* key), where its goroutine is while it holds it (Holdings).              *)
(***************************************************************************)
EXTENDS Serve, PgServer, TLAPS

Calls == Names \cup {"admin", "drain", "summary", "recorder", "store", "api"}
Open == {"up", "draining", "closing"}

Types ==
  /\ pc \in {"start", "ready", "unwind", "exited"}
  /\ deferred \in Seq(Calls)
  /\ server \in [Names -> Open \cup {"none", "closed"}]
  /\ loop \in [Names -> {"none", "run", "ended", "failed"}]
  /\ conn \in [Conns -> {"none", "arrived", "running", "gone"}]
  /\ open \in BOOLEAN /\ summary \in BOOLEAN

\* What is running has an open server, and so has whoever may start something.
Kept ==
  /\ \A c \in Conns : conn[c] = "running" => server[c[1]] \in Open
  /\ \A c \in Conns : conn[c] = "arrived" /\ c[1] # "http" => loop[c[1]] = "run"
  /\ \A s \in Names : loop[s] = "run" => server[s] \in Open

\* The order of the calls d, where the servers are in the states sv.
Covered(d, sv) == \A s \in Names : sv[s] \in Open => \E i \in 1 .. Len(d) : d[i] = s
RecorderLast(d) == \A i, j \in 1 .. Len(d) : d[i] = "recorder" /\ d[j] \in Names => j < i
RecorderClosed(d, op) == ~op => \A i \in 1 .. Len(d) : d[i] \notin Names
Closes(x, s) == x = s \/ (s = "http" /\ x = "drain")
SummaryLast(d, sv) ==
  \A i \in 1 .. Len(d) : d[i] = "summary" =>
    \A s \in Names : sv[s] = "closed" \/ \E j \in 1 .. i - 1 : Closes(d[j], s)
InOrder(d, sv, op) ==
  Covered(d, sv) /\ RecorderLast(d) /\ RecorderClosed(d, op) /\ SummaryLast(d, sv)

Phases ==
  /\ pc \in {"start", "ready"} => open /\ ~summary
  /\ pc = "exited" => deferred = <<>>
  /\ summary => \A s \in Names : server[s] \notin Open

IInv == Types /\ Kept /\ InOrder(deferred, server, open) /\ Phases

-----------------------------------------------------------------------------
(* Sequences of calls: one call is made, or some are put in front. *)

LEMMA Popped ==
  ASSUME NEW d \in Seq(Calls), d # <<>>, NEW sv, NEW sw, NEW op, NEW oq,
         InOrder(d, sv, op),
         \A s \in Names : IF Closes(Head(d), s) THEN sw[s] = "closed" ELSE sw[s] = sv[s],
         oq = op \/ Head(d) = "recorder"
  PROVE  Tail(d) \in Seq(Calls) /\ InOrder(Tail(d), sw, oq)
  <1> DEFINE t == Tail(d)
  <1>1. /\ t \in Seq(Calls) /\ Len(d) \in Nat /\ Len(d) >= 1 /\ Len(t) = Len(d) - 1
        /\ Head(d) = d[1] /\ \A i \in 1 .. Len(t) : t[i] = d[i + 1]
    OBVIOUS
  <1> HIDE DEF t
  <1>2. \A s \in Names : sw[s] # "closed" => sw[s] = sv[s] /\ ~Closes(d[1], s)
    BY <1>1
  <1>3. Covered(t, sw)
    <2> SUFFICES ASSUME NEW s \in Names, sw[s] \in Open
                 PROVE  \E i \in 1 .. Len(t) : t[i] = s
      BY DEF Covered
    <2>1. sv[s] \in Open /\ d[1] # s
      BY <1>2 DEF Open, Closes
    <2>2. PICK i \in 1 .. Len(d) : d[i] = s
      BY <2>1 DEF InOrder, Covered
    <2>3. i # 1 /\ i - 1 \in 1 .. Len(t) /\ t[i - 1] = d[(i - 1) + 1] /\ (i - 1) + 1 = i
      BY <1>1, <2>1, <2>2
    <2> QED
      BY <2>2, <2>3
  <1>4. RecorderLast(t)
    <2> SUFFICES ASSUME NEW i \in 1 .. Len(t), NEW j \in 1 .. Len(t),
                        t[i] = "recorder", t[j] \in Names
                 PROVE  j < i
      BY DEF RecorderLast
    <2>1. i + 1 \in 1 .. Len(d) /\ j + 1 \in 1 .. Len(d) /\ t[i] = d[i + 1] /\ t[j] = d[j + 1]
      BY <1>1
    <2>2. j + 1 < i + 1
      BY <2>1 DEF InOrder, RecorderLast
    <2> QED
      BY <2>2
  <1>5. RecorderClosed(t, oq)
    <2> SUFFICES ASSUME ~oq, NEW i \in 1 .. Len(t), t[i] \in Names
                 PROVE  FALSE
      BY DEF RecorderClosed
    <2>1. i + 1 \in 1 .. Len(d) /\ t[i] = d[i + 1] /\ 1 \in 1 .. Len(d) /\ ~(i + 1 < 1)
      BY <1>1
    <2>2. CASE d[1] = "recorder"
      BY <2>1, <2>2 DEF InOrder, RecorderLast
    <2>3. CASE oq = op
      BY <2>1, <2>3 DEF InOrder, RecorderClosed
    <2> QED
      BY <1>1, <2>2, <2>3
  <1>6. SummaryLast(t, sw)
    <2> SUFFICES ASSUME NEW i \in 1 .. Len(t), t[i] = "summary", NEW s \in Names, sw[s] # "closed"
                 PROVE  \E j \in 1 .. i - 1 : Closes(t[j], s)
      BY DEF SummaryLast
    <2>1. i + 1 \in 1 .. Len(d) /\ d[i + 1] = "summary" /\ sv[s] # "closed" /\ ~Closes(d[1], s)
      BY <1>1, <1>2
    <2>2. PICK j \in 1 .. (i + 1) - 1 : Closes(d[j], s)
      BY <2>1 DEF InOrder, SummaryLast
    <2>3. j # 1 /\ j - 1 \in 1 .. i - 1 /\ j - 1 \in 1 .. Len(t) /\ (j - 1) + 1 = j
      BY <1>1, <2>1, <2>2
    <2>4. t[j - 1] = d[j]
      BY <1>1, <2>3
    <2> QED
      BY <2>2, <2>3, <2>4
  <1> QED
    BY <1>1, <1>3, <1>4, <1>5, <1>6 DEF InOrder, t

LEMMA Pushed ==
  ASSUME NEW d \in Seq(Calls), NEW p \in Seq(Calls), NEW sv, NEW sw, NEW op, op,
         InOrder(d, sv, op),
         \A s \in Names : sw[s] = sv[s] \/ (sv[s] # "closed" /\ \E i \in 1 .. Len(p) : p[i] = s),
         \A i \in 1 .. Len(p) : p[i] # "recorder",
         \A i \in 1 .. Len(p) : p[i] = "summary" =>
           \A s \in Names : \E j \in 1 .. i - 1 : Closes(p[j], s)
  PROVE  p \o d \in Seq(Calls) /\ InOrder(p \o d, sw, op)
  <1> DEFINE e == p \o d
             n == Len(p)
  <1>1. /\ e \in Seq(Calls) /\ n \in Nat /\ Len(d) \in Nat /\ Len(e) = n + Len(d)
        /\ \A i \in 1 .. n : e[i] = p[i]
        /\ \A i \in 1 .. Len(e) : i > n => e[i] = d[i - n]
    OBVIOUS
  <1> HIDE DEF e
  <1>2. \A i \in 1 .. Len(e) : i > n => i - n \in 1 .. Len(d)
    BY <1>1
  <1>3. \A i \in 1 .. Len(d) : n + i \in 1 .. Len(e) /\ n + i > n /\ (n + i) - n = i /\ e[n + i] = d[i]
    BY <1>1
  <1>4. Covered(e, sw)
    <2> SUFFICES ASSUME NEW s \in Names, sw[s] \in Open
                 PROVE  \E i \in 1 .. Len(e) : e[i] = s
      BY DEF Covered
    <2>1. CASE \E i \in 1 .. n : p[i] = s
      BY <1>1, <2>1
    <2>2. CASE sw[s] = sv[s]
      <3>1. PICK i \in 1 .. Len(d) : d[i] = s
        BY <2>2 DEF InOrder, Covered
      <3> QED
        BY <1>3, <3>1
    <2> QED
      BY <2>1, <2>2
  <1>5. RecorderLast(e)
    <2> SUFFICES ASSUME NEW i \in 1 .. Len(e), NEW j \in 1 .. Len(e),
                        e[i] = "recorder", e[j] \in Names
                 PROVE  j < i
      BY DEF RecorderLast
    <2>1. i > n
      BY <1>1
    <2>2. CASE j > n
      <3>1. i - n \in 1 .. Len(d) /\ j - n \in 1 .. Len(d) /\ e[i] = d[i - n] /\ e[j] = d[j - n]
        BY <1>1, <1>2, <2>1, <2>2
      <3>2. j - n < i - n
        BY <3>1, SMTT(30) DEF InOrder, RecorderLast
      <3> QED
        BY <1>1, <3>2
    <2> QED
      BY <1>1, <2>1, <2>2
  <1>6. SummaryLast(e, sw)
    <2> SUFFICES ASSUME NEW i \in 1 .. Len(e), e[i] = "summary", NEW s \in Names, sw[s] # "closed"
                 PROVE  \E j \in 1 .. i - 1 : Closes(e[j], s)
      BY DEF SummaryLast
    <2>1. CASE i > n
      <3>1. i - n \in 1 .. Len(d) /\ d[i - n] = "summary" /\ sv[s] # "closed"
        BY <1>1, <1>2, <2>1
      <3>2. PICK j \in 1 .. (i - n) - 1 : Closes(d[j], s)
        BY <3>1, Zenon DEF InOrder, SummaryLast
      <3>3. j \in 1 .. Len(d) /\ n + j \in 1 .. i - 1
        BY <1>1, <3>1
      <3> QED
        BY <1>3, <3>2, <3>3
    <2>2. CASE ~(i > n)
      <3>1. i \in 1 .. n /\ p[i] = "summary"
        BY <1>1, <2>2
      <3>2. PICK j \in 1 .. i - 1 : Closes(p[j], s)
        BY <3>1
      <3>3. j \in 1 .. n
        BY <1>1, <3>1
      <3> QED
        BY <1>1, <3>2, <3>3
    <2> QED
      BY <2>1, <2>2
  <1> QED
    BY <1>1, <1>4, <1>5, <1>6 DEF InOrder, RecorderClosed, e

\* Servers that stay open, or not, leave the calls in order.
LEMMA Moved ==
  ASSUME NEW d, NEW sv, NEW sw, NEW op, InOrder(d, sv, op),
         \A s \in Names : sw[s] = sv[s] \/ (sv[s] \in Open /\ sw[s] \in Open)
  PROVE  InOrder(d, sw, op)
  <1>1. \A s \in Names : /\ sw[s] \in Open => sv[s] \in Open
                         /\ sv[s] = "closed" => sw[s] = "closed"
    BY DEF Open
  <1>2. Covered(d, sw)
    BY <1>1 DEF InOrder, Covered
  <1>3. SummaryLast(d, sw)
    BY <1>1 DEF InOrder, SummaryLast
  <1> QED
    BY <1>2, <1>3 DEF InOrder

-----------------------------------------------------------------------------
(* The deferred calls stay in order. *)

LEMMA StartInOrder ==
  ASSUME IInv, StartAdmin \/ StartManaged \/ \E i \in 1 .. Len(Servers) : StartServer(i)
  PROVE  deferred' \in Seq(Calls) /\ InOrder(deferred', server', open')
  <1>1. open /\ open' = open /\ deferred \in Seq(Calls) /\ InOrder(deferred, server, open)
    BY Zenon DEF IInv, Types, Phases, StartAdmin, StartManaged, StartServer
  <1>2. ASSUME NEW i \in 1 .. Len(Servers), StartServer(i)
        PROVE  deferred' \in Seq(Calls) /\ InOrder(deferred', server', open')
    <2> DEFINE s == Servers[i]
               p == <<s>>
    <2>1. s \in Names
      BY DEF Servers, Names
    <2>2. p \in Seq(Calls) /\ Len(p) = 1 /\ p[1] = s /\ s # "recorder" /\ s # "summary"
      BY <2>1 DEF Calls, Names
    <2>3. /\ deferred' = p \o deferred /\ server[s] = "none"
          /\ server' = [server EXCEPT ![s] = "up"]
      BY <1>2 DEF StartServer
    <2>4. \A t \in Names : server'[t] = server[t] \/ (server[t] # "closed" /\ t = s)
      BY <2>1, <2>3 DEF IInv, Types
    <2> HIDE DEF s, p
    <2>5. \A t \in Names : server'[t] = server[t]
                           \/ (server[t] # "closed" /\ \E k \in 1 .. Len(p) : p[k] = t)
      BY <2>2, <2>4
    <2>6. /\ \A k \in 1 .. Len(p) : p[k] # "recorder"
          /\ \A k \in 1 .. Len(p) : p[k] # "summary"
      BY <2>2
    <2>7. p \o deferred \in Seq(Calls) /\ InOrder(p \o deferred, server', open)
      BY <1>1, <2>2, <2>5, <2>6, Pushed, Zenon
    <2> QED
      BY <1>1, <2>3, <2>7, Zenon
  <1>3. CASE StartAdmin
    <2> DEFINE p == Shutdown
    <2>1. deferred' = p \o deferred /\ server' = server
      BY <1>3 DEF StartAdmin
    <2>2. /\ p \in Seq(Calls) /\ Len(p) = 6 /\ p[1] = "admin" /\ p[2] = "mysql" /\ p[3] = "tcp"
          /\ p[4] = "postgresql" /\ p[5] = "drain" /\ p[6] = "summary"
      BY DEF Shutdown, Calls, Names
    <2> HIDE DEF p
    <2>3. \A k \in 1 .. Len(p) : p[k] # "recorder" /\ (p[k] = "summary" => k = 6)
      <3>1. \A k \in 1 .. 6 : k = 1 \/ k = 2 \/ k = 3 \/ k = 4 \/ k = 5 \/ k = 6
        OBVIOUS
      <3> QED
        BY <2>2, <3>1
    <2>4. \A t \in Names : \E j \in 1 .. 5 : Closes(p[j], t)
      BY <2>2 DEF Names, Closes
    <2>5. \A k \in 1 .. Len(p) : p[k] = "summary" =>
            \A t \in Names : \E j \in 1 .. k - 1 : Closes(p[j], t)
      BY <2>3, <2>4
    <2>6. p \o deferred \in Seq(Calls) /\ InOrder(p \o deferred, server', open)
      BY <1>1, <2>1, <2>2, <2>3, <2>5, Pushed, Zenon
    <2> QED
      BY Zenon, <1>1, <2>1, <2>6
  <1>4. CASE StartManaged
    <2> DEFINE p == <<"api">>
    <2>1. deferred' = p \o deferred /\ server' = server
      BY <1>4 DEF StartManaged
    <2>2. p \in Seq(Calls) /\ Len(p) = 1 /\ p[1] = "api"
      BY DEF Calls
    <2> HIDE DEF p
    <2>3. /\ \A k \in 1 .. Len(p) : p[k] # "recorder"
          /\ \A k \in 1 .. Len(p) : p[k] # "summary"
      BY <2>2
    <2>4. p \o deferred \in Seq(Calls) /\ InOrder(p \o deferred, server', open)
      BY Zenon, <1>1, <2>1, <2>2, <2>3, Pushed
    <2> QED
      BY <1>1, <2>1, <2>4, Zenon
  <1> QED
    BY <1>2, <1>3, <1>4

LEMMA ReturnInOrder ==
  ASSUME IInv, NEW x, Call(x), Return,
         \A s \in Names : IF Closes(x, s) THEN server'[s] = "closed" ELSE server'[s] = server[s],
         open' = open \/ x = "recorder"
  PROVE  deferred' \in Seq(Calls) /\ InOrder(deferred', server', open')
  <1>1. /\ deferred \in Seq(Calls) /\ deferred # <<>> /\ Head(deferred) = x
        /\ deferred' = Tail(deferred) /\ InOrder(deferred, server, open)
    BY DEF IInv, Types, Call, Return
  <1>2. Tail(deferred) \in Seq(Calls) /\ InOrder(Tail(deferred), server', open')
    BY <1>1, Popped
  <1> QED
    BY <1>1, <1>2

LEMMA CloseInOrder ==
  ASSUME IInv, NEW s \in Names, CloseEnds(s) \/ CloseAgain(s)
  PROVE  deferred' \in Seq(Calls) /\ InOrder(deferred', server', open')
  <1>1. /\ server \in [Names -> Open \cup {"none", "closed"}] /\ Return /\ open' = open
        /\ server' = [server EXCEPT ![s] = "closed"]
    BY DEF IInv, Types, CloseEnds, CloseAgain
  <1>2. PICK x : Call(x) /\ (x = s \/ (s = "http" /\ x = "drain"))
    BY DEF CloseEnds, CloseAgain
  <1>3. \A t \in Names : Closes(x, t) <=> t = s
    BY <1>2 DEF Closes, Names
  <1>4. \A t \in Names : IF Closes(x, t) THEN server'[t] = "closed" ELSE server'[t] = server[t]
    BY <1>1, <1>3
  <1> QED
    BY <1>1, <1>2, <1>4, ReturnInOrder, Zenon

LEMMA OtherCallInOrder ==
  ASSUME IInv, CloseAdmin \/ RecordSummary \/ CloseRecorder \/ CloseManaged
  PROVE  deferred' \in Seq(Calls) /\ InOrder(deferred', server', open')
  <1>1. PICK x \in {"admin", "summary", "recorder", "api", "store"} :
          Call(x) /\ (open' = open \/ x = "recorder")
    BY DEF CloseAdmin, RecordSummary, CloseRecorder, CloseManaged
  <1>2. Return /\ server' = server
    BY DEF CloseAdmin, RecordSummary, CloseRecorder, CloseManaged
  <1>3. \A t \in Names : ~Closes(x, t)
    BY <1>1 DEF Closes, Names
  <1> QED
    BY <1>1, <1>2, <1>3, ReturnInOrder

-----------------------------------------------------------------------------
(* The invariant, group of actions by group. *)

LEMMA ServeInit == Init => IInv
  <1> SUFFICES ASSUME Init
               PROVE  IInv
    OBVIOUS
  <1>1. deferred = <<"recorder">> \o <<"store">> \/ deferred = <<"recorder">> \o <<>>
    BY Zenon DEF Init
  <1>2. PICK q \in Seq({"store"}) : deferred = <<"recorder">> \o q
    <2>1. <<"store">> \in Seq({"store"}) /\ <<>> \in Seq({"store"})
      OBVIOUS
    <2> QED
      BY <1>1, <2>1, Zenon
  <1>3. /\ deferred \in Seq({"recorder", "store"}) /\ Len(deferred) \in Nat
        /\ \A i \in 1 .. Len(deferred) : deferred[i] \in {"recorder", "store"}
    BY <1>2
  <1>4. deferred \in Seq(Calls)
    BY <1>3 DEF Calls
  <1>5. Types
    BY Zenon, <1>4 DEF Init, Types, Open
  <1>6. Kept
    BY ServeAssumption DEF Init, Kept
  <1>7. InOrder(deferred, server, open)
    BY <1>3 DEF Init, InOrder, Covered, RecorderLast, RecorderClosed, SummaryLast, Open, Names
  <1>8. Phases
    BY DEF Init, Phases
  <1> QED
    BY <1>5, <1>6, <1>7, <1>8 DEF IInv

LEMMA StartStep ==
  ASSUME IInv, StartAdmin \/ StartManaged \/ \E i \in 1 .. Len(Servers) : StartServer(i)
  PROVE  IInv'
  <1>1. deferred' \in Seq(Calls) /\ InOrder(deferred', server', open')
    BY StartInOrder
  <1>2. ASSUME NEW i \in 1 .. Len(Servers), StartServer(i)
        PROVE  Types' /\ Kept' /\ Phases'
    <2>1. Servers[i] \in Names
      BY DEF Servers, Names
    <2>2. Types'
      BY <1>1, <1>2, <2>1 DEF IInv, Types, StartServer, Open
    <2>3. Kept'
      BY <1>2, <2>1, ServeAssumption DEF IInv, Types, Kept, StartServer, Open
    <2>4. Phases'
      BY <1>2 DEF IInv, Phases, StartServer
    <2> QED
      BY <2>2, <2>3, <2>4
  <1>3. ASSUME StartAdmin \/ StartManaged
        PROVE  Types' /\ Kept' /\ Phases'
    <2>1. /\ UNCHANGED <<server, loop, conn, open, summary>> /\ pc = "start"
          /\ pc' \in {"start", "ready"}
      BY <1>3 DEF StartAdmin, StartManaged
    <2> QED
      BY <1>1, <2>1 DEF IInv, Types, Kept, Phases
  <1> QED
    BY <1>1, <1>2, <1>3 DEF IInv

\* The servers that close or are closed.
LEMMA CloseStep ==
  ASSUME IInv, NEW s \in Names, CloseBegins(s) \/ CloseEnds(s) \/ CloseAgain(s)
  PROVE  IInv'
  <1>1. CASE CloseBegins(s)
    <2>1. /\ server[s] = "up" /\ server' = [server EXCEPT ![s] = "closing"] /\ pc = "unwind"
          /\ UNCHANGED <<pc, deferred, loop, conn, open, summary>>
      BY <1>1 DEF CloseBegins, Call, main
    <2>2. InOrder(deferred', server', open')
      BY Zenon, <2>1, Moved DEF IInv, Types, Open
    <2>3. Types' /\ Kept'
      BY <2>1, ServeAssumption DEF IInv, Types, Kept, Open
    <2>4. Phases'
      BY <2>1 DEF IInv, Types, Phases, Open
    <2> QED
      BY <2>2, <2>3, <2>4 DEF IInv
  <1>2. CASE CloseEnds(s)
    <2>1. /\ ~Waits(s) /\ server' = [server EXCEPT ![s] = "closed"] /\ pc = "unwind"
          /\ UNCHANGED <<pc, loop, conn, open, summary>>
      BY <1>2 DEF CloseEnds, Call, Return
    <2>2. deferred' \in Seq(Calls) /\ InOrder(deferred', server', open')
      BY <1>2, CloseInOrder
    <2>3. Types'
      BY <2>1, <2>2 DEF IInv, Types
    <2>4. Kept'
      BY <2>1, ServeAssumption DEF IInv, Types, Kept, Waits, Of
    <2>5. Phases'
      BY <2>1 DEF IInv, Types, Phases, Open
    <2> QED
      BY <2>2, <2>3, <2>4, <2>5 DEF IInv
  <1>3. CASE CloseAgain(s)
    <2>1. UNCHANGED <<pc, server, loop, conn, open, summary>> /\ pc = "unwind"
      BY <1>3 DEF CloseAgain, Call, Return
    <2>2. deferred' \in Seq(Calls) /\ InOrder(deferred', server', open')
      BY <1>3, CloseInOrder
    <2> QED
      BY <2>1, <2>2 DEF IInv, Types, Kept, Phases
  <1> QED
    BY <1>1, <1>2, <1>3

LEMMA DrainStep ==
  ASSUME IInv, DrainBegins \/ DrainEnds
  PROVE  IInv'
  <1>1. PICK from \in {"up", "draining"}, to \in {"draining", "closing"} :
          /\ server["http"] = from /\ server' = [server EXCEPT !["http"] = to]
          /\ UNCHANGED <<pc, deferred, loop, conn, open, summary>>
    BY DEF DrainBegins, DrainEnds, main
  <1>2. "http" \in Names
    BY DEF Names
  <1>3. InOrder(deferred', server', open')
    BY <1>1, <1>2, Moved, Zenon DEF IInv, Types, Open
  <1>4. Types' /\ Kept'
    BY <1>1, <1>2, ServeAssumption DEF IInv, Types, Kept, Open
  <1>5. Phases'
    BY <1>1, <1>2 DEF IInv, Types, Phases, Open
  <1> QED
    BY <1>3, <1>4, <1>5 DEF IInv

\* When the summary is the next call, every server is closed.
LEMMA OtherCallStep ==
  ASSUME IInv, CloseAdmin \/ RecordSummary \/ CloseRecorder \/ CloseManaged
  PROVE  IInv'
  <1>1. deferred' \in Seq(Calls) /\ InOrder(deferred', server', open')
    BY OtherCallInOrder
  <1>2. /\ UNCHANGED <<pc, server, loop, conn>> /\ pc = "unwind" /\ open' \in BOOLEAN
        /\ summary' = summary \/ (RecordSummary /\ summary')
    BY Zenon DEF IInv, Types, CloseAdmin, RecordSummary, CloseRecorder, CloseManaged, Call, Return
  <1>3. summary' \in BOOLEAN
    BY Zenon DEF IInv, Types, CloseAdmin, RecordSummary, CloseRecorder, CloseManaged
  <1>4. ASSUME RecordSummary
        PROVE  \A s \in Names : server[s] \notin Open
    <2>1. deferred[1] = "summary" /\ 1 \in 1 .. Len(deferred)
      BY <1>4 DEF IInv, Types, RecordSummary, Call
    <2>2. \A s \in Names : server[s] = "closed"
      BY <2>1 DEF IInv, InOrder, SummaryLast
    <2> QED
      BY <2>2 DEF Open
  <1>5. Phases'
    BY <1>2, <1>4 DEF IInv, Phases
  <1> QED
    BY <1>1, <1>2, <1>3, <1>5 DEF IInv, Types, Kept

LEMMA ConnectionStep ==
  ASSUME IInv, NEW c \in Conns, Arrive(c) \/ Enter(c) \/ TurnAway(c) \/ Leave(c)
  PROVE  IInv'
  <1>1. c[1] \in Names
    BY ServeAssumption
  <1>2. /\ UNCHANGED <<pc, deferred, server, loop, open, summary>>
        /\ \E to \in {"arrived", "running", "gone"} : conn' = [conn EXCEPT ![c] = to]
    BY DEF Arrive, Enter, TurnAway, Leave, Goes, main
  <1>3. Types'
    BY <1>2 DEF IInv, Types
  <1>4. ASSUME Arrive(c)
        PROVE  Kept'
    <2>1. conn' = [conn EXCEPT ![c] = "arrived"] /\ (loop[c[1]] = "run" \/ c[1] = "http")
      BY <1>4, SMTT(30) DEF Arrive, Goes
    <2> QED
      BY <1>2, <2>1 DEF IInv, Types, Kept
  <1>5. ASSUME Enter(c)
        PROVE  Kept'
    <2>1. /\ conn[c] = "arrived" /\ conn' = [conn EXCEPT ![c] = "running"]
          /\ c[1] = "http" => server[c[1]] = "up"
      BY <1>5 DEF Enter, Goes, Tracks
    <2>2. server[c[1]] \in Open
      BY <1>1, <2>1 DEF IInv, Kept, Open
    <2> QED
      BY <1>2, <2>1, <2>2 DEF IInv, Types, Kept
  <1>6. ASSUME TurnAway(c) \/ Leave(c)
        PROVE  Kept'
    <2>1. conn' = [conn EXCEPT ![c] = "gone"]
      BY <1>6 DEF TurnAway, Leave, Goes
    <2> QED
      BY <1>2, <2>1 DEF IInv, Types, Kept
  <1> QED
    BY <1>2, <1>3, <1>4, <1>5, <1>6 DEF IInv, Phases

LEMMA LoopStep ==
  ASSUME IInv, NEW s \in Names, LoopEnds(s)
  PROVE  IInv'
  <1>1. /\ UNCHANGED <<pc, deferred, server, conn, open, summary>>
        /\ s # "http" => \A c \in Of(s) : conn[c] # "arrived"
        /\ \E to \in {"failed", "ended"} : loop' = [loop EXCEPT ![s] = to]
    BY Zenon DEF LoopEnds, main
  <1>2. Types'
    BY <1>1 DEF IInv, Types
  <1>3. Kept'
    BY <1>1, ServeAssumption DEF IInv, Types, Kept, Of
  <1> QED
    BY <1>1, <1>2, <1>3 DEF IInv, Phases

\* The steps that touch no server, no connection and no deferred call.
LEMMA OtherStep ==
  ASSUME IInv, UNCHANGED <<deferred, server, loop, conn, open, summary>>,
         \/ pc' = pc
         \/ pc' = "unwind"
         \/ pc' = "exited" /\ deferred = <<>>
  PROVE  IInv'
  BY DEF IInv, Types, Kept, Phases

-----------------------------------------------------------------------------
LEMMA ServeStep == IInv /\ [Next]_vars => IInv'
  <1> SUFFICES ASSUME IInv, [Next]_vars
               PROVE  IInv'
    OBVIOUS
  <1>1. CASE StartAdmin \/ StartManaged \/ \E i \in 1 .. Len(Servers) : StartServer(i)
    BY <1>1, StartStep
  <1>2. CASE \E s \in Names : CloseBegins(s) \/ CloseEnds(s) \/ CloseAgain(s)
    BY <1>2, CloseStep
  <1>3. CASE DrainBegins \/ DrainEnds
    BY <1>3, DrainStep
  <1>4. CASE CloseAdmin \/ RecordSummary \/ CloseRecorder \/ CloseManaged
    BY <1>4, OtherCallStep
  <1>5. CASE \E c \in Conns : Arrive(c) \/ Enter(c) \/ TurnAway(c) \/ Leave(c)
    BY <1>5, ConnectionStep
  <1>6. CASE \E s \in Names : LoopEnds(s)
    BY <1>6, LoopStep
  <1>7. CASE Stop \/ Exit \/ StartFails \/ Signal \/ SocketFails
    <2>1. /\ UNCHANGED <<deferred, server, loop, conn, open, summary>>
          /\ pc' = pc \/ pc' = "unwind" \/ (pc' = "exited" /\ deferred = <<>>)
      BY <1>7 DEF Stop, Exit, StartFails, Signal, SocketFails, main
    <2> QED
      BY <2>1, OtherStep
  <1>8. CASE \E a \in Admins : \/ AdminArrives(a) \/ AdminRefused(a)
                               \/ AdminChanges(a) \/ AdminRecords(a)
    <2>1. UNCHANGED <<pc, deferred, server, loop, conn, open, summary>>
      BY <1>8 DEF AdminArrives, AdminRefused, AdminChanges, AdminRecords, main
    <2> QED
      BY <2>1, OtherStep
  <1>9. CASE UNCHANGED vars
    <2>1. UNCHANGED <<pc, deferred, server, loop, conn, open, summary>>
      BY <1>9 DEF vars, main
    <2> QED
      BY <2>1, OtherStep
  <1> QED
    BY <1>1, <1>2, <1>3, <1>4, <1>5, <1>6, <1>7, <1>8, <1>9, Zenon DEF Next, MainStep

\* No flow is served once the shutdown summary is recorded or the recorder closed, and
\* serve returns with all its servers closed, for any connections and failures.
THEOREM FlowsEndBeforeSummary == Spec => []FlowsBeforeSummary
  <1>1. IInv => FlowsBeforeSummary
    <2> SUFFICES ASSUME IInv
                 PROVE  FlowsBeforeSummary
      OBVIOUS
    <2>1. summary \/ ~open \/ deferred = <<>> => \A s \in Names : server[s] \notin Open
      BY DEF IInv, Phases, InOrder, Covered, RecorderClosed
    <2>2. summary \/ ~open => \A c \in Conns : conn[c] # "running"
      BY <2>1, ServeAssumption DEF IInv, Kept
    <2>3. pc = "exited" => \A s \in Names : server[s] \in {"none", "closed"}
      BY <2>1 DEF IInv, Phases, Types
    <2> QED
      BY <2>2, <2>3 DEF FlowsBeforeSummary
  <1> QED
    BY <1>1, ServeInit, ServeStep, PTL DEF Spec

-----------------------------------------------------------------------------
(* The control events *)

Entries == [version : Nat, changed : BOOLEAN]

\* The events in l tell the first changes up to their last version, in order and once.
Ordered(l) ==
  /\ \A i, j \in 1 .. Len(l) : i < j =>
       l[i].version <= l[j].version /\ (l[j].changed => l[i].version < l[j].version)
  /\ \A i \in 1 .. Len(l) : \A v \in 1 .. l[i].version :
       \E j \in 1 .. i : l[j].changed /\ l[j].version = v

\* And no more and no less than the first n.
Complete(l, n) ==
  /\ \A i \in 1 .. Len(l) : l[i].version <= n
  /\ \A v \in 1 .. n : \E j \in 1 .. Len(l) : l[j].changed /\ l[j].version = v

\* The changes that have been recorded: one may be pending, with whoever holds the mutex.
Pending == mu # "free" /\ info[mu].changed
Recorded == IF Pending THEN version - 1 ELSE version

ControlInv ==
  /\ version \in Nat /\ log \in Seq(Entries) /\ info \in [Admins -> Entries]
  /\ request \in [Admins -> {"none", "waiting", "changed", "done"}] /\ mu \in Admins \cup {"free"}
  /\ \A a \in Admins : request[a] = "changed" <=> mu = a
  /\ mu # "free" => info[mu].version = version /\ (info[mu].changed => version >= 1)
  /\ Ordered(log) /\ \A i \in 1 .. Len(log) : log[i].version <= version
  /\ open => Complete(log, Recorded)

\* The next event is about the last change that was told, or tells the next one.
LEMMA EventAppended ==
  ASSUME NEW l \in Seq(Entries), NEW n \in Nat, Ordered(l), Complete(l, n), NEW e \in Entries,
         IF e.changed THEN e.version = n + 1 ELSE e.version = n
  PROVE  Append(l, e) \in Seq(Entries) /\ Ordered(Append(l, e)) /\ Complete(Append(l, e), e.version)
  <1> DEFINE m == Append(l, e)
             k == Len(l) + 1
  <1>1. /\ m \in Seq(Entries) /\ Len(l) \in Nat /\ Len(m) = k /\ m[k] = e
        /\ \A i \in 1 .. Len(l) : m[i] = l[i] /\ l[i] \in Entries
    OBVIOUS
  <1>2. e.version \in Nat /\ e.changed \in BOOLEAN /\ \A i \in 1 .. Len(l) : l[i].version \in Nat
    BY <1>1 DEF Entries
  <1> HIDE DEF m
  <1>3. \A v \in 1 .. e.version : \E j \in 1 .. k : m[j].changed /\ m[j].version = v
    <2> SUFFICES ASSUME NEW v \in 1 .. e.version
                 PROVE  \E j \in 1 .. k : m[j].changed /\ m[j].version = v
      OBVIOUS
    <2>1. CASE v <= n
      <3>1. PICK j \in 1 .. Len(l) : l[j].changed /\ l[j].version = v
        BY <2>1 DEF Complete
      <3> QED
        BY <1>1, <3>1
    <2>2. CASE v > n
      BY <1>1, <1>2, <2>2
    <2> QED
      BY <1>2, <2>1, <2>2
  <1>4. \A i \in 1 .. Len(l) : l[i].version <= n
    BY DEF Complete
  <1>5. \A i, j \in 1 .. k : i < j =>
          m[i].version <= m[j].version /\ (m[j].changed => m[i].version < m[j].version)
    <2> SUFFICES ASSUME NEW i \in 1 .. k, NEW j \in 1 .. k, i < j
                 PROVE  m[i].version <= m[j].version /\ (m[j].changed => m[i].version < m[j].version)
      OBVIOUS
    <2>1. i \in 1 .. Len(l) /\ m[i] = l[i]
      BY <1>1
    <2>2. CASE j = k
      BY <1>1, <1>2, <1>4, <2>1, <2>2
    <2>3. CASE j \in 1 .. Len(l)
      BY <1>1, <2>1, <2>3 DEF Ordered
    <2> QED
      BY <1>1, <2>2, <2>3
  <1>6. \A i \in 1 .. k : \A v \in 1 .. m[i].version : \E j \in 1 .. i : m[j].changed /\ m[j].version = v
    <2> SUFFICES ASSUME NEW i \in 1 .. k, NEW v \in 1 .. m[i].version
                 PROVE  \E j \in 1 .. i : m[j].changed /\ m[j].version = v
      OBVIOUS
    <2>1. CASE i = k
      BY <1>1, <1>3, <2>1
    <2>2. CASE i \in 1 .. Len(l)
      <3>1. PICK j \in 1 .. i : l[j].changed /\ l[j].version = v
        BY <1>1, <2>2 DEF Ordered
      <3>2. j \in 1 .. Len(l)
        BY <1>1, <2>2
      <3> QED
        BY <1>1, <3>1, <3>2
    <2> QED
      BY <1>1, <2>1, <2>2
  <1>7. \A i \in 1 .. k : m[i].version <= e.version
    BY <1>1, <1>2, <1>4
  <1>8. Ordered(m) /\ Complete(m, e.version)
    BY SMTT(30), <1>1, <1>3, <1>5, <1>6, <1>7 DEF Ordered, Complete
  <1> QED
    BY <1>1, <1>8 DEF m

\* A request that takes the mutex, and with it the service to its next version or not.
LEMMA ChangesControl ==
  ASSUME ControlInv, NEW a \in Admins, AdminChanges(a)
  PROVE  ControlInv'
  <1>1. /\ mu = "free" /\ mu' = a /\ request[a] = "waiting" /\ (version' = version \/ version' = version + 1)
        /\ info' = [info EXCEPT ![a] = [version |-> version', changed |-> version' # version]]
        /\ request' = [request EXCEPT ![a] = "changed"] /\ UNCHANGED <<open, log>>
    BY DEF AdminChanges, Locks
  <1>2. version \in Nat /\ version' \in Nat /\ a # "free"
    BY <1>1, ServeAssumption DEF ControlInv
  <1>3. [version |-> version', changed |-> version' # version] \in Entries
    BY <1>2 DEF Entries
  <1>4. info' \in [Admins -> Entries] /\ info'[a].version = version' /\ (info'[a].changed <=> version' # version)
    BY Zenon, <1>1, <1>3 DEF ControlInv
  <1>5. \A b \in Admins : request'[b] = "changed" <=> b = a
    <2>1. \A b \in Admins : request[b] # "changed"
      BY <1>1, ServeAssumption DEF ControlInv
    <2> QED
      BY <1>1, <2>1 DEF ControlInv
  <1>6. Recorded' = version /\ Recorded = version
    <2>1. ~Pending /\ (Pending' <=> version' # version)
      BY Zenon, <1>1, <1>2, <1>4 DEF Pending
    <2>2. /\ Recorded = version
          /\ version' = version => Recorded' = version'
          /\ version' # version => Recorded' = version' - 1
      BY Zenon, <2>1 DEF Recorded
    <2>3. version' = version \/ version' = version + 1
      BY Zenon, <1>1
    <2> QED
      BY ONLY <1>2, <2>2, <2>3
  <1>7. \A i \in 1 .. Len(log) : log[i].version <= version'
    <2>1. log \in Seq(Entries) /\ \A i \in 1 .. Len(log) : log[i].version <= version
      BY DEF ControlInv
    <2>2. \A i \in 1 .. Len(log) : log[i] \in Entries
      BY <2>1
    <2>3. \A i \in 1 .. Len(log) : log[i].version \in Nat
      BY <2>2 DEF Entries
    <2> QED
      BY <1>1, <1>2, <2>1, <2>3
  <1>8. request' \in [Admins -> {"none", "waiting", "changed", "done"}]
    BY <1>1 DEF ControlInv
  <1>9. info'[a].changed => version' >= 1
    BY <1>1, <1>2, <1>4
  <1> QED
    BY <1>1, <1>2, <1>4, <1>5, <1>6, <1>7, <1>8, <1>9 DEF ControlInv

\* Whoever holds the mutex records what it did and lets go.
LEMMA RecordsControl ==
  ASSUME ControlInv, NEW a \in Admins, AdminRecords(a)
  PROVE  ControlInv'
  <1>1. /\ request[a] = "changed" /\ mu' = "free" /\ request' = [request EXCEPT ![a] = "done"]
        /\ info' = [info EXCEPT ![a] = None] /\ log' = (IF open THEN Append(log, info[a]) ELSE log)
        /\ UNCHANGED <<version, open>>
    BY DEF AdminRecords
  <1>2. mu = a /\ a # "free" /\ version \in Nat /\ info[a] \in Entries /\ info[a].version = version
    BY <1>1, ServeAssumption DEF ControlInv
  <1>3. info[a].changed => version >= 1
    BY <1>2 DEF ControlInv
  <1>4. None \in Entries
    BY DEF None, Entries
  <1>5. info' \in [Admins -> Entries] /\ request' \in [Admins -> {"none", "waiting", "changed", "done"}]
    BY <1>1, <1>4 DEF ControlInv
  <1>6. \A b \in Admins : request'[b] # "changed" /\ b # "free"
    BY <1>1, <1>2, ServeAssumption DEF ControlInv
  <1>7. Recorded' = version /\ Recorded \in Nat
        /\ IF info[a].changed THEN version = Recorded + 1 ELSE version = Recorded
    BY <1>1, <1>2, <1>3 DEF Recorded, Pending
  <1>8. log \in Seq(Entries) /\ Ordered(log) /\ (open => Complete(log, Recorded))
    BY DEF ControlInv
  <1>9. CASE open
    <2>1. log' \in Seq(Entries) /\ Ordered(log') /\ Complete(log', version)
      BY <1>1, <1>2, <1>7, <1>8, <1>9, EventAppended, Zenon
    <2> QED
      BY ZenonT(30), <1>1, <1>2, <1>5, <1>6, <1>7, <2>1 DEF ControlInv, Complete
  <1>10. CASE ~open
    BY <1>1, <1>2, <1>5, <1>6, <1>8, <1>10 DEF ControlInv
  <1> QED
    BY <1>9, <1>10

\* The other steps do not touch what the events are about, but for Close of the recorder.
LEMMA OthersControl ==
  ASSUME ControlInv, open' = open \/ ~open', UNCHANGED <<mu, version, info, log>>,
         \/ request' = request
         \/ \E a \in Admins, to \in {"waiting", "done"} :
              request[a] \in {"none", "waiting"} /\ request' = [request EXCEPT ![a] = to]
  PROVE  ControlInv'
  <1>1. /\ request' \in [Admins -> {"none", "waiting", "changed", "done"}]
        /\ \A a \in Admins : request'[a] = "changed" <=> request[a] = "changed"
    BY DEF ControlInv
  <1>2. Recorded' = Recorded
    BY DEF Recorded, Pending
  <1>3. open' => open
    BY Zenon
  <1> QED
    BY <1>1, <1>2, <1>3 DEF ControlInv

\* The control events of the admin socket are in order and complete, however many requests
\* compete for its mutex and whenever the recorder is closed.
THEOREM ControlEventsAreOrdered == Spec => []ControlEventsOrdered
  <1>1. Init => ControlInv
    <2> SUFFICES ASSUME Init
                 PROVE  ControlInv
      OBVIOUS
    <2>1. None \in Entries
      BY DEF None, Entries
    <2>2. log = <<>> /\ Len(log) = 0 /\ version = 0 /\ mu = "free"
      BY DEF Init
    <2>3. Ordered(log) /\ Complete(log, 0) /\ log \in Seq(Entries)
      BY <2>2 DEF Ordered, Complete
    <2>4. Recorded = 0
      BY <2>2 DEF Recorded, Pending
    <2> QED
      BY <2>1, <2>2, <2>3, <2>4, ServeAssumption DEF Init, ControlInv
  <1>2. ControlInv /\ [Next]_vars => ControlInv'
    <2> SUFFICES ASSUME ControlInv, [Next]_vars
                 PROVE  ControlInv'
      OBVIOUS
    <2>1. ASSUME NEW a \in Admins, AdminArrives(a) \/ AdminRefused(a)
          PROVE  ControlInv'
      <3>1. /\ UNCHANGED <<mu, version, info, log, open>>
            /\ \E to \in {"waiting", "done"} :
                 request[a] \in {"none", "waiting"} /\ request' = [request EXCEPT ![a] = to]
        BY <2>1 DEF AdminArrives, AdminRefused
      <3> QED
        BY <3>1, OthersControl, Zenon
    <2>2. ASSUME UNCHANGED <<request, mu, version, info, log>>, open' = open \/ ~open'
          PROVE  ControlInv'
      BY <2>2, OthersControl, Zenon
    <2>3. ASSUME \/ \E i \in 1 .. Len(Servers) : StartServer(i)
                 \/ StartAdmin \/ StartManaged \/ StartFails \/ Stop \/ Signal \/ SocketFails \/ Exit
                 \/ \E s \in Names : CloseBegins(s) \/ CloseEnds(s) \/ CloseAgain(s) \/ LoopEnds(s)
          PROVE  UNCHANGED <<request, mu, version, info, log, open>>
      BY Zenon, <2>3 DEF StartServer, StartAdmin, StartManaged, StartFails, Stop, Signal, SocketFails, Exit,
        CloseBegins, CloseEnds, CloseAgain, LoopEnds, socket
    <2>4. ASSUME \/ DrainBegins \/ DrainEnds \/ CloseAdmin \/ RecordSummary \/ CloseManaged
                 \/ \E c \in Conns : Arrive(c) \/ Enter(c) \/ TurnAway(c) \/ Leave(c)
          PROVE  UNCHANGED <<request, mu, version, info, log, open>>
      BY Zenon, <2>4 DEF DrainBegins, DrainEnds, CloseAdmin, RecordSummary, CloseManaged,
        Arrive, Enter, TurnAway, Leave, Goes, socket
    <2>5. ASSUME CloseRecorder
          PROVE  UNCHANGED <<request, mu, version, info, log>> /\ ~open'
      BY <2>5 DEF CloseRecorder, socket
    <2>6. ASSUME UNCHANGED vars
          PROVE  UNCHANGED <<request, mu, version, info, log, open>>
      BY Zenon, <2>6 DEF vars, socket
    <2> QED
      BY Zenon, <2>1, <2>2, <2>3, <2>4, <2>5, <2>6, ChangesControl, RecordsControl DEF Next, MainStep
  <1>3. ControlInv => ControlEventsOrdered
    <2> SUFFICES ASSUME ControlInv
                 PROVE  ControlEventsOrdered
      OBVIOUS
    <2>1. (\A a \in Admins : request[a] # "changed") => Recorded = version
      BY Zenon DEF ControlInv, Recorded, Pending
    <2> QED
      BY Zenon, <2>1 DEF ControlInv, ControlEventsOrdered, Ordered, Complete
  <1> QED
    BY <1>1, <1>2, <1>3, PTL DEF Spec

-----------------------------------------------------------------------------
(* PgServer: what its connections hold. *)

INSTANCE FiniteSetTheorems

Absent == {"none", "refused", "done"}
Session == {"connect", "authenticate", "exchange"}
Places == Absent \cup Session \cup
          {"startup", "request", "cancel", "tell", "leave", "release", "cancelled"}

ServerTypes ==
  /\ where \in [Connections -> Places] /\ stage \in [Connections -> 0 .. 4]
  /\ handshakes \subseteq Connections /\ slots \subseteq Connections
  /\ cancels \subseteq Connections

Holdings ==
  /\ \A c \in Connections : c \in handshakes <=> where[c] \notin Absent
  /\ \A c \in Connections : where[c] \in Session => c \in slots /\ Private(c)
  /\ \A c \in slots : where[c] \in Session \cup {"leave", "release"}
  /\ \A c \in cancels : c \in slots /\ where[c] \in {"authenticate", "exchange", "leave"}
  /\ \A c \in Connections : where[c] = "exchange" => stage[c] = 4

Limits ==
  /\ Cardinality(slots) <= MaxInflight
  /\ serverState = "closed" => handshakes = {} /\ listening = {}

ServerIInv == ServerTypes /\ Holdings /\ Limits

-----------------------------------------------------------------------------
LEMMA SlotsFinite ==
  ASSUME ServerTypes
  PROVE  /\ IsFiniteSet(slots) /\ IsFiniteSet(handshakes)
         /\ Cardinality(slots) \in Nat /\ Cardinality(handshakes) \in Nat
  BY PgServerAssumption, FS_Subset, FS_CardinalityType DEF ServerTypes

LEMMA ServerInitIInv == ServerInit => ServerIInv
  <1> SUFFICES ASSUME ServerInit
               PROVE  ServerIInv
    OBVIOUS
  <1>1. ServerTypes
    BY DEF ServerInit, ServerTypes, Places, Absent
  <1>2. Holdings
    BY DEF ServerInit, Holdings, Absent, Session
  <1>3. Limits
    BY PgServerAssumption, FS_EmptySet DEF ServerInit, Limits
  <1> QED
    BY <1>1, <1>2, <1>3 DEF ServerIInv

\* The steps of a connection that take nothing and give nothing back.
LEMMA Moves ==
  ASSUME ServerIInv, NEW c \in Connections, NEW to \in Places, where' = [where EXCEPT ![c] = to],
         UNCHANGED <<at, handshakes, slots, cancels, listening, serverState>>,
         secure \subseteq secure', stage' \in [Connections -> 0 .. 4],
         \A k \in Connections \ {c} : stage'[k] = stage[k],
         where[c] \in Absent <=> to \in Absent,
         to \in Session => where[c] \in Session,
         where[c] \in Session => to \in Session \cup {"leave"},
         where[c] \in Session \cup {"leave", "release"} => to \in Session \cup {"leave"},
         c \in cancels => to \in {"authenticate", "exchange", "leave"},
         to = "exchange" => stage'[c] = 4
  PROVE  ServerIInv'
  <1>0. where \in [Connections -> Places] /\ ServerTypes
    BY DEF ServerIInv, ServerTypes
  <1>1. ServerTypes'
    <2>1. where' \in [Connections -> Places]
      BY <1>0
    <2> QED
      BY <1>0, <2>1, Zenon DEF ServerTypes
  <1>2. \A k \in Connections : Private(k) => Private(k)'
    BY DEF Private
  <1>3. Holdings'
    BY <1>2 DEF ServerIInv, ServerTypes, Holdings
  <1>4. Limits'
    BY DEF ServerIInv, Limits
  <1> QED
    BY <1>1, <1>3, <1>4 DEF ServerIInv

LEMMA MovesStep ==
  ASSUME ServerIInv, NEW c \in Connections,
         \/ SSLRequest(c) \/ (\E k \in Connections : CancelRequest(c, k)) \/ Cancel(c)
         \/ cancelBackend(c) \/ Connect(c) \/ Scram(c) \/ Ready(c) \/ ServeReturns(c)
  PROVE  ServerIInv'
  <1> USE DEF Go, Places, Absent, Session
  <1>1. c \in cancels => where[c] \in {"authenticate", "exchange", "leave"}
    BY DEF ServerIInv, Holdings
  <1>2. stage \in [Connections -> 0 .. 4] /\ where[c] \in Places
    BY DEF ServerIInv, ServerTypes
  <1>3. CASE SSLRequest(c)
    <2>1. secure \subseteq secure'
      BY <1>3 DEF SSLRequest
    <2> QED
      BY <1>1, <1>2, <1>3, <2>1, Moves, Zenon DEF SSLRequest
  <1>4. CASE \E k \in Connections : CancelRequest(c, k)
    BY <1>1, <1>2, <1>4, Moves, Zenon DEF CancelRequest, Waiting
  <1>5. CASE Cancel(c)
    BY <1>1, <1>2, <1>5, Moves, Zenon DEF Cancel
  <1>6. CASE cancelBackend(c)
    BY <1>1, <1>2, <1>6, Moves, Zenon DEF cancelBackend
  <1>7. CASE Connect(c)
    BY <1>1, <1>2, <1>7, Moves, Zenon DEF Connect
  <1>8. CASE Scram(c)
    <2>1. /\ stage' \in [Connections -> 0 .. 4]
          /\ \A k \in Connections \ {c} : stage'[k] = stage[k]
      BY <1>2, <1>8 DEF Scram
    <2> QED
      BY <1>1, <1>2, <1>8, <2>1, Moves, Zenon DEF Scram
  <1>9. CASE Ready(c)
    BY <1>1, <1>2, <1>9, Moves, Zenon DEF Ready, Authenticated
  <1>10. CASE ServeReturns(c)
    BY <1>1, <1>2, <1>10, Moves, Zenon DEF ServeReturns
  <1> QED
    BY <1>3, <1>4, <1>5, <1>6, <1>7, <1>8, <1>9, <1>10

LEMMA AcceptStep ==
  ASSUME ServerIInv, NEW c \in Connections, Accept(c) \/ Refuse(c)
  PROVE  ServerIInv'
  <1> USE DEF Go, Places, Absent, Session
  <1>1. ServerTypes'
    BY DEF ServerIInv, ServerTypes, Accept, Refuse
  <1>2. Holdings'
    BY DEF ServerIInv, ServerTypes, Holdings, Accept, Refuse, Private
  <1>3. Limits'
    BY DEF ServerIInv, Limits, Accept, Refuse
  <1> QED
    BY <1>1, <1>2, <1>3 DEF ServerIInv

LEMMA StartSessionStep ==
  ASSUME ServerIInv, NEW c \in Connections, StartSession(c)
  PROVE  ServerIInv'
  <1> USE DEF Go, Places, Absent, Session
  <1>1. ServerTypes'
    BY DEF ServerIInv, ServerTypes, StartSession
  <1>2. Holdings'
    BY DEF ServerIInv, ServerTypes, Holdings, StartSession, Private, Waiting
  <1>3. Limits'
    <2>1. Cardinality(slots) < MaxInflight /\ slots' = slots \cup {c}
      BY DEF StartSession, FreeSlot
    <2>2. /\ IsFiniteSet(slots) /\ Cardinality(slots) \in Nat
          /\ Cardinality(slots \cup {c}) =
               IF c \in slots THEN Cardinality(slots) ELSE Cardinality(slots) + 1
      <3>1. IsFiniteSet(slots) /\ Cardinality(slots) \in Nat
        BY SlotsFinite DEF ServerIInv
      <3> QED
        BY <3>1, FS_AddElement, Zenon
    <2>3. Cardinality(slots \cup {c}) \in Nat
      BY SlotsFinite, FS_AddElement, FS_CardinalityType DEF ServerIInv
    <2>4. Cardinality(slots') <= MaxInflight
      BY <2>1, <2>2, <2>3, PgServerAssumption
    <2> QED
      BY <2>4 DEF ServerIInv, Limits, StartSession
  <1> QED
    BY <1>1, <1>2, <1>3 DEF ServerIInv

\* A key is entered, and the deferred calls of serve give things back in their order.
LEMMA KeyStep ==
  ASSUME ServerIInv, NEW c \in Connections, register(c) \/ Cleanup(c) \/ Depart(c)
  PROVE  ServerIInv'
  <1> USE DEF Go, Places, Absent, Session
  <1>1. ServerTypes'
    BY DEF ServerIInv, ServerTypes, register, Cleanup, Cleaned, Depart
  <1>2. Holdings'
    <2>1. CASE register(c)
      BY <2>1 DEF ServerIInv, ServerTypes, Holdings, register, Private
    <2>2. CASE Cleanup(c)
      BY <2>2 DEF ServerIInv, ServerTypes, Holdings, Cleanup, Cleaned, Private
    <2>3. CASE Depart(c)
      BY <2>3 DEF ServerIInv, ServerTypes, Holdings, Depart, Private
    <2> QED
      BY <2>1, <2>2, <2>3
  <1>3. Limits'
    BY DEF ServerIInv, Limits, register, Cleanup, Depart
  <1> QED
    BY <1>1, <1>2, <1>3 DEF ServerIInv

LEMMA ReleaseStep ==
  ASSUME ServerIInv, NEW c \in Connections, Release(c)
  PROVE  ServerIInv'
  <1> USE DEF Go, Places, Absent, Session
  <1>1. ServerTypes'
    BY DEF ServerIInv, ServerTypes, Release
  <1>2. Holdings'
    BY DEF ServerIInv, ServerTypes, Holdings, Release, Private
  <1>3. Limits'
    <2>1. Cardinality(slots \ {c}) <= Cardinality(slots) /\ Cardinality(slots \ {c}) \in Nat
      BY SlotsFinite, FS_Subset, FS_CardinalityType DEF ServerIInv
    <2>2. Cardinality(slots') <= MaxInflight
      BY <2>1, SlotsFinite, PgServerAssumption DEF Release, ServerIInv, Limits
    <2> QED
      BY <2>2 DEF ServerIInv, Limits, Release
  <1> QED
    BY <1>1, <1>2, <1>3 DEF ServerIInv

LEMMA ServerChanges ==
  ASSUME ServerIInv, CloseBegin \/ CloseEnd \/ UNCHANGED serverVars \/ \E e \in Endpoints : StopListening(e)
  PROVE  ServerIInv'
  <1>1. UNCHANGED <<where, at, secure, stage, handshakes, slots, cancels>>
    BY DEF CloseBegin, CloseEnd, StopListening, serverVars
  <1>2. ServerTypes' /\ Holdings'
    BY <1>1 DEF ServerIInv, ServerTypes, Holdings, Private
  <1>3. Limits'
    BY <1>1 DEF ServerIInv, Limits, CloseBegin, CloseEnd, Waited, StopListening, serverVars
  <1> QED
    BY <1>2, <1>3 DEF ServerIInv

LEMMA ServerNextIInv == ServerIInv /\ [ServerNext]_serverVars => ServerIInv'
  <1> SUFFICES ASSUME ServerIInv, [ServerNext]_serverVars
               PROVE  ServerIInv'
    OBVIOUS
  <1>1. ASSUME NEW c \in Connections, Accept(c) \/ Refuse(c)
        PROVE  ServerIInv'
    BY <1>1, AcceptStep
  <1>2. ASSUME NEW c \in Connections, Serve(c)
        PROVE  ServerIInv'
    BY <1>2, MovesStep, StartSessionStep, KeyStep, ReleaseStep, Zenon DEF Serve
  <1>3. CASE CloseBegin \/ CloseEnd \/ UNCHANGED serverVars \/ \E e \in Endpoints : StopListening(e)
    BY <1>3, ServerChanges
  <1> QED
    BY <1>1, <1>2, <1>3, Zenon DEF ServerNext, Closed

-----------------------------------------------------------------------------
\* Whatever connections come, only an authenticated client that holds a slot, over TLS
\* where it is required, exchanges frames, and the key of a session goes before its slot.
THEOREM SessionsStayGuarded == ServerSpec => []SessionsGuarded
  <1>1. ServerIInv => SessionsGuarded
    BY DEF ServerIInv, Holdings, Limits, SessionsGuarded, Session
  <1> QED
    BY <1>1, ServerInitIInv, ServerNextIInv, PTL DEF ServerSpec

\* Close returns with no goroutine, slot or key left behind, for any connections.
THEOREM CloseLeavesNothing == ServerSpec => []NothingLeft
  <1>1. ServerIInv => NothingLeft
    BY DEF ServerIInv, ServerTypes, Holdings, Limits, NothingLeft, Absent, Session
  <1> QED
    BY <1>1, ServerInitIInv, ServerNextIInv, PTL DEF ServerSpec

\* A connection is turned away only when the spare handshakes are taken by connections
\* without a session, for any limits.
THEOREM SessionsLeaveRoom == ServerSpec => RoomToCancel
  <1>1. ASSUME ServerIInv, ServerNext, NEW c \in Connections, where[c] = "none", where'[c] = "refused"
        PROVE  Cardinality(handshakes \ slots) >= Spare
    <2>1. Full
      <3>1. \A k \in Connections : k # c => ~Serve(k) /\ ~Accept(k) /\ ~Refuse(k)
        <4> SUFFICES ASSUME NEW k \in Connections, k # c, Serve(k) \/ Accept(k) \/ Refuse(k)
                     PROVE  FALSE
          OBVIOUS
        <4>1. \E to : where' = [where EXCEPT ![k] = to]
          <5>1. CASE Accept(k) \/ Refuse(k)
            BY <5>1, Zenon DEF Accept, Refuse, Go
          <5>2. CASE Serve(k)
            BY <5>2, Zenon DEF Serve, Go, SSLRequest, CancelRequest, Cancel, cancelBackend, StartSession,
                 Connect, Scram, register, Ready, ServeReturns, Cleanup, Release, Depart
          <5> QED
            BY <5>1, <5>2
        <4>2. where \in [Connections -> Places]
          BY <1>1 DEF ServerIInv, ServerTypes
        <4> QED
          BY <1>1, <4>1, <4>2
      <3>2. ~Serve(c) /\ ~Accept(c)
        BY Zenon, <1>1 DEF ServerIInv, ServerTypes, Serve, Accept, Go, SSLRequest, CancelRequest, Cancel,
             cancelBackend, StartSession, Connect, Scram, register, Ready, ServeReturns, Cleanup,
             Release, Depart, Waiting
      <3>3. ~CloseBegin /\ ~CloseEnd /\ ~Closed /\ \A e \in Endpoints : ~StopListening(e)
        BY <1>1 DEF CloseBegin, CloseEnd, Closed, StopListening, serverVars
      <3>4. Refuse(c)
        BY <1>1, <3>1, <3>2, <3>3, Zenon DEF ServerNext
      <3> QED
        BY <3>4, SMTT(30) DEF Refuse
    <2>2. Cardinality(handshakes \ slots)
            = Cardinality(handshakes) - Cardinality(handshakes \cap slots)
      BY <1>1, SlotsFinite, FS_Difference, Zenon DEF ServerIInv
    <2>3. /\ Cardinality(handshakes \cap slots) <= Cardinality(slots)
          /\ Cardinality(handshakes \cap slots) \in Nat
      BY Zenon, <1>1, SlotsFinite, FS_Subset, FS_CardinalityType DEF ServerIInv
    <2> QED
      BY <1>1, <2>1, <2>2, <2>3, SlotsFinite, PgServerAssumption DEF Full, ServerIInv, Limits
  <1>2. ServerIInv /\ [ServerNext]_serverVars =>
          [\A c \in Connections : where[c] = "none" /\ where'[c] = "refused" =>
             Cardinality(handshakes \ slots) >= Spare]_serverVars
    BY <1>1, Zenon
  <1> QED
    BY <1>2, ServerInitIInv, ServerNextIInv, PTL DEF ServerSpec, RoomToCancel
=============================================================================
