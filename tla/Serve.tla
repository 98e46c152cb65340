------------------------------- MODULE Serve -------------------------------
(***************************************************************************)
(* cmd/faultline/main.go, serve: the servers of one process from start to  *)
(* exit.  Starting a server defers its Close; a failed start, a signal or  *)
(* the failure of a listener runs what was deferred.  The connections of   *)
(* the servers, and the requests of the local admin socket, go on beside.  *)
(*                                                                         *)
(* What a flow does in between is the subject of the modules of the        *)
(* adapters.  Here it counts when it enters and leaves the wait group of   *)
(* its server, between which it records its events.                        *)
(***************************************************************************)
EXTENDS Naturals, FiniteSets, Sequences

CONSTANTS
  Conns,        \* connections and requests: pairs of a server and a number
  Admins,       \* requests of the local admin socket
  MaxFailures   \* bound on the listeners that fail by themselves

\* In the order they are started.
Servers == <<"http", "postgresql", "mysql", "tcp">>
Names == {"http", "postgresql", "mysql", "tcp"}

ASSUME ServeAssumption == (\A c \in Conns : c[1] \in Names) /\ "free" \notin Admins

VARIABLES
  managed,      \* a data directory is given: the HTTPS API runs, the socket is read-only
  pc,           \* main: "start", "ready", "unwind" or "exited"
  deferred,     \* the calls that main has still to make before it exits
  signal,       \* the context of main is done
  server,       \* each server: "none", "up", "draining", "closing" or "closed"
  loop,         \* its accept loop: "none", "run", "ended" or "failed"
  conn,         \* each connection: "none", "arrived", "running" or "gone"
  admin,        \* the admin socket: "none", "up", "failed" or "closed"
  request,      \* each admin request: "none", "waiting", "changed" or "done"
  mu,           \* who holds the mutex of the admin server
  version,      \* changes of the control service
  info,         \* what an admin request will record: the version, and whether it changed it
  open,         \* the recorder accepts events
  summary,      \* the shutdown event has been recorded
  log           \* history: the control events of the admin socket

main == <<managed, pc, deferred, signal>>
socket == <<admin, request, mu, version, info, log>>
vars == <<main, server, loop, conn, socket, open, summary>>

None == [version |-> 0, changed |-> FALSE]

Init ==
  /\ managed \in BOOLEAN /\ pc = "start" /\ signal = FALSE
  /\ deferred = <<"recorder">> \o (IF managed THEN <<"store">> ELSE <<>>)
  /\ server = [s \in Names |-> "none"] /\ loop = [s \in Names |-> "none"]
  /\ conn = [c \in Conns |-> "none"]
  /\ admin = "none" /\ request = [a \in Admins |-> "none"] /\ mu = "free" /\ version = 0
  /\ info = [a \in Admins |-> None]
  /\ open = TRUE /\ summary = FALSE /\ log = <<>>

Alive == pc # "exited"
Of(s) == {c \in Conns : c[1] = s}

-----------------------------------------------------------------------------
(* Start *)

\* The next server: bound, with its accept loop in the wait group, and its Close deferred.
StartServer(i) ==
  LET s == Servers[i] IN
  /\ pc = "start" /\ server[s] = "none" /\ \A j \in 1 .. i - 1 : server[Servers[j]] = "up"
  /\ server' = [server EXCEPT ![s] = "up"] /\ loop' = [loop EXCEPT ![s] = "run"]
  /\ deferred' = <<s>> \o deferred
  /\ UNCHANGED <<managed, pc, signal, conn, socket, open, summary>>

\* The shutdown in order: one deferred function.
Shutdown == <<"admin", "mysql", "tcp", "postgresql", "drain", "summary">>

StartAdmin ==
  /\ pc = "start" /\ admin = "none" /\ \A s \in Names : server[s] = "up"
  /\ admin' = "up" /\ deferred' = Shutdown \o deferred
  /\ pc' = IF managed THEN "start" ELSE "ready"
  /\ UNCHANGED <<managed, signal, server, loop, conn, request, mu, version, info, log, open, summary>>

StartManaged ==
  /\ pc = "start" /\ admin # "none" /\ pc' = "ready" /\ deferred' = <<"api">> \o deferred
  /\ UNCHANGED <<managed, signal, server, loop, conn, socket, open, summary>>

\* A server cannot be started: serve returns the error.
StartFails ==
  /\ pc = "start" /\ pc' = "unwind"
  /\ UNCHANGED <<managed, deferred, signal, server, loop, conn, socket, open, summary>>

Signal ==
  /\ Alive /\ ~signal /\ signal' = TRUE
  /\ UNCHANGED <<managed, pc, deferred, server, loop, conn, socket, open, summary>>

Failed == admin = "failed" \/ \E s \in Names : loop[s] = "failed"

Stop ==
  /\ pc = "ready" /\ (signal \/ Failed) /\ pc' = "unwind"
  /\ UNCHANGED <<managed, deferred, signal, server, loop, conn, socket, open, summary>>

-----------------------------------------------------------------------------
(* The deferred calls *)

Call(name) == pc = "unwind" /\ deferred # <<>> /\ Head(deferred) = name
Return == deferred' = Tail(deferred) /\ UNCHANGED <<managed, pc, signal>>

\* The wait group of a server: its accept loop and the connections it has entered.
Waits(s) == loop[s] = "run" \/ \E c \in Of(s) : conn[c] = "running"

\* Close: flows are cancelled and listeners closed, then all of them are waited for; a
\* second call returns at once.
CloseBegins(s) ==
  /\ Call(s) /\ server[s] = "up" /\ server' = [server EXCEPT ![s] = "closing"]
  /\ UNCHANGED <<main, loop, conn, socket, open, summary>>

CloseEnds(s) ==
  /\ Call(s) \/ (s = "http" /\ Call("drain"))
  /\ server[s] = "closing" /\ ~Waits(s) /\ server' = [server EXCEPT ![s] = "closed"] /\ Return
  /\ UNCHANGED <<loop, conn, socket, open, summary>>

CloseAgain(s) ==
  /\ Call(s) /\ server[s] = "closed" /\ Return
  /\ UNCHANGED <<server, loop, conn, socket, open, summary>>

\* Shutdown of the HTTP server: new requests are turned away and the others have five
\* seconds before Close.
DrainBegins ==
  /\ Call("drain") /\ server["http"] = "up" /\ server' = [server EXCEPT !["http"] = "draining"]
  /\ UNCHANGED <<main, loop, conn, socket, open, summary>>

\* Mutant: the drain has no time limit.
Idle == \A c \in Of("http") : conn[c] # "running"
\* The drain ends when the server is idle or the time is over.
Drained == TRUE

DrainEnds ==
  /\ server["http"] = "draining" /\ Drained /\ server' = [server EXCEPT !["http"] = "closing"]
  /\ UNCHANGED <<main, loop, conn, socket, open, summary>>

CloseAdmin ==
  /\ Call("admin") /\ admin' = "closed" /\ Return
  /\ UNCHANGED <<server, loop, conn, request, mu, version, info, log, open, summary>>

RecordSummary ==
  /\ Call("summary") /\ summary' = TRUE /\ Return
  /\ UNCHANGED <<server, loop, conn, socket, open>>

CloseRecorder ==
  /\ Call("recorder") /\ open' = FALSE /\ Return
  /\ UNCHANGED <<server, loop, conn, socket, summary>>

\* managed.Close and store.Close: see Managed.
CloseManaged ==
  /\ Call("api") \/ Call("store")
  /\ Return /\ UNCHANGED <<server, loop, conn, socket, open, summary>>

Exit ==
  /\ pc = "unwind" /\ deferred = <<>> /\ pc' = "exited"
  /\ UNCHANGED <<managed, deferred, signal, server, loop, conn, socket, open, summary>>

-----------------------------------------------------------------------------
(* Connections *)

Goes(c, from, to) ==
  /\ Alive /\ conn[c] = from /\ conn' = [conn EXCEPT ![c] = to]
  /\ UNCHANGED <<main, server, loop, socket, open, summary>>

\* Accept returns a connection; a request comes on a connection of the HTTP server, which
\* may be an old one.
Arrive(c) ==
  /\ server[c[1]] \in IF c[1] = "http" THEN {"up", "draining"} ELSE {"up"}
  /\ loop[c[1]] = "run" \/ c[1] = "http"
  /\ Goes(c, "none", "arrived")

\* Mutant: requests are counted whether the server is closing or not.
TracksAlways == TRUE
\* track: a request is turned away once closing is set.
Tracks == server["http"] = "up"

\* track counts the request; the accept loop of a database or TCP server counts the connection.
Enter(c) == (c[1] = "http" => Tracks) /\ Goes(c, "arrived", "running")

\* The server is closing, or has no place for the connection.
TurnAway(c) == (c[1] = "http" => ~Tracks) /\ Goes(c, "arrived", "gone")

\* serve or ServeHTTP returns, with the last event of its last flow recorded.
Leave(c) == Goes(c, "running", "gone")

\* Accept fails: because the listener was closed, or by itself.  A connection that Accept
\* has returned is dealt with first.
LoopEnds(s) ==
  /\ Alive /\ loop[s] = "run" /\ (s # "http" => \A c \in Of(s) : conn[c] # "arrived")
  /\ server[s] = "up" => Cardinality({t \in Names : loop[t] = "failed"}) < MaxFailures
  /\ loop' = [loop EXCEPT ![s] = IF server[s] = "up" THEN "failed" ELSE "ended"]
  /\ UNCHANGED <<main, server, conn, socket, open, summary>>

-----------------------------------------------------------------------------
(* The admin socket *)

SocketFails ==
  /\ Alive /\ admin = "up" /\ admin' = "failed"
  /\ UNCHANGED <<main, server, loop, conn, request, mu, version, info, log, open, summary>>

AdminArrives(a) ==
  /\ Alive /\ admin = "up" /\ request[a] = "none" /\ request' = [request EXCEPT ![a] = "waiting"]
  /\ UNCHANGED <<main, server, loop, conn, admin, mu, version, info, log, open, summary>>

\* Refused before the mutex is taken, or, with it, because the context is done.
AdminRefused(a) ==
  /\ Alive /\ request[a] = "waiting" /\ request' = [request EXCEPT ![a] = "done"]
  /\ UNCHANGED <<main, server, loop, conn, admin, mu, version, info, log, open, summary>>

\* Mutant: the mutex covers the change only.
Unlocks(a) == UNCHANGED mu
\* The mutex is kept until the event is recorded.
Locks(a) == mu' = a

\* status, reload, enable or disable; a reload may be rejected, and none of them need
\* change anything.  The socket of a managed process only has status.
AdminChanges(a) ==
  /\ Alive /\ request[a] = "waiting" /\ mu = "free" /\ Locks(a)
  /\ version' \in {version} \cup (IF managed THEN {} ELSE {version + 1})
  /\ info' = [info EXCEPT ![a] = [version |-> version', changed |-> version' # version]]
  /\ request' = [request EXCEPT ![a] = "changed"]
  /\ UNCHANGED <<main, server, loop, conn, admin, log, open, summary>>

\* The recorder drops what comes after its Close.
AdminRecords(a) ==
  /\ Alive /\ request[a] = "changed" /\ mu' = "free"
  /\ log' = (IF open THEN Append(log, info[a]) ELSE log) /\ info' = [info EXCEPT ![a] = None]
  /\ request' = [request EXCEPT ![a] = "done"]
  /\ UNCHANGED <<main, server, loop, conn, admin, version, open, summary>>

-----------------------------------------------------------------------------
MainStep ==
  \/ \E i \in 1 .. Len(Servers) : StartServer(i)
  \/ StartAdmin \/ StartManaged \/ Stop
  \/ \E s \in Names : CloseBegins(s) \/ CloseEnds(s) \/ CloseAgain(s)
  \/ DrainBegins \/ DrainEnds \/ CloseAdmin \/ RecordSummary \/ CloseRecorder \/ CloseManaged \/ Exit

Next ==
  \/ MainStep \/ StartFails \/ Signal \/ SocketFails
  \/ \E c \in Conns : Arrive(c) \/ Enter(c) \/ TurnAway(c) \/ Leave(c)
  \/ \E s \in Names : LoopEnds(s)
  \/ \E a \in Admins : AdminArrives(a) \/ AdminRefused(a) \/ AdminChanges(a) \/ AdminRecords(a)
  \/ ~Alive /\ UNCHANGED vars

\* Goroutines run; a closed listener returns from Accept; and a flow ends once its server
\* has cancelled it, which is what ExchangeEnds, ConnectionEnds and SessionEnds say.
Spec ==
  /\ Init /\ [][Next]_vars /\ WF_vars(MainStep)
  /\ \A s \in Names : WF_vars(server[s] # "up" /\ LoopEnds(s))
  /\ \A c \in Conns :
       WF_vars(Enter(c) \/ TurnAway(c)) /\ WF_vars(server[c[1]] = "closing" /\ Leave(c))

-----------------------------------------------------------------------------
\* The shutdown summary counts every flow, and no event of a flow comes after it or after
\* the recorder is closed: at that point no connection is being served and none will be,
\* however late its goroutine runs; and serve returns with every server closed that it
\* started, also when a later one could not be started.
FlowsBeforeSummary ==
  /\ summary \/ ~open => \A c \in Conns : conn[c] # "running"
  /\ pc = "exited" => \A s \in Names : server[s] \in {"none", "closed"}

\* The control events of the admin socket tell the history of the service: in the order
\* of the changes, and every change once, but for one that is being made.
ControlEventsOrdered ==
  LET Told(v, n) == \E i \in 1 .. n : log[i].changed /\ log[i].version = v IN
  /\ \A i, j \in 1 .. Len(log) : i < j =>
       log[i].version <= log[j].version /\ (log[j].changed => log[i].version < log[j].version)
  /\ \A i \in 1 .. Len(log) : log[i].version <= version /\ \A v \in 1 .. log[i].version : Told(v, i)
  /\ open /\ (\A a \in Admins : request[a] # "changed") => \A v \in 1 .. version : Told(v, Len(log))

\* A signal, or a listener that fails, ends the process, whatever the clients do.
ShutdownEnds == (signal \/ Failed) ~> (pc = "exited")
=============================================================================
