------------------------------ MODULE PgServer ------------------------------
(***************************************************************************)
(* internal/proxy/postgresql: the server around its sessions.  Every       *)
(* connection is served by its own goroutine, from the startup packet      *)
(* through SSLRequest, CancelRequest, the session slot, the upstream and   *)
(* SCRAM to the exchange of frames (PgExchange), which is one step here    *)
(* that lasts for as long as it likes.                                     *)
(*                                                                         *)
(* What a peer sends, and when, is arbitrary; packets are what the code    *)
(* tells apart.                                                            *)
(***************************************************************************)
EXTENDS Integers, FiniteSets

CONSTANTS
  Connections,  \* connections that clients may make
  Endpoints,    \* listeners
  TLSEndpoints, \* the ones that require TLS
  MaxInflight,  \* runtime.max_inflight_requests
  Spare         \* handshakes beyond it (16)

ASSUME PgServerAssumption ==
  /\ MaxInflight \in Nat \ {0} /\ Spare \in Nat \ {0}
  /\ TLSEndpoints \subseteq Endpoints /\ IsFiniteSet(Connections)

VARIABLES
  where,        \* each connection: where its goroutine is
  at,           \* its endpoint
  secure,       \* connections whose client leg is TLS
  stage,        \* SCRAM messages it has relayed
  asked,        \* the session a cancel request was looked up for, or the connection itself
  cancelled,    \* connections whose context is done
  handshakes,   \* connections that hold a place in Server.handshakes
  slots,        \* connections that hold a place in Server.slots
  cancels,      \* connections with an entry in Server.cancels
  listening,    \* endpoints whose accept loop runs
  serverState   \* "open", "closing" once Close has cancelled, or "closed"

serverVars ==
  <<where, at, secure, stage, asked, cancelled, handshakes, slots, cancels, listening, serverState>>

ServerInit ==
  /\ where = [c \in Connections |-> "none"]
  /\ at \in [Connections -> Endpoints]
  /\ secure = {} /\ cancelled = {} /\ handshakes = {} /\ slots = {} /\ cancels = {}
  /\ listening = Endpoints
  /\ stage = [c \in Connections |-> 0]
  /\ asked = [c \in Connections |-> c]
  /\ serverState = "open"

Go(c, from, to) == where[c] = from /\ where' = [where EXCEPT ![c] = to]

-----------------------------------------------------------------------------
(* accept *)

\* Mutant: connections that have not started a session share its limit.
FullAtSessions == Cardinality(handshakes) >= MaxInflight
Full == Cardinality(handshakes) >= MaxInflight + Spare

Accept(c) ==
  /\ at[c] \in listening /\ ~Full
  /\ Go(c, "none", "startup")
  /\ handshakes' = handshakes \cup {c}
  /\ UNCHANGED <<at, secure, stage, asked, cancelled, slots, cancels, listening, serverState>>

Refuse(c) ==
  /\ at[c] \in listening /\ Full
  /\ Go(c, "none", "refused")
  /\ UNCHANGED <<at, secure, stage, asked, cancelled, handshakes, slots, cancels, listening, serverState>>

\* Accept fails: the listener broke, or was closed by Close.  Until then a connection may
\* still come in, with a context that is done already.
StopListening(e) ==
  /\ e \in listening /\ listening' = listening \ {e}
  /\ UNCHANGED <<where, at, secure, stage, asked, cancelled, handshakes, slots, cancels, serverState>>

-----------------------------------------------------------------------------
(* serve *)

\* SSLRequest: answered N, or S and a handshake; then the next packet is read.
SSLRequest(c) ==
  /\ Go(c, "startup", "request")
  /\ secure' = IF at[c] \in TLSEndpoints THEN secure \cup {c} ELSE secure
  /\ UNCHANGED <<at, stage, asked, cancelled, handshakes, slots, cancels, listening, serverState>>

Waiting(c) == where[c] \in {"startup", "request"}

Known(c, k) == k \in cancels /\ at[k] = at[c]

\* CancelRequest with the key of session k: its cancel function is taken under the lock.
CancelRequest(c, k) ==
  /\ Waiting(c) /\ Known(c, k)
  /\ where' = [where EXCEPT ![c] = "cancel"]
  /\ asked' = [asked EXCEPT ![c] = k]
  /\ UNCHANGED <<at, secure, stage, cancelled, handshakes, slots, cancels, listening, serverState>>

\* Mutant: only the database is told.
NotStopped(c) == cancelled
Stopped(c) == cancelled \cup {asked[c]}

\* The function cancels the session, then tells the database, over a connection of its
\* own and for as long as the request timeout at most.
Cancel(c) ==
  /\ Go(c, "cancel", "tell")
  /\ cancelled' = Stopped(c)
  /\ UNCHANGED <<at, secure, stage, asked, handshakes, slots, cancels, listening, serverState>>

cancelBackend(c) ==
  /\ Go(c, "tell", "leave")
  /\ UNCHANGED <<at, secure, stage, asked, cancelled, handshakes, slots, cancels, listening, serverState>>

Private(c) == at[c] \in TLSEndpoints => c \in secure

FreeSlot == Cardinality(slots) < MaxInflight

StartSession(c) ==
  /\ Waiting(c) /\ Private(c) /\ FreeSlot
  /\ where' = [where EXCEPT ![c] = "connect"]
  /\ slots' = slots \cup {c}
  /\ UNCHANGED <<at, secure, stage, asked, cancelled, handshakes, cancels, listening, serverState>>

\* connectUpstream, and the startup packet written to it.
Connect(c) ==
  /\ c \notin cancelled /\ Go(c, "connect", "authenticate")
  /\ UNCHANGED <<at, secure, stage, asked, cancelled, handshakes, slots, cancels, listening, serverState>>

\* authenticate relays the SCRAM messages of the database in their order, with the
\* client's answer to the first two.
Scram(c) ==
  /\ Go(c, "authenticate", "authenticate") /\ stage[c] < 4
  /\ stage' = [stage EXCEPT ![c] = @ + 1]
  /\ UNCHANGED <<at, secure, asked, cancelled, handshakes, slots, cancels, listening, serverState>>

\* BackendKeyData: the client gets a key of the proxy's own; a second one is an error.
register(c) ==
  /\ Go(c, "authenticate", "authenticate") /\ c \notin cancels
  /\ cancels' = cancels \cup {c}
  /\ UNCHANGED <<at, secure, stage, asked, cancelled, handshakes, slots, listening, serverState>>

\* Mutant: ReadyForQuery is believed before authentication is over.
Trusted(c) == TRUE
Authenticated(c) == stage[c] = 4

Ready(c) ==
  /\ Go(c, "authenticate", "exchange") /\ Authenticated(c)
  /\ UNCHANGED <<at, secure, stage, asked, cancelled, handshakes, slots, cancels, listening, serverState>>

\* Any read, write, dial or handshake may fail, a packet may be malformed or refused, the
\* session may end: serve returns.
ServeReturns(c) ==
  /\ where[c] \in {"startup", "request", "connect", "authenticate", "exchange"}
  /\ where' = [where EXCEPT ![c] = "leave"]
  /\ UNCHANGED <<at, secure, stage, asked, cancelled, handshakes, slots, cancels, listening, serverState>>

\* Mutant: a session that ends before its exchange leaves its key behind.
CleanedAfterExchange(c) == IF stage[c] = 4 THEN cancels \ {c} ELSE cancels
Cleaned(c) == cancels \ {c}

\* The deferred calls of serve, the last deferred first: the key, then the slot.
Cleanup(c) ==
  /\ Go(c, "leave", "release")
  /\ cancels' = Cleaned(c)
  /\ UNCHANGED <<at, secure, stage, asked, cancelled, handshakes, slots, listening, serverState>>

Release(c) ==
  /\ Go(c, "release", "cancelled")
  /\ slots' = slots \ {c}
  /\ UNCHANGED <<at, secure, stage, asked, cancelled, handshakes, cancels, listening, serverState>>

Depart(c) ==
  /\ Go(c, "cancelled", "done")
  /\ cancelled' = cancelled \cup {c}
  /\ handshakes' = handshakes \ {c}
  /\ UNCHANGED <<at, secure, stage, asked, slots, cancels, listening, serverState>>

-----------------------------------------------------------------------------
(* Close *)

\* Mutant: the sessions go on.
NewOnes == Connections \ slots
Everyone == Connections

CloseBegin ==
  /\ serverState = "open" /\ serverState' = "closing"
  /\ cancelled' = Everyone
  /\ UNCHANGED <<where, at, secure, stage, asked, handshakes, slots, cancels, listening>>

\* Mutant: Close does not wait for the goroutines of the connections.
NotWaited == TRUE
Waited == handshakes = {} /\ listening = {}

CloseEnd ==
  /\ serverState = "closing" /\ Waited /\ serverState' = "closed"
  /\ UNCHANGED <<where, at, secure, stage, asked, cancelled, handshakes, slots, cancels, listening>>

Serve(c) ==
  \/ SSLRequest(c) \/ (\E k \in Connections : CancelRequest(c, k)) \/ Cancel(c) \/ cancelBackend(c)
  \/ StartSession(c) \/ Connect(c) \/ Scram(c) \/ register(c) \/ Ready(c)
  \/ ServeReturns(c) \/ Cleanup(c) \/ Release(c) \/ Depart(c)

Closed == serverState = "closed" /\ UNCHANGED serverVars

ServerNext ==
  \/ \E c \in Connections : Accept(c) \/ Refuse(c) \/ Serve(c)
  \/ \E e \in Endpoints : StopListening(e)
  \/ CloseBegin \/ CloseEnd \/ Closed

ServerSpec == ServerInit /\ [][ServerNext]_serverVars

\* A connection whose context is done is closed, so that serve returns; its deferred calls
\* run; the connection to tell the database has a timeout; a closed listener accepts no more.
ServerFairSpec ==
  /\ ServerSpec /\ WF_serverVars(CloseEnd)
  /\ \A e \in Endpoints : WF_serverVars(serverState = "closing" /\ StopListening(e))
  /\ \A c \in Connections :
       /\ WF_serverVars(c \in cancelled /\ ServeReturns(c))
       /\ WF_serverVars(Cancel(c) \/ cancelBackend(c) \/ Cleanup(c) \/ Release(c) \/ Depart(c))

-----------------------------------------------------------------------------
(* Properties *)

\* Frames are exchanged only by a client that the database has authenticated to the end,
\* over TLS where the listener requires it, and that holds one of the session slots, of
\* which there are max_inflight_requests.  Server.cancels never keeps the key of a session
\* that has ended, however it ended: a key is gone before its slot is free for the next one.
SessionsGuarded ==
  /\ Cardinality(slots) <= MaxInflight
  /\ \A c \in Connections : where[c] = "exchange" => stage[c] = 4 /\ c \in slots /\ Private(c)
  /\ \A c \in cancels : c \in slots /\ where[c] \in {"authenticate", "exchange", "leave"}

\* Sessions alone cannot keep a cancel request out: a connection is only turned away while
\* as many others as the spare handshakes hold no session slot.
RoomToCancel ==
  [][\A c \in Connections : where[c] = "none" /\ where'[c] = "refused" =>
       Cardinality(handshakes \ slots) >= Spare]_serverVars

\* When Close has returned, no goroutine of a connection is left, nor anything it held.
NothingLeft ==
  serverState = "closed" =>
    /\ \A c \in Connections : where[c] \in {"none", "refused", "done"}
    /\ slots = {} /\ cancels = {}

\* A valid cancel request ends its session, whatever that is doing, and Close returns.
CancelAndCloseWork ==
  /\ \A k \in Connections :
       (\E c \in Connections : where[c] = "cancel" /\ asked[c] = k) ~> where[k] = "done"
  /\ (serverState = "closing") ~> (serverState = "closed")
=============================================================================
