----------------------------- MODULE FaultRules -----------------------------
(***************************************************************************)
(* internal/config: which faults and selectors a rule of a validated       *)
(* configuration may have.  Every adapter relies on these rules: it reads  *)
(* the optional fields its action needs without looking whether they are   *)
(* there.  An optional field is the empty set, or the set of its value.    *)
(***************************************************************************)
EXTENDS Integers

BeforeUpstreamRequest == "before_upstream_request"
AfterUpstreamHeaders  == "after_upstream_headers"
AfterCommit           == "after_commit"
TCPOnConnect          == "on_connect"
TCPOnTransfer         == "on_transfer"

Http == {"http1", "http2", "grpc"}
Databases == {"postgresql", "mysql"}
Protocols == Http \cup Databases \cup {"tcp"}

\* A fault, and the fault without any field.
Fault ==
  [phase : STRING, action : STRING, direction : STRING, trigger : STRING,
   duration : SUBSET Int, maxDuration : SUBSET Int, status : SUBSET Int, body : SUBSET STRING,
   bytes : SUBSET Int, rate : SUBSET Int, afterBytes : SUBSET Int, afterDuration : SUBSET Int]

Blank ==
  [phase |-> "", action |-> "", direction |-> "", trigger |-> "",
   duration |-> {}, maxDuration |-> {}, status |-> {}, body |-> {},
   bytes |-> {}, rate |-> {}, afterBytes |-> {}, afterDuration |-> {}]

Given(field) == \E v \in field : TRUE
Positive(field) == Given(field) /\ \A v \in field : v > 0
NonNegative(field) == Given(field) /\ \A v \in field : v >= 0

Actions(protocol) ==
  UNION {
    IF protocol = "tcp" THEN {"close_connection", "hold", "throttle", "delay_connect"} ELSE {},
    IF protocol \in Databases THEN {"delay", "hold_response", "close_connection"} ELSE {},
    IF protocol \in Http THEN {"delay", "hold_request", "hold_response", "truncate", "throttle"} ELSE {},
    IF protocol \in {"http1", "http2"} THEN {"respond"} ELSE {},
    IF protocol = "http1" THEN {"close_connection"} ELSE {} }

\* Optional as the fields of a fault are; a probability is in percent.
Selector == [probability : SUBSET Int, nth : SUBSET Nat, every : SUBSET Nat]

\* Exactly one selector; a position or a period is positive.
validateSelector(s) ==
  /\ s.probability # {} => s.nth = {} /\ s.every = {}
  /\ s.nth # {} => s.every = {}
  /\ Given(s.probability) \/ Given(s.nth) \/ Given(s.every)
  /\ \A p \in s.probability : 0 <= p /\ p <= 100
  /\ \A n \in s.nth \cup s.every : n > 0

BodyActions == {"truncate", "throttle"}
Holds == {"hold_request", "hold_response"}

\* validateFault, for a fault that is applied at the phase.
validateFault(f, phase) ==
  /\ ~Given(f.afterBytes) /\ ~Given(f.afterDuration) /\ f.trigger = ""
  /\ phase \in {BeforeUpstreamRequest, AfterUpstreamHeaders}
  /\ f.action \in {"delay", "respond", "close_connection"} \cup Holds \cup BodyActions
  /\ f.action = "delay" => Positive(f.duration)
  /\ f.action = "respond" =>
       phase = BeforeUpstreamRequest /\ Given(f.status) /\ (\A s \in f.status : 200 <= s /\ s <= 599)
  /\ f.action = "hold_request" => phase = BeforeUpstreamRequest
  /\ f.action = "hold_response" => phase = AfterUpstreamHeaders
  /\ f.action \in Holds => Positive(f.maxDuration)
  /\ f.action \in BodyActions =>
       f.direction \in {"request", "response"} /\ (f.direction = "request" <=> phase = BeforeUpstreamRequest)
  /\ f.action = "truncate" => NonNegative(f.bytes)
  /\ f.action = "throttle" => Positive(f.rate)
  /\ f.direction # "" => f.action \in BodyActions
  /\ Given(f.bytes) => f.action = "truncate"
  /\ Given(f.rate) => f.action = "throttle"
  /\ Given(f.duration) => f.action = "delay"
  /\ Given(f.maxDuration) => f.action \in Holds
  /\ Given(f.status) \/ Given(f.body) => f.action = "respond"

tcpDirection(d) == d \in {"client_to_upstream", "upstream_to_client"}

validateTCPRule(f) ==
  /\ ~Given(f.status) /\ ~Given(f.body) /\ ~Given(f.bytes)
  /\ ~(Given(f.afterBytes) /\ Given(f.afterDuration))
  /\ Given(f.afterBytes) => NonNegative(f.afterBytes) /\ tcpDirection(f.trigger)
  /\ ~Given(f.afterBytes) => f.trigger = ""
  /\ Given(f.afterDuration) => Positive(f.afterDuration)
  /\ \/ /\ f.action = "delay_connect" /\ f.phase = TCPOnConnect /\ Positive(f.duration)
        /\ ~Given(f.afterBytes) /\ ~Given(f.afterDuration) /\ f.direction = ""
        /\ ~Given(f.maxDuration) /\ ~Given(f.rate)
     \/ /\ f.action = "close_connection" /\ f.phase = TCPOnTransfer /\ f.direction = ""
        /\ ~Given(f.duration) /\ ~Given(f.maxDuration) /\ ~Given(f.rate)
     \/ /\ f.action = "hold" /\ f.phase = TCPOnTransfer /\ tcpDirection(f.direction)
        /\ Positive(f.maxDuration) /\ ~Given(f.duration) /\ ~Given(f.rate)
     \/ /\ f.action = "throttle" /\ f.phase = TCPOnTransfer /\ tcpDirection(f.direction)
        /\ Positive(f.rate) /\ ~Given(f.duration) /\ ~Given(f.maxDuration)

\* A database rule reuses the validation of HTTP, with the phase replaced.
validateCommitRule(f) == f.phase = AfterCommit /\ validateFault(f, AfterUpstreamHeaders)

validate(protocol, f) ==
  /\ f.action \in Actions(protocol)
  /\ protocol \in Databases => validateCommitRule(f)
  /\ protocol = "tcp" => validateTCPRule(f)
  /\ protocol \in Http => validateFault(f, f.phase)

\* validateRule gives a respond without a body an empty one.
Body(f) == IF f.action = "respond" /\ ~Given(f.body) THEN {""} ELSE f.body

-----------------------------------------------------------------------------
(* What the adapters take for granted. *)

\* fault.Builtin, fault.Body and the hooks of the HTTP handler.
HttpReady(protocol, f) ==
  /\ f.phase \in {BeforeUpstreamRequest, AfterUpstreamHeaders}
  /\ f.action = "delay" => Positive(f.duration)
  /\ f.action = "respond" => Given(f.status) /\ Given(Body(f)) /\ f.phase = BeforeUpstreamRequest
  /\ f.action \in Holds => Positive(f.maxDuration)
  /\ f.action = "close_connection" => protocol = "http1"
  /\ f.action = "truncate" => NonNegative(f.bytes)
  /\ f.action = "throttle" => Positive(f.rate) /\ ~Given(f.bytes)
  /\ f.action \in BodyActions => (f.direction = "request" <=> f.phase = BeforeUpstreamRequest)
  /\ f.action \in BodyActions \cup Holds \cup {"delay", "respond", "close_connection"}

\* apply of the PostgreSQL and MySQL sessions: what its timer is set to.
CommitReady(f) ==
  /\ f.action # "close_connection" =>
       Positive(IF f.action = "hold_response" THEN f.maxDuration ELSE f.duration)
  /\ f.action \in {"delay", "hold_response", "close_connection"}

\* The controller of a TCP connection.
TcpReady(f) ==
  /\ f.phase = TCPOnConnect <=> f.action = "delay_connect"
  /\ f.action = "delay_connect" => Positive(f.duration)
  /\ f.action = "hold" => Positive(f.maxDuration)
  /\ f.action = "throttle" => Positive(f.rate)
  /\ f.action \in {"hold", "throttle"} => tcpDirection(f.direction)
  /\ Given(f.afterBytes) => tcpDirection(f.trigger) /\ ~Given(f.afterDuration) /\ f.phase = TCPOnTransfer

\* selectAttempt: it looks for nth, then for every, and dereferences probability otherwise;
\* it divides by the period.
SelectReady(s) ==
  /\ s.nth = {} /\ s.every = {} => Given(s.probability)
  /\ \A n \in s.every : n # 0
  /\ \A p \in s.probability : s.nth = {} /\ s.every = {}

Executable(protocol, f) ==
  /\ protocol \in Http => HttpReady(protocol, f)
  /\ protocol \in Databases => CommitReady(f)
  /\ protocol = "tcp" => TcpReady(f)
=============================================================================
