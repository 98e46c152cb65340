---------------------------- MODULE GrpcTimeout ----------------------------
(***************************************************************************)
(* internal/proxy/grpc/protocol.go: the deadline of an RPC as the client   *)
(* sends it and as the proxy passes it on.  A header is a number of at     *)
(* most eight digits and a unit; a duration is in nanoseconds.  The        *)
(* longest duration, 1<<63 - 1, is a parameter here: tlapm computes with   *)
(* numerals of 63 bits, so that a numeral this large, or a product that    *)
(* reaches it, would not mean in a proof what it means in TLA+.            *)
(***************************************************************************)
EXTENDS Integers

Hour == 3600000000000
MaxNumber == 99999999

\* n, u, m, S, M and H.
Units == {1, 1000, 1000000, 1000000000, 60000000000, Hour}

\* What the proofs use of 1<<63 - 1: it is 2562047 hours and a fraction.
IsMaxDuration(max) == max \in Nat /\ max \div Hour = 2562047

Header == [number : 0 .. MaxNumber, unit : Units]

\* What the client's header says; more than a Duration can hold is the longest one.
Timeout(h, max) ==
  IF h.number > max \div h.unit THEN max ELSE h.number * h.unit

AtLeastOne(d) == IF d < 1 THEN 1 ELSE d

\* A duration in a unit, rounded up.
RoundedUp(d, unit) == d \div unit + (IF d % unit = 0 THEN 0 ELSE 1)

\* The first unit in which the number has eight digits at most.
Chosen(d, unit) ==
  /\ RoundedUp(d, unit) <= MaxNumber
  /\ \A u \in Units : u < unit => RoundedUp(d, u) > MaxNumber

\* The header that TimeoutHeader writes.
IsTimeoutHeader(duration, h) ==
  /\ h.unit \in Units /\ Chosen(AtLeastOne(duration), h.unit)
  /\ h.number = RoundedUp(AtLeastOne(duration), h.unit)
============================================================================
