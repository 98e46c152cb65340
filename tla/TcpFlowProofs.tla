--------------------------- MODULE TcpFlowProofs ---------------------------
(***************************************************************************)
(* BytesConserved and FaultExact of TcpFlow, and its refinement of         *)
(* FlowEvents, for any faults, any sizes of the buffers and any number of  *)
(* bytes.                                                                  *)
(*                                                                         *)
(* Bytes are conserved because a pump reads only with nothing left to      *)
(* write, and writes no more than it has read (Bytes).  A fault is exact   *)
(* because only the pump of the trigger's direction can reach a byte       *)
(* trigger, in a write that ends at it, and stands still while it          *)
(* activates the fault (Cut, Held).                                        *)
(*                                                                         *)
(* The events come in order because whoever first takes the mutex of       *)
(* activate is the only one to go through it (Once), so that the log is    *)
(* determined by where serve is and by the applied flag (Story).           *)
(***************************************************************************)
EXTENDS TcpFlow, TLAPS

Places == {"idle", "check", "held", "read", "got", "write", "trigger", "wrote", "done"}
Empty == {"idle", "check", "held", "read"}
Early == {"accepted", "started", "delay", "dial", "activate", "forward"}

Types ==
  /\ fault \in Faults /\ prefetched \in Nat
  /\ pump \in [Directions -> Places]
  /\ payload \in [Directions -> Nat] /\ chunk \in [Directions -> Nat]
  /\ count \in [Directions -> Nat] /\ taken \in [Directions -> Nat]
  /\ dropped \in [Directions -> Nat] /\ late \in [Directions -> Nat]

\* Where the one who is in activate stands.
Lock ==
  /\ mu \in {"free"} \cup Callers
  /\ mu \in Directions => pump[mu] = "trigger"
  /\ mu = "serve" => pc = "activate"
  /\ mu = "timer" => timer = "fired"
  /\ mu # "free" => active

BytesAt(d) ==
  /\ taken[d] = count[d] + payload[d] + dropped[d] + Buffered(d)
  /\ dropped[d] > 0 => Blocked(d)
  /\ pump[d] \in Empty => payload[d] = 0
  /\ pump[d] = "write" => chunk[d] <= payload[d]
  /\ pc \in Early => pump[d] = "idle" /\ count[d] = 0 /\ dropped[d] = 0

Bytes == prefetched <= PrefetchSize /\ \A d \in Directions : BytesAt(d)

\* Who may activate the fault, and what is known once it is active.
Dialled == pc \notin {"accepted", "started", "delay", "dial"}
Finishing == pc \in {"finish", "finished", "ended"}

Callable ==
  /\ timer # "off" => Controlled /\ fault.trigger = "duration" /\ Dialled
  /\ pc = "activate" => AtOnce
  /\ \A d \in Directions : pump[d] = "trigger" => Triggers(d) /\ count[d] >= fault.afterBytes
  /\ finished => \A d \in Directions : pump[d] = "done"
  /\ pc = "stop" => \A d \in Directions : pump[d] = "done"
  /\ Finishing => \A d \in Directions : pump[d] \in {"idle", "done"}
  /\ Finishing => finished \/ timer = "off"

Told ==
  /\ active \in BOOLEAN
  /\ active => Controlled /\ Dialled
  /\ active /\ mu = "free" => applied
  /\ active /\ Finishing => applied
  /\ outcome \in {"forwarded", "client_closed", "dial_error"} \/ active

\* A byte trigger in direction d that is not reached at once.
Ahead(d) == Triggers(d) /\ fault.afterBytes > 0

\* The pump of the direction stops at the trigger.
CutAt(d) ==
  Ahead(d) /\ ~active =>
    /\ count[d] <= fault.afterBytes
    /\ pump[d] \in Empty \cup {"got", "wrote"} => count[d] < fault.afterBytes
    /\ pump[d] = "write" => count[d] + chunk[d] <= fault.afterBytes

\* Where a pump is that writes no more once its direction is held.
After == {"trigger", "wrote", "check", "held", "done"}

HeldAt(d) ==
  /\ Ahead(d) /\ active /\ fault.action = "close_connection" =>
       /\ count[d] = fault.afterBytes
       /\ (mu = d /\ pump[d] = "trigger") \/ conn[Dst(d)] # "open"
  /\ fault.action = "hold" /\ fault.direction = d =>
       /\ Ahead(d) /\ active => count[d] = fault.afterBytes /\ pump[d] \in After
       /\ ~active => late[d] = 0
       /\ late[d] = 0 \/ (late[d] = 1 /\ pump[d] \in After)

Cut == \A d \in Directions : CutAt(d)
Held == \A d \in Directions : HeldAt(d)

IInv == Types /\ Lock /\ Bytes /\ Callable /\ Told /\ Cut /\ Held

-----------------------------------------------------------------------------
(* The helpers *)

LEMMA LeastOf ==
  ASSUME NEW a \in Int, NEW b \in Int, NEW c \in Int, NEW S, a \in S,
         \A y \in S : y = a \/ y = b \/ y = c
  PROVE  Least(S) \in S /\ \A y \in S : Least(S) <= y
  <1>1. \E x \in S : \A y \in S : x <= y
    <2>1. CASE b \in S /\ c \in S
      BY <2>1
    <2>2. CASE b \in S /\ c \notin S
      BY <2>2
    <2>3. CASE b \notin S /\ c \in S
      BY <2>3
    <2>4. CASE b \notin S /\ c \notin S
      BY <2>4
    <2> QED
      BY <2>1, <2>2, <2>3, <2>4
  <1> QED
    BY <1>1, Zenon DEF Least

\* A write moves bytes from what is to be written to what was.
LEMMA Shift ==
  ASSUME NEW c \in Nat, NEW p \in Nat, NEW r \in Nat, NEW b \in Nat, NEW n \in Nat, n <= p
  PROVE  /\ c + p + r + b = (c + n) + (p - n) + r + b
         /\ c + n \in Nat /\ p - n \in Nat
  OBVIOUS

LEMMA Moved ==
  ASSUME NEW c \in Nat, NEW p \in Nat, NEW r \in Nat, NEW b \in Nat
  PROVE  c + p + r + b = c + 0 + (r + p) + b
  OBVIOUS

LEMMA StopsAt ==
  ASSUME NEW c \in Nat, NEW k \in Nat, NEW a \in Nat, NEW n \in Nat, n <= k, c + k <= a
  PROVE  c + n <= a /\ (~(c + n >= a) => c + n < a)
  OBVIOUS

\* What is known of the fault that was decided.
LEMMA FaultType ==
  ASSUME Types
  PROVE  fault.afterBytes \in Nat /\ IsFault(fault) /\ ReadSize \in Nat /\ ReadSize > 0
         /\ ThrottleSize \in Nat /\ PrefetchSize \in Nat
  BY TcpAssumption DEF Types, IsFault

\* A chunk is part of the payload, and stops at a byte trigger that is still ahead.
LEMMA ChunkFits ==
  ASSUME Types, NEW d \in Directions
  PROVE  /\ ChunkLength(d) \in Nat /\ ChunkLength(d) <= payload[d]
         /\ Triggers(d) /\ ~active /\ count[d] < fault.afterBytes
              => count[d] + ChunkLength(d) <= fault.afterBytes
  <1> DEFINE a == payload[d]
             b == fault.afterBytes - count[d]
             c == ThrottleSize
             P == Triggers(d) /\ ~active /\ b > 0
             Q == fault.action = "throttle"
             S == {a} \cup {n \in {b} : P} \cup {n \in {c} : Q}
  <1>1. a \in Nat /\ b \in Int /\ c \in Nat /\ count[d] \in Nat /\ fault.afterBytes \in Nat
    BY FaultType DEF Types
  <1>2. {n \in {b} : Triggers(d) /\ ~active /\ n > 0} = {n \in {b} : P}
    OBVIOUS
  <1>3. ChunkLength(d) = Least(S)
    BY <1>2 DEF ChunkLength
  <1> HIDE DEF a, b, c, P, Q
  <1>4. /\ a \in S /\ \A y \in S : y = a \/ (y = b /\ P) \/ y = c
        /\ P => b \in S
    OBVIOUS
  <1> HIDE DEF S
  <1>5. Least(S) \in S /\ \A y \in S : Least(S) <= y
    <2>1. a \in Int /\ c \in Int /\ \A y \in S : y = a \/ y = b \/ y = c
      BY <1>1, <1>4
    <2> QED
      BY <1>1, <1>4, <2>1, LeastOf, Zenon
  <1>6. Least(S) \in Nat /\ Least(S) <= a
    <2>1. P => b \in Nat
      BY <1>1 DEF P
    <2> QED
      BY <1>1, <1>4, <1>5, <2>1, Zenon
  <1>7. P => Least(S) <= b
    BY <1>4, <1>5
  <1>8. ASSUME Triggers(d) /\ ~active /\ count[d] < fault.afterBytes
        PROVE  P
    BY <1>1, <1>8 DEF P, b
  <1> QED
    BY <1>1, <1>3, <1>6, <1>7, <1>8 DEF a, b

-----------------------------------------------------------------------------
LEMMA TcpInit == Init => IInv
  <1> SUFFICES ASSUME Init
               PROVE  IInv
    OBVIOUS
  <1> USE DEF Init, Zero
  <1>1. Types
    BY DEF Types, Places
  <1>2. Lock
    BY DEF Lock, Callers, Directions
  <1>3. Bytes
    BY FaultType, <1>1 DEF Bytes, BytesAt, Buffered
  <1>4. Callable /\ Told
    BY Zenon DEF Callable, Told, Finishing, Dialled
  <1>5. Cut /\ Held
    BY FaultType, <1>1 DEF Cut, CutAt, Held, HeldAt, Ahead
  <1> QED
    BY <1>1, <1>2, <1>3, <1>4, <1>5 DEF IInv

\* Steps that leave the pumps, their data and the lock alone.
LEMMA Aside ==
  ASSUME IInv, UNCHANGED <<fault, prefetched, mu, active, pump, data>>,
         pc' \in Early => pc \in Early,
         \A e \in Ends : conn'[e] = "open" => conn[e] = "open" \/ ~Dialled,
         mu = "serve" => pc' = "activate", mu = "timer" => timer' = "fired",
         Callable', Told'
  PROVE  IInv'
  <1> USE DEF data
  <1>1. Types' /\ Lock'
    BY DEF IInv, Types, Lock
  <1>2. \A d \in Directions : BytesAt(d)'
    BY DEF IInv, Bytes, BytesAt, Buffered, Blocked
  <1>3. \A d \in Directions : CutAt(d)'
    BY DEF IInv, Cut, CutAt, Ahead, Triggers, Controlled
  <1>4. \A d \in Directions : HeldAt(d)'
    <2>1. \A d \in Directions : Dst(d) \in Ends
      BY DEF Dst, Ends
    <2>2. active => Dialled
      BY DEF IInv, Told
    <2> QED
      BY <2>1, <2>2 DEF IInv, Held, HeldAt, Ahead, Triggers, Controlled
  <1>5. prefetched' <= PrefetchSize
    BY DEF IInv, Bytes
  <1> QED
    BY <1>1, <1>2, <1>3, <1>4, <1>5 DEF IInv, Bytes, Cut, Held

\* A pump goes from one place to another.
LEMMA PumpMoves ==
  ASSUME IInv, NEW d \in Directions, NEW to \in Places, to # "idle",
         pump[d] \notin {"idle", "done", "trigger"}, pump' = [pump EXCEPT ![d] = to],
         UNCHANGED <<fault, pc, conn, controller, applied, outcome>>,
         Types', prefetched' <= PrefetchSize,
         \A e \in Directions \ {d} :
           /\ payload'[e] = payload[e] /\ chunk'[e] = chunk[e] /\ count'[e] = count[e]
           /\ taken'[e] = taken[e] /\ dropped'[e] = dropped[e] /\ late'[e] = late[e]
           /\ Buffered(e)' = Buffered(e),
         BytesAt(d)', CutAt(d)', HeldAt(d)',
         to = "trigger" => Triggers(d) /\ count'[d] >= fault.afterBytes
  PROVE  IInv'
  <1> USE DEF controller
  <1>1. \A e \in Directions \ {d} : pump'[e] = pump[e]
    BY DEF IInv, Types
  <1>2. pump'[d] = to
    BY DEF IInv, Types
  <1>3. Lock'
    BY <1>1 DEF IInv, Lock
  <1>4. \A e \in Directions \ {d} : BytesAt(e)'
    BY <1>1 DEF IInv, Bytes, BytesAt, Blocked
  <1>5. \A e \in Directions \ {d} : CutAt(e)'
    BY <1>1 DEF IInv, Cut, CutAt, Ahead, Triggers, Controlled
  <1>6. \A e \in Directions \ {d} : HeldAt(e)'
    BY <1>1 DEF IInv, Held, HeldAt, Ahead, Triggers, Controlled
  <1>7. Callable'
    BY <1>1, <1>2 DEF IInv, Callable, Finishing, Dialled, AtOnce, Controlled, Triggers
  <1>8. Told'
    BY DEF IInv, Told, Finishing, Dialled, Controlled
  <1> QED
    BY <1>3, <1>4, <1>5, <1>6, <1>7, <1>8 DEF IInv, Bytes, Cut, Held

-----------------------------------------------------------------------------
(* serve, its timers and the context *)

LEMMA ServeStep ==
  ASSUME IInv,
         \/ RecordStarted \/ RecordDecision \/ DelayOver \/ DelayFails \/ DialFails \/ Dial
         \/ Join \/ Stop \/ RecordFinished \/ End
  PROVE  IInv'
  <1> USE DEF Step, controller, said, data, Finishing, Dialled, Controlled
  <1>1. UNCHANGED <<fault, prefetched, mu, active, pump, data>> /\ pc # "activate"
    BY Zenon DEF RecordStarted, RecordDecision, DelayOver, DelayFails, DialFails, Dial, Join, Stop,
           RecordFinished, End
  <1>2. pc' \in Early => pc \in Early
    BY Zenon DEF RecordStarted, RecordDecision, DelayOver, DelayFails, DialFails, Dial, Join, Stop,
           RecordFinished, End, Early
  <1>3. \A e \in Ends : conn'[e] = "open" => conn[e] = "open" \/ ~Dialled
    BY Zenon DEF RecordStarted, RecordDecision, DelayOver, DelayFails, DialFails, Dial, Join, Stop,
           RecordFinished, End, Close
  <1>4. mu # "serve" /\ (mu = "timer" => timer' = "fired")
    BY <1>1, ZenonT(30) DEF IInv, Lock, Callable, RecordStarted, RecordDecision, DelayOver, DelayFails,
           DialFails, Dial, Join, Stop, RecordFinished, End
  <1>5. \A d \in Directions : pc \in {"accepted", "started", "delay", "dial"} => pump[d] = "idle"
    BY DEF IInv, Bytes, BytesAt, Early
  <1>6. Callable'
    <2>1. CASE RecordStarted \/ RecordDecision \/ DelayOver \/ DelayFails \/ DialFails
      <3>1. /\ pc \in {"accepted", "started", "delay", "dial"} /\ UNCHANGED <<timer, finished>>
            /\ pc' \in {"started", "delay", "dial", "finish"}
        BY <2>1, Zenon DEF RecordStarted, RecordDecision, DelayOver, DelayFails, DialFails
      <3> QED
        BY <1>1, <1>5, <3>1, Zenon DEF IInv, Callable
    <2>2. CASE Dial
      BY <1>1, <1>5, <2>2 DEF IInv, Callable, Dial, Triggers, AtOnce
    <2>3. CASE Join
      BY <1>1, <2>3, Zenon DEF IInv, Callable, Join, Triggers
    <2>4. CASE Stop
      BY <1>1, <2>4, Zenon DEF IInv, Callable, Stop, Triggers
    <2>5. CASE RecordFinished \/ End
      BY <1>1, <2>5 DEF IInv, Callable, RecordFinished, End, Triggers
    <2> QED
      BY <2>1, <2>2, <2>3, <2>4, <2>5, Zenon
  <1>7. Told'
    <2>1. CASE RecordStarted \/ RecordDecision \/ DelayOver \/ DelayFails \/ DialFails \/ Dial
      BY <1>1, <2>1, Zenon DEF IInv, Told, RecordStarted, RecordDecision, DelayOver,
             DelayFails, DialFails, Dial
    <2>2. CASE Join
      BY <1>1, <2>2 DEF IInv, Told, Join, Outcome
    <2>3. CASE Stop
      BY <1>1, <2>3 DEF IInv, Told, Stop
    <2>4. CASE RecordFinished \/ End
      BY <1>1, <2>4 DEF IInv, Told, RecordFinished, End
    <2> QED
      BY <2>1, <2>2, <2>3, <2>4, Zenon
  <1> QED
    BY <1>1, <1>2, <1>3, <1>4, <1>6, <1>7, Aside

LEMMA ContextStep ==
  ASSUME IInv,
         \/ TimerFires \/ HoldTimerFires \/ ContextEnds \/ (\E e \in Ends : ContextCloses(e))
         \/ UNCHANGED vars
  PROVE  IInv'
  <1> USE DEF controller, said, data, vars
  <1>1. UNCHANGED <<fault, prefetched, mu, active, pump, data, pc, finished, applied, outcome>>
    BY Zenon DEF TimerFires, HoldTimerFires, ContextEnds, ContextCloses
  <1>2. \A e \in Ends : conn'[e] = "open" => conn[e] = "open"
    BY DEF TimerFires, HoldTimerFires, ContextEnds, ContextCloses, Close
  <1>3. timer' = timer \/ (timer = "armed" /\ timer' = "fired")
    BY Zenon DEF TimerFires, HoldTimerFires, ContextEnds, ContextCloses
  <1>4. mu = "serve" => pc' = "activate"
    BY <1>1 DEF IInv, Lock
  <1>5. mu = "timer" => timer' = "fired"
    BY <1>1, <1>3 DEF IInv, Lock
  <1>6. Callable' /\ Told'
    BY <1>1, <1>3 DEF IInv, Callable, Told, Finishing, Dialled, Controlled, AtOnce, Triggers
  <1> QED
    BY <1>1, <1>2, <1>4, <1>5, <1>6, Aside

LEMMA PrefetchStep ==
  ASSUME IInv, NEW n \in 1 .. PrefetchSize, Prefetch(n)
  PROVE  IInv'
  <1> USE DEF Step, controller, said, data
  <1>1. /\ pc = "delay" /\ prefetched + n <= PrefetchSize /\ prefetched' = prefetched + n
        /\ taken' = [taken EXCEPT !["client_to_upstream"] = prefetched + n]
        /\ UNCHANGED <<fault, pc, conn, pump, applied, outcome, timer, mu, active, finished,
                       payload, chunk, count, dropped, late>>
    BY DEF Prefetch, Room
  <1>2. n \in Nat /\ prefetched \in Nat /\ "client_to_upstream" \in Directions
    BY FaultType DEF IInv, Types, Directions
  <1>3. Types'
    BY <1>1, <1>2 DEF IInv, Types
  <1>4. \A d \in Directions : BytesAt(d)'
    <2>1. \A d \in Directions : pump[d] = "idle" /\ payload[d] = 0 /\ count[d] = 0 /\ dropped[d] = 0
      BY <1>1 DEF IInv, Bytes, BytesAt, Early, Empty
    <2>2. \A d \in Directions : taken'[d] = IF d = "client_to_upstream" THEN prefetched' ELSE taken[d]
      BY <1>1, <1>2 DEF IInv, Types
    <2> QED
      BY <1>1, <1>2, <2>1, <2>2 DEF IInv, Types, Bytes, BytesAt, Buffered
  <1>5. Lock' /\ Callable' /\ Told'
    BY <1>1 DEF IInv, Lock, Callable, Told, Finishing, Dialled, Controlled, AtOnce, Triggers
  <1>6. Cut' /\ Held'
    BY <1>1 DEF IInv, Cut, CutAt, Held, HeldAt, Ahead, Triggers, Controlled
  <1> QED
    BY <1>1, <1>3, <1>4, <1>5, <1>6 DEF IInv, Bytes

LEMMA ForwardStep ==
  ASSUME IInv, Forward
  PROVE  IInv'
  <1> USE DEF controller, said, data
  <1>1. /\ pc = "forward" /\ pc' = "join" /\ pump' = [d \in Directions |-> "check"]
        /\ UNCHANGED <<fault, conn, prefetched, applied, outcome, timer, mu, active, finished,
                       payload, chunk, count, taken, dropped, late>>
    BY DEF Forward
  <1>2. \A d \in Directions : pump[d] = "idle" /\ count[d] = 0 /\ payload[d] = 0 /\ pump'[d] = "check"
    BY <1>1 DEF IInv, Bytes, BytesAt, Early, Empty
  <1>3. Types'
    BY <1>1 DEF IInv, Types, Places
  <1>4. Lock' /\ Callable' /\ Told'
    BY <1>1, <1>2 DEF IInv, Lock, Callable, Told, Finishing, Dialled, Controlled, AtOnce, Triggers
  <1>5. \A d \in Directions : BytesAt(d)'
    <2>1. \A d \in Directions : BytesAt(d)
      BY Zenon DEF IInv, Bytes
    <2> QED
      BY ONLY <1>1, <1>2, <2>1 DEF BytesAt, Buffered, Blocked, Early, controller, said, data
  <1>6. \A d \in Directions : CutAt(d)'
    <2>1. fault.afterBytes \in Nat /\ fault' = fault /\ active' = active /\ count' = count
      BY Zenon, <1>1, FaultType DEF IInv
    <2> QED
      BY ONLY <1>2, <2>1 DEF CutAt, Ahead, Triggers, Controlled
  <1>7. \A d \in Directions : HeldAt(d)'
    BY <1>1, <1>2, FaultType DEF IInv, Held, HeldAt, Ahead, Triggers, Controlled, After
  <1> QED
    BY <1>1, <1>3, <1>4, <1>5, <1>6, <1>7 DEF IInv, Bytes, Cut, Held

-----------------------------------------------------------------------------
(* activate *)

\* Only the pump of its direction reaches a byte trigger that lies ahead.
LEMMA Caller ==
  ASSUME IInv, NEW who \in Callers, Calls(who), ~finished
  PROVE  /\ Controlled /\ Dialled /\ ~Finishing
         /\ \A d \in Directions : Ahead(d) =>
              who = d /\ pump[d] = "trigger" /\ (~active => count[d] = fault.afterBytes)
  <1>1. CASE who = "serve"
    <2>1. pc = "activate" /\ AtOnce
      BY <1>1 DEF Calls, IInv, Callable, Directions
    <2> QED
      BY <2>1, FaultType DEF IInv, AtOnce, Dialled, Finishing, Ahead, Triggers
  <1>2. CASE who = "timer"
    <2>1. timer = "fired"
      BY <1>2 DEF Calls, Directions
    <2> QED
      BY <2>1 DEF IInv, Callable, Ahead, Triggers, Finishing
  <1>3. CASE who \in Directions
    <2>1. pump[who] = "trigger"
      BY <1>3 DEF Calls, Directions
    <2>2. Triggers(who) /\ count[who] >= fault.afterBytes
      BY <1>3, <2>1 DEF IInv, Callable
    <2>3. pc \notin Early /\ ~Finishing
      BY <1>3, <2>1 DEF IInv, Bytes, BytesAt, Callable
    <2>4. Ahead(who) /\ ~active => count[who] = fault.afterBytes
      BY <1>3, <2>2, FaultType DEF IInv, Types, Cut, CutAt
    <2> QED
      BY <2>1, <2>2, <2>3, <2>4 DEF Early, Dialled, Triggers, Ahead
  <1> QED
    BY <1>1, <1>2, <1>3 DEF Callers

LEMMA ActivateBeginStep ==
  ASSUME IInv, NEW who \in Callers, ActivateBegin(who)
  PROVE  IInv'
  <1> USE DEF said, data
  <1>1. /\ Calls(who) /\ mu = "free"
        /\ UNCHANGED <<fault, conn, prefetched, finished, applied, outcome,
                       payload, chunk, count, taken, dropped, late>>
    BY DEF ActivateBegin
  <1>2. CASE ~finished
    <2>1. mu' = who /\ active' = TRUE /\ UNCHANGED <<pc, timer, pump>>
      BY <1>2 DEF ActivateBegin, Over
    <2>2. /\ Controlled /\ Dialled /\ ~Finishing /\ who # "free"
          /\ \A d \in Directions : Ahead(d) =>
               who = d /\ pump[d] = "trigger" /\ (~active => count[d] = fault.afterBytes)
      BY <1>1, <1>2, Caller, Zenon DEF Callers, Directions
    <2>3. Types'
      BY <1>1, <2>1 DEF IInv, Types
    <2>4. Lock'
      BY <1>1, <2>1 DEF Lock, Calls, Callers, Directions
    <2>5. \A d \in Directions : BytesAt(d)'
      BY <1>1, <2>1, Zenon DEF IInv, Bytes, BytesAt, Buffered, Blocked
    <2>6. Callable'
      BY <1>1, <2>1 DEF IInv, Callable, Controlled, AtOnce, Dialled, Finishing, Triggers
    <2>7. Told'
      BY <1>1, <2>1, <2>2 DEF Told, Controlled, Dialled, Finishing
    <2>8. \A d \in Directions : CutAt(d)'
      BY <2>1, Zenon DEF CutAt
    <2>9. \A d \in Directions : HeldAt(d)'
      <3>1. \A d \in Directions : Ahead(d)' => Ahead(d)
        BY <1>1 DEF Ahead, Triggers, Controlled
      <3> QED
        BY <1>1, <2>1, <2>2, <3>1 DEF IInv, Held, HeldAt, After
    <2> QED
      BY <1>1, <2>3, <2>4, <2>5, <2>6, <2>7, <2>8, <2>9 DEF IInv, Bytes, Cut, Held
  <1>3. CASE finished
    <2>1. \A d \in Directions : pump[d] = "done"
      BY <1>3 DEF IInv, Callable
    <2>2. pc # "activate"
      BY <2>1 DEF IInv, Bytes, BytesAt, Early, Directions
    <2>3. who = "timer" /\ "timer" \notin Directions
      BY <1>1, <2>1, <2>2 DEF Calls, Callers, Directions
    <2>4. UNCHANGED <<pc, mu, active>> /\ timer' = "off"
          /\ pump' = [d \in Directions |-> IF d = who THEN "wrote" ELSE pump[d]]
      BY <1>3, <2>3 DEF ActivateBegin, Over, Returns
    <2>5. pump' = pump
      BY <2>3, <2>4, Zenon DEF IInv, Types
    <2>6. Callable' /\ Told'
      BY <1>1, <2>4, <2>5 DEF IInv, Callable, Told, Controlled, AtOnce, Dialled, Finishing, Triggers
    <2> QED
      BY <1>1, <2>4, <2>5, <2>6, Aside
  <1> QED
    BY <1>2, <1>3

LEMMA ActivateEndStep ==
  ASSUME IInv, NEW who \in Callers, ActivateEnd(who)
  PROVE  IInv'
  <1> USE DEF said, data
  <1>1. /\ mu = who /\ mu' = "free" /\ applied' = TRUE
        /\ conn' = IF fault.action = "close_connection" THEN Close(Ends) ELSE conn
        /\ pc' = IF who = "serve" THEN "forward" ELSE pc
        /\ timer' = IF who = "timer" THEN "off" ELSE timer
        /\ pump' = [d \in Directions |-> IF d = who THEN "wrote" ELSE pump[d]]
        /\ UNCHANGED <<fault, prefetched, outcome, active, finished,
                       payload, chunk, count, taken, dropped, late>>
    BY DEF ActivateEnd, Returns
  <1>2. active /\ (who \in Directions => pump[who] = "trigger") /\ (who = "serve" => pc = "activate")
    BY <1>1 DEF IInv, Lock, Callers, Directions
  <1>3. \A d \in Directions : pump'[d] = IF d = who THEN "wrote" ELSE pump[d]
    BY <1>1
  <1>4. pc' \in Early => pc \in Early
    BY <1>1, <1>2 DEF Early
  <1>5. Types'
    BY <1>1 DEF IInv, Types, Places
  <1>6. Lock'
    BY <1>1, Zenon DEF Lock, Callers, Directions
  <1>7. \A d \in Directions : BytesAt(d)'
    BY <1>1, <1>2, <1>3, <1>4, Zenon DEF IInv, Bytes, BytesAt, Buffered, Blocked, Empty
  <1>8. Callable'
    BY <1>1, <1>2, <1>3 DEF IInv, Callable, Controlled, AtOnce, Dialled, Finishing, Triggers
  <1>9. Told'
    BY <1>1, <1>2 DEF IInv, Told, Controlled, Dialled, Finishing
  <1>10. \A d \in Directions : CutAt(d)'
    BY <1>1, <1>2, ZenonT(40) DEF CutAt
  <1>11. \A d \in Directions : HeldAt(d)'
    <2>1. \A d \in Directions : fault.action = "close_connection" => conn'[Dst(d)] # "open"
      BY <1>1 DEF Close, Dst, Ends
    <2>2. \A d \in Directions : Ahead(d)' => Ahead(d)
      BY <1>1, Zenon DEF Ahead, Triggers, Controlled
    <2> QED
      BY <1>1, <1>2, <1>3, <2>1, <2>2 DEF IInv, Held, HeldAt, After
  <1> QED
    BY <1>1, <1>5, <1>6, <1>7, <1>8, <1>9, <1>10, <1>11 DEF IInv, Bytes, Cut, Held

-----------------------------------------------------------------------------
(* pump *)

LEMMA CheckStep ==
  ASSUME IInv, NEW d \in Directions, Check(d) \/ Return(d)
  PROVE  IInv'
  <1> USE DEF controller, said, data
  <1>1. PICK to \in {"held", "read", "done"} :
          /\ pump' = [pump EXCEPT ![d] = to] /\ pump[d] \in {"check", "held", "read", "write"}
          /\ to = "read" => ~Blocked(d)
          /\ to # "done" => pump[d] = "check"
          /\ UNCHANGED <<fault, pc, conn, controller, applied, outcome, prefetched, data>>
    BY Zenon DEF Check, Return, Goto
  <1>2. pump'[d] = to
    BY <1>1 DEF IInv, Types
  <1>3. Types' /\ to \in Places
    BY <1>1, Zenon DEF IInv, Types, Places
  <1>4. BytesAt(d)'
    BY <1>1, <1>2 DEF IInv, Bytes, BytesAt, Buffered, Blocked, Empty, Early
  <1>5. CutAt(d)'
    BY <1>1, <1>2, Zenon DEF IInv, Cut, CutAt, Ahead, Triggers, Controlled, Empty
  <1>6. HeldAt(d)'
    BY <1>1, <1>2, FaultType DEF IInv, Told, Types, Held, HeldAt, Ahead, Triggers, Controlled, After, Blocked
  <1>7. \A e \in Directions : Buffered(e)' = Buffered(e)
    BY <1>1 DEF Buffered
  <1> QED
    BY <1>1, <1>3, <1>4, <1>5, <1>6, <1>7, PumpMoves, Zenon DEF IInv, Bytes

LEMMA ReadStep ==
  ASSUME IInv, NEW d \in Directions, ReadPrefetched(d) \/ \E n \in 1 .. ReadSize : Read(d, n)
  PROVE  IInv'
  <1> USE DEF controller, said, data
  <1>1. /\ pump[d] = "read" /\ pump' = [pump EXCEPT ![d] = "got"]
        /\ UNCHANGED <<fault, pc, conn, controller, applied, outcome, chunk, count, dropped, late>>
    BY DEF ReadPrefetched, Read, Goto
  <1>2. pump'[d] = "got"
    BY <1>1, Zenon DEF IInv, Types
  <1>3. /\ prefetched \in Nat /\ ReadSize \in Nat /\ taken[d] \in Nat /\ payload[d] = 0
        /\ prefetched <= PrefetchSize /\ PrefetchSize \in Nat
    BY <1>1, FaultType DEF IInv, Types, Bytes, BytesAt, Empty
  <1>4. \E n \in Nat : /\ payload' = [payload EXCEPT ![d] = n]
                       /\ \/ /\ d = "client_to_upstream" /\ n <= prefetched
                             /\ prefetched' = prefetched - n /\ taken' = taken
                          \/ prefetched' = prefetched /\ taken' = [taken EXCEPT ![d] = @ + n]
    <2>1. CASE ReadPrefetched(d)
      <3> DEFINE S == {prefetched, ReadSize}
      <3>1. prefetched \in Int /\ ReadSize \in Int
        BY <1>3
      <3>2. Least(S) \in S /\ \A y \in S : Least(S) <= y
        BY <3>1, LeastOf, Zenon
      <3> HIDE DEF S
      <3>3. Least(S) \in Nat /\ Least(S) <= prefetched
        BY <1>3, <3>2 DEF S
      <3>4. /\ payload' = [payload EXCEPT ![d] = Least(S)] /\ taken' = taken
            /\ prefetched' = prefetched - payload'[d] /\ Buffered(d) > 0
        BY <2>1 DEF ReadPrefetched, S
      <3>5. payload'[d] = Least(S)
        BY <3>4 DEF IInv, Types
      <3>6. d = "client_to_upstream"
        BY <3>4 DEF Buffered
      <3> QED
        BY Zenon, <3>3, <3>4, <3>5, <3>6
    <2>2. CASE \E n \in 1 .. ReadSize : Read(d, n)
      <3>1. PICK n \in 1 .. ReadSize : Read(d, n)
        BY <2>2
      <3>2. /\ n \in Nat /\ prefetched' = prefetched /\ payload' = [payload EXCEPT ![d] = n]
            /\ taken' = [taken EXCEPT ![d] = @ + n]
        BY <1>3, <3>1 DEF Read
      <3> QED
        BY <3>2, Zenon
    <2> QED
      BY <2>1, <2>2
  <1>5. PICK n \in Nat : /\ payload' = [payload EXCEPT ![d] = n]
                         /\ \/ /\ d = "client_to_upstream" /\ n <= prefetched
                               /\ prefetched' = prefetched - n /\ taken' = taken
                            \/ prefetched' = prefetched /\ taken' = [taken EXCEPT ![d] = @ + n]
    BY Zenon, <1>4
  <1>6. Types' /\ "got" \in Places
    BY <1>1, <1>3, <1>5 DEF IInv, Types, Places
  <1>7. BytesAt(d)'
    <2>1. payload'[d] = n /\ pc \notin Early
      BY <1>1, <1>5, Zenon DEF IInv, Types, Bytes, BytesAt
    <2>2. taken'[d] - Buffered(d)' = (taken[d] - Buffered(d)) + n
      BY <1>3, <1>5 DEF IInv, Types, Buffered
    <2>3. Buffered(d)' \in Nat /\ Buffered(d) \in Nat
      BY <1>3, <1>6 DEF Buffered, Types
    <2>4. /\ count'[d] = count[d] /\ dropped'[d] = dropped[d] /\ pc' = pc
          /\ pump'[d] = "got" /\ Blocked(d)' = Blocked(d)
      BY <1>1, <1>2, Zenon DEF Blocked
    <2>5. /\ taken[d] = count[d] + payload[d] + dropped[d] + Buffered(d) /\ payload[d] = 0
          /\ dropped[d] > 0 => Blocked(d)
      BY <1>1, <1>2, <1>3, Zenon DEF IInv, Bytes, BytesAt
    <2>6. taken'[d] = count[d] + n + dropped[d] + Buffered(d)'
      <3>1. /\ taken[d] \in Nat /\ taken'[d] \in Nat /\ count[d] \in Nat /\ dropped[d] \in Nat
            /\ Buffered(d) \in Nat /\ Buffered(d)' \in Nat
        BY <1>6, <2>3 DEF IInv, Types
      <3> QED
        BY ONLY <2>2, <2>5, <3>1, n \in Nat
    <2>7. "got" \notin Empty
      BY ONLY TRUE DEF Empty
    <2> QED
      BY ONLY <2>1, <2>4, <2>5, <2>6, <2>7, Zenon DEF BytesAt
  <1>8. CutAt(d)'
    BY <1>1, <1>2, Zenon DEF IInv, Cut, CutAt, Ahead, Triggers, Controlled, Empty
  <1>9. HeldAt(d)'
    BY <1>1, <1>2, Zenon DEF IInv, Held, HeldAt, Ahead, Triggers, Controlled, After
  <1>10. /\ \A e \in Directions \ {d} : Buffered(e)' = Buffered(e)
         /\ \A e \in Directions \ {d} : payload'[e] = payload[e] /\ taken'[e] = taken[e]
         /\ prefetched' <= PrefetchSize
    BY <1>3, <1>5 DEF IInv, Types, Buffered
  <1> QED
    BY <1>1, <1>6, <1>7, <1>8, <1>9, <1>10, PumpMoves, Zenon

\* The next chunk, from a read or from the rest of one.
LEMMA ChunkStep ==
  ASSUME IInv, NEW d \in Directions, pump[d] \in {"got", "wrote"}, ~Blocked(d), NextChunk(d),
         UNCHANGED <<prefetched, payload, count, taken, dropped, late>>
  PROVE  IInv'
  <1> USE DEF controller, said
  <1>1. /\ pump' = [pump EXCEPT ![d] = "write"] /\ chunk' = [chunk EXCEPT ![d] = ChunkLength(d)]
        /\ UNCHANGED <<fault, pc, conn, controller, applied, outcome>>
    BY Zenon DEF NextChunk, Goto
  <1>2. /\ ChunkLength(d) \in Nat /\ ChunkLength(d) <= payload[d]
        /\ Triggers(d) /\ ~active /\ count[d] < fault.afterBytes
             => count[d] + ChunkLength(d) <= fault.afterBytes
    BY ChunkFits DEF IInv
  <1>3. pump'[d] = "write" /\ chunk'[d] = ChunkLength(d)
    BY <1>1, Zenon DEF IInv, Types
  <1>4. Types' /\ "write" \in Places
    BY <1>1, <1>2, Zenon DEF IInv, Types, Places
  <1>5. BytesAt(d)'
    <2>1. BytesAt(d)
      BY ZenonT(40) DEF IInv, Bytes
    <2> QED
      BY Zenon, <1>1, <1>2, <1>3, <2>1 DEF BytesAt, Buffered, Blocked, Empty
  <1>6. CutAt(d)'
    BY <1>1, <1>2, <1>3 DEF IInv, Cut, CutAt, Ahead, Triggers, Controlled, Empty
  <1>7. HeldAt(d)'
    BY <1>1, <1>3, Zenon DEF IInv, Held, HeldAt, Ahead, Triggers, Controlled, Blocked
  <1>8. /\ \A e \in Directions : Buffered(e)' = Buffered(e)
        /\ \A e \in Directions \ {d} : chunk'[e] = chunk[e]
        /\ prefetched' <= PrefetchSize
    BY <1>1 DEF IInv, Types, Bytes, Buffered
  <1> QED
    BY <1>1, <1>4, <1>5, <1>6, <1>7, <1>8, PumpMoves, Zenon

\* What is left of a read is discarded, if anything is.
LEMMA DropStep ==
  ASSUME IInv, NEW d \in Directions, pump[d] \in {"got", "wrote"}, Blocked(d) \/ payload[d] = 0,
         Drop(d), NEW to \in {"check", "done"}, Goto(d, to),
         UNCHANGED <<prefetched, chunk, count, taken, late>>
  PROVE  IInv'
  <1> USE DEF controller, said
  <1>1. /\ pump' = [pump EXCEPT ![d] = to]
        /\ dropped' = [dropped EXCEPT ![d] = @ + payload[d]] /\ payload' = [payload EXCEPT ![d] = 0]
        /\ UNCHANGED <<fault, pc, conn, controller, applied, outcome>>
    BY DEF Drop, Goto
  <1>2. pump'[d] = to /\ payload'[d] = 0 /\ dropped'[d] = dropped[d] + payload[d]
    BY <1>1, Zenon DEF IInv, Types
  <1>3. Types' /\ to \in Places
    BY <1>1 DEF IInv, Types, Places
  <1>4. BytesAt(d)'
    <2>1. pc \notin Early /\ Buffered(d)' = Buffered(d) /\ Buffered(d) \in Nat
      BY Zenon DEF IInv, Types, Bytes, BytesAt, Buffered
    <2>2. /\ payload[d] \in Nat /\ dropped[d] \in Nat /\ count[d] \in Nat
          /\ taken[d] = count[d] + payload[d] + dropped[d] + Buffered(d)
          /\ dropped[d] > 0 => Blocked(d)
      BY Zenon DEF IInv, Types, Bytes, BytesAt
    <2>3. taken[d] = count[d] + 0 + (dropped[d] + payload[d]) + Buffered(d)
      <3>1. count[d] + payload[d] + dropped[d] + Buffered(d)
              = count[d] + 0 + (dropped[d] + payload[d]) + Buffered(d)
        <4>1. /\ count[d] \in Nat /\ payload[d] \in Nat /\ dropped[d] \in Nat
              /\ Buffered(d) \in Nat
          BY ONLY <2>1, <2>2, Zenon
        <4> QED
          BY ONLY <4>1, Moved
      <3> QED
        BY ONLY <2>2, <3>1, Zenon
    <2>4. dropped[d] + payload[d] > 0 => Blocked(d)
      BY ONLY <2>2, Blocked(d) \/ payload[d] = 0
    <2>5. /\ UNCHANGED <<taken, count, pc, fault, active, prefetched>> /\ Blocked(d)' = Blocked(d)
          /\ pump'[d] # "write"
      BY <1>1, <1>2, ZenonT(30) DEF Blocked
    <2> QED
      BY ONLY <1>2, <2>1, <2>3, <2>4, <2>5, Zenon DEF BytesAt
  <1>5. CutAt(d)'
    BY <1>1, <1>2 DEF IInv, Cut, CutAt, Ahead, Triggers, Controlled, Empty
  <1>6. HeldAt(d)'
    BY <1>1, <1>2, Zenon DEF IInv, Held, HeldAt, Ahead, Triggers, Controlled, After
  <1>7. /\ \A e \in Directions : Buffered(e)' = Buffered(e)
        /\ \A e \in Directions \ {d} : payload'[e] = payload[e] /\ dropped'[e] = dropped[e]
        /\ prefetched' <= PrefetchSize
    BY <1>1 DEF IInv, Types, Bytes, Buffered
  <1> QED
    BY <1>1, <1>3, <1>5, <1>4, <1>6, <1>7, PumpMoves, Zenon

LEMMA AfterStep ==
  ASSUME IInv, NEW d \in Directions, Got(d) \/ AfterWrite(d)
  PROVE  IInv'
  <1>1. pump[d] \in {"got", "wrote"} /\ UNCHANGED <<prefetched, count, taken, late>>
    BY ZenonT(40) DEF Got, AfterWrite
  <1>2. \/ ~Blocked(d) /\ NextChunk(d) /\ UNCHANGED <<payload, dropped>>
        \/ /\ Blocked(d) \/ payload[d] = 0
           /\ Drop(d) /\ UNCHANGED chunk /\ \E to \in {"check", "done"} : Goto(d, to)
    BY DEF Got, AfterWrite
  <1> QED
    BY <1>1, <1>2, ChunkStep, DropStep, ZenonT(30)

\* A write, complete or not.  One under way when a hold began is the last of its direction.
LEMMA WriteStep ==
  ASSUME IInv, NEW d \in Directions, Write(d) \/ \E n \in 0 .. ReadSize : WriteFails(d, n)
  PROVE  IInv'
  <1> USE DEF controller, said
  <1>1. /\ pump[d] = "write" /\ pc \notin Early
        /\ payload[d] \in Nat /\ chunk[d] \in Nat /\ count[d] \in Nat /\ late[d] \in Nat
        /\ chunk[d] <= payload[d] /\ fault.afterBytes \in Nat /\ ReadSize \in Nat
    BY FaultType, Zenon DEF IInv, Types, Bytes, BytesAt, Write, WriteFails
  <1>2. PICK n \in Nat, to \in {"trigger", "wrote", "done"} :
          /\ n <= chunk[d] /\ Wrote(d, n) /\ Goto(d, to)
          /\ conn[Dst(d)] # "open" => n = 0
          /\ to = "trigger" => Triggers(d) /\ count'[d] >= fault.afterBytes
          /\ to = "wrote" => ~(Triggers(d) /\ ~active /\ count'[d] >= fault.afterBytes)
    <2>1. CASE Write(d)
      <3> DEFINE to == IF Triggers(d) /\ ~active /\ count'[d] >= fault.afterBytes
                       THEN "trigger" ELSE "wrote"
      <3>1. /\ chunk[d] <= chunk[d] /\ Wrote(d, chunk[d]) /\ Goto(d, to) /\ conn[Dst(d)] = "open"
        <4>1. chunk[d] \in Nat
          BY ONLY <1>1, Zenon
        <4>2. chunk[d] <= chunk[d]
          BY ONLY <4>1
        <4> QED
          BY ONLY <2>1, <4>2, Zenon DEF Write
      <3>2. /\ to \in {"trigger", "wrote", "done"}
            /\ to = "trigger" => Triggers(d) /\ count'[d] >= fault.afterBytes
            /\ to = "wrote" => ~(Triggers(d) /\ ~active /\ count'[d] >= fault.afterBytes)
        OBVIOUS
      <3> HIDE DEF to
      <3> QED
        BY <1>1, <3>1, <3>2, ZenonT(30)
    <2>2. CASE \E n \in 0 .. ReadSize : WriteFails(d, n)
      <3>1. PICK n \in 0 .. ReadSize : WriteFails(d, n)
        BY <2>2, Zenon
      <3>2. /\ n \in Nat /\ n <= chunk[d] /\ Wrote(d, n) /\ Goto(d, "done")
            /\ conn[Dst(d)] # "open" => n = 0
        <4>1. n < chunk[d] /\ chunk[d] \in Nat
          BY <1>1, <3>1, Zenon DEF WriteFails
        <4>2. n \in Nat /\ n <= chunk[d]
          BY ONLY <4>1, n \in 0 .. ReadSize
        <4> QED
          BY <3>1, <4>2, Zenon DEF WriteFails
      <3> QED
        BY <3>2, Zenon
    <2> QED
      BY <2>1, <2>2
  <1>3. /\ pump' = [pump EXCEPT ![d] = to] /\ count' = [count EXCEPT ![d] = @ + n]
        /\ payload' = [payload EXCEPT ![d] = @ - n]
        /\ late' = [late EXCEPT ![d] = IF active /\ n > 0 THEN @ + 1 ELSE @]
        /\ UNCHANGED <<fault, pc, conn, controller, applied, outcome,
                       prefetched, chunk, taken, dropped>>
    BY <1>2, Zenon DEF Wrote, Goto
  <1>4. /\ pump'[d] = to /\ count'[d] = count[d] + n /\ payload'[d] = payload[d] - n
        /\ late'[d] = IF active /\ n > 0 THEN late[d] + 1 ELSE late[d]
    BY <1>3 DEF IInv, Types
  <1>5. /\ n \in Nat /\ n <= chunk[d] /\ n <= payload[d]
        /\ payload[d] - n \in Nat /\ count[d] + n \in Nat
    <2>1. n \in Nat /\ n <= chunk[d]
      BY <1>2, Zenon
    <2>2. \A k, p \in Nat : n <= k /\ k <= p => n <= p
      BY ONLY n \in Nat
    <2>3. n <= payload[d]
      BY ONLY <1>1, <2>1, <2>2, Zenon
    <2> QED
      BY ONLY <1>1, <2>1, <2>3, Shift, 0 \in Nat, ZenonT(40)
  <1>6. Types' /\ to \in Places
    <2>1. late' \in [Directions -> Nat]
      BY <1>3 DEF IInv, Types
    <2> QED
      BY <1>3, <1>5, <2>1 DEF IInv, Types, Places
  <1>7. BytesAt(d)'
    <2>1. /\ Buffered(d)' = Buffered(d) /\ Buffered(d) \in Nat /\ dropped[d] \in Nat
          /\ taken[d] = count[d] + payload[d] + dropped[d] + Buffered(d)
          /\ dropped[d] > 0 => Blocked(d)
      BY <1>3 DEF IInv, Types, Bytes, BytesAt, Buffered
    <2>2. taken[d] = (count[d] + n) + (payload[d] - n) + dropped[d] + Buffered(d)
      <3>1. count[d] + payload[d] + dropped[d] + Buffered(d)
              = (count[d] + n) + (payload[d] - n) + dropped[d] + Buffered(d)
        <4>1. /\ count[d] \in Nat /\ payload[d] \in Nat /\ dropped[d] \in Nat
              /\ Buffered(d) \in Nat /\ n \in Nat /\ n <= payload[d]
          BY ONLY <1>1, <1>5, <2>1, Zenon
        <4> QED
          BY ONLY <4>1, Shift
      <3> QED
        BY ONLY <2>1, <3>1, ZenonT(30)
    <2>3. Blocked(d)' = Blocked(d) /\ UNCHANGED <<taken, dropped, pc>>
      BY ONLY <1>3, Zenon DEF Blocked, controller
    <2>4. to \notin Empty /\ to # "write"
      BY ONLY to \in {"trigger", "wrote", "done"} DEF Empty
    <2> QED
      BY ONLY <1>1, <1>4, <2>1, <2>2, <2>3, <2>4, ZenonT(30) DEF BytesAt
  <1>8. CutAt(d)'
    <2>1. Ahead(d) /\ ~active => count[d] + chunk[d] <= fault.afterBytes /\ Triggers(d)
      BY <1>1, Zenon DEF IInv, Cut, CutAt, Ahead
    <2>2. (Ahead(d)' <=> Ahead(d)) /\ UNCHANGED <<fault, active>>
      BY ONLY <1>3, Zenon DEF Ahead, Triggers, Controlled, controller
    <2>3. to = "wrote" => ~(Triggers(d) /\ ~active /\ count'[d] >= fault.afterBytes)
      BY <1>2, Zenon
    <2>4. to # "write" /\ (to \in Empty \cup {"got", "wrote"} => to = "wrote")
      BY ONLY to \in {"trigger", "wrote", "done"} DEF Empty
    <2>5. pump'[d] = to /\ count'[d] = count[d] + n
      BY <1>4, Zenon
    <2>6. ASSUME Ahead(d), ~active
          PROVE  /\ count'[d] <= fault.afterBytes
                 /\ to = "wrote" => count'[d] < fault.afterBytes
      <3>1. /\ count[d] \in Nat /\ chunk[d] \in Nat /\ fault.afterBytes \in Nat /\ n \in Nat
            /\ n <= chunk[d] /\ count[d] + chunk[d] <= fault.afterBytes
        BY ONLY <1>1, <1>5, <2>1, <2>6, ZenonT(30)
      <3>2. /\ count[d] + n <= fault.afterBytes
            /\ ~(count[d] + n >= fault.afterBytes) => count[d] + n < fault.afterBytes
        BY ONLY <3>1, StopsAt
      <3>3. to = "wrote" => ~(count[d] + n >= fault.afterBytes)
        BY ONLY <2>1, <2>3, <2>5, <2>6, Zenon
      <3> QED
        BY ONLY <2>5, <3>2, <3>3, Zenon
    <2> QED
      BY ONLY <2>2, <2>4, <2>5, <2>6, Zenon DEF CutAt
  <1>9. HeldAt(d)'
    <2>1. late[d] = 0 \/ ~(fault.action = "hold" /\ fault.direction = d)
      BY <1>1, Zenon DEF IInv, Held, HeldAt, After
    <2>2. (Ahead(d) /\ active /\ fault.action = "close_connection") =>
            n = 0 /\ count[d] = fault.afterBytes /\ conn[Dst(d)] # "open"
      BY <1>1, <1>2, Zenon DEF IInv, Held, HeldAt
    <2>3. ~(Ahead(d) /\ active /\ fault.action = "hold" /\ fault.direction = d)
      BY <1>1, Zenon DEF IInv, Held, HeldAt, After
    <2>4. (Ahead(d)' <=> Ahead(d)) /\ UNCHANGED <<fault, active, mu, conn>>
      BY ONLY <1>3, Zenon DEF Ahead, Triggers, Controlled, controller
    <2>5. to \in After
      BY ONLY to \in {"trigger", "wrote", "done"} DEF After
    <2>6. pump'[d] = to
      BY <1>4, Zenon
    <2>7. n = 0 => count'[d] = count[d]
      BY ONLY <1>1, <1>4
    <2>8. fault.action = "hold" /\ fault.direction = d =>
            (~active => late'[d] = 0) /\ (late'[d] = 0 \/ late'[d] = 1)
      BY ONLY <1>4, <2>1
    <2> QED
      BY ONLY <2>2, <2>3, <2>4, <2>5, <2>6, <2>7, <2>8, Zenon DEF HeldAt
  <1>10. /\ \A e \in Directions : Buffered(e)' = Buffered(e)
         /\ prefetched' <= PrefetchSize
    BY <1>3, Zenon DEF IInv, Types, Bytes, Buffered
  <1>11. \A e \in Directions \ {d} :
           /\ payload'[e] = payload[e] /\ chunk'[e] = chunk[e] /\ count'[e] = count[e]
           /\ taken'[e] = taken[e] /\ dropped'[e] = dropped[e] /\ late'[e] = late[e]
           /\ Buffered(e)' = Buffered(e)
    BY <1>3, <1>10, Zenon DEF IInv, Types
  <1>12. /\ to # "idle" /\ pump[d] \notin {"idle", "done", "trigger"}
         /\ to = "trigger" => Triggers(d) /\ count'[d] >= fault.afterBytes
         /\ UNCHANGED <<fault, pc, conn, controller, applied, outcome>>
    BY <1>1, <1>2, <1>3
  <1> QED
    BY ONLY <1>3, <1>6, <1>7, <1>8, <1>9, <1>10, <1>11, <1>12, IInv, PumpMoves, Zenon

-----------------------------------------------------------------------------
LEMMA TcpStep == IInv /\ [Next]_vars => IInv'
  <1> SUFFICES ASSUME IInv, [Next]_vars
               PROVE  IInv'
    OBVIOUS
  <1>1. CASE Peer
    BY <1>1, PrefetchStep, ServeStep, WriteStep, ReadStep, Zenon DEF Peer
  <1>2. CASE Activate
    BY <1>2, ActivateBeginStep, ActivateEndStep, Zenon DEF Activate
  <1>3. CASE Serve
    BY <1>3, ServeStep, ForwardStep, Zenon DEF Serve
  <1>4. ASSUME NEW d \in Directions, Pump(d)
        PROVE  IInv'
    BY <1>4, CheckStep, ReadStep, AfterStep, WriteStep, Zenon DEF Pump
  <1>5. CASE \/ Ended \/ TimerFires \/ HoldTimerFires \/ ContextEnds
             \/ (\E e \in Ends : ContextCloses(e)) \/ UNCHANGED vars
    BY <1>5, ContextStep, Zenon DEF Ended
  <1> QED
    BY <1>1, <1>2, <1>3, <1>4, <1>5, Zenon DEF Next

\* No byte is invented or lost, for buffers of any size and any number of bytes.
THEOREM BytesAreConserved == Spec => []BytesConserved
  <1>1. IInv => BytesConserved
    <2>1. ASSUME IInv, NEW d \in Directions
          PROVE  /\ taken[d] = count[d] + payload[d] + dropped[d] + Buffered(d)
                 /\ dropped[d] > 0 => Blocked(d)
      BY ONLY <2>1, Zenon DEF IInv, Bytes, BytesAt
    <2>2. IInv => prefetched <= PrefetchSize
      BY ONLY Zenon DEF IInv, Bytes
    <2> QED
      BY ONLY <2>1, <2>2, Zenon DEF BytesConserved
  <1> QED
    BY <1>1, TcpInit, TcpStep, PTL DEF Spec

\* A byte trigger is exact, a hold lets at most one write through and an outcome names a
\* fault only if it was applied, for any after_bytes and buffers of any size.
THEOREM FaultsAreExact == Spec => []FaultExact
  <1>1. IInv => FaultExact
    <2> SUFFICES ASSUME IInv
                 PROVE  FaultExact
      OBVIOUS
    <2>1. ASSUME NEW d \in Directions, Triggers(d), fault.afterBytes > 0, active,
                 fault.action = "close_connection" \/ (fault.action = "hold" /\ fault.direction = d)
          PROVE  count[d] = fault.afterBytes
      BY <2>1, Zenon DEF IInv, Held, HeldAt, Ahead
    <2>2. ASSUME NEW d \in Directions, fault.action = "hold", fault.direction = d
          PROVE  late[d] <= 1
      BY <2>2 DEF IInv, Held, HeldAt
    <2>3. ASSUME pc = "finished", outcome = fault.action
          PROVE  applied
      <3>1. outcome \notin {"forwarded", "client_closed", "dial_error"}
        BY <2>3, FaultType DEF IInv, IsFault
      <3> QED
        BY <2>3, <3>1 DEF IInv, Told, Finishing
    <2> QED
      BY <2>1, <2>2, <2>3 DEF FaultExact
  <1> QED
    BY <1>1, TcpInit, TcpStep, PTL DEF Spec
-----------------------------------------------------------------------------
(* The events *)

\* The fault is activated by one caller and once, and not after the flow.
Once ==
  /\ pc = "delay" => fault.action = "delay_connect"
  /\ timer # "off" => ~active \/ mu = "timer"
  /\ pc = "activate" => ~active \/ mu = "serve"
  /\ \A d \in Directions : pump[d] = "trigger" => ~active \/ mu = d
  /\ mu # "free" => ~finished /\ ~applied /\ ~Finishing
  /\ applied => active \/ (fault.action = "delay_connect" /\ pc \notin {"accepted", "started", "delay"})

\* How far the flow is, as serve and the fault say.
Stage ==
  IF pc = "accepted" THEN "none" ELSE IF pc = "started" THEN "open"
  ELSE IF pc \in {"finished", "ended"} THEN "done"
  ELSE IF applied THEN "applied" ELSE IF fault # NoFault THEN "selected" ELSE "passed"

Logged == [type : {"flow_started", "decision", "fault_applied", "flow_finished"}, flag : BOOLEAN]

Story ==
  /\ log \in Seq(Logged) /\ applied \in BOOLEAN
  /\ Said("fault_applied") <=> applied
  /\ Life = Stage

\* What is known of the one in activate, and of an active fault.
LEMMA Activity ==
  ASSUME IInv
  PROVE  /\ mu # "free" => active
         /\ active => Controlled /\ pc \notin {"accepted", "started", "delay", "dial"}
         /\ Controlled => fault.action # "delay_connect" /\ fault.action # "none"
         /\ mu \in {"free"} \cup Callers
         /\ mu \in Directions => pump[mu] = "trigger"
         /\ mu = "serve" => pc = "activate"
         /\ mu = "timer" => timer = "fired"
  <1>1. Controlled => fault.action # "delay_connect" /\ fault.action # "none"
    BY DEF Controlled
  <1> QED
    BY Zenon, <1>1 DEF IInv, Told, Lock, Dialled

\* A caller of activate has the fault to itself.
LEMMA SoleCaller ==
  ASSUME IInv, NEW who \in Callers, Calls(who)
  PROVE  /\ Controlled
         /\ who # "timer" => timer = "off"
         /\ who # "serve" => pc # "activate"
         /\ \A d \in Directions : d # who => pump[d] # "trigger"
  <1>1. /\ timer # "off" => Controlled /\ fault.trigger = "duration"
        /\ pc = "activate" => Controlled /\ fault.trigger \in {"start", "bytes"}
        /\ \A d \in Directions : pump[d] = "trigger" =>
             Controlled /\ fault.trigger = "bytes" /\ fault.triggerDirection = d
        /\ pc = "activate" => \A d \in Directions : pump[d] = "idle"
    BY DEF IInv, Callable, AtOnce, Triggers, Bytes, BytesAt, Early
  <1>2. CASE who = "serve"
    BY <1>1, <1>2 DEF Calls, Directions
  <1>3. CASE who = "timer"
    BY <1>1, <1>3 DEF Calls, Directions
  <1>4. CASE who \in Directions
    BY <1>1, <1>4 DEF Calls, Directions
  <1> QED
    BY <1>2, <1>3, <1>4 DEF Callers

LEMMA OnceActivateBegin ==
  ASSUME IInv, Once, NEW who \in Callers, ActivateBegin(who)
  PROVE  Once'
  <1>1. /\ Calls(who) /\ mu = "free" /\ UNCHANGED <<fault, finished, applied>>
        /\ \/ ~finished /\ mu' = who /\ active' = TRUE /\ UNCHANGED <<pc, timer, pump>>
           \/ finished /\ Returns(who) /\ UNCHANGED <<mu, active>>
    BY Zenon DEF ActivateBegin, Over, said
  <1>2. /\ Controlled /\ (who # "timer" => timer = "off") /\ (who # "serve" => pc # "activate")
        /\ \A d \in Directions : d # who => pump[d] # "trigger"
    BY <1>1, SoleCaller
  <1>3. who \notin {"free"}
    BY DEF Callers, Directions
  <1>4. ~active
    BY <1>1, <1>3 DEF Once, Calls
  <1>5. ~applied
    BY <1>2, <1>4, Activity DEF Once
  <1>6. ~Finishing \/ finished
    BY <1>1 DEF IInv, Callable, Finishing, Calls
  <1>7. CASE ~finished /\ mu' = who /\ active' = TRUE /\ UNCHANGED <<pc, timer, pump>>
    BY <1>1, <1>2, <1>4, <1>5, <1>6, <1>7 DEF Once, Finishing
  <1>8. CASE finished /\ Returns(who) /\ UNCHANGED <<mu, active>>
    <2>1. timer' \in {timer, "off"} /\ (pc' = pc \/ pc' = "forward")
      BY <1>8 DEF Returns
    <2>2. \A d \in Directions : pump'[d] = pump[d] \/ pump'[d] = "wrote"
      BY <1>8 DEF Returns
    <2> QED
      BY <1>1, <1>4, <1>5, <1>8, <2>1, <2>2 DEF Once
  <1> QED
    BY Zenon, <1>1, <1>7, <1>8

LEMMA OnceActivateEnd ==
  ASSUME IInv, Once, NEW who \in Callers, ActivateEnd(who)
  PROVE  Once'
  <1>1. /\ mu = who /\ mu' = "free" /\ Returns(who) /\ UNCHANGED <<fault, active, finished>>
    BY Zenon DEF ActivateEnd
  <1>2. who # "free"
    BY DEF Callers, Directions
  <1>3. active /\ pc # "delay"
    BY <1>1, <1>2, Activity
  <1>4. timer' = "off" /\ pc' # "activate" /\ pc' # "delay"
    BY <1>1, <1>3 DEF Once, Returns
  <1>5. \A d \in Directions : pump'[d] # "trigger"
    BY <1>1, <1>3 DEF Once, Returns
  <1> QED
    BY <1>1, <1>3, <1>4, <1>5 DEF Once

\* Steps that leave the controller alone; a pump comes to activate before the fault is active.
LEMMA OnceAside ==
  ASSUME Once, UNCHANGED <<fault, pc, mu, active, finished, applied>>,
         timer' = timer \/ (timer # "off" /\ timer' = "fired"),
         \A d \in Directions : pump'[d] = "trigger" => pump[d] = "trigger" \/ ~active
  PROVE  Once'
  BY DEF Once, Finishing

LEMMA OnceServe ==
  ASSUME IInv, Once, Serve \/ Dial
  PROVE  Once'
  <1>1. /\ mu # "free" => active
        /\ active => Controlled /\ pc \notin {"accepted", "started", "delay", "dial"}
        /\ Controlled => fault.action # "delay_connect"
        /\ mu = "serve" => pc = "activate"
    BY Zenon, Activity
  <1>a. CASE RecordStarted
    BY <1>1, <1>a DEF RecordStarted, Step, controller, Once, Finishing
  <1>b. CASE DelayFails
    BY <1>1, <1>b DEF DelayFails, Step, controller, Once, Finishing
  <1>2. CASE DialFails
    BY <1>1, <1>2 DEF DialFails, Step, controller, Once, Finishing
  <1>3. CASE RecordDecision
    BY <1>1, <1>3 DEF RecordDecision, Step, controller, Once, Finishing
  <1>4. CASE DelayOver
    BY <1>1, <1>4 DEF DelayOver, Step, controller, Once, Finishing
  <1>5. CASE Dial
    BY <1>1, <1>5 DEF Dial, Step, said, Once, Finishing
  <1>6. CASE Forward
    BY <1>1, <1>6 DEF Forward, said, controller, Once, Finishing
  <1>7. CASE Join
    BY <1>1, <1>7 DEF Join, Step, controller, Once, Finishing
  <1>8. CASE Stop
    BY <1>1, <1>8 DEF Stop, Step, said, Once, Finishing
  <1>9. CASE RecordFinished \/ End
    BY <1>1, <1>9 DEF RecordFinished, End, Step, said, controller, Once, Finishing
  <1> QED
    BY Zenon, <1>a, <1>b, <1>2, <1>3, <1>4, <1>5, <1>6, <1>7, <1>8, <1>9 DEF Serve

LEMMA OncePump ==
  ASSUME IInv, Once, NEW d \in Directions,
         \/ Pump(d) \/ Write(d) \/ \E n \in 1 .. ReadSize : Read(d, n)
  PROVE  Once'
  <1>1. UNCHANGED <<fault, pc, timer, mu, active, finished, applied>>
    BY Zenon DEF Pump, Write, Read, Check, Return, ReadPrefetched, Got, AfterWrite, WriteFails, NextChunk,
      Goto, controller, said
  <1>2. \E where : pump' = [pump EXCEPT ![d] = where] /\ (where = "trigger" => ~active)
    <2>1. CASE Write(d)
      <3>1. active => pump' = [pump EXCEPT ![d] = "wrote"]
        BY Zenon, <2>1 DEF Write, Goto
      <3>2. \E where : pump' = [pump EXCEPT ![d] = where]
        BY Zenon, <2>1 DEF Write, Goto
      <3>3. "wrote" # "trigger"
        OBVIOUS
      <3>4. CASE active
        BY Zenon, <3>1, <3>3, <3>4
      <3>5. CASE ~active
        BY Zenon, <3>2, <3>5
      <3> QED
        BY <3>4, <3>5
    <2>2. CASE Got(d) \/ AfterWrite(d)
      BY <2>2 DEF Got, AfterWrite, NextChunk, Goto
    <2>3. CASE Check(d) \/ Return(d) \/ ReadPrefetched(d)
      BY <2>3 DEF Check, Return, ReadPrefetched, Goto
    <2>4. CASE \E n : WriteFails(d, n) \/ Read(d, n)
      BY <2>4 DEF WriteFails, Read, Goto
    <2> QED
      BY Zenon, <2>1, <2>2, <2>3, <2>4 DEF Pump
  <1>3. \A e \in Directions : pump'[e] = "trigger" => pump[e] = "trigger" \/ ~active
    BY <1>2 DEF IInv, Types
  <1> QED
    BY <1>1, <1>3, OnceAside

LEMMA OnceStep == ASSUME IInv, Once, [Next]_vars PROVE Once'
  <1>1. CASE Activate
    BY Zenon, <1>1, OnceActivateBegin, OnceActivateEnd DEF Activate
  <1>2. CASE Serve \/ Dial
    BY <1>2, OnceServe
  <1>3. CASE \E d \in Directions : Pump(d) \/ Write(d) \/ \E n \in 1 .. ReadSize : Read(d, n)
    BY Zenon, <1>3, OncePump
  <1>4. CASE \/ TimerFires \/ HoldTimerFires \/ ContextEnds \/ Ended \/ UNCHANGED vars
             \/ (\E e \in Ends : ContextCloses(e)) \/ \E n \in 1 .. PrefetchSize : Prefetch(n)
    <2>1. /\ UNCHANGED <<fault, pc, mu, active, finished, applied, pump>>
          /\ timer' = timer \/ (timer = "armed" /\ timer' = "fired")
      BY Zenon, <1>4 DEF TimerFires, HoldTimerFires, ContextEnds, Ended, ContextCloses, Prefetch, Step,
        controller, said, vars
    <2> QED
      BY <2>1, OnceAside
  <1> QED
    BY Zenon, <1>1, <1>2, <1>3, <1>4 DEF Next, Peer

\* What an event adds to the story.
LEMMA LogGrows ==
  ASSUME log \in Seq(Logged), NEW t, NEW b, Event(t, b) \in Logged, Record(t, b)
  PROVE  /\ log' \in Seq(Logged)
         /\ Said("fault_applied")' <=> Said("fault_applied") \/ t = "fault_applied"
         /\ t = "flow_started" => Life' = "open"
         /\ t = "decision" => Life' = IF b THEN "selected" ELSE "passed"
         /\ t = "fault_applied" => Life' = "applied"
         /\ t = "flow_finished" /\ (b = Said("fault_applied")) => Life' = "done"
  <1>1. log' = Append(log, Event(t, b)) /\ Len(log) \in Nat
    BY DEF Record
  <1>2. /\ log' \in Seq(Logged) /\ Len(log') = Len(log) + 1 /\ log'[Len(log')] = Event(t, b)
        /\ \A i \in 1 .. Len(log) : log'[i] = log[i]
    BY <1>1
  <1>3. log' # <<>>
    BY <1>1, <1>2
  <1>4. Event(t, b).type = t /\ Event(t, b).flag = b
    BY DEF Event
  <1>5. Said("fault_applied")' <=> Said("fault_applied") \/ t = "fault_applied"
    BY <1>1, <1>2, <1>4 DEF Said
  <1>6. t = "flow_finished" => (Said("fault_applied")' <=> Said("fault_applied"))
    BY <1>5
  <1>7. Said("fault_applied")' \in BOOLEAN /\ Said("fault_applied") \in BOOLEAN
    BY Zenon DEF Said
  <1> HIDE DEF Said
  <1> QED
    BY <1>2, <1>3, <1>4, <1>5, <1>6, <1>7 DEF Life

\* A step of the flow as its events count it.
Advances ==
  \/ Life = "none" /\ Life' = "open"
  \/ Life = "open" /\ Life' \in {"passed", "selected"}
  \/ Life = "selected" /\ Life' = "applied"
  \/ Life \in {"open", "passed", "selected", "applied"} /\ Life' = "done"

LEMMA StoryInit == ASSUME Init PROVE Once /\ Story /\ Life = "none"
  <1>1. Once
    BY DEF Init, Once, Finishing, Directions
  <1>2. log = <<>> /\ pc = "accepted" /\ applied = FALSE
    BY DEF Init
  <1>3. ~Said("fault_applied")
    BY <1>2 DEF Said
  <1>4. Life = "none"
    BY <1>2 DEF Life
  <1>5. log \in Seq(Logged)
    BY <1>2
  <1>6. Life = Stage
    BY <1>2, <1>4 DEF Stage
  <1> QED
    BY Zenon, <1>1, <1>2, <1>3, <1>4, <1>5, <1>6 DEF Story

LEMMA StoryStep == ASSUME IInv, Once, Story, [Next]_vars PROVE Story' /\ (Life' = Life \/ Advances)
  <1>0. log \in Seq(Logged) /\ applied \in BOOLEAN /\ (Said("fault_applied") <=> applied) /\ Life = Stage
    BY DEF Story
  <1>n. NoFault.action = "none"
    BY TcpAssumption
  <1>1. CASE RecordStarted
    <2>1. /\ pc = "accepted" /\ pc' = "started" /\ UNCHANGED <<fault, applied>> /\ Record("flow_started", FALSE)
      BY Zenon, <1>1 DEF RecordStarted, Step
    <2>2. Event("flow_started", FALSE) \in Logged
      BY DEF Event, Logged
    <2>3. log' \in Seq(Logged) /\ (Said("fault_applied")' <=> Said("fault_applied")) /\ Life' = "open"
      BY Zenon, <1>0, <2>1, <2>2, LogGrows
    <2> QED
      BY <1>0, <2>1, <2>3 DEF Story, Stage, Advances
  <1>2. CASE RecordDecision
    <2>1. /\ pc = "started" /\ pc' \in {"delay", "dial"} /\ UNCHANGED <<fault, applied>>
          /\ Record("decision", fault # NoFault)
      BY <1>2 DEF RecordDecision, Step
    <2>2. Event("decision", fault # NoFault) \in Logged
      BY DEF Event, Logged
    <2>3. /\ log' \in Seq(Logged) /\ (Said("fault_applied")' <=> Said("fault_applied"))
          /\ Life' = IF fault # NoFault THEN "selected" ELSE "passed"
      BY Zenon, <1>0, <2>1, <2>2, LogGrows
    <2>4. ~applied
      BY <2>1, Activity DEF Once
    <2> QED
      BY <1>0, <2>1, <2>3, <2>4 DEF Story, Stage, Advances
  <1>3. CASE DelayOver \/ \E who \in Callers : ActivateEnd(who)
    <2>1. /\ UNCHANGED fault /\ applied' = TRUE /\ Record("fault_applied", TRUE)
      BY Zenon, <1>3 DEF DelayOver, ActivateEnd, Step
    <2>2. Event("fault_applied", TRUE) \in Logged
      BY DEF Event, Logged
    <2>3. log' \in Seq(Logged) /\ Said("fault_applied")' /\ Life' = "applied"
      BY Zenon, <1>0, <2>1, <2>2, LogGrows
    <2>4. /\ ~applied /\ fault # NoFault
          /\ pc \notin {"accepted", "started", "finished", "ended"}
          /\ pc' \notin {"accepted", "started", "finished", "ended"}
      <3>1. CASE DelayOver
        BY <1>n, <3>1, Activity DEF DelayOver, Step, Once
      <3>2. CASE \E who \in Callers : ActivateEnd(who)
        <4>1. PICK who \in Callers : ActivateEnd(who)
          BY <3>2
        <4>2. mu = who /\ who # "free" /\ (pc' = pc \/ pc' = "forward")
          BY <4>1 DEF ActivateEnd, Returns, Callers, Directions
        <4> QED
          BY <1>n, <4>2, Activity DEF Once, Finishing
      <3> QED
        BY <1>3, <3>1, <3>2
    <2> QED
      BY <1>0, <2>1, <2>3, <2>4 DEF Story, Stage, Advances
  <1>4. CASE RecordFinished
    <2>1. /\ pc = "finish" /\ pc' = "finished" /\ UNCHANGED <<fault, applied>> /\ Record("flow_finished", applied)
      BY <1>4 DEF RecordFinished, Step
    <2>2. Event("flow_finished", applied) \in Logged
      BY <1>0 DEF Event, Logged
    <2>3. applied = Said("fault_applied")
      BY Zenon, <1>0 DEF Said
    <2>4. log' \in Seq(Logged) /\ (Said("fault_applied")' <=> Said("fault_applied")) /\ Life' = "done"
      BY <1>0, <2>1, <2>2, <2>3, LogGrows
    <2> QED
      BY <1>0, <2>1, <2>4 DEF Story, Stage, Advances
  <1>5. ASSUME UNCHANGED <<fault, applied, log>>,
               \/ pc' = pc
               \/ pc = "finished" /\ pc' = "ended"
               \/ {pc, pc'} \cap {"accepted", "started", "finished", "ended"} = {}
        PROVE  Story' /\ Life' = Life
    <2>1. (Said("fault_applied")' <=> Said("fault_applied")) /\ Life' = Life
      BY <1>5 DEF Said, Life
    <2>2. Stage' = Stage
      BY Zenon, <1>5 DEF Stage
    <2> QED
      BY <1>0, <1>5, <2>1, <2>2 DEF Story
  <1>6. CASE DelayFails \/ DialFails \/ Forward \/ Join \/ Stop \/ End \/ Dial
    <2>1. UNCHANGED <<fault, applied, log>>
      BY Zenon, <1>6 DEF DelayFails, DialFails, Forward, Join, Stop, End, Dial, Step, said
    <2>2. \/ pc = "finished" /\ pc' = "ended"
          \/ {pc, pc'} \cap {"accepted", "started", "finished", "ended"} = {}
      BY <1>6 DEF DelayFails, DialFails, Forward, Join, Stop, End, Dial, Step
    <2> QED
      BY <1>5, <2>1, <2>2
  <1>7. CASE \E who \in Callers : ActivateBegin(who)
    <2>1. PICK who \in Callers : ActivateBegin(who)
      BY <1>7
    <2>2. UNCHANGED <<fault, applied, log>>
      BY Zenon, <2>1 DEF ActivateBegin, said
    <2>3. pc' = pc \/ (pc = "activate" /\ pc' = "forward")
      BY <2>1 DEF ActivateBegin, Returns, Calls, Directions
    <2> QED
      BY <1>5, <2>2, <2>3
  <1>8. CASE \E d \in Directions : Pump(d) \/ Write(d) \/ \E n \in 1 .. ReadSize : Read(d, n)
    <2>1. UNCHANGED <<fault, applied, log, pc>>
      BY Zenon, <1>8 DEF Pump, Write, Read, Check, Return, ReadPrefetched, Got, AfterWrite, WriteFails, NextChunk,
        Goto, said
    <2> QED
      BY <1>5, <2>1
  <1>9. CASE \/ TimerFires \/ HoldTimerFires \/ ContextEnds \/ Ended \/ UNCHANGED vars
             \/ (\E e \in Ends : ContextCloses(e)) \/ \E n \in 1 .. PrefetchSize : Prefetch(n)
    <2>1. UNCHANGED <<fault, applied, log>> /\ pc' = pc
      BY Zenon, <1>9 DEF TimerFires, HoldTimerFires, ContextEnds, Ended, ContextCloses, Prefetch, Step, said, vars
    <2> QED
      BY <1>5, <2>1
  <1> QED
    BY Zenon, <1>1, <1>2, <1>3, <1>4, <1>6, <1>7, <1>8, <1>9 DEF Next, Peer, Activate, Serve

\* The events of a connection come in the order that the recorder counts on: serve, its
\* timer, its pumps and whoever calls activate implement FlowEvents, with the one flow that
\* the connection is.
THEOREM FlowRefinesFlowEvents == Spec => RecordsInOrder
<1> DEFINE lives == [f \in {"flow"} |-> Life]
<1>1. Init => E!FlowInit
  BY Zenon, StoryInit DEF E!FlowInit
<1>2. Life' = Life => lives' = lives
  OBVIOUS
<1>3. Advances => E!FlowNext
  <2> SUFFICES ASSUME Advances PROVE E!FlowNext
    OBVIOUS
  <2>1. \A s : lives' = [lives EXCEPT !["flow"] = s] <=> Life' = s
    OBVIOUS
  <2>2. lives["flow"] = Life
    OBVIOUS
  <2> HIDE DEF lives
  <2>3. \/ lives["flow"] = "none" /\ lives' = [lives EXCEPT !["flow"] = "open"]
        \/ lives["flow"] = "open" /\ \E s \in BOOLEAN :
             lives' = [lives EXCEPT !["flow"] = IF s THEN "selected" ELSE "passed"]
        \/ lives["flow"] = "selected" /\ lives' = [lives EXCEPT !["flow"] = "applied"]
        \/ lives["flow"] \in E!Open /\ lives' = [lives EXCEPT !["flow"] = "done"]
    BY Zenon, <2>1, <2>2 DEF Advances, E!Open
  <2> QED
    BY Zenon, <2>3 DEF E!FlowNext, E!Start, E!Decide, E!ApplyFault, E!Finish, lives
<1>4. IInv /\ Once /\ Story /\ [Next]_vars => (IInv /\ Once /\ Story)' /\ [E!FlowNext]_lives
  BY Zenon, <1>2, <1>3, TcpStep, OnceStep, StoryStep
<1>5. Init => IInv /\ Once /\ Story
  BY Zenon, TcpInit, StoryInit
<1> QED
  BY <1>1, <1>4, <1>5, PTL DEF Spec, RecordsInOrder, E!FlowSpec
=============================================================================
