-------------------------- MODULE PgExchangeProofs --------------------------
(***************************************************************************)
(* The safety properties of a PostgreSQL session, for any statements and   *)
(* any number of frames, and that its cycles implement FlowEvents.         *)
(*                                                                         *)
(* The view that the loop has of the transaction lags behind the database  *)
(* by the frames that are still coming, so the invariant speaks about      *)
(* those:                                                                  *)
(*   - Order: a ReadyForQuery is the last frame of its cycle, and when the *)
(*     loop has taken it nothing is under way and the view is right;       *)
(*   - Views: as long as the database has committed nothing in the cycle,  *)
(*     the frames that come take the view through values with which no     *)
(*     COMMIT among them counts;                                           *)
(*   - Single: the COMMIT of a cycle of one statement meets a view that is *)
(*     true, unless the pump has stopped and the cycle will not be relayed *)
(*     to its end;                                                         *)
(*   - Decisions, Acks, Counted and Told: what follows for the decision,   *)
(*     the acknowledgment, the number of the cycle and its events.         *)
(***************************************************************************)
EXTENDS PgExchange, TLAPS

Blocks == {"I", "T", "E"}
Ends == {"ready", "sync"}
TokenSet == [op : Statements \cup {"parse"} \cup Ends, simple : BOOLEAN]

Tags == {"BEGIN", "START", "COMMIT", "ROLLBACK", "OTHER"}
Backs ==
  {f \in [kind : {"C", "E", "G", "1", "Z"}, tag : {"none"} \cup Tags \cup Blocks, cycle : Nat] :
     /\ f.kind = "C" => f.tag \in Tags
     /\ f.kind \in {"E", "G", "1"} => f.tag = "none"
     /\ f.kind = "Z" => f.tag \in Blocks}
Frames == Backs \cup {NoFrame, Unread}

Over == {"return", "closing", "done"}
Deciding == {"record", "apply"}

\* The pumps, and what is under way through them.
Wires ==
  /\ wire \in Seq(Backs)
  /\ pump \in [Legs -> {"read", "send", "done"}]
  /\ hand \in [Legs -> Frames] /\ channel \in [Legs -> Seq(Frames)]
  /\ channel["back"] \in Seq(Backs)
  /\ IF pump["back"] = "send" THEN hand["back"] \in Backs ELSE hand["back"] = NoFrame
  /\ \A l \in Legs : Len(channel[l]) <= Capacity

\* The rest of the state.
Values ==
  /\ block \in Blocks /\ skip \in {"nothing"} \cup Ends /\ work \in Seq(TokenSet)
  /\ pc = "write_up" => frame \in FrontFrames
  /\ pc \in {"write_down"} \cup Deciding => frame \in Backs
  /\ active \in BOOLEAN /\ awaiting \in BOOLEAN /\ transaction \in BOOLEAN
  /\ decided \in BOOLEAN /\ committed \in BOOLEAN
  /\ statements \in Nat /\ cycle \in Nat
  /\ outcome \in {"forwarded", "upstream_error"}

Types == Wires /\ Values

\* Nothing of the cycle is under way and the view of the transaction is right.
Clear ==
  /\ work = <<>> /\ wire = <<>> /\ channel["back"] = <<>> /\ pump["back"] # "send"
  /\ skip = "nothing" /\ ~awaiting /\ (transaction <=> block # "I")

\* f is the ReadyForQuery of the cycle, and the database is done with it.
Closing == active /\ awaiting /\ work = <<>> /\ skip = "nothing" /\ pc # "write_up"
Closes(f) == f.cycle = cycle /\ f.tag = block /\ Closing

Order ==
  Running =>
    /\ ~active => Clear /\ pc = "select"
    /\ pc = "write_down" /\ frame.kind = "Z" => Clear /\ frame.cycle = cycle
    /\ pc \in Deciding => frame.kind # "Z"
    /\ pc = "write_up" => (awaiting <=> frame.kind \in {"Q", "S"})
    /\ \A i \in 1 .. Len(work) : work[i].op \in Ends => i = Len(work) /\ awaiting /\ pc # "write_up"
    /\ \A i \in 1 .. Len(wire) : wire[i].kind = "Z" => i = Len(wire) /\ Closes(wire[i])
    /\ hand["back"].kind = "Z" => wire = <<>> /\ Closes(hand["back"])
    /\ \A i \in 1 .. Len(channel["back"]) : channel["back"][i].kind = "Z" =>
         pump["back"] # "send" /\ wire = <<>> /\ Closes(channel["back"][i])

\* The frames that the loop can still receive, in their order.
InHand == IF pump["back"] = "send" THEN <<hand["back"]>> ELSE <<>>
OnWire == IF pump["back"] = "done" THEN <<>> ELSE wire
Coming == channel["back"] \o InHand \o OnWire

\* What the view of the transaction becomes with a frame, before any decision; and the
\* frames of s after which it is true, when it is V: no COMMIT finds it true.
After(f, view) ==
  IF f.kind = "Z" THEN f.tag # "I"
  ELSE f.tag = "BEGIN" \/ (f.tag \notin {"COMMIT", "ROLLBACK"} /\ view)

Forecast(s, V) ==
  \A i \in 1 .. Len(s) :
    /\ i \in V <=> After(s[i], i - 1 \in V)
    /\ s[i].tag = "COMMIT" => i - 1 \notin V

Calm == pump["back"] # "done" /\ block = "I" /\ skip = "nothing"

Seen ==
  \E V \in SUBSET (0 .. Len(Coming)) :
    (transaction <=> 0 \in V) /\ Forecast(Coming, V) /\ (Calm => Len(Coming) \notin V)

Views == Running /\ active /\ ~committed => Seen

\* A statement of the cycle has not been executed yet; and none has.
Statement(t) == t.op \in Statements
Pending == (\E i \in 1 .. Len(work) : Statement(work[i])) \/ (pc = "write_up" /\ frame.todo # <<>>)
Fresh ==
  /\ ~committed /\ skip = "nothing" /\ (transaction <=> block # "I")
  /\ \A i \in 1 .. Len(Coming) : Coming[i].kind \in {"1", "Z"}

\* The COMMIT of a cycle of one statement will be seen as one, or the cycle is not relayed to its end.
Awaited == \E i \in 1 .. Len(Coming) :
  Coming[i].tag = "COMMIT" /\ transaction /\ \A k \in 1 .. i - 1 : Coming[k].kind = "1"
Severed ==
  /\ pump["back"] = "done" /\ ~(pc = "write_down" /\ frame.kind = "Z")
  /\ \A i \in 1 .. Len(Coming) : Coming[i].kind # "Z"

Untouched ==
  /\ statements = 0 => ~Pending
  /\ statements = 0 \/ (statements = 1 /\ Pending) => Fresh

Alone ==
  statements = 1 =>
    /\ \A i, j \in 1 .. Len(work) : Statement(work[i]) /\ Statement(work[j]) => i = j
    /\ pc = "write_up" /\ frame.todo # <<>> =>
         Len(frame.todo) = 1 /\ \A i \in 1 .. Len(work) : ~Statement(work[i])

Noticed == statements = 1 /\ committed /\ ~decided => Awaited \/ Severed

Single == Running /\ active => Untouched /\ Alone /\ Noticed

Decisions ==
  /\ decided => committed
  /\ active => finished = "none"
  /\ finished = "forwarded" /\ committed /\ statements = 1 => decided

Acks ==
  /\ acked => decided
  /\ fault \in {"hold_response", "close_connection"} => pc \in Deciding \cup Over /\ ~acked
  /\ pc \in Deciding => decided /\ ~acked
  /\ finished = "commit_ack_lost" => committed /\ ~acked /\ pc \in Over

\* A cycle has its first frame from the client; and its events are in order.
Held == IF pump["front"] = "send" THEN 1 ELSE 0
Counted == sent \in 0 .. MaxFrames /\ cycle + Len(channel["front"]) + Held <= sent

Told ==
  /\ ~active => life = IF cycle = 0 THEN "none" ELSE "done"
  /\ active => cycle > 0 /\ life \in {"open", "passed", "selected", "applied"}
  /\ active /\ ~decided => life = "open"
  /\ pc \in Deciding => active /\ life = IF pc = "record" THEN "selected" ELSE "applied"

IInv == Types /\ Order /\ Views /\ Single /\ Decisions /\ Acks /\ Counted /\ Told

-----------------------------------------------------------------------------
(* Sequences *)

\* Sequences: what is left of one, what is added to one, and one after another.
LEMMA TailIs ==
  ASSUME NEW S, NEW w \in Seq(S), w # <<>>
  PROVE  /\ Head(w) \in S /\ Head(w) = w[1] /\ Len(w) \in Nat /\ Len(w) >= 1
         /\ Tail(w) \in Seq(S) /\ Len(Tail(w)) = Len(w) - 1
         /\ \A k \in 1 .. Len(w) - 1 : Tail(w)[k] = w[k + 1]
  <1>1. Len(w) \in Nat /\ Len(w) >= 1
    OBVIOUS
  <1>2. Head(w) \in S /\ Head(w) = w[1]
    BY <1>1
  <1>3. Tail(w) \in Seq(S) /\ Len(Tail(w)) = Len(w) - 1
    BY <1>1
  <1>4. \A k \in 1 .. Len(w) - 1 : Tail(w)[k] = w[k + 1]
    BY <1>1
  <1> QED
    BY Zenon, <1>1, <1>2, <1>3, <1>4

LEMMA AppendIs ==
  ASSUME NEW S, NEW w \in Seq(S), NEW a \in S
  PROVE  /\ Append(w, a) \in Seq(S) /\ Len(w) \in Nat /\ Len(Append(w, a)) = Len(w) + 1
         /\ \A k \in 1 .. Len(w) : Append(w, a)[k] = w[k]
         /\ Append(w, a)[Len(w) + 1] = a
  OBVIOUS

LEMMA ConcatIs ==
  ASSUME NEW S, NEW w \in Seq(S), NEW t \in Seq(S)
  PROVE  /\ w \o t \in Seq(S) /\ Len(w \o t) = Len(w) + Len(t)
         /\ Len(w) \in Nat /\ Len(t) \in Nat
         /\ \A k \in 1 .. Len(w) : (w \o t)[k] = w[k]
         /\ \A k \in 1 .. Len(t) : (w \o t)[Len(w) + k] = t[k]
  OBVIOUS

LEMMA ConcatNone ==
  ASSUME NEW S, NEW w \in Seq(S)
  PROVE  w \o <<>> = w /\ <<>> \o w = w
  OBVIOUS

\* A frame goes through the hands of a pump and its channel.
LEMMA Passing ==
  ASSUME NEW S, NEW w \in Seq(S), NEW h \in S
  PROVE  /\ (<<>> \o <<h>>) \o w = (Append(<<>>, h) \o <<>>) \o w
         /\ w # <<>> => <<Head(w)>> \o Tail(w) = w
  OBVIOUS

\* A channel of capacity one, and the sequences that tokens and frames are made of.
LEMMA AtMostOne ==
  ASSUME NEW S, NEW w \in Seq(S), Len(w) <= 1
  PROVE  Len(w) \in 0 .. 1 /\ (w # <<>> => Len(w) = 1)
  <1>1. Len(w) \in Nat
    OBVIOUS
  <1>2. w # <<>> => Len(w) # 0
    OBVIOUS
  <1>3. \A n \in Nat : n <= 1 => n \in 0 .. 1 /\ (n # 0 => n = 1)
    OBVIOUS
  <1> QED
    BY <1>1, <1>2, <1>3, Zenon

LEMMA FunSeq == ASSUME NEW S, NEW n \in Nat, NEW g \in [1 .. n -> S] PROVE g \in Seq(S) /\ Len(g) = n
  OBVIOUS

LEMMA OneMore ==
  ASSUME NEW S, NEW g \in Seq(S), NEW a \in S
  PROVE  /\ g \o <<a>> \in Seq(S) /\ Len(g \o <<a>>) = Len(g) + 1
         /\ \A i \in 1 .. Len(g) : (g \o <<a>>)[i] = g[i]
         /\ (g \o <<a>>)[Len(g) + 1] = a
  OBVIOUS

LEMMA OneIs ==
  ASSUME NEW S, NEW a \in S
  PROVE  <<a>> \in Seq(S) /\ Len(<<a>>) = 1 /\ \A i \in 1 .. 1 : i = 1 /\ <<a>>[i] = a
  OBVIOUS

-----------------------------------------------------------------------------
(* Frames and their way from the database to the loop *)

\* The frames and the legs.
LEMMA NoFrameIs ==
  /\ NoFrame.kind = "none" /\ Unread.kind = "unread" /\ NoFrame \in Frames /\ Unread \in Frames
  /\ \A f \in Backs : f \in Frames /\ f.kind \in {"C", "E", "G", "1", "Z"}
  BY Zenon DEF NoFrame, Unread, Back, Front, Frames, Backs

LEMMA LegsAre == Legs = {"front", "back"} /\ "front" \in Legs /\ "back" \in Legs
  BY Zenon DEF Legs

\* What is coming to the loop: a frame in the channel, one in the hand of the pump, and the wire.
LEMMA PartsType ==
  ASSUME Types
  PROVE  /\ channel["back"] \in Seq(Backs) /\ InHand \in Seq(Backs) /\ OnWire \in Seq(Backs)
         /\ Len(channel["back"]) \in 0 .. 1 /\ Len(InHand) \in 0 .. 1 /\ Len(OnWire) \in Nat
         /\ channel["back"] # <<>> => Len(channel["back"]) = 1
         /\ Len(InHand) = 1 => pump["back"] = "send" /\ InHand[1] = hand["back"]
         /\ Len(OnWire) # 0 => OnWire = wire
  <1>1. channel["back"] \in Seq(Backs) /\ wire \in Seq(Backs) /\ Len(channel["back"]) <= 1
    BY LegsAre, Zenon DEF Types, Wires, Capacity
  <1>2. Len(channel["back"]) \in 0 .. 1 /\ (channel["back"] # <<>> => Len(channel["back"]) = 1)
    BY <1>1, AtMostOne, Zenon
  <1>3. /\ InHand \in Seq(Backs) /\ Len(InHand) \in 0 .. 1
        /\ Len(InHand) = 1 => pump["back"] = "send" /\ InHand[1] = hand["back"]
    <2>1. CASE pump["back"] = "send"
      <3>1. hand["back"] \in Backs
        BY <2>1, Zenon DEF Types, Wires
      <3> QED
        BY <2>1, <3>1 DEF InHand
    <2>2. CASE pump["back"] # "send"
      BY <2>2 DEF InHand
    <2> QED
      BY <2>1, <2>2, Zenon
  <1>4. OnWire \in Seq(Backs) /\ Len(OnWire) \in Nat /\ (Len(OnWire) # 0 => OnWire = wire)
    BY <1>1 DEF OnWire
  <1> QED
    BY <1>1, <1>2, <1>3, <1>4, Zenon

LEMMA ComingType == ASSUME Types PROVE Coming \in Seq(Backs) /\ Len(Coming) \in Nat
  <1>1. channel["back"] \in Seq(Backs) /\ InHand \in Seq(Backs) /\ OnWire \in Seq(Backs)
    BY PartsType, Zenon
  <1>2. Coming \in Seq(Backs)
    BY <1>1 DEF Coming
  <1> QED
    BY <1>2

LEMMA ComingParts ==
  ASSUME Types
  PROVE  /\ Len(Coming) = Len(channel["back"]) + Len(InHand) + Len(OnWire)
         /\ \A i \in 1 .. Len(channel["back"]) : Coming[i] = channel["back"][i]
         /\ \A i \in 1 .. Len(InHand) : Coming[Len(channel["back"]) + i] = InHand[i]
         /\ \A i \in 1 .. Len(OnWire) : Coming[Len(channel["back"]) + Len(InHand) + i] = OnWire[i]
  <1>1. channel["back"] \in Seq(Backs) /\ InHand \in Seq(Backs) /\ OnWire \in Seq(Backs)
    BY PartsType, Zenon
  <1>2. Len(Coming) = Len(channel["back"]) + Len(InHand) + Len(OnWire)
    BY <1>1 DEF Coming
  <1>3. \A i \in 1 .. Len(channel["back"]) : Coming[i] = channel["back"][i]
    BY <1>1 DEF Coming
  <1>4. \A i \in 1 .. Len(InHand) : Coming[Len(channel["back"]) + i] = InHand[i]
    BY <1>1 DEF Coming
  <1>5. \A i \in 1 .. Len(OnWire) : Coming[Len(channel["back"]) + Len(InHand) + i] = OnWire[i]
    BY <1>1 DEF Coming
  <1> QED
    BY <1>2, <1>3, <1>4, <1>5, Zenon

\* The frames that come, one by one.
LEMMA ComingFrom ==
  ASSUME Types, NEW i \in 1 .. Len(Coming)
  PROVE  \/ \E k \in 1 .. Len(channel["back"]) : Coming[i] = channel["back"][k]
         \/ pump["back"] = "send" /\ Coming[i] = hand["back"]
         \/ \E k \in 1 .. Len(wire) : Coming[i] = wire[k]
  <1> DEFINE n == Len(channel["back"])
             m == Len(InHand)
  <1>1. /\ n \in 0 .. 1 /\ m \in 0 .. 1 /\ Len(OnWire) \in Nat
        /\ Len(Coming) = n + m + Len(OnWire)
    BY PartsType, ComingParts, Zenon
  <1>2. /\ \A k \in 1 .. n : Coming[k] = channel["back"][k]
        /\ \A k \in 1 .. m : Coming[n + k] = InHand[k]
        /\ \A k \in 1 .. Len(OnWire) : Coming[n + m + k] = OnWire[k]
    BY ComingParts, Zenon
  <1>3. m = 1 => pump["back"] = "send" /\ InHand[1] = hand["back"]
    BY PartsType, Zenon
  <1>4. Len(OnWire) # 0 => OnWire = wire
    BY PartsType, Zenon
  <1> HIDE DEF n, m
  <1>5. CASE i <= n
    BY <1>1, <1>2, <1>5 DEF n
  <1>6. CASE m = 1 /\ i = n + 1
    BY <1>1, <1>2, <1>3, <1>6
  <1>7. CASE i > n + m
    <2> DEFINE k == i - n - m
    <2>1. k \in 1 .. Len(OnWire) /\ i = n + m + k
      BY <1>1, <1>7
    <2> HIDE DEF k
    <2>2. Coming[i] = OnWire[k]
      BY <1>2, <2>1, Zenon
    <2>3. OnWire = wire
      BY <1>1, <1>4, <2>1
    <2> QED
      BY <2>1, <2>2, <2>3, Zenon
  <1> QED
    BY <1>1, <1>5, <1>6, <1>7

\* Nothing comes when nothing is under way.
LEMMA ComingNone ==
  ASSUME channel["back"] = <<>>, pump["back"] # "send", wire = <<>>
  PROVE  Coming = <<>> /\ Len(Coming) = 0
  BY DEF Coming, InHand, OnWire

\* The pump moves what is coming, and changes nothing of it.
LEMMA ComingKept ==
  ASSUME Types, Types', \/ PumpRead("back") \/ PumpSend("back")
                \/ UNCHANGED <<channel["back"], pump["back"], hand["back"], wire>>
  PROVE  Coming' = Coming
  <1>1. channel["back"] \in Seq(Backs) /\ wire \in Seq(Backs) /\ Len(channel["back"]) <= 1
    BY LegsAre, Zenon DEF Types, Wires, Capacity
  <1>2. pump \in [Legs -> {"read", "send", "done"}] /\ hand \in [Legs -> Frames]
        /\ channel \in [Legs -> Seq(Frames)]
    BY Zenon DEF Types, Wires
  <1>3. CASE PumpRead("back")
    <2>1. /\ wire # <<>> /\ wire' = Tail(wire) /\ hand'["back"] = Head(wire)
          /\ pump["back"] = "read" /\ pump'["back"] = "send" /\ channel' = channel
      BY <1>2, <1>3, LegsAre, Zenon DEF PumpRead, Readable
    <2>2. Coming = channel["back"] \o wire
      BY <1>1, <2>1 DEF Coming, InHand, OnWire
    <2>3. Coming' = (channel["back"] \o <<Head(wire)>>) \o Tail(wire)
      BY <2>1, Zenon DEF Coming, InHand, OnWire
    <2>4. Tail(wire) \in Seq(Backs) /\ Head(wire) \in Backs /\ <<Head(wire)>> \o Tail(wire) = wire
      BY <1>1, <2>1, TailIs, Passing, Zenon
    <2>5. (channel["back"] \o <<Head(wire)>>) \o Tail(wire) = channel["back"] \o (<<Head(wire)>> \o Tail(wire))
      BY <1>1, <2>4
    <2> QED
      BY <2>2, <2>3, <2>4, <2>5, Zenon
  <1>4. CASE PumpSend("back")
    <2>1. /\ channel'["back"] = Append(channel["back"], hand["back"]) /\ channel["back"] = <<>>
          /\ pump["back"] = "send" /\ pump'["back"] = "read" /\ wire' = wire
      BY <1>1, <1>2, <1>4, LegsAre DEF PumpSend, Room, Capacity, database
    <2>2. hand["back"] \in Backs
      BY <2>1, Zenon DEF Types, Wires
    <2> QED
      BY <1>1, <2>1, <2>2, Passing DEF Coming, InHand, OnWire
  <1>5. CASE UNCHANGED <<channel["back"], pump["back"], hand["back"], wire>>
    BY <1>5, Zenon DEF Coming, InHand, OnWire
  <1> QED
    BY <1>3, <1>4, <1>5, Zenon

\* The loop takes the first of what is coming.
LEMMA ComingTaken ==
  ASSUME Types, channel["back"] # <<>>, channel' = [channel EXCEPT !["back"] = Tail(channel["back"])],
         UNCHANGED <<pump, hand, wire>>
  PROVE  /\ Len(Coming) >= 1 /\ Coming[1] = Head(channel["back"]) /\ Coming[1] \in Backs
         /\ Len(Coming') = Len(Coming) - 1
         /\ \A i \in 1 .. Len(Coming) - 1 : Coming'[i] = Coming[i + 1]
  <1> DEFINE m == Len(InHand)
             n == Len(OnWire)
  <1>1. /\ Len(channel["back"]) = 1 /\ channel["back"] \in Seq(Backs)
        /\ InHand \in Seq(Backs) /\ OnWire \in Seq(Backs) /\ m \in Nat /\ n \in Nat
    BY PartsType
  <1>2. Len(Coming) = 1 + m + n /\ Coming[1] = channel["back"][1]
    BY <1>1, ComingParts
  <1>3. \A i \in 1 .. m : Coming[1 + i] = InHand[i]
    BY <1>1, ComingParts, Zenon
  <1>4. \A i \in 1 .. n : Coming[1 + m + i] = OnWire[i]
    BY <1>1, ComingParts, Zenon
  <1>5. channel'["back"] = <<>>
    BY <1>1, LegsAre DEF Types, Wires
  <1>6. Coming' = InHand \o OnWire
    <2>1. Coming' = (<<>> \o InHand) \o OnWire
      BY <1>5, Zenon DEF Coming, InHand, OnWire
    <2> QED
      BY <1>1, <2>1, ConcatNone, Zenon
  <1>7. /\ Len(Coming') = m + n
        /\ \A i \in 1 .. m : Coming'[i] = InHand[i]
    BY <1>1, <1>6
  <1>8. \A i \in 1 .. n : Coming'[m + i] = OnWire[i]
    BY <1>1, <1>6
  <1> HIDE DEF m, n
  <1>9. ASSUME NEW i \in 1 .. Len(Coming) - 1
        PROVE  Coming'[i] = Coming[i + 1]
    <2>1. CASE i <= m
      BY <1>1, <1>2, <1>3, <1>7, <2>1
    <2>2. CASE i > m
      <3> DEFINE k == i - m
      <3>1. k \in 1 .. n /\ i = m + k /\ i + 1 = 1 + m + k
        BY <1>1, <1>2, <2>2
      <3> HIDE DEF k
      <3> QED
        BY <1>4, <1>8, <3>1, Zenon
    <2> QED
      BY <1>1, <1>2, <2>1, <2>2
  <1>10. Head(channel["back"]) = channel["back"][1] /\ channel["back"][1] \in Backs
    BY <1>1
  <1>11. Len(Coming) >= 1 /\ Len(Coming') = Len(Coming) - 1
    BY <1>1, <1>2, <1>7
  <1> QED
    BY <1>2, <1>9, <1>10, <1>11, Zenon

\* What the database sends comes last, unless the pump has stopped.
LEMMA ComingSent ==
  ASSUME Types, NEW f \in Backs, wire' = Append(wire, f), UNCHANGED <<pump, hand, channel>>
  PROVE  /\ pump["back"] # "done" => Coming' = Append(Coming, f)
         /\ pump["back"] = "done" => Coming' = Coming
  <1> DEFINE c == channel["back"] \o InHand
  <1>1. c \in Seq(Backs) /\ wire \in Seq(Backs)
    BY PartsType DEF Types, Wires
  <1>2. CASE pump["back"] # "done"
    <2>1. Coming = c \o wire /\ Coming' = c \o Append(wire, f)
      BY <1>2, Zenon DEF Coming, InHand, OnWire
    <2> HIDE DEF c
    <2>2. c \o Append(wire, f) = Append(c \o wire, f)
      BY <1>1
    <2> QED
      BY <1>2, <2>1, <2>2, Zenon
  <1>3. CASE pump["back"] = "done"
    BY <1>3, Zenon DEF Coming, InHand, OnWire
  <1> QED
    BY <1>2, <1>3, Zenon

\* A pump that ends takes what it has not sent with it.
LEMMA ComingCut ==
  ASSUME Types, PumpQuits("back") \/ PumpFails("back")
  PROVE  /\ Coming' = channel["back"] /\ pump'["back"] = "done" /\ pump["back"] # "done"
         /\ Len(Coming') \in Nat /\ Len(Coming') <= Len(Coming)
         /\ \A i \in 1 .. Len(Coming') : Coming'[i] = Coming[i]
  <1>1. pump'["back"] = "done" /\ pump["back"] # "done" /\ channel' = channel
    BY LegsAre, Zenon DEF Types, Wires, PumpQuits, PumpFails
  <1>2. channel["back"] \in Seq(Backs)
    BY Zenon DEF Types, Wires
  <1>3. Coming' = channel["back"]
    BY <1>1, <1>2 DEF Coming, InHand, OnWire
  <1>4. Len(Coming') <= Len(Coming)
    BY <1>3, PartsType, ComingParts
  <1> QED
    BY <1>1, <1>2, <1>3, <1>4, ComingParts

-----------------------------------------------------------------------------
(* The database's answers, and what a frame of the client asks of it *)

\* An answer in transaction status b: what it says, and the status after it.
Sound(op, b, r) ==
  /\ r.kind \in {"C", "E", "G", "1", "Z"} /\ r.block \in Blocks
  /\ r.kind = "C" => r.tag \in Tags /\ op \in Statements
  /\ r.kind \in {"E", "G"} => r.tag = "none" /\ op \in Statements
  /\ r.kind = "1" => r.tag = "none" /\ op = "parse" /\ r.block = b
  /\ r.kind = "Z" => r.tag = b /\ op \in Ends /\ r.block = b
  /\ r.tag = "COMMIT" => r.kind = "C" /\ (b = "T" \/ (b = "I" /\ r.block = "I"))
  /\ r.tag = "BEGIN" => r.kind = "C" /\ r.block = "T"
  /\ b # "I" /\ r.block = "I" /\ r.kind # "E" => r.tag \in {"COMMIT", "ROLLBACK"}

\* PostgreSQL answers as Sound says: this is all that the rest of the proof knows of it.
LEMMA AnswersAreSound == \A a \in Answers : Sound(a[1], a[2], a[3])
  <1> USE DEF Sound, Done, Error, Reply, Blocks, Tags, Ends, Statements
  <1>1. \A a \in {"begin"} \X {"I", "T"} \X {Done("BEGIN", "T")} : Sound(a[1], a[2], a[3])
    OBVIOUS
  <1>2. \A a \in {"start"} \X {"I", "T"} \X {Done("START", "T")} : Sound(a[1], a[2], a[3])
    OBVIOUS
  <1>3. \A a \in {"commit"} \X {"I", "T"} \X {Done("COMMIT", "I")} : Sound(a[1], a[2], a[3])
    OBVIOUS
  <1>4. \A a \in {"chain"} \X {"T"} \X {Done("COMMIT", "T")} : Sound(a[1], a[2], a[3])
    OBVIOUS
  <1>5. \A a \in {"commit", "chain"} \X {"T"} \X {Error("I")} : Sound(a[1], a[2], a[3])
    OBVIOUS
  <1>6. \A a \in {"commit"} \X {"E"} \X {Done("ROLLBACK", "I")} : Sound(a[1], a[2], a[3])
    OBVIOUS
  <1>7. \A a \in {"chain"} \X {"E"} \X {Done("ROLLBACK", "T")} : Sound(a[1], a[2], a[3])
    OBVIOUS
  <1>8. \A a \in {"rollback"} \X {"I", "T", "E"} \X {Done("ROLLBACK", "I")} : Sound(a[1], a[2], a[3])
    OBVIOUS
  <1>9. \A a \in {"rollback_to"} \X {"T", "E"} \X {Done("ROLLBACK", "T")} : Sound(a[1], a[2], a[3])
    OBVIOUS
  <1>10. \A a \in {"chain", "rollback_to", "other"} \X {"I"} \X {Error("I")} : Sound(a[1], a[2], a[3])
    OBVIOUS
  <1>11. \A a \in {"other"} \X {"T"} \X {Error("E")} : Sound(a[1], a[2], a[3])
    OBVIOUS
  <1>12. \A a \in {"begin", "start", "copy", "other"} \X {"E"} \X {Error("E")} : Sound(a[1], a[2], a[3])
    OBVIOUS
  <1>13. \A a \in {<<"other", b, Done("OTHER", b)>> : b \in {"I", "T"}} : Sound(a[1], a[2], a[3])
    OBVIOUS
  <1>14. \A a \in {<<"copy", b, Reply("G", "none", b)>> : b \in {"I", "T"}} : Sound(a[1], a[2], a[3])
    OBVIOUS
  <1>15. \A a \in {<<"parse", b, Reply("1", "none", b)>> : b \in {"I", "T", "E"}} : Sound(a[1], a[2], a[3])
    OBVIOUS
  <1>16. \A a \in {<<op, b, Reply("Z", b, b)>> : op \in {"ready", "sync"}, b \in {"I", "T", "E"}} : Sound(a[1], a[2], a[3])
    OBVIOUS
  <1> HIDE DEF Sound, Done, Error, Reply, Blocks, Tags, Ends, Statements
  <1> QED
    BY <1>1, <1>2, <1>3, <1>4, <1>5, <1>6, <1>7, <1>8, <1>9, <1>10, <1>11, <1>12, <1>13, <1>14,
       <1>15, <1>16, SMTT(60) DEF Answers

LEMMA RepliesAreSound == ASSUME NEW op, NEW b, NEW r \in Replies(op, b) PROVE Sound(op, b, r)
  BY AnswersAreSound, Zenon DEF Replies

LEMMA BackIs ==
  ASSUME NEW op, NEW b \in Blocks, NEW r, Sound(op, b, r), NEW c \in Nat
  PROVE  /\ Back(r.kind, r.tag, c) \in Backs
         /\ Back(r.kind, r.tag, c).kind = r.kind /\ Back(r.kind, r.tag, c).tag = r.tag
         /\ Back(r.kind, r.tag, c).cycle = c
  BY Zenon DEF Sound, Back, Backs

\* What a frame of the client asks for, and the tokens that the database makes of it.
LEMMA FrontIs ==
  ASSUME NEW f \in FrontFrames
  PROVE  /\ f.todo \in Seq(Statements) /\ Len(f.todo) \in Nat /\ (f.todo = <<>> <=> Len(f.todo) = 0)
         /\ f.kind \in {"Q", "E", "P", "S", "X", "d"}
         /\ f.kind = "E" => f.todo = <<f.todo[1]>> /\ f.todo[1] \in Statements
         /\ f.kind \in {"P", "S"} => f.todo = <<>>
  <1>1. CASE \E q \in Queries : f = Front("Q", q)
    <2>1. PICK q \in Queries : f = Front("Q", q)
      BY <1>1, Zenon
    <2>2. q \in Seq(Statements) /\ f.kind = "Q" /\ f.todo = q
      BY <2>1, PgAssumption, Zenon DEF Front
    <2> QED
      BY <2>2
  <1>2. CASE \E x \in Executes : f = Front("E", <<x>>)
    <2>1. PICK x \in Executes : f = Front("E", <<x>>)
      BY <1>2, Zenon
    <2>2. x \in Statements /\ f.kind = "E" /\ f.todo = <<x>>
      BY <2>1, PgAssumption, Zenon DEF Front
    <2> QED
      BY <2>2
  <1>3. CASE \E k \in {"P", "S", "X", "d"} : f = Front(k, <<>>)
    <2>1. f.kind \in {"P", "S", "X", "d"} /\ f.todo = <<>>
      BY <1>3 DEF Front
    <2> QED
      BY <2>1
  <1> QED
    BY <1>1, <1>2, <1>3, Zenon DEF FrontFrames

LEMMA TokenIs ==
  ASSUME NEW op \in Statements \cup {"parse"} \cup Ends, NEW s \in BOOLEAN
  PROVE  Token(op, s) \in TokenSet /\ Token(op, s).op = op
  BY Zenon DEF Token, TokenSet

LEMMA OpsAre ==
  /\ "parse" \notin Statements /\ "parse" \notin Ends
  /\ \A s \in Statements : s \notin Ends
  /\ "ready" \in Ends /\ "sync" \in Ends /\ "nothing" \notin Ends
  BY Zenon DEF Statements, Ends

LEMMA TokensAre ==
  ASSUME NEW f \in FrontFrames, NEW t \in Tokens(f)
  PROVE  /\ t \in Seq(TokenSet) /\ Len(t) \in Nat
         /\ \A i \in 1 .. Len(t) : t[i].op \in Ends => i = Len(t) /\ f.kind \in {"Q", "S"}
         /\ \A i \in 1 .. Len(t) : Statement(t[i]) => f.todo # <<>>
         /\ Len(f.todo) = 1 =>
              \A i, j \in 1 .. Len(t) : Statement(t[i]) /\ Statement(t[j]) => i = j
  <1>1. CASE f.kind = "Q"
    <2> DEFINE n == Len(f.todo)
               g == [i \in 1 .. n |-> Token(f.todo[i], TRUE)]
    <2>1. t = g \o <<Token("ready", TRUE)>>
      BY <1>1, Zenon DEF Tokens
    <2>2. f.todo \in Seq(Statements) /\ n \in Nat /\ (f.todo = <<>> <=> n = 0)
      BY FrontIs, Zenon
    <2>3. \A i \in 1 .. n : f.todo[i] \in Statements
      BY <2>2
    <2>4. \A i \in 1 .. n : Token(f.todo[i], TRUE) \in TokenSet /\ Token(f.todo[i], TRUE).op = f.todo[i]
      BY <2>3, TokenIs, Zenon
    <2>5. g \in Seq(TokenSet) /\ Len(g) = n
      <3>1. g \in [1 .. n -> TokenSet]
        BY <2>4, Zenon
      <3> HIDE DEF g, n
      <3> QED
        BY <2>2, <3>1, FunSeq, Zenon
    <2>6. \A i \in 1 .. n : g[i].op \in Statements
      BY <2>3, <2>4, Zenon
    <2>7. Token("ready", TRUE) \in TokenSet /\ Token("ready", TRUE).op = "ready"
      BY TokenIs, OpsAre, Zenon
    <2> HIDE DEF g, n
    <2>8. t \in Seq(TokenSet) /\ Len(t) = n + 1
      BY <2>1, <2>5, <2>7, OneMore, Zenon
    <2>9. \A i \in 1 .. n : t[i] = g[i]
      BY <2>1, <2>5, <2>7, OneMore
    <2>10. t[n + 1] = Token("ready", TRUE)
      BY <2>1, <2>5, <2>7, OneMore, ZenonT(30)
    <2>11. \A i \in 1 .. Len(t) : IF i = n + 1 THEN t[i].op = "ready" ELSE i \in 1 .. n /\ t[i].op \in Statements
      <3> SUFFICES ASSUME NEW i \in 1 .. Len(t)
                   PROVE  IF i = n + 1 THEN t[i].op = "ready" ELSE i \in 1 .. n /\ t[i].op \in Statements
        BY Zenon
      <3>1. i = n + 1 \/ i \in 1 .. n
        BY <2>2, <2>8
      <3>2. n + 1 \notin 1 .. n
        BY <2>2
      <3> QED
        BY <2>6, <2>7, <2>9, <2>10, <3>1, <3>2, Zenon
    <2>12. \A i \in 1 .. Len(t) : t[i].op \in Ends => i = Len(t)
      BY <2>8, <2>11, OpsAre, Zenon
    <2>13. \A i \in 1 .. Len(t) : Statement(t[i]) => i \in 1 .. n
      BY <2>11, OpsAre, Zenon DEF Statement
    <2>14. \A i \in 1 .. Len(t) : Statement(t[i]) => f.todo # <<>>
      BY <2>2, <2>13
    <2>15. n = 1 => \A i, j \in 1 .. Len(t) : Statement(t[i]) /\ Statement(t[j]) => i = j
      BY <2>13
    <2> QED
      BY <1>1, <2>2, <2>8, <2>12, <2>14, <2>15 DEF n
  <1>2. CASE f.kind = "E"
    <2>1. t = <<Token(f.todo[1], FALSE)>>
      BY <1>2, Zenon DEF Tokens
    <2>4. f.todo[1] \in Statements /\ f.todo # <<>>
      BY <1>2, FrontIs
    <2>2. Token(f.todo[1], FALSE) \in TokenSet /\ Token(f.todo[1], FALSE).op = f.todo[1]
      BY <2>4, TokenIs, Zenon
    <2>3. t \in Seq(TokenSet) /\ Len(t) = 1 /\ \A i \in 1 .. Len(t) : i = 1 /\ t[i].op = f.todo[1]
      BY <2>1, <2>2, OneIs, Zenon
    <2> QED
      BY <2>3, <2>4, OpsAre
  <1>3. CASE f.kind = "P"
    <2>1. t = <<Token("parse", FALSE)>>
      BY <1>3, Zenon DEF Tokens
    <2>2. Token("parse", FALSE) \in TokenSet /\ Token("parse", FALSE).op = "parse"
      BY TokenIs, Zenon
    <2>3. t \in Seq(TokenSet) /\ Len(t) = 1 /\ \A i \in 1 .. Len(t) : i = 1 /\ t[i].op = "parse"
      BY <2>1, <2>2, OneIs, Zenon
    <2> QED
      BY <2>3, OpsAre DEF Statement
  <1>4. CASE f.kind = "S"
    <2>1. t = <<Token("sync", FALSE)>>
      BY <1>4, Zenon DEF Tokens
    <2>2. Token("sync", FALSE) \in TokenSet /\ Token("sync", FALSE).op = "sync"
      BY TokenIs, OpsAre, Zenon
    <2>3. t \in Seq(TokenSet) /\ Len(t) = 1 /\ \A i \in 1 .. Len(t) : i = 1 /\ t[i].op = "sync"
      BY <2>1, <2>2, OneIs, Zenon
    <2> QED
      BY <1>4, <2>3, OpsAre DEF Statement
  <1> QED
    BY <1>1, <1>2, <1>3, <1>4, Zenon DEF Tokens

-----------------------------------------------------------------------------
(* The steps *)

back == <<pump["back"], hand["back"], channel["back"]>>
core == <<database, back, frame, awaiting, transaction, decided, outcome, committed, statements, cycle>>
cycles == <<active, fault, life, finished, acked>>

\* Steps that the exchange of frames does not notice.
Aways ==
  \/ ClientEnds \/ ContextEnds \/ CycleTimeout \/ ServiceChanges \/ Ended \/ UNCHANGED vars
  \/ Pump("front")

\* Steps that leave the session as it is, and steps that end its loop.
LEMMA AwayDoes == ASSUME Types, Aways PROVE UNCHANGED <<core, cycles, pc>>
  <1>1. CASE ClientEnds \/ ContextEnds \/ CycleTimeout \/ ServiceChanges \/ Ended \/ UNCHANGED vars
    BY <1>1, Zenon DEF ClientEnds, ContextEnds, CycleTimeout, ServiceChanges, Ended, vars, database, pumps,
         locals, events, history, core, cycles, back
  <1>2. CASE Pump("front")
    <2>1. UNCHANGED <<cycles, pc, frame, awaiting, transaction, decided, outcome, committed, statements, cycle>>
      BY <1>2, Zenon DEF Pump, PumpRead, PumpSend, PumpQuits, PumpFails, database, locals, events,
           history, cycles
    <2>2. UNCHANGED database
      BY <1>2, Zenon DEF Pump, PumpRead, PumpSend, PumpQuits, PumpFails, database
    <2>3. UNCHANGED back
      BY <1>2, LegsAre, Zenon DEF Types, Wires, Pump, PumpRead, PumpSend, PumpQuits, PumpFails, back
    <2> QED
      BY <2>1, <2>2, <2>3, Zenon DEF core
  <1> QED
    BY <1>1, <1>2, Zenon DEF Aways

\* Steps with which the loop returns, or ends.
Leaves ==
  \/ Quit \/ TakeLast \/ TakeCopy \/ WriteFails \/ ApplyLoses \/ Return \/ Join

LEMMA LeaveDoes ==
  ASSUME Types, Leaves
  PROVE  /\ pc' \in Over
         /\ UNCHANGED <<database, pump, hand, awaiting, transaction, decided, outcome, fault, committed,
                        statements, cycle, acked, sent>>
         /\ \/ UNCHANGED channel
            \/ \E l \in Legs : channel[l] # <<>> /\ channel' = [channel EXCEPT ![l] = Tail(channel[l])]
         /\ \/ UNCHANGED <<active, life, finished>>
            \/ ApplyLoses \/ Return
  <1>1. CASE Quit \/ WriteFails \/ Join
    BY <1>1, Zenon DEF Quit, WriteFails, Join, Over, database, pumps, locals, events, history
  <1>2. CASE TakeLast \/ TakeCopy
    BY <1>2, LegsAre, Zenon DEF TakeLast, TakeCopy, Take, Over, database, locals, events
  <1>3. CASE ApplyLoses \/ Return
    BY <1>3, Zenon DEF ApplyLoses, Return, Over, database, pumps
  <1> QED
    BY <1>1, <1>2, <1>3, Zenon DEF Leaves

\* The channel of a leg, a frame shorter.
LEMMA Shorter ==
  ASSUME Types, NEW l \in Legs, channel[l] # <<>>, channel' = [channel EXCEPT ![l] = Tail(channel[l])]
  PROVE  /\ channel' \in [Legs -> Seq(Frames)] /\ channel'["back"] \in Seq(Backs)
         /\ \A k \in Legs : Len(channel'[k]) <= Capacity
         /\ Len(channel'[l]) = Len(channel[l]) - 1 /\ Len(channel[l]) \in Nat
         /\ \A k \in Legs \ {l} : channel'[k] = channel[k]
  <1>1. channel \in [Legs -> Seq(Frames)] /\ channel["back"] \in Seq(Backs)
        /\ \A k \in Legs : Len(channel[k]) <= 1
    BY Zenon DEF Types, Wires, Capacity
  <1>2. channel[l] \in Seq(Frames)
    BY <1>1, Zenon
  <1>3. Tail(channel[l]) \in Seq(Frames) /\ Len(Tail(channel[l])) = Len(channel[l]) - 1
        /\ Len(channel[l]) \in Nat
    BY <1>2, TailIs, Zenon
  <1>4. channel'[l] = Tail(channel[l]) /\ \A k \in Legs \ {l} : channel'[k] = channel[k]
    BY <1>1, Zenon
  <1>5. channel' \in [Legs -> Seq(Frames)]
    BY <1>1, <1>3, Zenon
  <1>6. channel'["back"] \in Seq(Backs)
    <2>1. CASE l = "back"
      BY <1>1, <1>4, <2>1, TailIs, Zenon
    <2>2. CASE l # "back"
      BY <1>1, <1>4, <2>2, LegsAre, Zenon
    <2> QED
      BY <2>1, <2>2, Zenon
  <1>7. \A k \in Legs : Len(channel'[k]) <= 1
    BY <1>1, <1>3, <1>4
  <1> QED
    BY <1>3, <1>4, <1>5, <1>6, <1>7, Zenon DEF Capacity

\* A frame of the client, taken from the channel.
LEMMA TakeFrontDoes ==
  ASSUME Types, NEW f \in FrontFrames, TakeFront(f)
  PROVE  /\ pc = "select" /\ pc' = "write_up" /\ frame' = f /\ active' = TRUE
         /\ channel["front"] # <<>> /\ channel' = [channel EXCEPT !["front"] = Tail(channel["front"])]
         /\ UNCHANGED <<database, back, pump, hand, transaction, sent>>
         /\ ~awaiting /\ awaiting' = (f.kind \in {"Q", "S"})
         /\ statements' = Len(f.todo) + IF active THEN statements ELSE 0
         /\ active => UNCHANGED <<decided, outcome, fault, cycle, life, finished, committed, acked>>
         /\ ~active => /\ decided' = FALSE /\ outcome' = "forwarded" /\ fault' = "none" /\ cycle' = cycle + 1
                       /\ life' = (IF life = "open" THEN "twice" ELSE "open") /\ finished' = "none"
                       /\ committed' = FALSE /\ acked' = FALSE
  <1>1. /\ pc = "select" /\ pc' = "write_up" /\ frame' = f
        /\ channel["front"] # <<>> /\ channel' = [channel EXCEPT !["front"] = Tail(channel["front"])]
        /\ UNCHANGED <<database, pump, hand, transaction, sent>>
        /\ awaiting' = (f.kind \in {"Q", "S"})
        /\ statements' = Len(f.todo) + IF active THEN statements ELSE 0
    BY Zenon DEF TakeFront, Take
  <1>2. ~awaiting
    BY Zenon DEF TakeFront, Last, Refused
  <1>3. UNCHANGED back
    BY <1>1, LegsAre, Zenon DEF Types, Wires, back
  <1>4. CASE active
    <2>1. active' = active
      BY <1>4, Zenon DEF TakeFront
    <2> QED
      BY <1>1, <1>2, <1>3, <1>4, <2>1, Zenon DEF TakeFront, Types, Values
  <1>5. CASE ~active
    <2>1. Begin
      BY <1>5, Zenon DEF TakeFront
    <2> QED
      BY <1>1, <1>2, <1>3, <1>5, <2>1, Zenon DEF Begin, Record
  <1> QED
    BY <1>4, <1>5, Zenon

-----------------------------------------------------------------------------
\* The types, for every step.
LEMMA WiresStep ==
  ASSUME Types, [Next]_vars
  PROVE  Wires'
  <1>0. /\ wire \in Seq(Backs) /\ pump \in [Legs -> {"read", "send", "done"}]
        /\ hand \in [Legs -> Frames] /\ channel \in [Legs -> Seq(Frames)]
        /\ channel["back"] \in Seq(Backs)
        /\ IF pump["back"] = "send" THEN hand["back"] \in Backs ELSE hand["back"] = NoFrame
        /\ \A l \in Legs : Len(channel[l]) <= Capacity
    BY Zenon DEF Types, Wires
  <1>1. ASSUME UNCHANGED <<wire, pumps>>
        PROVE  Wires'
    BY <1>0, <1>1, Zenon DEF pumps, Wires
  <1>2. ASSUME NEW l \in Legs, channel[l] # <<>>, channel' = [channel EXCEPT ![l] = Tail(channel[l])],
               UNCHANGED <<wire, pump, hand>>
        PROVE  Wires'
    BY <1>0, <1>2, Shorter, Zenon DEF Wires
  <1>3. CASE \/ Quit \/ RecordApplied \/ Return \/ Join \/ WriteUp \/ WriteDown \/ WriteFails \/ ApplyForwards
             \/ ApplyLoses \/ Ended \/ ClientEnds \/ ContextEnds \/ CycleTimeout \/ ServiceChanges \/ UNCHANGED vars
    <2>1. UNCHANGED <<wire, pumps>>
      BY <1>3, Zenon DEF Quit, RecordApplied, Return, Join, WriteUp, WriteDown, WriteFails,
           ApplyForwards, ApplyLoses,
           Ended, ClientEnds, ContextEnds, CycleTimeout, ServiceChanges, vars, database
    <2> QED
      BY <1>1, <2>1, Zenon
  <1>4. CASE TakeLast \/ TakeCopy \/ TakeBack \/ TakeCommit \/ \E f \in FrontFrames : TakeFront(f)
    <2>1. \E l \in Legs : Take(l)
      BY <1>4, LegsAre, Zenon DEF TakeLast, TakeCopy, TakeBack, TakeCommit, TakeFront
    <2> QED
      BY <1>2, <2>1, Zenon DEF Take, database
  <1>5. ASSUME NEW l \in Legs, PumpRead(l)
        PROVE  Wires'
    <2>1. CASE l = "back"
      <3>1. /\ wire # <<>> /\ wire' = Tail(wire) /\ hand' = [hand EXCEPT !["back"] = Head(wire)]
            /\ pump' = [pump EXCEPT !["back"] = "send"] /\ channel' = channel
        BY <1>5, <2>1, Zenon DEF PumpRead, Readable
      <3>2. Tail(wire) \in Seq(Backs) /\ Head(wire) \in Backs
        BY <1>0, <3>1, TailIs, Zenon
      <3>3. /\ pump' \in [Legs -> {"read", "send", "done"}] /\ hand' \in [Legs -> Frames]
            /\ pump'["back"] = "send" /\ hand'["back"] \in Backs
        BY <1>0, <3>1, <3>2, LegsAre, Zenon DEF Frames
      <3> QED
        BY <1>0, <3>1, <3>2, <3>3, Zenon DEF Wires
    <2>2. CASE l = "front"
      <3>1. /\ wire' = wire /\ hand' = [hand EXCEPT !["front"] = Unread]
            /\ pump' = [pump EXCEPT !["front"] = "send"] /\ channel' = channel
        BY <1>5, <2>2, Zenon DEF PumpRead, Readable
      <3>2. /\ pump' \in [Legs -> {"read", "send", "done"}] /\ hand' \in [Legs -> Frames]
            /\ pump'["back"] = pump["back"] /\ hand'["back"] = hand["back"]
        BY <1>0, <3>1, LegsAre, Zenon DEF Frames
      <3> QED
        BY <1>0, <3>1, <3>2, Zenon DEF Wires
    <2> QED
      BY <2>1, <2>2, LegsAre, Zenon
  <1>6. ASSUME NEW l \in Legs, PumpSend(l)
        PROVE  Wires'
    <2>1. /\ pump[l] = "send" /\ Len(channel[l]) < 1 /\ wire' = wire
          /\ channel' = [channel EXCEPT ![l] = Append(channel[l], hand[l])]
          /\ hand' = [hand EXCEPT ![l] = NoFrame] /\ pump' = [pump EXCEPT ![l] = "read"]
      BY <1>6, Zenon DEF PumpSend, Room, Capacity, database
    <2>2. channel[l] \in Seq(Frames) /\ hand[l] \in Frames
      BY <1>0, Zenon
    <2>3. /\ Append(channel[l], hand[l]) \in Seq(Frames)
          /\ Len(Append(channel[l], hand[l])) = Len(channel[l]) + 1 /\ Len(channel[l]) \in Nat
      BY <2>2
    <2>4. channel' \in [Legs -> Seq(Frames)] /\ \A k \in Legs : Len(channel'[k]) <= 1
      BY <1>0, <2>1, <2>3 DEF Capacity
    <2>5. channel'["back"] \in Seq(Backs)
      <3>1. CASE l = "back"
        <4>1. hand["back"] \in Backs /\ channel'["back"] = Append(channel["back"], hand["back"])
          BY <1>0, <2>1, <3>1, Zenon
        <4> QED
          BY <1>0, <4>1, AppendIs
      <3>2. CASE l # "back"
        BY <1>0, <2>1, <3>2, LegsAre, Zenon
      <3> QED
        BY <3>1, <3>2, Zenon
    <2>6. /\ pump' \in [Legs -> {"read", "send", "done"}] /\ hand' \in [Legs -> Frames]
          /\ IF pump'["back"] = "send" THEN hand'["back"] \in Backs ELSE hand'["back"] = NoFrame
      BY <1>0, <2>1, NoFrameIs, LegsAre, Zenon
    <2> QED
      BY <1>0, <2>1, <2>4, <2>5, <2>6, Zenon DEF Wires, Capacity
  <1>7. ASSUME NEW l \in Legs, PumpQuits(l) \/ PumpFails(l)
        PROVE  Wires'
    <2>1. wire' = wire /\ channel' = channel
      BY <1>7, Zenon DEF PumpQuits, PumpFails, database
    <2>2. /\ pump' \in [Legs -> {"read", "send", "done"}] /\ hand' \in [Legs -> Frames]
          /\ IF pump'["back"] = "send" THEN hand'["back"] \in Backs ELSE hand'["back"] = NoFrame
      BY <1>0, <1>7, NoFrameIs, LegsAre DEF PumpQuits, PumpFails
    <2> QED
      BY <1>0, <2>1, <2>2, Zenon DEF Wires
  <1>8. CASE Database
    <2>1. pump' = pump /\ hand' = hand /\ channel' = channel
      BY <1>8, Zenon DEF Database, pumps
    <2>2. wire' \in Seq(Backs)
      <3>1. CASE UNCHANGED wire
        BY <1>0, <3>1, Zenon
      <3>2. CASE \E r \in Replies(Head(work).op, block) : wire' = Append(wire, Back(r.kind, r.tag, cycle))
        <4>1. PICK r \in Replies(Head(work).op, block) : wire' = Append(wire, Back(r.kind, r.tag, cycle))
          BY <3>2, Zenon
        <4>2. Back(r.kind, r.tag, cycle) \in Backs
          BY RepliesAreSound, BackIs, Zenon DEF Types, Values
        <4> QED
          BY <1>0, <4>1, <4>2, AppendIs, Zenon
      <3> QED
        BY <1>8, <3>1, <3>2, Zenon DEF Database
    <2> QED
      BY <1>0, <2>1, <2>2, Zenon DEF Wires
  <1> QED
    BY <1>3, <1>4, <1>5, <1>6, <1>7, <1>8, Zenon DEF Next, Loop, Pump

LEMMA ValuesStep ==
  ASSUME Types, [Next]_vars
  PROVE  Values'
  <1>0. /\ block \in Blocks /\ skip \in {"nothing"} \cup Ends /\ work \in Seq(TokenSet)
        /\ pc = "write_up" => frame \in FrontFrames
        /\ pc \in {"write_down"} \cup Deciding => frame \in Backs
        /\ active \in BOOLEAN /\ awaiting \in BOOLEAN /\ transaction \in BOOLEAN
        /\ decided \in BOOLEAN /\ committed \in BOOLEAN
        /\ statements \in Nat /\ cycle \in Nat
        /\ outcome \in {"forwarded", "upstream_error"}
    BY Zenon DEF Types, Values
  <1> USE DEF Deciding
  <1>1. CASE Aways
    <2>1. UNCHANGED <<core, cycles, pc>>
      BY <1>1, AwayDoes, Zenon
    <2> QED
      BY <1>0, <2>1, Zenon DEF Values, core, cycles, database
  <1>2. CASE Leaves
    <2>1. pc' \in Over /\ UNCHANGED <<database, awaiting, transaction, decided, outcome, committed, statements, cycle>>
      BY <1>2, LeaveDoes, Zenon
    <2>2. active' \in BOOLEAN
      <3>1. CASE ApplyLoses \/ Return
        BY <3>1, Zenon DEF ApplyLoses, Return, Finish, NoLongerActive
      <3> QED
        BY <1>0, <1>2, <3>1, LeaveDoes, Zenon
    <2>3. pc' \notin {"write_up", "write_down", "record", "apply"}
      BY <2>1, Zenon DEF Over
    <2> QED
      BY <1>0, <2>1, <2>2, <2>3, Zenon DEF Values, database
  <1>3. CASE RecordApplied \/ ApplyForwards
    <2>1. UNCHANGED <<database, frame, active, awaiting, transaction, decided, outcome, committed, statements, cycle>>
      BY <1>3, Zenon DEF RecordApplied, ApplyForwards, locals, history
    <2>2. pc \in {"record", "apply"} /\ pc' \in {"apply", "write_down"}
      BY <1>3, Zenon DEF RecordApplied, ApplyForwards
    <2> QED
      BY <1>0, <2>1, <2>2, Zenon DEF Values, database
  <1>4. ASSUME NEW l \in Legs, Pump(l)
        PROVE  Values'
    BY <1>0, <1>4 DEF Pump, PumpRead, PumpSend, PumpQuits, PumpFails, Values, database, locals, history
  <1>5. ASSUME NEW f \in FrontFrames, TakeFront(f)
        PROVE  Values'
    <2>1. frame' = f /\ pc' = "write_up" /\ UNCHANGED <<database, transaction>>
      BY <1>5, TakeFrontDoes, Zenon
    <2>2. active' = TRUE /\ awaiting' = (f.kind \in {"Q", "S"})
      BY <1>5, TakeFrontDoes, Zenon
    <2>3. statements' \in Nat
      <3>1. statements' = Len(f.todo) + statements \/ statements' = Len(f.todo) + 0
        BY <1>5, TakeFrontDoes, Zenon
      <3>2. Len(f.todo) \in Nat /\ statements \in Nat
        BY <1>0, FrontIs, Zenon
      <3> QED
        BY <3>1, <3>2
    <2>4. cycle' \in Nat
      <3>1. cycle' = cycle \/ cycle' = cycle + 1
        BY <1>5, TakeFrontDoes, Zenon
      <3>2. cycle \in Nat
        BY <1>0, Zenon
      <3> QED
        BY <3>1, <3>2
    <2>5. decided' \in BOOLEAN /\ committed' \in BOOLEAN /\ outcome' \in {"forwarded", "upstream_error"}
      <3>1. CASE active
        BY <1>0, <1>5, <3>1, TakeFrontDoes, Zenon
      <3>2. CASE ~active
        BY <1>5, <3>2, TakeFrontDoes, Zenon
      <3> QED
        BY <3>1, <3>2, Zenon
    <2>6. active' \in BOOLEAN /\ awaiting' \in BOOLEAN /\ transaction' \in BOOLEAN
      <3>1. awaiting' \in BOOLEAN
        BY <2>2
      <3> QED
        BY <1>0, <2>1, <2>2, <3>1, Zenon
    <2>7. /\ block' \in Blocks /\ skip' \in {"nothing"} \cup Ends /\ work' \in Seq(TokenSet)
          /\ frame' \in FrontFrames /\ pc' \notin {"write_down", "record", "apply"}
      BY <1>0, <2>1, Zenon DEF database
    <2> QED
      BY <2>3, <2>4, <2>5, <2>6, <2>7, Zenon DEF Values
  <1>6. CASE TakeBack
    <2>1. channel["back"] # <<>> /\ frame' = Head(channel["back"]) /\ pc' = "write_down"
          /\ UNCHANGED <<database, active, decided, cycle, statements, committed>>
      BY <1>6, Zenon DEF TakeBack, Take
    <2>2. frame' \in Backs
      BY <2>1, PartsType, TailIs, Zenon
    <2>3. awaiting' \in BOOLEAN /\ transaction' \in BOOLEAN /\ outcome' \in {"forwarded", "upstream_error"}
      BY <1>0, <1>6, Zenon DEF TakeBack, View
    <2> QED
      BY <1>0, <2>1, <2>2, <2>3, Zenon DEF Values, database
  <1>7. CASE TakeCommit
    <2>1. channel["back"] # <<>> /\ frame' = Head(channel["back"]) /\ pc' \in {"record", "write_down"}
          /\ UNCHANGED <<database, active, awaiting, outcome, cycle, statements, committed>>
          /\ transaction' = FALSE /\ decided' = TRUE
      BY <1>7, Zenon DEF TakeCommit, Take
    <2>2. frame' \in Backs
      BY <2>1, PartsType, TailIs, Zenon
    <2> QED
      BY <1>0, <2>1, <2>2, Zenon DEF Values, database
  <1>8. CASE WriteUp
    <2>1. PICK t \in Tokens(frame) : work' = work \o t
      BY <1>8, Zenon DEF WriteUp
    <2>2. pc = "write_up" /\ pc' = "select" /\ UNCHANGED <<block, skip, active, awaiting, transaction, decided,
            outcome, committed, statements, cycle>>
      BY <1>8, Zenon DEF WriteUp, locals, history
    <2>3. t \in Seq(TokenSet)
      BY <1>0, <2>1, <2>2, TokensAre, Zenon
    <2>4. work' \in Seq(TokenSet)
      BY <1>0, <2>1, <2>3, ConcatIs, Zenon
    <2> QED
      BY <1>0, <2>2, <2>4, Zenon DEF Values
  <1>9. CASE WriteDown
    <2>1. pc' = "select" /\ UNCHANGED <<database, awaiting, transaction, decided, outcome, committed, statements, cycle>>
          /\ active' \in BOOLEAN
      BY <1>0, <1>9, Zenon DEF WriteDown, Finish, NoLongerActive
    <2> QED
      BY <1>0, <2>1, Zenon DEF Values, database
  <1>10. CASE Database
    <2>1. UNCHANGED <<pc, frame, active, awaiting, transaction, decided, outcome, statements, cycle>>
      BY <1>10, Zenon DEF Database, locals
    <2>2. work' \in Seq(TokenSet)
      BY <1>0, <1>10, TailIs, Zenon DEF Database
    <2>3. block' \in Blocks /\ skip' \in {"nothing"} \cup Ends /\ committed' \in BOOLEAN
      <3>1. CASE UNCHANGED <<block, skip, wire, committed>>
        BY <1>0, <3>1, Zenon
      <3>2. ASSUME NEW r \in Replies(Head(work).op, block), block' = r.block,
                   skip' = IF r.kind = "E" THEN IF Head(work).simple THEN "ready" ELSE "sync" ELSE "nothing",
                   committed' = (committed \/ (r.tag = "COMMIT" /\ block = "T"))
            PROVE  block' \in Blocks /\ skip' \in {"nothing"} \cup Ends /\ committed' \in BOOLEAN
        BY <1>0, <3>2, RepliesAreSound DEF Sound, Ends
      <3> QED
        BY <1>10, <3>1, <3>2, Zenon DEF Database
    <2> QED
      BY <1>0, <2>1, <2>2, <2>3, Zenon DEF Values
  <1> QED
    BY <1>1, <1>2, <1>3, <1>4, <1>5, <1>6, <1>7, <1>8, <1>9, <1>10, Zenon DEF Next, Loop, Aways, Leaves

-----------------------------------------------------------------------------
(* What the other steps do *)

rest == <<frame, pc, awaiting, transaction, decided, outcome, statements, cycle, cycles>>

\* What the other steps do, with the values that the loop goes on with.
LEMMA DatabaseDoes ==
  ASSUME Types, Database
  PROVE  /\ Running /\ work # <<>> /\ work' = Tail(work) /\ UNCHANGED <<back, pump, hand, channel, rest, sent>>
         /\ \/ skip # "nothing" /\ work[1].op # skip /\ UNCHANGED <<block, skip, wire, committed>>
            \/ /\ skip \in {"nothing", work[1].op}
               /\ \E r : /\ Sound(work[1].op, block, r) /\ block' = r.block
                         /\ wire' = Append(wire, Back(r.kind, r.tag, cycle))
                         /\ skip' = "nothing" <=> r.kind # "E"
                         /\ committed' = (committed \/ (r.tag = "COMMIT" /\ block = "T"))
  <1>1. Running /\ work # <<>> /\ work' = Tail(work) /\ UNCHANGED <<back, pump, hand, channel, rest, sent>>
    BY Zenon DEF Database, pumps, locals, events, rest, cycles, back
  <1>2. work \in Seq(TokenSet)
    BY Zenon DEF Types, Values
  <1>3. Head(work) = work[1]
    BY <1>1, <1>2, TailIs, Zenon
  <1>4. CASE skip # "nothing" /\ Head(work).op # skip /\ UNCHANGED <<block, skip, wire, committed>>
    BY <1>1, <1>3, <1>4, Zenon
  <1>5. ASSUME skip \in {"nothing", Head(work).op}, NEW r \in Replies(Head(work).op, block), block' = r.block,
               wire' = Append(wire, Back(r.kind, r.tag, cycle)),
               skip' = IF r.kind = "E" THEN IF Head(work).simple THEN "ready" ELSE "sync" ELSE "nothing",
               committed' = (committed \/ (r.tag = "COMMIT" /\ block = "T"))
        PROVE  /\ skip \in {"nothing", work[1].op}
               /\ \E q : /\ Sound(work[1].op, block, q) /\ block' = q.block
                         /\ wire' = Append(wire, Back(q.kind, q.tag, cycle))
                         /\ skip' = "nothing" <=> q.kind # "E"
                         /\ committed' = (committed \/ (q.tag = "COMMIT" /\ block = "T"))
    <2>1. skip' = "nothing" <=> r.kind # "E"
      BY <1>5, Zenon
    <2>2. Sound(work[1].op, block, r)
      BY <1>3, RepliesAreSound, Zenon
    <2> QED
      BY <1>3, <1>5, <2>1, <2>2, Zenon
  <1> QED
    BY <1>1, <1>4, <1>5, Zenon DEF Database

LEMMA PumpDoes ==
  ASSUME Types, Pump("back")
  PROVE  /\ UNCHANGED <<block, work, skip, rest, committed>> /\ channel'["front"] = channel["front"]
         /\ pump'["front"] = pump["front"] /\ sent' = sent
         /\ \/ /\ PumpRead("back") /\ wire # <<>> /\ wire' = Tail(wire) /\ hand'["back"] = wire[1]
               /\ pump["back"] = "read" /\ pump'["back"] = "send" /\ channel'["back"] = channel["back"]
            \/ /\ PumpSend("back") /\ channel["back"] = <<>> /\ channel'["back"] = <<hand["back"]>>
               /\ pump["back"] = "send" /\ pump'["back"] = "read" /\ hand'["back"] = NoFrame /\ wire' = wire
            \/ /\ PumpQuits("back") \/ PumpFails("back")
               /\ pump["back"] # "done" /\ pump'["back"] = "done" /\ hand'["back"] = NoFrame
               /\ wire' = wire /\ channel'["back"] = channel["back"]
  <1>0. /\ pump \in [Legs -> {"read", "send", "done"}] /\ hand \in [Legs -> Frames]
        /\ channel \in [Legs -> Seq(Frames)]
        /\ wire \in Seq(Backs) /\ channel["back"] \in Seq(Backs) /\ (hand["back"] = NoFrame \/ pump["back"] = "send")
    BY Zenon DEF Types, Wires
  <1>1. UNCHANGED <<block, work, skip, rest, committed>>
    BY Zenon DEF Pump, PumpRead, PumpSend, PumpQuits, PumpFails, rest, cycles, database, locals, events,
         history
  <1>2. channel'["front"] = channel["front"] /\ pump'["front"] = pump["front"] /\ sent' = sent
    BY <1>0, LegsAre, Zenon DEF Pump, PumpRead, PumpSend, PumpQuits, PumpFails, history
  <1>3. CASE PumpRead("back")
    <2>1. wire # <<>> /\ wire' = Tail(wire) /\ hand'["back"] = Head(wire)
          /\ pump["back"] = "read" /\ pump'["back"] = "send" /\ channel'["back"] = channel["back"]
      BY <1>0, <1>3, LegsAre, Zenon DEF PumpRead, Readable
    <2>2. Head(wire) = wire[1]
      BY <1>0, <2>1, TailIs, Zenon
    <2> QED
      BY <1>1, <1>2, <1>3, <2>1, <2>2, Zenon
  <1>4. CASE PumpSend("back")
    <2>1. /\ Len(channel["back"]) < 1 /\ channel'["back"] = Append(channel["back"], hand["back"])
          /\ pump["back"] = "send" /\ pump'["back"] = "read" /\ hand'["back"] = NoFrame /\ wire' = wire
      BY <1>0, <1>4, LegsAre, Zenon DEF PumpSend, Room, Capacity, database
    <2>2. channel["back"] = <<>>
      BY <1>0, <2>1
    <2>3. channel'["back"] = <<hand["back"]>>
      BY <2>1, <2>2
    <2> QED
      BY <1>1, <1>2, <1>4, <2>1, <2>2, <2>3, Zenon
  <1>5. CASE PumpQuits("back") \/ PumpFails("back")
    <2>1. /\ pump["back"] # "done" /\ pump'["back"] = "done" /\ hand'["back"] = NoFrame
          /\ wire' = wire /\ channel'["back"] = channel["back"]
      BY <1>0, <1>5, LegsAre, Zenon DEF PumpQuits, PumpFails, database
    <2> QED
      BY <1>1, <1>2, <1>5, <2>1, Zenon
  <1> QED
    BY <1>3, <1>4, <1>5, Zenon DEF Pump

\* A frame of the database, taken from the channel.
LEMMA TakeDoes ==
  ASSUME Types, TakeBack \/ TakeCommit
  PROVE  /\ pc = "select" /\ channel["back"] # <<>>
         /\ channel' = [channel EXCEPT !["back"] = Tail(channel["back"])] /\ channel'["back"] = <<>>
         /\ channel'["front"] = channel["front"]
         /\ UNCHANGED <<database, pump, hand, sent, active, cycle, finished, statements, committed, acked>>
         /\ frame' = Head(channel["back"]) /\ frame' = channel["back"][1] /\ frame' \in Backs
         /\ \/ /\ TakeBack /\ pc' = "write_down" /\ ~Confirms(frame') /\ frame'.kind # "G"
               /\ transaction' = View(frame') /\ awaiting' = (frame'.kind # "Z" /\ awaiting)
               /\ UNCHANGED <<decided, fault, life>>
            \/ /\ TakeCommit /\ pc' \in {"record", "write_down"} /\ Confirms(frame')
               /\ transaction' = FALSE /\ decided' = TRUE /\ awaiting' = awaiting /\ outcome' = outcome
               /\ pc' = "record" => fault' \in Actions /\ life' = IF life = "selected" THEN "twice" ELSE "selected"
               /\ pc' = "write_down" => fault' = "none" /\ life' = IF life = "passed" THEN "twice" ELSE "passed"
  <1>1. /\ pc = "select" /\ channel["back"] # <<>>
        /\ channel' = [channel EXCEPT !["back"] = Tail(channel["back"])]
        /\ UNCHANGED <<database, pump, hand, sent>>
    BY Zenon DEF TakeBack, TakeCommit, Take
  <1>2. channel \in [Legs -> Seq(Frames)] /\ channel["back"] \in Seq(Backs) /\ Len(channel["back"]) = 1
    BY <1>1, PartsType, Zenon DEF Types, Wires
  <1>3. channel'["back"] = <<>> /\ channel'["front"] = channel["front"]
    BY <1>1, <1>2, LegsAre
  <1>4. Head(channel["back"]) = channel["back"][1] /\ Head(channel["back"]) \in Backs
    BY <1>1, <1>2, TailIs, Zenon
  <1>5. frame' = Head(channel["back"]) /\ UNCHANGED <<active, cycle, finished, statements, committed, acked>>
    BY Zenon DEF TakeBack, TakeCommit, events
  <1>6. CASE TakeBack
    <2>1. /\ pc' = "write_down" /\ ~Confirms(frame') /\ frame'.kind # "G"
          /\ transaction' = View(frame') /\ awaiting' = (frame'.kind # "Z" /\ awaiting)
          /\ UNCHANGED <<decided, fault, life>>
      BY <1>5, <1>6, Zenon DEF TakeBack, events
    <2> QED
      BY <1>1, <1>3, <1>4, <1>5, <1>6, <2>1, Zenon
  <1>7. CASE TakeCommit
    <2>1. /\ Confirms(frame') /\ transaction' = FALSE /\ decided' = TRUE /\ awaiting' = awaiting
          /\ outcome' = outcome
      BY <1>5, <1>7, Zenon DEF TakeCommit
    <2>2. /\ pc' \in {"record", "write_down"}
          /\ pc' = "record" => fault' \in Actions /\ life' = IF life = "selected" THEN "twice" ELSE "selected"
          /\ pc' = "write_down" => fault' = "none" /\ life' = IF life = "passed" THEN "twice" ELSE "passed"
      BY <1>7, Zenon DEF TakeCommit, Record
    <2> QED
      BY <1>1, <1>3, <1>4, <1>5, <1>7, <2>1, <2>2, Zenon
  <1> QED
    BY <1>6, <1>7, Zenon

LEMMA WriteDoes ==
  ASSUME Types, WriteUp \/ WriteDown
  PROVE  /\ pc' = "select" /\ pc \in {"write_up", "write_down"}
         /\ UNCHANGED <<block, skip, wire, pump, hand, channel, back, awaiting, transaction, decided, outcome, fault,
                        cycle, statements, committed, sent>>
         /\ \/ /\ WriteUp /\ pc = "write_up" /\ UNCHANGED cycles
               /\ \E t \in Tokens(frame) : work' = work \o t
            \/ /\ WriteDown /\ pc = "write_down" /\ work' = work
               /\ acked' = (acked \/ (decided /\ frame.tag = "COMMIT"))
               /\ \/ /\ frame.kind = "Z" /\ active' = FALSE
                     /\ IF active THEN life' = (IF life = "done" THEN "twice" ELSE "done") /\ finished' = outcome
                        ELSE UNCHANGED <<life, finished>>
                  \/ frame.kind # "Z" /\ UNCHANGED <<active, life, finished>>
  <1>1. CASE WriteUp
    BY <1>1, Zenon DEF WriteUp, pumps, locals, events, history, cycles, back
  <1>2. CASE WriteDown
    <2>1. /\ pc' = "select" /\ pc = "write_down" /\ work' = work
          /\ UNCHANGED <<block, skip, wire, pump, hand, channel, back, awaiting, transaction, decided, outcome, fault,
                        cycle, statements, committed, sent>>
          /\ acked' = (acked \/ (decided /\ frame.tag = "COMMIT"))
      BY <1>2, Zenon DEF WriteDown, pumps, database, back
    <2>2. \/ /\ frame.kind = "Z" /\ active' = FALSE
             /\ IF active THEN life' = (IF life = "done" THEN "twice" ELSE "done") /\ finished' = outcome
                ELSE UNCHANGED <<life, finished>>
          \/ frame.kind # "Z" /\ UNCHANGED <<active, life, finished>>
      BY <1>2, Zenon DEF WriteDown, Finish, NoLongerActive, Record
    <2> QED
      BY <1>2, <2>1, <2>2, Zenon
  <1> QED
    BY <1>1, <1>2, Zenon

LEMMA OnDoes ==
  ASSUME RecordApplied \/ ApplyForwards
  PROVE  /\ UNCHANGED <<core, pump, channel, active, fault, finished, acked, sent>> /\ pc \in Deciding
         /\ \/ pc = "record" /\ pc' = "apply" /\ life' = IF life = "applied" THEN "twice" ELSE "applied"
            \/ pc = "apply" /\ pc' = "write_down" /\ life' = life /\ fault = "delay"
  BY Zenon DEF RecordApplied, ApplyForwards, Record, Forwards, database, pumps, locals, events, history,
       core, back, Deciding

LEMMA TypesStep == ASSUME Types, [Next]_vars PROVE Types'
  BY WiresStep, ValuesStep, Zenon DEF Types

\* Every step is one of these.
LEMMA Steps ==
  ASSUME [Next]_vars
  PROVE  \/ Aways \/ Leaves \/ Pump("back") \/ Database \/ (\E f \in FrontFrames : TakeFront(f))
         \/ (TakeBack \/ TakeCommit) \/ (WriteUp \/ WriteDown) \/ (RecordApplied \/ ApplyForwards)
  BY LegsAre, Zenon DEF Next, Loop, Aways, Leaves

-----------------------------------------------------------------------------
(* Order *)

\* Order is preserved, one lemma for each kind of step.
LEMMA OrderAway == ASSUME Types, Order, Aways PROVE Order'
  <1>1. UNCHANGED <<core, cycles, pc>>
    BY AwayDoes, Zenon
  <1>2. UNCHANGED <<block, work, skip, wire, pump["back"], hand["back"], channel["back"], frame, awaiting,
                    transaction, cycle, active, pc>>
    BY <1>1, Zenon DEF core, cycles, back, database
  <1> QED
    BY <1>2, Zenon DEF Order, Clear, Closes, Closing, Running

LEMMA OrderPump == ASSUME Types, Order, Pump("back") PROVE Order'
  <1>0. wire \in Seq(Backs)
    BY Zenon DEF Types, Wires
  <1>1. UNCHANGED <<block, work, skip, frame, pc, awaiting, transaction, cycle, active>>
    BY PumpDoes, Zenon DEF rest, cycles
  <1> SUFFICES ASSUME Running, Running' PROVE Order'
    BY <1>1, Zenon DEF Order, Running
  <1>2. CASE PumpRead("back")
    <2>1. wire # <<>> /\ wire' = Tail(wire) /\ hand'["back"] = wire[1]
          /\ pump["back"] = "read" /\ pump'["back"] = "send" /\ channel'["back"] = channel["back"]
      BY <1>2, PumpDoes DEF PumpRead
    <2>2. /\ Len(Tail(wire)) = Len(wire) - 1 /\ Len(wire) \in Nat \ {0}
          /\ \A i \in 1 .. Len(wire) - 1 : Tail(wire)[i] = wire[i + 1]
      BY <1>0, <2>1
    <2>3. ~Clear
      BY <2>1, Zenon DEF Clear
    <2>4. active /\ ~(pc = "write_down" /\ frame.kind = "Z")
      BY <2>3, Zenon DEF Order
    <2>5. \A i \in 1 .. Len(channel["back"]) : channel["back"][i].kind # "Z"
      BY <2>1, Zenon DEF Order
    <2>0. \A i \in 1 .. Len(wire) : wire[i].kind = "Z" => i = Len(wire) /\ Closes(wire[i])
      BY Zenon DEF Order
    <2>6. ASSUME wire[1].kind = "Z" PROVE wire' = <<>> /\ Closes(wire[1])
      <3>0. 1 \in 1 .. Len(wire)
        BY <2>2
      <3>1. 1 = Len(wire) /\ Closes(wire[1])
        BY <2>0, <2>6, <3>0, Zenon
      <3>2. wire' = <<>>
        BY <1>0, <2>1, <3>1
      <3> QED
        BY <3>1, <3>2, Zenon
    <2>7. ASSUME NEW i \in 1 .. Len(wire'), wire'[i].kind = "Z" PROVE i = Len(wire') /\ Closes(wire'[i])
      <3>1. i + 1 \in 1 .. Len(wire) /\ wire'[i] = wire[i + 1] /\ Len(wire') = Len(wire) - 1
        BY <2>1, <2>2
      <3>2. i + 1 = Len(wire) /\ Closes(wire[i + 1])
        BY <2>0, <2>7, <3>1, Zenon
      <3> QED
        BY <3>1, <3>2
    <2>8. Closing' <=> Closing
      BY <1>1, Zenon DEF Closing
    <2> QED
      BY <1>1, <2>1, <2>4, <2>5, <2>6, <2>7, <2>8, Zenon DEF Order, Closes
  <1>3. CASE ~PumpRead("back")
    <2>1. pump'["back"] # "send" /\ hand'["back"] = NoFrame /\ wire' = wire
      BY <1>3, PumpDoes, Zenon
    <2>2. Clear => Clear'
      <3>1. ASSUME Clear PROVE channel'["back"] = channel["back"]
        BY <1>3, <3>1, PumpDoes, Zenon DEF Clear
      <3> QED
        BY <1>1, <2>1, <3>1, Zenon DEF Clear
    <2>3. ASSUME NEW i \in 1 .. Len(channel'["back"]), channel'["back"][i].kind = "Z"
          PROVE  wire = <<>> /\ Closes(channel'["back"][i])
      <3>1. CASE channel'["back"] = channel["back"]
        BY <2>3, <3>1, Zenon DEF Order
      <3>2. CASE channel'["back"] = <<hand["back"]>>
        <4>1. channel'["back"][i] = hand["back"]
          BY <3>2
        <4> QED
          BY <2>3, <4>1, Zenon DEF Order
      <3> QED
        BY <1>3, <3>1, <3>2, PumpDoes, Zenon
    <2>4. Closing' <=> Closing
      BY <1>1, Zenon DEF Closing
    <2>5. \A i \in 1 .. Len(wire) : wire[i].kind = "Z" => i = Len(wire) /\ Closes(wire[i])
      BY Zenon DEF Order
    <2>6. NoFrame.kind # "Z"
      BY Zenon DEF NoFrame, Back
    <2>7. \A f : Closes(f) => f.cycle = cycle' /\ f.tag = block' /\ Closing'
      BY <1>1, <2>4, Zenon DEF Closes
    <2>8. /\ ~active => Clear /\ pc = "select"
          /\ pc = "write_down" /\ frame.kind = "Z" => Clear /\ frame.cycle = cycle
          /\ pc \in Deciding => frame.kind # "Z"
          /\ pc = "write_up" => (awaiting <=> frame.kind \in {"Q", "S"})
          /\ \A i \in 1 .. Len(work) : work[i].op \in Ends => i = Len(work) /\ awaiting /\ pc # "write_up"
      BY Zenon DEF Order
    <2> QED
      BY <1>1, <2>1, <2>2, <2>3, <2>5, <2>6, <2>7, <2>8, Zenon DEF Order, Closes
  <1> QED
    BY <1>2, <1>3, Zenon

LEMMA OrderFront == ASSUME Types, Order, NEW f \in FrontFrames, TakeFront(f) PROVE Order'
  <1>1. /\ pc = "select" /\ pc' = "write_up" /\ frame' = f /\ active' = TRUE
        /\ UNCHANGED <<block, work, skip, wire, pump["back"], hand["back"], channel["back"]>>
        /\ ~awaiting /\ awaiting' = (f.kind \in {"Q", "S"})
    BY TakeFrontDoes, Zenon DEF database, back
  <1>2. ~Closing
    BY <1>1, Zenon DEF Closing
  <1>3. Running
    BY <1>1, Zenon DEF Running
  <1> QED
    BY <1>1, <1>2, <1>3, Zenon DEF Order, Closes, Deciding

LEMMA OrderOn == ASSUME Types, Order, RecordApplied \/ ApplyForwards PROVE Order'
  <1>1. UNCHANGED <<core, active>> /\ pc \in Deciding /\ pc' \in {"apply", "write_down"}
    BY OnDoes, Zenon
  <1>2. UNCHANGED <<block, work, skip, wire, pump["back"], hand["back"], channel["back"], frame, awaiting,
                    transaction, cycle, active>>
    BY <1>1, Zenon DEF core, back, database
  <1>3. Running /\ pc # "select" /\ pc # "write_up" /\ pc' # "write_up"
    BY <1>1, Zenon DEF Running, Deciding
  <1>4. active /\ frame.kind # "Z"
    BY <1>1, <1>3, Zenon DEF Order
  <1>5. Closing' <=> Closing
    BY <1>2, <1>3, Zenon DEF Closing
  <1> QED
    BY <1>2, <1>3, <1>4, <1>5, Zenon DEF Order, Closes

LEMMA OrderTake == ASSUME Types, Order, TakeBack \/ TakeCommit PROVE Order'
  <1>1. /\ pc = "select" /\ channel["back"] # <<>> /\ channel'["back"] = <<>>
        /\ UNCHANGED <<block, work, skip, wire, pump, hand, active, cycle>>
        /\ frame' = channel["back"][1] /\ frame' \in Backs /\ pc' \in {"write_down", "record"}
    BY TakeDoes, Zenon DEF database
  <1>2. Running /\ 1 \in 1 .. Len(channel["back"])
    <2>1. channel["back"] \in Seq(Backs)
      BY Zenon DEF Types, Wires
    <2> QED
      BY <1>1, <2>1 DEF Running
  <1>3. active
    BY <1>1, <1>2, Zenon DEF Order, Clear
  <1>4. CASE frame'.kind = "Z"
    <2>1. pump["back"] # "send" /\ wire = <<>> /\ Closes(frame')
      BY <1>1, <1>2, <1>4, Zenon DEF Order
    <2>2. frame'.tag # "COMMIT"
      BY <1>1, <1>4, Zenon DEF Backs, Blocks
    <2>3. pc' = "write_down" /\ transaction' = (frame'.tag # "I") /\ awaiting' = FALSE
      BY <1>4, <2>2, TakeDoes, Zenon DEF Confirms, View
    <2>4. work = <<>> /\ skip = "nothing" /\ frame'.tag = block /\ frame'.cycle = cycle
      BY <2>1, Zenon DEF Closes, Closing
    <2>5. Clear'
      BY <1>1, <2>1, <2>3, <2>4, Zenon DEF Clear
    <2>6. hand["back"].kind # "Z"
      <3>1. hand["back"] = NoFrame
        BY <2>1, Zenon DEF Types, Wires
      <3> QED
        BY <3>1 DEF NoFrame, Back
    <2> QED
      BY <1>1, <1>3, <2>1, <2>3, <2>4, <2>5, <2>6 DEF Order, Deciding
  <1>5. CASE frame'.kind # "Z"
    <2>1. awaiting' = awaiting
      <3>1. awaiting' = (frame'.kind # "Z" /\ awaiting) \/ awaiting' = awaiting
        BY TakeDoes, Zenon
      <3>2. awaiting \in BOOLEAN
        BY Zenon DEF Types, Values
      <3> QED
        BY <1>5, <3>1, <3>2, Zenon
    <2>2. Closing' <=> Closing
      BY <1>1, <2>1, Zenon DEF Closing
    <2> QED
      BY <1>1, <1>2, <1>3, <1>5, <2>1, <2>2 DEF Order, Closes
  <1> QED
    BY <1>4, <1>5, Zenon

LEMMA OrderWrite == ASSUME Types, Order, WriteUp \/ WriteDown PROVE Order'
  <1>1. /\ pc' = "select" /\ Running /\ pc # "select"
        /\ UNCHANGED <<block, skip, wire, pump["back"], hand["back"], channel["back"], awaiting, transaction, cycle>>
    BY WriteDoes, Zenon DEF Running
  <1>2. active
    BY <1>1, Zenon DEF Order
  <1>3. CASE WriteUp
    <2>1. pc = "write_up" /\ active' = active
      BY <1>3, WriteDoes, Zenon DEF WriteUp, WriteDown, cycles
    <2>2. PICK t \in Tokens(frame) : work' = work \o t
      BY <1>3, <2>1, WriteDoes, Zenon DEF WriteDown
    <2>3. frame \in FrontFrames /\ work \in Seq(TokenSet)
      BY <2>1, Zenon DEF Types, Values
    <2>4. /\ t \in Seq(TokenSet) /\ Len(t) \in Nat
          /\ \A i \in 1 .. Len(t) : t[i].op \in Ends => i = Len(t) /\ awaiting
      BY <1>1, <2>1, <2>3, TokensAre, Zenon DEF Order
    <2>5. \A i \in 1 .. Len(work) : work[i].op \notin Ends
      BY <1>1, <2>1, Zenon DEF Order
    <2>6. /\ Len(work') = Len(work) + Len(t) /\ Len(work) \in Nat
          /\ \A i \in 1 .. Len(work') : work'[i] = IF i <= Len(work) THEN work[i] ELSE t[i - Len(work)]
      BY <2>2, <2>3, <2>4
    <2>7. ASSUME NEW i \in 1 .. Len(work'), work'[i].op \in Ends PROVE i = Len(work') /\ awaiting
      <3>1. i - Len(work) \in 1 .. Len(t) /\ work'[i] = t[i - Len(work)]
        BY <2>4, <2>5, <2>6, <2>7
      <3> QED
        BY <2>4, <2>6, <2>7, <3>1
    <2>8. ~Closing
      BY <2>1, Zenon DEF Closing
    <2> QED
      BY <1>1, <1>2, <2>1, <2>7, <2>8, Zenon DEF Order, Closes, Deciding
  <1>4. CASE WriteDown
    <2>1. pc = "write_down" /\ work' = work /\ (active' = active \/ (frame.kind = "Z" /\ active' = FALSE))
      <3>1. pc = "write_down"
        BY <1>4, Zenon DEF WriteDown
      <3>2. ~WriteUp
        BY <3>1, Zenon DEF WriteUp
      <3> QED
        BY <3>1, <3>2, WriteDoes, Zenon
    <2>2. Clear' <=> Clear
      BY <1>1, <2>1, Zenon DEF Clear
    <2>3. CASE frame.kind = "Z"
      <3>1. Clear
        BY <1>1, <2>1, <2>3, Zenon DEF Order
      <3>2. hand["back"].kind # "Z"
        <4>1. hand["back"] = NoFrame
          BY <3>1, Zenon DEF Clear, Types, Wires
        <4> QED
          BY <4>1 DEF NoFrame, Back
      <3> QED
        BY <1>1, <2>1, <2>2, <3>1, <3>2 DEF Order, Deciding, Clear
    <2>4. CASE frame.kind # "Z"
      <3>1. active' = active
        BY <2>1, <2>4, Zenon
      <3>2. Closing' <=> Closing
        BY <1>1, <2>1, <3>1, Zenon DEF Closing
      <3> QED
        BY <1>1, <1>2, <2>1, <3>1, <3>2, Zenon DEF Order, Closes, Deciding
    <2> QED
      BY <2>3, <2>4, Zenon
  <1> QED
    BY <1>3, <1>4, Zenon

LEMMA OrderDatabase == ASSUME Types, Order, Database PROVE Order'
  <1>1. /\ Running /\ work # <<>> /\ work' = Tail(work)
        /\ UNCHANGED <<pump["back"], hand["back"], channel["back"], frame, pc, awaiting, transaction, cycle, active>>
    BY DatabaseDoes, Zenon DEF rest, cycles
  <1>2. /\ work \in Seq(TokenSet) /\ wire \in Seq(Backs)
    BY Zenon DEF Types, Wires, Values
  <1>3. /\ Len(work') = Len(work) - 1 /\ Len(work) \in Nat \ {0}
        /\ \A i \in 1 .. Len(work) - 1 : work'[i] = work[i + 1]
    BY <1>1, <1>2
  <1>4. ~Clear /\ ~Closing
    BY <1>1, Zenon DEF Clear, Closing
  <1>5. active /\ ~(pc = "write_down" /\ frame.kind = "Z")
    BY <1>1, <1>4, Zenon DEF Order
  <1>6. /\ \A i \in 1 .. Len(wire) : wire[i].kind # "Z"
        /\ hand["back"].kind # "Z"
        /\ \A i \in 1 .. Len(channel["back"]) : channel["back"][i].kind # "Z"
    BY <1>1, <1>4, Zenon DEF Order, Closes
  <1>7. \A i \in 1 .. Len(work) : work[i].op \in Ends => i = Len(work) /\ awaiting /\ pc # "write_up"
    BY <1>1, Zenon DEF Order
  <1>8. ASSUME NEW i \in 1 .. Len(work'), work'[i].op \in Ends PROVE i = Len(work') /\ awaiting
        /\ pc # "write_up"
    <2>1. i + 1 \in 1 .. Len(work) /\ work'[i] = work[i + 1]
      BY <1>3
    <2>2. i + 1 = Len(work) /\ awaiting /\ pc # "write_up"
      BY <1>7, <1>8, <2>1, Zenon
    <2> QED
      BY <1>3, <2>2
  <1>9. ASSUME NEW i \in 1 .. Len(wire'), wire'[i].kind = "Z" PROVE i = Len(wire') /\ Closes(wire[i])'
    <2>1. CASE wire' = wire
      BY <1>6, <1>9, <2>1, Zenon
    <2>2. CASE wire' # wire
      <3>1. PICK r : /\ Sound(work[1].op, block, r) /\ block' = r.block
                     /\ wire' = Append(wire, Back(r.kind, r.tag, cycle))
                     /\ skip' = "nothing" <=> r.kind # "E"
        BY <2>2, DatabaseDoes, Zenon
      <3>2. /\ Len(wire') = Len(wire) + 1 /\ Len(wire) \in Nat
            /\ wire'[Len(wire) + 1] = Back(r.kind, r.tag, cycle)
            /\ \A k \in 1 .. Len(wire) : wire'[k] = wire[k]
        BY <1>2, <3>1
      <3>3. i = Len(wire) + 1
        BY <1>6, <1>9, <3>2
      <3>4. wire'[i] = Back(r.kind, r.tag, cycle)
        BY <3>2, <3>3, Zenon
      <3>5. r.kind = "Z" /\ wire'[i].tag = r.tag /\ wire'[i].cycle = cycle
        BY <1>9, <3>4 DEF Back
      <3>6. work[1].op \in Ends /\ r.tag = r.block
        BY <3>1, <3>5, Zenon DEF Sound
      <3>7. 1 \in 1 .. Len(work)
        BY <1>3
      <3>8. 1 = Len(work) /\ awaiting /\ pc # "write_up"
        BY <1>7, <3>6, <3>7, Zenon
      <3>9. work' = <<>>
        BY <1>1, <1>2, <3>8
      <3>10. Closing'
        BY <1>1, <1>5, <3>1, <3>5, <3>8, <3>9, Zenon DEF Closing
      <3> QED
        BY <1>1, <3>1, <3>2, <3>3, <3>5, <3>6, <3>10, Zenon DEF Closes
    <2> QED
      BY <2>1, <2>2, Zenon
  <1> QED
    BY <1>1, <1>5, <1>6, <1>8, <1>9, Zenon DEF Order

LEMMA OrderStep == ASSUME Types, Order, [Next]_vars PROVE Order'
  <1>1. CASE Leaves
    <2>1. ~Running'
      BY <1>1, LeaveDoes, Zenon DEF Over, Running
    <2> QED
      BY <2>1, Zenon DEF Order
  <1> QED
    BY <1>1, Steps, OrderAway, OrderPump, OrderDatabase, OrderFront, OrderTake, OrderWrite, OrderOn, Zenon

-----------------------------------------------------------------------------
(* Views *)

\* A forecast goes on when the first frame is taken, when one is added and when the wire is cut.
LEMMA ForecastTail ==
  ASSUME NEW s \in Seq(Backs), NEW t \in Seq(Backs), Len(t) = Len(s) - 1, Len(s) # 0,
         \A i \in 1 .. Len(t) : t[i] = s[i + 1], NEW V \in SUBSET (0 .. Len(s)), Forecast(s, V)
  PROVE  \E W \in SUBSET (0 .. Len(t)) :
           (0 \in W <=> After(s[1], 0 \in V)) /\ Forecast(t, W) /\ (Len(t) \in W <=> Len(s) \in V)
  <1> DEFINE W == {i \in 0 .. Len(t) : i + 1 \in V}
  <1>1. Len(t) \in Nat /\ Len(s) \in Nat /\ Len(s) = Len(t) + 1
    OBVIOUS
  <1>2. 0 \in W <=> After(s[1], 0 \in V)
    <2>1. 1 \in V <=> After(s[1], 0 \in V)
      BY <1>1 DEF Forecast
    <2> QED
      BY <1>1, <2>1
  <1>3. ASSUME NEW i \in 1 .. Len(t)
        PROVE  (i \in W <=> After(t[i], i - 1 \in W)) /\ (t[i].tag = "COMMIT" => i - 1 \notin W)
    <2>1. /\ i + 1 \in 1 .. Len(s) /\ (i + 1) - 1 = i /\ t[i] = s[i + 1]
          /\ i \in W <=> i + 1 \in V
          /\ i - 1 \in W <=> i \in V
      BY <1>1
    <2>2. (i + 1 \in V <=> After(s[i + 1], i \in V)) /\ (s[i + 1].tag = "COMMIT" => i \notin V)
      BY <2>1 DEF Forecast
    <2> QED
      BY <2>1, <2>2, Zenon DEF After
  <1>4. Len(t) \in W <=> Len(s) \in V
    BY <1>1
  <1> QED
    BY <1>2, <1>3, <1>4, Zenon DEF Forecast

LEMMA ForecastMore ==
  ASSUME NEW s \in Seq(Backs), NEW t \in Seq(Backs), NEW f, t = Append(s, f),
         NEW V \in SUBSET (0 .. Len(s)), Forecast(s, V), f.tag = "COMMIT" => Len(s) \notin V
  PROVE  \E W \in SUBSET (0 .. Len(t)) :
           (0 \in W <=> 0 \in V) /\ Forecast(t, W) /\ (Len(t) \in W <=> After(f, Len(s) \in V))
  <1> DEFINE W == V \cup {i \in {Len(s) + 1} : After(f, Len(s) \in V)}
  <1>1. /\ Len(t) = Len(s) + 1 /\ Len(s) \in Nat /\ t[Len(s) + 1] = f
        /\ \A i \in 1 .. Len(s) : t[i] = s[i]
    OBVIOUS
  <1>2. /\ \A i \in 0 .. Len(s) : i \in W <=> i \in V
        /\ Len(s) + 1 \in W <=> After(f, Len(s) \in V)
    BY <1>1
  <1>3. ASSUME NEW i \in 1 .. Len(t)
        PROVE  (i \in W <=> After(t[i], i - 1 \in W)) /\ (t[i].tag = "COMMIT" => i - 1 \notin W)
    <2>1. CASE i \in 1 .. Len(s)
      <3>1. i - 1 \in 0 .. Len(s) /\ i \in 0 .. Len(s) /\ t[i] = s[i]
        BY <1>1, <2>1
      <3>2. (i \in V <=> After(s[i], i - 1 \in V)) /\ (s[i].tag = "COMMIT" => i - 1 \notin V)
        BY <2>1, Zenon DEF Forecast
      <3>3. (i \in W <=> i \in V) /\ (i - 1 \in W <=> i - 1 \in V)
        BY <1>2, <3>1, Zenon
      <3> HIDE DEF W
      <3> QED
        BY <3>1, <3>2, <3>3, Zenon DEF After
    <2>2. CASE i = Len(s) + 1
      <3>1. i - 1 = Len(s) /\ t[i] = f /\ Len(s) \in 0 .. Len(s)
        BY <1>1, <2>2
      <3>3. (i \in W <=> After(f, Len(s) \in V)) /\ (i - 1 \in W <=> Len(s) \in V)
        BY <1>2, <2>2, <3>1, Zenon
      <3> HIDE DEF W
      <3> QED
        BY <3>1, <3>3, Zenon DEF After
    <2> QED
      BY <1>1, <2>1, <2>2
  <1>4. W \in SUBSET (0 .. Len(t)) /\ 0 \in 0 .. Len(s)
    <2>1. \A i \in 0 .. Len(s) : i \in 0 .. Len(t)
      BY <1>1
    <2>2. Len(s) + 1 \in 0 .. Len(t) /\ 0 \in 0 .. Len(s)
      BY <1>1
    <2> QED
      BY <2>1, <2>2, Zenon
  <1>5. (0 \in W <=> 0 \in V) /\ (Len(t) \in W <=> After(f, Len(s) \in V))
    BY <1>1, <1>2, <1>4, Zenon
  <1> QED
    BY <1>3, <1>4, <1>5, Zenon DEF Forecast

LEMMA ForecastCut ==
  ASSUME NEW s \in Seq(Backs), NEW t \in Seq(Backs), Len(t) <= Len(s),
         \A i \in 1 .. Len(t) : t[i] = s[i], NEW V \in SUBSET (0 .. Len(s)), Forecast(s, V)
  PROVE  \E W \in SUBSET (0 .. Len(t)) : (0 \in W <=> 0 \in V) /\ Forecast(t, W)
  <1> DEFINE W == V \cap (0 .. Len(t))
  <1>1. Len(t) \in Nat /\ Len(s) \in Nat
    OBVIOUS
  <1>2. ASSUME NEW i \in 1 .. Len(t)
        PROVE  (i \in W <=> After(t[i], i - 1 \in W)) /\ (t[i].tag = "COMMIT" => i - 1 \notin W)
    <2>1. /\ i \in 1 .. Len(s) /\ t[i] = s[i]
          /\ i \in W <=> i \in V
          /\ i - 1 \in W <=> i - 1 \in V
      BY <1>1
    <2>2. (i \in V <=> After(s[i], i - 1 \in V)) /\ (s[i].tag = "COMMIT" => i - 1 \notin V)
      BY <2>1, Zenon DEF Forecast
    <2> HIDE DEF W
    <2> QED
      BY <2>1, <2>2, Zenon DEF After
  <1>3. 0 \in W <=> 0 \in V
    BY <1>1
  <1> QED
    BY <1>2, <1>3, Zenon DEF Forecast

ComingTyped == Coming \in Seq(Backs)

LEMMA ComingTypeNext == Types' => Coming' \in Seq(Backs)
  <1>1. Types => ComingTyped
    BY ComingType, Zenon DEF ComingTyped
  <1>2. Types' => ComingTyped'
    BY <1>1, PTL
  <1> QED
    BY <1>2, Zenon DEF ComingTyped

\* Views is preserved: without a commit no COMMIT that comes finds the view true.
LEMMA SeenKept ==
  ASSUME Coming' = Coming, transaction' = transaction, Calm' => Calm, Seen
  PROVE  Seen'
  BY Zenon DEF Seen, Forecast, After

LEMMA ViewsPump == ASSUME Types, Types', Views, Pump("back") PROVE Views'
  <1>1. UNCHANGED <<block, skip, pc, transaction, active, committed>>
    BY PumpDoes, Zenon DEF rest, cycles
  <1> SUFFICES ASSUME Seen PROVE Seen'
    BY <1>1, Zenon DEF Views, Running
  <1>2. CASE PumpRead("back") \/ PumpSend("back")
    <2>1. Coming' = Coming
      BY <1>2, ComingKept, Zenon
    <2>2. pump["back"] # "done"
      BY <1>2, Zenon DEF PumpRead, PumpSend
    <2> QED
      BY <1>1, <2>1, <2>2, SeenKept, Zenon DEF Calm
  <1>3. CASE PumpQuits("back") \/ PumpFails("back")
    <2>1. /\ pump'["back"] = "done" /\ Len(Coming') <= Len(Coming)
          /\ \A i \in 1 .. Len(Coming') : Coming'[i] = Coming[i]
      BY <1>3, ComingCut, Zenon
    <2>2. Coming \in Seq(Backs) /\ Coming' \in Seq(Backs)
      BY ComingType, ComingTypeNext, Zenon
    <2>3. PICK V \in SUBSET (0 .. Len(Coming)) : (transaction <=> 0 \in V) /\ Forecast(Coming, V)
      BY Zenon DEF Seen
    <2>4. PICK W \in SUBSET (0 .. Len(Coming')) : (0 \in W <=> 0 \in V) /\ Forecast(Coming', W)
      BY <2>1, <2>2, <2>3, ForecastCut, Zenon
    <2>5. ~Calm'
      BY <2>1, Zenon DEF Calm
    <2> QED
      BY <1>1, <2>3, <2>4, <2>5, Zenon DEF Seen, Forecast, After
  <1> QED
    BY <1>2, <1>3, Zenon DEF Pump

LEMMA ViewsFront == ASSUME Types, Types', Order, Views, NEW f \in FrontFrames, TakeFront(f) PROVE Views'
  <1>1. /\ pc = "select" /\ UNCHANGED <<block, skip, wire, pump["back"], hand["back"], channel["back"], transaction>>
        /\ (active => committed' = committed)
    BY TakeFrontDoes, Zenon DEF database, back
  <1>2. Coming' = Coming
    BY <1>1, ComingKept, Zenon
  <1>3. Running /\ (Calm' <=> Calm)
    BY <1>1, Zenon DEF Calm, Running
  <1>4. CASE active
    BY <1>1, <1>2, <1>3, <1>4, SeenKept, Zenon DEF Views
  <1>5. CASE ~active
    <2>1. Clear
      BY <1>3, <1>5, Zenon DEF Order
    <2>2. Coming = <<>> /\ Len(Coming) = 0
      BY <2>1, ComingNone, Zenon DEF Clear
    <2> DEFINE V == {i \in {0} : transaction}
    <2>3. V \in SUBSET (0 .. Len(Coming)) /\ (transaction <=> 0 \in V) /\ Len(Coming) = 0
      BY <2>2
    <2>4. Forecast(Coming, V)
      BY <2>2 DEF Forecast
    <2>5. Calm => 0 \notin V
      BY <2>1, Zenon DEF Calm, Clear
    <2>6. Seen
      BY <2>3, <2>4, <2>5, Zenon DEF Seen
    <2> QED
      BY <1>1, <1>2, <1>3, <2>6, SeenKept, Zenon DEF Views
  <1> QED
    BY <1>4, <1>5, Zenon

LEMMA ViewsTake == ASSUME Types, Types', Order, Views, TakeBack \/ TakeCommit PROVE Views'
  <1>1. /\ pc = "select" /\ channel["back"] # <<>>
        /\ channel' = [channel EXCEPT !["back"] = Tail(channel["back"])]
        /\ UNCHANGED <<block, skip, wire, pump, hand, active, committed>> /\ frame' = Head(channel["back"])
    BY TakeDoes, Zenon DEF database
  <1> SUFFICES ASSUME Seen, active PROVE Seen'
    BY <1>1, Zenon DEF Views, Running
  <1>2. /\ Len(Coming) >= 1 /\ Coming[1] = frame' /\ Len(Coming') = Len(Coming) - 1
        /\ \A i \in 1 .. Len(Coming) - 1 : Coming'[i] = Coming[i + 1]
    BY <1>1, ComingTaken, Zenon
  <1>3. Coming \in Seq(Backs) /\ Coming' \in Seq(Backs)
    BY ComingType, ComingTypeNext, Zenon
  <1>4. PICK V \in SUBSET (0 .. Len(Coming)) :
          (transaction <=> 0 \in V) /\ Forecast(Coming, V) /\ (Calm => Len(Coming) \notin V)
    BY Zenon DEF Seen
  <1>5. PICK W \in SUBSET (0 .. Len(Coming')) :
          (0 \in W <=> After(frame', 0 \in V)) /\ Forecast(Coming', W) /\ (Len(Coming') \in W <=> Len(Coming) \in V)
    BY <1>2, <1>3, <1>4, ForecastTail
  <1>6. frame'.tag = "COMMIT" => ~transaction
    <2>1. 1 \in 1 .. Len(Coming) /\ 1 - 1 = 0
      BY <1>2, <1>3
    <2>2. Coming[1].tag = "COMMIT" => 1 - 1 \notin V
      BY <1>4, <2>1, Zenon DEF Forecast
    <2> QED
      BY <1>2, <1>4, <2>1, <2>2, Zenon
  <1>7. transaction' <=> After(frame', transaction)
    <2>1. transaction' = View(frame')
      BY <1>6, TakeDoes, Zenon DEF Confirms
    <2> QED
      BY <1>6, <2>1, Zenon DEF View, After
  <1>8. transaction' <=> 0 \in W
    BY <1>4, <1>5, <1>7, Zenon DEF After
  <1>9. Calm' <=> Calm
    BY <1>1, Zenon DEF Calm
  <1> QED
    BY <1>4, <1>5, <1>8, <1>9, Zenon DEF Seen, Forecast, After

LEMMA ForecastSent ==
  ASSUME NEW f, Coming \in Seq(Backs), Coming' \in Seq(Backs), Coming' = Append(Coming, f),
         NEW V \in SUBSET (0 .. Len(Coming)), Forecast(Coming, V), f.tag = "COMMIT" => Len(Coming) \notin V
  PROVE  \E W \in SUBSET (0 .. Len(Coming')) :
           (0 \in W <=> 0 \in V) /\ Forecast(Coming', W) /\ (Len(Coming') \in W <=> After(f, Len(Coming) \in V))
  BY ForecastMore, Zenon

LEMMA ViewsDatabase == ASSUME Types, Types', Views, Database PROVE Views'
  <1>1. /\ Running /\ UNCHANGED <<pump, hand, channel, pc, transaction, active>>
        /\ work[1].op \in Statements \cup {"parse"} \cup Ends /\ skip \in {"nothing"} \cup Ends
        /\ wire \in Seq(Backs)
    <2>1. work \in Seq(TokenSet) /\ skip \in {"nothing"} \cup Ends /\ wire \in Seq(Backs)
      BY Zenon DEF Types, Values, Wires
    <2>2. Running /\ work # <<>> /\ UNCHANGED <<pump, hand, channel, pc, transaction, active>>
      BY DatabaseDoes, Zenon DEF rest, cycles
    <2>3. work[1] \in TokenSet
      BY <2>1, <2>2
    <2> QED
      BY <2>1, <2>2, <2>3, Zenon DEF TokenSet
  <1>2. CASE UNCHANGED <<block, skip, wire, committed>>
    <2>1. Coming' = Coming
      BY <1>1, <1>2, ComingKept, Zenon
    <2>2. Calm' <=> Calm
      BY <1>1, <1>2, Zenon DEF Calm
    <2> QED
      BY <1>1, <1>2, <2>1, <2>2, SeenKept, Zenon DEF Views
  <1>3. ASSUME skip \in {"nothing", work[1].op},
               NEW r, Sound(work[1].op, block, r), block' = r.block,
               wire' = Append(wire, Back(r.kind, r.tag, cycle)),
               skip' = "nothing" <=> r.kind # "E",
               committed' = (committed \/ (r.tag = "COMMIT" /\ block = "T"))
        PROVE  Views'
    <2>0. PICK f : f = Back(r.kind, r.tag, cycle)
      BY Zenon
    <2>1. f \in Backs /\ f.kind = r.kind /\ f.tag = r.tag
      <3>1. cycle \in Nat /\ block \in Blocks
        BY Zenon DEF Types, Values
      <3>2. PICK op : op = work[1].op
        BY Zenon
      <3>3. Sound(op, block, r)
        BY <1>3, <3>2, Zenon
      <3>4. Back(r.kind, r.tag, cycle) \in Backs
        BY <3>1, <3>3, BackIs, Zenon
      <3> QED
        BY <2>0, <3>4, Zenon DEF Back
    <2> SUFFICES ASSUME Seen, r.tag = "COMMIT" => block # "T" PROVE Seen'
      BY <1>1, <1>3, Zenon DEF Views
    <2>2. CASE pump["back"] = "done"
      <3>1. Coming' = Coming
        BY <1>1, <1>3, <2>0, <2>1, <2>2, ComingSent, Zenon
      <3>2. ~Calm'
        BY <1>1, <2>2, Zenon DEF Calm
      <3> QED
        BY <1>1, <3>1, <3>2, SeenKept, Zenon
    <2>3. CASE pump["back"] # "done"
      <3>1. Coming' = Append(Coming, f)
        BY <1>1, <1>3, <2>0, <2>1, <2>3, ComingSent, Zenon
      <3>2. Coming \in Seq(Backs) /\ Coming' \in Seq(Backs)
        BY ComingType, ComingTypeNext, Zenon
      <3>3. PICK V \in SUBSET (0 .. Len(Coming)) :
              (transaction <=> 0 \in V) /\ Forecast(Coming, V) /\ (Calm => Len(Coming) \notin V)
        BY Zenon DEF Seen
      <3>4. work[1].op \in Ends => r.kind = "Z"
        BY <1>3, OpsAre, Zenon DEF Sound
      <3>5. work[1].op \notin Ends => skip = "nothing"
        BY <1>1, <1>3, OpsAre, Zenon
      <3>6. r.tag = "COMMIT" => Len(Coming) \notin V
        <4>1. r.tag = "COMMIT" => block = "I" /\ r.kind = "C"
          BY <1>3, Zenon DEF Sound
        <4>2. r.tag = "COMMIT" => Calm
          BY <2>3, <3>4, <3>5, <4>1, Zenon DEF Calm
        <4> QED
          BY <3>3, <4>2, Zenon
      <3>7. PICK W \in SUBSET (0 .. Len(Coming')) :
              (0 \in W <=> 0 \in V) /\ Forecast(Coming', W) /\ (Len(Coming') \in W <=> After(f, Len(Coming) \in V))
        <4>1. f.tag = "COMMIT" => Len(Coming) \notin V
          BY <2>1, <3>6, Zenon
        <4> QED
          BY <3>1, <3>2, <3>3, <4>1, ForecastSent, Zenon
      <3>8. Calm' => Len(Coming') \notin W
        <4> SUFFICES ASSUME Calm' PROVE ~After(f, Len(Coming) \in V)
          BY <3>7, Zenon DEF After
        <4>1. r.block = "I" /\ r.kind # "E"
          BY <1>3, Zenon DEF Calm
        <4>2. r.tag # "BEGIN" /\ (r.kind = "Z" => r.tag = "I")
          BY <1>3, <4>1, Zenon DEF Sound
        <4>3. r.tag \notin {"COMMIT", "ROLLBACK"} => block = "I"
          BY <1>3, <4>1, Zenon DEF Sound
        <4>4. r.tag \notin {"COMMIT", "ROLLBACK"} /\ r.kind # "Z" => Len(Coming) \notin V
          BY <2>3, <3>3, <3>4, <3>5, <4>3, Zenon DEF Calm
        <4> QED
          BY <2>1, <4>2, <4>4, Zenon DEF After
      <3> QED
        BY <1>1, <3>3, <3>7, <3>8, Zenon DEF Seen, Forecast, After
    <2> QED
      BY <2>2, <2>3, Zenon
  <1> QED
    BY <1>2, <1>3, DatabaseDoes, Zenon

LEMMA ViewsStep == ASSUME Types, Types', Order, Views, [Next]_vars PROVE Views'
  <1>1. CASE Leaves
    <2>1. ~Running'
      BY <1>1, LeaveDoes, Zenon DEF Over, Running
    <2> QED
      BY <2>1, Zenon DEF Views
  <1>2. CASE Aways \/ (WriteUp \/ WriteDown) \/ (RecordApplied \/ ApplyForwards)
    <2>1. /\ UNCHANGED <<block, skip, wire, pump["back"], hand["back"], channel["back"], transaction, committed>>
          /\ active' => active
          /\ Running' => Running
      <3>1. CASE Aways
        BY <3>1, AwayDoes DEF core, cycles, back, database, Running
      <3>2. CASE WriteUp \/ WriteDown
        <4>1. /\ UNCHANGED <<block, skip, wire, back, transaction, committed>> /\ Running
          BY <3>2, WriteDoes, Zenon DEF Running
        <4>2. active' = active \/ active' = FALSE
          BY <3>2, WriteDoes, Zenon DEF cycles
        <4> QED
          BY <4>1, <4>2 DEF back
      <3>3. CASE RecordApplied \/ ApplyForwards
        BY <3>3, OnDoes DEF core, back, database, Running, Deciding
      <3> QED
        BY <1>2, <3>1, <3>2, <3>3, Zenon
    <2>2. Coming' = Coming
      BY <2>1, ComingKept, Zenon
    <2>3. Calm' <=> Calm
      BY <2>1, Zenon DEF Calm
    <2> QED
      BY <2>1, <2>2, <2>3, SeenKept, Zenon DEF Views
  <1> QED
    BY <1>1, <1>2, Steps, ViewsPump, ViewsDatabase, ViewsFront, ViewsTake, Zenon

-----------------------------------------------------------------------------
(* Single *)

\* A ReadyForQuery that is coming is the one of the cycle, and says how the block stands.
LEMMA ReadyCloses ==
  ASSUME Types, Order, Running, NEW i \in 1 .. Len(Coming), Coming[i].kind = "Z"
  PROVE  Closing /\ Coming[i].tag = block
  <1>1. CASE \E k \in 1 .. Len(channel["back"]) : Coming[i] = channel["back"][k]
    BY <1>1, Zenon DEF Order, Closes
  <1>2. CASE pump["back"] = "send" /\ Coming[i] = hand["back"]
    BY <1>2, Zenon DEF Order, Closes
  <1>3. CASE \E k \in 1 .. Len(wire) : Coming[i] = wire[k]
    BY <1>3, Zenon DEF Order, Closes
  <1> QED
    BY <1>1, <1>2, <1>3, ComingFrom, Zenon

\* Single is preserved: the COMMIT of one statement is noticed or its cycle is cut off.
LEMMA SinglePump == ASSUME Types, Types', Order, Single, Pump("back") PROVE Single'
  <1>1. UNCHANGED <<block, work, skip, frame, pc, transaction, decided, statements, active, committed>>
    BY PumpDoes, Zenon DEF rest, cycles
  <1> SUFFICES ASSUME Running, Untouched, Alone, Noticed PROVE (Untouched /\ Alone /\ Noticed)'
    BY <1>1, Zenon DEF Single, Running
  <1>2. Coming \in Seq(Backs) /\ Coming' \in Seq(Backs)
    BY ComingType, ComingTypeNext, Zenon
  <1>3. pump["back"] # "done"
    BY Zenon DEF Pump, PumpRead, PumpSend, PumpQuits, PumpFails
  <1>4. /\ Len(Coming') <= Len(Coming)
        /\ \A i \in 1 .. Len(Coming') : Coming'[i] = Coming[i]
        /\ pump'["back"] # "done" => Coming' = Coming
    <2>1. CASE PumpRead("back") \/ PumpSend("back")
      <3>1. Coming' = Coming
        BY <2>1, ComingKept, Zenon
      <3> QED
        BY <1>2, <3>1
    <2>2. CASE PumpQuits("back") \/ PumpFails("back")
      BY <2>2, ComingCut, Zenon
    <2> QED
      BY <2>1, <2>2, Zenon DEF Pump
  <1>5. /\ Pending' <=> Pending
        /\ Alone'
    BY <1>1, Zenon DEF Pending, Alone, Statement
  <1>6. Fresh => Fresh'
    <2>1. \A i \in 1 .. Len(Coming') : i \in 1 .. Len(Coming)
      BY <1>2, <1>4
    <2> QED
      BY <1>1, <1>4, <2>1, Zenon DEF Fresh
  <1>7. Untouched'
    BY <1>1, <1>5, <1>6, Zenon DEF Untouched
  <1>8. ASSUME Awaited PROVE Awaited' \/ Severed'
    <2>1. PICK i \in 1 .. Len(Coming) :
            Coming[i].tag = "COMMIT" /\ transaction /\ \A k \in 1 .. i - 1 : Coming[k].kind = "1"
      BY <1>8, Zenon DEF Awaited
    <2>2. CASE i \in 1 .. Len(Coming')
      <3>1. \A k \in 1 .. i - 1 : Coming'[k] = Coming[k]
        BY <1>2, <1>4, <2>2
      <3> QED
        BY <1>1, <1>4, <2>1, <2>2, <3>1, Zenon DEF Awaited
    <2>3. CASE i \notin 1 .. Len(Coming')
      <3>1. \A k \in 1 .. Len(Coming') : k \in 1 .. i - 1
        BY <1>2, <2>1, <2>3
      <3>2. \A k \in 1 .. Len(Coming') : Coming'[k].kind # "Z"
        BY <1>4, <2>1, <3>1, Zenon
      <3>3. pump'["back"] = "done"
        BY <1>4, <2>1, <2>3, Zenon
      <3>4. ~(pc = "write_down" /\ frame.kind = "Z")
        <4>1. ~Clear
          <5>1. Clear => Len(Coming) = 0
            BY ComingNone, Zenon DEF Clear
          <5> QED
            BY <2>1, <5>1
        <4> QED
          BY <4>1, Zenon DEF Order
      <3> QED
        BY <1>1, <3>2, <3>3, <3>4, Zenon DEF Severed
    <2> QED
      BY <2>2, <2>3, Zenon
  <1>9. Noticed'
    BY <1>1, <1>3, <1>8, Zenon DEF Noticed, Severed
  <1> QED
    BY <1>5, <1>7, <1>9, Zenon

LEMMA SingleFront ==
  ASSUME Types, Types', Order, Single, NEW f \in FrontFrames, TakeFront(f)
  PROVE  Single'
  <1>1. /\ pc = "select" /\ pc' = "write_up" /\ frame' = f
        /\ UNCHANGED <<block, work, skip, wire, pump["back"], hand["back"], channel["back"], transaction>>
        /\ active => UNCHANGED <<decided, committed>>
        /\ ~active => committed' = FALSE
    BY TakeFrontDoes, Zenon DEF database, back
  <1>2. Coming' = Coming /\ Running
    BY <1>1, ComingKept, Zenon DEF Running
  <1>3. Len(f.todo) \in Nat /\ (f.todo = <<>> <=> Len(f.todo) = 0)
    BY FrontIs, Zenon
  <1>4. CASE active
    <2>1. statements \in Nat
      BY Zenon DEF Types, Values
    <2>2. statements' = Len(f.todo) + statements
      BY <1>4, TakeFrontDoes, Zenon
    <2>3. Untouched /\ Alone /\ Noticed
      BY <1>2, <1>4, Zenon DEF Single
    <2>4. /\ Fresh => Fresh'
          /\ Pending' <=> (Pending \/ f.todo # <<>>)
          /\ Pending <=> \E i \in 1 .. Len(work) : Statement(work[i])
      <3>1. Fresh => Fresh'
        BY <1>1, <1>2, <1>4, Zenon DEF Fresh
      <3>2. Pending <=> \E i \in 1 .. Len(work) : Statement(work[i])
        BY <1>1, Zenon DEF Pending
      <3>3. Pending' <=> (\E i \in 1 .. Len(work) : Statement(work[i])) \/ f.todo # <<>>
        BY <1>1, Zenon DEF Pending, Statement
      <3> QED
        BY <3>1, <3>2, <3>3, Zenon
    <2>5. CASE statements' = 0
      <3>1. statements = 0 /\ f.todo = <<>>
        BY <1>3, <2>1, <2>2, <2>5
      <3>2. ~Pending /\ Fresh
        BY <2>3, <3>1, Zenon DEF Untouched
      <3>3. Untouched'
        BY <2>4, <3>1, <3>2, Zenon DEF Untouched
      <3> QED
        BY <2>5, <3>3 DEF Single, Alone, Noticed
    <2>6. CASE statements' = 1 /\ statements = 0
      <3>1. Len(f.todo) = 1
        BY <1>3, <2>2, <2>6
      <3>2. ~Pending /\ Fresh
        BY <2>3, <2>6, Zenon DEF Untouched
      <3>3. Untouched'
        BY <2>4, <2>6, <3>2 DEF Untouched
      <3>4. \A i \in 1 .. Len(work) : ~Statement(work[i])
        BY <2>4, <3>2, Zenon
      <3>5. Alone'
        BY <1>1, <3>1, <3>4, Zenon DEF Alone, Statement
      <3>6. Noticed'
        BY <2>4, <3>2, Zenon DEF Noticed, Fresh
      <3> QED
        BY <3>3, <3>5, <3>6, Zenon DEF Single
    <2>7. CASE statements' = 1 /\ statements = 1
      <3>1. f.todo = <<>>
        BY <1>3, <2>2, <2>7
      <3>2. Untouched'
        BY <2>3, <2>4, <2>7, <3>1, Zenon DEF Untouched
      <3>3. Alone'
        BY <1>1, <2>3, <2>7, <3>1, Zenon DEF Alone, Statement
      <3>4. (Awaited => Awaited') /\ (Severed => Severed')
        BY <1>1, <1>2, Zenon DEF Awaited, Severed
      <3>5. Noticed'
        BY <1>1, <1>4, <2>3, <2>7, <3>4, Zenon DEF Noticed
      <3> QED
        BY <3>2, <3>3, <3>5, Zenon DEF Single
    <2>8. CASE statements' \notin {0, 1}
      BY <2>8, Zenon DEF Single, Untouched, Alone, Noticed
    <2>9. statements' = 1 => statements \in {0, 1}
      BY <1>3, <2>1, <2>2
    <2> QED
      BY <2>5, <2>6, <2>7, <2>8, <2>9, Zenon
  <1>5. CASE ~active
    <2>1. Clear
      BY <1>2, <1>5, Zenon DEF Order
    <2>2. statements' = Len(f.todo)
      <3>1. statements' = Len(f.todo) + 0
        BY <1>5, TakeFrontDoes, Zenon
      <3> QED
        BY <1>3, <3>1
    <2>3. Len(Coming) = 0
      BY <2>1, ComingNone, Zenon DEF Clear
    <2>4. work' = <<>> /\ Len(work') = 0 /\ committed' = FALSE
      BY <1>1, <1>5, <2>1, Zenon DEF Clear
    <2>5. Fresh'
      BY <1>1, <1>2, <2>1, <2>3, <2>4 DEF Fresh, Clear
    <2>6. Pending' <=> f.todo # <<>>
      BY <1>1, <2>4 DEF Pending
    <2>7. Untouched'
      BY <1>3, <2>2, <2>5, <2>6, Zenon DEF Untouched
    <2>8. Alone'
      BY <1>1, <2>2, <2>4 DEF Alone
    <2>9. Noticed'
      BY <2>4, Zenon DEF Noticed
    <2> QED
      BY <2>7, <2>8, <2>9, Zenon DEF Single
  <1> QED
    BY <1>4, <1>5, Zenon

LEMMA SingleTake ==
  ASSUME Types, Types', Order, Single, TakeBack \/ TakeCommit
  PROVE  Single'
  <1>1. /\ pc = "select" /\ channel["back"] # <<>>
        /\ channel' = [channel EXCEPT !["back"] = Tail(channel["back"])]
        /\ UNCHANGED <<block, work, skip, wire, pump, hand, active, statements, committed>>
        /\ frame' = Head(channel["back"]) /\ frame' \in Backs /\ pc' \in {"write_down", "record"}
    BY TakeDoes, Zenon DEF database
  <1> SUFFICES ASSUME active, Untouched, Alone, Noticed PROVE (Untouched /\ Alone /\ Noticed)'
    BY <1>1, Zenon DEF Single, Running
  <1>2. /\ Len(Coming) >= 1 /\ Coming[1] = frame' /\ Len(Coming') = Len(Coming) - 1
        /\ \A i \in 1 .. Len(Coming) - 1 : Coming'[i] = Coming[i + 1]
    BY <1>1, ComingTaken, Zenon
  <1>3. Coming \in Seq(Backs) /\ Len(Coming) \in Nat /\ 1 \in 1 .. Len(Coming) /\ Running
    BY <1>1, <1>2, ComingType DEF Running
  <1>4. Pending' <=> Pending
    BY <1>1, Zenon DEF Pending, Statement
  <1>5. Alone'
    <2>1. pc' # "write_up"
      BY <1>1, Zenon
    <2> QED
      BY <1>1, <2>1, Zenon DEF Alone, Statement
  <1>6. frame'.kind = "1" => TakeBack /\ (transaction' <=> transaction)
    <2> SUFFICES ASSUME frame'.kind = "1" PROVE TakeBack /\ (transaction' <=> transaction)
      BY Zenon
    <2>1. frame'.tag = "none"
      BY <1>1, Zenon DEF Backs
    <2>2. transaction' = View(frame') /\ TakeBack
      BY <2>1, TakeDoes, Zenon DEF Confirms
    <2> QED
      BY <2>1, <2>2, Zenon DEF View
  <1>7. frame'.kind = "Z" => TakeBack /\ (transaction' <=> block # "I")
    <2> SUFFICES ASSUME frame'.kind = "Z" PROVE TakeBack /\ (transaction' <=> block # "I")
      BY Zenon
    <2>1. frame'.tag = block
      BY <1>2, <1>3, ReadyCloses, Zenon
    <2>2. frame'.tag # "COMMIT"
      BY <1>1, Zenon DEF Backs, Blocks
    <2>3. transaction' = View(frame') /\ TakeBack
      BY <2>2, TakeDoes, Zenon DEF Confirms
    <2> QED
      BY <2>1, <2>3, Zenon DEF View
  <1>8. Fresh => Fresh'
    <2> SUFFICES ASSUME Fresh PROVE Fresh'
      BY Zenon
    <2>1. frame'.kind \in {"1", "Z"}
      BY <1>2, <1>3, Zenon DEF Fresh
    <2>2. transaction' <=> block # "I"
      BY <1>6, <1>7, <2>1, Zenon DEF Fresh
    <2>3. ASSUME NEW i \in 1 .. Len(Coming') PROVE Coming'[i].kind \in {"1", "Z"}
      <3>1. i + 1 \in 1 .. Len(Coming) /\ Coming'[i] = Coming[i + 1]
        BY <1>2, <1>3
      <3> QED
        BY <3>1, Zenon DEF Fresh
    <2> QED
      BY <1>1, <2>2, <2>3, Zenon DEF Fresh
  <1>9. Untouched'
    BY <1>1, <1>4, <1>8, Zenon DEF Untouched
  <1>10. Noticed'
    <2> SUFFICES ASSUME statements = 1, committed, ~decided' PROVE Awaited' \/ Severed'
      BY <1>1, Zenon DEF Noticed
    <2>1. TakeBack /\ ~Confirms(frame') /\ decided' = decided /\ pc' = "write_down"
      BY TakeDoes, Zenon
    <2>2. ASSUME Awaited PROVE Awaited'
      <3>1. PICK i \in 1 .. Len(Coming) :
              Coming[i].tag = "COMMIT" /\ transaction /\ \A k \in 1 .. i - 1 : Coming[k].kind = "1"
        BY <2>2, Zenon DEF Awaited
      <3>2. i # 1
        BY <1>2, <2>1, <3>1, Zenon DEF Confirms
      <3>3. i - 1 \in 1 .. Len(Coming') /\ Coming'[i - 1] = Coming[i] /\ 1 \in 1 .. i - 1
        BY <1>2, <1>3, <3>1, <3>2
      <3>4. transaction'
        BY <1>2, <1>6, <3>1, <3>3, Zenon
      <3>5. ASSUME NEW k \in 1 .. (i - 1) - 1 PROVE Coming'[k].kind = "1"
        <4>1. k + 1 \in 1 .. i - 1 /\ Coming'[k] = Coming[k + 1]
          BY <1>2, <1>3, <3>1
        <4> QED
          BY <3>1, <4>1, Zenon
      <3> QED
        BY <3>1, <3>3, <3>4, <3>5, Zenon DEF Awaited
    <2>3. ASSUME Severed PROVE Severed'
      <3>1. frame'.kind # "Z"
        BY <1>2, <1>3, <2>3, Zenon DEF Severed
      <3>2. ASSUME NEW i \in 1 .. Len(Coming') PROVE Coming'[i].kind # "Z"
        <4>1. i + 1 \in 1 .. Len(Coming) /\ Coming'[i] = Coming[i + 1]
          BY <1>2, <1>3
        <4> QED
          BY <2>3, <4>1, Zenon DEF Severed
      <3> QED
        BY <1>1, <2>3, <3>1, <3>2, Zenon DEF Severed
    <2> QED
      BY <2>1, <2>2, <2>3, Zenon DEF Noticed
  <1> QED
    BY <1>5, <1>9, <1>10, Zenon

LEMMA SingleWrite ==
  ASSUME Types, Types', Order, Single, WriteUp \/ WriteDown
  PROVE  Single'
  <1>1. /\ pc' = "select" /\ pc \in {"write_up", "write_down"}
        /\ UNCHANGED <<block, skip, wire, pump["back"], hand["back"], channel["back"], transaction, decided,
                       statements, committed>>
        /\ active' = active \/ active' = FALSE
    <2>1. /\ pc' = "select" /\ pc \in {"write_up", "write_down"}
          /\ UNCHANGED <<block, skip, wire, back, transaction, decided, statements, committed>>
      BY WriteDoes, Zenon
    <2>2. active' = active \/ active' = FALSE
      BY WriteDoes, Zenon DEF cycles
    <2> QED
      BY <2>1, <2>2, Zenon DEF back
  <1>2. Coming' = Coming /\ Running
    BY <1>1, ComingKept, Zenon DEF Running
  <1> SUFFICES ASSUME Untouched, Alone, Noticed PROVE (Untouched /\ Alone /\ Noticed)'
    BY <1>1, <1>2, Zenon DEF Single
  <1>3. Fresh => Fresh'
    BY <1>1, <1>2, Zenon DEF Fresh
  <1>4. Noticed'
    <2>1. (Awaited => Awaited') /\ (Severed => Severed')
      BY <1>1, <1>2, Zenon DEF Awaited, Severed
    <2> QED
      BY <1>1, <2>1, Zenon DEF Noticed
  <1>5. (Pending' => Pending) /\ Alone'
    <2>1. CASE WriteUp
      <3>1. pc = "write_up"
        BY <2>1, Zenon DEF WriteUp
      <3>2. PICK t \in Tokens(frame) : work' = work \o t
        BY <2>1, Zenon DEF WriteUp
      <3>3. frame \in FrontFrames /\ work \in Seq(TokenSet)
        BY <3>1, Zenon DEF Types, Values
      <3>4. /\ t \in Seq(TokenSet) /\ Len(t) \in Nat
            /\ \A i \in 1 .. Len(t) : Statement(t[i]) => frame.todo # <<>>
            /\ Len(frame.todo) = 1 => \A i, j \in 1 .. Len(t) : Statement(t[i]) /\ Statement(t[j]) => i = j
        BY <3>3, TokensAre, Zenon
      <3>5. /\ Len(work') = Len(work) + Len(t) /\ Len(work) \in Nat
            /\ \A i \in 1 .. Len(work') : work'[i] = IF i <= Len(work) THEN work[i] ELSE t[i - Len(work)]
        BY <3>2, <3>3, <3>4
      <3>6. ASSUME NEW i \in 1 .. Len(work'), Statement(work'[i])
            PROVE  \/ i \in 1 .. Len(work) /\ Statement(work[i])
                   \/ i - Len(work) \in 1 .. Len(t) /\ Statement(t[i - Len(work)]) /\ frame.todo # <<>>
        <4>1. CASE i <= Len(work)
          BY <3>5, <3>6, <4>1
        <4>2. CASE ~(i <= Len(work))
          <5>1. i - Len(work) \in 1 .. Len(t) /\ work'[i] = t[i - Len(work)]
            BY <3>4, <3>5, <4>2
          <5> QED
            BY <3>4, <3>6, <5>1, Zenon
        <4> QED
          BY <4>1, <4>2, Zenon
      <3>7. Pending' => Pending
        <4>1. Pending' => \E i \in 1 .. Len(work') : Statement(work'[i])
          BY <1>1, Zenon DEF Pending, Statement
        <4> QED
          BY <3>1, <3>6, <4>1, Zenon DEF Pending
      <3>8. ASSUME statements = 1, NEW i \in 1 .. Len(work'), NEW j \in 1 .. Len(work'),
                   Statement(work'[i]), Statement(work'[j])
            PROVE  i = j
        <4>1. CASE frame.todo = <<>>
          <5>1. i \in 1 .. Len(work) /\ Statement(work[i]) /\ j \in 1 .. Len(work) /\ Statement(work[j])
            BY <3>6, <3>8, <4>1, Zenon
          <5> QED
            BY <3>8, <5>1, Zenon DEF Alone
        <4>2. CASE frame.todo # <<>>
          <5>1. Len(frame.todo) = 1 /\ \A k \in 1 .. Len(work) : ~Statement(work[k])
            BY <3>1, <3>8, <4>2, Zenon DEF Alone
          <5>2. /\ i - Len(work) \in 1 .. Len(t) /\ Statement(t[i - Len(work)])
                /\ j - Len(work) \in 1 .. Len(t) /\ Statement(t[j - Len(work)])
            BY <3>6, <3>8, <5>1, Zenon
          <5>3. i - Len(work) = j - Len(work)
            BY <3>4, <5>1, <5>2, Zenon
          <5> QED
            BY <3>5, <5>3
        <4> QED
          BY <4>1, <4>2, Zenon
      <3> QED
        BY <1>1, <3>7, <3>8, Zenon DEF Alone, Statement
    <2>2. CASE WriteDown
      <3>1. work' = work
        BY <2>2, Zenon DEF WriteDown, database
      <3> QED
        BY <1>1, <3>1, Zenon DEF Pending, Alone, Statement
    <2> QED
      BY <2>1, <2>2, Zenon
  <1>6. Untouched'
    BY <1>1, <1>3, <1>5, Zenon DEF Untouched
  <1> QED
    BY <1>4, <1>5, <1>6, Zenon

LEMMA SingleDatabase ==
  ASSUME Types, Types', Order, Single, Database
  PROVE  Single'
  <1>1. /\ Running /\ work # <<>> /\ work' = Tail(work)
        /\ UNCHANGED <<pump, hand, channel, frame, pc, transaction, decided, statements, cycle, active>>
    BY DatabaseDoes, Zenon DEF rest, cycles
  <1> SUFFICES ASSUME Untouched, Alone, Noticed PROVE (Untouched /\ Alone /\ Noticed)'
    BY <1>1, Zenon DEF Single, Running
  <1>2. /\ work \in Seq(TokenSet) /\ wire \in Seq(Backs) /\ cycle \in Nat /\ block \in Blocks
        /\ skip \in {"nothing"} \cup Ends /\ statements \in Nat
    BY Zenon DEF Types, Wires, Values
  <1>3. /\ Len(work') = Len(work) - 1 /\ Len(work) \in Nat \ {0} /\ 1 \in 1 .. Len(work)
        /\ \A i \in 1 .. Len(work') : i + 1 \in 1 .. Len(work) /\ work'[i] = work[i + 1]
    BY <1>1, <1>2
  <1>4. Coming \in Seq(Backs) /\ Coming' \in Seq(Backs)
    BY ComingType, ComingTypeNext, Zenon
  <1>5. ~Closing /\ ~Clear
    BY <1>1, Zenon DEF Closing, Clear
  <1>6. (\A i \in 1 .. Len(Coming) : Coming[i].kind # "Z") /\ ~(pc = "write_down" /\ frame.kind = "Z")
    BY <1>1, <1>5, ReadyCloses, Zenon DEF Order
  <1>7. (Pending' => Pending) /\ Alone'
    <2>1. Pending' => Pending
      <3>1. Pending' => (\E i \in 1 .. Len(work') : Statement(work'[i])) \/ (pc = "write_up" /\ frame.todo # <<>>)
        BY <1>1, Zenon DEF Pending, Statement
      <3> QED
        BY <1>3, <3>1, Zenon DEF Pending
    <2>2. ASSUME statements = 1, NEW i \in 1 .. Len(work'), NEW j \in 1 .. Len(work'),
                 Statement(work'[i]), Statement(work'[j])
          PROVE  i = j
      <3>1. i + 1 = j + 1
        BY <1>3, <2>2, Zenon DEF Alone
      <3> QED
        BY <3>1
    <2>3. ASSUME statements = 1, pc = "write_up", frame.todo # <<>>, NEW i \in 1 .. Len(work')
          PROVE  Len(frame.todo) = 1 /\ ~Statement(work'[i])
      BY <1>3, <2>3, Zenon DEF Alone
    <2>4. statements = 1 /\ pc = "write_up" /\ frame.todo # <<>> => Len(frame.todo) = 1
      BY Zenon DEF Alone
    <2> QED
      BY <1>1, <2>1, <2>2, <2>3, <2>4, Zenon DEF Alone, Statement
  <1>8. statements = 0 \/ (statements = 1 /\ Pending') => ~Statement(work[1]) /\ Fresh
    <2>1. CASE statements = 0
      BY <1>3, <2>1, Zenon DEF Untouched, Pending
    <2>2. CASE statements = 1 /\ Pending'
      <3>1. Fresh
        BY <1>7, <2>2, Zenon DEF Untouched
      <3>2. CASE \E i \in 1 .. Len(work') : Statement(work'[i])
        <4>1. PICK i \in 1 .. Len(work') : Statement(work'[i])
          BY <3>2, Zenon
        <4>2. i + 1 \in 1 .. Len(work) /\ Statement(work[i + 1]) /\ i + 1 # 1
          BY <1>3, <4>1
        <4> QED
          BY <1>3, <2>2, <3>1, <4>2, Zenon DEF Alone
      <3>3. CASE pc = "write_up" /\ frame.todo # <<>>
        BY <1>3, <2>2, <3>1, <3>3, Zenon DEF Alone
      <3>4. \/ \E i \in 1 .. Len(work') : Statement(work'[i])
            \/ pc = "write_up" /\ frame.todo # <<>>
        BY <1>1, <2>2, Zenon DEF Pending, Statement
      <3> QED
        BY <3>2, <3>3, <3>4, Zenon
    <2> QED
      BY <2>1, <2>2, Zenon
  <1>9. Statement(work[1]) => Pending
    BY <1>3, Zenon DEF Pending
  <1>10. work[1].op \in Statements \cup {"parse"} \cup Ends
    <2>1. work[1] \in TokenSet
      BY <1>2, <1>3
    <2> QED
      BY <2>1, Zenon DEF TokenSet
  <1>11. CASE skip # "nothing" /\ work[1].op # skip /\ UNCHANGED <<block, skip, wire, committed>>
    <2>1. Coming' = Coming
      BY <1>1, <1>11, ComingKept, Zenon
    <2>2. Fresh => Fresh'
      BY <1>1, <1>11, <2>1, Zenon DEF Fresh
    <2>3. (Awaited => Awaited') /\ (Severed => Severed')
      BY <1>1, <2>1, Zenon DEF Awaited, Severed
    <2>4. Untouched'
      BY <1>1, <1>7, <1>8, <2>2, Zenon DEF Untouched
    <2>5. Noticed'
      BY <1>1, <1>11, <2>3, Zenon DEF Noticed
    <2> QED
      BY <1>7, <2>4, <2>5, Zenon
  <1>12. ASSUME skip \in {"nothing", work[1].op},
                NEW r, Sound(work[1].op, block, r), block' = r.block,
                wire' = Append(wire, Back(r.kind, r.tag, cycle)),
                skip' = "nothing" <=> r.kind # "E",
                committed' = (committed \/ (r.tag = "COMMIT" /\ block = "T"))
         PROVE  (Untouched /\ Alone /\ Noticed)'
    <2>0. PICK f : f = Back(r.kind, r.tag, cycle)
      BY Zenon
    <2>1. f \in Backs /\ f.kind = r.kind /\ f.tag = r.tag
      <3>2. PICK op : op = work[1].op
        BY Zenon
      <3>3. Sound(op, block, r)
        BY <1>12, <3>2, Zenon
      <3>4. Back(r.kind, r.tag, cycle) \in Backs
        BY <1>2, <3>3, BackIs, Zenon
      <3> QED
        BY <2>0, <3>4, Zenon DEF Back
    <2>2. IF pump["back"] = "done" THEN Coming' = Coming ELSE Coming' = Append(Coming, f)
      BY <1>1, <1>12, <2>0, <2>1, ComingSent, Zenon
    <2>3. /\ pump["back"] # "done" => Len(Coming') = Len(Coming) + 1 /\ Coming'[Len(Coming) + 1] = f
          /\ \A i \in 1 .. Len(Coming) : Coming'[i] = Coming[i] /\ i \in 1 .. Len(Coming')
      BY <1>4, <2>2
    <2>4. ASSUME Fresh, ~Statement(work[1]) PROVE Fresh'
      <3>1. r.kind \in {"1", "Z"} /\ r.block = block /\ r.tag # "COMMIT"
        BY <1>12, <2>4, OpsAre, Zenon DEF Sound, Statement
      <3>2. ~committed' /\ skip' = "nothing" /\ (transaction' <=> block' # "I")
        BY <1>1, <1>12, <2>4, <3>1, Zenon DEF Fresh
      <3>3. ASSUME NEW i \in 1 .. Len(Coming') PROVE Coming'[i].kind \in {"1", "Z"}
        <4>1. CASE i \in 1 .. Len(Coming)
          BY <2>3, <2>4, <4>1, Zenon DEF Fresh
        <4>2. CASE i \notin 1 .. Len(Coming)
          <5>1. Coming'[i] = f
            BY <1>4, <2>2, <2>3, <4>2
          <5> QED
            BY <2>1, <3>1, <5>1, Zenon
        <4> QED
          BY <4>1, <4>2, Zenon
      <3> QED
        BY <3>2, <3>3, Zenon DEF Fresh
    <2>5. Untouched'
      BY <1>1, <1>7, <1>8, <2>4, Zenon DEF Untouched
    <2>6. Noticed'
      <3> SUFFICES ASSUME statements = 1, committed', ~decided PROVE Awaited' \/ Severed'
        BY <1>1, Zenon DEF Noticed
      <3>1. ASSUME Awaited PROVE Awaited'
        <4>1. PICK i \in 1 .. Len(Coming) :
                Coming[i].tag = "COMMIT" /\ transaction /\ \A k \in 1 .. i - 1 : Coming[k].kind = "1"
          BY <3>1, Zenon DEF Awaited
        <4>2. \A k \in 1 .. i - 1 : k \in 1 .. Len(Coming)
          BY <1>4, <4>1
        <4> QED
          BY <1>1, <2>3, <4>1, <4>2, Zenon DEF Awaited
      <3>2. ASSUME Severed PROVE Severed'
        <4>1. Coming' = Coming
          BY <2>2, <3>2, Zenon DEF Severed
        <4> QED
          BY <1>1, <3>2, <4>1, Zenon DEF Severed
      <3>3. CASE committed
        BY <3>1, <3>2, <3>3, Zenon DEF Noticed
      <3>4. CASE ~committed
        <4>1. r.tag = "COMMIT" /\ block = "T"
          BY <1>12, <3>4, Zenon
        <4>2. Statement(work[1])
          BY <1>12, <4>1, Zenon DEF Sound, Statement
        <4>3. Fresh
          BY <1>9, <4>2, Zenon DEF Untouched
        <4>4. transaction /\ \A i \in 1 .. Len(Coming) : Coming[i].kind = "1"
          BY <1>6, <4>1, <4>3, Zenon DEF Fresh
        <4>5. CASE pump["back"] = "done"
          <5>1. Coming' = Coming
            BY <2>2, <4>5, Zenon
          <5> QED
            BY <1>1, <1>6, <4>5, <5>1, Zenon DEF Severed
        <4>6. CASE pump["back"] # "done"
          <5>1. Len(Coming) + 1 \in 1 .. Len(Coming') /\ (Len(Coming) + 1) - 1 = Len(Coming)
            BY <1>4, <2>3, <4>6
          <5>2. Coming'[Len(Coming) + 1].tag = "COMMIT" /\ transaction'
            BY <1>1, <2>1, <2>3, <4>1, <4>4, <4>6, Zenon
          <5>3. \A k \in 1 .. Len(Coming) : Coming'[k].kind = "1"
            BY <2>3, <4>4, Zenon
          <5> QED
            BY <5>1, <5>2, <5>3, Zenon DEF Awaited
        <4> QED
          BY <4>5, <4>6, Zenon
      <3> QED
        BY <3>3, <3>4, Zenon
    <2> QED
      BY <1>7, <2>5, <2>6, Zenon
  <1> QED
    BY <1>11, <1>12, DatabaseDoes, Zenon

LEMMA SingleStep == ASSUME Types, Types', Order, Single, [Next]_vars PROVE Single'
  <1>1. CASE Leaves
    <2>1. ~Running'
      BY <1>1, LeaveDoes, Zenon DEF Over, Running
    <2> QED
      BY <2>1, Zenon DEF Single
  <1>2. CASE Aways \/ (RecordApplied \/ ApplyForwards)
    <2>1. /\ UNCHANGED <<block, work, skip, wire, pump["back"], hand["back"], channel["back"], frame, transaction,
                         decided, committed, statements, active>>
          /\ \/ pc' = pc
             \/ pc \in Deciding /\ pc' \in {"apply", "write_down"}
      <3>1. CASE Aways
        BY <3>1, AwayDoes, Zenon DEF core, cycles, back, database
      <3>2. CASE RecordApplied \/ ApplyForwards
        BY <3>2, OnDoes, Zenon DEF core, back, database
      <3> QED
        BY <1>2, <3>1, <3>2, Zenon
    <2>2. Coming' = Coming
      BY <2>1, ComingKept, Zenon
    <2>3. (Running' <=> Running) /\ (pc' = "write_up" <=> pc = "write_up")
      BY <2>1, Zenon DEF Deciding, Running
    <2>4. Running /\ pc' = "write_down" /\ frame.kind = "Z" => pc = "write_down"
      BY <2>1, Zenon DEF Order
    <2>5. (Pending' <=> Pending) /\ (Fresh' <=> Fresh) /\ (Awaited' <=> Awaited) /\ (Running /\ Severed => Severed')
      <3>1. Pending' <=> Pending
        BY <2>1, <2>3, Zenon DEF Pending, Statement
      <3>2. (Fresh' <=> Fresh) /\ (Awaited' <=> Awaited)
        BY <2>1, <2>2, Zenon DEF Fresh, Awaited
      <3>3. Running /\ Severed => Severed'
        BY <2>1, <2>2, <2>4, Zenon DEF Severed
      <3> QED
        BY <3>1, <3>2, <3>3, Zenon
    <2>6. Alone => Alone'
      BY <2>1, <2>3, Zenon DEF Alone, Statement
    <2> QED
      BY <2>1, <2>3, <2>5, <2>6, Zenon DEF Single, Untouched, Noticed
  <1> QED
    BY <1>1, <1>2, Steps, SinglePump, SingleDatabase, SingleFront, SingleTake, SingleWrite, Zenon

-----------------------------------------------------------------------------
(* Decisions *)

\* A frame that counts as a COMMIT comes after the commit: otherwise Views would not have let it count.
LEMMA CommitsFirst ==
  ASSUME Types, Views, TakeCommit
  PROVE  committed
  <1>1. /\ pc = "select" /\ channel["back"] # <<>>
        /\ channel' = [channel EXCEPT !["back"] = Tail(channel["back"])]
        /\ UNCHANGED <<wire, pump, hand>>
        /\ Confirms(Head(channel["back"]))
    BY Zenon DEF TakeCommit, Take, database
  <1>2. Running /\ active /\ transaction
    BY <1>1, Zenon DEF Running, Confirms
  <1>3. Len(Coming) >= 1 /\ Coming[1].tag = "COMMIT"
    BY <1>1, ComingTaken, Zenon DEF Confirms
  <1>4. Len(Coming) \in Nat
    BY ComingType, Zenon
  <1>5. 1 \in 1 .. Len(Coming) /\ 1 - 1 = 0
    BY <1>3, <1>4
  <1>6. SUFFICES ASSUME ~committed PROVE FALSE
    BY Zenon
  <1>7. PICK V \in SUBSET (0 .. Len(Coming)) : (transaction <=> 0 \in V) /\ Forecast(Coming, V)
    BY <1>2, <1>6, Zenon DEF Views, Seen
  <1>8. Coming[1].tag = "COMMIT" => 1 - 1 \notin V
    BY <1>5, <1>7, Zenon DEF Forecast
  <1> QED
    BY <1>2, <1>3, <1>5, <1>7, <1>8, Zenon

\* Decisions and Acks are preserved: what they say comes from Views, Single and Order.
LEMMA DecisionsStep ==
  ASSUME Types, Order, Views, Single, Decisions, [Next]_vars
  PROVE  Decisions'
  <1>1. CASE Aways \/ Pump("back") \/ (RecordApplied \/ ApplyForwards)
    <2>1. UNCHANGED <<decided, committed, active, finished, statements>>
      <3>1. CASE Aways
        BY <3>1, AwayDoes, Zenon DEF core, cycles
      <3>2. CASE Pump("back")
        BY <3>2, PumpDoes, Zenon DEF rest, cycles
      <3>3. CASE RecordApplied \/ ApplyForwards
        BY <3>3, OnDoes, Zenon DEF core
      <3> QED
        BY <1>1, <3>1, <3>2, <3>3, Zenon
    <2> QED
      BY <2>1, Zenon DEF Decisions
  <1>2. CASE Leaves
    <2>1. UNCHANGED <<decided, committed, statements>>
      BY <1>2, LeaveDoes, Zenon
    <2>2. \/ UNCHANGED <<active, finished>>
          \/ active' = FALSE /\ (finished' \in {"connection_closed", "commit_ack_lost"} \/ finished' = finished)
      <3>1. CASE ApplyLoses \/ Return
        BY <3>1, Zenon DEF ApplyLoses, Return, Finish, NoLongerActive
      <3>2. CASE ~(ApplyLoses \/ Return)
        BY <1>2, <3>2, LeaveDoes, Zenon
      <3> QED
        BY <3>1, <3>2, Zenon
    <2> QED
      BY <2>1, <2>2 DEF Decisions
  <1>3. CASE Database
    <2>1. /\ Running /\ work # <<>> /\ UNCHANGED <<decided, active, finished, statements>>
          /\ committed => committed'
      <3>1. /\ Running /\ work # <<>> /\ UNCHANGED <<decided, active, finished, statements>>
        BY <1>3, DatabaseDoes, Zenon DEF rest, cycles
      <3>2. committed => committed'
        BY <1>3, DatabaseDoes, Zenon
      <3> QED
        BY <3>1, <3>2, Zenon
    <2>2. active
      BY <2>1, Zenon DEF Order, Clear
    <2> QED
      BY <2>1, <2>2, Zenon DEF Decisions
  <1>4. ASSUME NEW f \in FrontFrames, TakeFront(f) PROVE Decisions'
    <2>1. /\ active' = TRUE
          /\ active => UNCHANGED <<decided, finished, committed>>
          /\ ~active => decided' = FALSE /\ finished' = "none"
      BY <1>4, TakeFrontDoes, Zenon
    <2> QED
      BY <2>1 DEF Decisions
  <1>5. CASE TakeBack \/ TakeCommit
    <2>1. UNCHANGED <<active, finished, committed, statements>>
      BY <1>5, TakeDoes, Zenon
    <2>2. decided' = decided \/ (decided' = TRUE /\ committed)
      BY <1>5, TakeDoes, CommitsFirst, Zenon
    <2> QED
      BY <2>1, <2>2 DEF Decisions
  <1>6. CASE WriteUp \/ WriteDown
    <2>1. UNCHANGED <<decided, committed, statements, outcome>>
      BY <1>6, WriteDoes, Zenon
    <2>2. \/ UNCHANGED <<active, finished>>
          \/ pc = "write_down" /\ frame.kind = "Z" /\ active' = FALSE /\ (finished' = finished \/ finished' = outcome)
      BY <1>6, WriteDoes, Zenon DEF cycles
    <2>3. CASE UNCHANGED <<active, finished>>
      BY <2>1, <2>3, Zenon DEF Decisions
    <2>4. CASE pc = "write_down" /\ frame.kind = "Z" /\ active' = FALSE /\ (finished' = finished \/ finished' = outcome)
      <3>1. Running /\ Clear /\ active
        BY <2>4, Zenon DEF Order, Running
      <3>2. Len(Coming) = 0
        BY <3>1, ComingNone, Zenon DEF Clear
      <3>3. ~Awaited /\ ~Severed
        BY <2>4, <3>2 DEF Awaited, Severed
      <3>4. committed /\ statements = 1 => decided
        BY <3>1, <3>3, Zenon DEF Single, Noticed
      <3> QED
        BY <2>1, <2>4, <3>4, Zenon DEF Decisions
    <2> QED
      BY <2>2, <2>3, <2>4, Zenon
  <1> QED
    BY <1>1, <1>2, <1>3, <1>4, <1>5, <1>6, Steps, Zenon

-----------------------------------------------------------------------------
(* Acks *)

LEMMA AcksStep ==
  ASSUME Types, Order, Views, Decisions, Acks, [Next]_vars
  PROVE  Acks'
  <1>1. CASE Aways \/ Pump("back") \/ Database
    <2>1. UNCHANGED <<decided, acked, fault, finished, pc>> /\ (committed => committed')
      <3>1. CASE Aways
        BY <3>1, AwayDoes DEF core, cycles
      <3>2. CASE Pump("back")
        BY <3>2, PumpDoes DEF rest, cycles
      <3>3. CASE Database
        <4>1. UNCHANGED <<decided, acked, fault, finished, pc>>
          BY <3>3, DatabaseDoes, Zenon DEF rest, cycles
        <4>2. committed => committed'
          BY <3>3, DatabaseDoes, Zenon
        <4> QED
          BY <4>1, <4>2, Zenon
      <3> QED
        BY <1>1, <3>1, <3>2, <3>3, Zenon
    <2> QED
      BY <2>1, Zenon DEF Acks
  <1>2. CASE Leaves
    <2>1. UNCHANGED <<decided, committed, acked, fault>> /\ pc' \in Over /\ pc' \notin Deciding
      BY <1>2, LeaveDoes, Zenon DEF Over, Deciding
    <2>2. \/ finished' \in {finished, "connection_closed"}
          \/ pc = "apply" /\ finished' = "commit_ack_lost"
      <3>1. CASE ApplyLoses \/ Return
        BY <3>1, Zenon DEF ApplyLoses, Return, Finish
      <3>2. CASE ~(ApplyLoses \/ Return)
        BY <1>2, <3>2, LeaveDoes, Zenon
      <3> QED
        BY <3>1, <3>2, Zenon
    <2>3. pc = "apply" => committed /\ ~acked
      BY Zenon DEF Acks, Decisions, Deciding
    <2> QED
      BY <2>1, <2>2, <2>3, Zenon DEF Acks
  <1>3. CASE RecordApplied \/ ApplyForwards
    <2>1. UNCHANGED <<decided, committed, acked, fault, finished>> /\ pc \in Deciding
      BY <1>3, OnDoes, Zenon DEF core
    <2>2. \/ pc' \in Deciding
          \/ pc' = "write_down" /\ fault = "delay"
      BY <1>3, OnDoes, Zenon DEF Deciding
    <2>3. pc \notin Over /\ "write_down" \notin Deciding
      BY <2>1, Zenon DEF Over, Deciding
    <2> QED
      BY <2>1, <2>2, <2>3, Zenon DEF Acks
  <1>4. ASSUME pc \in {"select", "write_up", "write_down"}
        PROVE  pc \notin Deciding \cup Over /\ fault \notin {"hold_response", "close_connection"}
               /\ finished # "commit_ack_lost"
    <2>1. pc \notin Deciding \cup Over
      BY <1>4, Zenon DEF Deciding, Over
    <2> QED
      BY <2>1, Zenon DEF Acks
  <1>5. ASSUME NEW f \in FrontFrames, TakeFront(f) PROVE Acks'
    <2>1. /\ pc = "select" /\ pc' = "write_up"
          /\ active => UNCHANGED <<decided, finished, fault, acked>>
          /\ ~active => finished' = "none" /\ fault' = "none" /\ acked' = FALSE
      BY <1>5, TakeFrontDoes, Zenon
    <2>2. pc' \notin Deciding
      BY <2>1, Zenon DEF Deciding
    <2>3. acked => decided
      BY Zenon DEF Acks
    <2> QED
      BY <1>4, <2>1, <2>2, <2>3 DEF Acks
  <1>6. CASE TakeBack \/ TakeCommit
    <2>1. pc = "select" /\ UNCHANGED <<finished, acked>>
      BY <1>6, TakeDoes, Zenon
    <2>2. (acked => decided) /\ finished # "commit_ack_lost" /\ fault \notin {"hold_response", "close_connection"}
      BY <1>4, <2>1, Zenon DEF Acks
    <2>3. CASE TakeBack
      <3>1. UNCHANGED <<decided, fault>> /\ pc' \notin Deciding
        BY <2>3, Zenon DEF TakeBack, Deciding
      <3> QED
        BY <2>1, <2>2, <3>1, Zenon DEF Acks
    <2>4. CASE TakeCommit
      <3>1. /\ decided' = TRUE /\ ~decided /\ pc' \in {"record", "write_down"}
            /\ pc' = "write_down" => fault' = "none"
        BY <2>4, Zenon DEF TakeCommit, Confirms
      <3>2. ~acked
        BY <2>2, <3>1, Zenon
      <3> QED
        BY <2>1, <2>2, <3>1, <3>2, Zenon DEF Acks, Deciding
    <2> QED
      BY <1>6, <2>3, <2>4, Zenon
  <1>7. CASE WriteUp \/ WriteDown
    <2>1. pc \in {"write_up", "write_down"} /\ pc' = "select" /\ UNCHANGED <<decided, fault, outcome>>
      BY <1>7, WriteDoes, Zenon
    <2>2. (acked => decided) /\ finished # "commit_ack_lost" /\ fault \notin {"hold_response", "close_connection"}
      BY <1>4, <2>1, Zenon DEF Acks
    <2>3. acked' => decided
      BY <1>7, <2>2, WriteDoes, Zenon DEF cycles
    <2>4. finished' = finished \/ finished' = outcome
      BY <1>7, WriteDoes, Zenon DEF cycles
    <2>5. outcome # "commit_ack_lost"
      BY Zenon DEF Types, Values
    <2> QED
      BY <2>1, <2>2, <2>3, <2>4, <2>5, Zenon DEF Acks, Deciding
  <1> QED
    BY <1>1, <1>2, <1>3, <1>5, <1>6, <1>7, Steps, Zenon

-----------------------------------------------------------------------------
(* Counted, Told *)

\* A cycle is begun by a frame of the client, and its events follow its phases.
LEMMA CountedStep == ASSUME Types, Counted, [Next]_vars PROVE Counted'
  <1>0. /\ cycle \in Nat /\ MaxFrames \in Nat /\ sent \in Nat /\ sent <= MaxFrames
        /\ cycle + Len(channel["front"]) + Held <= sent
    BY PgAssumption DEF Types, Values, Counted
  <1>1. /\ pump \in [Legs -> {"read", "send", "done"}] /\ channel \in [Legs -> Seq(Frames)]
    BY Zenon DEF Types, Wires
  <1>2. channel["front"] \in Seq(Frames) /\ Len(channel["front"]) \in Nat /\ Held \in 0 .. 1
    BY <1>1, LegsAre DEF Held
  <1>3. ASSUME pump'["front"] = pump["front"], channel'["front"] = channel["front"], cycle' = cycle,
               sent' = sent \/ sent' = MaxFrames
        PROVE  Counted'
    <2>1. Held' = Held
      BY <1>3, Zenon DEF Held
    <2> QED
      BY <1>0, <1>2, <1>3, <2>1 DEF Counted
  <1>4. ASSUME pump'["front"] = pump["front"], channel["front"] # <<>>,
               channel' = [channel EXCEPT !["front"] = Tail(channel["front"])],
               cycle' = cycle \/ cycle' = cycle + 1, sent' = sent
        PROVE  Counted'
    <2>1. Len(channel'["front"]) = Len(channel["front"]) - 1
      BY <1>1, <1>2, <1>4, LegsAre
    <2>2. Held' = Held
      BY <1>4, Zenon DEF Held
    <2>3. cycle' + Len(channel'["front"]) + Held' <= sent
      BY <1>0, <1>2, <1>4, <2>1, <2>2
    <2> QED
      BY <1>0, <1>4, <2>3, Zenon DEF Counted
  <1>5. CASE Pump("front")
    <2>1. cycle' = cycle
      BY <1>5, Zenon DEF Pump, PumpRead, PumpSend, PumpQuits, PumpFails, history
    <2>2. CASE PumpRead("front")
      <3>1. pump["front"] = "read" /\ pump'["front"] = "send" /\ channel' = channel /\ sent' = sent + 1
            /\ sent # MaxFrames
        BY <1>1, <2>2, LegsAre, Zenon DEF PumpRead, Readable
      <3>2. Held = 0 /\ Held' = 1
        BY <3>1, Zenon DEF Held
      <3> QED
        BY <1>0, <1>2, <2>1, <3>1, <3>2 DEF Counted
    <2>3. CASE PumpSend("front")
      <3>1. /\ pump["front"] = "send" /\ pump'["front"] = "read" /\ sent' = sent
            /\ channel'["front"] = Append(channel["front"], hand["front"])
        BY <1>1, <2>3, LegsAre, Zenon DEF PumpSend, history
      <3>2. Len(channel'["front"]) = Len(channel["front"]) + 1
        BY <1>2, <3>1
      <3>3. Held = 1 /\ Held' = 0
        BY <3>1, Zenon DEF Held
      <3> QED
        BY <1>0, <1>2, <2>1, <3>1, <3>2, <3>3 DEF Counted
    <2>4. CASE PumpQuits("front") \/ PumpFails("front")
      <3>1. pump'["front"] = "done" /\ channel' = channel /\ sent' = sent
        BY <1>1, <2>4, LegsAre, Zenon DEF PumpQuits, PumpFails, history
      <3>2. Held' = 0
        BY <3>1, Zenon DEF Held
      <3> QED
        BY <1>0, <1>2, <2>1, <3>1, <3>2 DEF Counted
    <2> QED
      BY <1>5, <2>2, <2>3, <2>4, Zenon DEF Pump
  <1>6. CASE Aways /\ ~Pump("front")
    BY <1>3, <1>6, Zenon DEF Aways, ClientEnds, ContextEnds, CycleTimeout, ServiceChanges, Ended, vars,
         pumps, history
  <1>7. CASE Leaves
    <2>1. UNCHANGED <<pump, cycle, sent>>
      BY <1>7, LeaveDoes, Zenon
    <2>2. CASE UNCHANGED channel
      BY <1>3, <2>1, <2>2, Zenon
    <2>3. ASSUME NEW l \in Legs, channel[l] # <<>>, channel' = [channel EXCEPT ![l] = Tail(channel[l])]
          PROVE  Counted'
      <3>1. CASE l = "front"
        BY <1>4, <2>1, <2>3, <3>1, Zenon
      <3>2. CASE l # "front"
        BY <1>1, <1>3, <2>1, <2>3, <3>2, LegsAre, Zenon
      <3> QED
        BY <3>1, <3>2, Zenon
    <2> QED
      BY <1>7, <2>2, <2>3, LeaveDoes, Zenon
  <1>8. CASE Pump("back")
    <2>1. pump'["front"] = pump["front"] /\ channel'["front"] = channel["front"] /\ sent' = sent
      BY <1>8, PumpDoes, Zenon
    <2>2. cycle' = cycle
      BY <1>8, PumpDoes, Zenon DEF rest
    <2> QED
      BY <1>3, <2>1, <2>2, Zenon
  <1>9. CASE Database
    BY <1>3, <1>9, DatabaseDoes, Zenon DEF rest
  <1>10. CASE TakeBack \/ TakeCommit
    BY <1>3, <1>10, TakeDoes, Zenon
  <1>11. CASE WriteUp \/ WriteDown
    BY <1>3, <1>11, WriteDoes, Zenon
  <1>12. CASE RecordApplied \/ ApplyForwards
    BY <1>3, <1>12, OnDoes, Zenon DEF core
  <1>13. ASSUME NEW f \in FrontFrames, TakeFront(f) PROVE Counted'
    <2>1. /\ channel["front"] # <<>> /\ channel' = [channel EXCEPT !["front"] = Tail(channel["front"])]
          /\ UNCHANGED <<pump, sent>> /\ (cycle' = cycle \/ cycle' = cycle + 1)
      BY <1>13, TakeFrontDoes, Zenon
    <2> QED
      BY <1>4, <2>1, Zenon
  <1> QED
    BY <1>5, <1>6, <1>7, <1>8, <1>9, <1>10, <1>11, <1>12, <1>13, Steps, Zenon

LEMMA ToldStep == ASSUME Types, Order, Told, [Next]_vars PROVE Told'
  <1>0. cycle \in Nat
    BY Zenon DEF Types, Values
  <1>1. CASE Aways \/ Pump("back") \/ Database
    <2>1. UNCHANGED <<active, life, cycle, decided, pc>>
      <3>1. CASE Aways
        BY <3>1, AwayDoes, Zenon DEF core, cycles
      <3>2. CASE Pump("back")
        BY <3>2, PumpDoes, Zenon DEF rest, cycles
      <3>3. CASE Database
        BY <3>3, DatabaseDoes, Zenon DEF rest, cycles
      <3> QED
        BY <1>1, <3>1, <3>2, <3>3, Zenon
    <2> QED
      BY <2>1, Zenon DEF Told
  <1>2. ASSUME pc' \notin Deciding, cycle' = cycle, active' = FALSE,
               IF active THEN life' = (IF life = "done" THEN "twice" ELSE "done") ELSE life' = life
        PROVE  Told'
    BY <1>0, <1>2 DEF Told
  <1>3. ASSUME pc' \notin Deciding, UNCHANGED <<cycle, active, life, decided>> PROVE Told'
    BY <1>3, Zenon DEF Told
  <1>4. CASE Leaves
    <2>1. pc' \notin Deciding /\ UNCHANGED <<cycle, decided>>
      BY <1>4, LeaveDoes, Zenon DEF Over, Deciding
    <2>2. CASE ApplyLoses \/ Return
      <3>1. active' = FALSE /\ IF active THEN life' = (IF life = "done" THEN "twice" ELSE "done") ELSE life' = life
        BY <2>2, Zenon DEF ApplyLoses, Return, Finish, NoLongerActive, Record
      <3> QED
        BY <1>2, <2>1, <3>1, Zenon
    <2>3. CASE ~(ApplyLoses \/ Return)
      BY <1>3, <1>4, <2>1, <2>3, LeaveDoes, Zenon
    <2> QED
      BY <2>2, <2>3, Zenon
  <1>5. ASSUME NEW f \in FrontFrames, TakeFront(f) PROVE Told'
    <2>1. pc' \notin Deciding /\ active' = TRUE
      BY <1>5, TakeFrontDoes, Zenon DEF Deciding
    <2>2. CASE active
      <3>1. UNCHANGED <<cycle, life, decided>> /\ active' = active
        <4>1. UNCHANGED <<cycle, life, decided>>
          BY <1>5, <2>2, TakeFrontDoes, Zenon
        <4>2. active \in BOOLEAN
          BY Zenon DEF Types, Values
        <4> QED
          BY <2>1, <2>2, <4>1, <4>2, Zenon
      <3> QED
        BY <1>3, <2>1, <3>1, Zenon
    <2>3. CASE ~active
      <3>1. cycle' = cycle + 1 /\ life' = (IF life = "open" THEN "twice" ELSE "open")
        BY <1>5, <2>3, TakeFrontDoes, Zenon
      <3> QED
        BY <1>0, <2>1, <2>3, <3>1 DEF Told
    <2> QED
      BY <2>2, <2>3, Zenon
  <1>6. CASE TakeBack \/ TakeCommit
    <2>1. UNCHANGED <<active, cycle>>
      BY <1>6, TakeDoes, Zenon
    <2>2. CASE TakeBack
      <3>1. UNCHANGED <<life, decided>> /\ pc' \notin Deciding
        BY <2>2, Zenon DEF TakeBack, events, Deciding
      <3> QED
        BY <1>3, <2>1, <3>1, Zenon
    <2>3. CASE TakeCommit
      <3>1. active /\ ~decided /\ decided' = TRUE
        BY <2>3, Zenon DEF TakeCommit, Confirms
      <3>2. \/ pc' = "record" /\ life' = IF life = "selected" THEN "twice" ELSE "selected"
            \/ pc' = "write_down" /\ life' = IF life = "passed" THEN "twice" ELSE "passed"
        BY <2>3, Zenon DEF TakeCommit, Record
      <3>3. life = "open" /\ cycle > 0
        BY <3>1, Zenon DEF Told
      <3> QED
        BY <2>1, <3>1, <3>2, <3>3, Zenon DEF Told, Deciding
    <2> QED
      BY <1>6, <2>2, <2>3, Zenon
  <1>7. CASE WriteUp \/ WriteDown
    <2>1. pc' \notin Deciding /\ UNCHANGED <<cycle, decided>>
      BY <1>7, WriteDoes, Zenon DEF Deciding
    <2>2. \/ UNCHANGED <<active, life>>
          \/ active' = FALSE /\ IF active THEN life' = (IF life = "done" THEN "twice" ELSE "done") ELSE life' = life
      BY <1>7, WriteDoes, Zenon DEF cycles
    <2> QED
      BY <1>2, <1>3, <2>1, <2>2, Zenon
  <1>8. CASE RecordApplied \/ ApplyForwards
    <2>1. UNCHANGED <<cycle, active, decided>> /\ pc \in Deciding
      BY <1>8, OnDoes, Zenon DEF core
    <2>2. active /\ cycle > 0 /\ life = IF pc = "record" THEN "selected" ELSE "applied"
      BY <2>1, Zenon DEF Told
    <2>3. \/ pc = "record" /\ pc' = "apply" /\ life' = IF life = "applied" THEN "twice" ELSE "applied"
          \/ pc = "apply" /\ pc' = "write_down" /\ life' = life
      BY <1>8, OnDoes, Zenon
    <2>4. active /\ ~decided => life = "open"
      BY Zenon DEF Told
    <2> QED
      BY <2>1, <2>2, <2>3, <2>4, Zenon DEF Told, Deciding
  <1> QED
    BY <1>1, <1>4, <1>5, <1>6, <1>7, <1>8, Steps, Zenon

\* What a step does to the events of the cycles.
Advances ==
  \/ UNCHANGED <<cycle, life>>
  \/ cycle' = cycle + 1 /\ life = (IF cycle = 0 THEN "none" ELSE "done") /\ life' = "open"
  \/ /\ cycle' = cycle /\ cycle > 0
     /\ \/ life = "open" /\ life' \in {"passed", "selected"}
        \/ life = "selected" /\ life' = "applied"
        \/ life \in {"open", "passed", "selected", "applied"} /\ life' = "done"

\* The life of a cycle only moves on, which is the step of FlowEvents.
LEMMA AdvancesStep == ASSUME Types, Told, [Next]_vars PROVE Advances
  <1>1. CASE Aways \/ Pump("back") \/ Database
    <2>1. CASE Aways
      BY <2>1, AwayDoes, Zenon DEF core, cycles, Advances
    <2>2. CASE Pump("back")
      BY <2>2, PumpDoes, Zenon DEF rest, cycles, Advances
    <2>3. CASE Database
      BY <2>3, DatabaseDoes, Zenon DEF rest, cycles, Advances
    <2> QED
      BY <1>1, <2>1, <2>2, <2>3, Zenon
  <1>2. ASSUME cycle' = cycle, IF active THEN life' = (IF life = "done" THEN "twice" ELSE "done") ELSE life' = life
        PROVE  Advances
    BY <1>2, Zenon DEF Told, Advances
  <1>3. CASE Leaves
    <2>1. cycle' = cycle
      BY <1>3, LeaveDoes, Zenon
    <2>2. life' = life \/ IF active THEN life' = (IF life = "done" THEN "twice" ELSE "done") ELSE life' = life
      <3>1. CASE ApplyLoses \/ Return
        BY <3>1, Zenon DEF ApplyLoses, Return, Finish, Record
      <3>2. CASE ~(ApplyLoses \/ Return)
        BY <1>3, <3>2, LeaveDoes, Zenon
      <3> QED
        BY <3>1, <3>2, Zenon
    <2> QED
      BY <1>2, <2>1, <2>2, Zenon DEF Advances
  <1>4. ASSUME NEW f \in FrontFrames, TakeFront(f) PROVE Advances
    <2>1. \/ UNCHANGED <<cycle, life>>
          \/ ~active /\ cycle' = cycle + 1 /\ life' = (IF life = "open" THEN "twice" ELSE "open")
      BY <1>4, TakeFrontDoes, Zenon
    <2> QED
      BY <2>1, Zenon DEF Told, Advances
  <1>5. CASE TakeBack \/ TakeCommit
    <2>1. CASE TakeBack
      BY <2>1, Zenon DEF TakeBack, events, Advances
    <2>2. CASE TakeCommit
      <3>1. active /\ ~decided /\ cycle' = cycle
        BY <2>2, Zenon DEF TakeCommit, Confirms
      <3>2. life' \in {IF life = "selected" THEN "twice" ELSE "selected", IF life = "passed" THEN "twice" ELSE "passed"}
        BY <2>2, Zenon DEF TakeCommit, Record
      <3> QED
        BY <3>1, <3>2, Zenon DEF Told, Advances
    <2> QED
      BY <1>5, <2>1, <2>2, Zenon
  <1>6. CASE WriteUp \/ WriteDown
    <2>1. cycle' = cycle
      BY <1>6, WriteDoes, Zenon
    <2>2. \/ life' = life
          \/ IF active THEN life' = (IF life = "done" THEN "twice" ELSE "done") ELSE life' = life
      BY <1>6, WriteDoes, Zenon DEF cycles
    <2> QED
      BY <1>2, <2>1, <2>2, Zenon DEF Advances
  <1>7. CASE RecordApplied \/ ApplyForwards
    <2>1. cycle' = cycle /\ pc \in Deciding
      BY <1>7, OnDoes, Zenon DEF core
    <2>2. active /\ cycle > 0 /\ life = IF pc = "record" THEN "selected" ELSE "applied"
      BY <2>1, Zenon DEF Told
    <2>3. \/ pc = "record" /\ life' = IF life = "applied" THEN "twice" ELSE "applied"
          \/ life' = life
      BY <1>7, OnDoes, Zenon
    <2> QED
      BY <2>1, <2>2, <2>3, Zenon DEF Advances
  <1> QED
    BY <1>1, <1>3, <1>4, <1>5, <1>6, <1>7, Steps, Zenon

-----------------------------------------------------------------------------
(* The invariant, and what follows *)

\* The invariant holds at the start and is inductive.
LEMMA InitIInv == Init => IInv
  <1> SUFFICES ASSUME Init PROVE IInv
    BY Zenon
  <1>1. /\ pump["back"] = "read" /\ pump["front"] = "read" /\ hand["back"] = NoFrame
        /\ channel["back"] = <<>> /\ channel["front"] = <<>>
    BY LegsAre, Zenon DEF Init
  <1>2. Wires
    <2>1. pump \in [Legs -> {"read", "send", "done"}] /\ hand \in [Legs -> Frames]
      BY NoFrameIs, Zenon DEF Init
    <2>2. channel \in [Legs -> Seq(Frames)] /\ \A l \in Legs : Len(channel[l]) <= Capacity
      BY DEF Init, Capacity
    <2>3. wire \in Seq(Backs) /\ channel["back"] \in Seq(Backs)
      <3>1. wire = <<>>
        BY Zenon DEF Init
      <3> QED
        BY <1>1, <3>1
    <2>4. IF pump["back"] = "send" THEN hand["back"] \in Backs ELSE hand["back"] = NoFrame
      BY <1>1, Zenon
    <2> QED
      BY <2>1, <2>2, <2>3, <2>4, Zenon DEF Wires
  <1>3. Values
    <2>1. /\ active \in BOOLEAN /\ awaiting \in BOOLEAN /\ transaction \in BOOLEAN
          /\ decided \in BOOLEAN /\ committed \in BOOLEAN
      BY Zenon DEF Init
    <2>2. /\ block \in Blocks /\ skip \in {"nothing"} \cup Ends /\ work \in Seq(TokenSet)
          /\ statements \in Nat /\ cycle \in Nat /\ outcome \in {"forwarded", "upstream_error"}
          /\ pc = "select"
      BY DEF Init, Blocks
    <2> QED
      BY <2>1, <2>2, Zenon DEF Values, Deciding
  <1>4. Clear
    BY <1>1, Zenon DEF Init, Clear
  <1>5. Order
    BY <1>1, <1>4, NoFrameIs DEF Order, Init, Deciding
  <1>6. Views /\ Single /\ Decisions /\ Acks
    BY Zenon DEF Init, Views, Single, Decisions, Acks, Deciding
  <1>7. Counted /\ Told
    <2>1. Held = 0 /\ Len(channel["front"]) = 0
      BY <1>1, Zenon DEF Held
    <2>2. Counted
      BY <2>1, PgAssumption DEF Init, Counted
    <2>3. Told
      BY Zenon DEF Init, Told, Deciding
    <2> QED
      BY <2>2, <2>3, Zenon
  <1> QED
    BY <1>2, <1>3, <1>5, <1>6, <1>7, Zenon DEF IInv, Types

LEMMA NextIInv == IInv /\ [Next]_vars => IInv'
  <1> SUFFICES ASSUME IInv, [Next]_vars PROVE IInv'
    BY Zenon
  <1>1. Types'
    BY TypesStep, Zenon DEF IInv
  <1>2. Order' /\ Views' /\ Single'
    BY <1>1, OrderStep, ViewsStep, SingleStep, Zenon DEF IInv
  <1>3. Decisions' /\ Acks'
    BY DecisionsStep, AcksStep, Zenon DEF IInv
  <1>4. Counted' /\ Told'
    BY CountedStep, ToldStep, Zenon DEF IInv
  <1> QED
    BY <1>1, <1>2, <1>3, <1>4, Zenon DEF IInv

\* The invariant: whatever the client sends, the database answers and the network loses,
\* what is under way belongs to the cycle that asked for it, and no decision comes before
\* its commit.
THEOREM ExchangeInvariant == Spec => []IInv
  BY InitIInv, NextIInv, PTL DEF Spec

\* A rule is only ever consulted about a commit of an explicit transaction that happened, and
\* the one commit of a cycle that is relayed to its end is never missed.
THEOREM ConsultsOnCommits == Spec => []DecisionsFollowCommits
  <1>1. IInv => DecisionsFollowCommits
    BY Zenon DEF IInv, Decisions, DecisionsFollowCommits
  <1> QED
    BY <1>1, ExchangeInvariant, PTL

\* After hold_response or close_connection no COMMIT reaches the client, and commit_ack_lost
\* says exactly that the database has committed and the client was not told.
THEOREM LostAcksAreLost == Spec => []AckWithheld
  <1>1. IInv => AckWithheld
    BY Zenon DEF IInv, Acks, AckWithheld
  <1> QED
    BY <1>1, ExchangeInvariant, PTL

\* A ReadyForQuery ends the cycle that asked for it, and the channels hold one frame.
THEOREM ReadyFramesClose == Spec => []ReadyEndsItsCycle
  <1>1. IInv => ReadyEndsItsCycle
    <2> SUFFICES ASSUME IInv PROVE ReadyEndsItsCycle
      BY Zenon
    <2>1. \A l \in Legs : Len(channel[l]) <= Capacity
      BY Zenon DEF IInv, Types, Wires
    <2>2. ASSUME Running, NEW f \in BackFrames, f.kind = "Z" PROVE active /\ f.cycle = cycle
      <3>1. CASE \E i \in 1 .. Len(wire) : f = wire[i]
        BY <2>2, <3>1, Zenon DEF IInv, Order, Closes, Closing
      <3>2. CASE \E i \in 1 .. Len(channel["back"]) : f = channel["back"][i]
        BY <2>2, <3>2, Zenon DEF IInv, Order, Closes, Closing
      <3>3. CASE f = hand["back"]
        BY <2>2, <3>3, Zenon DEF IInv, Order, Closes, Closing
      <3>4. CASE pc = "write_down" /\ f = frame
        BY <2>2, <3>4, Zenon DEF IInv, Order
      <3> QED
        BY <2>2, <3>1, <3>2, <3>3, <3>4, Zenon DEF BackFrames
    <2> QED
      BY <2>1, <2>2, Zenon DEF ReadyEndsItsCycle
  <1> QED
    BY <1>1, ExchangeInvariant, PTL

\* The events of every cycle come in the order the recorder counts on: the session implements
\* FlowEvents, with its cycles as the flows.
THEOREM ExchangeRefinesFlowEvents == Spec => RecordsInOrder
  <1> DEFINE lives == [c \in 1 .. MaxFrames |-> Life(c)]
  <1>1. Init => F!FlowInit
    <2>1. Init => cycle = 0 /\ life = "none"
      BY Zenon DEF Init
    <2>2. cycle = 0 => lives = [c \in 1 .. MaxFrames |-> "none"]
      BY PgAssumption DEF Life
    <2> QED
      BY <2>1, <2>2, Zenon DEF F!FlowInit
  <1>l. lives = [c \in 1 .. MaxFrames |-> lives[c]] /\ lives' = [c \in 1 .. MaxFrames |-> lives'[c]]
    BY Zenon
  <1>2. ASSUME IInv, IInv', Advances PROVE F!FlowNext \/ lives' = lives
    <2>0. cycle \in Nat /\ MaxFrames \in Nat /\ cycle <= MaxFrames /\ cycle' \in Nat /\ cycle' <= MaxFrames
      <3>1. cycle \in Nat /\ cycle' \in Nat /\ channel \in [Legs -> Seq(Frames)]
            /\ channel' \in [Legs -> Seq(Frames)]
        BY <1>2, Zenon DEF IInv, Types, Values, Wires
      <3>2. Len(channel["front"]) \in Nat /\ Len(channel'["front"]) \in Nat /\ Held \in Nat /\ Held' \in Nat
        BY <3>1, LegsAre DEF Held
      <3>3. /\ sent \in 0 .. MaxFrames /\ cycle + Len(channel["front"]) + Held <= sent
            /\ sent' \in 0 .. MaxFrames /\ cycle' + Len(channel'["front"]) + Held' <= sent'
        BY <1>2, Zenon DEF IInv, Counted
      <3> QED
        BY <3>1, <3>2, <3>3, PgAssumption
    <2>1. CASE UNCHANGED <<cycle, life>>
      BY <2>1, Zenon DEF Life
    <2>2. CASE cycle' = cycle + 1 /\ life = (IF cycle = 0 THEN "none" ELSE "done") /\ life' = "open"
      <3>1. cycle' \in 1 .. MaxFrames /\ lives[cycle'] = "none"
        BY <2>0, <2>2 DEF Life
      <3>2. \A c \in 1 .. MaxFrames : lives'[c] = IF c = cycle' THEN "open" ELSE lives[c]
        BY <2>0, <2>2 DEF Life
      <3>3. lives' = [lives EXCEPT ![cycle'] = "open"]
        <4> HIDE DEF lives
        <4> QED
          BY <1>l, <3>2, Zenon
      <3> QED
        BY <3>1, <3>3, Zenon DEF F!FlowNext, F!Start
    <2>3. CASE /\ cycle' = cycle /\ cycle > 0
               /\ \/ life = "open" /\ life' \in {"passed", "selected"}
                  \/ life = "selected" /\ life' = "applied"
                  \/ life \in {"open", "passed", "selected", "applied"} /\ life' = "done"
      <3>0. /\ cycle \in 1 .. MaxFrames /\ lives[cycle] = life
            /\ \A c \in 1 .. MaxFrames : lives'[c] = IF c = cycle THEN life' ELSE lives[c]
        BY <2>0, <2>3 DEF Life
      <3> HIDE DEF lives
      <3>1. cycle \in 1 .. MaxFrames /\ lives[cycle] = life /\ lives' = [lives EXCEPT ![cycle] = life']
        BY <1>l, <3>0, Zenon
      <3>2. CASE life = "open" /\ life' \in {"passed", "selected"}
        <4>1. \E s \in BOOLEAN : lives' = [lives EXCEPT ![cycle] = IF s THEN "selected" ELSE "passed"]
          BY <3>1, <3>2, Zenon
        <4> QED
          BY <3>1, <3>2, <4>1, Zenon DEF F!FlowNext, F!Decide, lives
      <3>3. CASE life = "selected" /\ life' = "applied"
        BY <3>1, <3>3, Zenon DEF F!FlowNext, F!ApplyFault, lives
      <3>4. CASE life \in {"open", "passed", "selected", "applied"} /\ life' = "done"
        <4>1. lives[cycle] \in F!Open
          BY <3>1, <3>4, Zenon DEF F!Open
        <4> QED
          BY <3>1, <3>4, <4>1, Zenon DEF F!FlowNext, F!Finish, lives
      <3> QED
        BY <2>3, <3>2, <3>3, <3>4, Zenon
    <2> QED
      BY <1>2, <2>1, <2>2, <2>3, Zenon DEF Advances
  <1>3. IInv /\ IInv' /\ [Next]_vars => [F!FlowNext]_lives
    <2>1. IInv /\ [Next]_vars => Advances
      BY AdvancesStep, Zenon DEF IInv
    <2> QED
      BY <1>2, <2>1, Zenon
  <1> QED
    BY <1>1, <1>3, ExchangeInvariant, PTL DEF Spec, RecordsInOrder, F!FlowSpec
=============================================================================
