--------------------------- MODULE RecorderProofs ---------------------------
(***************************************************************************)
(* RecorderInv is inductive, for every number of flows and of Close calls  *)
(* and every capacity; the invariants of Recorder follow from it.          *)
(***************************************************************************)
EXTENDS Recorder, FiniteSetTheorems, SequenceTheorems, TLAPS

\* An event that is no longer pending is counted elsewhere.
LEMMA MoveOne ==
  \A a, b, c \in Nat : /\ a + b + c = (a + 1) + b + (c - 1)
                       /\ a + b + c = a + (b + 1) + (c - 1)
  OBVIOUS

\* What Counted does to each counter, when no counter it decrements is zero.
LEMMA CountedFacts ==
  ASSUME counts \in [CounterNames -> Nat], NEW up, NEW down,
         \A n \in CounterNames : n \in down => counts[n] > 0
  PROVE  /\ Counted(up, down) \in [CounterNames -> Nat]
         /\ \A n \in CounterNames :
              /\ n \notin up /\ n \notin down => Counted(up, down)[n] = counts[n]
              /\ n \in up /\ n \notin down => Counted(up, down)[n] = counts[n] + 1
              /\ n \notin up /\ n \in down => Counted(up, down)[n] = counts[n] - 1
  BY DEF Counted, One

LEMMA InitInv == Init => RecorderInv
  <1> SUFFICES ASSUME Init PROVE RecorderInv
    OBVIOUS
  <1>1. TypeOK
    <2>1. counts \in [CounterNames -> Nat] /\ outcomes \in [Outcomes -> Nat]
      BY DEF Init
    <2>2. life \in [Flows -> Stages]
      BY DEF Init, FlowInit, Stages
    <2>3. /\ queue \in Seq(Events) /\ Len(queue) <= Capacity
          /\ held \in Seq(Events) /\ Len(held) <= 1
          /\ sink \in Seq(Events) /\ log \in Seq(Events)
      BY RecorderAssumption DEF Init
    <2>4. closed \in BOOLEAN /\ aborted \in BOOLEAN /\ broken \in BOOLEAN
      BY Zenon DEF Init
    <2>5. /\ mu \in {"free", "sent", "refused"}
          /\ writer \in {"range", "encode", "written", "failed", "exited"}
          /\ closer \in [Closers -> {"idle", "locking", "waiting", "nil", "unflushed", "deadline"}]
      BY DEF Init
    <2> QED
      BY <2>1, <2>2, <2>3, <2>4, <2>5, Zenon DEF TypeOK
  <1>4. Accounting /\ PendingIsBacklog
    BY DEF Init, CounterNames, Accounting, PendingIsBacklog, One
  <1>2. GaugesExact
    <2>1. OpenFlows = {} /\ FaultedFlows = {}
      BY DEF Init, FlowInit, Open, OpenFlows, FaultedFlows
    <2> QED
      BY <2>1, FS_EmptySet DEF Init, GaugesExact, CounterNames
  <1>3. WriterHolds /\ Closing /\ SinkCounted /\ Gapless
    BY DEF Init, WriterHolds, Closing, SinkCounted, Gapless, Unsunk, One, CounterNames
  <1> QED
    BY <1>1, <1>2, <1>3, <1>4 DEF RecorderInv

\* The type invariant, in the flat form the arithmetic steps use.
LEMMA Flat ==
  ASSUME TypeOK
  PROVE  /\ counts["Written"] \in Nat /\ counts["Dropped"] \in Nat /\ counts["Pending"] \in Nat
         /\ Len(queue) \in Nat /\ Len(held) \in Nat /\ Len(sink) \in Nat /\ Len(log) \in Nat
  BY SMTT(40) DEF TypeOK, CounterNames

\* The rearrangements of a concatenation that Gapless needs.
LEMMA ConcatTake ==
  ASSUME NEW S, NEW a \in Seq(S), NEW q \in Seq(S), q # <<>>
  PROVE  (a \o <<>>) \o q = (a \o <<Head(q)>>) \o Tail(q)
  BY SMTT(30)

LEMMA HeadOfOne ==
  ASSUME NEW S, NEW h \in Seq(S), Len(h) = 1
  PROVE  Head(h) \in S
  OBVIOUS

LEMMA ConcatSunk ==
  ASSUME NEW S, NEW a \in Seq(S), NEW h \in Seq(S), Len(h) = 1, NEW q \in Seq(S)
  PROVE  (a \o h) \o q = (Append(a, Head(h)) \o <<>>) \o q
  <1>1. h = <<Head(h)>>
    <2>1. Head(h) \in S /\ Head(h) = h[1]
      OBVIOUS
    <2>2. <<Head(h)>> \in Seq(S) /\ Len(<<Head(h)>>) = 1 /\ <<Head(h)>>[1] = h[1]
      BY <2>1
    <2> QED
      BY <2>2, SeqEqual
  <1>2. a \o <<Head(h)>> = Append(a, Head(h)) /\ Append(a, Head(h)) \in Seq(S)
    <2>1. Head(h) \in S
      BY HeadOfOne
    <2> QED
      BY <2>1
  <1>3. Append(a, Head(h)) \o <<>> = Append(a, Head(h))
    BY <1>2, ConcatEmptySeq
  <1> QED
    BY Zenon, <1>1, <1>2, <1>3

LEMMA RecordEndInv == RecorderInv /\ RecordEnd => RecorderInv'
  <1> SUFFICES ASSUME RecorderInv, RecordEnd PROVE RecorderInv'
    OBVIOUS
  <1>0. /\ TypeOK /\ Accounting /\ PendingIsBacklog /\ GaugesExact
        /\ WriterHolds /\ Closing /\ SinkCounted /\ Gapless
    BY DEF RecorderInv
  <1>1. /\ counts' \in [CounterNames -> Nat]
        /\ counts'["Written"] = counts["Written"]
        /\ counts'["Active"] = counts["Active"]
        /\ counts'["ActiveFaults"] = counts["ActiveFaults"]
        /\ mu = "sent" =>
             counts'["Pending"] = counts["Pending"] + 1 /\ counts'["Dropped"] = counts["Dropped"]
        /\ mu = "refused" =>
             counts'["Pending"] = counts["Pending"] /\ counts'["Dropped"] = counts["Dropped"] + 1
    <2>1. counts \in [CounterNames -> Nat]
      BY <1>0 DEF TypeOK
    <2>2. CASE mu = "sent" /\ counts' = Counted({"Pending"}, {})
      BY <2>1, <2>2, CountedFacts DEF CounterNames
    <2>3. CASE mu = "refused" /\ counts' = Counted({"Dropped"}, {})
      BY <2>1, <2>3, CountedFacts DEF CounterNames
    <2> QED
      BY <2>2, <2>3 DEF RecordEnd, CountDelivery
  <1>2. TypeOK'
    BY <1>0, <1>1 DEF RecordEnd, CountDelivery, TypeOK
  <1>3. /\ counts["Written"] \in Nat /\ counts["Dropped"] \in Nat /\ counts["Pending"] \in Nat
        /\ Len(queue) \in Nat /\ Len(held) \in Nat /\ Len(log) \in Nat
    BY <1>0, Flat
  <1>4. /\ mu \in {"sent", "refused"} /\ mu' = "free"
        /\ UNCHANGED <<queue, held, log, sink, writer>>
    BY DEF RecordEnd, CountDelivery
  <1>5. Accounting'
    <2>1. Len(log) = counts["Written"] + counts["Dropped"] + counts["Pending"] + 1
      BY <1>0, <1>4 DEF Accounting, One
    <2> QED
      BY SMTT(40), <1>1, <1>3, <1>4, <2>1 DEF Accounting, One
  <1>6. PendingIsBacklog'
    <2>1. CASE mu = "sent"
      BY <1>0, <1>1, <1>3, <1>4, <2>1 DEF PendingIsBacklog, One
    <2>2. CASE mu = "refused"
      BY <1>0, <1>1, <1>3, <1>4, <2>2 DEF PendingIsBacklog, One
    <2> QED
      BY <1>4, <2>1, <2>2
  <1>7. GaugesExact'
    BY <1>0, <1>1 DEF RecordEnd, CountDelivery, GaugesExact, OpenFlows, FaultedFlows
  <1>8. WriterHolds' /\ Closing'
    BY <1>0 DEF RecordEnd, CountDelivery, WriterHolds, Closing
  <1>9. SinkCounted'
    BY <1>0, <1>1, <1>4 DEF SinkCounted
  <1>10. Gapless'
    <2>1. CASE mu = "sent"
      BY <1>0, <1>1, <1>4, <2>1 DEF Gapless, Unsunk
    <2>2. CASE mu = "refused"
      BY <1>1, <1>3, <2>2 DEF Gapless
    <2> QED
      BY <1>4, <2>1, <2>2
  <1> QED
    BY <1>2, <1>5, <1>6, <1>7, <1>8, <1>9, <1>10 DEF RecorderInv

LEMMA TakeInv == RecorderInv /\ Take => RecorderInv'
  <1> SUFFICES ASSUME RecorderInv, Take PROVE RecorderInv'
    OBVIOUS
  <1>0. /\ TypeOK /\ Accounting /\ PendingIsBacklog /\ GaugesExact
        /\ WriterHolds /\ Closing /\ SinkCounted /\ Gapless
    BY DEF RecorderInv
  <1>1. /\ queue \in Seq(Events) /\ queue # <<>> /\ Len(queue) \in Nat
        /\ held = <<>> /\ sink \in Seq(Events)
    BY <1>0 DEF TypeOK, Take, WriterHolds
  <1>2. /\ queue' \in Seq(Events) /\ Len(queue') = Len(queue) - 1
        /\ held' \in Seq(Events) /\ Len(held') = 1
    BY <1>1 DEF Take
  <1>3. TypeOK'
    <2>1. writer' \in {"range", "encode", "written", "failed", "exited"}
      BY DEF Take
    <2>2. Len(queue') <= Capacity
      BY <1>0, <1>1, <1>2, RecorderAssumption DEF TypeOK
    <2> QED
      BY <1>0, <1>2, <2>1, <2>2 DEF Take, TypeOK
  <1>4. Accounting' /\ GaugesExact'
    BY <1>0 DEF Take, Accounting, GaugesExact, OpenFlows, FaultedFlows
  <1>5. PendingIsBacklog'
    <2>1. counts["Pending"] + One(mu = "sent") = Len(queue) + 0
      BY <1>0, <1>1 DEF PendingIsBacklog
    <2> QED
      BY <1>1, <1>2, <2>1 DEF Take, PendingIsBacklog
  <1>6. WriterHolds'
    BY <1>2 DEF Take, WriterHolds
  <1>7. Closing'
    BY <1>0, <1>2 DEF Take, Closing
  <1>8. SinkCounted'
    BY <1>0 DEF Take, SinkCounted, One
  <1>9. Gapless'
    BY Zenon, <1>0, <1>1, ConcatTake DEF Take, Gapless, Unsunk
  <1> QED
    BY <1>3, <1>4, <1>5, <1>6, <1>7, <1>8, <1>9 DEF RecorderInv

LEMMA RangeEndInv == RecorderInv /\ RangeEnd => RecorderInv'
  <1> SUFFICES ASSUME RecorderInv, RangeEnd PROVE RecorderInv'
    OBVIOUS
  <1>0. /\ TypeOK /\ Accounting /\ PendingIsBacklog /\ GaugesExact
        /\ WriterHolds /\ Closing /\ SinkCounted /\ Gapless
    BY DEF RecorderInv
  <1>1. TypeOK'
    BY <1>0 DEF RangeEnd, TypeOK
  <1>2. Accounting' /\ PendingIsBacklog' /\ GaugesExact'
    BY <1>0 DEF RangeEnd, Accounting, PendingIsBacklog, GaugesExact, OpenFlows, FaultedFlows
  <1>3. WriterHolds' /\ Closing'
    BY <1>0 DEF RangeEnd, WriterHolds, Closing
  <1>4. SinkCounted'
    BY <1>0 DEF RangeEnd, SinkCounted, One
  <1>5. Gapless'
    BY <1>0 DEF RangeEnd, Gapless, Unsunk, WriterHolds
  <1> QED
    BY <1>1, <1>2, <1>3, <1>4, <1>5 DEF RecorderInv

LEMMA EncodeInv == RecorderInv /\ Encode => RecorderInv'
  <1> SUFFICES ASSUME RecorderInv, Encode PROVE RecorderInv'
    OBVIOUS
  <1>0. /\ TypeOK /\ Accounting /\ PendingIsBacklog /\ GaugesExact
        /\ WriterHolds /\ Closing /\ SinkCounted /\ Gapless
    BY DEF RecorderInv
  <1>1. Len(held) = 1 /\ held \in Seq(Events) /\ sink \in Seq(Events) /\ queue \in Seq(Events)
    BY <1>0 DEF Encode, WriterHolds, TypeOK
  <1>8. writer = "encode" /\ counts["Written"] \in Nat
    BY <1>0, Flat DEF Encode
  <1>2. \/ writer' = "written" /\ sink' = Append(sink, Head(held))
        \/ writer' = "failed" /\ sink' = sink
    BY DEF Encode
  <1>3. TypeOK'
    <2>1. sink' \in Seq(Events)
      <3>1. Head(held) \in Events
        BY <1>1, HeadOfOne
      <3>2. Append(sink, Head(held)) \in Seq(Events)
        BY <1>1, <3>1, AppendProperties
      <3> QED
        BY Zenon, <1>1, <1>2, <3>2
    <2>2. broken' \in BOOLEAN
      BY <1>0, Zenon DEF Encode, TypeOK
    <2> QED
      BY <1>0, <1>2, <2>1, <2>2 DEF Encode, TypeOK
  <1>4. Accounting' /\ PendingIsBacklog' /\ GaugesExact'
    BY <1>0 DEF Encode, Accounting, PendingIsBacklog, GaugesExact, OpenFlows, FaultedFlows
  <1>5. WriterHolds' /\ Closing'
    BY <1>0, <1>1, <1>2 DEF Encode, WriterHolds, Closing
  <1>6. SinkCounted'
    <2>1. Len(sink) = counts["Written"]
      BY <1>0, <1>8 DEF SinkCounted, One
    <2>2. counts' = counts
      BY DEF Encode
    <2> QED
      BY <1>1, <1>2, <1>8, <2>1, <2>2 DEF SinkCounted, One
  <1>7. Gapless'
    <2>1. counts["Dropped"] = 0 /\ mu # "refused" => log = (sink \o held) \o queue
      BY <1>0, <1>8 DEF Gapless, Unsunk
    <2>2. (sink \o held) \o queue = (Append(sink, Head(held)) \o <<>>) \o queue
      BY SMTT(40), <1>1, ConcatSunk
    <2> QED
      BY Zenon, <1>2, <2>1, <2>2 DEF Encode, Gapless, Unsunk
  <1> QED
    BY <1>3, <1>4, <1>5, <1>6, <1>7 DEF RecorderInv

LEMMA CountWriteInv == RecorderInv /\ CountWrite => RecorderInv'
  <1> SUFFICES ASSUME RecorderInv, CountWrite PROVE RecorderInv'
    OBVIOUS
  <1>0. /\ TypeOK /\ Accounting /\ PendingIsBacklog /\ GaugesExact
        /\ WriterHolds /\ Closing /\ SinkCounted /\ Gapless
    BY DEF RecorderInv
  <1>1. /\ counts["Written"] \in Nat /\ counts["Dropped"] \in Nat /\ counts["Pending"] \in Nat
        /\ Len(queue) \in Nat /\ Len(log) \in Nat /\ Len(sink) \in Nat
    BY <1>0, Flat
  <1>2. /\ mu = "free" /\ writer \in {"written", "failed"} /\ Len(held) = 1
        /\ held' = <<>> /\ writer' = "range" /\ UNCHANGED <<mu, queue, log, sink>>
    BY <1>0 DEF CountWrite, CountResult, WriterHolds
  <1>3. counts["Pending"] = Len(queue) + 1 /\ counts["Pending"] > 0
    BY <1>0, <1>1, <1>2 DEF PendingIsBacklog, One
  <1>4. /\ counts' \in [CounterNames -> Nat]
        /\ counts'["Active"] = counts["Active"]
        /\ counts'["ActiveFaults"] = counts["ActiveFaults"]
        /\ counts'["Pending"] = counts["Pending"] - 1
        /\ writer = "written" => /\ counts'["Written"] = counts["Written"] + 1
                                 /\ counts'["Dropped"] = counts["Dropped"]
        /\ writer = "failed" => /\ counts'["Written"] = counts["Written"]
                                /\ counts'["Dropped"] = counts["Dropped"] + 1
    <2>1. counts \in [CounterNames -> Nat]
      BY <1>0 DEF TypeOK
    <2>2. \A n \in CounterNames : n \in {"Pending"} => counts[n] > 0
      BY <1>3
    <2>3. CASE writer = "written" /\ counts' = Counted({"Written"}, {"Pending"})
      BY <2>1, <2>2, <2>3, CountedFacts DEF CounterNames
    <2>4. CASE writer = "failed" /\ counts' = Counted({"Dropped", "WriteErrors"}, {"Pending"})
      BY <2>1, <2>2, <2>4, CountedFacts DEF CounterNames
    <2> QED
      BY <2>3, <2>4 DEF CountWrite, CountResult
  <1>5. TypeOK'
    <2>1. held' \in Seq(Events) /\ Len(held') <= 1
      BY <1>2
    <2> QED
      BY SMTT(40), <1>0, <1>2, <1>4, <2>1 DEF CountWrite, CountResult, TypeOK
  <1>6. Accounting'
    <2>1. Len(log) = counts["Written"] + counts["Dropped"] + counts["Pending"]
      BY <1>0, <1>1, <1>2 DEF Accounting, One
    <2>2. counts'["Written"] \in Nat /\ counts'["Dropped"] \in Nat /\ counts'["Pending"] \in Nat
      BY <1>4 DEF CounterNames
    <2>3. counts'["Pending"] = counts["Pending"] - 1 /\ log' = log /\ mu' = "free"
      BY <1>2, <1>4
    <2>4. Len(log) = counts'["Written"] + counts'["Dropped"] + counts'["Pending"]
      <3>1. CASE writer = "written"
        <4>1. /\ counts'["Written"] = counts["Written"] + 1
              /\ counts'["Dropped"] = counts["Dropped"]
              /\ counts'["Pending"] = counts["Pending"] - 1
          BY Zenon, <1>4, <3>1
        <4>2. counts["Written"] \in Nat /\ counts["Dropped"] \in Nat /\ counts["Pending"] \in Nat
          BY <1>1
        <4>3. Len(log) = (counts["Written"] + 1) + counts["Dropped"] + (counts["Pending"] - 1)
          BY ONLY Zenon, <2>1, <4>2, MoveOne
        <4> QED
          BY ONLY Zenon, <4>1, <4>3
      <3>2. CASE writer = "failed"
        <4>1. /\ counts'["Written"] = counts["Written"]
              /\ counts'["Dropped"] = counts["Dropped"] + 1
              /\ counts'["Pending"] = counts["Pending"] - 1
          BY <1>4, <3>2
        <4>2. counts["Written"] \in Nat /\ counts["Dropped"] \in Nat /\ counts["Pending"] \in Nat
          BY <1>1
        <4>3. Len(log) = counts["Written"] + (counts["Dropped"] + 1) + (counts["Pending"] - 1)
          BY ONLY Zenon, <2>1, <4>2, MoveOne
        <4> QED
          BY ONLY Zenon, <4>1, <4>3
      <3> QED
        BY <1>2, <3>1, <3>2
    <2> QED
      BY <2>2, <2>3, <2>4 DEF Accounting, One
  <1>7. PendingIsBacklog'
    BY <1>1, <1>2, <1>3, <1>4 DEF PendingIsBacklog, One
  <1>8. GaugesExact'
    BY <1>0, <1>4 DEF CountWrite, CountResult, GaugesExact, OpenFlows, FaultedFlows
  <1>9. WriterHolds' /\ Closing'
    BY <1>0, <1>2 DEF CountWrite, CountResult, WriterHolds, Closing
  <1>10. SinkCounted'
    <2>1. CASE writer = "written"
      BY <1>0, <1>1, <1>2, <1>4, <2>1 DEF SinkCounted, One
    <2>2. CASE writer = "failed"
      BY <1>0, <1>1, <1>2, <1>4, <2>2 DEF SinkCounted, One
    <2> QED
      BY <1>2, <2>1, <2>2
  <1>11. Gapless'
    <2>1. CASE writer = "written"
      BY <1>0, <1>2, <1>4, <2>1 DEF Gapless, Unsunk
    <2>2. CASE writer = "failed"
      BY <1>1, <1>4, <2>2 DEF Gapless
    <2> QED
      BY <1>2, <2>1, <2>2
  <1> QED
    BY <1>5, <1>6, <1>7, <1>8, <1>9, <1>10, <1>11 DEF RecorderInv

\* The part of Record that does not depend on the event's type.
LEMMA RecordBeginInv ==
  ASSUME RecorderInv, NEW e \in Events, RecordBegin(e),
         life' \in [Flows -> Stages], counts' \in [CounterNames -> Nat], GaugesExact',
         counts'["Written"] = counts["Written"], counts'["Dropped"] = counts["Dropped"],
         counts'["Pending"] = counts["Pending"], outcomes' \in [Outcomes -> Nat]
  PROVE  RecorderInv'
  <1>0. /\ TypeOK /\ Accounting /\ PendingIsBacklog
        /\ WriterHolds /\ Closing /\ SinkCounted /\ Gapless
    BY DEF RecorderInv
  <1>1. /\ log \in Seq(Events) /\ queue \in Seq(Events) /\ sink \in Seq(Events)
        /\ held \in Seq(Events) /\ Len(queue) <= Capacity
    BY <1>0 DEF TypeOK
  <1>2. /\ counts["Written"] \in Nat /\ counts["Dropped"] \in Nat /\ counts["Pending"] \in Nat
        /\ Len(queue) \in Nat /\ Len(held) \in Nat /\ Len(log) \in Nat
    BY <1>0, Flat
  <1>3. /\ mu = "free" /\ UNCHANGED <<closed, aborted, writer, held, broken, closer, sink>>
        /\ log' = Append(log, e)
        /\ \/ ~closed /\ mu' = "sent" /\ Len(queue) < Capacity /\ queue' = Append(queue, e)
           \/ mu' = "refused" /\ queue' = queue
    BY DEF RecordBegin, Accepts
  <1>4. log' \in Seq(Events) /\ Len(log') = Len(log) + 1
    BY <1>1, <1>3, AppendProperties
  <1>5. /\ mu' \in {"sent", "refused"} /\ queue' \in Seq(Events) /\ Len(queue') <= Capacity
        /\ mu' = "sent" => Len(queue') = Len(queue) + 1
        /\ mu' = "refused" => Len(queue') = Len(queue)
    <2>1. CASE ~closed /\ mu' = "sent" /\ Len(queue) < Capacity /\ queue' = Append(queue, e)
      BY <1>1, <1>2, <2>1, AppendProperties, RecorderAssumption
    <2>2. CASE mu' = "refused" /\ queue' = queue
      BY <1>1, <2>2
    <2> QED
      BY <1>3, <2>1, <2>2
  <1>6. TypeOK'
    <2>1. mu' \in {"free", "sent", "refused"}
      BY <1>5
    <2>2. /\ (closed \in BOOLEAN /\ aborted \in BOOLEAN /\ broken \in BOOLEAN)'
          /\ (writer \in {"range", "encode", "written", "failed", "exited"})'
          /\ (held \in Seq(Events) /\ Len(held) <= 1 /\ sink \in Seq(Events))'
          /\ (closer \in [Closers -> {"idle", "locking", "waiting", "nil", "unflushed", "deadline"}])'
      BY <1>0, <1>3, Zenon DEF TypeOK
    <2> QED
      BY <1>4, <1>5, <2>1, <2>2, Zenon DEF TypeOK
  <1>7. Accounting'
    <2>1. Len(log) = counts["Written"] + counts["Dropped"] + counts["Pending"]
      BY <1>0, <1>2, <1>3 DEF Accounting, One
    <2>2. mu' # "free"
      BY <1>5
    <2> QED
      BY <1>2, <1>4, <2>1, <2>2 DEF Accounting, One
  <1>8. PendingIsBacklog'
    <2>1. counts["Pending"] = Len(queue) + Len(held) /\ held' = held
      BY <1>0, <1>2, <1>3 DEF PendingIsBacklog, One
    <2>2. CASE mu' = "sent"
      <3>1. counts'["Pending"] = counts["Pending"] /\ Len(queue') = Len(queue) + 1
        BY <1>5, <2>2
      <3>2. counts["Pending"] + 1 = (Len(queue) + 1) + Len(held)
        BY ONLY <1>2, <2>1
      <3> QED
        BY <2>1, <2>2, <3>1, <3>2 DEF PendingIsBacklog, One
    <2>3. CASE mu' = "refused"
      BY <1>2, <1>5, <2>1, <2>3 DEF PendingIsBacklog, One
    <2> QED
      BY <1>5, <2>2, <2>3
  <1>9. WriterHolds' /\ SinkCounted'
    BY <1>0, <1>3 DEF WriterHolds, SinkCounted
  <1>10. Closing'
    <2>1. CASE closed
      BY <1>0, <1>3, <2>1, Zenon DEF Closing
    <2>2. CASE ~closed
      BY <1>0, <1>3, <2>2, Zenon DEF Closing
    <2> QED
      BY <2>1, <2>2
  <1>11. Gapless'
    <2>1. CASE mu' = "refused"
      BY <2>1 DEF Gapless
    <2>2. CASE mu' = "sent" /\ queue' = Append(queue, e)
      <3>1. Unsunk \in Seq(Events) /\ Unsunk' = Unsunk /\ sink \o Unsunk \in Seq(Events)
        <4>1. Unsunk \in Seq(Events)
          BY <1>1, Zenon, EmptySeq DEF Unsunk
        <4>2. Unsunk' = Unsunk
          BY <1>3 DEF Unsunk
        <4>3. sink \o Unsunk \in Seq(Events)
          BY ONLY <1>1, <4>1, ConcatProperties
        <4> QED
          BY <4>1, <4>2, <4>3
      <3>2. Append((sink \o Unsunk) \o queue, e) = (sink \o Unsunk) \o Append(queue, e)
        <4> DEFINE a == sink \o Unsunk
        <4>1. e \in Events /\ queue \in Seq(Events) /\ a \in Seq(Events)
          BY <1>1, <3>1
        <4> HIDE DEF a
        <4>2. Append(a \o queue, e) = a \o Append(queue, e)
          BY ONLY <4>1
        <4> QED
          BY <4>2 DEF a
      <3>3. counts["Dropped"] = 0 /\ writer # "failed" => log = (sink \o Unsunk) \o queue
        BY <1>0, <1>3, Zenon DEF Gapless
      <3>4. counts["Dropped"] = 0 /\ writer # "failed" => log' = (sink \o Unsunk) \o queue'
        BY <1>3, <2>2, <3>2, <3>3, Zenon
      <3>5. counts'["Dropped"] = counts["Dropped"] /\ writer' = writer /\ sink' = sink
        BY <1>3
      <3> QED
        BY <3>1, <3>4, <3>5, Zenon DEF Gapless
    <2> QED
      BY <1>3, <2>1, <2>2
  <1> QED
    BY <1>6, <1>7, <1>8, <1>9, <1>10, <1>11 DEF RecorderInv

\* The four calls of Record.  Each moves one flow into or out of the sets the gauges
\* count, and decrements a gauge only for a flow that is in its set.
LEMMA OpenSets ==
  ASSUME RecorderInv
  PROVE  /\ life \in [Flows -> Stages] /\ counts \in [CounterNames -> Nat]
         /\ outcomes \in [Outcomes -> Nat]
         /\ IsFiniteSet(OpenFlows)
         /\ IsFiniteSet(FaultedFlows)
         /\ counts["Active"] = Cardinality(OpenFlows)
         /\ counts["ActiveFaults"] = Cardinality(FaultedFlows)
         /\ counts["Active"] \in Nat /\ counts["ActiveFaults"] \in Nat
  <1>1. TypeOK /\ GaugesExact
    BY DEF RecorderInv
  <1>2. /\ IsFiniteSet(OpenFlows)
        /\ IsFiniteSet(FaultedFlows)
    BY RecorderAssumption, FS_Subset DEF OpenFlows, FaultedFlows
  <1>3. counts["Active"] \in Nat /\ counts["ActiveFaults"] \in Nat
    BY <1>1 DEF TypeOK, CounterNames
  <1> QED
    BY <1>1, <1>2, <1>3 DEF TypeOK, GaugesExact

LEMMA TallyOutcomeType ==
  ASSUME outcomes \in [Outcomes -> Nat], NEW e \in Events,
         e.type = "flow_finished" => e.outcome \in Outcomes
  PROVE  TallyOutcome(e) \in [Outcomes -> Nat]
  BY DEF TallyOutcome

LEMMA RecordStartedInv ==
  ASSUME RecorderInv, NEW f \in Flows, RecordStarted(f)
  PROVE  RecorderInv'
  <1> DEFINE e == Event(f, "flow_started", FALSE, FALSE, FALSE, "")
  <1>1. e \in Events /\ e.type = "flow_started"
    BY DEF Event, Events, EventTypes
  <1>2. RecordBegin(e) /\ life[f] = "none" /\ life' = [life EXCEPT ![f] = "open"]
    BY Zenon DEF RecordStarted, Start
  <1>3. /\ counts' \in [CounterNames -> Nat]
        /\ counts'["Written"] = counts["Written"] /\ counts'["Dropped"] = counts["Dropped"]
        /\ counts'["Pending"] = counts["Pending"]
        /\ counts'["Active"] = counts["Active"] + 1
        /\ counts'["ActiveFaults"] = counts["ActiveFaults"]
    <2>1. counts' = Counted({"Total", "Active"}, {})
      BY Zenon, <1>1, <1>2 DEF RecordBegin, Tally, If
    <2> QED
      BY <2>1, OpenSets, CountedFacts DEF CounterNames
  <1>4. outcomes' \in [Outcomes -> Nat]
    BY Zenon, <1>1, <1>2, OpenSets, TallyOutcomeType DEF RecordBegin
  <1>5. life' \in [Flows -> Stages]
    BY Zenon, <1>2, OpenSets DEF Stages, Open
  <1>6. GaugesExact'
    <2>1. OpenFlows' = OpenFlows \cup {f} /\ f \notin OpenFlows /\ FaultedFlows' = FaultedFlows
      BY Zenon, <1>2, OpenSets DEF Open, OpenFlows, FaultedFlows
    <2>2. Cardinality(OpenFlows') = Cardinality(OpenFlows) + 1
      BY Zenon, <2>1, OpenSets, FS_AddElement
    <2> QED
      BY <1>3, <2>1, <2>2, OpenSets DEF GaugesExact
  <1> QED
    BY Zenon, <1>1, <1>2, <1>3, <1>4, <1>5, <1>6, RecordBeginInv

LEMMA RecordDecisionInv ==
  ASSUME RecorderInv, NEW f \in Flows, RecordDecision(f)
  PROVE  RecorderInv'
  <1>0. PICK r \in BOOLEAN, b \in BOOLEAN :
          Decide(f, b) /\ RecordBegin(Event(f, "decision", r, b, FALSE, ""))
    BY Zenon DEF RecordDecision
  <1> DEFINE e == Event(f, "decision", r, b, FALSE, "")
  <1>1. e \in Events /\ e.type = "decision" /\ e.rule = r /\ e.selected = b
    BY DEF Event, Events, EventTypes
  <1>2. /\ RecordBegin(e) /\ life[f] = "open"
        /\ life' = [life EXCEPT ![f] = IF b THEN "selected" ELSE "passed"]
    BY Zenon, <1>0 DEF Decide
  <1>3. /\ counts' \in [CounterNames -> Nat]
        /\ counts'["Written"] = counts["Written"] /\ counts'["Dropped"] = counts["Dropped"]
        /\ counts'["Pending"] = counts["Pending"]
        /\ counts'["Active"] = counts["Active"]
        /\ counts'["ActiveFaults"] = counts["ActiveFaults"]
    <2>1. counts' = Counted(If(r, {"Eligible"}) \cup If(b, {"Selected"}), {})
      BY Zenon, <1>1, <1>2 DEF RecordBegin, Tally, If
    <2>2. If(r, {"Eligible"}) \cup If(b, {"Selected"}) \subseteq {"Eligible", "Selected"}
      BY DEF If
    <2> QED
      BY <2>1, <2>2, OpenSets, CountedFacts DEF CounterNames
  <1>4. outcomes' \in [Outcomes -> Nat]
    BY Zenon, <1>1, <1>2, OpenSets, TallyOutcomeType DEF RecordBegin
  <1>5. life' \in [Flows -> Stages]
    BY Zenon, <1>2, OpenSets DEF Stages, Open
  <1>6. GaugesExact'
    <2>1. OpenFlows' = OpenFlows /\ FaultedFlows' = FaultedFlows
      BY Zenon, <1>2, OpenSets DEF Open, OpenFlows, FaultedFlows
    <2> QED
      BY <1>3, <2>1, OpenSets DEF GaugesExact
  <1> QED
    BY Zenon, <1>1, <1>2, <1>3, <1>4, <1>5, <1>6, RecordBeginInv

LEMMA RecordAppliedInv ==
  ASSUME RecorderInv, NEW f \in Flows, RecordApplied(f)
  PROVE  RecorderInv'
  <1> DEFINE e == Event(f, "fault_applied", FALSE, TRUE, TRUE, "")
  <1>1. e \in Events /\ e.type = "fault_applied"
    BY DEF Event, Events, EventTypes
  <1>2. RecordBegin(e) /\ life[f] = "selected" /\ life' = [life EXCEPT ![f] = "applied"]
    BY Zenon DEF RecordApplied, ApplyFault
  <1>3. /\ counts' \in [CounterNames -> Nat]
        /\ counts'["Written"] = counts["Written"] /\ counts'["Dropped"] = counts["Dropped"]
        /\ counts'["Pending"] = counts["Pending"]
        /\ counts'["Active"] = counts["Active"]
        /\ counts'["ActiveFaults"] = counts["ActiveFaults"] + 1
    <2>1. counts' = Counted({"Applied", "ActiveFaults"}, {})
      BY Zenon, <1>1, <1>2 DEF RecordBegin, Tally, If
    <2> QED
      BY <2>1, OpenSets, CountedFacts DEF CounterNames
  <1>4. outcomes' \in [Outcomes -> Nat]
    BY Zenon, <1>1, <1>2, OpenSets, TallyOutcomeType DEF RecordBegin
  <1>5. life' \in [Flows -> Stages]
    BY Zenon, <1>2, OpenSets DEF Stages, Open
  <1>6. GaugesExact'
    <2>1. /\ OpenFlows' = OpenFlows
          /\ FaultedFlows' = FaultedFlows \cup {f} /\ f \notin FaultedFlows
      BY Zenon, <1>2, OpenSets DEF Open, OpenFlows, FaultedFlows
    <2>2. Cardinality(FaultedFlows') = Cardinality(FaultedFlows) + 1
      BY Zenon, <2>1, OpenSets, FS_AddElement
    <2> QED
      BY <1>3, <2>1, <2>2, OpenSets DEF GaugesExact
  <1> QED
    BY Zenon, <1>1, <1>2, <1>3, <1>4, <1>5, <1>6, RecordBeginInv

LEMMA RecordFinishedInv ==
  ASSUME RecorderInv, NEW f \in Flows, RecordFinished(f)
  PROVE  RecorderInv'
  <1>0. PICK a \in BOOLEAN, o \in Outcomes :
          Finish(f, a) /\ RecordBegin(Event(f, "flow_finished", FALSE, FALSE, a, o))
    BY Zenon DEF RecordFinished
  <1> DEFINE e == Event(f, "flow_finished", FALSE, FALSE, a, o)
  <1>1. e \in Events /\ e.type = "flow_finished" /\ e.applied = a /\ e.outcome = o
    BY Zenon DEF Event, Events, EventTypes
  <1>2. /\ RecordBegin(e) /\ life[f] \in Open /\ (a <=> life[f] = "applied")
        /\ life' = [life EXCEPT ![f] = "done"]
    BY Zenon, <1>0 DEF Finish
  <1>3. f \in OpenFlows /\ counts["Active"] > 0
    <2>1. f \in OpenFlows
      BY <1>2 DEF OpenFlows
    <2> QED
      BY <2>1, OpenSets, FS_EmptySet, FS_CardinalityType
  <1>4. a => f \in FaultedFlows /\ counts["ActiveFaults"] > 0
    <2>1. a => f \in FaultedFlows
      BY <1>2 DEF FaultedFlows
    <2> QED
      BY <2>1, OpenSets, FS_EmptySet, FS_CardinalityType
  <1>5. /\ counts' \in [CounterNames -> Nat]
        /\ counts'["Written"] = counts["Written"] /\ counts'["Dropped"] = counts["Dropped"]
        /\ counts'["Pending"] = counts["Pending"]
        /\ counts'["Active"] = counts["Active"] - 1
        /\ a => counts'["ActiveFaults"] = counts["ActiveFaults"] - 1
        /\ ~a => counts'["ActiveFaults"] = counts["ActiveFaults"]
    <2>1. counts' = Counted({}, {"Active"} \cup If(a, {"ActiveFaults"}))
      BY Zenon, <1>1, <1>2 DEF RecordBegin, Tally, If
    <2>2. CASE a
      <3>1. counts' = Counted({}, {"Active", "ActiveFaults"})
        BY <2>1, <2>2 DEF If
      <3>2. \A n \in CounterNames : n \in {"Active", "ActiveFaults"} => counts[n] > 0
        BY <1>3, <1>4, <2>2
      <3> QED
        BY <2>2, <3>1, <3>2, OpenSets, CountedFacts DEF CounterNames
    <2>3. CASE ~a
      <3>1. counts' = Counted({}, {"Active"})
        BY <2>1, <2>3 DEF If
      <3>2. \A n \in CounterNames : n \in {"Active"} => counts[n] > 0
        BY <1>3
      <3> QED
        BY <2>3, <3>1, <3>2, OpenSets, CountedFacts DEF CounterNames
    <2> QED
      BY <2>2, <2>3
  <1>6. outcomes' \in [Outcomes -> Nat]
    BY Zenon, <1>1, <1>2, OpenSets, TallyOutcomeType DEF RecordBegin
  <1>7. life' \in [Flows -> Stages]
    BY <1>2, OpenSets DEF Stages, Open
  <1>8. GaugesExact'
    <2>1. OpenFlows' = OpenFlows \ {f} /\ FaultedFlows' = FaultedFlows \ {f}
      BY <1>2, OpenSets DEF Open, OpenFlows, FaultedFlows
    <2>2. Cardinality(OpenFlows') = Cardinality(OpenFlows) - 1
      BY Zenon, <1>3, <2>1, OpenSets, FS_RemoveElement
    <2>3. CASE a
      <3>1. Cardinality(FaultedFlows') = Cardinality(FaultedFlows) - 1
        BY Zenon, <1>4, <2>1, <2>3, OpenSets, FS_RemoveElement
      <3> QED
        BY <1>5, <2>2, <2>3, <3>1, OpenSets DEF GaugesExact
    <2>4. CASE ~a
      <3>1. FaultedFlows' = FaultedFlows
        BY <1>2, <2>1, <2>4 DEF FaultedFlows
      <3> QED
        BY <1>5, <2>2, <2>4, <3>1, OpenSets DEF GaugesExact
    <2> QED
      BY <2>3, <2>4
  <1> QED
    BY Zenon, <1>1, <1>2, <1>5, <1>6, <1>7, <1>8, RecordBeginInv

\* The steps of Close touch no counter and no event.
LEMMA CloseInv ==
  ASSUME RecorderInv, NEW c \in Closers,
         CloseCall(c) \/ CloseQueue(c) \/ CloseDone(c) \/ CloseDeadline(c)
  PROVE  RecorderInv'
  <1>0. /\ TypeOK /\ Accounting /\ PendingIsBacklog /\ GaugesExact
        /\ WriterHolds /\ Closing /\ SinkCounted /\ Gapless
    BY DEF RecorderInv
  <1>1. UNCHANGED <<life, counts, outcomes, queue, mu, writer, held, broken, sink, log>>
    BY DEF CloseCall, CloseQueue, CloseDone, CloseDeadline
  <1>2. /\ closed' \in {closed, TRUE} /\ aborted' \in {aborted, TRUE}
        /\ closer[c] = "locking" \/ closed' = closed
        /\ closer[c] = "waiting" \/ aborted' = aborted
    BY Zenon DEF CloseCall, CloseQueue, CloseDone, CloseDeadline
  <1>3. /\ closer' = [closer EXCEPT ![c] = closer'[c]]
        /\ closer'[c] \in {"idle", "locking", "waiting", "nil", "unflushed", "deadline"}
    BY <1>0 DEF CloseCall, CloseQueue, CloseDone, CloseDeadline, TypeOK
  <1>4. TypeOK'
    <2>1. closed' \in BOOLEAN /\ aborted' \in BOOLEAN
      BY <1>0, <1>2, Zenon DEF TypeOK
    <2>2. closer' \in [Closers -> {"idle", "locking", "waiting", "nil", "unflushed", "deadline"}]
      BY Zenon, <1>0, <1>3 DEF TypeOK
    <2> QED
      BY <1>0, <1>1, <2>1, <2>2, Zenon DEF TypeOK
  <1>5. Accounting' /\ PendingIsBacklog' /\ GaugesExact'
    BY <1>0, <1>1 DEF Accounting, PendingIsBacklog, GaugesExact, OpenFlows, FaultedFlows
  <1>6. WriterHolds' /\ SinkCounted' /\ Gapless'
    BY <1>0, <1>1 DEF WriterHolds, SinkCounted, Gapless, Unsunk
  <1>7. Closing'
    <2>1. CASE CloseCall(c)
      BY <1>0, <2>1 DEF CloseCall, Closing, TypeOK
    <2>2. CASE CloseQueue(c)
      BY <1>0, <2>2 DEF CloseQueue, Closing, TypeOK
    <2>3. CASE CloseDone(c)
      <3>1. closed
        BY <1>0, <2>3 DEF CloseDone, Closing
      <3>2. counts["Pending"] = 0 => held = <<>>
        <4>1. counts["Pending"] \in Nat /\ Len(queue) \in Nat /\ Len(held) \in Nat
          BY <1>0, Flat
        <4>2. counts["Pending"] = Len(queue) + Len(held)
          BY <1>0, <2>3, <4>1 DEF CloseDone, PendingIsBacklog, One
        <4>3. held \in Seq(Events)
          BY <1>0 DEF TypeOK
        <4>4. counts["Pending"] = 0 => Len(held) = 0
          BY ONLY <4>1, <4>2
        <4> QED
          BY <4>3, <4>4, EmptySeq
      <3> QED
        BY <1>0, <2>3, <3>1, <3>2 DEF CloseDone, Closing, TypeOK
    <2>4. CASE CloseDeadline(c)
      BY Zenon, <1>0, <2>4 DEF CloseDeadline, Closing, TypeOK
    <2> QED
      BY <2>1, <2>2, <2>3, <2>4
  <1> QED
    BY <1>4, <1>5, <1>6, <1>7 DEF RecorderInv

-----------------------------------------------------------------------------
(* The invariants *)

\* RecorderInv holds initially and every step of Record, of the write goroutine and of
\* Close preserves it, for any number of flows and closers and any queue capacity.
THEOREM RecorderInvariant == Spec => []RecorderInv
  <1>1. Init => RecorderInv
    BY InitInv
  <1>2. RecorderInv /\ [Next]_vars => RecorderInv'
    <2> SUFFICES ASSUME RecorderInv, [Next]_vars PROVE RecorderInv'
      OBVIOUS
    <2>1. ASSUME NEW f \in Flows, Record(f) PROVE RecorderInv'
      BY <2>1, RecordStartedInv, RecordDecisionInv, RecordAppliedInv, RecordFinishedInv, Zenon
         DEF Record
    <2>2. CASE RecordEnd
      BY <2>2, RecordEndInv
    <2>3. CASE Take \/ RangeEnd \/ Encode \/ CountWrite
      BY <2>3, TakeInv, RangeEndInv, EncodeInv, CountWriteInv
    <2>4. ASSUME NEW c \in Closers,
                 CloseCall(c) \/ CloseQueue(c) \/ CloseDone(c) \/ CloseDeadline(c)
          PROVE  RecorderInv'
      BY <2>4, CloseInv, Zenon
    <2>5. CASE UNCHANGED vars
      BY SMTT(40), <2>5 DEF vars, recVars, RecorderInv, TypeOK, Accounting, PendingIsBacklog, GaugesExact,
         OpenFlows, FaultedFlows, WriterHolds, Closing, SinkCounted, Gapless, Unsunk
    <2> QED
      BY <2>1, <2>2, <2>3, <2>4, <2>5, Zenon DEF Next
  <1> QED
    BY <1>1, <1>2, PTL DEF Spec

\* No counter of the recorder ever goes below zero, so none of its uint64 decrements wraps.
THEOREM CountersNeverWrap == Spec => []TypeOK
  <1>1. RecorderInv => TypeOK
    BY DEF RecorderInv
  <1> QED
    BY <1>1, RecorderInvariant, PTL

\* Every recorded event is exactly one of written, dropped and pending.
THEOREM EveryEventAccounted == Spec => []Accounting
  <1>1. RecorderInv => Accounting
    BY DEF RecorderInv
  <1> QED
    BY <1>1, RecorderInvariant, PTL

\* Active and ActiveFaults count the open flows and those whose fault is applied.
THEOREM GaugesAreExact == Spec => []GaugesExact
  <1>1. RecorderInv => GaugesExact
    BY DEF RecorderInv
  <1> QED
    BY <1>1, RecorderInvariant, PTL

\* The counters of Record and write are exact: none wraps, every event is written, dropped
\* or pending, and the gauges agree with the flows under way.
THEOREM CountersAreExact == Spec => []CountersExact
  <1>1. TypeOK /\ Accounting /\ GaugesExact => CountersExact
    BY DEF TypeOK, CountersExact
  <1> QED
    BY <1>1, CountersNeverWrap, EveryEventAccounted, GaugesAreExact, PTL

\* A finished flow adds a key to the outcome map only while there is room for it.
LEMMA TallyKeepsBound ==
  ASSUME TypeOK, OutcomesBounded, NEW e, e.type = "flow_finished" => e.outcome \in Outcomes,
         outcomes' = TallyOutcome(e)
  PROVE  OutcomesBounded'
  <1>1. outcomes \in [Outcomes -> Nat]
    BY DEF TypeOK
  <1>2. IsFiniteSet(OutcomeKeys)
    BY RecorderAssumption, FS_Subset DEF OutcomeKeys
  <1>3. CASE outcomes' = outcomes
    BY <1>3 DEF OutcomesBounded, OutcomeKeys
  <1>4. CASE /\ e.outcome \in Outcomes
             /\ outcomes' = [outcomes EXCEPT ![e.outcome] = @ + 1]
             /\ e.outcome \in OutcomeKeys \/ Cardinality(OutcomeKeys) < MaxOutcomes
    <2>1. OutcomeKeys' = OutcomeKeys \cup {e.outcome}
      BY <1>1, <1>4 DEF OutcomeKeys
    <2>2. Cardinality(OutcomeKeys) \in Nat
      BY <1>2, FS_CardinalityType
    <2>3. CASE e.outcome \in OutcomeKeys
      <3>1. OutcomeKeys' = OutcomeKeys
        BY <2>1, <2>3
      <3> QED
        BY <3>1 DEF OutcomesBounded
    <2>4. CASE e.outcome \notin OutcomeKeys
      <3>1. Cardinality(OutcomeKeys') = Cardinality(OutcomeKeys) + 1
        BY Zenon, <1>2, <2>1, <2>4, FS_AddElement
      <3> QED
        BY <1>4, <2>2, <2>4, <3>1, RecorderAssumption DEF OutcomesBounded
    <2> QED
      BY <2>3, <2>4
  <1> QED
    BY <1>3, <1>4 DEF TallyOutcome

\* The outcome map of Record never holds more than its limit of keys, however many
\* outcomes the adapters report: the number of lines of a summary is bounded.
THEOREM OutcomesStayBounded == Spec => []OutcomesBounded
  <1>1. Init => OutcomesBounded
    <2> SUFFICES ASSUME Init PROVE OutcomesBounded
      OBVIOUS
    <2>1. OutcomeKeys = {}
      BY DEF Init, OutcomeKeys
    <2> QED
      BY <2>1, FS_EmptySet, RecorderAssumption DEF OutcomesBounded
  <1>2. TypeOK /\ OutcomesBounded /\ [Next]_vars => OutcomesBounded'
    <2> SUFFICES ASSUME TypeOK, OutcomesBounded, [Next]_vars PROVE OutcomesBounded'
      OBVIOUS
    <2>1. ASSUME NEW f \in Flows, RecordStarted(f) \/ RecordDecision(f) \/ RecordApplied(f)
          PROVE  outcomes' = outcomes
      BY <2>1, Zenon DEF RecordStarted, RecordDecision, RecordApplied, RecordBegin, TallyOutcome, Event
    <2>2. ASSUME NEW f \in Flows, RecordFinished(f) PROVE OutcomesBounded'
      <3>1. PICK a \in BOOLEAN, o \in Outcomes :
              RecordBegin(Event(f, "flow_finished", FALSE, FALSE, a, o))
        BY Zenon, <2>2 DEF RecordFinished
      <3> DEFINE e == Event(f, "flow_finished", FALSE, FALSE, a, o)
      <3>2. outcomes' = TallyOutcome(e)
        BY <3>1 DEF RecordBegin
      <3>3. e.outcome \in Outcomes
        BY DEF Event
      <3> QED
        BY <3>2, <3>3, TallyKeepsBound, Zenon
    <2>3. CASE RecordEnd \/ Take \/ RangeEnd \/ Encode \/ CountWrite \/ UNCHANGED vars
      <3>1. outcomes' = outcomes
        BY <2>3, Zenon DEF RecordEnd, Take, RangeEnd, Encode, CountWrite, vars, recVars
      <3> QED
        BY <3>1 DEF OutcomesBounded, OutcomeKeys
    <2>4. ASSUME NEW c \in Closers,
                 CloseCall(c) \/ CloseQueue(c) \/ CloseDone(c) \/ CloseDeadline(c)
          PROVE  outcomes' = outcomes
      BY <2>4, Zenon DEF CloseCall, CloseQueue, CloseDone, CloseDeadline
    <2>5. outcomes' = outcomes => OutcomesBounded'
      BY DEF OutcomesBounded, OutcomeKeys
    <2> QED
      BY <2>1, <2>2, <2>3, <2>4, <2>5, Zenon DEF Next, Record
  <1> QED
    BY <1>1, <1>2, CountersNeverWrap, PTL DEF Spec

\* With nothing dropped or pending, the sink holds the recorded events in order.
THEOREM ArtifactIsComplete == Spec => []ArtifactComplete
  <1>1. RecorderInv => ArtifactComplete
    <2> SUFFICES ASSUME RecorderInv, mu = "free", counts["Dropped"] = 0, counts["Pending"] = 0
                 PROVE  sink = log
      BY DEF ArtifactComplete
    <2>1. TypeOK /\ PendingIsBacklog /\ WriterHolds /\ Gapless
      BY DEF RecorderInv
    <2>2. /\ queue \in Seq(Events) /\ held \in Seq(Events) /\ sink \in Seq(Events)
          /\ Len(queue) \in Nat /\ Len(held) \in Nat
      BY <2>1, Flat DEF TypeOK
    <2>3. 0 = Len(queue) + Len(held)
      BY <2>1, <2>2 DEF PendingIsBacklog, One
    <2>4. Len(queue) = 0 /\ Len(held) = 0
      BY ONLY <2>2, <2>3
    <2>5. queue = <<>> /\ held = <<>>
      BY <2>2, <2>4, EmptySeq
    <2>6. Unsunk = <<>> /\ writer # "failed"
      BY <2>1, <2>4, <2>5 DEF Unsunk, WriterHolds
    <2>7. log = (sink \o <<>>) \o <<>>
      BY <2>1, <2>5, <2>6, Zenon DEF Gapless
    <2> QED
      BY <2>2, <2>7, ConcatEmptySeq
  <1> QED
    BY <1>1, RecorderInvariant, PTL

\* Once a Close has returned nil nothing is pending and every event is written or dropped.
THEOREM NilCloseIsFlushed == Spec => []NilMeansFlushed
  <1>1. RecorderInv => NilMeansFlushed
    <2> SUFFICES ASSUME RecorderInv, NEW c \in Closers, closer[c] = "nil"
                 PROVE  /\ counts["Pending"] = 0 /\ queue = <<>>
                        /\ Len(sink) = counts["Written"]
                        /\ Len(log) = Len(sink) + counts["Dropped"] + One(mu # "free")
      BY DEF NilMeansFlushed
    <2>1. TypeOK /\ Accounting /\ PendingIsBacklog /\ Closing /\ SinkCounted
      BY DEF RecorderInv
    <2>2. writer = "exited" /\ held = <<>> /\ queue = <<>> /\ closed /\ mu # "sent"
      BY <2>1, Zenon DEF Closing
    <2>3. /\ counts["Written"] \in Nat /\ counts["Dropped"] \in Nat /\ counts["Pending"] \in Nat
          /\ Len(sink) \in Nat /\ Len(log) \in Nat
      BY <2>1, Flat
    <2>4. counts["Pending"] = 0
      BY <2>1, <2>2, <2>3 DEF PendingIsBacklog, One
    <2>5. Len(sink) = counts["Written"]
      BY <2>1, <2>2, <2>3 DEF SinkCounted, One
    <2> QED
      BY <2>1, <2>2, <2>3, <2>4, <2>5 DEF Accounting, One
  <1> QED
    BY <1>1, RecorderInvariant, PTL
=============================================================================
