--------------------------- MODULE ControlProofs ---------------------------
(***************************************************************************)
(* ControlInv is inductive, for any documents, rules, flows, editors and   *)
(* bounds; the properties of Control follow from it.                       *)
(***************************************************************************)
EXTENDS Control, FiniteSetTheorems, SequenceTheorems, TLAPS

-----------------------------------------------------------------------------
(* Arithmetic: the quotient of every's counter moves exactly on multiples. *)

LEMMA QuotientUnique ==
  ASSUME NEW k \in Nat \ {0}, NEW q \in Nat, NEW p \in Nat,
         NEW r \in 0 .. (k - 1), NEW s \in 0 .. (k - 1), k * q + r = k * p + s
  PROVE  q = p /\ r = s
  <1>1. ASSUME NEW a \in Nat, NEW b \in Nat, a < b, NEW t \in 0 .. (k - 1), NEW u \in 0 .. (k - 1)
        PROVE  k * a + t # k * b + u
    <2>1. b - a - 1 \in Nat /\ b = a + 1 + (b - a - 1)
      BY <1>1
    <2>2. PICK d \in Nat : b = a + 1 + d
      BY <2>1
    <2>3. k * b = k * a + k + k * d
      BY <2>2
    <2>4. k * d >= 0
      OBVIOUS
    <2> QED
      BY <2>3, <2>4
  <1> QED
    BY <1>1

LEMMA DivMod ==
  ASSUME NEW m \in Nat, NEW k \in Nat \ {0}
  PROVE  m \div k \in Nat /\ m % k \in 0 .. (k - 1) /\ m = k * (m \div k) + (m % k)
  OBVIOUS

LEMMA DivStep ==
  ASSUME NEW m \in Nat, NEW k \in Nat \ {0}
  PROVE  (m + 1) \div k = (m \div k) + One((m + 1) % k = 0)
  <1> DEFINE q == m \div k
             r == m % k
             p == (m + 1) \div k
             s == (m + 1) % k
  <1>1. q \in Nat /\ r \in 0 .. (k - 1) /\ m = k * q + r
    BY Zenon, DivMod
  <1>2. p \in Nat /\ s \in 0 .. (k - 1) /\ m + 1 = k * p + s
    <2>1. m + 1 \in Nat
      OBVIOUS
    <2> QED
      BY ONLY Zenon, <2>1, DivMod, k \in Nat \ {0}
  <1> HIDE DEF q, r, p, s
  <1>3. CASE r = k - 1
    <2>1. k * (q + 1) = k * q + k
      BY <1>1
    <2>2. m + 1 = k * (q + 1) + 0
      BY <1>1, <1>3, <2>1
    <2>3. p = q + 1 /\ s = 0
      BY <1>1, <1>2, <2>2, QuotientUnique
    <2> QED
      BY <2>3 DEF p, q, s, One
  <1>4. CASE r # k - 1
    <2>1. r + 1 \in 0 .. (k - 1) /\ m + 1 = k * q + (r + 1)
      BY <1>1, <1>4
    <2>2. p = q /\ s = r + 1
      BY <1>1, <1>2, <2>1, QuotientUnique
    <2>3. s # 0
      BY <1>1, <2>2
    <2> QED
      BY <1>1, <2>2, <2>3 DEF p, q, s, One
  <1> QED
    BY <1>3, <1>4

-----------------------------------------------------------------------------
(* The initial state *)

\* No selector has selected anything before the first eligible flow.
LEMMA StartsExact ==
  ASSUME NEW r, r.n \in Nat \ {0}
  PROVE  SelectedExactly(r, 0, 0)
  <1>1. 0 \div r.n = 0
    OBVIOUS
  <1> QED
    BY <1>1 DEF SelectedExactly, One

LEMMA InitInv == Init => ControlInv
  <1> SUFFICES ASSUME Init PROVE ControlInv
    OBVIOUS
  <1>0. /\ MaxRevision \in Nat \ {0} /\ MaxSequence \in Nat /\ MaxRules \in Nat
        /\ 1 \in Objects /\ 1 \in 0 .. MaxRevision /\ 0 \in 0 .. MaxRevision
        /\ 0 \in 0 .. MaxSequence /\ 0 \in 0 .. MaxRules
    BY ControlAssumption DEF Objects
  <1>1. PICK d \in Documents : docs = <<d>>
    BY DEF Init
  <1>2. /\ docs \in Seq(Documents) /\ Len(docs) = 1 /\ docs[1] = d
        /\ basis \in Seq(0 .. MaxRevision) /\ Len(basis) = 1
    BY <1>0, <1>1 DEF Init
  <1>3. TypeOK
    <2>1. active \in Snapshots /\ snap \in [Flows -> Snapshots]
      BY <1>0 DEF Init, Snapshot, Snapshots
    <2>2. decision \in [Flows -> Decisions]
      BY <1>0 DEF Init, Decision, Decisions
    <2>3. eligible \in Counter /\ selected \in Counter /\ drawn \in Counter
      BY DEF Init, Counter
    <2>4. /\ mu \in {"free", "persist"} /\ mu # "persist"
          /\ stage \in [Flows -> {"idle", "pinned", "decided"}]
          /\ base \in [Editors -> 0 .. MaxRevision]
      BY <1>0 DEF Init
    <2>5. asked \in BOOLEAN /\ managed \in BOOLEAN
      BY Zenon DEF Init
    <2> QED
      BY <1>2, <2>1, <2>2, <2>3, <2>4, <2>5 DEF TypeOK
  <1>4. Aligned /\ NoLostUpdate
    BY <1>0, <1>2 DEF Init, Aligned, NoLostUpdate, Snapshot
  <1>5. PinsBehind /\ Undecided /\ DecidedBySequence
    BY DEF Init, PinsBehind, Undecided, DecidedBySequence, Decision
  <1>6. SnapshotsConsistent
    <2>1. Pins = {}
      BY Zenon DEF Init, Pins
    <2>2. active.sequence = 0 /\ active.revision = 1
      BY DEF Init, Snapshot
    <2> QED
      BY <2>1, <2>2 DEF SnapshotsConsistent
  <1>7. EnabledAsAsked
    BY Zenon DEF Init, EnabledAsAsked, Snapshot
  <1>8. CountersStart /\ DrawnInStep
    <2>1. \A e \in Objects, j \in RuleIndex :
            eligible[e][j] = 0 /\ selected[e][j] = 0 /\ drawn[e][j] = 0
      BY DEF Init
    <2>2. \A e \in 1 .. Len(docs) : e \in Objects /\ DOMAIN Rules[docs[e]] \subseteq RuleIndex
      BY <1>0, <1>2, ControlAssumption
    <2> QED
      BY <2>1, <2>2 DEF CountersStart, DrawnInStep
  <1>9. SequencesExact
    <2> SUFFICES ASSUME NEW e \in Objects, NEW j \in RuleIndex PROVE Numbered(e, j)
      BY DEF SequencesExact
    <2>1. OwnedBy(e, j) = {}
      BY DEF Init, OwnedBy
    <2>2. eligible[e][j] = 0 /\ selected[e][j] = 0
      BY DEF Init
    <2> QED
      BY <2>1, <2>2, FS_EmptySet DEF Numbered
  <1>10. SelectorsExact
    <2> SUFFICES ASSUME NEW e \in DOMAIN docs, NEW j \in DOMAIN Rules[docs[e]]
                 PROVE  SelectedExactly(Rules[docs[e]][j], eligible[e][j], selected[e][j])
      BY DEF SelectorsExact
    <2>1. e = 1 /\ docs[e] \in Documents
      BY <1>1, <1>2
    <2>2. Rules[docs[e]][j].n \in Nat \ {0} /\ j \in RuleIndex
      BY <2>1, ControlAssumption DEF IsRule
    <2>3. eligible[e][j] = 0 /\ selected[e][j] = 0
      BY <1>0, <2>1, <2>2 DEF Init
    <2> QED
      BY <2>2, <2>3, StartsExact
  <1> QED
    BY <1>3, <1>4, <1>5, <1>6, <1>7, <1>8, <1>9, <1>10 DEF ControlInv

-----------------------------------------------------------------------------
(* Steps that leave the counters alone *)

\* The type invariant and the alignment in the flat form the steps below use.
LEMMA Flat ==
  ASSUME ControlInv
  PROVE  /\ docs \in Seq(Documents) /\ basis \in Seq(0 .. MaxRevision)
         /\ MaxRevision \in Nat \ {0} /\ MaxSequence \in Nat /\ MaxRules \in Nat
         /\ Len(docs) \in 1 .. MaxRevision /\ Len(basis) = Len(docs)
         /\ active \in Snapshots /\ active.revision = Len(docs) /\ active.object = Len(docs)
         /\ active.sequence \in 0 .. MaxSequence
         /\ eligible \in Counter /\ selected \in Counter /\ drawn \in Counter
         /\ mu \in {"free", "persist"} /\ (mu = "persist" => call \in Calls)
         /\ stage \in [Flows -> {"idle", "pinned", "decided"}]
         /\ snap \in [Flows -> Snapshots] /\ decision \in [Flows -> Decisions]
         /\ base \in [Editors -> 0 .. MaxRevision]
  BY ControlAssumption DEF ControlInv, TypeOK, Aligned, Objects, Snapshots

\* The properties of flows and counters depend only on the documents, the counters and
\* the flows; they hold trivially for a step that changes none of these.
LEMMA FlowsKept ==
  ASSUME ControlInv, UNCHANGED <<docs, counters, flows>>
  PROVE  /\ Undecided' /\ CountersStart' /\ DrawnInStep' /\ DecidedBySequence'
         /\ SequencesExact' /\ SelectorsExact'
  <1>1. /\ Undecided /\ CountersStart /\ DrawnInStep /\ DecidedBySequence
        /\ SequencesExact /\ SelectorsExact
    BY DEF ControlInv
  <1>2. /\ docs' = docs /\ eligible' = eligible /\ selected' = selected /\ drawn' = drawn
        /\ stage' = stage /\ snap' = snap /\ decision' = decision
    BY DEF counters, flows
  <1>3. Undecided' /\ CountersStart' /\ DrawnInStep'
    BY <1>1, <1>2, Zenon DEF Undecided, CountersStart, DrawnInStep
  <1>4. DecidedBySequence'
    BY ONLY <1>1, <1>2 DEF DecidedBySequence
  <1>5. SelectorsExact'
    BY ONLY <1>1, <1>2 DEF SelectorsExact
  <1>6. SequencesExact'
    <2> SUFFICES ASSUME NEW e \in Objects, NEW i \in RuleIndex PROVE Numbered(e, i)'
      BY DEF SequencesExact
    <2>1. Numbered(e, i)
      BY <1>1 DEF SequencesExact
    <2> QED
      BY ONLY <1>2, <2>1 DEF Numbered, OwnedBy
  <1> QED
    BY <1>3, <1>4, <1>5, <1>6

\* A step that changes nothing but the lock, the call and what editors have read.
LEMMA QuietInv ==
  ASSUME ControlInv, managed' = managed, UNCHANGED <<active, docs, counters, flows, history>>,
         mu' \in {"free", "persist"}, base' \in [Editors -> 0 .. MaxRevision],
         mu' = "persist" =>
           /\ call' \in Calls
           /\ call'.changed =>
                CanBump /\ call'.info = NextInfo /\ call'.from = active.revision
  PROVE  ControlInv'
  <1>1. /\ TypeOK /\ Aligned /\ PinsBehind /\ SnapshotsConsistent /\ NoLostUpdate
        /\ EnabledAsAsked
    BY DEF ControlInv
  <1>2. /\ active' = active /\ docs' = docs /\ eligible' = eligible /\ selected' = selected
        /\ drawn' = drawn /\ stage' = stage /\ snap' = snap /\ decision' = decision
        /\ basis' = basis /\ asked' = asked
    BY Zenon DEF counters, flows, history
  <1>3. TypeOK'
    BY <1>1, <1>2 DEF TypeOK
  <1>4. Aligned'
    BY <1>1, <1>2 DEF Aligned, CanBump, NextInfo
  <1>5. PinsBehind' /\ SnapshotsConsistent' /\ NoLostUpdate' /\ EnabledAsAsked'
    BY <1>1, <1>2 DEF PinsBehind, SnapshotsConsistent, Pins, NoLostUpdate, EnabledAsAsked
  <1> QED
    BY <1>3, <1>4, <1>5, FlowsKept DEF ControlInv

LEMMA ReadConfigInv ==
  ASSUME ControlInv, managed' = managed, NEW x \in Editors, ReadConfig(x)
  PROVE  ControlInv'
  <1>1. base' \in [Editors -> 0 .. MaxRevision] /\ mu' = "free"
    BY Flat DEF ReadConfig
  <1> QED
    BY <1>1, QuietInv DEF ReadConfig

LEMMA NextInfoType ==
  ASSUME ControlInv, CanBump
  PROVE  NextInfo \in Snapshots
  <1>1. /\ active.revision + 1 \in 0 .. MaxRevision /\ Len(docs) + 1 \in 0 .. MaxRevision
        /\ active.sequence + 1 \in 0 .. MaxSequence
    <2>1. /\ active.revision = Len(docs) /\ Len(docs) \in 1 .. MaxRevision /\ MaxRevision \in Nat \ {0}
          /\ active.sequence \in 0 .. MaxSequence /\ MaxSequence \in Nat
          /\ active.revision < MaxRevision /\ active.sequence < MaxSequence
      BY Zenon, Flat DEF CanBump
    <2> QED
      BY ONLY <2>1
  <1>2. active.enabled \in BOOLEAN
    BY Flat DEF Snapshots
  <1> QED
    BY <1>1, <1>2 DEF NextInfo, Snapshot, Snapshots

LEMMA ApplyRevisionInv ==
  ASSUME ControlInv, managed' = managed, NEW x \in Editors, NEW d \in Documents, ApplyRevision(x, d)
  PROVE  ControlInv'
  <1>1. /\ mu' = "persist" /\ base[x] = active.revision
        /\ UNCHANGED <<active, docs, counters, flows, base, history>>
        /\ \/ call' = Call(active, d, base[x], FALSE)
           \/ CanBump /\ call' = Call(NextInfo, d, base[x], TRUE)
    BY Zenon DEF ApplyRevision
  <1>2. base[x] \in 0 .. MaxRevision /\ active \in Snapshots
    BY Flat
  <1>3. call' \in Calls /\ (call'.changed => CanBump /\ call'.info = NextInfo /\ call'.from = active.revision)
    <2>1. CASE call' = Call(active, d, base[x], FALSE)
      BY <1>2, <2>1, Zenon DEF Call, Calls
    <2>2. CASE CanBump /\ call' = Call(NextInfo, d, base[x], TRUE)
      BY <1>1, <1>2, <2>2, NextInfoType DEF Call, Calls
    <2> QED
      BY Zenon, <1>1, <2>1, <2>2
  <1>4. base' \in [Editors -> 0 .. MaxRevision]
    BY <1>1, Flat
  <1> QED
    BY <1>1, <1>3, <1>4, QuietInv

\* A step to a new active snapshot with a later control sequence keeps every pinned
\* snapshot behind it and apart from it.
LEMMA NewActive ==
  ASSUME ControlInv, UNCHANGED <<stage, snap>>,
         active'.sequence = active.sequence + 1, active'.sequence \in Nat,
         Len(docs') >= Len(docs), Len(docs') \in Nat,
         active'.revision = Len(docs'), active'.object = Len(docs')
  PROVE  PinsBehind' /\ SnapshotsConsistent'
  <1>1. PinsBehind /\ SnapshotsConsistent
    BY DEF ControlInv
  <1>2. \A f \in Flows : stage[f] # "idle" =>
          /\ snap[f].object \in 1 .. Len(docs) /\ snap[f].revision = snap[f].object
          /\ snap[f].sequence \in Nat /\ snap[f].sequence < active'.sequence
    <2> SUFFICES ASSUME NEW f \in Flows, stage[f] # "idle"
                 PROVE  /\ snap[f].object \in 1 .. Len(docs) /\ snap[f].revision = snap[f].object
                        /\ snap[f].sequence \in Nat /\ snap[f].sequence < active'.sequence
      OBVIOUS
    <2>1. snap[f].sequence \in 0 .. MaxSequence /\ MaxSequence \in Nat
      BY Flat DEF Snapshots
    <2>2. snap[f].sequence <= active.sequence /\ active.sequence \in Nat
      BY <1>1, Flat DEF PinsBehind
    <2>3. snap[f].object \in 1 .. Len(docs) /\ snap[f].revision = snap[f].object
      BY <1>1 DEF PinsBehind
    <2> QED
      BY <2>1, <2>2, <2>3
  <1>3. PinsBehind'
    <2>1. /\ stage' = stage /\ snap' = snap /\ Len(docs) \in Nat /\ Len(docs') \in Nat
          /\ Len(docs') >= Len(docs) /\ active'.sequence \in Nat
      BY Flat
    <2> QED
      BY ONLY <1>2, <2>1 DEF PinsBehind
  <1>4. SnapshotsConsistent'
    <2>1. Pins' = Pins
      BY DEF Pins
    <2>2. \A s \in Pins : /\ s.object \in 1 .. Len(docs) /\ s.revision = s.object
                          /\ s.sequence \in Nat /\ s.sequence < active'.sequence
      BY <1>2 DEF Pins
    <2>3. \A s, t \in Pins :
            /\ s.sequence = t.sequence => s = t
            /\ s.revision = t.revision <=> s.object = t.object
            /\ s.revision < t.revision => s.sequence < t.sequence
      BY <1>1 DEF SnapshotsConsistent
    <2>4. \A s \in Pins :
            /\ s.sequence # active'.sequence
            /\ s.revision = active'.revision <=> s.object = active'.object
            /\ s.sequence < active'.sequence /\ ~(active'.revision < s.revision)
      <3>1. Len(docs) \in Nat
        BY Flat
      <3>2. /\ active'.sequence \in Nat /\ Len(docs') >= Len(docs) /\ Len(docs') \in Nat
            /\ active'.revision = Len(docs') /\ active'.object = Len(docs')
        BY Zenon
      <3> QED
        BY ONLY <2>2, <3>1, <3>2
    <2>5. ~(active'.revision < active'.revision)
      OBVIOUS
    <2> SUFFICES ASSUME NEW s \in Pins \cup {active'}, NEW t \in Pins \cup {active'}
                 PROVE  /\ s.sequence = t.sequence => s = t
                        /\ s.revision = t.revision <=> s.object = t.object
                        /\ s.revision < t.revision => s.sequence < t.sequence
      BY <2>1 DEF SnapshotsConsistent
    <2>6. CASE s \in Pins /\ t \in Pins
      BY <2>3, <2>6
    <2>7. CASE s \in Pins /\ t = active'
      BY <2>4, <2>7
    <2>8. CASE s = active' /\ t \in Pins
      BY <2>4, <2>8
    <2>9. CASE s = active' /\ t = active'
      BY <2>5, <2>9
    <2> QED
      BY <2>6, <2>7, <2>8, <2>9
  <1> QED
    BY <1>3, <1>4

LEMMA SetEnabledInv ==
  ASSUME ControlInv, managed' = managed, NEW b \in BOOLEAN, SetEnabled(b)
  PROVE  ControlInv'
  <1>1. /\ mu = "free" /\ mu' = mu /\ asked' = b /\ basis' = basis /\ base' = base
        /\ UNCHANGED <<docs, counters, flows>> /\ docs' = docs /\ call' = call
        /\ stage' = stage /\ snap' = snap
    BY DEF SetEnabled, flows
  <1>2. TypeOK /\ Aligned /\ PinsBehind /\ SnapshotsConsistent /\ NoLostUpdate
    BY DEF ControlInv
  <1>3. CASE active.enabled = b /\ active' = active
    <2>1. TypeOK'
      BY <1>1, <1>2, <1>3, Zenon DEF TypeOK, counters, flows
    <2>2. Aligned'
      BY <1>1, <1>2, <1>3 DEF Aligned
    <2>3. PinsBehind' /\ SnapshotsConsistent' /\ NoLostUpdate'
      BY <1>1, <1>2, <1>3 DEF PinsBehind, SnapshotsConsistent, Pins, NoLostUpdate
    <2>4. EnabledAsAsked'
      BY <1>1, <1>3, Zenon DEF EnabledAsAsked
    <2> QED
      BY <1>1, <2>1, <2>2, <2>3, <2>4, FlowsKept DEF ControlInv
  <1>4. CASE /\ active.sequence < MaxSequence
             /\ active' = Snapshot(active.revision, b, active.sequence + 1, active.object)
    <2>1. /\ active'.revision = Len(docs) /\ active'.object = Len(docs)
          /\ active'.sequence = active.sequence + 1 /\ active'.sequence \in 0 .. MaxSequence
      <3>1. /\ active.revision = Len(docs) /\ active.object = Len(docs)
            /\ active.sequence \in 0 .. MaxSequence /\ MaxSequence \in Nat
        BY Zenon, Flat
      <3> QED
        BY ONLY <1>4, <3>1 DEF Snapshot
    <2>2. active' \in Snapshots
      <3>1. active.revision \in 0 .. MaxRevision /\ active.sequence + 1 \in 0 .. MaxSequence
        <4>1. /\ active.revision = Len(docs) /\ Len(docs) \in 1 .. MaxRevision /\ MaxRevision \in Nat \ {0}
              /\ active.sequence \in 0 .. MaxSequence /\ MaxSequence \in Nat
              /\ active.sequence < MaxSequence
          BY Zenon, <1>4, Flat
        <4> QED
          BY ONLY <4>1
      <3> QED
        BY <1>4, <3>1, Flat DEF Snapshot, Snapshots
    <2>3. TypeOK'
      BY <1>1, <1>2, <2>2 DEF TypeOK, counters, flows
    <2>4. Aligned' /\ NoLostUpdate'
      BY Zenon, <1>1, <1>2, <2>1 DEF Aligned, NoLostUpdate
    <2>5. PinsBehind' /\ SnapshotsConsistent'
      BY <1>1, <2>1, NewActive, Flat
    <2>6. EnabledAsAsked'
      BY <1>1, <1>4 DEF EnabledAsAsked, Snapshot
    <2> QED
      BY <1>1, <2>3, <2>4, <2>5, <2>6, FlowsKept DEF ControlInv
  <1> QED
    BY <1>3, <1>4 DEF SetEnabled

\* Publication: Apply's last step and PersistOk's.  The new object's counters are zero.
LEMMA PublishInv ==
  ASSUME ControlInv, managed' = managed, CanBump, NEW d \in Documents, NEW from \in 0 .. MaxRevision,
         from = active.revision,
         Publish(NextInfo, d, from), mu' = "free",
         UNCHANGED <<counters, flows, base, asked>>
  PROVE  ControlInv'
  <1> DEFINE n == Len(docs)
  <1>1. /\ active' = NextInfo /\ docs' = Append(docs, d) /\ basis' = Append(basis, from)
        /\ eligible' = eligible /\ selected' = selected /\ drawn' = drawn
        /\ stage' = stage /\ snap' = snap /\ decision' = decision /\ base' = base /\ asked' = asked
    BY DEF Publish, counters, flows
  <1>2. /\ TypeOK /\ Aligned /\ PinsBehind /\ NoLostUpdate /\ EnabledAsAsked /\ Undecided
        /\ CountersStart /\ DrawnInStep /\ DecidedBySequence /\ SequencesExact /\ SelectorsExact
    BY DEF ControlInv
  <1>3. /\ docs' \in Seq(Documents) /\ Len(docs') = n + 1 /\ docs'[n + 1] = d
        /\ \A e \in 1 .. n : docs'[e] = docs[e]
        /\ basis' \in Seq(0 .. MaxRevision) /\ Len(basis') = n + 1 /\ basis'[n + 1] = from
        /\ \A e \in 1 .. n : basis'[e] = basis[e]
    BY <1>1, Flat, AppendProperties
  <1>4. n + 1 \in Objects /\ n \in Nat /\ n \in Objects
    BY Flat DEF CanBump, Objects
  <1>5. /\ active'.revision = n + 1 /\ active'.object = n + 1
        /\ active'.sequence = active.sequence + 1 /\ active'.enabled = active.enabled
    BY <1>1, Flat, Zenon DEF NextInfo, Snapshot
  <1>6. TypeOK'
    <2>1. active' \in Snapshots
      BY <1>1, NextInfoType, Zenon
    <2> QED
      BY Zenon, <1>1, <1>2, <1>3, <2>1 DEF TypeOK
  <1>7. Aligned'
    BY <1>3, <1>4, <1>5 DEF Aligned
  <1>8. PinsBehind' /\ SnapshotsConsistent'
    <2>1. /\ active'.sequence \in Nat /\ Len(docs') >= Len(docs) /\ Len(docs') \in Nat
          /\ active'.revision = Len(docs') /\ active'.object = Len(docs')
      <3>1. active.sequence \in Nat
        BY Flat
      <3> QED
        BY ONLY <1>3, <1>4, <1>5, <3>1
    <2> QED
      BY <1>1, <1>5, <2>1, NewActive
  <1>9. NoLostUpdate'
    <2> SUFFICES ASSUME NEW r \in 2 .. (n + 1) PROVE basis'[r] = r - 1
      BY <1>3 DEF NoLostUpdate
    <2>1. CASE r = n + 1
      <3>1. basis'[r] = n /\ n \in Nat
        BY Zenon, <1>3, <1>4, <2>1, Flat
      <3> QED
        BY ONLY <2>1, <3>1
    <2>2. CASE r # n + 1
      <3>1. r \in 2 .. n /\ r \in 1 .. n /\ Len(basis) = n
        BY <1>4, <2>2, Flat
      <3> QED
        BY <1>2, <1>3, <3>1 DEF NoLostUpdate
    <2> QED
      BY <2>1, <2>2
  <1>10. EnabledAsAsked'
    BY <1>1, <1>2, <1>5, Zenon DEF EnabledAsAsked
  <1>11. Undecided' /\ CountersStart'
    <2>1. Undecided'
      BY Zenon, <1>1, <1>2 DEF Undecided
    <2>2. ASSUME NEW e \in Objects, NEW i \in RuleIndex, e > Len(docs')
          PROVE  eligible'[e][i] = 0 /\ selected'[e][i] = 0 /\ drawn'[e][i] = 0
      <3>1. Len(docs') = n + 1 /\ n \in Nat /\ MaxRevision \in Nat \ {0}
        BY Zenon, <1>3, <1>4, Flat
      <3>2. e > Len(docs)
        BY ONLY <2>2, <3>1 DEF Objects
      <3> QED
        BY Zenon, <1>1, <1>2, <3>2 DEF CountersStart
    <2>3. CountersStart'
      BY ONLY Zenon, <2>2 DEF CountersStart
    <2> QED
      BY Zenon, <2>1, <2>3
  <1>12. SequencesExact'
    <2> SUFFICES ASSUME NEW e \in Objects, NEW i \in RuleIndex PROVE Numbered(e, i)'
      BY DEF SequencesExact
    <2>1. Numbered(e, i)
      BY <1>2, Zenon DEF SequencesExact
    <2> QED
      BY <1>1, <2>1 DEF Numbered, OwnedBy
  <1>13. DecidedBySequence'
    <2> SUFFICES ASSUME NEW f \in Flows, stage[f] = "decided", decision[f].rule # 0
                 PROVE  /\ decision[f].seq # 0
                        /\ decision[f].rule \in DOMAIN Rules[docs'[snap[f].object]]
                        /\ selectAttempt(Rules[docs'[snap[f].object]][decision[f].rule],
                                         decision[f].seq, decision[f].seq - 1, decision[f].selected)
      BY ZenonT(40), <1>1 DEF DecidedBySequence
    <2>1. docs'[snap[f].object] = docs[snap[f].object]
      BY Zenon, <1>2, <1>3 DEF PinsBehind
    <2> QED
      BY Zenon, <1>2, <2>1 DEF DecidedBySequence
  <1>14. \A i \in RuleIndex : eligible[n + 1][i] = 0 /\ selected[n + 1][i] = 0 /\ drawn[n + 1][i] = 0
    BY <1>2, <1>4 DEF CountersStart
  <1>15. DOMAIN Rules[d] \subseteq RuleIndex /\ \A i \in DOMAIN Rules[d] : Rules[d][i].n \in Nat \ {0}
    BY ControlAssumption DEF IsRule
  <1>16. DrawnInStep'
    <2>1. ASSUME NEW e \in 1 .. (n + 1), NEW i \in DOMAIN Rules[docs'[e]],
                 Rules[docs'[e]][i].kind = "random"
          PROVE  drawn[e][i] = eligible[e][i]
      <3>1. CASE e = n + 1
        <4>1. docs'[e] = d
          BY <1>3, <3>1
        <4>2. i \in RuleIndex
          BY <1>15, <4>1, Zenon
        <4> QED
          BY ONLY <1>14, <3>1, <4>2
      <3>2. CASE e \in 1 .. n
        BY <1>2, <1>3, <2>1, <3>2 DEF DrawnInStep
      <3> QED
        BY <1>4, <3>1, <3>2
    <2>2. drawn' = drawn /\ eligible' = eligible /\ Len(docs') = n + 1
      BY ONLY <1>1, <1>3, Zenon
    <2> HIDE DEF n
    <2> QED
      BY ONLY Zenon, <2>1, <2>2 DEF DrawnInStep
  <1>17. SelectorsExact'
    <2> SUFFICES ASSUME NEW e \in 1 .. (n + 1), NEW i \in DOMAIN Rules[docs'[e]]
                 PROVE  SelectedExactly(Rules[docs'[e]][i], eligible[e][i], selected[e][i])
      <3>1. DOMAIN docs' = 1 .. (n + 1)
        BY <1>3
      <3> QED
        BY Zenon, <1>1, <3>1 DEF SelectorsExact
    <2>1. CASE e = n + 1
      <3>1. /\ docs'[e] = d /\ Rules[docs'[e]][i].n \in Nat \ {0}
            /\ eligible[e][i] = 0 /\ selected[e][i] = 0
        BY <1>3, <1>14, <1>15, <2>1, Zenon
      <3> QED
        BY <3>1, StartsExact, Zenon
    <2>2. CASE e \in 1 .. n
      <3>1. docs'[e] = docs[e] /\ e \in DOMAIN docs
        BY <1>3, <2>2, Flat
      <3> QED
        BY <1>2, <3>1, Zenon DEF SelectorsExact
    <2> QED
      <3>1. e = n + 1 \/ e \in 1 .. n
        BY ONLY <1>4, e \in 1 .. (n + 1)
      <3> QED
        BY Zenon, <2>1, <2>2, <3>1
  <1> QED
    BY <1>6, <1>7, <1>8, <1>9, <1>10, <1>11, <1>12, <1>13, <1>16, <1>17 DEF ControlInv

LEMMA ApplyInv ==
  ASSUME ControlInv, managed' = managed, NEW d \in Documents, Apply(d)
  PROVE  ControlInv'
  <1>1. /\ mu' = "free" /\ CanBump /\ Publish(NextInfo, d, active.revision)
        /\ UNCHANGED <<counters, flows, base, asked>>
    BY DEF Apply
  <1>2. active.revision \in 0 .. MaxRevision
    BY Flat
  <1> QED
    BY <1>1, <1>2, PublishInv

LEMMA PersistInv ==
  ASSUME ControlInv, managed' = managed, PersistOk \/ PersistError
  PROVE  ControlInv'
  <1>1. mu = "persist" /\ mu' = "free" /\ Aligned /\ base' = base /\ call \in Calls
    BY Flat DEF PersistOk, PersistError, ControlInv
  <1>2. base' \in [Editors -> 0 .. MaxRevision]
    BY <1>1, Flat
  <1>3. CASE call.changed /\ PersistOk
    <2>1. CanBump /\ call.info = NextInfo /\ call.from = active.revision
      BY <1>1, <1>3 DEF Aligned
    <2>2. call.doc \in Documents /\ call.from \in 0 .. MaxRevision
      BY <1>1 DEF Calls
    <2>3. Publish(NextInfo, call.doc, call.from) /\ UNCHANGED <<counters, flows, base, asked>>
      BY <1>3, <2>1 DEF PersistOk
    <2> QED
      BY <1>1, <2>1, <2>2, <2>3, PublishInv
  <1>4. CASE ~call.changed /\ PersistOk
    <2>1. UNCHANGED <<active, docs, counters, flows, history>>
      BY <1>4 DEF PersistOk, history
    <2> QED
      BY <1>1, <1>2, <2>1, QuietInv
  <1>5. CASE PersistError
    <2>1. UNCHANGED <<active, docs, counters, flows, history>>
      BY <1>5 DEF PersistError
    <2> QED
      BY <1>1, <1>2, <2>1, QuietInv
  <1> QED
    BY <1>3, <1>4, <1>5

-----------------------------------------------------------------------------
(* Flows *)

LEMMA AcquireInv ==
  ASSUME ControlInv, managed' = managed, NEW f \in Flows, Acquire(f)
  PROVE  ControlInv'
  <1>1. /\ stage[f] = "idle" /\ stage' = [stage EXCEPT ![f] = "pinned"]
        /\ snap' = [snap EXCEPT ![f] = active] /\ decision' = decision
        /\ active' = active /\ docs' = docs /\ mu' = mu /\ call' = call /\ base' = base
        /\ eligible' = eligible /\ selected' = selected /\ drawn' = drawn
        /\ basis' = basis /\ asked' = asked
    BY DEF Acquire, counters, history
  <1>2. /\ TypeOK /\ Aligned /\ PinsBehind /\ SnapshotsConsistent /\ NoLostUpdate /\ EnabledAsAsked
        /\ Undecided /\ CountersStart /\ DrawnInStep /\ DecidedBySequence /\ SequencesExact
        /\ SelectorsExact
    BY DEF ControlInv
  <1>3. /\ stage'[f] = "pinned" /\ snap'[f] = active
        /\ \A g \in Flows : g # f => stage'[g] = stage[g] /\ snap'[g] = snap[g]
    BY <1>1, Flat
  <1>4. TypeOK'
    <2>1. stage' \in [Flows -> {"idle", "pinned", "decided"}] /\ snap' \in [Flows -> Snapshots]
      BY <1>1, Flat
    <2> QED
      BY <1>1, <1>2, <2>1 DEF TypeOK
  <1>5. Aligned' /\ NoLostUpdate' /\ EnabledAsAsked'
    BY <1>1, <1>2, Zenon DEF Aligned, CanBump, NextInfo, NoLostUpdate, EnabledAsAsked
  <1>6. PinsBehind'
    <2> SUFFICES ASSUME NEW g \in Flows, stage'[g] # "idle"
                 PROVE  /\ snap'[g].object \in 1 .. Len(docs) /\ snap'[g].revision = snap'[g].object
                        /\ snap'[g].sequence <= active.sequence
                        /\ snap'[g].sequence = active.sequence => snap'[g] = active
      BY <1>1, Zenon DEF PinsBehind
    <2>1. CASE g = f
      <3>1. /\ active.revision = Len(docs) /\ active.object = Len(docs) /\ snap'[g] = active
            /\ Len(docs) \in 1 .. MaxRevision /\ MaxRevision \in Nat \ {0}
            /\ active.sequence \in 0 .. MaxSequence /\ MaxSequence \in Nat
        BY Zenon, <1>3, <2>1, Flat
      <3> QED
        BY ONLY <3>1
    <2>2. CASE g # f
      BY <1>2, <1>3, <2>2, Zenon DEF PinsBehind
    <2> QED
      BY <2>1, <2>2, Zenon
  <1>7. SnapshotsConsistent'
    <2>1. Pins' \cup {active'} = Pins \cup {active}
      <3>1. Pins' = Pins \cup {active}
        <4>1. ASSUME NEW x \in Pins' PROVE x \in Pins \cup {active}
          BY <1>3, <4>1, Zenon DEF Pins
        <4>2. ASSUME NEW x \in Pins PROVE x \in Pins'
          BY <1>1, <1>3, <4>2 DEF Pins
        <4>3. active \in Pins'
          BY <1>3, Zenon DEF Pins
        <4> QED
          BY <4>1, <4>2, <4>3, Zenon
      <3> QED
        BY <1>1, <3>1
    <2> QED
      BY <1>2, <2>1, Zenon DEF SnapshotsConsistent
  <1>8. Undecided' /\ CountersStart' /\ DrawnInStep' /\ SelectorsExact'
    <2>1. Undecided'
      BY Zenon, <1>1, <1>2, <1>3 DEF Undecided
    <2>2. CountersStart' /\ DrawnInStep' /\ SelectorsExact'
      BY ONLY Zenon, <1>1, <1>2 DEF CountersStart, DrawnInStep, SelectorsExact
    <2> QED
      BY ONLY Zenon, <2>1, <2>2
  <1>9. DecidedBySequence'
    <2> SUFFICES ASSUME NEW g \in Flows, stage'[g] = "decided", decision[g].rule # 0
                 PROVE  /\ decision[g].seq # 0
                        /\ decision[g].rule \in DOMAIN Rules[docs[snap'[g].object]]
                        /\ selectAttempt(Rules[docs[snap'[g].object]][decision[g].rule],
                                         decision[g].seq, decision[g].seq - 1, decision[g].selected)
      BY ZenonT(40), <1>1 DEF DecidedBySequence
    <2>1. g # f /\ snap'[g] = snap[g] /\ stage[g] = "decided"
      BY <1>3, Zenon
    <2> QED
      BY Zenon, <1>2, <2>1 DEF DecidedBySequence
  <1>10. SequencesExact'
    <2> SUFFICES ASSUME NEW e \in Objects, NEW i \in RuleIndex PROVE Numbered(e, i)'
      BY DEF SequencesExact
    <2>1. Numbered(e, i)
      BY <1>2 DEF SequencesExact
    <2>2. OwnedBy(e, i)' = OwnedBy(e, i)
      BY <1>1, <1>3 DEF OwnedBy
    <2> QED
      BY ONLY <1>1, <2>1, <2>2, ZenonT(30) DEF Numbered
  <1> QED
    BY <1>4, <1>5, <1>6, <1>7, <1>8, <1>9, <1>10 DEF ControlInv

\* What a decision leaves alone.
LEMMA DecideKeeps ==
  ASSUME ControlInv, managed' = managed, NEW f \in Flows, stage[f] = "pinned",
         stage' = [stage EXCEPT ![f] = "decided"],
         UNCHANGED <<active, docs, mu, call, snap, base, history>>,
         eligible' \in Counter, selected' \in Counter, drawn' \in Counter,
         decision' \in [Flows -> Decisions]
  PROVE  /\ TypeOK' /\ Aligned' /\ PinsBehind' /\ SnapshotsConsistent' /\ NoLostUpdate'
         /\ EnabledAsAsked'
  <1>1. /\ TypeOK /\ Aligned /\ PinsBehind /\ SnapshotsConsistent /\ NoLostUpdate
        /\ EnabledAsAsked
    BY DEF ControlInv
  <1>2. /\ active' = active /\ docs' = docs /\ mu' = mu /\ call' = call /\ snap' = snap
        /\ base' = base /\ basis' = basis /\ asked' = asked
    BY DEF history
  <1>3. /\ stage' \in [Flows -> {"idle", "pinned", "decided"}]
        /\ \A g \in Flows : stage'[g] # "idle" <=> stage[g] # "idle"
    BY Flat
  <1>4. TypeOK'
    BY <1>1, <1>2, <1>3, Zenon DEF TypeOK
  <1>5. Aligned' /\ NoLostUpdate' /\ EnabledAsAsked'
    BY <1>1, <1>2, Zenon DEF Aligned, CanBump, NextInfo, NoLostUpdate, EnabledAsAsked
  <1>6. PinsBehind'
    BY <1>1, <1>2, <1>3, Zenon DEF PinsBehind
  <1>7. Pins' = Pins
    BY <1>2, <1>3 DEF Pins
  <1>8. SnapshotsConsistent'
    BY <1>1, <1>2, <1>7, Zenon DEF SnapshotsConsistent
  <1> QED
    BY <1>4, <1>5, <1>6, <1>8

LEMMA DecideNoneInv ==
  ASSUME ControlInv, managed' = managed, NEW f \in Flows, stage[f] = "pinned",
         stage' = [stage EXCEPT ![f] = "decided"], UNCHANGED <<counters, decision>>,
         UNCHANGED <<active, docs, mu, call, snap, base, history>>
  PROVE  ControlInv'
  <1>1. /\ docs' = docs /\ snap' = snap /\ decision' = decision
        /\ eligible' = eligible /\ selected' = selected /\ drawn' = drawn
    BY DEF counters
  <1>2. /\ TypeOK' /\ Aligned' /\ PinsBehind' /\ SnapshotsConsistent' /\ NoLostUpdate'
        /\ EnabledAsAsked'
    BY ZenonT(40), <1>1, DecideKeeps, Flat
  <1>3. /\ Undecided /\ CountersStart /\ DrawnInStep /\ DecidedBySequence /\ SequencesExact
        /\ SelectorsExact
    BY DEF ControlInv
  <1>4. decision[f].rule = 0 /\ \A g \in Flows : g # f => stage'[g] = stage[g]
    BY <1>3, Flat DEF Undecided
  <1>5. Undecided' /\ CountersStart' /\ DrawnInStep' /\ SelectorsExact'
    <2>1. Undecided'
      BY Zenon, <1>1, <1>3, <1>4 DEF Undecided
    <2>2. CountersStart' /\ DrawnInStep' /\ SelectorsExact'
      BY ONLY Zenon, <1>1, <1>3 DEF CountersStart, DrawnInStep, SelectorsExact
    <2> QED
      BY ONLY <2>1, <2>2, Zenon
  <1>6. DecidedBySequence'
    BY Zenon, <1>1, <1>3, <1>4 DEF DecidedBySequence
  <1>7. SequencesExact'
    <2> SUFFICES ASSUME NEW e \in Objects, NEW i \in RuleIndex PROVE Numbered(e, i)'
      BY Zenon DEF SequencesExact
    <2>1. Numbered(e, i) /\ i # 0
      <3>1. i # 0
        BY ONLY ControlAssumption, i \in RuleIndex DEF RuleIndex
      <3> QED
        BY Zenon, <1>3, <3>1 DEF SequencesExact
    <2>2. OwnedBy(e, i)' = OwnedBy(e, i)
      BY <1>1, <1>4, <2>1, Zenon DEF OwnedBy
    <2> QED
      BY <1>1, <2>1, <2>2 DEF Numbered
  <1> QED
    BY <1>2, <1>5, <1>6, <1>7 DEF ControlInv

\* One more attempt keeps the selector's count exact.
LEMMA AttemptExact ==
  ASSUME NEW r, IsRule(r), NEW n \in Nat, NEW k \in Nat, NEW c, NEW b \in BOOLEAN,
         SelectedExactly(r, n, k), selectAttempt(r, n + 1, c, b)
  PROVE  SelectedExactly(r, n + 1, k + One(b))
  <1>1. r.n \in Nat \ {0}
    BY Zenon DEF IsRule
  <1>2. CASE r.kind = "nth"
    <2>1. k = One(n >= r.n) /\ b = (n + 1 = r.n)
      BY <1>2 DEF SelectedExactly, selectAttempt
    <2>2. k + One(b) = One(n + 1 >= r.n)
      <3>1. CASE b
        <4>0. n + 1 = r.n
          BY <2>1, <3>1, Zenon
        <4>1. ~(n >= r.n) /\ n + 1 >= r.n
          BY <1>1, <4>0
        <4>2. k = 0 /\ One(b) = 1 /\ One(n + 1 >= r.n) = 1
          BY <2>1, <3>1, <4>1 DEF One
        <4> QED
          BY <4>2
      <3>2. CASE ~b
        <4>0. n + 1 # r.n
          BY <2>1, <3>2, Zenon
        <4>1. n >= r.n <=> n + 1 >= r.n
          BY <1>1, <4>0
        <4>2. One(b) = 0 /\ One(n + 1 >= r.n) = One(n >= r.n)
          BY <3>2, <4>1 DEF One
        <4> QED
          BY <2>1, <4>2
      <3> QED
        BY <3>1, <3>2
    <2> QED
      BY <1>2, <2>2, Zenon DEF SelectedExactly
  <1>3. CASE r.kind = "every"
    <2>1. k = n \div r.n /\ b = ((n + 1) % r.n = 0)
      BY <1>3 DEF SelectedExactly, selectAttempt
    <2>2. (n + 1) \div r.n = (n \div r.n) + One((n + 1) % r.n = 0)
      BY <1>1, DivStep, Zenon
    <2>3. k + One(b) = (n + 1) \div r.n
      BY <2>1, <2>2, Zenon
    <2> QED
      BY <1>3, <2>3, Zenon DEF SelectedExactly
  <1>4. CASE r.kind = "never"
    BY ONLY <1>4, SelectedExactly(r, n, k), selectAttempt(r, n + 1, c, b) DEF SelectedExactly, selectAttempt, One
  <1>5. CASE r.kind = "always"
    BY <1>5 DEF SelectedExactly, selectAttempt, One
  <1>6. CASE r.kind = "random"
    BY <1>6, Zenon DEF SelectedExactly
  <1> QED
    BY <1>2, <1>3, <1>4, <1>5, <1>6 DEF IsRule

LEMMA OneType ==
  ASSUME NEW b
  PROVE  One(b) \in Nat /\ 1 \in Nat
  BY DEF One

\* The flow joins the ones its rule owns, with the next number.
LEMMA OwnOneMore ==
  ASSUME ControlInv, NEW f \in Flows, stage[f] = "pinned", NEW i \in RuleIndex, NEW b \in BOOLEAN,
         NEW e \in Objects, e = snap[f].object, NEW n \in Nat, n = eligible[e][i] + 1,
         stage' = [stage EXCEPT ![f] = "decided"], snap' = snap,
         decision' = [decision EXCEPT ![f] = Decision(i, n, b)],
         eligible' = Add(eligible, e, i, 1), selected' = Add(selected, e, i, One(b))
  PROVE  SequencesExact'
  <1>1. One(b) \in Nat
    BY Zenon, OneType
  <1>2. /\ eligible'[e][i] = eligible[e][i] + 1 /\ eligible[e][i] \in Nat
        /\ selected'[e][i] = selected[e][i] + One(b) /\ selected[e][i] \in Nat
        /\ \A x \in Objects, j \in RuleIndex : x # e \/ j # i =>
             eligible'[x][j] = eligible[x][j] /\ selected'[x][j] = selected[x][j]
    <2>1. /\ eligible'[e][i] = eligible[e][i] + 1 /\ eligible[e][i] \in Nat
          /\ \A x \in Objects, j \in RuleIndex : x # e \/ j # i => eligible'[x][j] = eligible[x][j]
      <3>1. 1 \in Nat /\ eligible \in Counter
        BY Flat, Zenon
      <3> QED
        BY <3>1, Zenon DEF Add, Counter
    <2>2. /\ selected'[e][i] = selected[e][i] + One(b) /\ selected[e][i] \in Nat
          /\ \A x \in Objects, j \in RuleIndex : x # e \/ j # i => selected'[x][j] = selected[x][j]
      <3>1. selected \in Counter
        BY Flat, Zenon
      <3> QED
        BY <1>1, <3>1, Zenon DEF Add, Counter
    <2> QED
      BY ZenonT(40), <2>1, <2>2
  <1>3. /\ stage'[f] = "decided" /\ decision'[f] = Decision(i, n, b)
        /\ \A g \in Flows : g # f => stage'[g] = stage[g] /\ decision'[g] = decision[g]
    BY Flat, Zenon
  <1>4. decision'[f].rule = i /\ decision'[f].seq = n /\ decision'[f].selected = b
    BY ONLY <1>3, b \in BOOLEAN DEF Decision
  <1> SUFFICES ASSUME NEW x \in Objects, NEW j \in RuleIndex PROVE Numbered(x, j)'
    BY Zenon DEF SequencesExact
  <1>5. Numbered(x, j)
    BY Zenon DEF ControlInv, SequencesExact
  <1>6. f \notin OwnedBy(x, j)
    BY Zenon DEF OwnedBy
  <1>7. CASE x # e \/ j # i
    <2>1. OwnedBy(x, j)' = OwnedBy(x, j)
      BY ZenonT(40), <1>3, <1>4, <1>7 DEF OwnedBy
    <2>2. \A g \in OwnedBy(x, j) : decision'[g] = decision[g]
      BY Zenon, <1>3, <1>6 DEF OwnedBy
    <2>3. {decision'[g].seq : g \in OwnedBy(x, j)} = {decision[g].seq : g \in OwnedBy(x, j)}
      BY Zenon, <2>2
    <2>4. {g \in OwnedBy(x, j) : decision'[g].selected} = {g \in OwnedBy(x, j) : decision[g].selected}
      BY Zenon, <2>2
    <2> QED
      BY Zenon, <1>2, <1>5, <1>7, <2>1, <2>3, <2>4 DEF Numbered
  <1>8. CASE x = e /\ j = i
    <2> DEFINE O == OwnedBy(e, i)
               S == {g \in O : decision[g].selected}
    <2>1. OwnedBy(x, j)' = O \cup {f} /\ f \notin O
      BY ZenonT(40), <1>3, <1>4, <1>6, <1>8 DEF OwnedBy
    <2>2. IsFiniteSet(O) /\ IsFiniteSet(S)
      <3>1. O \subseteq Flows /\ S \subseteq Flows
        BY Zenon DEF OwnedBy
      <3> QED
        BY Zenon, <3>1, ControlAssumption, FS_Subset
    <2>3. /\ Cardinality(O) = eligible[e][i] /\ Cardinality(S) = selected[e][i]
          /\ {decision[g].seq : g \in O} = 1 .. eligible[e][i]
      BY Zenon, <1>5, <1>8 DEF Numbered
    <2>4. \A g \in O : g # f /\ decision'[g] = decision[g]
      BY Zenon, <1>3, <2>1 DEF OwnedBy
    <2> HIDE DEF O, S
    <2>5. Cardinality(OwnedBy(x, j)') = eligible'[x][j]
      <3>1. Cardinality(O \cup {f}) = Cardinality(O) + 1
        BY ONLY Zenon, <2>1, <2>2, FS_AddElement
      <3> QED
        BY ONLY <1>2, <1>8, <2>1, <2>3, <3>1
    <2>6. {decision'[g].seq : g \in OwnedBy(x, j)'} = 1 .. eligible'[x][j]
      <3>1. {decision'[g].seq : g \in O \cup {f}} = {decision[g].seq : g \in O} \cup {n}
        BY ZenonT(40), <1>4, <2>4
      <3>2. 1 .. (eligible[e][i] + 1) = (1 .. eligible[e][i]) \cup {eligible[e][i] + 1}
        <4>1. eligible[e][i] \in Nat
          BY Zenon, <1>2
        <4> QED
          BY ONLY <4>1
      <3> QED
        BY Zenon, <1>2, <1>8, <2>1, <2>3, <3>1, <3>2
    <2>7. Cardinality({g \in OwnedBy(x, j)' : decision'[g].selected}) = selected'[x][j]
      <3>1. CASE b
        <4>1. {g \in O \cup {f} : decision'[g].selected} = S \cup {f}
          BY ZenonT(40), <1>4, <2>4, <3>1 DEF S
        <4>2. f \notin S
          BY Zenon, <2>1 DEF S
        <4> QED
          <5>1. One(b) = 1
            BY <3>1 DEF One
          <5>2. Cardinality(S \cup {f}) = selected[e][i] + 1
            BY ZenonT(40), <2>2, <2>3, <4>2, FS_AddElement
          <5> QED
            BY ZenonT(40), <1>2, <1>8, <2>1, <4>1, <5>1, <5>2
      <3>2. CASE ~b
        <4>1. {g \in O \cup {f} : decision'[g].selected} = S
          BY Zenon, <1>4, <2>4, <3>2 DEF S
        <4> QED
          <5>1. One(b) = 0
            BY Zenon, <3>2 DEF One
          <5>2. selected'[x][j] = selected[e][i]
            BY ONLY <1>2, <1>8, <5>1
          <5> QED
            BY ZenonT(40), <2>1, <2>3, <4>1, <5>2
      <3> QED
        BY Zenon, <3>1, <3>2
    <2> QED
      BY Zenon, <2>5, <2>6, <2>7 DEF Numbered
  <1> QED
    BY <1>7, <1>8, Zenon

LEMMA DecideByRuleInv ==
  ASSUME ControlInv, managed' = managed, NEW f \in Flows, stage[f] = "pinned", NEW q, NEW i \in RuleIndex,
         stage' = [stage EXCEPT ![f] = "decided"],
         Owner(docs[snap[f].object], q, i), DecideByRule(f, i),
         UNCHANGED <<active, docs, mu, call, snap, base, history>>
  PROVE  ControlInv'
  <1> DEFINE e == snap[f].object
             r == Rules[docs[e]][i]
             n == eligible[e][i] + 1
  <1>1. /\ TypeOK /\ Aligned /\ PinsBehind /\ SnapshotsConsistent /\ NoLostUpdate /\ EnabledAsAsked
        /\ Undecided /\ CountersStart /\ DrawnInStep /\ DecidedBySequence /\ SequencesExact
        /\ SelectorsExact
    BY Zenon DEF ControlInv
  <1>2. /\ e \in 1 .. Len(docs) /\ e \in Objects /\ docs[e] \in Documents /\ e \in DOMAIN docs
        /\ i \in DOMAIN Rules[docs[e]]
    <2>1. e \in 1 .. Len(docs)
      BY <1>1, Zenon DEF PinsBehind
    <2>2. e \in Objects /\ docs[e] \in Documents /\ e \in DOMAIN docs
      <3>1. docs \in Seq(Documents) /\ Len(docs) \in 1 .. MaxRevision /\ MaxRevision \in Nat \ {0}
        BY Zenon, Flat
      <3> QED
        BY ONLY <2>1, <3>1 DEF Objects
    <2>3. i \in DOMAIN Rules[docs[e]]
      BY ONLY Zenon, Owner(docs[snap[f].object], q, i) DEF Owner, Owners
    <2> QED
      BY ONLY <2>1, <2>2, <2>3, Zenon
  <1>3. IsRule(r)
    BY Zenon, <1>2, ControlAssumption
  <1>4. PICK b \in BOOLEAN :
          /\ selectAttempt(r, n, drawn[e][i], b)
          /\ eligible' = Add(eligible, e, i, 1)
          /\ selected' = Add(selected, e, i, One(b))
          /\ drawn' = Add(drawn, e, i, One(r.kind = "random"))
          /\ decision' = [decision EXCEPT ![f] = Decision(i, n, b)]
    BY Zenon DEF DecideByRule
  <1>5. One(b) \in Nat /\ One(r.kind = "random") \in Nat /\ 1 \in Nat
    BY Zenon, OneType
  <1> HIDE DEF e, r
  <1>6. /\ eligible' \in Counter /\ eligible'[e][i] = n /\ eligible[e][i] \in Nat
        /\ \A x \in Objects, j \in RuleIndex : x # e \/ j # i => eligible'[x][j] = eligible[x][j]
    <2>1. eligible \in Counter /\ e \in Objects /\ eligible' = Add(eligible, e, i, 1) /\ 1 \in Nat
      BY Zenon, <1>2, <1>4, <1>5, Flat
    <2> HIDE DEF e
    <2> QED
      BY ONLY <2>1, i \in RuleIndex DEF Add, Counter
  <1>7. /\ selected' \in Counter /\ selected'[e][i] = selected[e][i] + One(b) /\ selected[e][i] \in Nat
        /\ \A x \in Objects, j \in RuleIndex : x # e \/ j # i => selected'[x][j] = selected[x][j]
    <2>1. selected \in Counter /\ e \in Objects /\ selected' = Add(selected, e, i, One(b)) /\ One(b) \in Nat
      BY Zenon, <1>2, <1>4, <1>5, Flat
    <2> HIDE DEF e
    <2> QED
      BY ONLY <2>1, i \in RuleIndex DEF Add, Counter
  <1>8. /\ drawn' \in Counter /\ drawn'[e][i] = drawn[e][i] + One(r.kind = "random") /\ drawn[e][i] \in Nat
        /\ \A x \in Objects, j \in RuleIndex : x # e \/ j # i => drawn'[x][j] = drawn[x][j]
    <2>1. drawn \in Counter /\ e \in Objects /\ drawn' = Add(drawn, e, i, One(r.kind = "random")) /\ One(r.kind = "random") \in Nat
      BY ZenonT(40), <1>2, <1>4, <1>5, Flat
    <2> HIDE DEF e
    <2> QED
      BY ONLY <2>1, i \in RuleIndex DEF Add, Counter
  <1>9. n \in Nat /\ n # 0 /\ i # 0 /\ i \in 0 .. MaxRules /\ MaxRules \in Nat
    BY <1>6, ControlAssumption DEF RuleIndex
  <1>10. /\ decision' \in [Flows -> Decisions] /\ decision'[f] = Decision(i, n, b)
         /\ \A g \in Flows : g # f => decision'[g] = decision[g]
    <2>1. Decision(i, n, b) \in Decisions
      BY <1>9 DEF Decision, Decisions
    <2> QED
      BY ZenonT(40), <1>4, <2>1, Flat
  <1>11. /\ TypeOK' /\ Aligned' /\ PinsBehind' /\ SnapshotsConsistent' /\ NoLostUpdate'
         /\ EnabledAsAsked'
    BY Zenon, <1>6, <1>7, <1>8, <1>10, DecideKeeps
  <1>12. /\ docs' = docs /\ snap' = snap /\ stage'[f] = "decided"
         /\ \A g \in Flows : g # f => stage'[g] = stage[g]
    BY Zenon, Flat
  <1>13. Undecided'
    BY Zenon, <1>1, <1>10, <1>12 DEF Undecided
  <1>14. CountersStart'
    <2> SUFFICES ASSUME NEW x \in Objects, NEW j \in RuleIndex, x > Len(docs)
                 PROVE  eligible'[x][j] = 0 /\ selected'[x][j] = 0 /\ drawn'[x][j] = 0
      BY ZenonT(40), <1>12 DEF CountersStart
    <2>1. x # e
      <3>1. Len(docs) \in 1 .. MaxRevision /\ MaxRevision \in Nat \ {0}
        BY Zenon, Flat
      <3>2. e \in 1 .. Len(docs)
        BY ONLY Zenon, <1>2
      <3> QED
        BY ONLY <3>1, <3>2, x > Len(docs)
    <2>2. eligible[x][j] = 0 /\ selected[x][j] = 0 /\ drawn[x][j] = 0
      BY <1>1, Zenon DEF CountersStart
    <2> QED
      BY ONLY Zenon, <1>6, <1>7, <1>8, <2>1, <2>2, x \in Objects, j \in RuleIndex
  <1>15. ASSUME NEW x \in 1 .. Len(docs), NEW j \in DOMAIN Rules[docs[x]]
         PROVE  x \in Objects /\ j \in RuleIndex /\ x \in DOMAIN docs
    <2>1. /\ docs \in Seq(Documents) /\ Len(docs) \in 1 .. MaxRevision /\ MaxRevision \in Nat
      BY Flat, Zenon
    <2>2. x \in Objects /\ x \in DOMAIN docs /\ docs[x] \in Documents
      BY ONLY <1>15, <2>1 DEF Objects
    <2>3. j \in RuleIndex
      BY ONLY <1>15, <2>2, ControlAssumption, Zenon
    <2> QED
      BY ONLY <2>2, <2>3
  <1>16. DrawnInStep'
    <2>1. ASSUME NEW x \in 1 .. Len(docs), NEW j \in DOMAIN Rules[docs[x]],
                 Rules[docs[x]][j].kind = "random"
          PROVE  drawn'[x][j] = eligible'[x][j]
      <3>1. drawn[x][j] = eligible[x][j]
        BY ZenonT(40), <1>1, <2>1 DEF DrawnInStep
      <3>2. CASE x = e /\ j = i
        <4>1. One(r.kind = "random") = 1
          BY Zenon, <2>1, <3>2 DEF r, One
        <4> QED
          BY Zenon, <1>6, <1>8, <3>1, <3>2, <4>1
      <3>3. CASE x # e \/ j # i
        BY Zenon, <1>6, <1>8, <1>15, <3>1, <3>3
      <3> QED
        BY Zenon, <3>2, <3>3
    <2>2. docs' = docs
      BY Zenon, <1>12
    <2> QED
      BY ONLY Zenon, <2>1, <2>2 DEF DrawnInStep
  <1>17. DecidedBySequence'
    <2> SUFFICES ASSUME NEW g \in Flows, stage'[g] = "decided", decision'[g].rule # 0
                 PROVE  /\ decision'[g].seq # 0
                        /\ decision'[g].rule \in DOMAIN Rules[docs[snap[g].object]]
                        /\ selectAttempt(Rules[docs[snap[g].object]][decision'[g].rule],
                                         decision'[g].seq, decision'[g].seq - 1, decision'[g].selected)
      BY Zenon, <1>12 DEF DecidedBySequence
    <2>1. CASE g = f
      <3>1. decision'[g].rule = i /\ decision'[g].seq = n /\ decision'[g].selected = b
        BY ONLY <1>10, <2>1, b \in BOOLEAN DEF Decision
      <3>2. n - 1 = eligible[e][i]
        <4>1. eligible[e][i] \in Nat
          BY Zenon, <1>6
        <4> QED
          BY ONLY <4>1
      <3>3. r.kind = "random" => drawn[e][i] = eligible[e][i]
        BY ZenonT(40), <1>1, <1>2 DEF DrawnInStep, r
      <3>4. selectAttempt(r, n, eligible[e][i], b)
        BY Zenon, <1>4, <3>3 DEF selectAttempt
      <3> QED
        BY ZenonT(40), <1>2, <1>9, <2>1, <3>1, <3>2, <3>4 DEF e, r
    <2>2. CASE g # f
      BY Zenon, <1>1, <1>10, <1>12, <2>2 DEF DecidedBySequence
    <2> QED
      BY Zenon, <2>1, <2>2
  <1>18. SequencesExact'
    BY Zenon, <1>2, <1>4, <1>9, OwnOneMore DEF e
  <1>19. SelectorsExact'
    <2> SUFFICES ASSUME NEW x \in DOMAIN docs, NEW j \in DOMAIN Rules[docs[x]]
                 PROVE  SelectedExactly(Rules[docs[x]][j], eligible'[x][j], selected'[x][j])
      BY Zenon, <1>12 DEF SelectorsExact
    <2>1. SelectedExactly(Rules[docs[x]][j], eligible[x][j], selected[x][j])
      BY Zenon, <1>1 DEF SelectorsExact
    <2>2. CASE x = e /\ j = i
      <3>1. SelectedExactly(r, n, selected[e][i] + One(b))
        BY Zenon, <1>3, <1>4, <1>6, <1>7, <2>1, <2>2, AttemptExact DEF r
      <3> QED
        BY Zenon, <1>6, <1>7, <2>2, <3>1 DEF r
    <2>3. CASE x # e \/ j # i
      <3>1. x \in 1 .. Len(docs)
        <4>1. docs \in Seq(Documents)
          BY Zenon, Flat
        <4> QED
          BY ONLY <4>1, x \in DOMAIN docs
      <3> QED
        BY ZenonT(40), <1>6, <1>7, <1>15, <2>1, <2>3, <3>1
    <2> QED
      BY ZenonT(40), <2>2, <2>3
  <1> QED
    BY Zenon, <1>11, <1>13, <1>14, <1>16, <1>17, <1>18, <1>19 DEF ControlInv

LEMMA DecideInv ==
  ASSUME ControlInv, managed' = managed, NEW f \in Flows, NEW q \in Requests, Decide(f, q)
  PROVE  ControlInv'
  <1>1. /\ stage[f] = "pinned" /\ stage' = [stage EXCEPT ![f] = "decided"]
        /\ UNCHANGED <<active, docs, mu, call, snap, base, history>>
    BY Zenon DEF Decide
  <1>2. CASE \E i \in RuleIndex : Owner(docs[snap[f].object], q, i) /\ DecideByRule(f, i)
    BY Zenon, <1>1, <1>2, DecideByRuleInv
  <1>3. CASE UNCHANGED <<counters, decision>>
    BY Zenon, <1>1, <1>3, DecideNoneInv
  <1> QED
    BY Zenon, <1>2, <1>3 DEF Decide

\* ControlInv is inductive: it holds of every run of the service, whatever the documents,
\* the numbers of flows and editors, and the bounds.
THEOREM ControlInvariant == Spec => []ControlInv
  <1>1. Init => ControlInv
    BY InitInv
  <1>2. ControlInv /\ [Next]_vars => ControlInv'
    <2> SUFFICES ASSUME ControlInv, [Next]_vars PROVE ControlInv'
      OBVIOUS
    <2>0. managed' = managed
      BY DEF Next, vars
    <2>1. ASSUME NEW f \in Flows, FlowStep(f) PROVE ControlInv'
      BY <2>0, <2>1, AcquireInv, DecideInv DEF FlowStep
    <2>2. ASSUME NEW b \in BOOLEAN, SetEnabled(b) PROVE ControlInv'
      BY <2>0, <2>2, SetEnabledInv
    <2>3. ASSUME NEW d \in Documents, Apply(d) PROVE ControlInv'
      BY <2>0, <2>3, ApplyInv
    <2>4. ASSUME NEW x \in Editors, ReadConfig(x) PROVE ControlInv'
      BY <2>0, <2>4, ReadConfigInv
    <2>5. ASSUME NEW x \in Editors, NEW d \in Documents, ApplyRevision(x, d) PROVE ControlInv'
      BY <2>0, <2>5, ApplyRevisionInv
    <2>6. ASSUME PersistOk \/ PersistError PROVE ControlInv'
      BY <2>0, <2>6, PersistInv, Zenon
    <2>7. ASSUME UNCHANGED vars PROVE ControlInv'
      <3>1. UNCHANGED <<active, docs, counters, flows, history>> /\ mu' = mu /\ call' = call /\ base' = base
        BY <2>7, Zenon DEF vars
      <3>2. /\ mu \in {"free", "persist"} /\ base \in [Editors -> 0 .. MaxRevision]
            /\ mu = "persist" =>
                 /\ call \in Calls
                 /\ call.changed => CanBump /\ call.info = NextInfo /\ call.from = active.revision
        BY Zenon, Flat DEF ControlInv, Aligned
      <3> QED
        BY <2>0, <3>1, <3>2, QuietInv
    <2> QED
      BY <2>1, <2>2, <2>3, <2>4, <2>5, <2>6, <2>7 DEF Next, Step
  <1> QED
    BY <1>1, <1>2, PTL DEF Spec

\* Flow records are correlated by the control sequence and the revision number of the
\* snapshot the flow pinned: these numbers name one snapshot and one revision object.
THEOREM SnapshotsAreConsistent == Spec => []SnapshotsConsistent
  <1>1. ControlInv => SnapshotsConsistent
    BY DEF ControlInv
  <1> QED
    BY <1>1, ControlInvariant, PTL

\* The eligible sequence of a rule of a revision has no gap and no repetition, and the
\* Counters of Engine are the numbers of flows it owned and selected.
THEOREM SequencesAreExact == Spec => []SequencesExact
  <1>1. ControlInv => SequencesExact
    BY DEF ControlInv
  <1> QED
    BY <1>1, ControlInvariant, PTL

\* selectAttempt gives nth one flow per revision and every one flow in n.
THEOREM SelectorsAreExact == Spec => []SelectorsExact
  <1>1. ControlInv => SelectorsExact
    BY DEF ControlInv
  <1> QED
    BY <1>1, ControlInvariant, PTL

\* Both together: what Engine.Decide counts for a rule and which of its attempts it selects.
THEOREM AttemptsAreExact == Spec => []AttemptsExact
  <1>1. SequencesExact /\ SelectorsExact => AttemptsExact
    BY DEF AttemptsExact
  <1> QED
    BY <1>1, SequencesAreExact, SelectorsAreExact, PTL

\* Equal rules and equal sequence numbers give equal decisions, in one revision or in
\* two: Engine.Decide is reproducible.
THEOREM DecisionsReproducible == Spec => []Reproducible
  <1>1. ControlInv => Reproducible
    <2> SUFFICES ASSUME ControlInv, NEW f \in Flows, NEW g \in Flows,
                        stage[f] = "decided", stage[g] = "decided",
                        decision[f].rule # 0, decision[g].rule # 0,
                        Rules[docs[snap[f].object]][decision[f].rule]
                          = Rules[docs[snap[g].object]][decision[g].rule],
                        decision[f].seq = decision[g].seq
                 PROVE  decision[f].selected = decision[g].selected
      BY Zenon DEF Reproducible
    <2> DEFINE r == Rules[docs[snap[f].object]][decision[f].rule]
               n == decision[f].seq
    <2>1. /\ selectAttempt(r, n, n - 1, decision[f].selected)
          /\ selectAttempt(r, n, n - 1, decision[g].selected)
      BY Zenon DEF ControlInv, DecidedBySequence
    <2> HIDE DEF r, n
    <2> QED
      BY Zenon, <2>1 DEF selectAttempt
  <1> QED
    BY <1>1, ControlInvariant, PTL

\* No managed ApplyRevision overwrites a revision its editor has not read.
THEOREM NoUpdateIsLost == Spec => []NoLostUpdate
  <1>1. ControlInv => NoLostUpdate
    BY DEF ControlInv
  <1> QED
    BY <1>1, ControlInvariant, PTL

\* No apply undoes a SetEnabled, although info is built before the persist call and
\* published after it.
THEOREM ToggleIsNeverUndone == Spec => []EnabledAsAsked
  <1>1. ControlInv => EnabledAsAsked
    BY DEF ControlInv
  <1> QED
    BY <1>1, ControlInvariant, PTL
=============================================================================
