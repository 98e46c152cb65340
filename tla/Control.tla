------------------------------- MODULE Control -------------------------------
(***************************************************************************)
(* internal/control/service.go and internal/engine/engine.go: the active   *)
(* configuration revision, the snapshots that flows pin, and the selector  *)
(* counters of each revision.                                              *)
(*                                                                         *)
(* Service.mu is held for the whole of SetEnabled and Apply, which makes   *)
(* them one step each.  A managed ApplyRevision calls persist (file I/O)   *)
(* with the lock held, so it is a begin step and an end step, and every    *)
(* other operation of the service waits between the two.  A flow pins a    *)
(* snapshot in one step and decides in a later one; the counters of a rule *)
(* change in one critical section of the rule's own mutex.                 *)
(***************************************************************************)
EXTENDS Integers, Sequences, FiniteSets

CONSTANTS
  Flows,        \* flows that acquire a snapshot and decide once
  Requests,     \* what a rule's matcher can tell apart in a flow's metadata
  Documents,    \* validated configurations
  Infra,        \* Infra[d]: the part of d that only a restart may change
  Rules,        \* Rules[d]: the rules of the proxy under study, in order
  Draw,         \* Draw[id][n]: whether the n-th number of rule id's generator is below p
  Editors,      \* clients that read the configuration and apply a changed one
  MaxRules,     \* bound on the rules of a document
  MaxRevision,  \* bound on the revisions of a run
  MaxSequence   \* bound on the control sequence of a run

RuleIndex == 1 .. MaxRules

\* config.Rule: nth and every use n, random uses the rule's own generator.
IsRule(r) ==
  /\ r.enabled \in BOOLEAN
  /\ r.match \subseteq Requests
  /\ r.kind \in {"nth", "every", "never", "always", "random"}
  /\ r.n \in Nat \ {0}

ASSUME ControlAssumption ==
  /\ MaxRevision \in Nat \ {0} /\ MaxSequence \in Nat /\ MaxRules \in Nat
  /\ IsFiniteSet(Flows)
  /\ \A d \in Documents :
       /\ DOMAIN Rules[d] \subseteq RuleIndex
       /\ \A i \in DOMAIN Rules[d] : IsRule(Rules[d][i])

VARIABLES
  managed,   \* Service.persist # nil: the service was made by NewManaged
  active,    \* Service.active: the Info fields and the index of the revision object
  docs,      \* documents of the revision objects, in the order they were published
  eligible,  \* eligible[e][i]: ruleState.counters.Eligible of rule i of object e
  selected,  \* likewise Selected
  drawn,     \* numbers taken from the generator of rule i of object e
  mu,        \* Service.mu: "free", or held across a persist call
  call,      \* what the persist call in progress will publish
  stage,     \* each flow: "idle", "pinned" or "decided"
  snap,      \* each flow's Snapshot
  decision,  \* each flow's engine.Decision
  base,      \* the revision each editor last read
  basis,     \* history: the revision each revision object was edited from
  asked      \* history: the state the last SetEnabled to return asked for

counters == <<eligible, selected, drawn>>
flows == <<stage, snap, decision>>
history == <<basis, asked>>
vars == <<managed, active, docs, counters, mu, call, flows, base, history>>

Objects == 1 .. MaxRevision

Snapshot(rev, enabled, seq, object) ==
  [revision |-> rev, enabled |-> enabled, sequence |-> seq, object |-> object]

\* rule is 0 and seq is 0 when no rule owns the flow.
Decision(i, n, b) == [rule |-> i, seq |-> n, selected |-> b]

NoCall == [stage |-> "none"]
Call(info, d, from, changed) ==
  [info |-> info, doc |-> d, from |-> from, changed |-> changed]

Init ==
  /\ managed \in BOOLEAN
  /\ \E d \in Documents : docs = <<d>>
  /\ active = Snapshot(1, FALSE, 0, 1)
  /\ eligible = [e \in Objects |-> [i \in RuleIndex |-> 0]]
  /\ selected = [e \in Objects |-> [i \in RuleIndex |-> 0]]
  /\ drawn = [e \in Objects |-> [i \in RuleIndex |-> 0]]
  /\ mu = "free" /\ call = NoCall
  /\ stage = [f \in Flows |-> "idle"]
  /\ snap = [f \in Flows |-> Snapshot(0, FALSE, 0, 0)]
  /\ decision = [f \in Flows |-> Decision(0, 0, FALSE)]
  /\ base = [x \in Editors |-> 0]
  /\ basis = <<0>>
  /\ asked = FALSE

-----------------------------------------------------------------------------
(* Flows: Acquire and Decide *)

Acquire(f) ==
  /\ mu = "free"
  /\ stage[f] = "idle"
  /\ stage' = [stage EXCEPT ![f] = "pinned"]
  /\ snap' = [snap EXCEPT ![f] = active]
  /\ UNCHANGED <<active, docs, counters, mu, call, decision, base, history>>

\* The first enabled rule whose matcher accepts the request owns the flow.
Owners(d, q) == {i \in DOMAIN Rules[d] : Rules[d][i].enabled /\ q \in Rules[d][i].match}
Owner(d, q, i) == i \in Owners(d, q) /\ \A j \in Owners(d, q) : i <= j

\* Mutant: nth selects every attempt from the n-th on.
selectFromNth(r, n, k, b) ==
  \/ r.kind = "nth"    /\ b = (n >= r.n)
  \/ r.kind = "every"  /\ b = (n % r.n = 0)
  \/ r.kind = "never"  /\ b = FALSE
  \/ r.kind = "always" /\ b = TRUE
  \/ r.kind = "random" /\ b = Draw[r.id][k + 1]

\* The outcome b of the n-th attempt of a rule whose generator has given k numbers.
selectAttempt(r, n, k, b) ==
  \/ r.kind = "nth"    /\ b = (n = r.n)
  \/ r.kind = "every"  /\ b = (n % r.n = 0)
  \/ r.kind = "never"  /\ b = FALSE
  \/ r.kind = "always" /\ b = TRUE
  \/ r.kind = "random" /\ b = Draw[r.id][k + 1]

\* Mutant: the counters of the active revision, not of the flow's snapshot.
AddToActive(counter, e, i, k) ==
  LET a == active.object IN
    [counter EXCEPT ![a] = [counter[a] EXCEPT ![i] = counter[a][i] + k]]

Add(counter, e, i, k) == [counter EXCEPT ![e] = [counter[e] EXCEPT ![i] = counter[e][i] + k]]

One(b) == IF b THEN 1 ELSE 0

\* Mutant: a rule's generator survives a change of revision.
DecideKeepsGenerator(f, i) ==
  LET s == snap[f]
      r == Rules[docs[s.object]][i]
      n == eligible[s.object][i] + 1
  IN \E b \in BOOLEAN :
       /\ selectAttempt(r, n, drawn[1][i], b)
       /\ eligible' = Add(eligible, s.object, i, 1)
       /\ selected' = Add(selected, s.object, i, One(b))
       /\ drawn' = Add(drawn, 1, i, One(r.kind = "random"))
       /\ decision' = [decision EXCEPT ![f] = Decision(i, n, b)]

\* The critical section of the owning rule's mutex.
DecideByRule(f, i) ==
  LET s == snap[f]
      r == Rules[docs[s.object]][i]
      n == eligible[s.object][i] + 1
  IN \E b \in BOOLEAN :
       /\ selectAttempt(r, n, drawn[s.object][i], b)
       /\ eligible' = Add(eligible, s.object, i, 1)
       /\ selected' = Add(selected, s.object, i, One(b))
       /\ drawn' = Add(drawn, s.object, i, One(r.kind = "random"))
       /\ decision' = [decision EXCEPT ![f] = Decision(i, n, b)]

Decide(f, q) ==
  /\ stage[f] = "pinned"
  /\ stage' = [stage EXCEPT ![f] = "decided"]
  /\ \/ /\ snap[f].enabled
        /\ \E i \in RuleIndex : Owner(docs[snap[f].object], q, i) /\ DecideByRule(f, i)
     \/ /\ ~snap[f].enabled \/ Owners(docs[snap[f].object], q) = {}
        /\ UNCHANGED <<counters, decision>>
  /\ UNCHANGED <<active, docs, mu, call, snap, base, history>>

-----------------------------------------------------------------------------
(* Changes: SetEnabled, Apply, ApplyRevision *)

\* Mutants: a toggle that keeps the control sequence; one that does not wait for the lock.
ToggleKeepsSequence(b) ==
  /\ mu = "free"
  /\ active' = Snapshot(active.revision, b, active.sequence, active.object)
  /\ asked' = b
  /\ UNCHANGED <<docs, counters, mu, call, flows, base, basis>>

ToggleUnlocked(b) ==
  /\ active.enabled # b /\ active.sequence < MaxSequence
  /\ active' = Snapshot(active.revision, b, active.sequence + 1, active.object)
  /\ asked' = b
  /\ UNCHANGED <<docs, counters, mu, call, flows, base, basis>>

SetEnabled(b) ==
  /\ mu = "free"
  /\ \/ active.enabled = b /\ UNCHANGED active
     \/ /\ active.enabled # b /\ active.sequence < MaxSequence
        /\ active' = Snapshot(active.revision, b, active.sequence + 1, active.object)
  /\ asked' = b
  /\ UNCHANGED <<docs, counters, mu, call, flows, base, basis>>

Current == docs[active.object]
RestartCompatible(d) == Infra[d] = Infra[Current]
CanBump == active.revision < MaxRevision /\ active.sequence < MaxSequence

\* The info of the next revision; it is built before persist and published after it.
NextInfo ==
  Snapshot(active.revision + 1, active.enabled, active.sequence + 1, Len(docs) + 1)

\* active.revision and active.info are replaced together; the new engine counts from 0.
Publish(info, d, from) ==
  /\ active' = info
  /\ docs' = Append(docs, d)
  /\ basis' = Append(basis, from)

\* Apply without persistence (admin reload).
Apply(d) ==
  /\ ~managed /\ mu = "free"
  /\ RestartCompatible(d) /\ d # Current /\ CanBump
  /\ Publish(NextInfo, d, active.revision)
  /\ UNCHANGED <<counters, mu, call, flows, base, asked>>

\* An editor reads the configuration and the revision it will name as its base.
ReadConfig(x) ==
  /\ managed /\ mu = "free"
  /\ base' = [base EXCEPT ![x] = active.revision]
  /\ UNCHANGED <<active, docs, counters, mu, call, flows, history>>

\* Mutant: the base revision is not compared.
ApplyAnyBase(x, d) ==
  /\ managed /\ mu = "free" /\ base[x] # 0
  /\ RestartCompatible(d) /\ d # Current /\ CanBump
  /\ call' = Call(NextInfo, d, base[x], TRUE)
  /\ mu' = "persist"
  /\ UNCHANGED <<active, docs, counters, flows, base, history>>

\* ApplyRevision up to its persist call, which runs with the lock held.  A stale base,
\* an incompatible document or an invalid one returns an error and changes nothing.
ApplyRevision(x, d) ==
  /\ managed /\ mu = "free"
  /\ base[x] = active.revision
  /\ RestartCompatible(d)
  /\ \/ d = Current /\ call' = Call(active, d, base[x], FALSE)
     \/ d # Current /\ CanBump /\ call' = Call(NextInfo, d, base[x], TRUE)
  /\ mu' = "persist"
  /\ UNCHANGED <<active, docs, counters, flows, base, history>>

PersistOk ==
  /\ mu = "persist"
  /\ \/ call.changed /\ Publish(call.info, call.doc, call.from)
     \/ ~call.changed /\ UNCHANGED <<active, docs, basis>>
  /\ mu' = "free" /\ call' = NoCall
  /\ UNCHANGED <<counters, flows, base, asked>>

PersistError ==
  /\ mu = "persist"
  /\ mu' = "free" /\ call' = NoCall
  /\ UNCHANGED <<active, docs, counters, flows, base, history>>

FlowStep(f) == Acquire(f) \/ \E q \in Requests : Decide(f, q)

Step ==
  \/ \E f \in Flows : FlowStep(f)
  \/ \E b \in BOOLEAN : SetEnabled(b)
  \/ \E d \in Documents : Apply(d)
  \/ \E x \in Editors : ReadConfig(x) \/ \E d \in Documents : ApplyRevision(x, d)
  \/ PersistOk \/ PersistError

Next == Step /\ UNCHANGED managed

Spec == Init /\ [][Next]_vars

-----------------------------------------------------------------------------
(* Properties *)

Counter == [Objects -> [RuleIndex -> Nat]]

Snapshots == [revision : 0 .. MaxRevision, enabled : BOOLEAN,
              sequence : 0 .. MaxSequence, object : 0 .. MaxRevision]

Calls == [info : Snapshots, doc : Documents, from : 0 .. MaxRevision, changed : BOOLEAN]

Decisions == [rule : 0 .. MaxRules, seq : Nat, selected : BOOLEAN]

\* The state a run can be in.
TypeOK ==
  /\ managed \in BOOLEAN
  /\ active \in Snapshots
  /\ docs \in Seq(Documents) /\ basis \in Seq(0 .. MaxRevision)
  /\ eligible \in Counter /\ selected \in Counter /\ drawn \in Counter
  /\ mu \in {"free", "persist"}
  /\ mu = "persist" => call \in Calls
  /\ stage \in [Flows -> {"idle", "pinned", "decided"}]
  /\ snap \in [Flows -> Snapshots]
  /\ decision \in [Flows -> Decisions]
  /\ base \in [Editors -> 0 .. MaxRevision]
  /\ asked \in BOOLEAN

Pins == {snap[f] : f \in {g \in Flows : stage[g] # "idle"}}

\* Whatever the interleaving of flows, toggles and applies, two snapshots with one
\* control sequence are the same snapshot, a revision number names one revision object,
\* and a later revision has a later control sequence.  Flow records are correlated by
\* these numbers (Info in every recorder.Event).
SnapshotsConsistent ==
  \A s, t \in Pins \cup {active} :
    /\ s.sequence = t.sequence => s = t
    /\ s.revision = t.revision <=> s.object = t.object
    /\ s.revision < t.revision => s.sequence < t.sequence

OwnedBy(e, i) ==
  {f \in Flows : stage[f] = "decided" /\ snap[f].object = e /\ decision[f].rule = i}

Numbered(e, i) ==
  /\ Cardinality(OwnedBy(e, i)) = eligible[e][i]
  /\ {decision[f].seq : f \in OwnedBy(e, i)} = 1 .. eligible[e][i]
  /\ Cardinality({f \in OwnedBy(e, i) : decision[f].selected}) = selected[e][i]

\* The flows a rule of a revision owned are numbered 1, 2, ... without a gap or a
\* repetition, and its counters are the numbers of flows owned and selected.  Flows of an
\* older revision never disturb the counters of a newer one.
SequencesExact == \A e \in Objects, i \in RuleIndex : Numbered(e, i)

SelectedExactly(r, n, k) ==
  /\ r.kind = "nth"    => k = One(n >= r.n)
  /\ r.kind = "every"  => k = n \div r.n
  /\ r.kind = "never"  => k = 0
  /\ r.kind = "always" => k = n

\* nth selects exactly once per revision, as soon as n flows were eligible; every selects
\* one flow in n; counters start again from zero with each revision (specific.md:244-246).
SelectorsExact ==
  \A e \in DOMAIN docs : \A i \in DOMAIN Rules[docs[e]] :
    SelectedExactly(Rules[docs[e]][i], eligible[e][i], selected[e][i])

\* What a rule counts and what it selects are exact, in every revision and whatever flows
\* of other revisions do.
AttemptsExact == SequencesExact /\ SelectorsExact

\* The same rule with the same seed selects the same attempts in every revision and
\* however its flows interleave: the decision is a function of the eligible sequence
\* (specific.md:247).
Reproducible ==
  \A f, g \in Flows :
    /\ stage[f] = "decided" /\ stage[g] = "decided"
    /\ decision[f].rule # 0 /\ decision[g].rule # 0
    /\ Rules[docs[snap[f].object]][decision[f].rule] = Rules[docs[snap[g].object]][decision[g].rule]
    /\ decision[f].seq = decision[g].seq
    => decision[f].selected = decision[g].selected

\* ApplyRevision never overwrites a change its editor has not seen: every revision was
\* edited from the one just before it.
NoLostUpdate == \A r \in 2 .. Len(basis) : basis[r] = r - 1

\* An apply, also one that is slow to persist or fails to, never undoes a toggle: the
\* injection state is always what the last SetEnabled asked for.
EnabledAsAsked == active.enabled = asked

\* The conjuncts that make the properties inductive.  Revision numbers, revision objects
\* and history keep step, and a persist in progress still describes the next revision.
Aligned ==
  /\ Len(docs) \in Objects
  /\ active.revision = Len(docs) /\ active.object = Len(docs) /\ Len(basis) = Len(docs)
  /\ mu = "persist" =>
       (call.changed => CanBump /\ call.info = NextInfo /\ call.from = active.revision)

\* Every pinned snapshot was active once.
PinsBehind ==
  \A f \in Flows : stage[f] # "idle" =>
    /\ snap[f].object \in 1 .. Len(docs) /\ snap[f].revision = snap[f].object
    /\ snap[f].sequence <= active.sequence
    /\ snap[f].sequence = active.sequence => snap[f] = active

Undecided == \A f \in Flows : stage[f] # "decided" => decision[f].rule = 0

\* The counters of an object nobody has published yet are zero; a generator gave one
\* number per eligible flow.
CountersStart ==
  \A e \in Objects, i \in RuleIndex :
    e > Len(docs) => eligible[e][i] = 0 /\ selected[e][i] = 0 /\ drawn[e][i] = 0

DrawnInStep ==
  \A e \in 1 .. Len(docs) : \A i \in DOMAIN Rules[docs[e]] :
    Rules[docs[e]][i].kind = "random" => drawn[e][i] = eligible[e][i]

\* What the selector said when the flow had its sequence number.
DecidedBySequence ==
  \A f \in Flows : stage[f] = "decided" /\ decision[f].rule # 0 =>
    /\ decision[f].seq # 0
    /\ decision[f].rule \in DOMAIN Rules[docs[snap[f].object]]
    /\ selectAttempt(Rules[docs[snap[f].object]][decision[f].rule], decision[f].seq,
                     decision[f].seq - 1, decision[f].selected)

\* The inductive invariant of the service and its engines.
ControlInv ==
  /\ TypeOK /\ Aligned /\ PinsBehind /\ SnapshotsConsistent /\ NoLostUpdate /\ EnabledAsAsked
  /\ Undecided /\ CountersStart /\ DrawnInStep /\ DecidedBySequence
  /\ SequencesExact /\ SelectorsExact
=============================================================================
