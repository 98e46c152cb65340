--------------------------- MODULE ManagedProofs ---------------------------
(***************************************************************************)
(* The properties of the managed data directory, for any processes,        *)
(* documents and audit limit.                                              *)
(*                                                                         *)
(* One process at a time uses the directory (Sole): that is what the       *)
(* instance lock is for, and it needs an exit that is prompt, or a single  *)
(* process (Alone).  Then where its save has got says how the file, the    *)
(* store in memory and the state being saved are related (Saving), and the *)
(* job says how they are related to what flows run on (Working).  A state  *)
(* is only ever replaced by one that follows it.                           *)
(***************************************************************************)
EXTENDS Managed, SequenceTheorems, TLAPS

\* What keeps a second process from writing.
Alone == PromptExit \/ \A p, q \in Processes : p = q

Operations == {"bootstrap", "no_op", "configure", "note", "enable", "disable", "apply", "failed"}
Entries == [op : Operations, revision : Nat]
Audits == {a \in Seq(Entries) : Len(a) <= AuditLimit}
Stored == [doc : Documents, revision : Nat \ {0}, audit : Audits]
States == Stored \cup {Absent}
Files == [state : States, flushed : {TRUE}]
Actives == [doc : Documents \cup {NoDocument}, revision : Nat, enabled : BOOLEAN]

Starting == {"bootstrap", "configure"}
Toggling == {"enable", "disable"}
Requests == {"note", "apply"} \cup Toggling

Types ==
  /\ visible \in Files /\ durable \in Files
  /\ lock \in Processes \cup {Nobody}
  /\ mode \in [Processes -> {"off", "serve", "configure"}]
  /\ pc \in [Processes -> {"idle", "save", "renamed", "synced"}]
  /\ job \in [Processes -> {"none"} \cup Starting \cup Requests]
  /\ mem \in [Processes -> States] /\ next \in [Processes -> States]
  /\ poisoned \in [Processes -> BOOLEAN] /\ failed \in [Processes -> BOOLEAN]
  /\ active \in [Processes -> Actives]

\* A process that holds the lock is running; with a prompt exit one that runs holds it.
Locked ==
  \A p \in Processes :
    /\ lock = p => mode[p] # "off"
    /\ PromptExit /\ mode[p] # "off" => lock = p

Sole == \A p, q \in Processes : mode[p] # "off" /\ mode[q] # "off" => p = q

\* t is s again, but for its audit ring, or the next revision.
Same(s, t) == t.doc = s.doc /\ t.revision = s.revision
Follows(s, t) == Same(s, t) \/ t.revision = s.revision + 1

\* A save that is at c: the store x, the state y to be saved, the files v and d.
Saving(c, po, x, y, v, d) ==
  /\ c = "idle" => IF po THEN Follows(x, v) ELSE v = x
  /\ c # "idle" => ~po /\ y \in Stored
  /\ c = "save" => v = x /\ Follows(x, y)
  /\ c = "renamed" => v = y /\ Follows(x, y)
  /\ c = "synced" => v = y /\ d = y /\ x = y

\* What the save is for: the job j in mode m, when flows run on a.
Working(m, c, j, x, y, a) ==
  /\ c = "idle" => j = "none" /\ m = "serve" /\ a.revision # 0
  /\ c # "idle" =>
       \/ j \in Starting /\ a = Inactive
       \/ j \in Requests /\ m = "serve" /\ a.revision # 0
  /\ j = "configure" => m = "configure"
  /\ j = "bootstrap" => y.revision = 1 /\ (c # "synced" => x = Absent)
  /\ a.revision # 0 =>
       /\ x \in Stored /\ a.doc \in Documents
       /\ IF j = "apply" THEN Follows(a, y) /\ (c # "synced" => Same(a, x)) ELSE Same(a, x)
  /\ j \in Toggling \cup {"note"} => Same(a, y)
  /\ j \in Toggling => y.audit # <<>> /\ y.audit[Len(y.audit)] = Entry(j, a.revision)

Local(m, c, j, x, y, po, a, v, d) ==
  IF m = "off" THEN c = "idle" /\ j = "none" /\ x = Absent /\ ~po /\ a = Inactive
  ELSE Saving(c, po, x, y, v, d) /\ Working(m, c, j, x, y, a)

LocalAt(p) ==
  Local(mode[p], pc[p], job[p], mem[p], next[p], poisoned[p], active[p], visible.state, durable.state)

\* What is on stable storage is what is visible or an earlier revision.
Behind == Same(durable.state, visible.state) \/ durable.state.revision < visible.state.revision

IInv == Types /\ Locked /\ Sole /\ (\A p \in Processes : LocalAt(p)) /\ Behind

\* Unless power is lost the visible file is as new as anything that flows could pin.
Pinned ==
  \A c \in published :
    c.revision \in Nat /\ (c = Latest(visible.state) \/ c.revision < visible.state.revision)

-----------------------------------------------------------------------------
(* Values *)

LEMMA StoredFields ==
  /\ \A s \in Stored : s.doc \in Documents /\ s.revision \in Nat /\ s.revision # 0 /\ s.audit \in Audits
  /\ \A d \in Documents, r \in Nat \ {0}, a \in Audits : State(d, r, a) \in Stored
  /\ \A d, r, a : State(d, r, a).doc = d /\ State(d, r, a).revision = r /\ State(d, r, a).audit = a
  /\ Absent.revision = 0 /\ Absent.doc = NoDocument /\ Absent \notin Stored
BY DEF Stored, State, Absent

LEMMA StateFields ==
  \A s \in States : s.revision \in Nat /\ (s.revision # 0 => s \in Stored) /\ (s # Absent => s \in Stored)
BY StoredFields DEF States

LEMMA ActiveFields ==
  /\ Inactive \in Actives /\ Inactive.revision = 0
  /\ \A d \in Documents, r \in Nat, e \in BOOLEAN : Active(d, r, e) \in Actives
  /\ \A d, r, e : Active(d, r, e).doc = d /\ Active(d, r, e).revision = r /\ Active(d, r, e).enabled = e
  /\ \A a \in Actives : a.revision \in Nat /\ a.enabled \in BOOLEAN
BY DEF Actives, Active, Inactive

\* appendAudit returns a ring within the limit whose last entry is the new one.
LEMMA AuditRing ==
  ASSUME NEW a \in Audits, NEW op \in Operations, NEW r \in Nat
  PROVE  LET b == appendAudit(a, op, r) IN
           b \in Audits /\ b # <<>> /\ b[Len(b)] = Entry(op, r)
<1> DEFINE e == Entry(op, r)
           c == Append(a, e)
<1>1. a \in Seq(Entries) /\ Len(a) \in Nat /\ Len(a) <= AuditLimit BY DEF Audits
<1>2. e \in Entries BY DEF Entry, Entries
<1>3. AuditLimit \in Nat /\ AuditLimit > 0 BY ManagedAssumption
<1> HIDE DEF e
<1>4. c \in Seq(Entries) /\ Len(c) = Len(a) + 1 /\ c[Len(c)] = e BY <1>1, <1>2
<1> HIDE DEF c
<1>5. CASE Len(c) > AuditLimit
  <2> DEFINE k == Len(c) - AuditLimit + 1
             b == SubSeq(c, k, Len(c))
  <2>1. k \in 1..Len(c) /\ Len(c) \in Nat /\ Len(c) - k + 1 = AuditLimit /\ k + AuditLimit - 1 = Len(c)
    BY ONLY <1>1, <1>3, <1>4, <1>5
  <2>2. b \in Seq(Entries) /\ Len(b) = AuditLimit /\ b[AuditLimit] = c[Len(c)]
    BY ONLY <1>3, <1>4, <2>1
  <2> HIDE DEF b
  <2>3. b \in Audits /\ b # <<>> /\ b[Len(b)] = e BY ONLY <1>3, <1>4, <2>2 DEF Audits
  <2> QED BY ONLY Zenon, <1>5, <2>3 DEF appendAudit, b, k, c, e
<1>6. CASE ~(Len(c) > AuditLimit)
  <2>1. c \in Audits /\ c # <<>> BY ONLY <1>1, <1>3, <1>4, <1>6 DEF Audits
  <2> QED BY ONLY <1>4, <1>6, <2>1 DEF appendAudit, c, e
<1> QED BY <1>5, <1>6

LEMMA EntryType == \A op \in Operations, r \in Nat : Entry(op, r) \in Entries
BY DEF Entry, Entries

LEMMA BootstrapStored ==
  \A d \in Documents : Bootstrap(d) \in Stored /\ Bootstrap(d).revision = 1
<1> SUFFICES ASSUME NEW d \in Documents PROVE Bootstrap(d) \in Stored /\ Bootstrap(d).revision = 1
  OBVIOUS
<1> DEFINE e == Entry("bootstrap", 1)
<1>1. e \in Entries
  <2>1. "bootstrap" \in Operations /\ 1 \in Nat BY DEF Operations
  <2> QED BY ONLY Zenon, <2>1, EntryType DEF e
<1> HIDE DEF e
<1>2. <<e>> \in Audits BY <1>1, ManagedAssumption DEF Audits
<1> QED BY <1>2, StoredFields DEF Bootstrap, e

LEMMA ConfiguredStored ==
  ASSUME NEW s \in Stored, NEW d \in Documents
  PROVE  Configured(s, d) \in Stored /\ Follows(s, Configured(s, d))
<1>1. s.doc \in Documents /\ s.revision \in Nat \ {0} /\ s.revision + 1 \in Nat \ {0} /\ s.audit \in Audits
  BY StoredFields
<1>2. \A op \in Operations, r \in Nat : appendAudit(s.audit, op, r) \in Audits BY <1>1, AuditRing
<1>3. Configured(s, d) \in Stored
  <2>1. "no_op" \in Operations /\ "configure" \in Operations BY DEF Operations
  <2>2. s.revision \in Nat /\ s.revision + 1 \in Nat BY <1>1
  <2>3. /\ appendAudit(s.audit, "no_op", s.revision) \in Audits
        /\ appendAudit(s.audit, "configure", s.revision + 1) \in Audits
    BY ONLY Zenon, <1>2, <2>1, <2>2
  <2> QED BY Zenon, <1>1, <2>3, StoredFields DEF Configured
<1>4. Follows(s, Configured(s, d)) BY StoredFields DEF Configured, Follows, Same
<1> QED BY <1>3, <1>4

-----------------------------------------------------------------------------
(* Steps of one process *)

\* No process but p has changed.
Moved(p) ==
  \A q \in Processes \ {p} :
    /\ mode'[q] = mode[q] /\ pc'[q] = pc[q] /\ job'[q] = job[q] /\ mem'[q] = mem[q]
    /\ next'[q] = next[q] /\ poisoned'[q] = poisoned[q] /\ active'[q] = active[q]

\* The others are off, and nothing is said of them that the files could falsify.
LEMMA OneMoves ==
  ASSUME IInv, NEW p \in Processes, mode[p] # "off" \/ \A q \in Processes : mode[q] = "off",
         Moved(p), Types', Locked', LocalAt(p)', Behind'
  PROVE  IInv'
<1>1. \A q \in Processes \ {p} : mode[q] = "off" /\ mode'[q] = "off"
  BY Zenon DEF IInv, Sole, Moved
<1>2. Sole' BY ONLY Zenon, <1>1 DEF Sole
<1>3. ASSUME NEW q \in Processes, q # p PROVE LocalAt(q)'
  <2>1. LocalAt(q) BY Zenon DEF IInv
  <2>2. /\ pc[q] = "idle" /\ job[q] = "none" /\ mem[q] = Absent /\ ~poisoned[q] /\ active[q] = Inactive
    BY ONLY Zenon, <1>1, <1>3, <2>1, q \in Processes DEF LocalAt, Local
  <2>3. /\ mode'[q] = "off" /\ pc'[q] = pc[q] /\ job'[q] = job[q] /\ mem'[q] = mem[q]
        /\ poisoned'[q] = poisoned[q] /\ active'[q] = active[q]
    BY Zenon, <1>1, <1>3 DEF Moved
  <2> QED BY ONLY Zenon, <2>2, <2>3 DEF LocalAt, Local
<1> QED BY Zenon, <1>2, <1>3 DEF IInv

LEMMA ResetStep ==
  ASSUME IInv, NEW p \in Processes, mode[p] # "off", Reset({p}), Unlock(p), UNCHANGED disk
  PROVE  IInv'
<1> USE DEF IInv
<1>1. /\ mode'[p] = "off" /\ pc'[p] = "idle" /\ job'[p] = "none" /\ mem'[p] = Absent
      /\ poisoned'[p] = FALSE /\ active'[p] = Inactive
  BY Zenon DEF Reset, With
<1>2. Moved(p) BY Zenon DEF Reset, With, Moved
<1>3. visible' = visible /\ durable' = durable BY Zenon DEF disk
<1>4. LocalAt(p)' BY ONLY Zenon, <1>1 DEF LocalAt, Local
<1>5. Types'
  <2>1. /\ mode' \in [Processes -> {"off", "serve", "configure"}]
        /\ pc' \in [Processes -> {"idle", "save", "renamed", "synced"}]
        /\ job' \in [Processes -> {"none"} \cup Starting \cup Requests]
    BY DEF Types, Reset, With
  <2>2. mem' \in [Processes -> States] /\ next' \in [Processes -> States]
    BY Zenon DEF Types, Reset, With, States
  <2>3. poisoned' \in [Processes -> BOOLEAN] /\ failed' \in [Processes -> BOOLEAN]
    BY Zenon DEF Types, Reset, With
  <2>4. active' \in [Processes -> Actives] BY Zenon, ActiveFields DEF Types, Reset, With
  <2>5. lock' \in Processes \cup {Nobody} BY Zenon DEF Types, Unlock
  <2> QED BY Zenon, <1>3, <2>1, <2>2, <2>3, <2>4, <2>5 DEF Types
<1>6. Locked'
  <2>1. lock' # p BY Zenon, ManagedAssumption DEF Unlock
  <2>2. \A q \in Processes \ {p} : (lock' = q => lock = q) /\ (lock = q => lock' = q) /\ mode'[q] = mode[q]
    BY Zenon, <1>2, ManagedAssumption DEF Unlock, Moved
  <2> QED BY Zenon, <1>1, <2>1, <2>2 DEF Locked
<1>7. Behind' BY Zenon, <1>3 DEF Behind
<1> QED BY Zenon, <1>2, <1>4, <1>5, <1>6, <1>7, OneMoves

\* A save starts: the store is what the file holds, and s follows it.
LEMMA SaveStep ==
  ASSUME IInv, NEW p \in Processes, mode[p] # "off",
         NEW why \in Starting \cup Requests, NEW s \in Stored, Save(p, why, s),
         visible.state = mem[p], Follows(mem[p], s),
         Working(mode[p], "save", why, mem[p], s, active[p]),
         UNCHANGED <<disk, lock, mode, mem, poisoned, failed, active>>
  PROVE  IInv'
<1> USE DEF IInv
<1>1. Types'
  <2>1. pc' \in [Processes -> {"idle", "save", "renamed", "synced"}] BY DEF Types, Save
  <2>2. job' \in [Processes -> {"none"} \cup Starting \cup Requests] BY DEF Types, Save
  <2>3. next' \in [Processes -> States] BY DEF Types, Save, States
  <2> QED BY Zenon, <2>1, <2>2, <2>3 DEF Types, disk
<1>2. pc'[p] = "save" /\ job'[p] = why /\ next'[p] = s /\ ~poisoned[p]
  BY Zenon DEF Types, Save
<1>3. Moved(p) BY Zenon DEF Types, Save, Moved
<1>4. LocalAt(p)'
  <2>1. /\ visible' = visible /\ durable' = durable /\ mode' = mode /\ mem' = mem
        /\ poisoned' = poisoned /\ active' = active
    BY Zenon DEF disk
  <2>2. \A d : Saving("save", poisoned[p], mem[p], s, visible.state, d) BY Zenon, <1>2 DEF Saving
  <2> QED BY Zenon, <1>2, <2>1, <2>2 DEF LocalAt, Local
<1>5. Locked' /\ Behind' BY Zenon DEF Locked, Behind, disk
<1> QED BY Zenon, <1>1, <1>3, <1>4, <1>5, OneMoves

\* A save is over and flows run on what is stored.
LEMMA IdleStep ==
  ASSUME IInv, NEW p \in Processes, mode[p] = "serve", Idle(p), ~poisoned[p],
         visible.state = mem[p], mem[p] \in Stored,
         active' \in [Processes -> Actives], \A q \in Processes \ {p} : active'[q] = active[q],
         active'[p].revision # 0, Same(active'[p], mem[p]),
         UNCHANGED <<disk, lock, mode, mem, poisoned, failed>>
  PROVE  IInv'
<1> USE DEF IInv
<1>1. Types'
  <2>1. pc' \in [Processes -> {"idle", "save", "renamed", "synced"}] BY DEF Types, Idle
  <2>2. job' \in [Processes -> {"none"} \cup Starting \cup Requests] BY DEF Types, Idle
  <2>3. next' \in [Processes -> States] BY DEF Types, Idle, States
  <2> QED BY Zenon, <2>1, <2>2, <2>3 DEF Types, disk
<1>2. pc'[p] = "idle" /\ job'[p] = "none" BY Zenon DEF Types, Idle
<1>3. Moved(p) BY Zenon DEF Types, Idle, Moved
<1>4. LocalAt(p)'
  <2>1. /\ visible' = visible /\ durable' = durable /\ mode' = mode /\ mem' = mem
        /\ poisoned' = poisoned
    BY Zenon DEF disk
  <2>2. \A y, d : Saving("idle", poisoned[p], mem[p], y, visible.state, d) BY Zenon DEF Saving
  <2>3. active'[p].doc \in Documents BY Zenon, StoredFields DEF Same
  <2>4. \A y : Working("serve", "idle", "none", mem[p], y, active'[p])
    BY ONLY <2>3, mem[p] \in Stored, active'[p].revision # 0, Same(active'[p], mem[p])
      DEF Working, Starting, Requests, Toggling
  <2> QED BY Zenon, <1>2, <2>1, <2>2, <2>4 DEF LocalAt, Local
<1>5. Locked' /\ Behind' BY Zenon DEF Locked, Behind, disk
<1> QED BY Zenon, <1>1, <1>3, <1>4, <1>5, OneMoves

\* What is known of a running process.
LEMMA Running ==
  ASSUME IInv, NEW p \in Processes, mode[p] # "off"
  PROVE  /\ Saving(pc[p], poisoned[p], mem[p], next[p], visible.state, durable.state)
         /\ Working(mode[p], pc[p], job[p], mem[p], next[p], active[p])
BY Zenon DEF IInv, LocalAt, Local

LEMMA Busy == ASSUME IInv, NEW p \in Processes, pc[p] # "idle" \/ active[p].revision # 0 PROVE mode[p] # "off"
BY Zenon, ActiveFields DEF IInv, LocalAt, Local

LEMMA Starts ==
  ASSUME IInv, Alone, NEW p \in Processes, Open(p), NEW m \in {"serve", "configure"},
         mode' = [mode EXCEPT ![p] = m], Types', UNCHANGED disk, poisoned' = poisoned, Moved(p),
         Saving(pc'[p], FALSE, mem'[p], next'[p], visible.state, durable.state),
         Working(m, pc'[p], job'[p], mem'[p], next'[p], active'[p])
  PROVE  IInv'
<1> USE DEF IInv
<1>1. \A q \in Processes : mode[q] = "off"
  <2> SUFFICES ASSUME NEW q \in Processes, mode[q] # "off" PROVE FALSE OBVIOUS
  <2>1. CASE PromptExit BY Zenon, <2>1, ManagedAssumption DEF Locked, Open
  <2>2. CASE ~PromptExit
    <3>1. p = q BY Zenon, <2>2 DEF Alone
    <3> QED BY Zenon, <3>1 DEF Open
  <2> QED BY Zenon, <2>1, <2>2
<1>2. mode'[p] = m /\ m # "off" BY DEF Types
<1>3. poisoned[p] = FALSE
  <2>1. ~poisoned[p] BY Zenon, <1>1 DEF LocalAt, Local
  <2>2. poisoned[p] \in BOOLEAN BY Zenon DEF Types
  <2> QED BY ONLY Zenon, <2>1, <2>2
<1>4. visible' = visible /\ durable' = durable /\ lock' = p BY Zenon DEF disk, Open
<1>5. LocalAt(p)' BY Zenon, <1>2, <1>3, <1>4 DEF LocalAt, Local
<1>6. Locked'
  <2>1. \A q \in Processes \ {p} : mode'[q] = "off" BY Zenon, <1>1 DEF Moved
  <2> QED BY ONLY Zenon, <1>2, <1>4, <2>1 DEF Locked
<1>7. Behind' BY Zenon, <1>4 DEF Behind
<1> QED BY Zenon, <1>1, <1>5, <1>6, <1>7, OneMoves

\* Both commands bootstrap an empty directory the same way.
LEMMA Bootstraps ==
  ASSUME IInv, Alone, NEW p \in Processes, Open(p), NEW m \in {"serve", "configure"}, NEW d \in Documents,
         mode' = [mode EXCEPT ![p] = m], visible.state = Absent, Save(p, "bootstrap", Bootstrap(d)),
         UNCHANGED <<disk, mem, active, poisoned, failed>>
  PROVE  IInv'
<1> USE DEF IInv
<1>1. /\ pc'[p] = "save" /\ job'[p] = "bootstrap" /\ next'[p] = Bootstrap(d) /\ mem'[p] = Absent
      /\ active'[p] = Inactive
  <2>1. mem[p] = Absent /\ active[p] = Inactive BY Zenon DEF Open, LocalAt, Local
  <2> QED BY Zenon, <2>1 DEF Types, Save
<1>2. Bootstrap(d) \in Stored /\ Bootstrap(d).revision = 1 BY Zenon, BootstrapStored
<1>3. Types'
  <2>1. mode' \in [Processes -> {"off", "serve", "configure"}] BY DEF Types
  <2>2. pc' \in [Processes -> {"idle", "save", "renamed", "synced"}] BY DEF Types, Save
  <2>3. job' \in [Processes -> {"none"} \cup Starting \cup Requests] BY DEF Types, Save, Starting
  <2>4. next' \in [Processes -> States] BY <1>2 DEF Types, Save, States
  <2>5. lock' \in Processes \cup {Nobody} BY Zenon DEF Open
  <2> QED BY Zenon, <2>1, <2>2, <2>3, <2>4, <2>5 DEF Types, disk
<1>4. Moved(p) BY Zenon DEF Types, Save, Moved
<1>5. \A z : Saving("save", FALSE, Absent, Bootstrap(d), Absent, z)
  <2>1. Absent.revision = 0 BY StoredFields
  <2> QED BY ONLY <1>2, <2>1 DEF Saving, Follows
<1>6. Working(m, "save", "bootstrap", Absent, Bootstrap(d), Inactive)
  <2>1. Inactive.revision = 0 BY ActiveFields
  <2> QED BY ONLY <1>2, <2>1 DEF Working, Starting, Requests, Toggling
<1>7. poisoned' = poisoned /\ UNCHANGED disk OBVIOUS
<1> QED BY Zenon, <1>1, <1>3, <1>4, <1>5, <1>6, <1>7, Starts

LEMMA ServeStep ==
  ASSUME IInv, Alone, NEW p \in Processes, NEW d \in Documents, NEW flag \in BOOLEAN, Serve(p, d, flag)
  PROVE  IInv'
<1> USE DEF IInv
<1> DEFINE v == visible.state
<1>1. Open(p) /\ mode' = [mode EXCEPT ![p] = "serve"] /\ UNCHANGED <<disk, poisoned, failed>> BY Zenon DEF Serve
<1>2. CASE v = Absent /\ Save(p, "bootstrap", Bootstrap(d)) /\ UNCHANGED <<mem, active, published>>
  BY Zenon, <1>1, <1>2, Bootstraps
<1>3. CASE /\ v.revision > 0
           /\ mem' = [mem EXCEPT ![p] = v]
           /\ active' = [active EXCEPT ![p] = Active(v.doc, v.revision, flag)]
           /\ UNCHANGED <<pc, job, next>>
  <2>1. v \in States BY DEF Types, Files
  <2>2. v \in Stored /\ v.doc \in Documents /\ v.revision \in Nat /\ v.revision # 0
    <3>1. v.revision # 0 BY <1>3
    <3> QED BY Zenon, <2>1, <3>1, StateFields, StoredFields
  <2> DEFINE a == Active(v.doc, v.revision, flag)
  <2>3. a \in Actives /\ Same(a, v) /\ a.revision # 0 /\ a.doc \in Documents
    <3>1. flag \in BOOLEAN /\ a.doc = v.doc /\ a.revision = v.revision BY ONLY flag \in BOOLEAN DEF Active, a
    <3>2. a \in Actives BY Zenon, <2>2, ActiveFields
    <3> HIDE DEF a
    <3> QED BY ONLY <2>2, <3>1, <3>2 DEF Same
  <2> HIDE DEF a
  <2>4. /\ pc'[p] = "idle" /\ job'[p] = "none" /\ mem'[p] = v /\ active'[p] = a
    <3>1. pc[p] = "idle" /\ job[p] = "none" BY Zenon, <1>1 DEF Open, LocalAt, Local
    <3> QED BY Zenon, <1>3, <3>1 DEF Types, a
  <2>5. Types'
    <3>1. mode' \in [Processes -> {"off", "serve", "configure"}] BY <1>1 DEF Types
    <3>2. mem' \in [Processes -> States] BY ONLY <1>3, <2>1, Types DEF Types
    <3>3. active' \in [Processes -> Actives] BY ONLY <1>3, <2>3, Types DEF Types, a
    <3>4. lock' \in Processes \cup {Nobody} BY Zenon, <1>1 DEF Open
    <3> QED BY Zenon, <1>1, <1>3, <3>1, <3>2, <3>3, <3>4 DEF Types, disk
  <2>6. Moved(p) BY Zenon, <1>1, <1>3 DEF Types, Moved
  <2>7. \A y, z : Saving("idle", FALSE, v, y, v, z) BY Zenon DEF Saving
  <2>8. \A y : Working("serve", "idle", "none", v, y, a)
    BY ONLY <2>2, <2>3 DEF Working, Starting, Requests, Toggling
  <2>9. poisoned' = poisoned /\ UNCHANGED disk BY <1>1
  <2> QED BY Zenon, <1>1, <2>4, <2>5, <2>6, <2>7, <2>8, <2>9, Starts
<1> QED BY Zenon, <1>2, <1>3 DEF Serve

LEMMA ConfigureStep ==
  ASSUME IInv, Alone, NEW p \in Processes, NEW d \in Documents, Configure(p, d)
  PROVE  IInv'
<1> USE DEF IInv
<1> DEFINE v == visible.state
           s == Configured(v, d)
<1>1. /\ Open(p) /\ mode' = [mode EXCEPT ![p] = "configure"]
      /\ UNCHANGED <<disk, poisoned, failed, active, history>>
  BY Zenon DEF Configure
<1>2. CASE v = Absent /\ Save(p, "bootstrap", Bootstrap(d)) /\ UNCHANGED mem
  BY Zenon, <1>1, <1>2, Bootstraps
<1>3. CASE v.revision > 0 /\ mem' = [mem EXCEPT ![p] = v] /\ Save(p, "configure", s)
  <2>1. v \in States BY DEF Types, Files
  <2>2. v \in Stored
    <3>1. v.revision # 0 BY <1>3
    <3> QED BY Zenon, <2>1, <3>1, StateFields
  <2>3. s \in Stored /\ Follows(v, s) BY Zenon, <2>2, ConfiguredStored
  <2> HIDE DEF s
  <2>4. /\ pc'[p] = "save" /\ job'[p] = "configure" /\ mem'[p] = v /\ next'[p] = s /\ active'[p] = Inactive
    <3>1. active[p] = Inactive BY Zenon, <1>1 DEF Open, LocalAt, Local
    <3> QED BY Zenon, <1>1, <1>3, <3>1 DEF Types, Save
  <2>5. Types'
    <3>1. mode' \in [Processes -> {"off", "serve", "configure"}] BY <1>1 DEF Types
    <3>2. mem' \in [Processes -> States] BY ONLY <1>3, <2>1, Types DEF Types
    <3>3. next' \in [Processes -> States] BY ONLY <1>3, <2>3, Types DEF Types, Save, States
    <3>4. lock' \in Processes \cup {Nobody} BY Zenon, <1>1 DEF Open
    <3>5. pc' \in [Processes -> {"idle", "save", "renamed", "synced"}] BY <1>3 DEF Types, Save
    <3>6. job' \in [Processes -> {"none"} \cup Starting \cup Requests] BY <1>3 DEF Types, Save, Starting
    <3> QED BY Zenon, <1>1, <1>3, <3>1, <3>2, <3>3, <3>4, <3>5, <3>6 DEF Types, disk
  <2>6. Moved(p) BY Zenon, <1>1, <1>3 DEF Types, Moved, Save
  <2>7. \A z : Saving("save", FALSE, v, s, v, z) BY ONLY <2>3 DEF Saving
  <2>8. Working("configure", "save", "configure", v, s, Inactive)
    <3>1. Inactive.revision = 0 BY ActiveFields
    <3> QED BY ONLY <3>1 DEF Working, Starting, Requests, Toggling
  <2>9. poisoned' = poisoned /\ UNCHANGED disk BY <1>1
  <2> QED BY Zenon, <1>1, <2>4, <2>5, <2>6, <2>7, <2>8, <2>9, Starts
<1> QED BY Zenon, <1>2, <1>3 DEF Configure

-----------------------------------------------------------------------------
(* Requests *)

LEMMA AuditedStored ==
  ASSUME IInv, NEW p \in Processes, mem[p] \in Stored, NEW op \in Operations
  PROVE  LET s == Audited(p, op) IN
           /\ s \in Stored /\ Same(mem[p], s) /\ s.audit # <<>>
           /\ s.audit[Len(s.audit)] = Entry(op, active[p].revision)
<1> DEFINE x == mem[p]
           r == active[p].revision
           b == appendAudit(x.audit, op, r)
           s == State(x.doc, x.revision, b)
<1>1. r \in Nat BY Zenon, ActiveFields DEF IInv, Types
<1>2. x.doc \in Documents /\ x.revision \in Nat \ {0} /\ x.audit \in Audits BY StoredFields
<1> HIDE DEF r, x
<1>3. b \in Audits /\ b # <<>> /\ b[Len(b)] = Entry(op, r) BY <1>1, <1>2, AuditRing
<1> HIDE DEF b
<1>4. s \in Stored /\ s.doc = x.doc /\ s.revision = x.revision /\ s.audit = b
  BY ONLY <1>2, <1>3, StoredFields
<1>5. s = Audited(p, op) BY ONLY Zenon DEF s, b, r, x, Audited
<1> HIDE DEF s
<1>6. s \in Stored /\ Same(x, s) /\ s.audit # <<>> /\ s.audit[Len(s.audit)] = Entry(op, r)
  BY ONLY <1>3, <1>4 DEF Same
<1> QED BY ONLY Zenon, <1>5, <1>6 DEF x, r

\* An idle process that can save has the file's state in memory and runs on it.
LEMMA AtRest ==
  ASSUME IInv, NEW p \in Processes, Ready(p), ~poisoned[p]
  PROVE  /\ mode[p] = "serve" /\ visible.state = mem[p] /\ mem[p] \in Stored
         /\ active[p].revision # 0 /\ active[p].doc \in Documents /\ Same(active[p], mem[p])
<1>1. mode[p] = "serve" /\ pc[p] = "idle" /\ active[p].revision # 0 BY Zenon DEF Ready
<1>2. /\ Saving("idle", poisoned[p], mem[p], next[p], visible.state, durable.state)
      /\ Working("serve", "idle", job[p], mem[p], next[p], active[p])
  BY Zenon, <1>1, Running
<1>3. visible.state = mem[p] BY Zenon, <1>2 DEF Saving
<1>4. job[p] = "none" BY Zenon, <1>2 DEF Working
<1>5. mem[p] \in Stored /\ active[p].doc \in Documents /\ Same(active[p], mem[p])
  BY ONLY <1>1, <1>2, <1>4 DEF Working
<1> QED BY Zenon, <1>1, <1>3, <1>5

LEMMA NoteSave ==
  ASSUME IInv, NEW p \in Processes, mode[p] = "serve", visible.state = mem[p], mem[p] \in Stored,
         active[p].revision # 0, active[p].doc \in Documents, Same(active[p], mem[p]),
         NEW why \in Toggling \cup {"note"}, NEW op \in Operations, why = "note" \/ op = why,
         Save(p, why, Audited(p, op)), UNCHANGED <<disk, lock, mode, mem, poisoned, failed, active>>
  PROVE  IInv'
<1> DEFINE s == Audited(p, op)
<1>1. /\ s \in Stored /\ Same(mem[p], s) /\ s.audit # <<>>
      /\ s.audit[Len(s.audit)] = Entry(op, active[p].revision)
  BY Zenon, AuditedStored
<1>2. Save(p, why, s) OBVIOUS
<1> HIDE DEF s
<1>3. Follows(mem[p], s) BY ONLY Zenon, <1>1 DEF Follows
<1>4. Same(active[p], s) BY ONLY Same(active[p], mem[p]), <1>1 DEF Same
<1>5. why \in Requests /\ why \notin Starting /\ why # "apply" BY DEF Requests, Toggling, Starting
<1>6. why \in Toggling => op = why BY DEF Toggling
<1>7. Working("serve", "save", why, mem[p], s, active[p])
  <2>1. mem[p] \in Stored /\ active[p].doc \in Documents /\ Same(active[p], mem[p]) /\ active[p].revision # 0
    OBVIOUS
  <2>2. why # "configure" /\ why # "bootstrap" BY ONLY <1>5 DEF Starting
  <2> QED BY ONLY Zenon, <1>1, <1>4, <1>5, <1>6, <2>1, <2>2 DEF Working
<1>8. mode[p] # "off" OBVIOUS
<1> QED BY Zenon, <1>1, <1>2, <1>3, <1>5, <1>7, <1>8, SaveStep

LEMMA NoteStep == ASSUME IInv, NEW p \in Processes, Note(p) PROVE IInv'
<1>1. "note" \in Toggling \cup {"note"} /\ "note" \in Operations BY DEF Operations
<1>2. ~poisoned[p] /\ Save(p, "note", Audited(p, "note")) BY Zenon DEF Note, Save
<1>3. Ready(p) /\ UNCHANGED <<disk, lock, mode, mem, poisoned, failed, active>> BY DEF Note
<1> QED BY Zenon, <1>1, <1>2, <1>3, AtRest, NoteSave

LEMMA ToggleStep == ASSUME IInv, NEW p \in Processes, NEW b \in BOOLEAN, Toggle(p, b) PROVE IInv'
<1>1. ToggleName(b) \in Toggling \cup {"note"} /\ ToggleName(b) \in Operations
  BY DEF ToggleName, Toggling, Operations
<1>2. ~poisoned[p] /\ Save(p, ToggleName(b), Audited(p, ToggleName(b))) BY Zenon DEF Toggle, Save
<1>3. Ready(p) /\ UNCHANGED <<disk, lock, mode, mem, poisoned, failed, active>> BY DEF Toggle
<1> QED BY Zenon, <1>1, <1>2, <1>3, AtRest, NoteSave

LEMMA ApplyStep == ASSUME IInv, NEW p \in Processes, NEW d \in Documents, Apply(p, d) PROVE IInv'
<1> DEFINE x == mem[p]
           a == active[p]
           r == IF a.doc = d THEN a.revision ELSE a.revision + 1
           b == appendAudit(x.audit, "apply", r)
           s == State(d, r, b)
<1>1. ~poisoned[p] /\ Ready(p) /\ Save(p, "apply", Applied(p, d)) BY Zenon DEF Apply, Save
<1>2. UNCHANGED <<disk, lock, mode, mem, poisoned, failed, active>> BY DEF Apply
<1>3. /\ mode[p] = "serve" /\ visible.state = x /\ x \in Stored
      /\ a.revision # 0 /\ a.doc \in Documents /\ Same(a, x)
  BY Zenon, <1>1, AtRest
<1>4. a.revision \in Nat BY Zenon, ActiveFields DEF IInv, Types
<1>5. x.audit \in Audits /\ "apply" \in Operations BY Zenon, <1>3, StoredFields DEF Operations
<1>6. r \in Nat /\ r # 0 BY <1>3, <1>4
<1>7. b \in Audits BY Zenon, <1>5, <1>6, AuditRing
<1>8. (r = a.revision /\ a.doc = d) \/ r = a.revision + 1 OBVIOUS
<1>9. s = Applied(p, d) BY Zenon DEF Applied
<1> HIDE DEF r, b
<1>10. s \in Stored /\ s.doc = d /\ s.revision = r BY ONLY <1>6, <1>7, StoredFields, d \in Documents
<1> HIDE DEF s
<1>11. Follows(a, s) /\ Follows(x, s)
  BY ONLY <1>3, <1>8, <1>10 DEF Follows, Same
<1> HIDE DEF x, a
<1>12. Working("serve", "save", "apply", x, s, a)
  BY ONLY <1>3, <1>11 DEF Working, Requests, Toggling, Starting
<1>13. "apply" \in Starting \cup Requests /\ mode[p] # "off" BY <1>3 DEF Requests
<1> QED BY Zenon, <1>1, <1>2, <1>3, <1>9, <1>10, <1>11, <1>12, <1>13, SaveStep DEF x, a

-----------------------------------------------------------------------------
(* Storage, and what follows a save *)

LEMMA RenameStep == ASSUME IInv, NEW p \in Processes, Rename(p) PROVE IInv'
<1> USE DEF IInv
<1> DEFINE x == mem[p]
           y == next[p]
<1>1. pc[p] = "save" /\ visible' = File(y, TRUE) /\ pc' = [pc EXCEPT ![p] = "renamed"] BY Zenon DEF Rename, Temp
<1>2. UNCHANGED <<durable, lock, mode, job, mem, next, poisoned, failed, active>> BY DEF Rename
<1>3. mode[p] # "off" BY Zenon, <1>1, Busy
<1>4. /\ Saving("save", poisoned[p], x, y, visible.state, durable.state)
      /\ Working(mode[p], "save", job[p], x, y, active[p])
  BY Zenon, <1>1, <1>3, Running
<1>5. ~poisoned[p] /\ y \in Stored /\ visible.state = x /\ Follows(x, y) BY Zenon, <1>4 DEF Saving
<1>6. visible' \in Files /\ visible'.state = y BY ONLY <1>1, <1>5 DEF Files, File, States
<1>7. pc'[p] = "renamed" BY Zenon, <1>1 DEF Types
<1>8. Types'
  <2>1. pc' \in [Processes -> {"idle", "save", "renamed", "synced"}] BY <1>1 DEF Types
  <2> QED BY Zenon, <1>2, <1>6, <2>1 DEF Types
<1>9. Moved(p) BY Zenon, <1>1, <1>2 DEF Types, Moved
<1>10. Saving("renamed", poisoned[p], x, y, y, durable.state) BY ONLY <1>5 DEF Saving
<1>11. Working(mode[p], "renamed", job[p], x, y, active[p]) BY ONLY <1>4 DEF Working
<1>12. LocalAt(p)' BY ONLY Zenon, <1>2, <1>3, <1>6, <1>7, <1>10, <1>11 DEF LocalAt, Local, x, y
<1>13. Locked' BY Zenon, <1>2 DEF Locked
<1>14. Behind'
  <2>1. durable.state.revision \in Nat /\ x.revision \in Nat /\ y.revision \in Nat
    <3>1. durable.state \in States /\ x \in States /\ y \in States BY DEF Types, Files
    <3> QED BY Zenon, <3>1, StateFields
  <2>2. Same(durable.state, x) \/ durable.state.revision < x.revision BY Zenon, <1>5 DEF Behind
  <2>3. Same(durable.state, y) \/ durable.state.revision < y.revision
    BY ONLY <1>5, <2>1, <2>2 DEF Follows, Same
  <2> QED BY ONLY Zenon, <1>2, <1>6, <2>3 DEF Behind
<1> QED BY Zenon, <1>3, <1>8, <1>9, <1>12, <1>13, <1>14, OneMoves

LEMMA SyncDirStep == ASSUME IInv, NEW p \in Processes, SyncDir(p) PROVE IInv'
<1> USE DEF IInv
<1> DEFINE x == mem[p]
           y == next[p]
           a == active[p]
<1>1. /\ pc[p] = "renamed" /\ durable' = visible /\ mem' = [mem EXCEPT ![p] = y]
      /\ pc' = [pc EXCEPT ![p] = "synced"]
  BY Zenon DEF SyncDir
<1>2. UNCHANGED <<visible, lock, mode, job, next, poisoned, failed, active>> BY DEF SyncDir
<1>3. mode[p] # "off" BY Zenon, <1>1, Busy
<1>4. /\ Saving("renamed", poisoned[p], x, y, visible.state, durable.state)
      /\ Working(mode[p], "renamed", job[p], x, y, a)
  BY Zenon, <1>1, <1>3, Running
<1>5. ~poisoned[p] /\ y \in Stored /\ visible.state = y /\ Follows(x, y) BY Zenon, <1>4 DEF Saving
<1>6. pc'[p] = "synced" /\ mem'[p] = y BY Zenon, <1>1 DEF Types
<1>7. Types'
  <2>1. pc' \in [Processes -> {"idle", "save", "renamed", "synced"}] BY <1>1 DEF Types
  <2>2. mem' \in [Processes -> States] BY <1>1, <1>5 DEF Types, States
  <2> QED BY Zenon, <1>1, <1>2, <2>1, <2>2 DEF Types
<1>8. Moved(p) BY Zenon, <1>1, <1>2 DEF Types, Moved
<1>9. Saving("synced", poisoned[p], y, y, y, y) BY ONLY <1>5 DEF Saving
<1>10. Working(mode[p], "synced", job[p], y, y, a)
  <2>1. a.revision # 0 => job[p] \in Requests BY ONLY <1>4, ActiveFields DEF Working
  <2>2. job[p] \in Requests => job[p] = "apply" \/ job[p] \in Toggling \cup {"note"} BY DEF Requests
  <2>3. a.revision # 0 /\ job[p] # "apply" => Same(a, y) BY ONLY <1>4, <2>1, <2>2 DEF Working
  <2> QED BY ONLY <1>4, <1>5, <2>3 DEF Working
<1>11. LocalAt(p)' BY ONLY Zenon, <1>1, <1>2, <1>3, <1>5, <1>6, <1>9, <1>10 DEF LocalAt, Local, y, a
<1>12. Locked' BY Zenon, <1>2 DEF Locked
<1>13. Behind' BY ONLY Zenon, <1>1, <1>2 DEF Behind, Same
<1> QED BY Zenon, <1>3, <1>7, <1>8, <1>11, <1>12, <1>13, OneMoves

\* A save that fails before its rename has changed nothing, one that fails after it may have.
LEMMA SaveFailsStep == ASSUME IInv, NEW p \in Processes, SaveFails(p) PROVE IInv'
<1> USE DEF IInv
<1> DEFINE x == mem[p]
           a == active[p]
<1>1. pc[p] = "save" /\ UNCHANGED disk BY DEF SaveFails
<1>2. mode[p] # "off" BY Zenon, <1>1, Busy
<1>3. /\ Saving("save", poisoned[p], x, next[p], visible.state, durable.state)
      /\ Working(mode[p], "save", job[p], x, next[p], a)
  BY Zenon, <1>1, <1>2, Running
<1>4. visible.state = x /\ ~poisoned[p] BY Zenon, <1>3 DEF Saving
<1>5. ASSUME job[p] \in Requests
      PROVE mode[p] = "serve" /\ a.revision # 0 /\ x \in Stored /\ a.doc \in Documents /\ Same(a, x)
  <2>1. mode[p] = "serve" /\ a.revision # 0
    BY ONLY <1>3, <1>5 DEF Working, Requests, Toggling, Starting
  <2> QED BY ONLY <1>3, <2>1 DEF Working
<1>6. CASE Reset({p}) /\ Unlock(p) BY Zenon, <1>1, <1>2, <1>6, ResetStep
<1>7. CASE /\ job[p] = "apply" /\ Save(p, "note", Audited(p, "failed"))
           /\ UNCHANGED <<lock, mode, mem, poisoned, failed, active>>
  <2>1. "note" \in Toggling \cup {"note"} /\ "failed" \in Operations /\ job[p] \in Requests
    BY <1>7 DEF Operations, Requests
  <2>2. UNCHANGED <<disk, lock, mode, mem, poisoned, failed, active>> BY <1>1, <1>7
  <2> QED BY Zenon, <1>4, <1>5, <1>7, <2>1, <2>2, NoteSave
<1>8. CASE /\ job[p] \in {"note", "enable", "disable"} /\ Idle(p)
           /\ UNCHANGED <<lock, mode, mem, poisoned, failed, active>>
  <2>1. job[p] \in Requests BY <1>8 DEF Requests, Toggling
  <2>2. active' = active /\ active' \in [Processes -> Actives] BY Zenon, <1>8 DEF Types
  <2>3. UNCHANGED <<disk, lock, mode, mem, poisoned, failed>> BY <1>1, <1>8
  <2> QED BY Zenon, <1>4, <1>5, <1>8, <2>1, <2>2, <2>3, IdleStep
<1> QED BY Zenon, <1>6, <1>7, <1>8 DEF SaveFails

LEMMA SyncFailsStep == ASSUME IInv, NEW p \in Processes, SyncFails(p) PROVE IInv'
<1> USE DEF IInv
<1> DEFINE x == mem[p]
           y == next[p]
           a == active[p]
<1>1. pc[p] = "renamed" /\ visible' = visible /\ durable' = durable BY DEF SyncFails, disk
<1>2. mode[p] # "off" BY Zenon, <1>1, Busy
<1>3. /\ Saving("renamed", poisoned[p], x, y, visible.state, durable.state)
      /\ Working(mode[p], "renamed", job[p], x, y, a)
  BY Zenon, <1>1, <1>2, Running
<1>4. CASE Reset({p}) /\ Unlock(p)
  <2>1. UNCHANGED disk BY <1>1 DEF disk
  <2> QED BY Zenon, <1>2, <1>4, <2>1, ResetStep
<1>5. CASE /\ job[p] \notin {"bootstrap", "configure"}
           /\ poisoned' = With(poisoned, {p}, TRUE) /\ failed' = Report(p) /\ Idle(p)
           /\ UNCHANGED <<lock, mode, mem, active>>
  <2>1. visible.state = y /\ Follows(x, y) BY Zenon, <1>3 DEF Saving
  <2>2. mode[p] = "serve" /\ a.revision # 0 BY ONLY <1>3, <1>5 DEF Working, Starting
  <2>3. x \in Stored /\ a.doc \in Documents /\ Same(a, x) BY ONLY <1>3, <2>2 DEF Working
  <2>4. pc'[p] = "idle" /\ job'[p] = "none" /\ poisoned'[p] = TRUE BY Zenon, <1>5 DEF Types, Idle, With
  <2>5. \A z : Saving("idle", TRUE, x, z, y, durable.state) BY ONLY Zenon, <2>1 DEF Saving
  <2>6. \A z : Working("serve", "idle", "none", x, z, a)
    BY ONLY <2>2, <2>3 DEF Working, Starting, Requests, Toggling
  <2>7. LocalAt(p)'
    <3>1. mode'[p] = "serve" /\ mem'[p] = x /\ active'[p] = a /\ visible'.state = y
      BY Zenon, <1>1, <1>5, <2>1, <2>2
    <3> QED BY ONLY Zenon, <1>1, <2>4, <2>5, <2>6, <3>1 DEF LocalAt, Local
  <2>8. Types'
    <3>1. pc' \in [Processes -> {"idle", "save", "renamed", "synced"}] BY <1>5 DEF Types, Idle
    <3>2. job' \in [Processes -> {"none"} \cup Starting \cup Requests] BY <1>5 DEF Types, Idle
    <3>3. next' \in [Processes -> States] BY <1>5 DEF Types, Idle, States
    <3>4. poisoned' \in [Processes -> BOOLEAN] /\ failed' \in [Processes -> BOOLEAN]
      BY Zenon, <1>5 DEF Types, With, Report
    <3> QED BY Zenon, <1>1, <1>5, <3>1, <3>2, <3>3, <3>4 DEF Types
  <2>9. Moved(p) BY Zenon, <1>5 DEF Types, Idle, With, Moved
  <2>10. Locked' /\ Behind' BY Zenon, <1>1, <1>5 DEF Locked, Behind
  <2> QED BY Zenon, <1>2, <2>7, <2>8, <2>9, <2>10, OneMoves
<1> QED BY Zenon, <1>4, <1>5 DEF SyncFails

\* After a save the store, the visible file and the one on stable storage agree.
LEMMA AfterSave ==
  ASSUME IInv, NEW p \in Processes, Saved(p)
  PROVE  /\ mode[p] # "off" /\ ~poisoned[p] /\ next[p] \in Stored
         /\ visible.state = next[p] /\ durable.state = next[p] /\ mem[p] = next[p]
         /\ Working(mode[p], "synced", job[p], next[p], next[p], active[p])
<1>1. pc[p] = "synced" BY Zenon DEF Saved
<1>2. mode[p] # "off" BY Zenon, <1>1, Busy
<1>3. /\ Saving("synced", poisoned[p], mem[p], next[p], visible.state, durable.state)
      /\ Working(mode[p], "synced", job[p], mem[p], next[p], active[p])
  BY Zenon, <1>1, <1>2, Running
<1>4. /\ ~poisoned[p] /\ next[p] \in Stored
      /\ visible.state = next[p] /\ durable.state = next[p] /\ mem[p] = next[p]
  BY ONLY Zenon, <1>3 DEF Saving
<1> QED BY ONLY Zenon, <1>2, <1>3, <1>4

\* Flows run on what was saved.
LEMMA Activates ==
  ASSUME IInv, NEW p \in Processes, Saved(p), mode[p] = "serve", Idle(p), NEW e \in BOOLEAN,
         active' = [active EXCEPT ![p] = Active(next[p].doc, next[p].revision, e)],
         UNCHANGED <<disk, lock, mode, mem, poisoned, failed>>
  PROVE  IInv'
<1> DEFINE y == next[p]
           a == Active(y.doc, y.revision, e)
<1>1. ~poisoned[p] /\ y \in Stored /\ visible.state = mem[p] /\ mem[p] = y BY Zenon, AfterSave
<1>2. y.doc \in Documents /\ y.revision \in Nat /\ y.revision # 0 BY Zenon, <1>1, StoredFields
<1>3. a.doc = y.doc /\ a.revision = y.revision BY ONLY TRUE DEF Active, a
<1>4. a \in Actives BY Zenon, <1>2, ActiveFields
<1>5. active' = [active EXCEPT ![p] = a] /\ active \in [Processes -> Actives] BY Zenon DEF IInv, Types
<1> HIDE DEF a
<1>6. /\ active'[p] = a /\ active' \in [Processes -> Actives]
      /\ \A q \in Processes \ {p} : active'[q] = active[q]
  BY ONLY <1>4, <1>5, p \in Processes
<1>7. Same(a, y) /\ a.revision # 0 BY ONLY <1>2, <1>3 DEF Same
<1> QED BY Zenon, <1>1, <1>6, <1>7, IdleStep

LEMMA FinishBootstrapStep ==
  ASSUME IInv, NEW p \in Processes, NEW flag \in BOOLEAN, FinishBootstrap(p, flag) PROVE IInv'
<1>1. Saved(p) /\ UNCHANGED <<disk, lock, mode, mem, poisoned, failed>> BY DEF FinishBootstrap
<1>2. CASE /\ mode[p] = "serve" /\ Idle(p)
           /\ active' = [active EXCEPT ![p] = Active(next[p].doc, next[p].revision, flag)]
  BY Zenon, <1>1, <1>2, Activates
<1>3. CASE /\ mode[p] = "configure" /\ Save(p, "configure", Configured(next[p], next[p].doc))
           /\ UNCHANGED active
  <2> DEFINE y == next[p]
             s == Configured(y, y.doc)
  <2>1. /\ mode[p] # "off" /\ y \in Stored /\ visible.state = y /\ mem[p] = y
        /\ Working(mode[p], "synced", job[p], y, y, active[p])
    BY Zenon, <1>1, AfterSave
  <2>2. y.doc \in Documents BY Zenon, <2>1, StoredFields
  <2>3. s \in Stored /\ Follows(y, s) BY Zenon, <2>1, <2>2, ConfiguredStored
  <2>4. active[p] = Inactive /\ Inactive.revision = 0 BY ONLY <1>3, <2>1, ActiveFields DEF Working
  <2> HIDE DEF s, y
  <2>5. Working("configure", "save", "configure", y, s, active[p])
    BY ONLY <2>4 DEF Working, Starting, Requests, Toggling
  <2>6. "configure" \in Starting \cup Requests BY DEF Starting
  <2>7. UNCHANGED <<disk, lock, mode, mem, poisoned, failed, active>> BY <1>1, <1>3
  <2>8. Save(p, "configure", s) /\ mode[p] = "configure" BY Zenon, <1>3 DEF s, y
  <2> QED BY Zenon, <2>1, <2>3, <2>5, <2>6, <2>7, <2>8, SaveStep
<1> QED BY Zenon, <1>2, <1>3 DEF FinishBootstrap

LEMMA FinishConfigureStep == ASSUME IInv, NEW p \in Processes, FinishConfigure(p) PROVE IInv'
<1>1. Saved(p) /\ Reset({p}) /\ Unlock(p) /\ UNCHANGED disk BY DEF FinishConfigure
<1> QED BY Zenon, <1>1, AfterSave, ResetStep

\* A request that was not an apply: flows run on the revision that was saved again.
LEMMA AfterNote ==
  ASSUME IInv, NEW p \in Processes, Saved(p), job[p] \in Toggling \cup {"note"}
  PROVE  mode[p] = "serve" /\ active[p].revision # 0 /\ Same(active[p], next[p])
<1>1. Working(mode[p], "synced", job[p], next[p], next[p], active[p]) BY Zenon, AfterSave
<1>2. job[p] \notin Starting BY DEF Toggling, Starting
<1>3. mode[p] = "serve" /\ active[p].revision # 0 BY ONLY <1>1, <1>2 DEF Working
<1>4. Same(active[p], next[p]) BY Zenon, <1>1 DEF Working
<1> QED BY Zenon, <1>3, <1>4

LEMMA FinishNoteStep == ASSUME IInv, NEW p \in Processes, FinishNote(p) PROVE IInv'
<1>1. job[p] = "note" /\ Saved(p) /\ Idle(p) /\ UNCHANGED <<disk, lock, mode, mem, poisoned, failed, active>>
  BY DEF FinishNote
<1>2. job[p] \in Toggling \cup {"note"} BY <1>1
<1>3. active' = active /\ active' \in [Processes -> Actives] BY Zenon, <1>1 DEF IInv, Types
<1>4. UNCHANGED <<disk, lock, mode, mem, poisoned, failed>> BY <1>1
<1>5. mode[p] = "serve" /\ active[p].revision # 0 /\ Same(active[p], next[p]) BY Zenon, <1>1, <1>2, AfterNote
<1>6. ~poisoned[p] /\ next[p] \in Stored /\ visible.state = next[p] /\ mem[p] = next[p] BY Zenon, <1>1, AfterSave
<1> QED BY Zenon, <1>1, <1>3, <1>4, <1>5, <1>6, IdleStep

LEMMA FinishToggleStep ==
  ASSUME IInv, NEW p \in Processes, NEW b \in BOOLEAN, FinishToggle(p, b) PROVE IInv'
<1> DEFINE a == active[p]
<1>1. /\ job[p] = ToggleName(b) /\ Saved(p) /\ Idle(p)
      /\ active' = [active EXCEPT ![p] = Active(a.doc, a.revision, b)]
  BY Zenon DEF FinishToggle
<1>2. UNCHANGED <<disk, lock, mode, mem, poisoned, failed>> BY DEF FinishToggle
<1>3. job[p] \in Toggling \cup {"note"} BY <1>1 DEF ToggleName, Toggling
<1>4. mode[p] = "serve" /\ Same(a, next[p]) BY Zenon, <1>1, <1>3, AfterNote
<1>5. Active(a.doc, a.revision, b) = Active(next[p].doc, next[p].revision, b) BY Zenon, <1>4 DEF Same
<1> QED BY Zenon, <1>1, <1>2, <1>4, <1>5, Activates

LEMMA FinishApplyStep == ASSUME IInv, NEW p \in Processes, FinishApply(p) PROVE IInv'
<1>1. /\ job[p] = "apply" /\ Saved(p) /\ Idle(p)
      /\ active' = [active EXCEPT ![p] = Active(next[p].doc, next[p].revision, active[p].enabled)]
  BY Zenon DEF FinishApply
<1>2. UNCHANGED <<disk, lock, mode, mem, poisoned, failed>> BY DEF FinishApply
<1>3. Working(mode[p], "synced", "apply", next[p], next[p], active[p]) BY Zenon, <1>1, AfterSave
<1>4. mode[p] = "serve" BY ONLY <1>3 DEF Working, Starting
<1>5. active[p].enabled \in BOOLEAN BY Zenon, ActiveFields DEF IInv, Types
<1> QED BY Zenon, <1>1, <1>2, <1>4, <1>5, Activates

LEMMA EndStep == ASSUME IInv, NEW p \in Processes, End(p) PROVE IInv'
<1>1. mode[p] # "off" /\ Reset({p}) /\ Unlock(p) /\ UNCHANGED disk BY DEF End
<1> QED BY Zenon, <1>1, ResetStep

LEMMA ReleaseLockStep == ASSUME IInv, NEW p \in Processes, ReleaseLock(p) PROVE IInv'
<1>1. /\ ~PromptExit /\ lock' = Nobody /\ UNCHANGED <<visible, durable>>
      /\ UNCHANGED <<mode, pc, job, mem, next, poisoned, failed, active>>
  BY DEF ReleaseLock, disk, process
<1>2. Types' BY Zenon, <1>1 DEF IInv, Types
<1>3. Locked' BY Zenon, <1>1, ManagedAssumption DEF Locked
<1> QED BY Zenon, <1>1, <1>2, <1>3 DEF IInv, Sole, LocalAt, Behind

LEMMA PowerLossStep == ASSUME IInv, PowerLoss PROVE IInv'
<1>1. lock' = Nobody /\ Reset(Processes) BY DEF PowerLoss
<1>2. visible' = durable /\ durable' = durable
  <2>1. durable.flushed BY Zenon DEF IInv, Types, Files
  <2> QED BY Zenon, <2>1 DEF PowerLoss
<1>3. \A p \in Processes :
        /\ mode'[p] = "off" /\ pc'[p] = "idle" /\ job'[p] = "none" /\ mem'[p] = Absent
        /\ next'[p] = Absent /\ poisoned'[p] = FALSE /\ failed'[p] = FALSE /\ active'[p] = Inactive
  BY Zenon, <1>1 DEF Reset, With
<1>4. Types'
  <2>1. /\ mode' = [p \in Processes |-> "off"] /\ pc' = [p \in Processes |-> "idle"]
        /\ job' = [p \in Processes |-> "none"] /\ poisoned' = [p \in Processes |-> FALSE]
        /\ failed' = [p \in Processes |-> FALSE] /\ mem' = [p \in Processes |-> Absent]
        /\ next' = [p \in Processes |-> Absent] /\ active' = [p \in Processes |-> Inactive]
    BY Zenon, <1>1 DEF Reset, With
  <2>2. Absent \in States /\ Inactive \in Actives BY Zenon, ActiveFields DEF States
  <2>3. visible' \in Files /\ durable' \in Files BY Zenon, <1>2 DEF IInv, Types
  <2> QED BY Zenon, <1>1, <2>1, <2>2, <2>3 DEF Types
<1>5. Locked' BY Zenon, <1>1, <1>3, ManagedAssumption DEF Locked
<1>6. Sole' /\ \A p \in Processes : LocalAt(p)' BY ONLY Zenon, <1>3 DEF Sole, LocalAt, Local
<1>7. Behind' BY ONLY Zenon, <1>2 DEF Behind, Same
<1> QED BY ONLY Zenon, <1>4, <1>5, <1>6, <1>7 DEF IInv

LEMMA WritebackStep == ASSUME IInv, Writeback PROVE IInv'
<1> USE DEF IInv
<1>1. /\ durable' = visible /\ UNCHANGED <<visible, lock>>
      /\ UNCHANGED <<mode, pc, job, mem, next, poisoned, failed, active>>
  BY DEF Writeback, process
<1>2. Types' BY Zenon, <1>1 DEF Types
<1>3. ASSUME NEW p \in Processes PROVE LocalAt(p)'
  <2>1. CASE mode[p] = "off" BY Zenon, <1>1, <2>1 DEF LocalAt, Local
  <2>2. CASE mode[p] # "off"
    <3>1. /\ Saving(pc[p], poisoned[p], mem[p], next[p], visible.state, durable.state)
          /\ Working(mode[p], pc[p], job[p], mem[p], next[p], active[p])
      BY Zenon, <2>2, Running
    <3>2. Saving(pc[p], poisoned[p], mem[p], next[p], visible.state, visible.state) BY ONLY <3>1 DEF Saving
    <3> QED BY ONLY Zenon, <1>1, <2>2, <3>1, <3>2 DEF LocalAt, Local
  <2> QED BY <2>1, <2>2
<1>4. Locked' /\ Sole' BY Zenon, <1>1 DEF Locked, Sole
<1>5. Behind' BY ONLY Zenon, <1>1 DEF Behind, Same
<1> QED BY Zenon, <1>2, <1>3, <1>4, <1>5

-----------------------------------------------------------------------------
(* What is always true *)

\* One process at a time uses the directory, and at every point of a save the file, the
\* store and the state to be saved are related as Saving and Working say, whatever crashes.
THEOREM DirectoryInvariant == ASSUME Alone PROVE Spec => []IInv
<1>1. Init => IInv
  <2> SUFFICES ASSUME Init PROVE IInv OBVIOUS
  <2>1. Absent \in States /\ Inactive \in Actives BY Zenon, ActiveFields DEF States
  <2>2. visible.state = Absent /\ durable.state = Absent /\ visible \in Files /\ durable \in Files
    BY <2>1 DEF Init, Files, File
  <2>3. Types BY Zenon, <2>1, <2>2 DEF Init, Types
  <2>4. Locked BY Zenon, ManagedAssumption DEF Init, Locked
  <2>5. Sole /\ \A p \in Processes : LocalAt(p) BY Zenon DEF Init, Sole, LocalAt, Local
  <2>6. Behind BY ONLY Zenon, <2>2 DEF Behind, Same
  <2> QED BY ONLY Zenon, <2>3, <2>4, <2>5, <2>6 DEF IInv
<1>2. IInv /\ [Next]_vars => IInv'
  <2> SUFFICES ASSUME IInv, [Next]_vars PROVE IInv' OBVIOUS
  <2>1. ASSUME NEW p \in Processes, Start(p) PROVE IInv' BY Zenon, <2>1, ServeStep, ConfigureStep DEF Start
  <2>2. ASSUME NEW p \in Processes, Request(p) PROVE IInv'
    BY Zenon, <2>2, NoteStep, ToggleStep, ApplyStep DEF Request
  <2>3. ASSUME NEW p \in Processes, Storage(p) PROVE IInv'
    BY Zenon, <2>3, RenameStep, SyncDirStep, SaveFailsStep, SyncFailsStep DEF Storage
  <2>4. ASSUME NEW p \in Processes, Finish(p) PROVE IInv'
    BY Zenon, <2>4, FinishBootstrapStep, FinishToggleStep, FinishConfigureStep, FinishNoteStep, FinishApplyStep
      DEF Finish
  <2>5. CASE UNCHANGED vars
    <3>1. UNCHANGED <<visible, durable, lock, mode, pc, job, mem, next, poisoned, failed, active>>
      BY <2>5 DEF vars, disk, process
    <3> QED BY Zenon, <3>1 DEF IInv, Types, Locked, Sole, LocalAt, Behind
  <2> QED BY Zenon, <2>1, <2>2, <2>3, <2>4, <2>5, ReleaseLockStep, EndStep, PowerLossStep, WritebackStep DEF Next
<1> QED BY <1>1, <1>2, PTL DEF Spec

\* While processes exit promptly the instance lock does keep two of them from writing the
\* directory at once; a process that is still writing after its store.Close is what breaks it.
THEOREM LockKeepsOneWriter == ASSUME Alone PROVE Spec => []OneWriter
<1>1. IInv => OneWriter BY Zenon, Busy DEF IInv, Sole, OneWriter
<1> QED BY <1>1, DirectoryInvariant, PTL

\* The configuration that flows run on is the one a restart finds, or the file has a newer
\* revision whose commit is uncertain or not yet published; and the audit ring in it never
\* outgrows auditLimit.  Crashes and power failures included.
THEOREM PublishedStaysStored == ASSUME Alone PROVE Spec => []PublishedIsStored
<1>1. IInv => PublishedIsStored
  <2> SUFFICES ASSUME IInv PROVE PublishedIsStored OBVIOUS
  <2>1. visible.state \in States BY DEF IInv, Types, Files
  <2>2. Len(visible.state.audit) <= AuditLimit
    <3>1. Absent.audit = <<>> /\ AuditLimit \in Nat BY ManagedAssumption DEF Absent, State
    <3> QED BY <2>1, <3>1 DEF States, Stored, Audits
  <2>3. ASSUME NEW p \in Processes, active[p].revision # 0
        PROVE  \/ Latest(visible.state) = Latest(active[p])
               \/ visible.state.revision > active[p].revision /\ (poisoned[p] \/ job[p] = "apply")
    <3> DEFINE a == active[p]
               v == visible.state
               x == mem[p]
               y == next[p]
    <3>1. /\ Saving(pc[p], poisoned[p], x, y, v, durable.state)
          /\ Working(mode[p], pc[p], job[p], x, y, a)
      BY Zenon, <2>3, Busy, Running
    <3>2. a.revision \in Nat /\ v.revision \in Nat BY Zenon, <2>1, StateFields, ActiveFields DEF IInv, Types
    <3>3. pc[p] \in {"idle", "save", "renamed", "synced"} BY Zenon DEF IInv, Types
    <3> HIDE DEF a, v, x, y
    <3>4. a.revision # 0 BY Zenon, <2>3 DEF a
    <3>5. Same(a, v) \/ (v.revision > a.revision /\ (poisoned[p] \/ job[p] = "apply"))
      <4>1. CASE pc[p] = "idle"
        <5>1. job[p] = "none" /\ Same(a, x) BY ONLY <3>1, <3>4, <4>1 DEF Working
        <5>2. v = x \/ (poisoned[p] /\ Follows(x, v)) BY ONLY <3>1, <4>1 DEF Saving
        <5> QED BY ONLY <3>2, <5>1, <5>2 DEF Follows, Same
      <4>2. CASE pc[p] = "save"
        <5>1. Same(a, x) BY ONLY <3>1, <3>4, <4>2 DEF Working
        <5>2. v = x BY ONLY <3>1, <4>2 DEF Saving
        <5> QED BY ONLY <5>1, <5>2
      <4>3. CASE pc[p] \in {"renamed", "synced"}
        <5>1. v = y BY ONLY <3>1, <4>3 DEF Saving
        <5>2. job[p] \in Requests BY ONLY <3>1, <3>4, <4>3, ActiveFields DEF Working
        <5>3. job[p] = "apply" => Follows(a, y) BY ONLY <3>1, <3>4 DEF Working
        <5>4. job[p] # "apply" => Same(a, y) BY ONLY <3>1, <5>2 DEF Working, Requests
        <5> QED BY ONLY <3>2, <5>1, <5>3, <5>4 DEF Follows
      <4> QED BY ONLY <3>3, <4>1, <4>2, <4>3
    <3>6. Same(a, v) => Latest(v) = Latest(a) BY ONLY Zenon DEF Same, Latest
    <3> QED BY ONLY Zenon, <3>5, <3>6 DEF a, v
  <2> QED BY Zenon, <2>2, <2>3 DEF PublishedIsStored
<1> QED BY <1>1, DirectoryInvariant, PTL

-----------------------------------------------------------------------------
(* What a step may do to the directory and to what was reported *)

Quiet == UNCHANGED <<visible, durable, acked, published>>
Replaced == /\ Follows(visible.state, visible'.state) /\ UNCHANGED <<durable, acked, published>>
Flushed == durable' = visible /\ UNCHANGED <<visible, acked, published>>
Reported ==
  /\ UNCHANGED <<visible, durable>>
  /\ published' = published \cup {Latest(visible.state)} \/ published' = published
  /\ acked' = Latest(durable.state) \/ acked' = acked
Recovered == PowerFails /\ visible' = durable /\ UNCHANGED <<durable, acked, published>>

LEMMA StepEffect ==
  ASSUME IInv, Next PROVE Quiet \/ Replaced \/ Flushed \/ Reported \/ Recovered
<1>1. ASSUME NEW p \in Processes, Start(p) PROVE Quiet \/ Reported
  <2>1. ASSUME NEW d \in Documents, Configure(p, d) PROVE Quiet BY <2>1 DEF Configure, disk, history, Quiet
  <2>2. ASSUME NEW d \in Documents, NEW flag \in BOOLEAN, Serve(p, d, flag) PROVE Quiet \/ Reported
    <3>1. UNCHANGED <<visible, durable>> /\ UNCHANGED acked BY <2>2 DEF Serve, disk
    <3>2. published' = published \cup {Latest(visible.state)} \/ published' = published
      BY Zenon, <2>2 DEF Serve, Latest
    <3> QED BY Zenon, <3>1, <3>2 DEF Reported
  <2> QED BY Zenon, <1>1, <2>1, <2>2 DEF Start
<1>2. ASSUME NEW p \in Processes, Request(p) PROVE Quiet
  <2>1. Note(p) => Quiet BY DEF Note, disk, history, Quiet
  <2>2. ASSUME NEW b \in BOOLEAN, Toggle(p, b) PROVE Quiet BY <2>2 DEF Toggle, disk, history, Quiet
  <2>3. ASSUME NEW d \in Documents, Apply(p, d) PROVE Quiet BY <2>3 DEF Apply, disk, history, Quiet
  <2> QED BY Zenon, <1>2, <2>1, <2>2, <2>3 DEF Request
<1>3. ASSUME NEW p \in Processes, Rename(p) PROVE Replaced
  <2>1. pc[p] = "save" /\ visible' = File(next[p], TRUE) BY Zenon, <1>3 DEF Rename, Temp
  <2>2. UNCHANGED <<durable, acked, published>> BY <1>3 DEF Rename, history
  <2>3. Saving("save", poisoned[p], mem[p], next[p], visible.state, durable.state) BY Zenon, <2>1, Busy, Running
  <2>4. Follows(visible.state, next[p]) BY Zenon, <2>3 DEF Saving
  <2>5. visible'.state = next[p] BY ONLY <2>1 DEF File
  <2> QED BY Zenon, <2>2, <2>4, <2>5 DEF Replaced
<1>4. ASSUME NEW p \in Processes, SyncDir(p) PROVE Flushed BY <1>4 DEF SyncDir, history, Flushed
<1>5. ASSUME NEW p \in Processes, SaveFails(p) \/ SyncFails(p) \/ ReleaseLock(p) \/ End(p) PROVE Quiet
  BY Zenon, <1>5 DEF SaveFails, SyncFails, ReleaseLock, End, disk, history, Quiet
<1>6. ASSUME NEW p \in Processes, Finish(p) PROVE Quiet \/ Reported
  <2>1. ASSUME Saved(p)
        PROVE Config(next[p].doc, next[p].revision) = Latest(visible.state)
              /\ Config(next[p].doc, next[p].revision) = Latest(durable.state)
    BY Zenon, <2>1, AfterSave DEF Latest
  <2>2. ASSUME NEW b \in BOOLEAN, FinishBootstrap(p, b) PROVE Reported
    <3>1. Saved(p) /\ UNCHANGED <<visible, durable, acked>> BY <2>2 DEF FinishBootstrap, disk
    <3>2. \/ published' = published \cup {Config(next[p].doc, next[p].revision)}
          \/ published' = published
      BY Zenon, <2>2 DEF FinishBootstrap
    <3> QED BY Zenon, <2>1, <3>1, <3>2 DEF Reported
  <2>3. ASSUME NEW b \in BOOLEAN, FinishToggle(p, b) PROVE Quiet BY <2>3 DEF FinishToggle, disk, history, Quiet
  <2>4. FinishNote(p) => Quiet BY DEF FinishNote, disk, history, Quiet
  <2>5. FinishConfigure(p) => Reported
    <3> SUFFICES ASSUME FinishConfigure(p) PROVE Reported OBVIOUS
    <3>1. /\ Saved(p) /\ UNCHANGED <<visible, durable, published>>
          /\ acked' = Config(next[p].doc, next[p].revision)
      BY DEF FinishConfigure, disk
    <3> QED BY Zenon, <2>1, <3>1 DEF Reported
  <2>6. FinishApply(p) => Reported
    <3> SUFFICES ASSUME FinishApply(p) PROVE Reported OBVIOUS
    <3>1. /\ Saved(p) /\ UNCHANGED <<visible, durable>>
          /\ acked' = Config(next[p].doc, next[p].revision)
          /\ published' = published \cup {Config(next[p].doc, next[p].revision)}
      BY DEF FinishApply, disk
    <3> QED BY Zenon, <2>1, <3>1 DEF Reported
  <2> QED BY Zenon, <1>6, <2>2, <2>3, <2>4, <2>5, <2>6 DEF Finish
<1>7. PowerLoss => Recovered
  <2> SUFFICES ASSUME PowerLoss PROVE Recovered OBVIOUS
  <2>1. durable.flushed BY Zenon DEF IInv, Types, Files
  <2>2. visible' = durable /\ durable' = durable /\ PowerFails BY Zenon, <2>1 DEF PowerLoss
  <2>3. UNCHANGED <<acked, published>> BY DEF PowerLoss, history
  <2> QED BY Zenon, <2>2, <2>3 DEF Recovered
<1>8. Writeback => Flushed BY DEF Writeback, history, Flushed
<1> QED BY Zenon, <1>1, <1>2, <1>3, <1>4, <1>5, <1>6, <1>7, <1>8 DEF Next, Storage

\* Without power failures a revision number never names two documents that flows could pin,
\* across crashes, failed saves, restarts, applies and offline configure: the file only ever
\* moves on, and nothing is published that is newer than it.
THEOREM RevisionsNameOneDocument ==
  ASSUME Alone, ~PowerFails PROVE Spec => []RevisionNamesOneDocument
<1> DEFINE PInv == Pinned /\ RevisionNamesOneDocument
<1>1. Init => PInv BY Zenon DEF Init, Pinned, RevisionNamesOneDocument
<1>2. IInv /\ PInv /\ [Next]_vars => PInv'
  <2> SUFFICES ASSUME IInv, PInv, [Next]_vars PROVE PInv' OBVIOUS
  <2> DEFINE v == visible.state
             w == visible'.state
  <2>1. CASE UNCHANGED <<visible, published>> BY Zenon, <2>1 DEF Pinned, RevisionNamesOneDocument
  <2>2. CASE Replaced
    <3>1. published' = published /\ Follows(v, w) BY Zenon, <2>2 DEF Replaced
    <3>2. visible' \in Files => w \in States BY DEF Files
    <3>3. v \in States BY DEF IInv, Types, Files
    <3>4. ASSUME NEW c \in published
          PROVE c.revision \in Nat /\ (c = Latest(w) \/ c.revision < w.revision)
      <4>1. c.revision \in Nat /\ (c = Latest(v) \/ c.revision < v.revision) BY Zenon DEF Pinned
      <4>2. v.revision \in Nat BY Zenon, <3>3, StateFields
      <4>3. Same(v, w) => Latest(w) = Latest(v) BY ONLY Zenon DEF Same, Latest
      <4>4. Latest(v).revision = v.revision BY ONLY TRUE DEF Latest, Config
      <4> HIDE DEF v, w
      <4> QED BY ONLY <3>1, <4>1, <4>2, <4>3, <4>4 DEF Follows, Same
    <3> QED BY ONLY Zenon, <3>1, <3>4, PInv DEF Pinned, RevisionNamesOneDocument
  <2>3. CASE Reported
    <3>1. CASE published' = published
      <4>1. UNCHANGED <<visible, published>> BY <2>3, <3>1 DEF Reported
      <4> QED BY Zenon, <2>1, <4>1
    <3>2. CASE published' = published \cup {Latest(v)}
      <4>1. visible' = visible BY Zenon, <2>3 DEF Reported
      <4>2. v.revision \in Nat
        <5>1. v \in States BY DEF IInv, Types, Files
        <5> QED BY Zenon, <5>1, StateFields
      <4>3. Latest(v).revision = v.revision BY ONLY TRUE DEF Latest, Config
      <4>4. \A c \in published : c.revision = v.revision => c = Latest(v) BY <4>2 DEF Pinned
      <4>5. Pinned' BY Zenon, <3>2, <4>1, <4>2, <4>3 DEF Pinned
      <4>6. RevisionNamesOneDocument' BY Zenon, <3>2, <4>3, <4>4 DEF RevisionNamesOneDocument
      <4> QED BY Zenon, <4>5, <4>6
    <3> QED BY Zenon, <2>3, <3>1, <3>2 DEF Reported
  <2>4. Quiet \/ Flushed \/ UNCHANGED vars => UNCHANGED <<visible, published>>
    BY DEF Quiet, Flushed, vars, disk, history
  <2> QED BY Zenon, <2>1, <2>2, <2>3, <2>4, StepEffect DEF Recovered
<1> HIDE DEF PInv
<1>3. PInv => RevisionNamesOneDocument BY DEF PInv
<1> QED BY <1>1, <1>2, <1>3, DirectoryInvariant, PTL DEF Spec

\* The directory implements the durable configuration, for any number of power failures: what
\* a restart recovers is only ever replaced by a later revision, and a change is
\* acknowledged only when it is what a restart recovers.
THEOREM DirectoryRefinesDurableConfig == ASSUME Alone PROVE Spec => CommitsAreDurable
<1> DEFINE c == Latest(durable.state)
<1>1. Init => D!ConfigInit
  <2> SUFFICES ASSUME Init PROVE D!ConfigInit OBVIOUS
  <2>1. durable.state = Absent /\ acked = Config(NoDocument, 0) BY DEF Init, File
  <2>2. Absent.doc = NoDocument /\ Absent.revision = 0 BY Zenon, StoredFields
  <2>3. Latest(Absent) = Config(NoDocument, 0) BY ONLY Zenon, <2>2 DEF Latest
  <2> QED BY ONLY Zenon, <2>1, <2>3 DEF D!ConfigInit, D!Nothing, D!Config, Config
<1>2. IInv /\ [Next]_vars => [D!ConfigNext]_<<c, acked>>
  <2> SUFFICES ASSUME IInv, [Next]_vars PROVE D!ConfigNext \/ UNCHANGED <<c, acked>> OBVIOUS
  <2>1. Quiet \/ Replaced \/ Recovered \/ UNCHANGED vars => UNCHANGED <<c, acked>>
    BY DEF Quiet, Replaced, Recovered, vars, disk, history
  <2>2. ASSUME Flushed PROVE D!ConfigNext \/ UNCHANGED <<c, acked>>
    <3> DEFINE d == durable.state
               v == visible.state
    <3>1. durable' = visible /\ acked' = acked BY Zenon, <2>2 DEF Flushed
    <3>2. CASE Same(d, v)
      <4>1. Latest(v) = Latest(d) BY Zenon, <3>2 DEF Same, Latest
      <4>2. c' = c BY Zenon, <3>1, <4>1
      <4> QED BY ONLY <3>1, <4>2
    <3>3. CASE d.revision < v.revision
      <4>1. d \in States /\ v \in States BY DEF IInv, Types, Files
      <4>2. d.revision \in Nat /\ v.revision \in Nat BY Zenon, <4>1, StateFields
      <4>3. v.revision # 0 BY ONLY <3>3, <4>2
      <4>4. v.doc \in Documents BY Zenon, <4>1, <4>3, StateFields, StoredFields
      <4>5. Latest(v).doc = v.doc /\ Latest(v).revision = v.revision /\ Latest(d).revision = d.revision
        BY ONLY TRUE DEF Latest, Config
      <4>6. c' = Latest(v) BY Zenon, <3>1
      <4>7. D!Commit BY ONLY <3>1, <3>3, <4>2, <4>4, <4>5, <4>6 DEF D!Commit
      <4> QED BY Zenon, <4>7 DEF D!ConfigNext
    <3> QED BY Zenon, <3>2, <3>3 DEF IInv, Behind
  <2>3. ASSUME Reported PROVE D!ConfigNext \/ UNCHANGED <<c, acked>>
    <3>1. c' = c BY Zenon, <2>3 DEF Reported
    <3>2. acked' = c \/ acked' = acked BY Zenon, <2>3 DEF Reported
    <3>3. acked' = c => D!Acknowledge BY ONLY Zenon, <3>1 DEF D!Acknowledge
    <3>4. acked' = acked => UNCHANGED <<c, acked>> BY ONLY <3>1
    <3> QED BY ONLY Zenon, <3>2, <3>3, <3>4 DEF D!ConfigNext
  <2> QED BY Zenon, <2>1, <2>2, <2>3, StepEffect
<1> QED BY <1>1, <1>2, DirectoryInvariant, PTL DEF Spec, CommitsAreDurable, D!ConfigSpec

\* Once flows run, whether faults are injected only changes by a toggle whose audit entry is
\* on stable storage; no apply, failure, crash or restart changes it.
THEOREM TogglesAreAudited == ASSUME Alone PROVE Spec => ToggleAudited
<1> DEFINE Runs(a) == a.revision # 0
           Kept(p) == Runs(active[p]) /\ Runs(active'[p]) => active'[p].enabled = active[p].enabled
           Told(p) == LET a == durable.state.audit IN
             a # <<>> /\ a[Len(a)] = Entry(ToggleName(active'[p].enabled), active[p].revision)
<1>1. ASSUME IInv, [Next]_vars PROVE \A p \in Processes : Kept(p) \/ Told(p)
  <2> USE <1>1 DEF IInv
  <2>1. ASSUME active' = active PROVE \A p \in Processes : Kept(p) BY Zenon, <2>1
  <2>2. ASSUME NEW P, Reset(P) PROVE \A p \in Processes : Kept(p)
    <3>1. \A p \in Processes : active'[p] = Inactive \/ active'[p] = active[p] BY Zenon, <2>2 DEF Reset, With
    <3> QED BY Zenon, <3>1, ActiveFields
  <2>3. ASSUME NEW p \in Processes, NEW a \in Actives, active' = [active EXCEPT ![p] = a],
               Runs(active[p]) => a.enabled = active[p].enabled
        PROVE  \A q \in Processes : Kept(q)
    <3>1. \A q \in Processes : active'[q] = IF q = p THEN a ELSE active[q] BY Zenon, <2>3 DEF Types
    <3> QED BY Zenon, <2>3, <3>1
  <2>4. ASSUME NEW p \in Processes, Start(p) PROVE \A q \in Processes : Kept(q)
    <3>1. ASSUME NEW d \in Documents, Configure(p, d) PROVE active' = active BY <3>1 DEF Configure
    <3>2. ASSUME NEW d \in Documents, NEW flag \in BOOLEAN, Serve(p, d, flag) PROVE \A q \in Processes : Kept(q)
      <4>1. active[p] = Inactive BY Zenon, <3>2 DEF Serve, Open, LocalAt, Local
      <4>2. \/ active' = active
            \/ visible.state.revision > 0
               /\ active' = [active EXCEPT ![p] = Active(visible.state.doc, visible.state.revision, flag)]
        BY <3>2 DEF Serve
      <4>3. visible.state.revision > 0 => Active(visible.state.doc, visible.state.revision, flag) \in Actives
        <5> HAVE visible.state.revision > 0
        <5>1. visible.state \in States /\ visible.state.revision # 0 BY DEF Types, Files
        <5>2. visible.state.doc \in Documents /\ visible.state.revision \in Nat
          BY Zenon, <5>1, StateFields, StoredFields
        <5> QED BY Zenon, <5>2, ActiveFields
      <4> QED BY Zenon, <2>1, <2>3, <4>1, <4>2, <4>3, ActiveFields
    <3> QED BY Zenon, <2>1, <2>4, <3>1, <3>2 DEF Start
  <2>5. ASSUME NEW p \in Processes, Request(p) \/ Rename(p) \/ SyncDir(p) \/ ReleaseLock(p) PROVE active' = active
    <3>1. Request(p) => active' = active BY DEF Request, Note, Toggle, Apply
    <3>2. Rename(p) \/ SyncDir(p) \/ ReleaseLock(p) => active' = active BY DEF Rename, SyncDir, ReleaseLock, process
    <3> QED BY Zenon, <2>5, <3>1, <3>2
  <2>6. ASSUME NEW p \in Processes, SaveFails(p) \/ SyncFails(p) \/ End(p) \/ FinishConfigure(p) \/ FinishNote(p)
        PROVE  active' = active \/ Reset({p})
    BY Zenon, <2>6 DEF SaveFails, SyncFails, End, FinishConfigure, FinishNote
  <2>7. ASSUME NEW p \in Processes, NEW b \in BOOLEAN, FinishBootstrap(p, b) PROVE \A q \in Processes : Kept(q)
    <3> DEFINE a == Active(next[p].doc, next[p].revision, b)
    <3>1. active' = active \/ active' = [active EXCEPT ![p] = a] BY Zenon, <2>7 DEF FinishBootstrap
    <3>2. Saved(p) /\ job[p] = "bootstrap" BY Zenon, <2>7 DEF FinishBootstrap
    <3>3. Working(mode[p], "synced", "bootstrap", next[p], next[p], active[p]) /\ next[p] \in Stored
      BY Zenon, <3>2, AfterSave
    <3>4. active[p] = Inactive BY ONLY <3>3 DEF Working, Requests, Toggling
    <3>5. a \in Actives BY Zenon, <3>3, StoredFields, ActiveFields
    <3> QED BY Zenon, <2>1, <2>3, <3>1, <3>4, <3>5, ActiveFields
  <2>8. ASSUME NEW p \in Processes, FinishApply(p) PROVE \A q \in Processes : Kept(q)
    <3> DEFINE a == Active(next[p].doc, next[p].revision, active[p].enabled)
    <3>1. active' = [active EXCEPT ![p] = a] /\ Saved(p) BY Zenon, <2>8 DEF FinishApply
    <3>2. next[p] \in Stored /\ active[p].enabled \in BOOLEAN BY Zenon, <3>1, AfterSave, ActiveFields DEF Types
    <3>3. a \in Actives BY Zenon, <3>2, StoredFields, ActiveFields
    <3>4. a.enabled = active[p].enabled BY ONLY TRUE DEF Active, a
    <3> QED BY Zenon, <2>3, <3>1, <3>3, <3>4
  <2>9. ASSUME NEW p \in Processes, NEW b \in BOOLEAN, FinishToggle(p, b)
        PROVE  \A q \in Processes : Kept(q) \/ Told(q)
    <3> DEFINE a == Active(active[p].doc, active[p].revision, b)
    <3>1. active' = [active EXCEPT ![p] = a] /\ Saved(p) /\ job[p] = ToggleName(b) BY Zenon, <2>9 DEF FinishToggle
    <3>2. \A q \in Processes \ {p} : active'[q] = active[q] BY Zenon, <3>1 DEF Types
    <3>3. active'[p].enabled = b
      <4>1. active'[p] = a BY Zenon, <3>1 DEF Types
      <4>2. a.enabled = b BY ONLY TRUE DEF Active, a
      <4> QED BY ONLY Zenon, <4>1, <4>2
    <3>4. durable.state = next[p] /\ Working(mode[p], "synced", job[p], next[p], next[p], active[p])
      BY Zenon, <3>1, AfterSave
    <3>5. job[p] \in Toggling BY <3>1 DEF ToggleName, Toggling
    <3>6. /\ next[p].audit # <<>>
          /\ next[p].audit[Len(next[p].audit)] = Entry(job[p], active[p].revision)
      BY ONLY Zenon, <3>4, <3>5 DEF Working
    <3>7. Told(p) BY ONLY Zenon, <3>1, <3>3, <3>4, <3>6
    <3> QED BY ONLY Zenon, <3>2, <3>7
  <2>10. PowerLoss => Reset(Processes) BY DEF PowerLoss
  <2>11. Writeback \/ UNCHANGED vars => active' = active BY DEF Writeback, vars, process
  <2> HIDE DEF Kept, Told
  <2> QED BY Zenon, <1>1, <2>1, <2>2, <2>4, <2>5, <2>6, <2>7, <2>8, <2>9, <2>10, <2>11 DEF Next, Storage, Finish
<1>2. ASSUME IInv, [Next]_vars
      PROVE  \A p \in Processes :
               active[p].revision # 0 /\ active'[p].revision # 0 /\ active'[p].enabled # active[p].enabled =>
                 LET a == durable.state.audit IN
                   a # <<>> /\ a[Len(a)] = Entry(ToggleName(active'[p].enabled), active[p].revision)
  BY Zenon, <1>1, <1>2
<1> QED BY <1>2, DirectoryInvariant, PTL DEF Spec, ToggleAudited
=============================================================================
