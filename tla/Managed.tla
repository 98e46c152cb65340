------------------------------- MODULE Managed -------------------------------
(***************************************************************************)
(* internal/control/remote: the managed data directory, the processes that *)
(* open it (serve --data-dir and configure), and the requests of the admin *)
(* API that change it.                                                     *)
(*                                                                         *)
(* Every change is one Store.save: write and fsync a temporary file,       *)
(* rename it over state.json, fsync the directory.  Each system call is a  *)
(* step, so a process may die and the power may fail between any two.  The *)
(* requests of one process are serialised by Server.mu, so a process has   *)
(* one save in progress at most; the flock on instance.lock keeps other    *)
(* processes out while it is held.                                         *)
(***************************************************************************)
EXTENDS Integers, Sequences, FiniteSets

CONSTANTS
  Processes,     \* processes that may open the directory, one at a time
  Documents, NoDocument,
  AuditLimit,    \* auditLimit
  MaxRevision,   \* bound on revisions
  PowerFails,    \* whether the machine may lose power, besides processes dying
  PromptExit,    \* no other process opens the directory between the store.Close
                 \* of an exiting process and its end
  Nobody         \* owner of a free lock

ASSUME ManagedAssumption ==
  /\ AuditLimit \in Nat \ {0} /\ MaxRevision \in Nat \ {0}
  /\ PowerFails \in BOOLEAN /\ PromptExit \in BOOLEAN
  /\ Nobody \notin Processes /\ NoDocument \notin Documents

VARIABLES
  visible,    \* state.json as every process sees it: a State and whether its data is flushed
  durable,    \* the file the directory entry on stable storage names
  lock,       \* flock on instance.lock
  mode,       \* each process: "off", "serve" or "configure"
  pc,         \* its save: "idle", "save", "renamed" or "synced"
  job,        \* what the save is for
  mem,        \* Store.state
  next,       \* the state being saved
  poisoned,   \* Store.poisoned
  failed,     \* an error is in Server.errors
  active,     \* Service.active: document, revision and enabled
  acked,      \* history: the newest change that was reported as a success
  published   \* history: the pairs of revision and document that flows could pin

disk == <<visible, durable>>
process == <<mode, pc, job, mem, next, poisoned, failed, active>>
history == <<acked, published>>
vars == <<disk, lock, process, history>>

State(d, r, a) == [doc |-> d, revision |-> r, audit |-> a]
Absent == State(NoDocument, 0, <<>>)
Torn == State(NoDocument, -1, <<>>)
File(s, flushed) == [state |-> s, flushed |-> flushed]
Active(d, r, e) == [doc |-> d, revision |-> r, enabled |-> e]
Inactive == Active(NoDocument, 0, FALSE)
Entry(op, r) == [op |-> op, revision |-> r]
Config(d, r) == [doc |-> d, revision |-> r]

Init ==
  /\ visible = File(Absent, TRUE) /\ durable = File(Absent, TRUE)
  /\ lock = Nobody
  /\ mode = [p \in Processes |-> "off"]
  /\ pc = [p \in Processes |-> "idle"]
  /\ job = [p \in Processes |-> "none"]
  /\ mem = [p \in Processes |-> Absent]
  /\ next = [p \in Processes |-> Absent]
  /\ poisoned = [p \in Processes |-> FALSE]
  /\ failed = [p \in Processes |-> FALSE]
  /\ active = [p \in Processes |-> Inactive]
  /\ acked = Config(NoDocument, 0)
  /\ published = {}

-----------------------------------------------------------------------------
(* The end of a process releases its lock and its memory; files stay. *)

With(f, P, v) == [p \in Processes |-> IF p \in P THEN v ELSE f[p]]

Reset(P) ==
  /\ mode' = With(mode, P, "off")
  /\ pc' = With(pc, P, "idle") /\ job' = With(job, P, "none")
  /\ mem' = With(mem, P, Absent) /\ next' = With(next, P, Absent)
  /\ poisoned' = With(poisoned, P, FALSE) /\ failed' = With(failed, P, FALSE)
  /\ active' = With(active, P, Inactive)

Unlock(p) == lock' = IF lock = p THEN Nobody ELSE lock

\* The process dies, or main returns: on a signal, or on an error of the API server.
End(p) ==
  /\ mode[p] # "off"
  /\ Reset({p}) /\ Unlock(p)
  /\ UNCHANGED <<disk, history>>

\* The deferred store.Close of an exiting process.  http.Server.Close does not wait for
\* handlers, so the save of a request in progress goes on until the process has ended.
ReleaseLock(p) ==
  /\ ~PromptExit
  /\ active[p].revision # 0 /\ lock = p
  /\ lock' = Nobody
  /\ UNCHANGED <<disk, process, history>>

\* Power is lost: what the directory entry names on stable storage is what is left.
PowerLoss ==
  /\ PowerFails
  /\ visible' = IF durable.flushed THEN durable ELSE File(Torn, TRUE)
  /\ durable' = visible'
  /\ lock' = Nobody
  /\ Reset(Processes)
  /\ UNCHANGED history

\* The system writes the directory back on its own.
Writeback ==
  /\ PowerFails /\ durable # visible
  /\ durable' = visible
  /\ UNCHANGED <<visible, lock, process, history>>

-----------------------------------------------------------------------------
(* Store.save *)

\* Mutant: the ring grows to one entry more than its limit.
appendAuditOneMore(a, op, r) ==
  LET b == Append(a, Entry(op, r)) IN
    IF Len(b) > AuditLimit THEN SubSeq(b, Len(b) - AuditLimit, Len(b)) ELSE b

\* appendAudit keeps the last AuditLimit entries.
appendAudit(a, op, r) ==
  LET b == Append(a, Entry(op, r)) IN
    IF Len(b) > AuditLimit THEN SubSeq(b, Len(b) - AuditLimit + 1, Len(b)) ELSE b

\* save refuses when the store is poisoned; otherwise atomicFile starts.
Save(p, why, s) ==
  /\ ~poisoned[p]
  /\ pc' = [pc EXCEPT ![p] = "save"]
  /\ job' = [job EXCEPT ![p] = why]
  /\ next' = [next EXCEPT ![p] = s]

Audited(p, op) == State(mem[p].doc, mem[p].revision, appendAudit(mem[p].audit, op, active[p].revision))

\* Mutant: the temporary file is not flushed before it is renamed.
TempUnflushed(p) == File(next[p], FALSE)
Temp(p) == File(next[p], TRUE)

\* atomicFile up to its rename: nothing is visible, and nothing is kept, before it.
Rename(p) ==
  /\ pc[p] = "save"
  /\ visible' = Temp(p)
  /\ pc' = [pc EXCEPT ![p] = "renamed"]
  /\ UNCHANGED <<durable, lock, mode, job, mem, next, poisoned, failed, active, history>>

SyncDir(p) ==
  /\ pc[p] = "renamed"
  /\ durable' = visible
  /\ mem' = [mem EXCEPT ![p] = next[p]]
  /\ pc' = [pc EXCEPT ![p] = "synced"]
  /\ UNCHANGED <<visible, lock, mode, job, next, poisoned, failed, active, history>>

-----------------------------------------------------------------------------
(* Starting a process: Open, load, and what the command does next *)

\* A second process that finds the lock taken gives up and changes nothing.
Open(p) == mode[p] = "off" /\ lock = Nobody /\ lock' = p

\* What load saves when there is no state.json.
Bootstrap(d) == State(d, 1, <<Entry("bootstrap", 1)>>)

\* serve: the state is loaded, or created from the bootstrap file d; injection is what
\* the --start-enabled flag says.
Serve(p, d, flag) ==
  /\ Open(p)
  /\ mode' = [mode EXCEPT ![p] = "serve"]
  /\ \/ /\ visible.state = Absent
        /\ Save(p, "bootstrap", Bootstrap(d))
        /\ UNCHANGED <<mem, active, published>>
     \/ /\ visible.state.revision > 0
        /\ mem' = [mem EXCEPT ![p] = visible.state]
        /\ active' = [active EXCEPT ![p] = Active(visible.state.doc, visible.state.revision, flag)]
        /\ published' = published \cup {Config(visible.state.doc, visible.state.revision)}
        /\ UNCHANGED <<pc, job, next>>
  /\ UNCHANGED <<disk, poisoned, failed, acked>>

\* Mutant: configure keeps the revision number.
ConfiguredInPlace(s, d) ==
  IF s.doc = d THEN State(d, s.revision, appendAudit(s.audit, "no_op", s.revision))
  ELSE State(d, s.revision, appendAudit(s.audit, "configure", s.revision))

\* What configure saves over s.
Configured(s, d) ==
  IF s.doc = d THEN State(d, s.revision, appendAudit(s.audit, "no_op", s.revision))
  ELSE State(d, s.revision + 1, appendAudit(s.audit, "configure", s.revision + 1))

Configure(p, d) ==
  /\ Open(p)
  /\ mode' = [mode EXCEPT ![p] = "configure"]
  /\ \/ /\ visible.state = Absent
        /\ Save(p, "bootstrap", Bootstrap(d))
        /\ UNCHANGED mem
     \/ /\ visible.state.revision > 0
        /\ Configured(visible.state, d).revision <= MaxRevision
        /\ mem' = [mem EXCEPT ![p] = visible.state]
        /\ Save(p, "configure", Configured(visible.state, d))
  /\ UNCHANGED <<disk, poisoned, failed, active, history>>

-----------------------------------------------------------------------------
(* Requests of the admin API, one at a time under Server.mu *)

Ready(p) == mode[p] = "serve" /\ pc[p] = "idle" /\ active[p].revision # 0

\* login, logout, validate, and every request that is refused: only an audit entry.
Note(p) ==
  /\ Ready(p)
  /\ Save(p, "note", Audited(p, "note"))
  /\ UNCHANGED <<disk, lock, mode, mem, poisoned, failed, active, history>>

ToggleName(b) == IF b THEN "enable" ELSE "disable"

Toggle(p, b) ==
  /\ Ready(p)
  /\ Save(p, ToggleName(b), Audited(p, ToggleName(b)))
  /\ UNCHANGED <<disk, lock, mode, mem, poisoned, failed, active, history>>

\* What an apply saves: the revision goes up unless the document is the active one.
Applied(p, d) ==
  LET r == IF active[p].doc = d THEN active[p].revision ELSE active[p].revision + 1 IN
    State(d, r, appendAudit(mem[p].audit, "apply", r))

\* An apply of a valid draft whose base is the active revision; any other one is a Note.
Apply(p, d) ==
  /\ Ready(p) /\ Applied(p, d).revision <= MaxRevision
  /\ Save(p, "apply", Applied(p, d))
  /\ UNCHANGED <<disk, lock, mode, mem, poisoned, failed, active, history>>

-----------------------------------------------------------------------------
(* After the save *)

\* The save is over: the request is answered.
Idle(p) ==
  /\ pc' = [pc EXCEPT ![p] = "idle"]
  /\ job' = [job EXCEPT ![p] = "none"]
  /\ next' = [next EXCEPT ![p] = Absent]

\* atomicFile failed before its rename.  serve and configure give up when they cannot
\* save what they need to start or to finish; a failed apply is audited as failed.
SaveFails(p) ==
  /\ pc[p] = "save"
  /\ \/ /\ job[p] \in {"bootstrap", "configure"}
        /\ Reset({p}) /\ Unlock(p)
     \/ /\ job[p] = "apply"
        /\ Save(p, "note", Audited(p, "failed"))
        /\ UNCHANGED <<lock, mode, mem, poisoned, failed, active>>
     \/ /\ job[p] \in {"note", "enable", "disable"}
        /\ Idle(p)
        /\ UNCHANGED <<lock, mode, mem, poisoned, failed, active>>
  /\ UNCHANGED <<disk, history>>

\* Mutant: main is not told of it.
Unreported(p) == failed
Report(p) == With(failed, {p}, TRUE)

\* The directory cannot be opened or synced after the rename: the commit is uncertain.
SyncFails(p) ==
  /\ pc[p] = "renamed"
  /\ \/ /\ job[p] \in {"bootstrap", "configure"}
        /\ Reset({p}) /\ Unlock(p)
     \/ /\ job[p] \notin {"bootstrap", "configure"}
        /\ poisoned' = With(poisoned, {p}, TRUE) /\ failed' = Report(p) /\ Idle(p)
        /\ UNCHANGED <<lock, mode, mem, active>>
  /\ UNCHANGED <<disk, history>>

\* Mutant: what the save was for is done while it is still under way.
SavedEarly(p) == pc[p] # "idle"
Saved(p) == pc[p] = "synced"

FinishBootstrap(p, flag) ==
  /\ job[p] = "bootstrap" /\ Saved(p)
  /\ \/ /\ mode[p] = "serve" /\ Idle(p)
        /\ active' = [active EXCEPT ![p] = Active(next[p].doc, next[p].revision, flag)]
        /\ published' = published \cup {Config(next[p].doc, next[p].revision)}
     \/ /\ mode[p] = "configure"
        /\ Save(p, "configure", Configured(next[p], next[p].doc))
        /\ UNCHANGED <<active, published>>
  /\ UNCHANGED <<disk, lock, mode, mem, poisoned, failed, acked>>

FinishConfigure(p) ==
  /\ job[p] = "configure" /\ Saved(p)
  /\ acked' = Config(next[p].doc, next[p].revision)
  /\ Reset({p}) /\ Unlock(p)
  /\ UNCHANGED <<disk, published>>

FinishNote(p) ==
  /\ job[p] = "note" /\ Saved(p) /\ Idle(p)
  /\ UNCHANGED <<disk, lock, mode, mem, poisoned, failed, active, history>>

FinishToggle(p, b) ==
  /\ job[p] = ToggleName(b) /\ Saved(p) /\ Idle(p)
  /\ active' = [active EXCEPT ![p] = Active(active[p].doc, active[p].revision, b)]
  /\ UNCHANGED <<disk, lock, mode, mem, poisoned, failed, history>>

\* Service.apply publishes, then the request is answered.
FinishApply(p) ==
  /\ job[p] = "apply" /\ Saved(p) /\ Idle(p)
  /\ active' = [active EXCEPT ![p] = Active(next[p].doc, next[p].revision, active[p].enabled)]
  /\ published' = published \cup {Config(next[p].doc, next[p].revision)}
  /\ acked' = Config(next[p].doc, next[p].revision)
  /\ UNCHANGED <<disk, lock, mode, mem, poisoned, failed>>

Request(p) ==
  \/ Note(p) \/ \E b \in BOOLEAN : Toggle(p, b)
  \/ \E d \in Documents : Apply(p, d)

Start(p) ==
  \E d \in Documents : Configure(p, d) \/ \E flag \in BOOLEAN : Serve(p, d, flag)

Storage(p) == Rename(p) \/ SyncDir(p) \/ SaveFails(p) \/ SyncFails(p)

Finish(p) ==
  \/ \E b \in BOOLEAN : FinishBootstrap(p, b) \/ FinishToggle(p, b)
  \/ FinishConfigure(p) \/ FinishNote(p) \/ FinishApply(p)

Next ==
  \/ \E p \in Processes :
       Start(p) \/ Request(p) \/ Storage(p) \/ Finish(p) \/ ReleaseLock(p) \/ End(p)
  \/ PowerLoss \/ Writeback

Spec == Init /\ [][Next]_vars

\* main waits for an error of the API server among other things, and returns on it.
StopOnError(p) == failed[p] /\ End(p)

FairSpec == Spec /\ \A p \in Processes : WF_vars(StopOnError(p))

-----------------------------------------------------------------------------
(* Properties *)

Latest(c) == Config(c.doc, c.revision)

\* A revision number never names two configurations that flows could pin, in one run of
\* the process or across restarts, applies and offline configure.
RevisionNamesOneDocument ==
  \A c, d \in published : c.revision = d.revision => c = d

\* Flows never run on a configuration that a restart would not find: the active revision
\* is the stored one, but for a stored one whose commit is uncertain or not yet published.
\* The audit ring stored with it is never longer than auditLimit.
PublishedIsStored ==
  /\ \A p \in Processes : active[p].revision # 0 =>
       \/ Latest(visible.state) = Latest(active[p])
       \/ visible.state.revision > active[p].revision /\ (poisoned[p] \/ job[p] = "apply")
  /\ Len(visible.state.audit) <= AuditLimit

\* The instance lock keeps two processes from writing the directory at the same time
\* (plans/07-tester-experience/README.md:47).
OneWriter ==
  \A p, q \in Processes : pc[p] # "idle" /\ pc[q] # "idle" => p = q

\* Injection is switched on or off only once the audit entry that says so is on stable
\* storage; --start-enabled is the one exception.
ToggleAudited ==
  [][\A p \in Processes :
       active[p].revision # 0 /\ active'[p].revision # 0 /\ active'[p].enabled # active[p].enabled =>
         LET a == durable.state.audit IN
           a # <<>> /\ a[Len(a)] = Entry(ToggleName(active'[p].enabled), active[p].revision)]_vars

\* An instance whose last commit is uncertain stops, so that the next start recovers from
\* the directory.
PoisonStops == \A p \in Processes : poisoned[p] ~> mode[p] = "off"

\* The directory implements the durable configuration: whatever crashes, the recovered
\* configuration is replaced by later revisions only, and acknowledged when committed.
D == INSTANCE DurableConfig WITH committed <- Latest(durable.state), acked <- acked
CommitsAreDurable == D!ConfigSpec
=============================================================================
