------------------------- MODULE HttpExchangeProofs -------------------------
(***************************************************************************)
(* The properties of an HTTP exchange, for any listeners, faults and sizes *)
(* of the bodies; of the faults that reach it and the other adapters       *)
(* (FaultRules); and of the deadline it passes on with an RPC              *)
(* (GrpcTimeout).                                                          *)
(*                                                                         *)
(* The inductive invariant says, group by group, what is known at each     *)
(* place of ServeHTTP: of the events recorded so far (Events), of what     *)
(* runs beside the handler and must be gone at its end (Ends), of the      *)
(* report (Reporting), and of what the fault has done (Barred, Silent,     *)
(* Counted).  Each group is preserved by itself, given Types and at most   *)
(* some of the others.                                                     *)
(***************************************************************************)
EXTENDS HttpExchange, GrpcTimeout, TLAPS

\* The places of the handler, by what it is about there.
Early == {"start", "check", "decide"}
Applying == {"before", "execute", "wait", "terminal", "fail"}
Sending == {"send", "response", "after", "deliver"}
Copying == {"copy", "pace"}
Closing == {"cleanup", "drain", "unhook", "finish", "done"}
Unwinding == {"expire", "join"} \cup Closing
Places == Early \cup Applying \cup Sending \cup Copying \cup Unwinding

\* The values of the records.
Outcomes == {"completed", "unsupported_request", "proxy_overload", "executor_error", "stream_error",
             "upstream_error", "rpc_error", "canceled"}
Kinds == Outcomes \cup {"", "upstream_rpc", "shutdown", "proxy_timeout", "client_canceled"}
Reports == [outcome : Outcomes, err : BOOLEAN, kind : Kinds, reached : BOOLEAN, applied : BOOLEAN]
Writes == [head : {"none", "error", "synthetic", "upstream"}, bytes : Nat, whole : BOOLEAN]

\* What the handler relies on in a fault, or in none.
Fits(f) ==
  /\ f.action = "" <=> f = Blank
  /\ f.action \in BodyActions => f.direction \in {"request", "response"}
  /\ f.action = "hold_request" \/ f.action = "respond" => f.phase = BeforeUpstreamRequest
  /\ f.action = "truncate" => f.bytes # {}
  /\ f.bytes \subseteq Nat /\ \A m, n \in f.bytes : m = n

Types ==
  /\ protocol \in Http /\ pc \in Places /\ Fits(fault) /\ ctx \in {"live", "deadline", "canceled"}
  /\ hook \in {"off", "armed", "due", "ran"} /\ leg \in {"open", "gone", "closed"}
  /\ reader \in {"off", "idle", "reading", "pacing", "done"}
  /\ shutdown \in BOOLEAN /\ upstream \in BOOLEAN /\ expired \in BOOLEAN /\ complete \in BOOLEAN
  /\ discarding \in BOOLEAN /\ terminal \in BOOLEAN /\ disconnected \in BOOLEAN
  /\ applied \in BOOLEAN /\ slot \in BOOLEAN /\ contacted \in BOOLEAN
  /\ remaining \in Nat /\ forwarded \in Nat /\ report \in Reports /\ wrote \in Writes

\* The events follow the handler; once it has joined the reader of a wrapped upload
\* nothing can apply the fault any more, and the report says whether it was applied.
Events ==
  /\ pc = "start" => life = "none"
  /\ pc \in {"check", "decide"} => life = "open"
  /\ pc = "done" => life = "done"
  /\ pc \notin Early \cup {"done"} =>
       IF applied THEN life = "applied"
       ELSE life \in {"open", "passed", "selected"} /\ (fault # Blank => life = "selected")
  /\ pc \in Early => fault = Blank /\ ~report.applied
  /\ applied => fault # Blank
  /\ pc \in Closing \ {"cleanup"} => report.applied = applied
  /\ Wraps("request") /\ pc \in Closing \cup {"join"} => ~upstream
  /\ Wraps("request") /\ pc \in Closing => Joined

\* What is left behind.
Ends ==
  /\ pc \in {"start", "check", "finish", "done"} => hook \in {"off", "ran"} /\ ~expired
  /\ pc = "done" => ~slot
  /\ discarding => fault.action = "hold_request" /\ ~contacted /\ pc \in (Applying \cup Unwinding) \ {"before"}
  /\ discarding /\ pc \in {"unhook", "finish", "done"} => reader = "done"
  /\ pc \in Early \cup {"before", "send"} => ~contacted
  /\ pc \in (Copying \cup Sending) \ {"send"} => contacted
  /\ pc \in Closing \ {"cleanup"} /\ ~HTTP2 /\ contacted /\ leg = "open" => complete

\* A flow that ended well: the response is whole, or the fault has ended the flow.
Well ==
  \/ wrote.head = "upstream" /\ wrote.whole
  \/ applied /\ (wrote.whole \/ disconnected)

\* The outcome is true of what happened; while the handler unwinds, an outcome that Drain
\* is going to replace need not be.
Reporting ==
  /\ pc \in Unwinding /\ report.outcome = "completed" =>
       Well \/ (Cancelled /\ report.err /\ pc \notin {"unhook", "finish", "done"})
  /\ report.outcome = "canceled" =>
       /\ pc \in {"unhook", "finish", "done"} /\ Cancelled
       /\ report.kind \in {"shutdown", "proxy_timeout", "client_canceled"}
       /\ report.kind = "shutdown" => shutdown
       /\ report.kind = "proxy_timeout" => ctx = "deadline"
  /\ terminal => pc \in {"terminal", "fail"} \cup Unwinding
  /\ pc = "terminal" => applied /\ terminal /\ (wrote.whole \/ disconnected)
  /\ pc \in Copying => wrote.head = "upstream"

\* The fault is one that ends the flow, and it is due before the upstream is contacted.
Ending == fault.action \in Holds \cup {"close_connection"}
Blocking == fault.phase = BeforeUpstreamRequest /\ (Ending \/ fault.action = "respond")

\* The bytes of the body with the fault that have passed.
Passed == IF Wraps("request") THEN forwarded ELSE wrote.bytes

\* A fault that is due before the upstream keeps the request from it.
Barred ==
  /\ Blocking => ~contacted /\ pc \notin Sending \cup Copying
  /\ ~contacted => forwarded = 0 /\ (reader = "off" \/ discarding)
  /\ reader = "pacing" => fault.action = "throttle" /\ Wraps("request")

\* A fault that ends the flow leaves no response.
Silent ==
  /\ pc = "wait" => applied
  /\ pc \notin {"terminal"} \cup Copying \cup Unwinding =>
       wrote.head = "none" /\ ~wrote.whole /\ wrote.bytes = 0
  /\ pc \in Copying => ~wrote.whole
  /\ applied /\ Ending =>
       /\ ~upstream /\ wrote.head = "none"
       /\ pc \in {"wait", "terminal", "fail"} \cup Unwinding /\ (pc = "fail" => terminal)

\* What is left of a truncated body and what has passed make up its limit.
Counted ==
  /\ pc = "pace" => fault.action = "throttle"
  /\ fault.action = "truncate" =>
       /\ pc \notin Early => remaining + Passed \in fault.bytes
       /\ applied => remaining = 0
       /\ applied /\ ~Wraps("request") => ~wrote.whole /\ pc \in Unwinding

IInv == Types /\ Events /\ Ends /\ Reporting /\ Barred /\ Silent /\ Counted

\* The places of the handler.
LEMMA PlaceNames ==
  \A p \in {"start", "check", "decide", "before", "execute", "wait", "terminal", "fail", "send", "response",
            "after", "deliver", "copy", "pace", "expire", "join", "cleanup", "drain", "unhook", "finish", "done"} :
    p \in Places
BY DEF Places, Early, Applying, Sending, Copying, Closing, Unwinding

\* The outcomes and the kinds of error.
LEMMA OutcomeNames ==
  /\ \A o \in {"completed", "unsupported_request", "proxy_overload", "executor_error", "stream_error",
             "upstream_error", "rpc_error", "canceled"} : o \in Outcomes /\ o \in Kinds
  /\ \A o \in {"", "upstream_rpc", "shutdown", "proxy_timeout", "client_canceled"} : o \in Kinds
BY DEF Outcomes, Kinds

-----------------------------------------------------------------------------
(* The records *)

\* What an action makes of the report and of what was written.
Reported(o, e, k, a) ==
  /\ report' \in Reports /\ report'.outcome = o /\ report'.err = e
  /\ report'.kind = k /\ report'.applied = a

Wrote(h, n, w) == wrote' \in Writes /\ wrote'.head = h /\ wrote'.bytes = n /\ wrote'.whole = w

\* The fields of a report.
LEMMA ReportFields ==
  \A r \in Reports : r.outcome \in Outcomes /\ r.err \in BOOLEAN /\ r.kind \in Kinds /\ r.applied \in BOOLEAN
BY DEF Reports

\* What was written to the client.
LEMMA WriteFields ==
  \A w \in Writes : w.bytes \in Nat /\ w.whole \in BOOLEAN
BY DEF Writes

\* What the assignments to a report do to the fields that the invariant is about.
LEMMA ReportChanges ==
  ASSUME report \in Reports
  PROVE  /\ \A b \in BOOLEAN : report' = [report EXCEPT !.reached = b]
            => Reported(report.outcome, report.err, report.kind, report.applied)
         /\ report' = [report EXCEPT !.err = TRUE]
            => Reported(report.outcome, TRUE, report.kind, report.applied)
         /\ \A o \in Outcomes : report' = [report EXCEPT !.outcome = o, !.err = TRUE]
            => Reported(o, TRUE, report.kind, report.applied)
         /\ \A o \in Outcomes : report' = [report EXCEPT !.err = TRUE, !.outcome = o]
            => Reported(o, TRUE, report.kind, report.applied)
         /\ \A o \in Outcomes : report' = [report EXCEPT !.reached = TRUE, !.outcome = o, !.err = TRUE]
            => Reported(o, TRUE, report.kind, report.applied)
         /\ \A o \in Outcomes, k \in Kinds : report' = [report EXCEPT !.outcome = o, !.kind = k]
            => Reported(o, report.err, k, report.applied)
         /\ \A o \in Outcomes, k \in Kinds : report' = [report EXCEPT !.outcome = o, !.err = TRUE, !.kind = k]
            => Reported(o, TRUE, k, report.applied)
         /\ \A k \in Kinds : report' = [report EXCEPT !.kind = k]
            => Reported(report.outcome, report.err, k, report.applied)
         /\ \A a \in BOOLEAN : report' = [report EXCEPT !.applied = a]
            => Reported(report.outcome, report.err, report.kind, a)
BY Zenon DEF Reports, Reported

\* What the writes do.
LEMMA WriteChanges ==
  ASSUME wrote \in Writes
  PROVE  /\ \A h \in {"error", "upstream"} : wrote' = [wrote EXCEPT !.head = h]
            => Wrote(h, wrote.bytes, wrote.whole)
         /\ wrote' = [wrote EXCEPT !.head = "synthetic", !.whole = TRUE]
            => Wrote("synthetic", wrote.bytes, TRUE)
         /\ wrote' = [wrote EXCEPT !.bytes = @ + 1]
            => Wrote(wrote.head, wrote.bytes + 1, wrote.whole)
         /\ wrote' = [wrote EXCEPT !.whole = TRUE]
            => Wrote(wrote.head, wrote.bytes, TRUE)
<1>1. \A h \in {"error", "upstream"} : wrote' = [wrote EXCEPT !.head = h] => Wrote(h, wrote.bytes, wrote.whole)
  BY DEF Writes, Wrote
<1>2. wrote' = [wrote EXCEPT !.head = "synthetic", !.whole = TRUE] => Wrote("synthetic", wrote.bytes, TRUE)
  BY Zenon DEF Writes, Wrote
<1>3. wrote' = [wrote EXCEPT !.bytes = @ + 1] => Wrote(wrote.head, wrote.bytes + 1, wrote.whole)
  BY DEF Writes, Wrote
<1>4. wrote' = [wrote EXCEPT !.whole = TRUE] => Wrote(wrote.head, wrote.bytes, TRUE)
  BY Zenon DEF Writes, Wrote
<1> QED BY ONLY Zenon, <1>1, <1>2, <1>3, <1>4

\* What each action, or part of one, does to the report and to what was written: the
\* records are changed here and nowhere else in the proofs.
LEMMA ExecutorErrorDoes ==
  ASSUME Types, ExecutorError PROVE pc' = "fail" /\ Reported("executor_error", TRUE, report.kind, report.applied)
BY Zenon, ReportChanges, OutcomeNames DEF Types, ExecutorError

\* A refused exchange.
LEMMA RefuseDoes ==
  ASSUME Types, Refuse
  PROVE  /\ \E o \in {"unsupported_request", "proxy_overload"} : Reported(o, report.err, o, report.applied)
         /\ Wrote("error", wrote.bytes, wrote.whole) /\ slot' \in BOOLEAN
<1>1. PICK o \in {"unsupported_request", "proxy_overload"} :
        /\ report' = [report EXCEPT !.outcome = o, !.kind = o]
        /\ slot' \in IF protocol = "grpc" /\ o = "unsupported_request" THEN BOOLEAN ELSE {FALSE}
  BY Zenon DEF Refuse
<1>2. o \in Outcomes /\ o \in Kinds BY Zenon, <1>1, OutcomeNames
<1>3. Reported(o, report.err, o, report.applied) BY Zenon, <1>1, <1>2, ReportChanges DEF Types
<1>4. Wrote("error", wrote.bytes, wrote.whole) BY Zenon, WriteChanges DEF Types, Refuse
<1>5. slot' \in BOOLEAN BY Zenon, <1>1
<1> QED BY Zenon, <1>3, <1>4, <1>5

\* A panic in the copy.
LEMMA PanicsDoes ==
  ASSUME Types, Panics PROVE pc' = Unwind /\ Reported("stream_error", TRUE, report.kind, report.applied)
BY Zenon, ReportChanges, OutcomeNames DEF Types, Panics, StreamError

\* A byte of the response.
LEMMA WriteDoes ==
  ASSUME Types, Write PROVE pc' = "copy" /\ report' = report /\ Wrote(wrote.head, wrote.bytes + 1, wrote.whole)
BY Zenon, WriteChanges DEF Types, Write

\* The report is as it was, but for Reached.
Unreported == Reported(report.outcome, report.err, report.kind, report.applied)

\* apply without a fault that is due.
LEMMA ProceedDoes == ASSUME Types, Proceed PROVE Unreported
<1>1. report' = [report EXCEPT !.reached = report.reached \/ Due] BY Zenon DEF Proceed
<1>2. (report.reached \/ Due) \in BOOLEAN OBVIOUS
<1> HIDE DEF Due
<1> QED BY Zenon, <1>1, <1>2, ReportChanges DEF Types, Unreported

\* apply of a fault that is due.
LEMMA ReachDoes ==
  ASSUME Types, Reach PROVE IF Cancelled THEN ExecutorError ELSE pc' = "execute" /\ Unreported
<1>1. report' = [report EXCEPT !.reached = TRUE] => Unreported BY Zenon, ReportChanges DEF Types, Unreported
<1> QED BY Zenon, <1>1 DEF Reach

\* The synthetic response.
LEMMA ExecuteRespondDoes ==
  ASSUME Types, ExecuteRespond
  PROVE  \/ Executed /\ Wrote("synthetic", wrote.bytes, TRUE)
         \/ ExecutorError /\ wrote' = wrote
BY Zenon, WriteChanges DEF Types, ExecuteRespond

\* fail after a fault has ended the flow.
LEMMA FailTerminalDoes ==
  ASSUME Types, FailTerminal
  PROVE  IF HTTP2 /\ disconnected /\ contacted THEN Reported("stream_error", TRUE, report.kind, report.applied)
         ELSE report' = report
BY Zenon, ReportChanges, OutcomeNames DEF Types, FailTerminal, StreamError

\* fail after the context has ended.
LEMMA FailCancelledDoes ==
  ASSUME Types, FailCancelled
  PROVE  IF HTTP2 /\ contacted THEN Reported("stream_error", TRUE, report.kind, report.applied)
         ELSE Reported(report.outcome, TRUE, report.kind, report.applied)
BY Zenon, ReportChanges, OutcomeNames DEF Types, FailCancelled, StreamError

\* fail with a reply.
LEMMA FailReplyDoes ==
  ASSUME Types, FailReply
  PROVE  /\ \E o \in Outcomes \ {"completed"} :
              /\ o = "canceled" => report.outcome = "canceled"
              /\ Reported(o, TRUE, report.kind, report.applied)
         /\ IF terminal THEN wrote' = wrote ELSE Wrote("error", wrote.bytes, wrote.whole)
<1> DEFINE o == IF report.outcome = "completed" THEN "upstream_error" ELSE report.outcome
<1>1. report' = [report EXCEPT !.err = TRUE, !.outcome = o] BY Zenon DEF FailReply
<1>2. o \in Outcomes \ {"completed"} /\ (o = "canceled" => report.outcome = "canceled")
  <2>1. report.outcome \in Outcomes BY Zenon, ReportFields DEF Types
  <2> QED BY ONLY Zenon, <2>1, OutcomeNames
<1> HIDE DEF o
<1>3. o \in Outcomes BY ONLY <1>2
<1>4. Reported(o, TRUE, report.kind, report.applied) BY Zenon, <1>1, <1>3, ReportChanges DEF Types
<1>5. IF terminal THEN wrote' = wrote ELSE Wrote("error", wrote.bytes, wrote.whole)
  BY Zenon, WriteChanges DEF Types, FailReply
<1> QED BY Zenon, <1>2, <1>4, <1>5

\* The header of the response.
LEMMA DeliverDoes == ASSUME Types, Deliver PROVE Wrote("upstream", wrote.bytes, wrote.whole)
BY Zenon, WriteChanges DEF Types, Deliver

\* The end of the response.
LEMMA CopyEndsDoes ==
  ASSUME Types, CopyEnds
  PROVE  /\ Wrote(wrote.head, wrote.bytes, TRUE)
         /\ report' = report \/ Reported("rpc_error", report.err, "upstream_rpc", report.applied)
BY Zenon, WriteChanges, ReportChanges, OutcomeNames DEF Types, CopyEnds

\* The report takes over the applied flag.
LEMMA JoinDoes ==
  ASSUME Types, Join \/ Cleanup PROVE Reported(report.outcome, report.err, report.kind, applied)
BY Zenon, ReportChanges DEF Types, Join, Cleanup

\* Why the context ended.
CancelKind == IF shutdown THEN "shutdown" ELSE IF ctx = "deadline" THEN "proxy_timeout" ELSE "client_canceled"

\* The verdict of the deferred calls.
LEMMA DrainDoes ==
  ASSUME Types, Drain
  PROVE  IF Cancelled /\ (~disconnected \/ report.err)
         THEN Reported("canceled", TRUE, CancelKind, report.applied)
         ELSE \E k \in Kinds : Reported(report.outcome, report.err, k, report.applied)
<1>1. CASE Cancelled /\ (~disconnected \/ report.err)
  <2>1. report' = [report EXCEPT !.outcome = "canceled", !.err = TRUE, !.kind = CancelKind]
    BY Zenon, <1>1 DEF Drain, CancelKind
  <2>2. CancelKind \in Kinds /\ "canceled" \in Outcomes BY Zenon, OutcomeNames DEF CancelKind
  <2>3. Reported("canceled", TRUE, CancelKind, report.applied) BY Zenon, <2>1, <2>2, ReportChanges DEF Types
  <2> QED BY Zenon, <1>1, <2>3
<1>2. CASE ~(Cancelled /\ (~disconnected \/ report.err))
  <2> DEFINE k == IF report.kind = "" /\ report.err THEN report.outcome ELSE report.kind
  <2>1. report' = [report EXCEPT !.kind = k] BY Zenon, <1>2 DEF Drain
  <2>2. report.outcome \in Outcomes /\ report.kind \in Kinds BY Zenon, ReportFields DEF Types
  <2>3. k \in Kinds BY ONLY Zenon, <2>2 DEF Kinds
  <2> HIDE DEF k
  <2>4. Reported(report.outcome, report.err, k, report.applied) BY Zenon, <2>1, <2>3, ReportChanges DEF Types
  <2> QED BY Zenon, <1>2, <2>3, <2>4
<1> QED BY Zenon, <1>1, <1>2

\* No fault.
LEMMA BlankFault == Blank.action = "" /\ Blank.action \notin BodyActions /\ Blank.bytes = {}
BY DEF Blank, BodyActions

\* Validation leaves only faults that fit.
LEMMA FaultFits == \A f \in Faults : protocol \in Http /\ validate(protocol, f) => Fits(f)
<1> SUFFICES ASSUME NEW f \in Faults, protocol \in Http, validate(protocol, f) PROVE Fits(f) OBVIOUS
<1>1. validateFault(f, f.phase) BY Zenon DEF validate
<1>2. f.bytes \in SUBSET Int BY HttpAssumption DEF Fault
<1>3. f.bytes \subseteq Nat
  <2>1. ASSUME NEW n \in f.bytes PROVE n >= 0
    <3>1. Given(f.bytes) BY Zenon, <2>1 DEF Given
    <3>2. NonNegative(f.bytes) BY Zenon, <1>1, <3>1 DEF validateFault
    <3> QED BY Zenon, <3>2 DEF NonNegative
  <2> QED BY <1>2, <2>1
<1>4. f.action # "" BY ONLY Zenon, <1>1 DEF validateFault, Holds, BodyActions
<1>5. f # Blank BY Zenon, <1>4, BlankFault
<1>6. f.action \in BodyActions => f.direction \in {"request", "response"} BY Zenon, <1>1 DEF validateFault
<1>7. f.action = "hold_request" \/ f.action = "respond" => f.phase = BeforeUpstreamRequest
  BY Zenon, <1>1 DEF validateFault
<1>8. f.action = "truncate" => f.bytes # {} BY Zenon, <1>1 DEF validateFault, NonNegative, Given
<1>9. \A m, n \in f.bytes : m = n BY Zenon, HttpAssumption
<1> QED BY Zenon, <1>3, <1>4, <1>5, <1>6, <1>7, <1>8, <1>9 DEF Fits

\* And so does no fault.
LEMMA BlankFits == Fits(Blank)
<1>1. Blank.action # "hold_request" /\ Blank.action # "respond" /\ Blank.action # "truncate" BY Zenon, BlankFault
<1> QED BY Zenon, <1>1, BlankFault DEF Fits

\* Types is preserved.
LEMMA TypesStep == ASSUME Types, [Next]_vars PROVE Types'
<1>1. ASSUME Start PROVE Types'
  BY PlaceNames, <1>1 DEF Start, Step, Record, fixed, client, upload, flow, Types
<1>2. ASSUME Refuse PROVE Types'
  <2>1. report' \in Reports /\ slot' \in BOOLEAN /\ wrote' \in Writes
    BY Zenon, <1>2, RefuseDoes DEF Reported, Wrote, Types
  <2> QED BY PlaceNames, <1>2, <2>1 DEF Refuse, Step, fixed, client, upload, flow, marks, Types
<1>3. ASSUME Accept PROVE Types'
  BY PlaceNames, <1>3 DEF Accept, Step, fixed, client, upload, flow, marks, Types
<1>4. ASSUME Decide PROVE Types'
  <2>1. Fits(fault') /\ remaining' \in Nat
    <3>1. Fits(fault') BY Zenon, <1>4, FaultFits, BlankFits DEF Types, Decide
    <3>2. fault'.bytes \subseteq Nat BY Zenon, <3>1 DEF Fits
    <3>3. remaining' \in fault'.bytes \/ remaining' = 0 BY Zenon, <1>4 DEF Decide
    <3> QED BY <3>1, <3>2, <3>3
  <2> QED BY PlaceNames, <1>4, <2>1 DEF Decide, Step, client, upload, flow, Types
<1>5. ASSUME Proceed PROVE Types'
  <2>1. report' \in Reports BY Zenon, <1>5, ProceedDoes DEF Reported, Unreported, Types
  <2> QED BY PlaceNames, <1>5, <2>1 DEF Proceed, Onward, fixed, client, upload, flow, marks, Types
<1>6. ASSUME Reach PROVE Types'
  <2>1. report' \in Reports BY Zenon, <1>6, ReachDoes, ExecutorErrorDoes DEF Reported, Unreported, Types
  <2> QED BY PlaceNames, <1>6, <2>1 DEF Reach, Due, Phase, ExecutorError, fixed, client, flow, marks, Types
<1>7. ASSUME ExecuteWait PROVE Types'
  BY PlaceNames, <1>7 DEF ExecuteWait, Step, FaultApplied, Record, fixed, client, upload, flow, Types
<1>8. ASSUME ExecuteRespond PROVE Types'
  <2>1. report' \in Reports /\ wrote' \in Writes
    BY Zenon, <1>8, ExecuteRespondDoes, ExecutorErrorDoes DEF Executed, Reported, Wrote, Types
  <2> QED BY PlaceNames, <1>8, <2>1 DEF ExecuteRespond, FaultApplied, Record, Executed, Onward, ExecutorError,
      fixed, client, upload, Types
<1>9. ASSUME ExecuteClose PROVE Types'
  <2>1. report' \in Reports BY Zenon, <1>9, ExecutorErrorDoes DEF ExecuteClose, Executed, Reported, Types
  <2>2. applied' \in BOOLEAN BY Zenon, <1>9 DEF ExecuteClose, FaultApplied, marks, Types
  <2>3. terminal' \in BOOLEAN /\ disconnected' \in BOOLEAN
    BY Zenon, <1>9 DEF ExecuteClose, CloseConnection, flow, Types
  <2>4. leg' \in {"open", "gone", "closed"} BY Zenon, <1>9 DEF ExecuteClose, CloseConnection, Types
  <2>5. pc' \in Places BY <1>9, PlaceNames DEF ExecuteClose, Executed, ExecutorError, Onward
  <2>6. /\ upstream' \in BOOLEAN
        /\ UNCHANGED <<fixed, hook, expired, complete, upload, remaining, slot, contacted, wrote>>
    BY Zenon, <1>9 DEF ExecuteClose
  <2> QED BY <2>1, <2>2, <2>3, <2>4, <2>5, <2>6 DEF fixed, upload, Types
<1>10. ASSUME WaitOver PROVE Types'
  <2>1. report' \in Reports BY Zenon, <1>10, ExecutorErrorDoes DEF WaitOver, Executed, Reported, Types
  <2>2. applied' = TRUE BY Zenon, <1>10 DEF WaitOver, FaultApplied
  <2>3. terminal' \in BOOLEAN /\ disconnected' \in BOOLEAN
    BY Zenon, <1>10 DEF WaitOver, CloseConnection, flow, Types
  <2>4. leg' \in {"open", "gone", "closed"} BY Zenon, <1>10 DEF WaitOver, CloseConnection, Types
  <2>5. pc' \in Places BY <1>10, PlaceNames DEF WaitOver, Executed, ExecutorError, Onward
  <2>6. UNCHANGED <<fixed, hook, upstream, expired, complete, upload, remaining, slot, contacted, wrote>>
    BY Zenon, <1>10 DEF WaitOver
  <2> QED BY <2>1, <2>2, <2>3, <2>4, <2>5, <2>6 DEF fixed, upload, Types
<1>11. ASSUME FailTerminal PROVE Types'
  <2>1. report' \in Reports BY Zenon, <1>11, FailTerminalDoes DEF Reported, Types
  <2> QED BY PlaceNames, <1>11, <2>1 DEF FailTerminal, Step, Unwind, fixed, client, upload, flow, marks, Types
<1>12. ASSUME FailCancelled PROVE Types'
  <2>1. report' \in Reports BY Zenon, <1>12, FailCancelledDoes DEF Reported, Types
  <2>2. terminal' \in BOOLEAN /\ disconnected' \in BOOLEAN
    BY Zenon, <1>12 DEF FailCancelled, CloseConnection, flow, Types
  <2>3. leg' \in {"open", "gone", "closed"} BY Zenon, <1>12 DEF FailCancelled, CloseConnection, Types
  <2>4. pc' \in Places BY <1>12, PlaceNames DEF FailCancelled, Step, Unwind
  <2>5. UNCHANGED <<fixed, hook, upstream, expired, complete, upload, remaining, marks, slot, contacted, wrote>>
    BY Zenon, <1>12 DEF FailCancelled
  <2> QED BY <2>1, <2>2, <2>3, <2>4, <2>5 DEF fixed, upload, marks, Types
<1>13. ASSUME FailReply PROVE Types'
  <2>1. report' \in Reports /\ wrote' \in Writes BY Zenon, <1>13, FailReplyDoes DEF Reported, Wrote, Types
  <2> QED BY PlaceNames, <1>13, <2>1 DEF FailReply, Step, Unwind, fixed, client, upload, flow, marks, Types
<1>14. ASSUME Send PROVE Types'
  BY PlaceNames, <1>14 DEF Send, Step, fixed, client, flow, marks, Types
<1>15. ASSUME RoundTrip PROVE Types'
  BY PlaceNames, <1>15 DEF RoundTrip, fixed, client, upload, flow, marks, Types
<1>16. ASSUME Deliver PROVE Types'
  <2>1. wrote' \in Writes BY Zenon, <1>16, DeliverDoes DEF Wrote, Types
  <2> QED BY PlaceNames, <1>16, <2>1 DEF Deliver, Step, fixed, client, upload, flow, marks, Types
<1>17. ASSUME CopyByte PROVE Types'
  <2>1. report' \in Reports /\ wrote' \in Writes
    BY Zenon, <1>17, PanicsDoes, WriteDoes DEF CopyByte, Limited, Reported, Wrote, Types
  <2>2. applied' \in BOOLEAN BY Zenon, <1>17 DEF CopyByte, Limited, FaultApplied, marks, Types
  <2>3. remaining' \in Nat
    <3>1. remaining' = remaining \/ (~Cuts /\ fault.action = "truncate" /\ remaining' = remaining - 1)
      BY Zenon, <1>17 DEF CopyByte, Limited
    <3> QED BY <3>1 DEF Cuts, Types
  <2>4. pc' \in Places BY <1>17, PlaceNames DEF CopyByte, Limited, Panics, Write, Unwind
  <2>5. UNCHANGED <<fixed, hook, upstream, client, upload, flow, slot, contacted>> BY Zenon, <1>17 DEF CopyByte
  <2> QED BY <2>1, <2>2, <2>3, <2>4, <2>5 DEF fixed, client, upload, flow, Types
<1>18. ASSUME CopyPaced PROVE Types'
  <2>1. wrote' \in Writes BY Zenon, <1>18, WriteDoes DEF CopyPaced, Wrote, Types
  <2> QED BY PlaceNames, <1>18, <2>1 DEF CopyPaced, Write, fixed, client, upload, flow, marks, Types
<1>19. ASSUME CopyEnds PROVE Types'
  <2>1. report' \in Reports /\ wrote' \in Writes BY Zenon, <1>19, CopyEndsDoes DEF Reported, Wrote, Types
  <2> QED BY PlaceNames, <1>19, <2>1 DEF CopyEnds, Step, Unwind, fixed, client, upload, flow, marks, Types
<1>20. ASSUME CopyFails PROVE Types'
  <2>1. report' \in Reports BY Zenon, <1>20, PanicsDoes DEF CopyFails, Reported, Types
  <2> QED BY PlaceNames, <1>20, <2>1 DEF CopyFails, Unwind, Panics, fixed, client, upload, flow, marks, Types
<1>21. ASSUME Expire PROVE Types'
  <2>1. upstream' \in BOOLEAN /\ expired' \in BOOLEAN BY Zenon, <1>21 DEF Expire
  <2> QED BY PlaceNames, <1>21, <2>1 DEF Expire, Step, fixed, upload, flow, marks, Types
<1>22. ASSUME Join PROVE Types'
  <2>1. report' \in Reports BY Zenon, <1>22, JoinDoes DEF Reported, Types
  <2> QED BY PlaceNames, <1>22, <2>1 DEF Join, Step, fixed, client, upload, flow, marks, Types
<1>23. ASSUME Cleanup PROVE Types'
  <2>1. report' \in Reports BY Zenon, <1>23, JoinDoes DEF Reported
  <2>2. leg' \in {"open", "gone", "closed"} BY Zenon, <1>23 DEF Cleanup, Types
  <2>3. /\ pc' = "drain" /\ upstream' \in BOOLEAN
        /\ UNCHANGED <<fixed, hook, expired, complete, upload, remaining, flow, marks, slot, contacted, wrote>>
    BY Zenon, <1>23 DEF Cleanup, Step
  <2> QED BY PlaceNames, <2>1, <2>2, <2>3 DEF fixed, upload, flow, marks, Types
<1>24. ASSUME Drain PROVE Types'
  <2>1. report' \in Reports BY Zenon, <1>24, DrainDoes DEF Reported
  <2>2. /\ pc' = "unhook"
        /\ UNCHANGED <<fixed, hook, upstream, client, upload, remaining, flow, marks, slot, contacted, wrote>>
    BY Zenon, <1>24 DEF Drain, Step
  <2> QED BY PlaceNames, <2>1, <2>2 DEF fixed, client, upload, flow, marks, Types
<1>25. ASSUME Unhook PROVE Types'
  <2>1. expired' \in BOOLEAN /\ hook' \in {"off", "armed", "due", "ran"} BY Zenon, <1>25 DEF Unhook, Types
  <2> QED BY PlaceNames, <1>25, <2>1 DEF Unhook, Step, fixed, upload, flow, marks, Types
<1>26. ASSUME Finish PROVE Types'
  <2>1. slot' \in BOOLEAN /\ ctx' \in {"live", "deadline", "canceled"}
    BY Zenon, <1>26 DEF Finish, Cancelled, Types
  <2> QED BY PlaceNames, <1>26, <2>1 DEF Finish, Step, client, upload, flow, Types
<1>27. ASSUME ReadStart PROVE Types'
  BY PlaceNames, <1>27 DEF ReadStart, Refuses, client, marks, handler, flow, Types
<1>28. ASSUME ReadByte PROVE Types'
  <2>1. applied' \in BOOLEAN BY Zenon, <1>28 DEF ReadByte, Limited, FaultApplied, marks, Types
  <2>2. remaining' \in Nat
    <3>1. remaining' = remaining \/ (~Cuts /\ fault.action = "truncate" /\ remaining' = remaining - 1)
      BY Zenon, <1>28 DEF ReadByte, Limited
    <3> QED BY <3>1 DEF Cuts, Types
  <2>3. reader' \in {"idle", "pacing", "done"} /\ (forwarded' = forwarded \/ forwarded' = forwarded + 1)
    BY Zenon, <1>28 DEF ReadByte, Limited, Forward
  <2>4. UNCHANGED <<handler, client, discarding>> BY Zenon, <1>28 DEF ReadByte
  <2> QED BY <2>1, <2>2, <2>3, <2>4 DEF handler, flow, client, Types
<1>29. ASSUME ReadPaced PROVE Types'
  BY PlaceNames, <1>29 DEF ReadPaced, Forward, client, marks, handler, flow, Types
<1>30. ASSUME ReadEOF PROVE Types'
  BY PlaceNames, <1>30 DEF ReadEOF, marks, handler, flow, Types
<1>31. ASSUME ReadFails PROVE Types'
  BY PlaceNames, <1>31 DEF ReadFails, client, marks, handler, flow, Types
<1>32. ASSUME Abandon PROVE Types'
  BY PlaceNames, <1>32 DEF Abandon, client, marks, handler, flow, Types
<1>33. ASSUME ClientLeaves PROVE Types'
  BY PlaceNames, <1>33 DEF ClientLeaves, others, upload, flow, marks, Types
<1>34. ASSUME ClientCancels PROVE Types'
  BY PlaceNames, <1>34 DEF ClientCancels, EndCtx, others, upload, flow, marks, Types
<1>35. ASSUME Deadline PROVE Types'
  BY PlaceNames, <1>35 DEF Deadline, EndCtx, others, upload, flow, marks, Types
<1>36. ASSUME ConnDeadline PROVE Types'
  BY PlaceNames, <1>36 DEF ConnDeadline, others, upload, flow, marks, Types
<1>37. ASSUME ServerCloses PROVE Types'
  BY PlaceNames, <1>37 DEF ServerCloses, EndCtx, others, upload, flow, marks, Types
<1>38. ASSUME Hook PROVE Types'
  <2>1. expired' \in BOOLEAN /\ leg' \in {"open", "gone", "closed"} BY Zenon, <1>38 DEF Hook, Types
  <2> QED BY <1>38, <2>1 DEF Hook, others, upload, flow, marks, Types
<1>39. UNCHANGED vars => Types' BY DEF vars, client, upload, flow, marks, Types
<1> QED BY Zenon, <1>1, <1>2, <1>3, <1>4, <1>5, <1>6, <1>7, <1>8, <1>9, <1>10, <1>11, <1>12, <1>13, <1>14,
    <1>15, <1>16, <1>17, <1>18, <1>19, <1>20, <1>21, <1>22, <1>23, <1>24, <1>25, <1>26, <1>27, <1>28, <1>29,
    <1>30, <1>31, <1>32, <1>33, <1>34, <1>35, <1>36, <1>37, <1>38, <1>39 DEF Next, Handle, Ended

\* Events is preserved: the applied flag moves only with the event, and only while
\* a reader of the upload may still run or the handler is at work.
LEMMA EventsStep == ASSUME Types, Events, [Next]_vars PROVE Events'
<1>1. ASSUME Start PROVE Events'
  BY Zenon, BlankFault, ReportFields, <1>1 DEF Start, Step, Record, fixed, client, upload, flow,
       Events, Types,
      Early, Closing, Wraps, Joined, FaultApplied
<1>2. ASSUME Refuse PROVE Events'
  <2>1. report'.applied = report.applied BY Zenon, <1>2, RefuseDoes DEF Reported, Types
  <2> QED BY Zenon, BlankFault, ReportFields, <1>2, <2>1 DEF Refuse, Step, fixed, client, upload, flow, marks,
      Events, Types, Early, Closing, Wraps, Joined, Record, FaultApplied
<1>3. ASSUME Accept PROVE Events'
  BY Zenon, BlankFault, ReportFields, <1>3 DEF Accept, Step, fixed, client, upload, flow, marks,
       Events, Types,
      Early, Closing, Wraps, Joined, Record, FaultApplied
<1>4. ASSUME Decide PROVE Events'
  BY Zenon, BlankFault, ReportFields, <1>4 DEF Decide, Step, Record, Given, client, upload, flow,
       Events, Types,
      Early, Closing, Wraps, Joined, FaultApplied
<1>5. ASSUME Proceed PROVE Events'
  <2>1. report'.applied = report.applied BY Zenon, <1>5, ProceedDoes DEF Reported, Unreported, Types
  <2> QED BY Zenon, BlankFault, ReportFields, <1>5, <2>1 DEF Proceed, Onward, fixed, client, upload, flow, marks,
      Events, Types, Early, Closing, Wraps, Joined, Record, FaultApplied
<1>6. ASSUME Reach PROVE Events'
  <2>1. report'.applied = report.applied
    BY Zenon, <1>6, ReachDoes, ExecutorErrorDoes DEF Reported, Unreported, Types
  <2> QED BY Zenon, BlankFault, ReportFields, <1>6, <2>1 DEF Reach, Due, Phase, ExecutorError, fixed, client, flow,
      marks, Events, Types, Early, Closing, Wraps, Joined, Record, FaultApplied
<1>7. ASSUME ExecuteWait PROVE Events'
  <2>1. fault # Blank BY Zenon, <1>7, BlankFault DEF ExecuteWait, Holds
  <2>2. /\ pc = "execute" /\ pc' = "wait" /\ applied' = TRUE
        /\ life' = IF applied THEN life ELSE IF life = "applied" THEN "twice" ELSE "applied"
        /\ UNCHANGED <<fixed, upload, report>>
    BY Zenon, <1>7 DEF ExecuteWait, Step, FaultApplied, Record
  <2> QED BY <2>1, <2>2 DEF fixed, upload, Events, Types, Early, Closing, Wraps
<1>8. ASSUME ExecuteRespond PROVE Events'
  <2>1. report'.applied = report.applied
    BY Zenon, <1>8, ExecuteRespondDoes, ExecutorErrorDoes DEF Executed, Reported, Types
  <2> QED BY Zenon, BlankFault, ReportFields, <1>8, <2>1 DEF ExecuteRespond, FaultApplied, Record, Executed, Onward,
      ExecutorError, fixed, client, upload, Events, Types, Early, Closing, Wraps, Joined
<1>9. ASSUME ExecuteClose PROVE Events'
  <2>1. report'.applied = report.applied
    BY Zenon, <1>9, ExecutorErrorDoes DEF ExecuteClose, Executed, Reported, Types
  <2> QED BY Zenon, BlankFault, ReportFields, <1>9, <2>1 DEF ExecuteClose, CloseConnection, Executed, FaultApplied,
      Record, Onward, ExecutorError, fixed, upload, marks, flow, Events, Types, Early, Closing, Wraps, Joined
<1>10. ASSUME WaitOver PROVE Events'
  <2>1. fault # Blank BY Zenon, <1>10, BlankFault DEF WaitOver, Holds
  <2>2. /\ pc = "wait" /\ pc' \in {"fail", "terminal", "deliver", "send"} /\ applied' = TRUE
        /\ life' = IF applied THEN life ELSE IF life = "applied" THEN "twice" ELSE "applied"
        /\ UNCHANGED fixed
    BY Zenon, <1>10 DEF WaitOver, Executed, ExecutorError, Onward, FaultApplied, Record
  <2> QED BY Zenon, <2>1, <2>2 DEF fixed, Events, Types, Early, Closing, Wraps
<1>11. ASSUME FailTerminal PROVE Events'
  <2>1. report'.applied = report.applied BY Zenon, <1>11, FailTerminalDoes DEF Reported, Types
  <2> QED BY Zenon, BlankFault, ReportFields, <1>11, <2>1 DEF FailTerminal, Step, Unwind, fixed, client, upload,
      flow, marks, Events, Types, Early, Closing, Wraps, Joined, Record, FaultApplied
<1>12. ASSUME FailCancelled PROVE Events'
  <2>1. report'.applied = report.applied BY Zenon, <1>12, FailCancelledDoes DEF Reported, Types
  <2> QED BY Zenon, BlankFault, ReportFields, <1>12, <2>1 DEF FailCancelled, Step, Unwind, CloseConnection, fixed,
      upload, flow, marks, Events, Types, Early, Closing, Wraps, Joined, Record, FaultApplied
<1>13. ASSUME FailReply PROVE Events'
  <2>1. report'.applied = report.applied BY Zenon, <1>13, FailReplyDoes DEF Reported, Types
  <2> QED BY Zenon, BlankFault, ReportFields, <1>13, <2>1 DEF FailReply, Step, Unwind, fixed, client, upload, flow,
      marks, Events, Types, Early, Closing, Wraps, Joined, Record, FaultApplied
<1>14. ASSUME Send PROVE Events'
  BY Zenon, BlankFault, ReportFields, <1>14 DEF Send, Step, fixed, client, flow, marks, Events, Types, Early,
      Closing, Wraps, Joined, Record, FaultApplied
<1>15. ASSUME RoundTrip PROVE Events'
  BY Zenon, BlankFault, ReportFields, <1>15 DEF RoundTrip, fixed, client, upload, flow, marks, Events,
       Types, Early,
      Closing, Wraps, Joined, Record, FaultApplied
<1>16. ASSUME Deliver PROVE Events'
  BY Zenon, BlankFault, ReportFields, <1>16 DEF Deliver, Step, fixed, client, upload, flow, marks,
       Events, Types,
      Early, Closing, Wraps, Joined, Record, FaultApplied
<1>17. ASSUME CopyByte PROVE Events'
  <2>1. report'.applied = report.applied
    BY Zenon, <1>17, PanicsDoes, WriteDoes DEF CopyByte, Limited, Reported, Types
  <2> QED BY Zenon, BlankFault, ReportFields, <1>17, <2>1 DEF CopyByte, Limited, Cuts, FaultApplied, Record, Unwind,
      Panics, Write, fixed, client, upload, flow, marks, Events, Types, Early, Closing, Wraps, Joined
<1>18. ASSUME CopyPaced PROVE Events'
  BY Zenon, BlankFault, ReportFields, <1>18 DEF CopyPaced, Write, fixed, client, upload, flow, marks,
       Events, Types,
      Early, Closing, Wraps, Joined, Record, FaultApplied
<1>19. ASSUME CopyEnds PROVE Events'
  <2>1. report'.applied = report.applied BY Zenon, <1>19, CopyEndsDoes DEF Reported, Types
  <2> QED BY Zenon, BlankFault, ReportFields, <1>19, <2>1 DEF CopyEnds, Step, Unwind, fixed, client, upload, flow,
      marks, Events, Types, Early, Closing, Wraps, Joined, Record, FaultApplied
<1>20. ASSUME CopyFails PROVE Events'
  <2>1. report'.applied = report.applied BY Zenon, <1>20, PanicsDoes DEF CopyFails, Reported, Types
  <2> QED BY Zenon, BlankFault, ReportFields, <1>20, <2>1 DEF CopyFails, Unwind, Panics, fixed, client, upload, flow,
      marks, Events, Types, Early, Closing, Wraps, Joined, Record, FaultApplied
<1>21. ASSUME Expire PROVE Events'
  BY Zenon, BlankFault, ReportFields, <1>21 DEF Expire, Step, fixed, upload, flow, marks, Events,
       Types, Early,
      Closing, Wraps, Joined, Record, FaultApplied
<1>22. ASSUME Join PROVE Events'
  <2>1. report'.applied = applied BY Zenon, <1>22, JoinDoes DEF Reported, Types
  <2> QED BY Zenon, BlankFault, ReportFields, <1>22, <2>1 DEF Join, Step, fixed, client, upload, flow, marks, Events,
      Types, Early, Closing, Wraps, Joined, Record, FaultApplied
<1>23. ASSUME Cleanup PROVE Events'
  <2>1. report'.applied = applied BY Zenon, <1>23, JoinDoes DEF Reported, Types
  <2> QED BY Zenon, BlankFault, ReportFields, <1>23, <2>1 DEF Cleanup, Step, fixed, upload, flow, marks, Events,
      Types, Early, Closing, Wraps, Joined, Record, FaultApplied
<1>24. ASSUME Drain PROVE Events'
  <2>1. report'.applied = report.applied BY Zenon, <1>24, DrainDoes DEF Reported, Types
  <2> QED BY Zenon, BlankFault, ReportFields, <1>24, <2>1 DEF Drain, Step, CancelKind, fixed, client, upload, flow,
      marks, Events, Types, Early, Closing, Wraps, Joined, Record, FaultApplied
<1>25. ASSUME Unhook PROVE Events'
  BY Zenon, BlankFault, ReportFields, <1>25 DEF Unhook, Step, Stopped, fixed, upload, flow, marks,
       Events, Types,
      Early, Closing, Wraps, Joined, Record, FaultApplied
<1>26. ASSUME Finish PROVE Events'
  BY Zenon, BlankFault, ReportFields, <1>26 DEF Finish, Step, Record, client, upload, flow, Events,
       Types, Early,
      Closing, Wraps, Joined, FaultApplied
<1>27. ASSUME ReadStart PROVE Events'
  BY Zenon, BlankFault, ReportFields, <1>27 DEF ReadStart, Refuses, client, marks, handler, flow,
       Events, Types,
      Early, Closing, Wraps, Joined, Record, FaultApplied
<1>28. ASSUME ReadByte PROVE Events'
  BY Zenon, BlankFault, ReportFields, <1>28 DEF ReadByte, Limited, Cuts, FaultApplied, Record, Forward,
       client,
      marks, handler, flow, Events, Types, Early, Closing, Wraps, Joined
<1>29. ASSUME ReadPaced PROVE Events'
  BY Zenon, BlankFault, ReportFields, <1>29 DEF ReadPaced, Forward, client, marks, handler, flow,
       Events, Types,
      Early, Closing, Wraps, Joined, Record, FaultApplied
<1>30. ASSUME ReadEOF PROVE Events'
  BY Zenon, BlankFault, ReportFields, <1>30 DEF ReadEOF, marks, handler, flow, Events, Types, Early,
       Closing, Wraps,
      Joined, Record, FaultApplied
<1>31. ASSUME ReadFails PROVE Events'
  BY Zenon, BlankFault, ReportFields, <1>31 DEF ReadFails, client, marks, handler, flow, Events, Types, Early,
      Closing, Wraps, Joined, Record, FaultApplied
<1>32. ASSUME Abandon PROVE Events'
  BY Zenon, BlankFault, ReportFields, <1>32 DEF Abandon, client, marks, handler, flow, Events, Types,
       Early, Closing,
      Wraps, Joined, Record, FaultApplied
<1>33. ASSUME ClientLeaves PROVE Events'
  BY Zenon, BlankFault, ReportFields, <1>33 DEF ClientLeaves, others, upload, flow, marks, Events,
       Types, Early,
      Closing, Wraps, Joined, Record, FaultApplied
<1>34. ASSUME ClientCancels PROVE Events'
  BY Zenon, BlankFault, ReportFields, <1>34 DEF ClientCancels, EndCtx, others, upload, flow, marks, Events,
      Types, Early, Closing, Wraps, Joined, Record, FaultApplied
<1>35. ASSUME Deadline PROVE Events'
  BY Zenon, BlankFault, ReportFields, <1>35 DEF Deadline, EndCtx, others, upload, flow, marks, Events,
       Types, Early,
      Closing, Wraps, Joined, Record, FaultApplied
<1>36. ASSUME ConnDeadline PROVE Events'
  BY Zenon, BlankFault, ReportFields, <1>36 DEF ConnDeadline, others, upload, flow, marks, Events,
       Types, Early,
      Closing, Wraps, Joined, Record, FaultApplied
<1>37. ASSUME ServerCloses PROVE Events'
  BY Zenon, BlankFault, ReportFields, <1>37 DEF ServerCloses, EndCtx, others, upload, flow, marks,
       Events, Types,
      Early, Closing, Wraps, Joined, Record, FaultApplied
<1>38. ASSUME Hook PROVE Events'
  BY Zenon, BlankFault, ReportFields, <1>38 DEF Hook, others, upload, flow, marks, Events, Types,
       Early, Closing,
      Wraps, Joined, Record, FaultApplied
<1>39. UNCHANGED vars => Events'
  BY DEF vars, client, upload, flow, marks, Events, Types, Early, Closing, Wraps, Joined, Record, FaultApplied
<1> QED BY Zenon, <1>1, <1>2, <1>3, <1>4, <1>5, <1>6, <1>7, <1>8, <1>9, <1>10, <1>11, <1>12, <1>13, <1>14,
    <1>15, <1>16, <1>17, <1>18, <1>19, <1>20, <1>21, <1>22, <1>23, <1>24, <1>25, <1>26, <1>27, <1>28, <1>29,
    <1>30, <1>31, <1>32, <1>33, <1>34, <1>35, <1>36, <1>37, <1>38, <1>39 DEF Next, Handle, Ended

\* Ends is preserved.
LEMMA EndsStep == ASSUME Types, Ends, [Next]_vars PROVE Ends'
<1>1. ASSUME Start PROVE Ends'
  BY <1>1 DEF Start, Step, Record, fixed, client, upload, flow, Ends, Types, Early, Applying, Sending,
      Copying, Closing, Unwinding, HTTP2, Cancelled
<1>2. ASSUME Refuse PROVE Ends'
  BY <1>2 DEF Refuse, Step, fixed, client, upload, flow, marks, Ends, Types, Early, Applying, Sending,
      Copying, Closing, Unwinding, HTTP2, Cancelled
<1>3. ASSUME Accept PROVE Ends'
  BY <1>3 DEF Accept, Step, fixed, client, upload, flow, marks, Ends, Types, Early, Applying, Sending,
      Copying, Closing, Unwinding, HTTP2, Cancelled
<1>4. ASSUME Decide PROVE Ends'
  BY <1>4 DEF Decide, Step, Record, Given, client, upload, flow, Ends, Types, Early, Applying, Sending,
      Copying, Closing, Unwinding, HTTP2, Cancelled
<1>5. ASSUME Proceed PROVE Ends'
  BY <1>5 DEF Proceed, Onward, fixed, client, upload, flow, marks, Ends, Types, Early, Applying, Sending,
      Copying, Closing, Unwinding, HTTP2, Cancelled
<1>6. ASSUME Reach PROVE Ends'
  <2>1. /\ pc \in {"before", "after"} /\ pc' \in {"execute", "fail"}
        /\ discarding' => fault.action = "hold_request" /\ Due
        /\ UNCHANGED <<fixed, hook, upstream, client, remaining, forwarded, flow, marks, slot, contacted, wrote>>
    BY Zenon, <1>6 DEF Reach, ExecutorError
  <2>2. discarding' => pc = "before"
    BY Zenon, <2>1 DEF Due, Phase, BeforeUpstreamRequest, AfterUpstreamHeaders, Fits, Types
  <2>3. discarding' => ~contacted BY <2>2 DEF Ends, Early
  <2> QED BY <2>1, <2>3 DEF fixed, client, flow, Ends, Early, Applying, Sending, Copying, Closing, Unwinding,
      HTTP2
<1>7. ASSUME ExecuteWait PROVE Ends'
  BY <1>7 DEF ExecuteWait, Step, FaultApplied, Record, fixed, client, upload, flow, Ends, Types, Early,
      Applying, Sending, Copying, Closing, Unwinding, HTTP2, Cancelled
<1>8. ASSUME ExecuteRespond PROVE Ends'
  BY <1>8 DEF ExecuteRespond, FaultApplied, Record, Executed, Onward, ExecutorError, fixed, client, upload,
      Ends, Types, Early, Applying, Sending, Copying, Closing, Unwinding, HTTP2, Cancelled
<1>9. ASSUME ExecuteClose PROVE Ends'
  BY <1>9 DEF ExecuteClose, CloseConnection, Executed, FaultApplied, Record, Onward, ExecutorError, fixed,
      upload, marks, flow, Ends, Types, Early, Applying, Sending, Copying, Closing, Unwinding, HTTP2, Cancelled
<1>10. ASSUME WaitOver PROVE Ends'
  BY <1>10 DEF WaitOver, FaultApplied, Record, Executed, CloseConnection, Onward, ExecutorError, fixed,
      upload, flow, Ends, Types, Early, Applying, Sending, Copying, Closing, Unwinding, HTTP2, Cancelled
<1>11. ASSUME FailTerminal PROVE Ends'
  BY <1>11 DEF FailTerminal, Step, Unwind, fixed, client, upload, flow, marks, Ends, Types, Early, Applying,
      Sending, Copying, Closing, Unwinding, HTTP2, Cancelled
<1>12. ASSUME FailCancelled PROVE Ends'
  BY <1>12 DEF FailCancelled, Step, Unwind, CloseConnection, fixed, upload, flow, marks, Ends, Types, Early,
      Applying, Sending, Copying, Closing, Unwinding, HTTP2, Cancelled
<1>13. ASSUME FailReply PROVE Ends'
  BY <1>13 DEF FailReply, Step, Unwind, fixed, client, upload, flow, marks, Ends, Types, Early, Applying,
      Sending, Copying, Closing, Unwinding, HTTP2, Cancelled
<1>14. ASSUME Send PROVE Ends'
  BY <1>14 DEF Send, Step, fixed, client, flow, marks, Ends, Types, Early, Applying, Sending, Copying,
      Closing, Unwinding, HTTP2, Cancelled
<1>15. ASSUME RoundTrip PROVE Ends'
  BY <1>15 DEF RoundTrip, fixed, client, upload, flow, marks, Ends, Types, Early, Applying, Sending, Copying,
      Closing, Unwinding, HTTP2, Cancelled
<1>16. ASSUME Deliver PROVE Ends'
  BY <1>16 DEF Deliver, Step, fixed, client, upload, flow, marks, Ends, Types, Early, Applying, Sending,
      Copying, Closing, Unwinding, HTTP2, Cancelled
<1>17. ASSUME CopyByte PROVE Ends'
  BY <1>17 DEF CopyByte, Limited, Cuts, FaultApplied, Record, Unwind, Panics, Write, fixed, client, upload,
      flow, marks, Ends, Types, Early, Applying, Sending, Copying, Closing, Unwinding, HTTP2, Cancelled
<1>18. ASSUME CopyPaced PROVE Ends'
  BY <1>18 DEF CopyPaced, Write, fixed, client, upload, flow, marks, Ends, Types, Early, Applying, Sending,
      Copying, Closing, Unwinding, HTTP2, Cancelled
<1>19. ASSUME CopyEnds PROVE Ends'
  BY <1>19 DEF CopyEnds, Step, Unwind, fixed, client, upload, flow, marks, Ends, Types, Early, Applying,
      Sending, Copying, Closing, Unwinding, HTTP2, Cancelled
<1>20. ASSUME CopyFails PROVE Ends'
  BY <1>20 DEF CopyFails, Unwind, Panics, fixed, client, upload, flow, marks, Ends, Types, Early, Applying,
      Sending, Copying, Closing, Unwinding, HTTP2, Cancelled
<1>21. ASSUME Expire PROVE Ends'
  BY <1>21 DEF Expire, Step, fixed, upload, flow, marks, Ends, Types, Early, Applying, Sending, Copying,
      Closing, Unwinding, HTTP2, Cancelled
<1>22. ASSUME Join PROVE Ends'
  BY <1>22 DEF Join, Step, fixed, client, upload, flow, marks, Ends, Types, Early, Applying, Sending, Copying,
      Closing, Unwinding, HTTP2, Cancelled
<1>23. ASSUME Cleanup PROVE Ends'
  BY <1>23 DEF Cleanup, Step, fixed, upload, flow, marks, Ends, Types, Early, Applying, Sending, Copying,
      Closing, Unwinding, HTTP2, Cancelled
<1>24. ASSUME Drain PROVE Ends'
  BY Zenon, <1>24 DEF Drain, Step, CancelKind, fixed, client, upload, flow, marks, Ends, Types, Early,
       Applying,
      Sending, Copying, Closing, Unwinding, HTTP2, Cancelled
<1>25. ASSUME Unhook PROVE Ends'
  BY <1>25 DEF Unhook, Step, Stopped, fixed, upload, flow, marks, Ends, Types, Early, Applying, Sending,
      Copying, Closing, Unwinding, HTTP2, Cancelled
<1>26. ASSUME Finish PROVE Ends'
  BY <1>26 DEF Finish, Step, Record, client, upload, flow, Ends, Types, Early, Applying, Sending, Copying,
      Closing, Unwinding, HTTP2, Cancelled
<1>27. ASSUME ReadStart PROVE Ends'
  BY <1>27 DEF ReadStart, Refuses, client, marks, handler, flow, Ends, Types, Early, Applying, Sending,
      Copying, Closing, Unwinding, HTTP2, Cancelled
<1>28. ASSUME ReadByte PROVE Ends'
  BY <1>28 DEF ReadByte, Limited, Cuts, FaultApplied, Record, Forward, client, marks, handler, flow, Ends,
      Types, Early, Applying, Sending, Copying, Closing, Unwinding, HTTP2, Cancelled
<1>29. ASSUME ReadPaced PROVE Ends'
  BY <1>29 DEF ReadPaced, Forward, client, marks, handler, flow, Ends, Types, Early, Applying, Sending,
      Copying, Closing, Unwinding, HTTP2, Cancelled
<1>30. ASSUME ReadEOF PROVE Ends'
  BY <1>30 DEF ReadEOF, marks, handler, flow, Ends, Types, Early, Applying, Sending, Copying, Closing,
      Unwinding, HTTP2, Cancelled
<1>31. ASSUME ReadFails PROVE Ends'
  BY <1>31 DEF ReadFails, client, marks, handler, flow, Ends, Types, Early, Applying, Sending, Copying,
      Closing, Unwinding, HTTP2, Cancelled
<1>32. ASSUME Abandon PROVE Ends'
  BY <1>32 DEF Abandon, client, marks, handler, flow, Ends, Types, Early, Applying, Sending, Copying, Closing,
      Unwinding, HTTP2, Cancelled
<1>33. ASSUME ClientLeaves PROVE Ends'
  BY <1>33 DEF ClientLeaves, others, upload, flow, marks, Ends, Types, Early, Applying, Sending, Copying,
      Closing, Unwinding, HTTP2, Cancelled
<1>34. ASSUME ClientCancels PROVE Ends'
  BY <1>34 DEF ClientCancels, EndCtx, others, upload, flow, marks, Ends, Types, Early, Applying, Sending,
      Copying, Closing, Unwinding, HTTP2, Cancelled
<1>35. ASSUME Deadline PROVE Ends'
  BY <1>35 DEF Deadline, EndCtx, others, upload, flow, marks, Ends, Types, Early, Applying, Sending, Copying,
      Closing, Unwinding, HTTP2, Cancelled
<1>36. ASSUME ConnDeadline PROVE Ends'
  BY <1>36 DEF ConnDeadline, others, upload, flow, marks, Ends, Types, Early, Applying, Sending, Copying,
      Closing, Unwinding, HTTP2, Cancelled
<1>37. ASSUME ServerCloses PROVE Ends'
  BY <1>37 DEF ServerCloses, EndCtx, others, upload, flow, marks, Ends, Types, Early, Applying, Sending,
      Copying, Closing, Unwinding, HTTP2, Cancelled
<1>38. ASSUME Hook PROVE Ends'
  BY <1>38 DEF Hook, others, upload, flow, marks, Ends, Types, Early, Applying, Sending, Copying, Closing,
      Unwinding, HTTP2, Cancelled
<1>39. UNCHANGED vars => Ends'
  BY DEF vars, client, upload, flow, marks, Ends, Types, Early, Applying, Sending, Copying, Closing,
      Unwinding, HTTP2, Cancelled
<1> QED BY Zenon, <1>1, <1>2, <1>3, <1>4, <1>5, <1>6, <1>7, <1>8, <1>9, <1>10, <1>11, <1>12, <1>13, <1>14,
    <1>15, <1>16, <1>17, <1>18, <1>19, <1>20, <1>21, <1>22, <1>23, <1>24, <1>25, <1>26, <1>27, <1>28, <1>29,
    <1>30, <1>31, <1>32, <1>33, <1>34, <1>35, <1>36, <1>37, <1>38, <1>39 DEF Next, Handle, Ended

\* Reporting is preserved.
LEMMA ReportingStep == ASSUME Types, Events, Reporting, [Next]_vars PROVE Reporting'
<1>1. ASSUME Start PROVE Reporting'
  BY <1>1 DEF Start, Step, Record, fixed, client, upload, flow, Reporting, Types, Early, Applying, Sending,
      Copying, Closing, Unwinding, Well, Cancelled, HTTP2
<1>2. ASSUME Refuse PROVE Reporting'
  <2>1. report'.outcome \notin {"completed", "canceled"} BY Zenon, <1>2, RefuseDoes DEF Reported, Wrote, Types
  <2> QED BY <1>2, <2>1 DEF Refuse, Step, fixed, client, upload, flow, marks, Reporting, Types, Early,
      Applying, Sending, Copying, Closing, Unwinding, Well, Cancelled, HTTP2
<1>3. ASSUME Accept PROVE Reporting'
  BY <1>3 DEF Accept, Step, fixed, client, upload, flow, marks, Reporting, Types, Early, Applying, Sending,
      Copying, Closing, Unwinding, Well, Cancelled, HTTP2
<1>4. ASSUME Decide PROVE Reporting'
  BY <1>4 DEF Decide, Step, Record, Given, client, upload, flow, Reporting, Types, Early, Applying, Sending,
      Copying, Closing, Unwinding, Well, Cancelled, HTTP2
<1>5. ASSUME Proceed PROVE Reporting'
  <2>1. report'.outcome = report.outcome /\ report'.err = report.err /\ report'.kind = report.kind
    BY Zenon, <1>5, ProceedDoes DEF Reported, Unreported, Types
  <2> QED BY <1>5, <2>1 DEF Proceed, Onward, fixed, client, upload, flow, marks, Reporting, Types, Early,
      Applying, Sending, Copying, Closing, Unwinding, Well, Cancelled, HTTP2
<1>6. ASSUME Reach PROVE Reporting'
  <2>1. (report'.outcome = report.outcome \/ report'.outcome \notin {"completed", "canceled"})
    BY Zenon, <1>6, ReachDoes, ExecutorErrorDoes DEF Reported, Unreported, Types
  <2> QED BY <1>6, <2>1 DEF Reach, Due, Phase, ExecutorError, fixed, client, flow, marks, Reporting, Types,
      Early, Applying, Sending, Copying, Closing, Unwinding, Well, Cancelled, HTTP2
<1>7. ASSUME ExecuteWait PROVE Reporting'
  BY <1>7 DEF ExecuteWait, Step, FaultApplied, Record, fixed, client, upload, flow, Reporting, Types, Early,
      Applying, Sending, Copying, Closing, Unwinding, Well, Cancelled, HTTP2
<1>8. ASSUME ExecuteRespond PROVE Reporting'
  <2>1. \/ pc' = "terminal" /\ report' = report /\ wrote'.whole
        \/ pc' = "fail" /\ report'.outcome \notin {"completed", "canceled"}
    <3>1. terminal' BY <1>8 DEF ExecuteRespond
    <3>2. CASE Executed /\ Wrote("synthetic", wrote.bytes, TRUE) BY Zenon, <3>1, <3>2 DEF Executed, Wrote
    <3>3. CASE ExecutorError BY <3>3, ExecutorErrorDoes DEF Reported
    <3> QED BY Zenon, <1>8, <3>2, <3>3, ExecuteRespondDoes
  <2>2. pc = "execute" /\ applied' /\ terminal' /\ UNCHANGED fixed BY <1>8 DEF ExecuteRespond, FaultApplied
  <2> QED BY <2>1, <2>2 DEF fixed, Reporting, Unwinding, Closing, Copying
<1>9. ASSUME ExecuteClose PROVE Reporting'
  <2>1. (report' = report \/ report'.outcome \notin {"completed", "canceled"})
    BY Zenon, <1>9, ExecutorErrorDoes DEF ExecuteClose, Executed, Reported, Types
  <2> QED BY <1>9, <2>1 DEF ExecuteClose, CloseConnection, Executed, FaultApplied, Record, Onward,
      ExecutorError, fixed, upload, marks, flow, Reporting, Types, Early, Applying, Sending, Copying, Closing,
      Unwinding, Well, Cancelled, HTTP2
<1>10. ASSUME WaitOver PROVE Reporting'
  <2>1. (report' = report \/ report'.outcome \notin {"completed", "canceled"})
    BY Zenon, <1>10, ExecutorErrorDoes DEF WaitOver, Executed, Reported, Types
  <2> QED BY <1>10, <2>1 DEF WaitOver, FaultApplied, Record, Executed, CloseConnection, Onward, ExecutorError,
      fixed, upload, flow, Reporting, Types, Early, Applying, Sending, Copying, Closing, Unwinding, Well,
      Cancelled, HTTP2
<1>11. ASSUME FailTerminal PROVE Reporting'
  <2>1. (report' = report \/ report'.outcome \notin {"completed", "canceled"})
    BY Zenon, <1>11, FailTerminalDoes DEF Reported, Types
  <2> QED BY <1>11, <2>1 DEF FailTerminal, Step, Unwind, fixed, client, upload, flow, marks, Reporting, Types,
      Early, Applying, Sending, Copying, Closing, Unwinding, Well, Cancelled, HTTP2
<1>12. ASSUME FailCancelled PROVE Reporting'
  <2>1. ((report'.outcome = report.outcome /\ report'.err) \/ report'.outcome \notin {"completed", "canceled"})
    BY Zenon, <1>12, FailCancelledDoes DEF Reported, Types
  <2> QED BY <1>12, <2>1 DEF FailCancelled, Step, Unwind, CloseConnection, fixed, upload, flow, marks,
      Reporting, Types, Early, Applying, Sending, Copying, Closing, Unwinding, Well, Cancelled, HTTP2
<1>13. ASSUME FailReply PROVE Reporting'
  <2>1. report'.outcome # "completed" /\ (report'.outcome = "canceled" => report.outcome = "canceled")
    BY Zenon, <1>13, FailReplyDoes DEF Reported, Wrote, Types
  <2> QED BY <1>13, <2>1 DEF FailReply, Step, Unwind, fixed, client, upload, flow, marks, Reporting, Types,
      Early, Applying, Sending, Copying, Closing, Unwinding, Well, Cancelled, HTTP2
<1>14. ASSUME Send PROVE Reporting'
  BY <1>14 DEF Send, Step, fixed, client, flow, marks, Reporting, Types, Early, Applying, Sending, Copying,
      Closing, Unwinding, Well, Cancelled, HTTP2
<1>15. ASSUME RoundTrip PROVE Reporting'
  BY <1>15 DEF RoundTrip, fixed, client, upload, flow, marks, Reporting, Types, Early, Applying, Sending,
      Copying, Closing, Unwinding, Well, Cancelled, HTTP2
<1>16. ASSUME Deliver PROVE Reporting'
  <2>1. wrote'.head = "upstream" BY Zenon, <1>16, DeliverDoes DEF Wrote, Types
  <2> QED BY <1>16, <2>1 DEF Deliver, Step, fixed, client, upload, flow, marks, Reporting, Types, Early,
      Applying, Sending, Copying, Closing, Unwinding, Well, Cancelled, HTTP2
<1>17. ASSUME CopyByte PROVE Reporting'
  <2>1. pc = "copy" /\ UNCHANGED <<fixed, flow>> BY Zenon, <1>17 DEF CopyByte
  <2>2. /\ wrote'.head = wrote.head
        /\ \/ pc' \in {"copy", "pace"} /\ report' = report
           \/ pc' \in {"expire", "cleanup"} /\ report'.outcome \notin {"completed", "canceled"}
    <3>1. Panics => pc' \in {"expire", "cleanup"} /\ report'.outcome \notin {"completed", "canceled"}
      BY PanicsDoes DEF Reported, Unwind
    <3>2. Write => pc' \in {"copy", "pace"} /\ report' = report /\ wrote'.head = wrote.head
      BY WriteDoes DEF Wrote
    <3> QED BY Zenon, <1>17, <3>1, <3>2 DEF CopyByte, Limited
  <2> QED BY <2>1, <2>2 DEF fixed, flow, Reporting, Unwinding, Closing, Copying
<1>18. ASSUME CopyPaced PROVE Reporting'
  <2>1. wrote'.head = wrote.head /\ wrote'.whole = wrote.whole
    BY Zenon, <1>18, WriteDoes DEF CopyPaced, Wrote, Types
  <2> QED BY <1>18, <2>1 DEF CopyPaced, Write, fixed, client, upload, flow, marks, Reporting, Types, Early,
      Applying, Sending, Copying, Closing, Unwinding, Well, Cancelled, HTTP2
<1>19. ASSUME CopyEnds PROVE Reporting'
  <2>1. /\ report' = report \/ report'.outcome \notin {"completed", "canceled"}
        /\ wrote'.head = wrote.head /\ wrote'.whole
    BY Zenon, <1>19, CopyEndsDoes DEF Reported, Wrote, Types
  <2> QED BY <1>19, <2>1 DEF CopyEnds, Step, Unwind, fixed, client, upload, flow, marks, Reporting, Types,
      Early, Applying, Sending, Copying, Closing, Unwinding, Well, Cancelled, HTTP2
<1>20. ASSUME CopyFails PROVE Reporting'
  <2>1. report'.outcome \notin {"completed", "canceled"}
    BY Zenon, <1>20, PanicsDoes DEF CopyFails, Reported, Types
  <2> QED BY <1>20, <2>1 DEF CopyFails, Unwind, Panics, fixed, client, upload, flow, marks, Reporting, Types,
      Early, Applying, Sending, Copying, Closing, Unwinding, Well, Cancelled, HTTP2
<1>21. ASSUME Expire PROVE Reporting'
  BY <1>21 DEF Expire, Step, fixed, upload, flow, marks, Reporting, Types, Early, Applying, Sending, Copying,
      Closing, Unwinding, Well, Cancelled, HTTP2
<1>22. ASSUME Join PROVE Reporting'
  <2>1. report'.outcome = report.outcome /\ report'.err = report.err /\ report'.kind = report.kind
    BY Zenon, <1>22, JoinDoes DEF Reported, Types
  <2> QED BY <1>22, <2>1 DEF Join, Step, fixed, client, upload, flow, marks, Reporting, Types, Early,
      Applying, Sending, Copying, Closing, Unwinding, Well, Cancelled, HTTP2
<1>23. ASSUME Cleanup PROVE Reporting'
  <2>1. report'.outcome = report.outcome /\ report'.err = report.err /\ report'.kind = report.kind
    BY Zenon, <1>23, JoinDoes DEF Reported, Types
  <2> QED BY <1>23, <2>1 DEF Cleanup, Step, fixed, upload, flow, marks, Reporting, Types, Early, Applying,
      Sending, Copying, Closing, Unwinding, Well, Cancelled, HTTP2
<1>24. ASSUME Drain PROVE Reporting'
  <2>1. pc = "drain" /\ pc' = "unhook" /\ UNCHANGED <<fixed, flow, marks, wrote>>
    BY Zenon, <1>24 DEF Drain, Step
  <2>2. CASE Cancelled /\ (~disconnected \/ report.err)
    <3>1. report'.outcome = "canceled" /\ report'.kind = CancelKind
      BY Zenon, <1>24, <2>2, DrainDoes DEF Reported
    <3> QED BY <2>1, <2>2, <3>1 DEF fixed, flow, Reporting, Unwinding, Closing, Copying, Cancelled, CancelKind
  <2>3. CASE ~(Cancelled /\ (~disconnected \/ report.err))
    <3>1. report'.outcome = report.outcome BY Zenon, <1>24, <2>3, DrainDoes DEF Reported
    <3>2. report.outcome = "completed" => Well BY <2>1, <2>3 DEF Reporting, Unwinding, Closing
    <3>3. report.outcome # "canceled" BY <2>1 DEF Reporting
    <3>4. Well => Well' BY <2>1 DEF Well, flow, marks
    <3> QED BY <2>1, <3>1, <3>2, <3>3, <3>4 DEF flow, Reporting, Unwinding, Closing, Copying
  <2> QED BY <2>2, <2>3
<1>25. ASSUME Unhook PROVE Reporting'
  BY <1>25 DEF Unhook, Step, Stopped, fixed, upload, flow, marks, Reporting, Types, Early, Applying, Sending,
      Copying, Closing, Unwinding, Well, Cancelled, HTTP2
<1>26. ASSUME Finish PROVE Reporting'
  BY <1>26 DEF Finish, Step, Record, client, upload, flow, Reporting, Types, Early, Applying, Sending,
      Copying, Closing, Unwinding, Well, Cancelled, HTTP2
<1>27. ASSUME ReadStart PROVE Reporting'
  BY <1>27 DEF ReadStart, Refuses, client, marks, handler, flow, Reporting, Types, Early, Applying, Sending,
      Copying, Closing, Unwinding, Well, Cancelled, HTTP2
<1>28. ASSUME ReadByte PROVE Reporting'
  BY <1>28 DEF ReadByte, Limited, Cuts, FaultApplied, Record, Forward, client, marks, handler, flow,
      Reporting, Types, Early, Applying, Sending, Copying, Closing, Unwinding, Well, Cancelled, HTTP2
<1>29. ASSUME ReadPaced PROVE Reporting'
  BY <1>29 DEF ReadPaced, Forward, client, marks, handler, flow, Reporting, Types, Early, Applying, Sending,
      Copying, Closing, Unwinding, Well, Cancelled, HTTP2
<1>30. ASSUME ReadEOF PROVE Reporting'
  BY <1>30 DEF ReadEOF, marks, handler, flow, Reporting, Types, Early, Applying, Sending, Copying, Closing,
      Unwinding, Well, Cancelled, HTTP2
<1>31. ASSUME ReadFails PROVE Reporting'
  BY <1>31 DEF ReadFails, client, marks, handler, flow, Reporting, Types, Early, Applying, Sending, Copying,
      Closing, Unwinding, Well, Cancelled, HTTP2
<1>32. ASSUME Abandon PROVE Reporting'
  BY <1>32 DEF Abandon, client, marks, handler, flow, Reporting, Types, Early, Applying, Sending, Copying,
      Closing, Unwinding, Well, Cancelled, HTTP2
<1>33. ASSUME ClientLeaves PROVE Reporting'
  BY <1>33 DEF ClientLeaves, others, upload, flow, marks, Reporting, Types, Early, Applying, Sending, Copying,
      Closing, Unwinding, Well, Cancelled, HTTP2
<1>34. ASSUME ClientCancels PROVE Reporting'
  BY <1>34 DEF ClientCancels, EndCtx, others, upload, flow, marks, Reporting, Types, Early, Applying, Sending,
      Copying, Closing, Unwinding, Well, Cancelled, HTTP2
<1>35. ASSUME Deadline PROVE Reporting'
  BY <1>35 DEF Deadline, EndCtx, others, upload, flow, marks, Reporting, Types, Early, Applying, Sending,
      Copying, Closing, Unwinding, Well, Cancelled, HTTP2
<1>36. ASSUME ConnDeadline PROVE Reporting'
  BY <1>36 DEF ConnDeadline, others, upload, flow, marks, Reporting, Types, Early, Applying, Sending, Copying,
      Closing, Unwinding, Well, Cancelled, HTTP2
<1>37. ASSUME ServerCloses PROVE Reporting'
  BY <1>37 DEF ServerCloses, EndCtx, others, upload, flow, marks, Reporting, Types, Early, Applying, Sending,
      Copying, Closing, Unwinding, Well, Cancelled, HTTP2
<1>38. ASSUME Hook PROVE Reporting'
  BY <1>38 DEF Hook, others, upload, flow, marks, Reporting, Types, Early, Applying, Sending, Copying,
      Closing, Unwinding, Well, Cancelled, HTTP2
<1>39. UNCHANGED vars => Reporting' BY DEF vars, client, upload, flow, marks, Reporting, Well, Cancelled
<1> QED BY Zenon, <1>1, <1>2, <1>3, <1>4, <1>5, <1>6, <1>7, <1>8, <1>9, <1>10, <1>11, <1>12, <1>13, <1>14,
    <1>15, <1>16, <1>17, <1>18, <1>19, <1>20, <1>21, <1>22, <1>23, <1>24, <1>25, <1>26, <1>27, <1>28, <1>29,
    <1>30, <1>31, <1>32, <1>33, <1>34, <1>35, <1>36, <1>37, <1>38, <1>39 DEF Next, Handle, Ended

\* Barred is preserved.
LEMMA BarredStep == ASSUME Types, Ends, Barred, [Next]_vars PROVE Barred'
<1>1. ASSUME Start PROVE Barred'
  BY Zenon, BlankFault, <1>1 DEF Start, Step, Record, fixed, client, upload, flow, Barred, Types, Fits, Ends,
      Early, Sending, Copying, Closing, Unwinding, Blocking, Ending, Wraps, Holds, BodyActions
<1>2. ASSUME Refuse PROVE Barred'
  BY Zenon, BlankFault, <1>2 DEF Refuse, Step, fixed, client, upload, flow, marks, Barred, Types, Fits,
       Ends, Early,
      Sending, Copying, Closing, Unwinding, Blocking, Ending, Wraps, Holds, BodyActions
<1>3. ASSUME Accept PROVE Barred'
  BY Zenon, BlankFault, <1>3 DEF Accept, Step, fixed, client, upload, flow, marks, Barred, Types, Fits, Ends,
      Early, Sending, Copying, Closing, Unwinding, Blocking, Ending, Wraps, Holds, BodyActions
<1>4. ASSUME Decide PROVE Barred'
  BY Zenon, BlankFault, <1>4 DEF Decide, Step, Record, Given, client, upload, flow, Barred, Types, Fits, Ends,
      Early, Sending, Copying, Closing, Unwinding, Blocking, Ending, Wraps, Holds, BodyActions
<1>5. ASSUME Proceed PROVE Barred'
  BY Zenon, BlankFault, <1>5 DEF Proceed, Onward, Due, Phase, BeforeUpstreamRequest,
       AfterUpstreamHeaders, fixed,
      client, upload, flow, marks, Barred, Types, Fits, Ends, Early, Sending, Copying, Closing, Unwinding,
      Blocking, Ending, Wraps, Holds, BodyActions
<1>6. ASSUME Reach PROVE Barred'
  BY Zenon, BlankFault, <1>6 DEF Reach, Due, Phase, ExecutorError, BeforeUpstreamRequest,
       AfterUpstreamHeaders,
      fixed, client, flow, marks, Barred, Types, Fits, Ends, Early, Sending, Copying, Closing, Unwinding,
      Blocking, Ending, Wraps, Holds, BodyActions
<1>7. ASSUME ExecuteWait PROVE Barred'
  BY Zenon, BlankFault, <1>7 DEF ExecuteWait, Step, FaultApplied, Record, fixed, client, upload, flow, Barred,
      Types, Fits, Ends, Early, Sending, Copying, Closing, Unwinding, Blocking, Ending, Wraps, Holds,
      BodyActions
<1>8. ASSUME ExecuteRespond PROVE Barred'
  BY Zenon, BlankFault, <1>8 DEF ExecuteRespond, FaultApplied, Record, Executed, Onward, ExecutorError, fixed,
      client, upload, Barred, Types, Fits, Ends, Early, Sending, Copying, Closing, Unwinding, Blocking,
      Ending, Wraps, Holds, BodyActions
<1>9. ASSUME ExecuteClose PROVE Barred'
  BY Zenon, BlankFault, <1>9 DEF ExecuteClose, CloseConnection, Executed, FaultApplied, Record, Onward,
      ExecutorError, fixed, upload, marks, flow, Barred, Types, Fits, Ends, Early, Sending, Copying, Closing,
      Unwinding, Blocking, Ending, Wraps, Holds, BodyActions
<1>10. ASSUME WaitOver PROVE Barred'
  BY Zenon, BlankFault, <1>10 DEF WaitOver, FaultApplied, Record, Executed, CloseConnection, Onward,
       ExecutorError,
      fixed, upload, flow, Barred, Types, Fits, Ends, Early, Sending, Copying, Closing, Unwinding, Blocking,
      Ending, Wraps, Holds, BodyActions
<1>11. ASSUME FailTerminal PROVE Barred'
  BY Zenon, BlankFault, <1>11 DEF FailTerminal, Step, Unwind, fixed, client, upload, flow, marks, Barred,
      Types, Fits, Ends, Early, Sending, Copying, Closing, Unwinding, Blocking, Ending, Wraps, Holds,
      BodyActions
<1>12. ASSUME FailCancelled PROVE Barred'
  BY Zenon, BlankFault, <1>12 DEF FailCancelled, Step, Unwind, CloseConnection, fixed, upload, flow,
       marks, Barred,
      Types, Fits, Ends, Early, Sending, Copying, Closing, Unwinding, Blocking, Ending, Wraps, Holds,
      BodyActions
<1>13. ASSUME FailReply PROVE Barred'
  BY Zenon, BlankFault, <1>13 DEF FailReply, Step, Unwind, fixed, client, upload, flow, marks, Barred,
       Types, Fits,
      Ends, Early, Sending, Copying, Closing, Unwinding, Blocking, Ending, Wraps, Holds, BodyActions
<1>14. ASSUME Send PROVE Barred'
  BY Zenon, BlankFault, <1>14 DEF Send, Step, fixed, client, flow, marks, Barred, Types, Fits, Ends, Early,
      Sending, Copying, Closing, Unwinding, Blocking, Ending, Wraps, Holds, BodyActions
<1>15. ASSUME RoundTrip PROVE Barred'
  BY Zenon, BlankFault, <1>15 DEF RoundTrip, fixed, client, upload, flow, marks, Barred, Types, Fits,
       Ends, Early,
      Sending, Copying, Closing, Unwinding, Blocking, Ending, Wraps, Holds, BodyActions
<1>16. ASSUME Deliver PROVE Barred'
  BY Zenon, BlankFault, <1>16 DEF Deliver, Step, fixed, client, upload, flow, marks, Barred, Types,
       Fits, Ends,
      Early, Sending, Copying, Closing, Unwinding, Blocking, Ending, Wraps, Holds, BodyActions
<1>17. ASSUME CopyByte PROVE Barred'
  BY Zenon, BlankFault, <1>17 DEF CopyByte, Limited, Cuts, FaultApplied, Record, Unwind, Panics, Write, fixed,
      client, upload, flow, marks, Barred, Types, Fits, Ends, Early, Sending, Copying, Closing, Unwinding,
      Blocking, Ending, Wraps, Holds, BodyActions
<1>18. ASSUME CopyPaced PROVE Barred'
  BY Zenon, BlankFault, <1>18 DEF CopyPaced, Write, fixed, client, upload, flow, marks, Barred, Types,
       Fits, Ends,
      Early, Sending, Copying, Closing, Unwinding, Blocking, Ending, Wraps, Holds, BodyActions
<1>19. ASSUME CopyEnds PROVE Barred'
  BY Zenon, BlankFault, <1>19 DEF CopyEnds, Step, Unwind, fixed, client, upload, flow, marks, Barred,
       Types, Fits,
      Ends, Early, Sending, Copying, Closing, Unwinding, Blocking, Ending, Wraps, Holds, BodyActions
<1>20. ASSUME CopyFails PROVE Barred'
  BY Zenon, BlankFault, <1>20 DEF CopyFails, Unwind, Panics, fixed, client, upload, flow, marks, Barred,
      Types, Fits, Ends, Early, Sending, Copying, Closing, Unwinding, Blocking, Ending, Wraps, Holds,
      BodyActions
<1>21. ASSUME Expire PROVE Barred'
  BY Zenon, BlankFault, <1>21 DEF Expire, Step, fixed, upload, flow, marks, Barred, Types, Fits, Ends, Early,
      Sending, Copying, Closing, Unwinding, Blocking, Ending, Wraps, Holds, BodyActions
<1>22. ASSUME Join PROVE Barred'
  BY Zenon, BlankFault, <1>22 DEF Join, Step, fixed, client, upload, flow, marks, Barred, Types, Fits,
       Ends, Early,
      Sending, Copying, Closing, Unwinding, Blocking, Ending, Wraps, Holds, BodyActions
<1>23. ASSUME Cleanup PROVE Barred'
  BY Zenon, BlankFault, <1>23 DEF Cleanup, Step, fixed, upload, flow, marks, Barred, Types, Fits, Ends, Early,
      Sending, Copying, Closing, Unwinding, Blocking, Ending, Wraps, Holds, BodyActions
<1>24. ASSUME Drain PROVE Barred'
  BY Zenon, BlankFault, <1>24 DEF Drain, Step, CancelKind, fixed, client, upload, flow, marks, Barred,
       Types, Fits,
      Ends, Early, Sending, Copying, Closing, Unwinding, Blocking, Ending, Wraps, Holds, BodyActions
<1>25. ASSUME Unhook PROVE Barred'
  BY Zenon, BlankFault, <1>25 DEF Unhook, Step, Stopped, fixed, upload, flow, marks, Barred, Types, Fits,
      Ends, Early, Sending, Copying, Closing, Unwinding, Blocking, Ending, Wraps, Holds, BodyActions
<1>26. ASSUME Finish PROVE Barred'
  BY Zenon, BlankFault, <1>26 DEF Finish, Step, Record, client, upload, flow, Barred, Types, Fits, Ends,
      Early, Sending, Copying, Closing, Unwinding, Blocking, Ending, Wraps, Holds, BodyActions
<1>27. ASSUME ReadStart PROVE Barred'
  BY Zenon, BlankFault, <1>27 DEF ReadStart, Refuses, client, marks, handler, flow, Barred, Types, Fits, Ends,
      Early, Sending, Copying, Closing, Unwinding, Blocking, Ending, Wraps, Holds, BodyActions
<1>28. ASSUME ReadByte PROVE Barred'
  BY Zenon, BlankFault, <1>28 DEF ReadByte, Limited, Cuts, FaultApplied, Record, Forward, client, marks,
      handler, flow, Barred, Types, Fits, Ends, Early, Sending, Copying, Closing, Unwinding, Blocking, Ending,
      Wraps, Holds, BodyActions
<1>29. ASSUME ReadPaced PROVE Barred'
  BY Zenon, BlankFault, <1>29 DEF ReadPaced, Forward, client, marks, handler, flow, Barred, Types, Fits, Ends,
      Early, Sending, Copying, Closing, Unwinding, Blocking, Ending, Wraps, Holds, BodyActions
<1>30. ASSUME ReadEOF PROVE Barred'
  BY Zenon, BlankFault, <1>30 DEF ReadEOF, marks, handler, flow, Barred, Types, Fits, Ends, Early, Sending,
      Copying, Closing, Unwinding, Blocking, Ending, Wraps, Holds, BodyActions
<1>31. ASSUME ReadFails PROVE Barred'
  BY Zenon, BlankFault, <1>31 DEF ReadFails, client, marks, handler, flow, Barred, Types, Fits, Ends, Early,
      Sending, Copying, Closing, Unwinding, Blocking, Ending, Wraps, Holds, BodyActions
<1>32. ASSUME Abandon PROVE Barred'
  BY Zenon, BlankFault, <1>32 DEF Abandon, client, marks, handler, flow, Barred, Types, Fits, Ends, Early,
      Sending, Copying, Closing, Unwinding, Blocking, Ending, Wraps, Holds, BodyActions
<1>33. ASSUME ClientLeaves PROVE Barred'
  BY Zenon, BlankFault, <1>33 DEF ClientLeaves, others, upload, flow, marks, Barred, Types, Fits, Ends, Early,
      Sending, Copying, Closing, Unwinding, Blocking, Ending, Wraps, Holds, BodyActions
<1>34. ASSUME ClientCancels PROVE Barred'
  BY Zenon, BlankFault, <1>34 DEF ClientCancels, EndCtx, others, upload, flow, marks, Barred, Types, Fits,
      Ends, Early, Sending, Copying, Closing, Unwinding, Blocking, Ending, Wraps, Holds, BodyActions
<1>35. ASSUME Deadline PROVE Barred'
  BY Zenon, BlankFault, <1>35 DEF Deadline, EndCtx, others, upload, flow, marks, Barred, Types, Fits, Ends,
      Early, Sending, Copying, Closing, Unwinding, Blocking, Ending, Wraps, Holds, BodyActions
<1>36. ASSUME ConnDeadline PROVE Barred'
  BY Zenon, BlankFault, <1>36 DEF ConnDeadline, others, upload, flow, marks, Barred, Types, Fits, Ends, Early,
      Sending, Copying, Closing, Unwinding, Blocking, Ending, Wraps, Holds, BodyActions
<1>37. ASSUME ServerCloses PROVE Barred'
  BY Zenon, BlankFault, <1>37 DEF ServerCloses, EndCtx, others, upload, flow, marks, Barred, Types, Fits,
      Ends, Early, Sending, Copying, Closing, Unwinding, Blocking, Ending, Wraps, Holds, BodyActions
<1>38. ASSUME Hook PROVE Barred'
  BY Zenon, BlankFault, <1>38 DEF Hook, others, upload, flow, marks, Barred, Types, Fits, Ends, Early,
      Sending, Copying, Closing, Unwinding, Blocking, Ending, Wraps, Holds, BodyActions
<1>39. UNCHANGED vars => Barred' BY DEF vars, client, upload, flow, marks, Barred, Blocking, Ending, Wraps
<1> QED BY Zenon, <1>1, <1>2, <1>3, <1>4, <1>5, <1>6, <1>7, <1>8, <1>9, <1>10, <1>11, <1>12, <1>13, <1>14,
    <1>15, <1>16, <1>17, <1>18, <1>19, <1>20, <1>21, <1>22, <1>23, <1>24, <1>25, <1>26, <1>27, <1>28, <1>29,
    <1>30, <1>31, <1>32, <1>33, <1>34, <1>35, <1>36, <1>37, <1>38, <1>39 DEF Next, Handle, Ended

\* Silent is preserved.
LEMMA SilentStep == ASSUME Types, Events, Silent, [Next]_vars PROVE Silent'
<1>1. ASSUME Start PROVE Silent'
  BY Zenon, BlankFault, <1>1 DEF Start, Step, Record, fixed, client, upload, flow, Silent, Types, Events,
      Early, Sending, Copying, Closing, Unwinding, Ending, Holds, BodyActions
<1>2. ASSUME Refuse PROVE Silent'
  <2>1. wrote'.bytes = wrote.bytes /\ wrote'.whole = wrote.whole BY Zenon, <1>2, RefuseDoes DEF Wrote, Types
  <2> QED BY Zenon, BlankFault, <1>2, <2>1 DEF Refuse, Step, fixed, client, upload, flow, marks, Silent, Types,
      Events, Early, Sending, Copying, Closing, Unwinding, Ending, Holds, BodyActions
<1>3. ASSUME Accept PROVE Silent'
  BY Zenon, BlankFault, <1>3 DEF Accept, Step, fixed, client, upload, flow, marks, Silent, Types, Events,
      Early, Sending, Copying, Closing, Unwinding, Ending, Holds, BodyActions
<1>4. ASSUME Decide PROVE Silent'
  BY Zenon, BlankFault, <1>4 DEF Decide, Step, Record, Given, client, upload, flow, Silent, Types, Events,
      Early, Sending, Copying, Closing, Unwinding, Ending, Holds, BodyActions
<1>5. ASSUME Proceed PROVE Silent'
  BY Zenon, BlankFault, <1>5 DEF Proceed, Onward, Due, Phase, BeforeUpstreamRequest,
       AfterUpstreamHeaders, fixed,
      client, upload, flow, marks, Silent, Types, Events, Early, Sending, Copying, Closing, Unwinding, Ending,
      Holds, BodyActions
<1>6. ASSUME Reach PROVE Silent'
  BY Zenon, BlankFault, <1>6 DEF Reach, Due, Phase, ExecutorError, fixed, client, flow, marks, Silent,
       Types, Events,
      Early, Sending, Copying, Closing, Unwinding, Ending, Holds, BodyActions
<1>7. ASSUME ExecuteWait PROVE Silent'
  BY Zenon, BlankFault, <1>7 DEF ExecuteWait, Step, FaultApplied, Record, fixed, client, upload, flow, Silent,
      Types, Events, Early, Sending, Copying, Closing, Unwinding, Ending, Holds, BodyActions
<1>8. ASSUME ExecuteRespond PROVE Silent'
  <2>1. (wrote' = wrote \/ (wrote'.bytes = wrote.bytes /\ wrote'.head = "synthetic"))
    BY Zenon, <1>8, ExecuteRespondDoes, ExecutorErrorDoes DEF Executed, Wrote, Types
  <2> QED BY Zenon, BlankFault, <1>8, <2>1 DEF ExecuteRespond, FaultApplied, Record, Executed, Onward, ExecutorError,
      fixed, client, upload, Silent, Types, Events, Early, Sending, Copying, Closing, Unwinding, Ending,
      Holds, BodyActions
<1>9. ASSUME ExecuteClose PROVE Silent'
  BY Zenon, BlankFault, <1>9 DEF ExecuteClose, CloseConnection, Executed, FaultApplied, Record, Onward,
      ExecutorError, fixed, upload, marks, flow, Silent, Types, Events, Early, Sending, Copying, Closing,
      Unwinding, Ending, Holds, BodyActions
<1>10. ASSUME WaitOver PROVE Silent'
  BY Zenon, BlankFault, <1>10 DEF WaitOver, FaultApplied, Record, Executed, CloseConnection, Onward,
       ExecutorError,
      fixed, upload, flow, Silent, Types, Events, Early, Sending, Copying, Closing, Unwinding, Ending, Holds,
      BodyActions
<1>11. ASSUME FailTerminal PROVE Silent'
  BY Zenon, BlankFault, <1>11 DEF FailTerminal, Step, Unwind, fixed, client, upload, flow, marks, Silent,
      Types, Events, Early, Sending, Copying, Closing, Unwinding, Ending, Holds, BodyActions
<1>12. ASSUME FailCancelled PROVE Silent'
  BY Zenon, BlankFault, <1>12 DEF FailCancelled, Step, Unwind, CloseConnection, fixed, upload, flow,
       marks, Silent,
      Types, Events, Early, Sending, Copying, Closing, Unwinding, Ending, Holds, BodyActions
<1>13. ASSUME FailReply PROVE Silent'
  <2>1. wrote'.bytes = wrote.bytes /\ wrote'.whole = wrote.whole /\ (terminal => wrote' = wrote)
    BY Zenon, <1>13, FailReplyDoes DEF Wrote, Types
  <2> QED BY Zenon, BlankFault, <1>13, <2>1 DEF FailReply, Step, Unwind, fixed, client, upload, flow, marks, Silent,
      Types, Events, Early, Sending, Copying, Closing, Unwinding, Ending, Holds, BodyActions
<1>14. ASSUME Send PROVE Silent'
  BY Zenon, BlankFault, <1>14 DEF Send, Step, fixed, client, flow, marks, Silent, Types, Events, Early,
      Sending, Copying, Closing, Unwinding, Ending, Holds, BodyActions
<1>15. ASSUME RoundTrip PROVE Silent'
  BY Zenon, BlankFault, <1>15 DEF RoundTrip, fixed, client, upload, flow, marks, Silent, Types, Events, Early,
      Sending, Copying, Closing, Unwinding, Ending, Holds, BodyActions
<1>16. ASSUME Deliver PROVE Silent'
  <2>1. wrote'.bytes = wrote.bytes /\ wrote'.whole = wrote.whole BY Zenon, <1>16, DeliverDoes DEF Wrote, Types
  <2> QED BY Zenon, BlankFault, <1>16, <2>1 DEF Deliver, Step, fixed, client, upload, flow, marks, Silent, Types,
      Events, Early, Sending, Copying, Closing, Unwinding, Ending, Holds, BodyActions
<1>17. ASSUME CopyByte PROVE Silent'
  <2>1. (wrote' = wrote \/ (wrote'.bytes = wrote.bytes + 1 /\ wrote'.whole = wrote.whole))
    BY Zenon, <1>17, PanicsDoes, WriteDoes DEF CopyByte, Limited, Wrote, Types
  <2> QED BY Zenon, BlankFault, <1>17, <2>1 DEF CopyByte, Limited, Cuts, FaultApplied, Record, Unwind, Panics, Write,
      fixed, client, upload, flow, marks, Silent, Types, Events, Early, Sending, Copying, Closing, Unwinding,
      Ending, Holds, BodyActions
<1>18. ASSUME CopyPaced PROVE Silent'
  <2>1. wrote'.bytes = wrote.bytes + 1 /\ wrote'.whole = wrote.whole
    BY Zenon, <1>18, WriteDoes DEF CopyPaced, Wrote, Types
  <2> QED BY Zenon, BlankFault, <1>18, <2>1 DEF CopyPaced, Write, fixed, client, upload, flow, marks, Silent, Types,
      Events, Early, Sending, Copying, Closing, Unwinding, Ending, Holds, BodyActions
<1>19. ASSUME CopyEnds PROVE Silent'
  <2>1. wrote'.bytes = wrote.bytes BY Zenon, <1>19, CopyEndsDoes DEF Wrote, Types
  <2> QED BY Zenon, BlankFault, <1>19, <2>1 DEF CopyEnds, Step, Unwind, fixed, client, upload, flow, marks, Silent,
      Types, Events, Early, Sending, Copying, Closing, Unwinding, Ending, Holds, BodyActions
<1>20. ASSUME CopyFails PROVE Silent'
  BY Zenon, BlankFault, <1>20 DEF CopyFails, Unwind, Panics, fixed, client, upload, flow, marks, Silent,
      Types, Events, Early, Sending, Copying, Closing, Unwinding, Ending, Holds, BodyActions
<1>21. ASSUME Expire PROVE Silent'
  BY Zenon, BlankFault, <1>21 DEF Expire, Step, fixed, upload, flow, marks, Silent, Types, Events, Early,
      Sending, Copying, Closing, Unwinding, Ending, Holds, BodyActions
<1>22. ASSUME Join PROVE Silent'
  BY Zenon, BlankFault, <1>22 DEF Join, Step, fixed, client, upload, flow, marks, Silent, Types,
       Events, Early,
      Sending, Copying, Closing, Unwinding, Ending, Holds, BodyActions
<1>23. ASSUME Cleanup PROVE Silent'
  BY Zenon, BlankFault, <1>23 DEF Cleanup, Step, fixed, upload, flow, marks, Silent, Types, Events,
       Early, Sending,
      Copying, Closing, Unwinding, Ending, Holds, BodyActions
<1>24. ASSUME Drain PROVE Silent'
  BY Zenon, BlankFault, <1>24 DEF Drain, Step, CancelKind, fixed, client, upload, flow, marks, Silent,
       Types, Events,
      Early, Sending, Copying, Closing, Unwinding, Ending, Holds, BodyActions
<1>25. ASSUME Unhook PROVE Silent'
  BY Zenon, BlankFault, <1>25 DEF Unhook, Step, Stopped, fixed, upload, flow, marks, Silent, Types, Events,
      Early, Sending, Copying, Closing, Unwinding, Ending, Holds, BodyActions
<1>26. ASSUME Finish PROVE Silent'
  BY Zenon, BlankFault, <1>26 DEF Finish, Step, Record, client, upload, flow, Silent, Types, Events, Early,
      Sending, Copying, Closing, Unwinding, Ending, Holds, BodyActions
<1>27. ASSUME ReadStart PROVE Silent'
  BY Zenon, BlankFault, <1>27 DEF ReadStart, Refuses, client, marks, handler, flow, Silent, Types, Events,
      Early, Sending, Copying, Closing, Unwinding, Ending, Holds, BodyActions
<1>28. ASSUME ReadByte PROVE Silent'
  BY Zenon, BlankFault, <1>28 DEF ReadByte, Limited, Cuts, FaultApplied, Record, Forward, client, marks,
      handler, flow, Silent, Types, Events, Early, Sending, Copying, Closing, Unwinding, Ending, Holds,
      BodyActions
<1>29. ASSUME ReadPaced PROVE Silent'
  BY Zenon, BlankFault, <1>29 DEF ReadPaced, Forward, client, marks, handler, flow, Silent, Types, Events,
      Early, Sending, Copying, Closing, Unwinding, Ending, Holds, BodyActions
<1>30. ASSUME ReadEOF PROVE Silent'
  BY Zenon, BlankFault, <1>30 DEF ReadEOF, marks, handler, flow, Silent, Types, Events, Early, Sending,
      Copying, Closing, Unwinding, Ending, Holds, BodyActions
<1>31. ASSUME ReadFails PROVE Silent'
  BY Zenon, BlankFault, <1>31 DEF ReadFails, client, marks, handler, flow, Silent, Types, Events, Early,
      Sending, Copying, Closing, Unwinding, Ending, Holds, BodyActions
<1>32. ASSUME Abandon PROVE Silent'
  BY Zenon, BlankFault, <1>32 DEF Abandon, client, marks, handler, flow, Silent, Types, Events, Early,
      Sending, Copying, Closing, Unwinding, Ending, Holds, BodyActions
<1>33. ASSUME ClientLeaves PROVE Silent'
  BY Zenon, BlankFault, <1>33 DEF ClientLeaves, others, upload, flow, marks, Silent, Types, Events, Early,
      Sending, Copying, Closing, Unwinding, Ending, Holds, BodyActions
<1>34. ASSUME ClientCancels PROVE Silent'
  BY Zenon, BlankFault, <1>34 DEF ClientCancels, EndCtx, others, upload, flow, marks, Silent, Types, Events,
      Early, Sending, Copying, Closing, Unwinding, Ending, Holds, BodyActions
<1>35. ASSUME Deadline PROVE Silent'
  BY Zenon, BlankFault, <1>35 DEF Deadline, EndCtx, others, upload, flow, marks, Silent, Types, Events, Early,
      Sending, Copying, Closing, Unwinding, Ending, Holds, BodyActions
<1>36. ASSUME ConnDeadline PROVE Silent'
  BY Zenon, BlankFault, <1>36 DEF ConnDeadline, others, upload, flow, marks, Silent, Types, Events, Early,
      Sending, Copying, Closing, Unwinding, Ending, Holds, BodyActions
<1>37. ASSUME ServerCloses PROVE Silent'
  BY Zenon, BlankFault, <1>37 DEF ServerCloses, EndCtx, others, upload, flow, marks, Silent, Types, Events,
      Early, Sending, Copying, Closing, Unwinding, Ending, Holds, BodyActions
<1>38. ASSUME Hook PROVE Silent'
  BY Zenon, BlankFault, <1>38 DEF Hook, others, upload, flow, marks, Silent, Types, Events, Early, Sending,
      Copying, Closing, Unwinding, Ending, Holds, BodyActions
<1>39. UNCHANGED vars => Silent' BY DEF vars, client, upload, flow, marks, Silent, Ending
<1> QED BY Zenon, <1>1, <1>2, <1>3, <1>4, <1>5, <1>6, <1>7, <1>8, <1>9, <1>10, <1>11, <1>12, <1>13, <1>14,
    <1>15, <1>16, <1>17, <1>18, <1>19, <1>20, <1>21, <1>22, <1>23, <1>24, <1>25, <1>26, <1>27, <1>28, <1>29,
    <1>30, <1>31, <1>32, <1>33, <1>34, <1>35, <1>36, <1>37, <1>38, <1>39 DEF Next, Handle, Ended

\* The two actions on a body.
LEMMA OneBodyAction == fault.action = "truncate" => fault.action # "throttle"
OBVIOUS

\* The places a copy may go to.
LEMMA PlacesDiffer == "expire" # "pace" /\ "cleanup" # "pace" /\ "copy" # "pace"
OBVIOUS

\* Counted is preserved: a byte is taken from the limit exactly when it passes.
LEMMA CountedStep == ASSUME Types, Events, Ends, Barred, Silent, Counted, [Next]_vars PROVE Counted'
<1>1. ASSUME Start PROVE Counted'
  BY Zenon, BlankFault, WriteFields, <1>1 DEF Start, Step, Record, fixed, client, upload, flow, Counted,
      Types, Early, Copying, Closing, Unwinding, Passed, Wraps, Holds, BodyActions
<1>2. ASSUME Refuse PROVE Counted'
  <2>1. fault' = Blank /\ pc' = "finish" BY <1>2 DEF Refuse, Step, fixed, Early, Events
  <2> QED BY Zenon, <2>1, BlankFault DEF Counted
<1>3. ASSUME Accept PROVE Counted'
  BY Zenon, BlankFault, WriteFields, <1>3 DEF Accept, Step, fixed, client, upload, flow, marks, Counted,
      Types, Early, Copying, Closing, Unwinding, Passed, Wraps, Holds, BodyActions
<1>4. ASSUME Decide PROVE Counted'
  <2>1. forwarded = 0 /\ wrote.bytes = 0 /\ ~applied /\ reader # "pacing"
    BY Zenon, <1>4, BlankFault DEF Decide, Step, Early, Copying, Unwinding, Closing, Wraps, Events, Ends,
        Silent, Barred
  <2>2. Fits(fault') BY Zenon, <1>4, FaultFits, BlankFits DEF Types, Decide
  <2>3. fault'.action = "truncate" => remaining' + 0 \in fault'.bytes BY <1>4, <2>2 DEF Decide, Given, Fits
  <2>4. pc' = "before" /\ UNCHANGED <<upload, applied, wrote>> BY Zenon, <1>4 DEF Decide, Step
  <2>5. Passed' = 0 BY <2>1, <2>4 DEF Passed, upload
  <2> QED BY <2>1, <2>3, <2>4, <2>5 DEF upload, Counted
<1>5. ASSUME Proceed PROVE Counted'
  BY Zenon, BlankFault, WriteFields, <1>5 DEF Proceed, Onward, fixed, client, upload, flow, marks,
       Counted, Types,
      Early, Copying, Closing, Unwinding, Passed, Wraps, Holds, BodyActions
<1>6. ASSUME Reach PROVE Counted'
  BY Zenon, BlankFault, WriteFields, <1>6 DEF Reach, Due, Phase, ExecutorError, fixed, client, flow,
       marks, Counted,
      Types, Early, Copying, Closing, Unwinding, Passed, Wraps, Holds, BodyActions
<1>7. ASSUME ExecuteWait PROVE Counted'
  BY Zenon, BlankFault, WriteFields, <1>7 DEF ExecuteWait, Step, FaultApplied, Record, fixed, client, upload,
      flow, Counted, Types, Early, Copying, Closing, Unwinding, Passed, Wraps, Holds, BodyActions
<1>8. ASSUME ExecuteRespond PROVE Counted'
  <2>1. (wrote' = wrote \/ (wrote'.bytes = wrote.bytes /\ wrote'.head = "synthetic"))
    BY Zenon, <1>8, ExecuteRespondDoes, ExecutorErrorDoes DEF Executed, Wrote, Types
  <2> QED BY Zenon, BlankFault, WriteFields, <1>8, <2>1 DEF ExecuteRespond, FaultApplied, Record, Executed, Onward,
      ExecutorError, fixed, client, upload, Counted, Types, Early, Copying, Closing, Unwinding, Passed, Wraps,
      Holds, BodyActions
<1>9. ASSUME ExecuteClose PROVE Counted'
  BY Zenon, BlankFault, WriteFields, <1>9 DEF ExecuteClose, CloseConnection, Executed, FaultApplied,
       Record, Onward,
      ExecutorError, fixed, upload, marks, flow, Counted, Types, Early, Copying, Closing, Unwinding, Passed,
      Wraps, Holds, BodyActions
<1>10. ASSUME WaitOver PROVE Counted'
  BY Zenon, BlankFault, WriteFields, <1>10 DEF WaitOver, FaultApplied, Record, Executed,
       CloseConnection, Onward,
      ExecutorError, fixed, upload, flow, Counted, Types, Early, Copying, Closing, Unwinding, Passed, Wraps,
      Holds, BodyActions
<1>11. ASSUME FailTerminal PROVE Counted'
  BY Zenon, BlankFault, WriteFields, <1>11 DEF FailTerminal, Step, Unwind, fixed, client, upload, flow, marks,
      Counted, Types, Early, Copying, Closing, Unwinding, Passed, Wraps, Holds, BodyActions
<1>12. ASSUME FailCancelled PROVE Counted'
  BY Zenon, BlankFault, WriteFields, <1>12 DEF FailCancelled, Step, Unwind, CloseConnection, fixed,
       upload, flow,
      marks, Counted, Types, Early, Copying, Closing, Unwinding, Passed, Wraps, Holds, BodyActions
<1>13. ASSUME FailReply PROVE Counted'
  <2>1. wrote'.bytes = wrote.bytes /\ wrote'.whole = wrote.whole /\ (terminal => wrote' = wrote)
    BY Zenon, <1>13, FailReplyDoes DEF Wrote, Types
  <2> QED BY Zenon, BlankFault, WriteFields, <1>13, <2>1 DEF FailReply, Step, Unwind, fixed, client, upload, flow,
      marks, Counted, Types, Early, Copying, Closing, Unwinding, Passed, Wraps, Holds, BodyActions
<1>14. ASSUME Send PROVE Counted'
  BY Zenon, BlankFault, WriteFields, <1>14 DEF Send, Step, fixed, client, flow, marks, Counted, Types, Early,
      Copying, Closing, Unwinding, Passed, Wraps, Holds, BodyActions
<1>15. ASSUME RoundTrip PROVE Counted'
  BY Zenon, BlankFault, WriteFields, <1>15 DEF RoundTrip, fixed, client, upload, flow, marks, Counted, Types,
      Early, Copying, Closing, Unwinding, Passed, Wraps, Holds, BodyActions
<1>16. ASSUME Deliver PROVE Counted'
  <2>1. wrote'.bytes = wrote.bytes /\ wrote'.whole = wrote.whole BY Zenon, <1>16, DeliverDoes DEF Wrote, Types
  <2> QED BY Zenon, BlankFault, WriteFields, <1>16, <2>1 DEF Deliver, Step, fixed, client, upload, flow, marks,
      Counted, Types, Early, Copying, Closing, Unwinding, Passed, Wraps, Holds, BodyActions
<1>17. ASSUME CopyByte PROVE Counted'
  <2>1. pc = "copy" /\ UNCHANGED <<fault, forwarded>> BY <1>17 DEF CopyByte, fixed, upload
  <2>2. Write => pc' = "copy" /\ wrote'.bytes = wrote.bytes + 1 BY Zenon, WriteDoes DEF Wrote
  <2>3. CASE fault.action # "truncate"
    <3>1. pc' = "pace" => fault.action = "throttle"
      BY Zenon, <1>17, <2>2, PlacesDiffer DEF CopyByte, Limited, Panics, Unwind
    <3> QED BY <2>1, <2>3, <3>1 DEF Counted
  <2>4. CASE fault.action = "truncate"
    <3>1. Wraps("request") <=> ~Wraps("response") BY <2>4 DEF Wraps, BodyActions, Fits, Types
    <3>2. wrote.bytes \in Nat /\ remaining + Passed \in fault.bytes /\ ~wrote.whole /\ (applied => remaining = 0)
      BY <2>1, <2>4, WriteFields DEF Types, Counted, Silent, Copying, Early
    <3>3. CASE Wraps("request")
      <4>1. Write /\ UNCHANGED <<remaining, marks>> BY Zenon, <1>17, <3>1, <3>3 DEF CopyByte
      <4> QED BY <2>1, <2>2, <2>4, <3>2, <3>3, <4>1 DEF marks, Counted, Passed, Wraps, Unwinding, Copying
    <3>4. CASE Wraps("response") /\ Cuts
      <4>1. wrote' = wrote /\ remaining' = remaining /\ pc' = Unwind
        BY Zenon, <1>17, <2>4, <3>4 DEF CopyByte, Limited, Panics
      <4> QED BY <2>1, <2>4, <3>1, <3>2, <3>4, <4>1 DEF Counted, Passed, Wraps, Cuts, Unwind, Unwinding, Closing
    <3>5. CASE Wraps("response") /\ ~Cuts
      <4>1. Write /\ UNCHANGED marks /\ remaining' = remaining - 1
        BY Zenon, <1>17, <2>4, <3>5, OneBodyAction DEF CopyByte, Limited
      <4>2. ~applied /\ remaining \in Nat BY <2>4, <3>2, <3>5 DEF Cuts, Types
      <4> QED BY <2>1, <2>2, <2>4, <3>1, <3>2, <3>5, <4>1, <4>2 DEF marks, Counted, Passed, Wraps
    <3> QED BY Zenon, <3>1, <3>3, <3>4, <3>5
  <2> QED BY <2>3, <2>4
<1>18. ASSUME CopyPaced PROVE Counted'
  <2>1. wrote'.bytes = wrote.bytes + 1 /\ wrote'.whole = wrote.whole
    BY Zenon, <1>18, WriteDoes DEF CopyPaced, Wrote, Types
  <2> QED BY Zenon, BlankFault, WriteFields, <1>18, <2>1 DEF CopyPaced, Write, fixed, client, upload, flow, marks,
      Counted, Types, Early, Copying, Closing, Unwinding, Passed, Wraps, Holds, BodyActions
<1>19. ASSUME CopyEnds PROVE Counted'
  <2>1. wrote'.bytes = wrote.bytes BY Zenon, <1>19, CopyEndsDoes DEF Wrote, Types
  <2> QED BY Zenon, BlankFault, WriteFields, <1>19, <2>1 DEF CopyEnds, Step, Unwind, fixed, client, upload, flow,
      marks, Counted, Types, Early, Copying, Closing, Unwinding, Passed, Wraps, Holds, BodyActions
<1>20. ASSUME CopyFails PROVE Counted'
  BY Zenon, BlankFault, WriteFields, <1>20 DEF CopyFails, Unwind, Panics, fixed, client, upload, flow, marks,
      Counted, Types, Early, Copying, Closing, Unwinding, Passed, Wraps, Holds, BodyActions
<1>21. ASSUME Expire PROVE Counted'
  BY Zenon, BlankFault, WriteFields, <1>21 DEF Expire, Step, fixed, upload, flow, marks, Counted, Types,
      Early, Copying, Closing, Unwinding, Passed, Wraps, Holds, BodyActions
<1>22. ASSUME Join PROVE Counted'
  BY Zenon, BlankFault, WriteFields, <1>22 DEF Join, Step, fixed, client, upload, flow, marks, Counted,
       Types, Early,
      Copying, Closing, Unwinding, Passed, Wraps, Holds, BodyActions
<1>23. ASSUME Cleanup PROVE Counted'
  BY Zenon, BlankFault, WriteFields, <1>23 DEF Cleanup, Step, fixed, upload, flow, marks, Counted,
       Types, Early,
      Copying, Closing, Unwinding, Passed, Wraps, Holds, BodyActions
<1>24. ASSUME Drain PROVE Counted'
  BY Zenon, BlankFault, WriteFields, <1>24 DEF Drain, Step, CancelKind, fixed, client, upload, flow,
       marks, Counted,
      Types, Early, Copying, Closing, Unwinding, Passed, Wraps, Holds, BodyActions
<1>25. ASSUME Unhook PROVE Counted'
  BY Zenon, BlankFault, WriteFields, <1>25 DEF Unhook, Step, Stopped, fixed, upload, flow, marks, Counted,
      Types, Early, Copying, Closing, Unwinding, Passed, Wraps, Holds, BodyActions
<1>26. ASSUME Finish PROVE Counted'
  BY Zenon, BlankFault, WriteFields, <1>26 DEF Finish, Step, Record, client, upload, flow, Counted, Types,
      Early, Copying, Closing, Unwinding, Passed, Wraps, Holds, BodyActions
<1>27. ASSUME ReadStart PROVE Counted'
  BY Zenon, BlankFault, WriteFields, <1>27 DEF ReadStart, Refuses, client, marks, handler, flow, Counted,
      Types, Early, Copying, Closing, Unwinding, Passed, Wraps, Holds, BodyActions
<1>28. ASSUME ReadByte PROVE Counted'
  <2>1. UNCHANGED <<pc, fault, wrote>> BY Zenon, <1>28 DEF ReadByte, handler
  <2>2. CASE fault.action # "truncate" BY <2>1, <2>2 DEF Counted
  <2>3. CASE fault.action = "truncate"
    <3>1. CASE ~Wraps("request")
      <4>1. UNCHANGED <<remaining, marks>> BY Zenon, <1>28, <3>1 DEF ReadByte
      <4> QED BY <2>1, <3>1, <4>1 DEF marks, Counted, Passed, Wraps
    <3>2. CASE Wraps("request") /\ Cuts
      <4>1. UNCHANGED <<forwarded, remaining>> BY Zenon, <1>28, <2>3, <3>2 DEF ReadByte, Limited
      <4> QED BY <2>1, <3>2, <4>1 DEF Cuts, Counted, Passed, Wraps
    <3>3. CASE Wraps("request") /\ ~Cuts
      <4>1. Forward /\ UNCHANGED marks /\ remaining' = remaining - 1
        BY Zenon, <1>28, <2>3, <3>3, OneBodyAction DEF ReadByte, Limited
      <4>2. remaining \in Nat /\ forwarded \in Nat BY DEF Types
      <4>3. remaining # 0 BY <2>3, <3>3 DEF Cuts
      <4> QED BY <2>1, <2>3, <3>3, <4>1, <4>2, <4>3 DEF marks, Forward, Counted, Passed, Wraps
    <3> QED BY Zenon, <3>1, <3>2, <3>3
  <2> QED BY <2>2, <2>3
<1>29. ASSUME ReadPaced PROVE Counted'
  <2>1. fault.action = "throttle" BY <1>29 DEF ReadPaced, Barred
  <2>2. UNCHANGED <<fault, pc>> BY Zenon, <1>29 DEF ReadPaced, handler
  <2> QED BY <2>1, <2>2 DEF Counted
<1>30. ASSUME ReadEOF PROVE Counted'
  BY Zenon, BlankFault, WriteFields, <1>30 DEF ReadEOF, marks, handler, flow, Counted, Types, Early, Copying,
      Closing, Unwinding, Passed, Wraps, Holds, BodyActions
<1>31. ASSUME ReadFails PROVE Counted'
  BY Zenon, BlankFault, WriteFields, <1>31 DEF ReadFails, client, marks, handler, flow, Counted, Types, Early,
      Copying, Closing, Unwinding, Passed, Wraps, Holds, BodyActions
<1>32. ASSUME Abandon PROVE Counted'
  BY Zenon, BlankFault, WriteFields, <1>32 DEF Abandon, client, marks, handler, flow, Counted, Types, Early,
      Copying, Closing, Unwinding, Passed, Wraps, Holds, BodyActions
<1>33. ASSUME ClientLeaves PROVE Counted'
  BY Zenon, BlankFault, WriteFields, <1>33 DEF ClientLeaves, others, upload, flow, marks, Counted, Types,
      Early, Copying, Closing, Unwinding, Passed, Wraps, Holds, BodyActions
<1>34. ASSUME ClientCancels PROVE Counted'
  BY Zenon, BlankFault, WriteFields, <1>34 DEF ClientCancels, EndCtx, others, upload, flow, marks, Counted,
      Types, Early, Copying, Closing, Unwinding, Passed, Wraps, Holds, BodyActions
<1>35. ASSUME Deadline PROVE Counted'
  BY Zenon, BlankFault, WriteFields, <1>35 DEF Deadline, EndCtx, others, upload, flow, marks, Counted, Types,
      Early, Copying, Closing, Unwinding, Passed, Wraps, Holds, BodyActions
<1>36. ASSUME ConnDeadline PROVE Counted'
  BY Zenon, BlankFault, WriteFields, <1>36 DEF ConnDeadline, others, upload, flow, marks, Counted, Types,
      Early, Copying, Closing, Unwinding, Passed, Wraps, Holds, BodyActions
<1>37. ASSUME ServerCloses PROVE Counted'
  BY Zenon, BlankFault, WriteFields, <1>37 DEF ServerCloses, EndCtx, others, upload, flow, marks, Counted,
      Types, Early, Copying, Closing, Unwinding, Passed, Wraps, Holds, BodyActions
<1>38. ASSUME Hook PROVE Counted'
  BY Zenon, BlankFault, WriteFields, <1>38 DEF Hook, others, upload, flow, marks, Counted, Types, Early,
      Copying, Closing, Unwinding, Passed, Wraps, Holds, BodyActions
<1>39. ASSUME UNCHANGED vars PROVE Counted'
  <2>1. UNCHANGED <<pc, fault, forwarded, remaining, applied, wrote>> BY Zenon, <1>39 DEF vars, upload, marks
  <2> QED BY <2>1 DEF Counted, Passed, Wraps
<1> QED BY Zenon, <1>1, <1>2, <1>3, <1>4, <1>5, <1>6, <1>7, <1>8, <1>9, <1>10, <1>11, <1>12, <1>13, <1>14,
    <1>15, <1>16, <1>17, <1>18, <1>19, <1>20, <1>21, <1>22, <1>23, <1>24, <1>25, <1>26, <1>27, <1>28, <1>29,
    <1>30, <1>31, <1>32, <1>33, <1>34, <1>35, <1>36, <1>37, <1>38, <1>39 DEF Next, Handle, Ended

-----------------------------------------------------------------------------
(* The theorems *)

\* An exchange starts with the invariant.
LEMMA InitIInv == Init => IInv
<1> SUFFICES ASSUME Init PROVE IInv OBVIOUS
<1>1. report \in Reports /\ report.outcome = "completed" /\ ~report.applied
  BY Zenon, OutcomeNames DEF Init, Reports
<1>2. wrote \in Writes /\ wrote.head = "none" /\ ~wrote.whole /\ wrote.bytes = 0 BY Zenon DEF Init, Writes
<1>3. protocol \in Http BY Zenon, HttpAssumption DEF Init
<1>4. Types
  <2>1. pc \in Places BY Zenon, PlaceNames DEF Init
  <2>2. Fits(fault) BY Zenon, BlankFits DEF Init
  <2>3. /\ shutdown \in BOOLEAN /\ upstream \in BOOLEAN /\ expired \in BOOLEAN /\ complete \in BOOLEAN
        /\ discarding \in BOOLEAN /\ terminal \in BOOLEAN /\ disconnected \in BOOLEAN
        /\ applied \in BOOLEAN /\ slot \in BOOLEAN /\ contacted \in BOOLEAN
    BY Zenon DEF Init
  <2> QED BY Zenon, <1>1, <1>2, <1>3, <2>1, <2>2, <2>3 DEF Init, Types
<1>5. Events BY Zenon, <1>1 DEF Init, Events, Early, Closing
<1>6. Ends BY Zenon DEF Init, Ends, Early, Applying, Sending, Copying, Closing, Unwinding
<1>7. Reporting BY Zenon, <1>1 DEF Init, Reporting, Copying, Closing, Unwinding
<1>8. Barred
  <2>1. Blank.phase # BeforeUpstreamRequest BY DEF Blank, BeforeUpstreamRequest
  <2> QED BY Zenon, <2>1 DEF Init, Barred, Blocking
<1>9. Silent BY Zenon, <1>2 DEF Init, Silent, Copying, Closing, Unwinding
<1>10. Counted BY Zenon, BlankFault DEF Init, Counted
<1> QED BY Zenon, <1>4, <1>5, <1>6, <1>7, <1>8, <1>9, <1>10 DEF IInv

\* The invariant holds of every exchange, however handler, reader, hook, client, upstream
\* and server interleave.
THEOREM ExchangeInvariant == Spec => []IInv
<1>1. IInv /\ [Next]_vars => IInv'
  BY Zenon, TypesStep, EventsStep, EndsStep, ReportingStep, BarredStep, SilentStep, CountedStep DEF IInv
<1> QED BY InitIInv, <1>1, PTL DEF Spec

\* The outcome that Finish reports is true of the exchange, for all listeners, faults and
\* bodies.
THEOREM OutcomesAreSound == Spec => []OutcomeSound
<1>1. IInv => OutcomeSound
  <2> SUFFICES ASSUME IInv, pc = "done" PROVE OutcomeSound BY DEF OutcomeSound
  <2>1. report.applied = applied BY DEF IInv, Events, Closing
  <2>2. report.outcome = "completed" => Well BY DEF IInv, Reporting, Unwinding, Closing
  <2>3. /\ report.outcome \in Outcomes
        /\ report.outcome = "canceled" =>
             /\ report.kind \in {"shutdown", "proxy_timeout", "client_canceled"}
             /\ report.kind = "shutdown" => shutdown
             /\ report.kind = "proxy_timeout" => ctx = "deadline"
    BY Zenon, ReportFields DEF IInv, Types, Reporting
  <2> QED BY <2>1, <2>2, <2>3 DEF OutcomeSound, Outcome, Outcomes, Well
<1> QED BY ExchangeInvariant, <1>1, PTL

\* A fault does what its action says and no more, for all faults that validation admits.
THEOREM FaultsAreExact == Spec => []FaultExact
<1>1. IInv => FaultExact
  <2> SUFFICES ASSUME IInv PROVE FaultExact OBVIOUS
  <2>1. Blocking => ~contacted /\ forwarded = 0 BY DEF IInv, Barred
  <2>2. applied /\ Ending => wrote.head = "none" /\ ~upstream BY DEF IInv, Silent
  <2>3. fault.action = "truncate" =>
          /\ Passed \in Nat /\ \A n \in fault.bytes : Passed <= n
          /\ applied => Passed \in fault.bytes /\ ~(Wraps("response") /\ wrote.whole)
    <3> SUFFICES ASSUME fault.action = "truncate"
                 PROVE  /\ Passed \in Nat /\ \A n \in fault.bytes : Passed <= n
                        /\ applied => Passed \in fault.bytes /\ ~(Wraps("response") /\ wrote.whole)
      OBVIOUS
    <3>1. forwarded \in Nat /\ remaining \in Nat /\ wrote.bytes \in Nat /\ Fits(fault)
      BY Zenon, WriteFields DEF IInv, Types
    <3>2. Passed \in Nat BY <3>1 DEF Passed
    <3>3. CASE pc \in Early
      <4>1. fault = Blank BY <3>3 DEF IInv, Events
      <4> QED BY Zenon, <4>1, BlankFault
    <3>4. CASE pc \notin Early
      <4>1. remaining + Passed \in fault.bytes /\ (applied => remaining = 0) BY <3>4 DEF IInv, Counted
      <4>2. \A n \in fault.bytes : n = remaining + Passed BY Zenon, <3>1, <4>1 DEF Fits
      <4>3. applied /\ Wraps("response") => ~wrote.whole BY DEF IInv, Counted, Wraps
      <4> QED BY <3>1, <3>2, <4>1, <4>2, <4>3
    <3> QED BY <3>3, <3>4
  <2> QED BY Zenon, <2>1, <2>2, <2>3 DEF FaultExact, Blocking, Ending, Passed
<1> QED BY ExchangeInvariant, <1>1, PTL

\* An exchange that has ended leaves no hook, deadline, slot or read behind.
THEOREM NothingIsLeft == Spec => []NothingLeft
<1>1. IInv => NothingLeft
  BY DEF IInv, NothingLeft, Ends, Events, Closing
<1> QED BY ExchangeInvariant, <1>1, PTL

\* A step of the flow as its events count it.
Advances ==
  \/ life = "none" /\ life' = "open"
  \/ life = "open" /\ life' \in {"passed", "selected"}
  \/ life = "selected" /\ life' = "applied"
  \/ life \in {"open", "passed", "selected", "applied"} /\ life' = "done"

\* Only these steps record an event.
LEMMA StepsAdvance == ASSUME Types, Events, Events', [Next]_vars PROVE life' = life \/ Advances
<1>1. ASSUME Start PROVE Advances BY <1>1 DEF Start, Step, Record, Events, Advances
<1>2. ASSUME Decide PROVE Advances BY <1>2 DEF Decide, Step, Record, Events, Advances
<1>3. ASSUME Finish PROVE Advances
  <2>1. /\ pc = "finish"
        /\ life' = IF report.applied = (life = "applied") THEN (IF life = "done" THEN "twice" ELSE "done")
                   ELSE (IF life = "wrong" THEN "twice" ELSE "wrong")
    BY Zenon, <1>3 DEF Finish, Step, Record
  <2>2. report.applied = applied /\ applied \in BOOLEAN BY <2>1 DEF Events, Closing, Types
  <2>3. IF applied THEN life = "applied" ELSE life \in {"open", "passed", "selected"} BY <2>1 DEF Events, Early
  <2> QED BY <2>1, <2>2, <2>3 DEF Advances
<1>4. ASSUME FaultApplied, fault' = fault, pc \notin Early \cup {"done"} PROVE life' = life \/ Advances
  <2>1. /\ applied' /\ (applied => life' = life)
        /\ applied \/ life' = IF life = "applied" THEN "twice" ELSE "applied"
    BY <1>4 DEF FaultApplied, Record
  <2>2. fault # Blank BY <1>4, <2>1 DEF Events
  <2>3. ~applied => life = "selected" BY <1>4, <2>2 DEF Events
  <2> QED BY <2>1, <2>3 DEF Advances
<1>5. ASSUME ExecuteWait \/ ExecuteRespond \/ ExecuteClose \/ WaitOver \/ CopyByte PROVE life' = life \/ Advances
  <2>1. pc \notin Early \cup {"done"}
    BY <1>5 DEF ExecuteWait, ExecuteRespond, ExecuteClose, WaitOver, CopyByte, Step, Early
  <2>2. fault' = fault BY Zenon, <1>5 DEF ExecuteWait, ExecuteRespond, ExecuteClose, WaitOver, CopyByte, fixed
  <2>3. FaultApplied \/ life' = life
    BY Zenon, <1>5 DEF ExecuteWait, ExecuteRespond, ExecuteClose, WaitOver, CopyByte, Limited, marks
  <2> QED BY Zenon, <1>4, <2>1, <2>2, <2>3
<1>6. ASSUME ReadByte PROVE life' = life \/ Advances
  <2>1. fault' = fault BY Zenon, <1>6 DEF ReadByte, handler
  <2>2. life' = life \/ (FaultApplied /\ Wraps("request")) BY Zenon, <1>6 DEF ReadByte, Limited, marks
  <2>3. Wraps("request") => pc \notin Early \cup {"done"}
    <3>1. Wraps("request") => fault # Blank BY Zenon, BlankFault DEF Wraps
    <3>2. Wraps("request") => pc # "done" BY <1>6 DEF ReadByte, Events, Closing, Joined
    <3> QED BY <3>1, <3>2 DEF Events
  <2> QED BY Zenon, <1>4, <2>1, <2>2, <2>3
<1>7. ASSUME \/ Refuse \/ Accept \/ Proceed \/ Reach \/ FailTerminal \/ FailCancelled \/ FailReply
             \/ Send \/ Deliver \/ CopyPaced \/ Expire \/ Join \/ Cleanup \/ Drain \/ Unhook \/ RoundTrip \/ CopyEnds \/ CopyFails
      PROVE  life' = life
  BY Zenon, <1>7 DEF Refuse, Accept, Proceed, Reach, FailTerminal, FailCancelled, FailReply, Send, Deliver,
      CopyPaced,
    Expire, Join, Cleanup, Drain, Unhook, RoundTrip, CopyEnds, CopyFails, marks
<1>8. ASSUME \/ ReadStart \/ ReadPaced \/ ReadEOF \/ ReadFails \/ Abandon \/ ClientLeaves \/ ClientCancels
             \/ Deadline \/ ConnDeadline \/ ServerCloses \/ Hook \/ UNCHANGED vars
      PROVE  life' = life
  BY Zenon, <1>8 DEF ReadStart, ReadPaced, ReadEOF, ReadFails, Abandon, ClientLeaves, ClientCancels, Deadline,
    ConnDeadline, ServerCloses, Hook, others, marks, vars
<1> QED BY Zenon, <1>1, <1>2, <1>3, <1>5, <1>6, <1>7, <1>8 DEF Next, Handle, Ended

\* The events of an exchange come in the order that the recorder counts on: the exchange
\* implements FlowEvents, with the one flow that it is.
THEOREM ExchangeRefinesFlowEvents == Spec => RecordsInOrder
<1> DEFINE lives == [f \in {"flow"} |-> life]
<1>1. Init => F!FlowInit BY Zenon DEF Init, F!FlowInit
<1>2. life' = life => lives' = lives OBVIOUS
<1>3. Advances => F!FlowNext
  <2> SUFFICES ASSUME Advances PROVE F!FlowNext OBVIOUS
  <2>1. \A s : lives' = [lives EXCEPT !["flow"] = s] <=> life' = s OBVIOUS
  <2>2. lives["flow"] = life OBVIOUS
  <2> HIDE DEF lives
  <2>3. \/ lives["flow"] = "none" /\ lives' = [lives EXCEPT !["flow"] = "open"]
        \/ lives["flow"] = "open" /\ \E s \in BOOLEAN :
             lives' = [lives EXCEPT !["flow"] = IF s THEN "selected" ELSE "passed"]
        \/ lives["flow"] = "selected" /\ lives' = [lives EXCEPT !["flow"] = "applied"]
        \/ lives["flow"] \in F!Open /\ lives' = [lives EXCEPT !["flow"] = "done"]
    BY Zenon, <2>1, <2>2 DEF Advances, F!Open
  <2> QED BY Zenon, <2>3 DEF F!FlowNext, F!Start, F!Decide, F!ApplyFault, F!Finish, lives
<1>4. IInv /\ IInv' /\ [Next]_vars => [F!FlowNext]_lives
  BY Zenon, <1>2, <1>3, StepsAdvance DEF IInv
<1> QED BY <1>1, <1>4, ExchangeInvariant, PTL DEF Spec, RecordsInOrder, F!FlowSpec

-----------------------------------------------------------------------------
(* Faults: validation and execution are written apart from each other, and the adapters
   dereference optional fields without looking. *)

\* A rule that validateFault admits at its own phase gives the HTTP handler, its executor
\* and its bodies every field their action reads.
LEMMA HttpFaultsReady ==
  ASSUME NEW p \in Http, NEW f \in Fault, validate(p, f)
  PROVE  HttpReady(p, f)
  <1>1. /\ validateFault(f, f.phase) /\ f.action \in Actions(p)
    BY DEF validate
  <1>2. f.action = "close_connection" => p = "http1"
    BY <1>1 DEF Actions, Http, Databases
  <1>3. f.action = "respond" => Given(Body(f))
    BY Zenon DEF Body, Given
  <1>4. f.action = "throttle" => ~Given(f.bytes)
    BY Zenon, <1>1 DEF validateFault
  <1> QED
    BY Zenon, <1>1, <1>2, <1>3, <1>4 DEF validateFault, HttpReady, BodyActions, Holds

\* A database rule has the timer that apply sets: max_duration for hold_response, duration
\* for delay.
LEMMA CommitFaultsReady ==
  ASSUME NEW p \in Databases, NEW f \in Fault, validate(p, f)
  PROVE  CommitReady(f)
  <1>1. validateFault(f, AfterUpstreamHeaders)
    BY DEF validate, validateCommitRule
  <1>2. f.action \in {"delay", "hold_response", "close_connection"}
    BY DEF validate, Actions, Databases, Http
  <1> QED
    BY Zenon, <1>1, <1>2 DEF validateFault, CommitReady, Holds

\* A TCP rule has what the controller of a connection reads for its action and trigger.
LEMMA TcpFaultsReady ==
  ASSUME NEW f \in Fault, validate("tcp", f)
  PROVE  TcpReady(f)
  <1>1. validateTCPRule(f)
    BY DEF validate
  <1> QED
    BY Zenon, <1>1 DEF validateTCPRule, TcpReady, TCPOnConnect, TCPOnTransfer

\* No adapter meets a missing or senseless field: whatever fault config.validate accepts
\* for a protocol, the adapter of that protocol finds everything there that its action
\* dereferences, with a value its timers and limits can take.
THEOREM ValidFaultsExecute ==
  \A p \in Protocols, f \in Fault : validate(p, f) => Executable(p, f)
  <1> SUFFICES ASSUME NEW p \in Protocols, NEW f \in Fault, validate(p, f)
               PROVE  Executable(p, f)
    OBVIOUS
  <1>1. p \in Http => HttpReady(p, f)
    BY HttpFaultsReady
  <1>2. p \in Databases => CommitReady(f)
    BY CommitFaultsReady
  <1>3. p = "tcp" => TcpReady(f)
    BY TcpFaultsReady
  <1> QED
    BY <1>1, <1>2, <1>3 DEF Executable

\* selectAttempt never dereferences a missing probability and never divides by zero, and it
\* ignores no selector the rule has: config.validate leaves a rule exactly one.
THEOREM ValidSelectorsDecide ==
  \A s \in Selector : validateSelector(s) => SelectReady(s)
  BY DEF Selector, validateSelector, SelectReady, Given

-----------------------------------------------------------------------------
(* The deadline of an RPC *)

\* What rounding up gives, for each unit.
LEMMA RoundingUp ==
  ASSUME NEW d \in Nat, NEW u \in Units
  PROVE  /\ RoundedUp(d, u) \in Nat
         /\ d <= RoundedUp(d, u) * u /\ RoundedUp(d, u) * u < d + u
  <1>1. CASE u = 1
    BY SMT, <1>1 DEF RoundedUp
  <1>2. CASE u = 1000
    BY SMT, <1>2 DEF RoundedUp
  <1>3. CASE u = 1000000
    BY SMT, <1>3 DEF RoundedUp
  <1>4. CASE u = 1000000000
    BY SMT, <1>4 DEF RoundedUp
  <1>5. CASE u = 60000000000
    BY SMT, <1>5 DEF RoundedUp
  <1>6. CASE u = Hour
    BY SMT, <1>6 DEF RoundedUp, Hour
  <1> QED
    BY SMT, <1>1, <1>2, <1>3, <1>4, <1>5, <1>6 DEF Units

\* Some unit is the first in which a duration has eight digits at most.
LEMMA FirstUnit ==
  ASSUME NEW max, IsMaxDuration(max), NEW d \in Nat, d <= max
  PROVE  \E u \in Units : Chosen(d, u) /\ RoundedUp(d, u) \in 0 .. MaxNumber
  <1>1. RoundedUp(d, Hour) <= MaxNumber
    BY SMT DEF RoundedUp, IsMaxDuration, MaxNumber, Hour
  <1>2. \A u \in Units : RoundedUp(d, u) \in Nat
    BY RoundingUp
  <1>3. \E u \in Units : Chosen(d, u)
    BY SMT, <1>1, <1>2 DEF Chosen, Units, MaxNumber, Hour
  <1>4. PICK u \in Units : Chosen(d, u)
    BY <1>3
  <1>5. RoundedUp(d, u) \in Nat /\ RoundedUp(d, u) <= MaxNumber
    BY <1>2, <1>4, Zenon DEF Chosen
  <1>6. MaxNumber \in Nat
    BY SMT DEF MaxNumber
  <1>7. RoundedUp(d, u) \in 0 .. MaxNumber
    BY ONLY SMT, <1>5, <1>6
  <1> QED
    BY <1>4, <1>7, Zenon

\* TimeoutHeader never gets to its panic: whatever time is left, none or the longest
\* Duration, some unit is chosen and its number is written with eight digits at most.
THEOREM HeaderExists ==
  ASSUME NEW max, IsMaxDuration(max), NEW d \in Int, d <= max
  PROVE  \E h \in Header : IsTimeoutHeader(d, h)
  <1>1. max \in Nat /\ 1 <= max
    BY SMT DEF IsMaxDuration, Hour
  <1>2. AtLeastOne(d) \in Nat /\ AtLeastOne(d) <= max
    BY SMT, <1>1 DEF AtLeastOne
  <1>3. PICK u \in Units : /\ Chosen(AtLeastOne(d), u)
                           /\ RoundedUp(AtLeastOne(d), u) \in 0 .. MaxNumber
    BY <1>2, FirstUnit
  <1> DEFINE h == [number |-> RoundedUp(AtLeastOne(d), u), unit |-> u]
  <1>4. h \in Header
    BY SMT, <1>3 DEF Header
  <1>5. IsTimeoutHeader(d, h)
    BY SMT, <1>3 DEF IsTimeoutHeader
  <1> QED
    BY <1>4, <1>5, Zenon

\* The upstream is never given less time than the proxy has left, and less than one unit
\* more: the deadline that TimeoutHeader writes, read back by Timeout, is rounded up.
THEOREM HeaderKeepsDeadline ==
  ASSUME NEW max, IsMaxDuration(max), NEW d \in 1 .. max,
         NEW h \in Header, IsTimeoutHeader(d, h)
  PROVE  d <= Timeout(h, max) /\ Timeout(h, max) < d + h.unit
  <1>1. d \in Nat /\ max \in Nat /\ d <= max /\ d >= 1
    BY SMT DEF IsMaxDuration
  <1>2. h.unit \in Units /\ h.number = RoundedUp(d, h.unit)
    BY SMT, <1>1 DEF IsTimeoutHeader, AtLeastOne
  <1>3. h.number \in Nat /\ d <= h.number * h.unit /\ h.number * h.unit < d + h.unit
    BY <1>1, <1>2, RoundingUp
  <1>4. h.unit \in Nat /\ h.unit > 0
    BY SMT, <1>2 DEF Units, Hour
  <1>5. CASE h.number > max \div h.unit
    <2>1. max < h.number * h.unit
      BY ONLY SMT, <1>1, <1>3, <1>4, <1>5
    <2> QED
      BY ONLY SMT, <1>1, <1>3, <1>4, <1>5, <2>1 DEF Timeout
  <1>6. CASE ~(h.number > max \div h.unit)
    BY ONLY SMT, <1>3, <1>6 DEF Timeout
  <1> QED
    BY <1>5, <1>6, Zenon
=============================================================================
