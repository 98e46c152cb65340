----------------------------- MODULE FlowEvents -----------------------------
(***************************************************************************)
(* What every proxy adapter promises the run recorder about one flow: the  *)
(* order of the events it records.  A flow is an HTTP exchange, an RPC, a  *)
(* TCP connection or one database command cycle.                           *)
(*                                                                         *)
(*   flow_started, then at most one decision, then at most one             *)
(*   fault_applied and only after a selecting decision, then exactly one   *)
(*   flow_finished whose Applied flag says whether fault_applied happened. *)
(*                                                                         *)
(* The recorder's Active and ActiveFaults counters are only meaningful     *)
(* when this holds, since it decrements them without looking back.         *)
(***************************************************************************)
CONSTANT Flows

VARIABLE life      \* life[f]: how far flow f has got

Open    == {"open", "passed", "selected", "applied"}
Stages  == {"none", "done"} \cup Open

FlowInit == life = [f \in Flows |-> "none"]

Start(f) ==
  /\ life[f] = "none"
  /\ life' = [life EXCEPT ![f] = "open"]

Decide(f, selected) ==
  /\ life[f] = "open"
  /\ life' = [life EXCEPT ![f] = IF selected THEN "selected" ELSE "passed"]

ApplyFault(f) ==
  /\ life[f] = "selected"
  /\ life' = [life EXCEPT ![f] = "applied"]

Finish(f, applied) ==
  /\ life[f] \in Open
  /\ applied <=> (life[f] = "applied")
  /\ life' = [life EXCEPT ![f] = "done"]

FlowNext ==
  \E f \in Flows :
    \/ Start(f)
    \/ \E s \in BOOLEAN : Decide(f, s)
    \/ ApplyFault(f)
    \/ \E a \in BOOLEAN : Finish(f, a)

FlowSpec == FlowInit /\ [][FlowNext]_life
=============================================================================
