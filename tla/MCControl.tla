----------------------------- MODULE MCControl -----------------------------
(* Small instances of Control for TLC. *)
EXTENDS Control, TLC

Rule(id, kind, n, match, enabled) ==
  [id |-> id, kind |-> kind, n |-> n, match |-> match, enabled |-> enabled]

\* d1: the second request falls through to the second rule; d2 keeps the random rule and
\* turns the other one round; d3 has other listeners and can never be applied live.
MCDocuments == {"d1", "d2", "d3"}
MCInfra == [d \in MCDocuments |-> IF d = "d3" THEN "other" ELSE "same"]

MCRules ==
  [d \in MCDocuments |->
     CASE d = "d1" -> <<Rule("x", "nth", 2, {"a"}, TRUE), Rule("y", "random", 1, {"a", "b"}, TRUE)>>
       [] d = "d2" -> <<Rule("x", "every", 2, {"a"}, TRUE), Rule("y", "random", 1, {"a", "b"}, TRUE)>>
       [] OTHER    -> <<Rule("x", "always", 1, {"a"}, FALSE)>>]

MCDraw == [id \in {"x", "y"} |-> <<FALSE, TRUE, FALSE, TRUE, TRUE>>]

FlowSymmetry == Permutations(Flows) \cup Permutations(Editors)
=============================================================================
