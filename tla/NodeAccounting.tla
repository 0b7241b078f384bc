--------------------------- MODULE NodeAccounting ---------------------------
(***************************************************************************)
(* What the node registry promises, without its queues, requests and       *)
(* hooks: every node a worker is told of is held until it is settled, it is*)
(* settled once and for good, as deleted or as failed, and what the worker *)
(* publishes is an exact count of the nodes at each stage at the moment of *)
(* publishing.                                                             *)
(***************************************************************************)
EXTENDS Integers, FiniteSets

CONSTANT Node

VARIABLES
  stage,    \* where each node stands
  report    \* the totals published so far

vars == <<stage, report>>

At(s, g) == {n \in Node : s[n] = g}

\* The totals an exact report shows when the nodes stand as s says.
Totals(s) ==
  [created |-> Cardinality(At(s, "held") \cup At(s, "deleted") \cup At(s, "failed")),
   deleted |-> Cardinality(At(s, "deleted")),
   failed  |-> At(s, "failed")]

Init ==
  /\ stage = [n \in Node |-> "unknown"]
  /\ report = [created |-> 0, deleted |-> 0, failed |-> {}]

\* A node advances; none is skipped, taken back or settled twice.
Advance(n) ==
  \/ stage[n] = "unknown" /\ stage' = [stage EXCEPT ![n] = "held"]
  \/ stage[n] = "held" /\ \E g \in {"deleted", "failed"} :
                            stage' = [stage EXCEPT ![n] = g]

Publish == report' = Totals(stage')

Next ==
  /\ stage' = stage \/ \E n \in Node : Advance(n)
  /\ Publish \/ report' = report

Spec == Init /\ [][Next]_vars
=============================================================================
