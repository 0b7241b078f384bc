----------------------------- MODULE MCNodeSweep -----------------------------
(* Instances of NodeSweep for TLC. *)
EXTENDS NodeSweep

CONSTANT word   \* an entry that is no id, such as "node0" or "00"

\* Ids at the start, in the middle and at the end of the space, and past it.
MCEntry == {0, 2, 3, word}
==============================================================================
