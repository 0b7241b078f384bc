------------------------------ MODULE NodeSweep ------------------------------
(***************************************************************************)
(* sweepLeftoverNodes of preflight.ts: before the tests, walk the node id  *)
(* space from 0 up and delete every node that is not protected.  Ids are   *)
(* assigned in sequence and deleted nodes keep theirs.  While the sweep    *)
(* walks, other users of the network may create and delete nodes.          *)
(***************************************************************************)
EXTENDS Integers, FiniteSets

CONSTANTS
  Entry,        \* what TCK_PROTECTED_NODE_IDS can list: ids, and other words
  MaxId,        \* bound: the network assigns at most the ids 0..MaxId-1
  Privileged    \* the operator may delete a node without its admin key

ASSUME SweepAssumption ==
  /\ IsFiniteSet(Entry)
  /\ MaxId \in Nat
  /\ Privileged \in BOOLEAN

VARIABLES
  protectedIds, \* the entries of TCK_PROTECTED_NODE_IDS
  assigned,     \* the network: ids 0..assigned-1 have been assigned
  deleted,      \* the network: the ids that have been deleted
  id,           \* the walk's present id
  awaiting,     \* the answer to the delete of id: "none" sent, "sent", or come
  swept,        \* nodes the sweep counted as deleted
  outcome,      \* how the sweep stands
  bySweep,      \* history: nodes the sweep's transactions deleted
  seen          \* history: how many ids were assigned at the last answer

vars == <<protectedIds, assigned, deleted, id, awaiting, swept, outcome, bySweep, seen>>

Assigned == 0..(assigned - 1)

\* An entry protects an id only if it is that id's decimal form.
Protected(i) == i \in protectedIds

Init ==
  /\ protectedIds \in SUBSET Entry
  /\ assigned \in 0..MaxId
  /\ deleted \in SUBSET (0..(assigned - 1))
  /\ id = 0 /\ awaiting = "none" /\ swept = 0
  /\ outcome = "starting"
  /\ bySweep = {} /\ seen = 0

\* The walk refuses to start without a protected set.
Start ==
  /\ outcome = "starting"
  /\ outcome' = IF protectedIds = {} THEN "refused" ELSE "walking"
  /\ UNCHANGED <<protectedIds, assigned, deleted, id, awaiting, swept, bySweep, seen>>

Skip ==
  /\ outcome = "walking" /\ awaiting = "none" /\ Protected(id)
  /\ id' = id + 1
  /\ UNCHANGED <<protectedIds, assigned, deleted, awaiting, swept, outcome, bySweep, seen>>

\* Mutant: sends the delete before looking at the protected set.
SendUnchecked ==
  /\ outcome = "walking" /\ awaiting = "none"
  /\ awaiting' = "sent"
  /\ UNCHANGED <<protectedIds, assigned, deleted, id, swept, outcome, bySweep, seen>>

Send ==
  /\ outcome = "walking" /\ awaiting = "none" /\ ~Protected(id)
  /\ awaiting' = "sent"
  /\ UNCHANGED <<protectedIds, assigned, deleted, id, swept, outcome, bySweep, seen>>

\* The network executes the delete of id.
Execute ==
  /\ awaiting = "sent"
  /\ seen' = assigned
  /\ \/ /\ id \notin Assigned
        /\ awaiting' = "INVALID_NODE_ID"
        /\ UNCHANGED <<deleted, bySweep>>
     \/ /\ id \in deleted
        /\ awaiting' = "NODE_DELETED"
        /\ UNCHANGED <<deleted, bySweep>>
     \/ /\ id \in Assigned \ deleted /\ Privileged
        /\ awaiting' = "SUCCESS"
        /\ deleted' = deleted \cup {id} /\ bySweep' = bySweep \cup {id}
  /\ UNCHANGED <<protectedIds, assigned, id, swept, outcome>>

\* The delete is refused, or it or its receipt is lost: any other error.
Fail ==
  /\ awaiting \in {"sent", "SUCCESS"}
  /\ awaiting' = "ERROR"
  /\ UNCHANGED <<protectedIds, assigned, deleted, id, swept, outcome, bySweep, seen>>

\* How the loop body takes an answer.
\* Mutants: an unexpected error is passed over; a deleted id is taken for the
\* end of the id space; nodes found deleted are counted; the walk goes down; a
\* deleted node is tried again.
PassesErrors(a) == a \in {"SUCCESS", "NODE_DELETED", "ERROR"}
DeletedIsEnd(a) == a \in {"INVALID_NODE_ID", "NODE_DELETED"}
CountsDeleted(a) == a \in {"SUCCESS", "NODE_DELETED"}
WalksDown(a) == id - 1
RetriesDeleted(a) == IF a = "NODE_DELETED" THEN id ELSE id + 1

Passes(a) == a \in {"SUCCESS", "NODE_DELETED"}
PastEnd(a) == a = "INVALID_NODE_ID"
Counts(a) == a = "SUCCESS"
NextId(a) == id + 1

\* The loop body after the receipt or the error.
Answer ==
  /\ outcome = "walking" /\ awaiting \notin {"none", "sent"}
  /\ awaiting' = "none"
  /\ swept' = IF Counts(awaiting) THEN swept + 1 ELSE swept
  /\ \/ Passes(awaiting) /\ id' = NextId(awaiting) /\ UNCHANGED outcome
     \/ PastEnd(awaiting) /\ outcome' = "complete" /\ UNCHANGED id
     \/ /\ ~Passes(awaiting) /\ ~PastEnd(awaiting)
        /\ outcome' = "stopped" /\ UNCHANGED id
  /\ UNCHANGED <<protectedIds, assigned, deleted, bySweep, seen>>

\* Other users of the network.
OtherCreates ==
  /\ assigned < MaxId
  /\ assigned' = assigned + 1
  /\ UNCHANGED <<protectedIds, deleted, id, awaiting, swept, outcome, bySweep, seen>>

OtherDeletes ==
  /\ \E i \in Assigned \ deleted : deleted' = deleted \cup {i}
  /\ UNCHANGED <<protectedIds, assigned, id, awaiting, swept, outcome, bySweep, seen>>

Sweep == Start \/ Skip \/ Send \/ Answer
Network == Execute \/ Fail
Next == Sweep \/ Network \/ OtherCreates \/ OtherDeletes

Spec == Init /\ [][Next]_vars

\* The process runs on, and the SDK ends every request with an answer or an
\* error of its own after its timeout.
FairSpec == Spec /\ WF_vars(Sweep) /\ WF_vars(Network)

-----------------------------------------------------------------------------
\* Properties

Answers == {"none", "sent", "SUCCESS", "NODE_DELETED", "INVALID_NODE_ID", "ERROR"}

\* Type invariant of the walk and the network's id space.
TypeOK ==
  /\ protectedIds \subseteq Entry
  /\ assigned \in 0..MaxId
  /\ deleted \subseteq Assigned
  /\ id \in Nat /\ swept \in Nat /\ seen \in Nat
  /\ awaiting \in Answers
  /\ outcome \in {"starting", "refused", "walking", "complete", "stopped"}
  /\ bySweep \subseteq deleted

\* The sweep deletes no protected node, and no node at all without a protected
\* set, however the answers and the other users' transactions fall.
ProtectedUntouched ==
  /\ \A i \in bySweep : ~Protected(i)
  /\ protectedIds = {} => bySweep = {}

\* Behind the walk every node that is not protected is gone: no answer lets the
\* walk step over a live one.
WalkedIsClean == \A i \in 0..(id - 1) : Protected(i) \/ i \in deleted

\* A sweep that came to the end of the id space left no unprotected node among
\* those that existed when the network answered INVALID_NODE_ID.
CompleteIsClean ==
  outcome = "complete" => \A i \in 0..(seen - 1) : Protected(i) \/ i \in deleted

\* The number of nodes the sweep prints is the number it deleted; only a sweep
\* stopped by an error may have deleted one more than it says.
SweptExact ==
  LET missed == Cardinality(bySweep) - swept IN
  /\ missed \in {0, 1}
  /\ missed = 1 => awaiting \in {"SUCCESS", "ERROR"} \/ outcome = "stopped"

\* The walk ends, whatever others delete and create meanwhile.
SweepEnds == <>(outcome \in {"refused", "complete", "stopped"})
=============================================================================
