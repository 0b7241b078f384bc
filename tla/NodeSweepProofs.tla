--------------------------- MODULE NodeSweepProofs ---------------------------
(***************************************************************************)
(* Proofs about NodeSweep for every protected set and any size of the id   *)
(* space.                                                                  *)
(***************************************************************************)
EXTENDS NodeSweep, FiniteSetTheorems, TLAPS

\* The walk sends only what it may, and an answer tells the truth about id.
AwaitingTrue ==
  /\ awaiting # "none" => outcome = "walking" /\ ~Protected(id)
  /\ awaiting \in {"SUCCESS", "NODE_DELETED"} => id \in deleted
  /\ awaiting = "SUCCESS" => id \in bySweep
  /\ awaiting = "INVALID_NODE_ID" => seen <= id
  /\ outcome = "complete" => seen <= id
  /\ protectedIds = {} => outcome \in {"starting", "refused"} /\ awaiting = "none"

\* The sweep has deleted nothing ahead of its walk, and what it has counted is
\* what it deleted behind its walk.
CountedBehind ==
  /\ bySweep \subseteq 0..id
  /\ outcome = "walking" /\ awaiting \in {"none", "sent", "NODE_DELETED", "INVALID_NODE_ID"}
       => id \notin bySweep
  /\ outcome \in {"starting", "refused"} => bySweep = {}
  /\ outcome = "complete" => id \notin bySweep
  /\ swept = Cardinality(bySweep \ {id})

IInv ==
  /\ TypeOK
  /\ ProtectedUntouched
  /\ WalkedIsClean
  /\ AwaitingTrue
  /\ CountedBehind

\* The inductive invariant holds before the walk.
THEOREM SweepInit == Init => IInv
<1> SUFFICES ASSUME Init PROVE IInv
  OBVIOUS
<1>1. bySweep = {} /\ id = 0 /\ swept = 0 /\ awaiting = "none" /\ outcome = "starting"
  BY DEF Init
<1>2. TypeOK
  BY SweepAssumption DEF Init, TypeOK, Assigned, Answers
<1>3. Cardinality(bySweep \ {id}) = 0
  BY <1>1, FS_EmptySet
<1>4. CountedBehind /\ AwaitingTrue
  BY <1>1, <1>3 DEF CountedBehind, AwaitingTrue
<1>5. ProtectedUntouched /\ WalkedIsClean
  BY <1>1 DEF ProtectedUntouched, WalkedIsClean
<1> QED
  BY <1>2, <1>4, <1>5 DEF IInv

\* What the sweep deleted is a finite set of ids.
LEMMA SweptFinite ==
  ASSUME TypeOK
  PROVE  IsFiniteSet(bySweep) /\ Cardinality(bySweep) \in Nat
<1>1. assigned \in Int /\ bySweep \subseteq 0..(assigned - 1)
  BY SweepAssumption DEF TypeOK, Assigned
<1>2. IsFiniteSet(0..(assigned - 1))
  BY <1>1, FS_Interval
<1>3. IsFiniteSet(bySweep)
  BY <1>1, <1>2, FS_Subset
<1> QED
  BY <1>3, FS_CardinalityType

\* Only a new deletion, or a step of the walk, can move what was counted.
LEMMA CountsStay ==
  ASSUME IInv, id' = id, swept' = swept, bySweep' \ {id} = bySweep \ {id}
  PROVE  swept' = Cardinality(bySweep' \ {id'})
BY DEF IInv, CountedBehind

\* The network deletes at most the id that was sent, which is not protected.
LEMMA ExecuteStep ==
  ASSUME IInv, Execute
  PROVE  IInv'
<1>1. /\ awaiting = "sent" /\ outcome = "walking" /\ ~Protected(id) /\ protectedIds # {}
      /\ UNCHANGED <<protectedIds, assigned, id, swept, outcome>> /\ seen' = assigned
      /\ id \notin bySweep
  BY DEF IInv, AwaitingTrue, CountedBehind, Execute
<1>2. /\ id \in Nat /\ assigned \in Nat /\ deleted \subseteq Assigned
      /\ bySweep \subseteq deleted
  BY SweepAssumption DEF IInv, TypeOK
<1>3. \/ deleted' = deleted /\ bySweep' = bySweep
         /\ \/ awaiting' = "INVALID_NODE_ID" /\ id \notin Assigned
            \/ awaiting' = "NODE_DELETED" /\ id \in deleted
      \/ /\ awaiting' = "SUCCESS" /\ id \in Assigned
         /\ deleted' = deleted \cup {id} /\ bySweep' = bySweep \cup {id}
  BY DEF Execute
<1>4. TypeOK'
  BY <1>1, <1>2, <1>3, SweepAssumption DEF IInv, TypeOK, Assigned, Answers
<1>5. ProtectedUntouched' /\ WalkedIsClean'
  BY <1>1, <1>3 DEF IInv, ProtectedUntouched, WalkedIsClean, Protected
<1>6. AwaitingTrue'
  BY <1>1, <1>2, <1>3 DEF IInv, AwaitingTrue, Protected, Assigned
<1>7. CountedBehind'
  <2>1. bySweep' \ {id} = bySweep \ {id}
    BY <1>3
  <2>2. swept' = Cardinality(bySweep' \ {id'})
    BY <1>1, <2>1, CountsStay
  <2>3. bySweep' \subseteq 0..id
    <3>1. id \in 0..id /\ bySweep \subseteq 0..id
      BY <1>2 DEF IInv, CountedBehind
    <3> QED
      BY <1>3, <3>1
  <2>4. awaiting' # "SUCCESS" => bySweep' = bySweep
    BY <1>3
  <2> QED
    BY <1>1, <2>2, <2>3, <2>4, <1>3 DEF CountedBehind
<1> QED
  BY <1>4, <1>5, <1>6, <1>7 DEF IInv

\* The loop body counts a deletion and passes the id, or ends the walk.
LEMMA AnswerStep ==
  ASSUME IInv, Answer
  PROVE  IInv'
<1>1. /\ outcome = "walking" /\ awaiting \notin {"none", "sent"} /\ awaiting' = "none"
      /\ UNCHANGED <<protectedIds, assigned, deleted, bySweep, seen>>
      /\ protectedIds # {}
  BY DEF Answer, IInv, AwaitingTrue
<1>2. /\ id \in Nat /\ swept \in Nat /\ assigned \in Nat /\ deleted \subseteq Assigned
      /\ bySweep \subseteq deleted /\ bySweep \subseteq 0..id
  BY SweepAssumption DEF IInv, TypeOK, CountedBehind
<1>3. /\ IsFiniteSet(bySweep) /\ Cardinality(bySweep) \in Nat
      /\ swept = Cardinality(bySweep \ {id})
  BY SweptFinite DEF IInv, CountedBehind
<1>4. CASE Passes(awaiting) /\ id' = id + 1 /\ UNCHANGED outcome
  <2>1. id \in deleted /\ (awaiting = "SUCCESS" <=> id \in bySweep)
        /\ awaiting \in {"SUCCESS", "NODE_DELETED"}
    BY <1>1, <1>4 DEF IInv, AwaitingTrue, CountedBehind, Passes
  <2>2. swept' = IF id \in bySweep THEN swept + 1 ELSE swept
    BY <2>1 DEF Answer, Counts
  <2>3. bySweep \ {id + 1} = bySweep
    BY <1>2
  <2>4. swept' = Cardinality(bySweep' \ {id'})
    <3>1. CASE id \in bySweep
      <4>1. swept = Cardinality(bySweep) - 1
        BY <1>3, <3>1, FS_RemoveElement
      <4>2. swept' = Cardinality(bySweep)
        BY <1>3, <2>2, <3>1, <4>1
      <4> QED
        BY <1>1, <1>4, <2>3, <4>2
    <3>2. CASE id \notin bySweep
      <4>1. bySweep \ {id} = bySweep
        BY <3>2
      <4> QED
        BY <1>1, <1>3, <1>4, <2>2, <2>3, <3>2, <4>1
    <3> QED
      BY <3>1, <3>2
  <2>5. CountedBehind'
    BY <1>1, <1>2, <1>4, <2>4 DEF IInv, CountedBehind
  <2>6. WalkedIsClean'
    BY <1>1, <1>2, <1>4, <2>1 DEF IInv, WalkedIsClean, Protected
  <2>7. TypeOK' /\ ProtectedUntouched' /\ AwaitingTrue'
    BY <1>1, <1>2, <1>4, <2>2
    DEF IInv, TypeOK, ProtectedUntouched, AwaitingTrue, Protected, Assigned, Answers
  <2> QED
    BY <2>5, <2>6, <2>7 DEF IInv
<1>5. CASE ~Passes(awaiting) /\ outcome' \in {"complete", "stopped"} /\ UNCHANGED id
           /\ (outcome' = "complete" => PastEnd(awaiting))
  <2>1. swept' = swept
    BY <1>5 DEF Answer, Counts, Passes
  <2>2. outcome' = "complete" => id \notin bySweep /\ seen <= id
    BY <1>1, <1>5 DEF IInv, CountedBehind, AwaitingTrue, PastEnd
  <2>3. CountedBehind'
    BY <1>1, <1>2, <1>5, <2>1, <2>2 DEF IInv, CountedBehind
  <2>4. AwaitingTrue'
    BY <1>1, <1>5, <2>2 DEF IInv, AwaitingTrue
  <2>5. TypeOK' /\ ProtectedUntouched' /\ WalkedIsClean'
    BY <1>1, <1>5, <2>1
    DEF IInv, TypeOK, ProtectedUntouched, WalkedIsClean, Protected, Assigned, Answers
  <2> QED
    BY <2>3, <2>4, <2>5 DEF IInv
<1> QED
  BY <1>4, <1>5 DEF Answer, Passes, PastEnd, NextId

\* The inductive invariant: one step per action of Next.
THEOREM SweepNext == IInv /\ [Next]_vars => IInv'
<1> SUFFICES ASSUME IInv, [Next]_vars PROVE IInv'
  OBVIOUS
<1> USE DEF IInv
<1>1. CASE Start
  BY <1>1, CountsStay DEF Start, TypeOK, ProtectedUntouched, WalkedIsClean, AwaitingTrue,
     CountedBehind, Protected, Assigned, Answers
<1>2. CASE Skip
  <2>1. id \notin bySweep /\ id \in Nat /\ bySweep \subseteq 0..id
    BY <1>2 DEF Skip, CountedBehind, TypeOK
  <2>2. bySweep \ {id + 1} = bySweep /\ bySweep \ {id} = bySweep
    BY <2>1
  <2>3. CountedBehind'
    BY <1>2, <2>1, <2>2 DEF Skip, CountedBehind
  <2>4. WalkedIsClean'
    BY <1>2, <2>1 DEF Skip, WalkedIsClean, Protected
  <2> QED
    BY <1>2, <2>1, <2>3, <2>4
    DEF Skip, TypeOK, ProtectedUntouched, AwaitingTrue, Protected, Assigned, Answers
<1>3. CASE Send
  BY <1>3, CountsStay DEF Send, TypeOK, ProtectedUntouched, WalkedIsClean, AwaitingTrue,
     CountedBehind, Protected, Assigned, Answers
<1>4. CASE Fail
  BY <1>4, CountsStay DEF Fail, TypeOK, ProtectedUntouched, WalkedIsClean, AwaitingTrue,
     CountedBehind, Protected, Assigned, Answers
<1>5. CASE OtherCreates
  <2>1. deleted \subseteq Assigned /\ Assigned \subseteq Assigned' /\ assigned' \in 0..MaxId
    BY <1>5, SweepAssumption DEF OtherCreates, TypeOK, Assigned
  <2> QED
    BY <1>5, <2>1, CountsStay DEF OtherCreates, TypeOK, ProtectedUntouched, WalkedIsClean,
       AwaitingTrue, CountedBehind, Protected
<1>6. CASE OtherDeletes
  BY <1>6, CountsStay DEF OtherDeletes, TypeOK, ProtectedUntouched, WalkedIsClean, AwaitingTrue,
     CountedBehind, Protected, Assigned
<1>7. CASE UNCHANGED vars
  BY <1>7, CountsStay DEF vars, TypeOK, ProtectedUntouched, WalkedIsClean, AwaitingTrue,
     CountedBehind, Protected, Assigned
<1> QED
  BY <1>1, <1>2, <1>3, <1>4, <1>5, <1>6, <1>7, ExecuteStep, AnswerStep
  DEF Next, Sweep, Network

\* What the walk leaves behind and what it prints, in every reachable state.
LEMMA SweepPromises == IInv => CompleteIsClean /\ SweptExact
<1> SUFFICES ASSUME IInv PROVE CompleteIsClean /\ SweptExact
  OBVIOUS
<1>1. CompleteIsClean
  BY DEF IInv, CompleteIsClean, AwaitingTrue, WalkedIsClean, TypeOK
<1>2. /\ IsFiniteSet(bySweep) /\ Cardinality(bySweep) \in Nat
      /\ swept = Cardinality(bySweep \ {id})
  BY SweptFinite DEF IInv, CountedBehind
<1>3. CASE id \in bySweep
  <2>1. Cardinality(bySweep) - swept = 1
    BY <1>2, <1>3, FS_RemoveElement
  <2>2. awaiting \in {"SUCCESS", "ERROR"} \/ outcome = "stopped"
    BY <1>3 DEF IInv, TypeOK, CountedBehind, Answers
  <2> QED
    BY <1>1, <2>1, <2>2 DEF SweptExact
<1>4. CASE id \notin bySweep
  <2>1. bySweep \ {id} = bySweep
    BY <1>4
  <2>2. Cardinality(bySweep) - swept = 0
    BY <1>2, <2>1
  <2> QED
    BY <1>1, <2>2 DEF SweptExact
<1> QED
  BY <1>3, <1>4

\* The sweep touches no protected node, passes over no live one, claims to be
\* complete only when it is, and prints what it deleted, whatever the protected
\* set, the size of the id space and the other users of the network.
THEOREM SweepSafe ==
  Spec => [](TypeOK /\ ProtectedUntouched /\ WalkedIsClean /\ CompleteIsClean /\ SweptExact)
<1>1. IInv => TypeOK /\ ProtectedUntouched /\ WalkedIsClean
  BY DEF IInv
<1> QED
  BY <1>1, SweepInit, SweepNext, SweepPromises, PTL DEF Spec
=============================================================================
