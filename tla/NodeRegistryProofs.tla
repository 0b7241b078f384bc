------------------------- MODULE NodeRegistryProofs -------------------------
(***************************************************************************)
(* Proofs about NodeRegistry for every set of nodes and bodies and every   *)
(* number of files: the safety invariants of run "registry", by one        *)
(* inductive invariant.                                                    *)
(***************************************************************************)
EXTENDS NodeRegistry, FiniteSetTheorems, TLAPS

\* Requests are what their callers can send, and name a node where they must.
CallsWellFormed == \A c \in Caller :
  /\ call[c].op = "none" => call[c] = NoCall
  /\ call[c].op \in {"delete", "rotate"} => call[c].node \in Node
  /\ call[c].op = "create" /\ call[c].st = "SUCCESS" => call[c].node \in Node
  /\ c \in File => call[c].op \in {"none", "delete"}

\* An answer tells the truth about the network, and no two creates were
\* answered with the same node.
AnswersTrue ==
  /\ \A n \in answered : ledger[n] # "absent"
  /\ \A c \in Caller : call[c].op = "create" /\ call[c].st = "SUCCESS" =>
        ledger[call[c].node] # "absent" /\ call[c].node \notin answered
  /\ \A c, d \in Caller :
        /\ call[c].op = "create" /\ call[c].st = "SUCCESS"
        /\ call[d].op = "create" /\ call[d].st = "SUCCESS"
        /\ call[c].node = call[d].node
        => c = d
  /\ \A c \in Caller : call[c].op = "delete" /\ Gone(call[c].st) =>
        ledger[call[c].node] = "deleted"

\* A drain exists from its after() hook to its line.
DrainPhases ==
  /\ \A f \in File : drain[f] # "running" => remaining[f] = {} /\ call[f] = NoCall
  /\ \A f \in File : f > file => drain[f] = "idle"
  /\ phase = "tests" => drain[file] = "idle"

HeldAnswered == Held \cup Failed \subseteq answered

\* The inductive invariant.
IInv ==
  /\ TypeOK
  /\ CallsWellFormed
  /\ AnswersTrue
  /\ DrainPhases
  /\ HeldAnswered
  /\ HeldOnce
  /\ SettledNodesAreGone
  /\ CountsExact

\* What a step does to the accounts: nothing, one node more to hold, or one
\* node settled; and a line, if one is written, takes all counters with it.
AccountsMove ==
  /\ \/ UNCHANGED <<Held, Failed, answered>>
     \/ \E n \in Node \ answered :
          Held' = Held \cup {n} /\ answered' = answered \cup {n} /\ UNCHANGED Failed
     \/ \E n \in Held : /\ Held' = Held \ {n} /\ UNCHANGED answered
                        /\ Failed' \in {Failed, Failed \cup {n}}
  /\ UNCHANGED published \/ counters' = ZeroCounters

-----------------------------------------------------------------------------
\* Answered nodes and the parts they divide into are finite.
LEMMA FiniteParts ==
  ASSUME TypeOK
  PROVE  /\ IsFiniteSet(answered) /\ IsFiniteSet(Settled) /\ IsFiniteSet(Failed)
         /\ trackedNodes \subseteq Node /\ Failed \subseteq Node
         /\ Settled \subseteq Node
<1>1. IsFiniteSet(Node)
  BY ConstantsAssumption
<1>2. answered \subseteq Node /\ trackedNodes \subseteq Node
  BY DEF TypeOK
<1>3. Failed \subseteq Node
  BY DEF TypeOK, Failed, CounterType
<1>4. Settled \subseteq Node
  BY <1>2 DEF Settled
<1> QED
  BY <1>1, <1>2, <1>3, <1>4, FS_Subset

\* The sums the properties are about are sums of numbers.
LEMMA SumType ==
  ASSUME NEW a \in CounterType, NEW b \in CounterType
  PROVE  AddCounters(a, b) \in CounterType
BY DEF AddCounters, CounterType

\* A step that leaves the registry and what the drains hold alone keeps the
\* accounts.
LEMMA AccountsUnchanged ==
  ASSUME HeldAnswered, HeldOnce, CountsExact,
         UNCHANGED registry, UNCHANGED remaining,
         \A f \in File : call'[f].node = call[f].node
  PROVE  /\ HeldAnswered' /\ HeldOnce' /\ CountsExact'
         /\ Settled' = Settled
         /\ AccountsMove
<1>1. \A f \in File : Pending(f)' = Pending(f)
  BY DEF Pending
<1>2. Held' = Held
  BY <1>1 DEF Held, registry
<1>3. Failed' = Failed /\ Total' = Total
  BY DEF Failed, Total, registry, AddCounters
<1>4. Settled' = Settled
  BY <1>2, <1>3 DEF Settled, registry
<1>5. AccountsMove
  BY <1>2, <1>3 DEF AccountsMove, registry
<1> QED
  BY <1>1, <1>2, <1>3, <1>4, <1>5 DEF HeldAnswered, HeldOnce, CountsExact, registry

-----------------------------------------------------------------------------
\* The inductive invariant holds of a worker that has not started.
THEOREM InitIInv == Init => IInv
<1> SUFFICES ASSUME Init PROVE IInv
  OBVIOUS
<1>1. \A f \in File : call[f] = NoCall /\ remaining[f] = {} /\ Pending(f) = {}
  BY DEF Init, Pending, NoCall, Caller
<1>2. Held = {} /\ Failed = {} /\ Settled = {}
  BY <1>1 DEF Held, Failed, Settled, Init, ZeroCounters
<1>3. TypeOK
  BY ConstantsAssumption DEF Init, TypeOK, NoCall, CallType, Outcome, File,
     CounterType, ZeroCounters
<1>4. CallsWellFormed /\ AnswersTrue
  BY DEF Init, CallsWellFormed, AnswersTrue, NoCall, Gone
<1>5. DrainPhases
  BY <1>1, ConstantsAssumption DEF Init, DrainPhases, File
<1>6. HeldAnswered /\ SettledNodesAreGone
  BY <1>2 DEF HeldAnswered, SettledNodesAreGone
<1>7. HeldOnce
  BY <1>1, <1>2, ConstantsAssumption
  DEF HeldOnce, Init, NoCall, ZeroCounters
<1>8. CountsExact
  <2>1. Cardinality({}) = 0
    BY FS_EmptySet
  <2>2. answered = {}
    BY DEF Init
  <2> QED
    BY <2>1, <2>2, <1>2 DEF CountsExact, Total, AddCounters, Init, ZeroCounters
<1> QED
  BY <1>3, <1>4, <1>5, <1>6, <1>7, <1>8 DEF IInv

-----------------------------------------------------------------------------
\* Steps of the runner alone.
LEMMA QuietStep ==
  ASSUME IInv, UNCHANGED <<network, call, registry, drains>>, TypeOK', DrainPhases'
  PROVE  IInv' /\ AccountsMove
<1>1. CallsWellFormed' /\ AnswersTrue'
  BY DEF IInv, CallsWellFormed, AnswersTrue, network, registry
<1>2. HeldAnswered' /\ HeldOnce' /\ CountsExact' /\ Settled' = Settled /\ AccountsMove
  BY AccountsUnchanged DEF IInv, drains
<1>3. SettledNodesAreGone'
  BY <1>2 DEF IInv, SettledNodesAreGone, network
<1> QED
  BY <1>1, <1>2, <1>3 DEF IInv

\* Steps that send, execute or fail a request.
LEMMA RequestStep ==
  ASSUME IInv, UNCHANGED <<runner, registry, drains>>,
         TypeOK', CallsWellFormed', AnswersTrue',
         \A f \in File : call'[f].node = call[f].node,
         \A f \in File : call[f] = NoCall => call'[f] = NoCall,
         \A n \in Node : ledger[n] = "deleted" => ledger'[n] = "deleted"
  PROVE  IInv' /\ AccountsMove
<1>1. HeldAnswered' /\ HeldOnce' /\ CountsExact' /\ Settled' = Settled /\ AccountsMove
  BY AccountsUnchanged DEF IInv, drains
<1>2. SettledNodesAreGone'
  BY <1>1, FiniteParts DEF IInv, SettledNodesAreGone
<1>3. DrainPhases'
  BY DEF IInv, DrainPhases, runner, drains
<1> QED
  BY <1>1, <1>2, <1>3 DEF IInv

\* The runner's steps, StartTest to Terminate, move no node and no count.
LEMMA RunnerSteps ==
  ASSUME IInv,
         \/ \E b \in Body : StartTest(b) \/ EndBody(b)
         \/ TimeOutTest \/ EndHook \/ TimeOutHook \/ NextFile \/ Terminate
         \/ UNCHANGED vars
  PROVE  IInv' /\ AccountsMove
<1>1. ASSUME NEW b \in Body, StartTest(b) PROVE IInv' /\ AccountsMove
  <2>1. TypeOK'
    BY <1>1, ConstantsAssumption
    DEF IInv, TypeOK, StartTest, network, registry, drains, File
  <2>2. DrainPhases'
    BY <1>1 DEF IInv, DrainPhases, StartTest, drains
  <2> QED
    BY <1>1, <2>1, <2>2, QuietStep DEF StartTest
<1>2. ASSUME NEW b \in Body, EndBody(b) PROVE IInv' /\ AccountsMove
  <2>1. TypeOK'
    BY <1>2 DEF IInv, TypeOK, EndBody, network, registry, drains
  <2>2. DrainPhases'
    BY <1>2 DEF IInv, DrainPhases, EndBody, drains
  <2> QED
    BY <1>2, <2>1, <2>2, QuietStep DEF EndBody
<1>3. CASE TimeOutTest \/ EndHook \/ TimeOutHook \/ Terminate
  <2>1. TypeOK'
    BY <1>3 DEF IInv, TypeOK, TimeOutTest, EndHook, TimeOutHook, Terminate,
       network, registry, drains
  <2>2. DrainPhases'
    BY <1>3 DEF IInv, DrainPhases, TimeOutTest, EndHook, TimeOutHook,
       Terminate, drains
  <2>3. UNCHANGED <<network, call, registry, drains>>
    BY <1>3 DEF TimeOutTest, EndHook, TimeOutHook, Terminate
  <2> QED
    BY <2>1, <2>2, <2>3, QuietStep
<1>4. CASE NextFile
  <2>1. TypeOK'
    BY <1>4, ConstantsAssumption
    DEF IInv, TypeOK, NextFile, network, registry, drains, File
  <2>2. DrainPhases'
    BY <1>4, ConstantsAssumption
    DEF IInv, TypeOK, DrainPhases, NextFile, drains, File
  <2> QED
    BY <1>4, <2>1, <2>2, QuietStep DEF NextFile
<1>5. CASE UNCHANGED vars
  <2>1. TypeOK' /\ DrainPhases'
    BY <1>5 DEF IInv, TypeOK, DrainPhases, vars, network, registry, drains, runner
  <2> QED
    BY <1>5, <2>1, QuietStep DEF vars
<1> QED
  BY <1>1, <1>2, <1>3, <1>4, <1>5

\* A body's new request names nothing that is due in a drain.
LEMMA SendSteps ==
  ASSUME IInv, NEW b \in Body,
         SendCreate(b) \/ \E n \in Node : SendOn(b, "delete", n) \/ SendOn(b, "rotate", n)
  PROVE  IInv' /\ AccountsMove
<1>1. PICK r : /\ call' = [call EXCEPT ![b] = r]
               /\ \/ r = Request("create", NoNode)
                  \/ \E n \in Node : r \in {Request("delete", n), Request("rotate", n)}
  BY DEF SendCreate, SendOn
<1>2. UNCHANGED <<network, runner, registry, drains>>
  BY DEF SendCreate, SendOn
<1>3. r \in CallType /\ r.st = "sent"
  BY <1>1 DEF Request, CallType, Outcome
<1>4. b \in Caller /\ b \notin File /\ call \in [Caller -> CallType]
  BY ConstantsAssumption DEF Caller, File, IInv, TypeOK
<1>5. TypeOK'
  BY <1>1, <1>2, <1>3, <1>4
  DEF IInv, TypeOK, network, runner, registry, drains
<1>6. CallsWellFormed'
  BY <1>1, <1>4 DEF IInv, CallsWellFormed, Request
<1>7. AnswersTrue'
  BY <1>1, <1>2, <1>3, <1>4
  DEF IInv, AnswersTrue, Gone, network, registry
<1>8. \A f \in File : call'[f] = call[f]
  BY <1>1, <1>4 DEF Caller
<1> QED
  BY <1>2, <1>5, <1>6, <1>7, <1>8, RequestStep DEF network

\* The server assigns a node id no answer has carried yet.
LEMMA ExecuteCreateStep ==
  ASSUME IInv, NEW b \in Body, NEW n \in Node, ExecuteCreate(b, n)
  PROVE  IInv' /\ AccountsMove
<1> DEFINE r == [op |-> "create", node |-> n, st |-> "SUCCESS"]
<1>1. b \in Caller /\ b \notin File /\ call \in [Caller -> CallType]
  BY ConstantsAssumption DEF Caller, File, IInv, TypeOK
<1>2. /\ call' = [call EXCEPT ![b] = r]
      /\ ledger \in [Node -> {"absent", "live", "deleted"}]
      /\ ledger[n] = "absent" /\ ledger' = [ledger EXCEPT ![n] = "live"]
      /\ UNCHANGED <<rotated, runner, registry, drains>>
  BY DEF ExecuteCreate, Answered, Request, IInv, TypeOK
<1>3. r \in CallType
  BY DEF CallType, Outcome
<1>4. home' \in [Node -> 0..MaxFile]
  BY DEF ExecuteCreate, IInv, TypeOK
<1>5. TypeOK'
  BY <1>1, <1>2, <1>3, <1>4 DEF IInv, TypeOK, runner, registry, drains
<1>6. CallsWellFormed'
  BY <1>1, <1>2 DEF IInv, CallsWellFormed
<1>7. n \notin answered
  BY <1>2 DEF IInv, AnswersTrue
<1>8. \A c \in Caller : c # b => call'[c] = call[c]
  BY <1>1, <1>2
<1>9. call'[b] = r
  BY <1>1, <1>2
<1>10. AnswersTrue'
  <2>1. \A m \in Node : ledger[m] # "absent" => m # n /\ ledger'[m] = ledger[m]
    BY <1>2
  <2>2. \A m \in answered : ledger'[m] # "absent"
    BY <2>1, <1>2 DEF IInv, AnswersTrue, TypeOK
  <2>3. ledger'[n] # "absent"
    BY <1>2
  <2>4. ASSUME NEW c \in Caller, c # b, call[c].op = "create", call[c].st = "SUCCESS"
        PROVE  /\ ledger'[call[c].node] # "absent" /\ call[c].node \notin answered
               /\ call[c].node # n
    BY <2>1, <2>4 DEF IInv, AnswersTrue, CallsWellFormed
  <2>5. ASSUME NEW c \in Caller, c # b, call[c].op = "delete", Gone(call[c].st)
        PROVE  ledger'[call[c].node] = "deleted"
    BY <2>1, <2>5 DEF IInv, AnswersTrue, CallsWellFormed
  <2>6. answered' = answered
    BY <1>2 DEF registry
  <2> QED
    BY <1>7, <1>8, <1>9, <2>2, <2>3, <2>4, <2>5, <2>6 DEF IInv, AnswersTrue
<1> QED
  BY <1>1, <1>2, <1>5, <1>6, <1>8, <1>10, RequestStep DEF Caller

\* Answers to requests about a node that exists.
LEMMA ExecuteDeleteStep ==
  ASSUME IInv, NEW c \in Caller, NEW n \in Node, ExecuteDelete(c, n)
  PROVE  IInv' /\ AccountsMove
<1>1. PICK st \in {"SUCCESS", "NODE_DELETED"} :
        /\ call' = [call EXCEPT ![c] = Answered(@, st)]
        /\ ledger' \in {ledger, [ledger EXCEPT ![n] = "deleted"]}
        /\ ledger'[n] = "deleted" /\ ledger[n] # "absent"
  BY DEF ExecuteDelete, IInv, TypeOK
<1>2. /\ call[c] = Request("delete", n)
      /\ call \in [Caller -> CallType]
      /\ UNCHANGED <<rotated, home, runner, registry, drains>>
  BY DEF ExecuteDelete, IInv, TypeOK
<1>3. /\ call'[c] = [op |-> "delete", node |-> n, st |-> st]
      /\ \A d \in Caller : d # c => call'[d] = call[d]
      /\ call' \in [Caller -> CallType]
  BY <1>1, <1>2 DEF Request, Answered, CallType, Outcome
<1>4. \A m \in Node : ledger[m] # "absent" =>
         ledger'[m] # "absent" /\ (ledger[m] = "deleted" => ledger'[m] = "deleted")
  BY <1>1 DEF IInv, TypeOK
<1>5. TypeOK'
  BY <1>1, <1>2, <1>3 DEF IInv, TypeOK, runner, registry, drains
<1>6. CallsWellFormed'
  BY <1>2, <1>3 DEF IInv, CallsWellFormed, Request
<1>7. AnswersTrue'
  <2>1. answered' = answered /\ answered \subseteq Node
    BY <1>2 DEF registry, IInv, TypeOK
  <2>2. \A m \in answered : ledger'[m] # "absent"
    BY <1>4, <2>1 DEF IInv, AnswersTrue
  <2>3. ASSUME NEW d \in Caller, call[d].op = "create", call[d].st = "SUCCESS"
        PROVE  ledger'[call[d].node] # "absent" /\ call[d].node \notin answered
    BY <1>4, <2>3 DEF IInv, AnswersTrue, CallsWellFormed
  <2>4. ASSUME NEW d \in Caller, call[d].op = "delete", Gone(call[d].st)
        PROVE  ledger'[call[d].node] = "deleted"
    BY <1>4, <2>4 DEF IInv, AnswersTrue, CallsWellFormed
  <2> QED
    BY <1>1, <1>3, <2>1, <2>2, <2>3, <2>4 DEF IInv, AnswersTrue
<1>8. \A f \in File : call'[f].node = call[f].node
                     /\ (call[f] = NoCall => call'[f] = NoCall)
  BY <1>2, <1>3 DEF Request, NoCall, Caller
<1>9. \A m \in Node : ledger[m] = "deleted" => ledger'[m] = "deleted"
  BY <1>4
<1> QED
  BY <1>2, <1>5, <1>6, <1>7, <1>8, <1>9, RequestStep

\* updateNode and failing requests move no node in the registry.
LEMMA RotateAndFailSteps ==
  ASSUME IInv, NEW c \in Caller,
         (c \in Body /\ \E n \in Node : ExecuteRotate(c, n)) \/ FailCall(c)
  PROVE  IInv' /\ AccountsMove
<1>1. PICK st \in {"SUCCESS", "ERROR"} :
        /\ call' = [call EXCEPT ![c] = Answered(@, st)]
        /\ call[c] # NoCall
        /\ st = "ERROR" \/ call[c].op = "rotate"
  <2>1. CASE FailCall(c)
    BY <2>1 DEF FailCall
  <2>2. ASSUME NEW n \in Node, ExecuteRotate(c, n)
        PROVE  /\ call' = [call EXCEPT ![c] = Answered(@, "SUCCESS")]
               /\ call[c].op = "rotate"
    BY <2>2 DEF ExecuteRotate, Request
  <2> QED
    BY <2>1, <2>2 DEF NoCall
<1>2. /\ rotated' \subseteq Node
      /\ call \in [Caller -> CallType]
      /\ UNCHANGED <<ledger, home, runner, registry, drains>>
  BY DEF ExecuteRotate, FailCall, network, IInv, TypeOK
<1>3. /\ call'[c] = [op |-> call[c].op, node |-> call[c].node, st |-> st]
      /\ \A d \in Caller : d # c => call'[d] = call[d]
      /\ call' \in [Caller -> CallType]
  BY <1>1, <1>2 DEF Answered, CallType, Outcome
<1>4. TypeOK'
  BY <1>2, <1>3 DEF IInv, TypeOK, runner, registry, drains
<1>5. CallsWellFormed'
  BY <1>1, <1>2, <1>3 DEF IInv, CallsWellFormed
<1>6. AnswersTrue'
  BY <1>1, <1>2, <1>3 DEF IInv, AnswersTrue, Gone, registry
<1>7. \A f \in File : call'[f].node = call[f].node
                     /\ (call[f] = NoCall => call'[f] = NoCall)
  BY <1>1, <1>3 DEF Caller
<1> QED
  BY <1>2, <1>4, <1>5, <1>6, <1>7, RequestStep

-----------------------------------------------------------------------------
\* What is the same in the three ways a test's answer is taken.
LEMMA DoneFrame ==
  ASSUME IInv, NEW b \in Body, JSONRPCRequestDone(b)
  PROVE  /\ b \in Caller /\ b \notin File
         /\ call' = [call EXCEPT ![b] = NoCall]
         /\ UNCHANGED <<network, runner, published, drains>>
         /\ \A f \in File : call'[f] = call[f] /\ Pending(f)' = Pending(f)
         /\ call' \in [Caller -> CallType]
         /\ CallsWellFormed' /\ DrainPhases'
         /\ \A c \in Caller : c # b => call'[c] = call[c]
         /\ call'[b].op = "none"
<1>1. b \in Caller /\ b \notin File /\ call \in [Caller -> CallType]
  BY ConstantsAssumption DEF Caller, File, IInv, TypeOK
<1>2. /\ call' = [call EXCEPT ![b] = NoCall]
      /\ UNCHANGED <<network, runner, published, drains>>
  BY DEF JSONRPCRequestDone
<1>3. NoCall \in CallType
  BY DEF NoCall, CallType, Outcome
<1>4. call'[b] = NoCall /\ \A c \in Caller : c # b => call'[c] = call[c]
  BY <1>1, <1>2
<1>5. \A f \in File : call'[f] = call[f]
  BY <1>1, <1>4 DEF Caller
<1>6. \A f \in File : Pending(f)' = Pending(f)
  BY <1>2, <1>5 DEF Pending, drains
<1>7. CallsWellFormed'
  BY <1>1, <1>4 DEF IInv, CallsWellFormed, NoCall
<1>8. DrainPhases'
  BY <1>2, <1>5 DEF IInv, DrainPhases, runner, drains
<1> QED
  BY <1>1, <1>2, <1>3, <1>4, <1>5, <1>6, <1>7, <1>8 DEF NoCall

\* trackNode takes a node in that was in no other place and counts it once.
LEMMA TrackStep ==
  ASSUME IInv, NEW b \in Body, JSONRPCRequestDone(b),
         call[b].op = "create", call[b].st = "SUCCESS", trackNode(call[b].node)
  PROVE  IInv' /\ AccountsMove
<1> DEFINE n == call[b].node
<1>1. n \in Node /\ n \notin answered /\ ledger[n] # "absent"
  BY DoneFrame DEF IInv, CallsWellFormed, AnswersTrue
<1>2. /\ trackedNodes' = trackedNodes \cup {n}
      /\ counters' = [counters EXCEPT !.created = @ + 1]
      /\ answered' = answered \cup {n}
      /\ published' = published /\ ledger' = ledger
      /\ counters \in CounterType /\ published \in CounterType
  BY DoneFrame DEF trackNode, network, IInv, TypeOK
<1>3. counters' \in CounterType /\ counters'.cleanupFailedIds = counters.cleanupFailedIds
  BY <1>2 DEF CounterType
<1>4. TypeOK'
  BY <1>1, <1>2, <1>3, DoneFrame DEF IInv, TypeOK, network, runner, drains
<1>5. Held' = Held \cup {n} /\ Failed' = Failed /\ n \notin Held /\ n \notin Failed
  BY <1>1, <1>2, <1>3, DoneFrame DEF Held, Failed, IInv, HeldAnswered
<1>6. Settled' = Settled
  BY <1>1, <1>2, <1>5 DEF Settled
<1>7. HeldAnswered' /\ SettledNodesAreGone'
  BY <1>2, <1>5, <1>6 DEF IInv, HeldAnswered, SettledNodesAreGone
<1>8. AnswersTrue'
  BY <1>1, <1>2, DoneFrame DEF IInv, AnswersTrue, Gone
<1>9. HeldOnce'
  <2>1. \A f \in File : n \notin Pending(f)
    BY <1>5 DEF Held
  <2> QED
    BY <2>1, <1>2, <1>3, <1>5, DoneFrame DEF IInv, HeldOnce, drains
<1>10. CountsExact'
  <2>1. Cardinality(answered') = Cardinality(answered) + 1
    BY <1>1, <1>2, FiniteParts, FS_AddElement DEF IInv
  <2>2. /\ counters'.created = counters.created + 1
        /\ counters'.deletedByTests = counters.deletedByTests
        /\ counters'.cleanupDeleted = counters.cleanupDeleted
        /\ counters'.cleanupFailed = counters.cleanupFailed
    BY <1>2 DEF CounterType
  <2>3. Total'.created = Total.created + 1 /\ Total'.cleanupFailed = Total.cleanupFailed
        /\ Total'.deletedByTests + Total'.cleanupDeleted
             = Total.deletedByTests + Total.cleanupDeleted
    BY <2>2, <1>2 DEF Total, AddCounters, CounterType
  <2> QED
    BY <2>1, <2>3, <1>5, <1>6 DEF IInv, CountsExact
<1>11. AccountsMove
  BY <1>1, <1>2, <1>5 DEF AccountsMove
<1> QED
  BY <1>4, <1>7, <1>8, <1>9, <1>10, <1>11, DoneFrame DEF IInv

\* A node that leaves what is held and is gone from the network is settled,
\* and one deletion is counted for it.
LEMMA SettleCounts ==
  ASSUME TypeOK, TypeOK', CountsExact, HeldAnswered, SettledNodesAreGone,
         NEW n \in Held, answered' = answered, ledger' = ledger,
         Held' = Held \ {n}, Failed' = Failed, n \notin Failed, ledger[n] = "deleted",
         Total'.created = Total.created,
         Total'.cleanupFailed = Total.cleanupFailed,
         Total'.deletedByTests + Total'.cleanupDeleted
           = Total.deletedByTests + Total.cleanupDeleted + 1
  PROVE  CountsExact' /\ SettledNodesAreGone' /\ HeldAnswered'
<1>1. n \in answered /\ n \notin Settled
  BY DEF HeldAnswered, Settled
<1>2. Settled' = Settled \cup {n}
  BY <1>1 DEF Settled
<1>3. Cardinality(Settled') = Cardinality(Settled) + 1
  BY <1>1, <1>2, FiniteParts, FS_AddElement
<1>4. CountsExact'
  BY <1>3 DEF CountsExact
<1> QED
  BY <1>2, <1>4 DEF SettledNodesAreGone, HeldAnswered

\* untrackNode counts a deletion just when it settles a node.
LEMMA UntrackStep ==
  ASSUME IInv, NEW b \in Body, JSONRPCRequestDone(b),
         call[b].op = "delete", call[b].st = "SUCCESS", untrackNode(call[b].node)
  PROVE  IInv' /\ AccountsMove
<1> DEFINE n == call[b].node
<1>1. n \in Node /\ ledger[n] = "deleted"
  BY DoneFrame DEF IInv, CallsWellFormed, AnswersTrue, Gone
<1>2. /\ trackedNodes' = trackedNodes \ {n}
      /\ counters' = IF n \in trackedNodes
                     THEN [counters EXCEPT !.deletedByTests = @ + 1] ELSE counters
      /\ answered' = answered /\ published' = published /\ ledger' = ledger
      /\ counters \in CounterType /\ published \in CounterType
  BY DoneFrame DEF untrackNode, network, IInv, TypeOK
<1>3. counters' \in CounterType /\ counters'.cleanupFailedIds = counters.cleanupFailedIds
  BY <1>2 DEF CounterType
<1>4. TypeOK'
  BY <1>2, <1>3, DoneFrame DEF IInv, TypeOK, network, runner, drains
<1>5. AnswersTrue'
  BY <1>2, DoneFrame DEF IInv, AnswersTrue, Gone
<1>6. Failed' = Failed
  BY <1>2, <1>3 DEF Failed
<1>7. HeldOnce'
  BY <1>2, <1>3, <1>6, DoneFrame DEF IInv, HeldOnce, drains
<1>8. CASE n \in trackedNodes
  <2>1. n \in Held /\ n \notin Failed /\ Held' = Held \ {n}
    BY <1>2, <1>8, DoneFrame DEF IInv, HeldOnce, Held
  <2>2. /\ Total'.created = Total.created
        /\ Total'.cleanupFailed = Total.cleanupFailed
        /\ Total'.deletedByTests + Total'.cleanupDeleted
             = Total.deletedByTests + Total.cleanupDeleted + 1
    BY <1>2, <1>8 DEF Total, AddCounters, CounterType
  <2>3. CountsExact' /\ SettledNodesAreGone' /\ HeldAnswered'
    BY <1>1, <1>2, <1>4, <1>6, <2>1, <2>2, SettleCounts DEF IInv
  <2>4. AccountsMove
    BY <1>2, <1>6, <2>1 DEF AccountsMove
  <2> QED
    BY <1>4, <1>5, <1>7, <2>3, <2>4, DoneFrame DEF IInv
<1>9. CASE n \notin trackedNodes
  <2>1. UNCHANGED registry /\ UNCHANGED remaining
    BY <1>2, <1>9, DoneFrame DEF registry, drains
  <2>2. CountsExact' /\ HeldAnswered' /\ Settled' = Settled /\ AccountsMove
    BY <2>1, DoneFrame, AccountsUnchanged DEF IInv
  <2> QED
    BY <1>2, <1>4, <1>5, <1>7, <2>2, DoneFrame DEF IInv, SettledNodesAreGone
<1> QED
  BY <1>8, <1>9

\* JSONRPCRequest after its await: the three ways together.
LEMMA DoneStep ==
  ASSUME IInv, NEW b \in Body, JSONRPCRequestDone(b)
  PROVE  IInv' /\ AccountsMove
<1>1. CASE UNCHANGED <<trackedNodes, counters, answered>>
  <2>1. UNCHANGED registry /\ UNCHANGED remaining
    BY <1>1, DoneFrame DEF registry, drains
  <2>2. CountsExact' /\ HeldAnswered' /\ HeldOnce' /\ Settled' = Settled /\ AccountsMove
    BY <2>1, DoneFrame, AccountsUnchanged DEF IInv
  <2>3. SettledNodesAreGone'
    BY <2>2, DoneFrame DEF IInv, SettledNodesAreGone, network
  <2>4. TypeOK'
    BY <2>1, DoneFrame DEF IInv, TypeOK, network, runner, drains, registry
  <2>5. AnswersTrue'
    BY <1>1, DoneFrame DEF IInv, AnswersTrue, network
  <2> QED
    BY <2>2, <2>3, <2>4, <2>5, DoneFrame DEF IInv
<1> QED
  BY <1>1, TrackStep, UntrackStep DEF JSONRPCRequestDone, Created

-----------------------------------------------------------------------------
\* The loop head of a drain that holds r, with the counters at c: after it the
\* drain holds r, the other callers are untouched, and the line, written or
\* not, moves counts without changing their sum.
LEMMA DrainLoopEffect ==
  ASSUME TypeOK, DrainPhases, NEW f \in File, NEW r \in SUBSET Node,
         NEW c \in CounterType, DrainLoop(f, r, c),
         r = {} => remaining[f] = {},
         published.cleanupFailedIds \cap c.cleanupFailedIds = {}
  PROVE  /\ Pending(f)' = r /\ call'[f].node \notin remaining'[f]
         /\ \A g \in File : g # f => Pending(g)' = Pending(g)
         /\ \A g \in Caller : g # f => call'[g] = call[g]
         /\ \A g \in File : g # f => remaining'[g] = remaining[g] /\ drain'[g] = drain[g]
         /\ call' \in [Caller -> CallType] /\ remaining' \in [File -> SUBSET Node]
         /\ drain' \in [File -> {"idle", "running", "done"}]
         /\ counters' \in CounterType /\ published' \in CounterType
         /\ drain'[f] # "running" => remaining'[f] = {} /\ call'[f] = NoCall
         /\ call'[f] = NoCall \/ \E n \in r : call'[f] = Request("delete", n)
         /\ Failed' = published.cleanupFailedIds \cup c.cleanupFailedIds
         /\ published'.cleanupFailedIds \cap counters'.cleanupFailedIds = {}
         /\ UNCHANGED published \/ counters' = ZeroCounters
      /\ Total'.created = published.created + c.created
         /\ Total'.cleanupFailed = published.cleanupFailed + c.cleanupFailed
         /\ Total'.deletedByTests = published.deletedByTests + c.deletedByTests
         /\ Total'.cleanupDeleted = published.cleanupDeleted + c.cleanupDeleted
<1>1. /\ f \in Caller /\ call \in [Caller -> CallType] /\ remaining \in [File -> SUBSET Node]
      /\ drain \in [File -> {"idle", "running", "done"}]
      /\ counters \in CounterType /\ published \in CounterType
  BY DEF TypeOK, Caller
<1>2. ASSUME NEW n \in r,
             call' = [call EXCEPT ![f] = Request("delete", n)],
             remaining' = [remaining EXCEPT ![f] = r \ {n}],
             drain' = [drain EXCEPT ![f] = "running"],
             counters' = c, UNCHANGED published
      PROVE  /\ Pending(f)' = r /\ call'[f].node \notin remaining'[f]
             /\ call' \in [Caller -> CallType] /\ remaining' \in [File -> SUBSET Node]
             /\ drain' \in [File -> {"idle", "running", "done"}] /\ drain'[f] = "running"
             /\ call'[f] = Request("delete", n)
             /\ \A g \in Caller : g # f => call'[g] = call[g]
             /\ \A g \in File : g # f => remaining'[g] = remaining[g] /\ drain'[g] = drain[g]
  <2>1. Request("delete", n) \in CallType /\ n # NoNode
    BY ConstantsAssumption DEF Request, CallType, Outcome
  <2>2. call'[f] = Request("delete", n) /\ remaining'[f] = r \ {n}
    BY <1>1, <1>2
  <2>3. Pending(f)' = r
    BY <2>1, <2>2 DEF Pending, Request
  <2>4. call'[f].node \notin remaining'[f]
    BY <2>2 DEF Request
  <2> QED
    BY <1>1, <1>2, <2>1, <2>2, <2>3, <2>4
<1>3. ASSUME r = {},
             call' = [call EXCEPT ![f] = NoCall],
             drain' = [drain EXCEPT ![f] = "done"],
             UNCHANGED remaining, WriteLine(c)
      PROVE  /\ Pending(f)' = r /\ call'[f].node \notin remaining'[f]
             /\ call' \in [Caller -> CallType] /\ remaining' \in [File -> SUBSET Node]
             /\ drain' \in [File -> {"idle", "running", "done"}]
             /\ call'[f] = NoCall /\ remaining'[f] = {}
             /\ \A g \in Caller : g # f => call'[g] = call[g]
             /\ \A g \in File : g # f => remaining'[g] = remaining[g] /\ drain'[g] = drain[g]
  <2>1. NoCall \in CallType
    BY DEF NoCall, CallType, Outcome
  <2>2. call'[f] = NoCall /\ remaining'[f] = {}
    BY <1>1, <1>3
  <2>3. Pending(f)' = r /\ call'[f].node \notin remaining'[f]
    BY <1>3, <2>2 DEF Pending, NoCall
  <2> QED
    BY <1>1, <1>3, <2>1, <2>2, <2>3
<1>4. (counters' = c /\ published' = published) \/ WriteLine(c)
  BY DEF DrainLoop
<1>5. /\ counters' \in CounterType /\ published' \in CounterType
      /\ published'.cleanupFailedIds \cup counters'.cleanupFailedIds
            = published.cleanupFailedIds \cup c.cleanupFailedIds
      /\ published'.cleanupFailedIds \cap counters'.cleanupFailedIds = {}
      /\ published'.created + counters'.created = published.created + c.created
      /\ published'.cleanupFailed + counters'.cleanupFailed
            = published.cleanupFailed + c.cleanupFailed
      /\ published'.deletedByTests + counters'.deletedByTests
            = published.deletedByTests + c.deletedByTests
      /\ published'.cleanupDeleted + counters'.cleanupDeleted
            = published.cleanupDeleted + c.cleanupDeleted
  <2>1. CASE counters' = c /\ published' = published
    BY <1>1, <2>1
  <2>2. CASE published' = AddCounters(published, c) /\ counters' = ZeroCounters
    <3>1. published' \in CounterType
      BY <1>1, <2>2, SumType
    <3>2. ZeroCounters \in CounterType
      BY DEF ZeroCounters, CounterType
    <3> QED
      BY <1>1, <2>2, <3>1, <3>2 DEF AddCounters, ZeroCounters, CounterType
  <2> QED
    BY <1>4, <2>1, <2>2 DEF WriteLine
<1>6. \A g \in File : g # f => Pending(g)' = Pending(g)
  <2>1. \A g \in File : g # f => call'[g] = call[g] /\ remaining'[g] = remaining[g]
    BY <1>2, <1>3 DEF DrainLoop, Caller
  <2> QED
    BY <2>1 DEF Pending
<1>7. Failed' = published'.cleanupFailedIds \cup counters'.cleanupFailedIds
  BY DEF Failed
<1>8. /\ Total'.created = published'.created + counters'.created
      /\ Total'.cleanupFailed = published'.cleanupFailed + counters'.cleanupFailed
      /\ Total'.deletedByTests = published'.deletedByTests + counters'.deletedByTests
      /\ Total'.cleanupDeleted = published'.cleanupDeleted + counters'.cleanupDeleted
  BY DEF Total, AddCounters
<1>9. UNCHANGED published \/ counters' = ZeroCounters
  BY <1>4 DEF WriteLine
<1> QED
  BY <1>2, <1>3, <1>5, <1>6, <1>7, <1>8, <1>9 DEF DrainLoop

\* A drain's next request, or none, is well formed and not answered yet.
LEMMA DrainRequest ==
  ASSUME IInv, NEW f \in File, NEW r \in SUBSET Node,
         \A g \in Caller : g # f => call'[g] = call[g],
         call'[f] = NoCall \/ \E n \in r : call'[f] = Request("delete", n),
         answered' = answered, ledger' = ledger
  PROVE  CallsWellFormed' /\ AnswersTrue'
<1>1. /\ call'[f].op \in {"none", "delete"} /\ call'[f].st = "sent"
      /\ call'[f].op = "none" => call'[f] = NoCall
      /\ call'[f].op = "delete" => call'[f].node \in Node
  <2>1. CASE call'[f] = NoCall
    BY <2>1 DEF NoCall
  <2>2. ASSUME NEW n \in r, call'[f] = Request("delete", n)
        PROVE  call'[f].op = "delete" /\ call'[f].st = "sent" /\ call'[f].node \in Node
    BY <2>2 DEF Request
  <2> QED
    BY <2>1, <2>2
<1>2. CallsWellFormed'
  BY <1>1 DEF IInv, CallsWellFormed
<1>3. AnswersTrue'
  BY <1>1 DEF IInv, AnswersTrue, Gone
<1> QED
  BY <1>2, <1>3

\* after(): the snapshot moves every tracked node to the drain.
LEMMA DrainStartStep ==
  ASSUME IInv, deleteTrackedNodes
  PROVE  IInv' /\ AccountsMove
<1>1. /\ file \in File /\ trackedNodes \in SUBSET Node /\ counters \in CounterType
      /\ remaining[file] = {} /\ call[file] = NoCall
      /\ Pending(file) = {}
  BY DEF IInv, TypeOK, DrainPhases, deleteTrackedNodes, Pending, NoCall
<1>2. /\ phase' = "after" /\ trackedNodes' = {} /\ DrainLoop(file, trackedNodes, counters)
      /\ UNCHANGED <<network, file, current, body, bodyFile, answered>>
  BY DEF deleteTrackedNodes
<1>3. published.cleanupFailedIds \cap counters.cleanupFailedIds = {}
  BY DEF IInv, HeldOnce
<1>4. /\ Pending(file)' = trackedNodes /\ call'[file].node \notin remaining'[file]
      /\ \A g \in File : g # file => Pending(g)' = Pending(g)
      /\ \A g \in Caller : g # file => call'[g] = call[g]
      /\ \A g \in File : g # file => remaining'[g] = remaining[g] /\ drain'[g] = drain[g]
      /\ call' \in [Caller -> CallType] /\ remaining' \in [File -> SUBSET Node]
      /\ drain' \in [File -> {"idle", "running", "done"}]
      /\ counters' \in CounterType /\ published' \in CounterType
      /\ drain'[file] # "running" => remaining'[file] = {} /\ call'[file] = NoCall
      /\ call'[file] = NoCall \/ \E n \in trackedNodes : call'[file] = Request("delete", n)
      /\ Failed' = published.cleanupFailedIds \cup counters.cleanupFailedIds
      /\ published'.cleanupFailedIds \cap counters'.cleanupFailedIds = {}
      /\ UNCHANGED published \/ counters' = ZeroCounters
      /\ Total'.created = published.created + counters.created
      /\ Total'.cleanupFailed = published.cleanupFailed + counters.cleanupFailed
      /\ Total'.deletedByTests = published.deletedByTests + counters.deletedByTests
      /\ Total'.cleanupDeleted = published.cleanupDeleted + counters.cleanupDeleted
  BY <1>1, <1>2, <1>3, DrainLoopEffect DEF IInv
<1>5. TypeOK'
  BY <1>2, <1>4 DEF IInv, TypeOK, network
<1>6. CallsWellFormed' /\ AnswersTrue'
  BY <1>1, <1>2, <1>4, DrainRequest DEF network
<1>7. DrainPhases'
  BY <1>1, <1>2, <1>4 DEF IInv, DrainPhases, File, Caller
<1>8. Held' = Held /\ Failed' = Failed
  BY <1>1, <1>2, <1>4 DEF Held, Failed
<1>9. Settled' = Settled /\ answered' = answered /\ ledger' = ledger
  BY <1>2, <1>8 DEF Settled, network
<1>10. HeldAnswered' /\ SettledNodesAreGone'
  BY <1>8, <1>9 DEF IInv, HeldAnswered, SettledNodesAreGone
<1>11. HeldOnce'
  BY <1>1, <1>2, <1>4, <1>8, <1>9 DEF IInv, HeldOnce, Caller
<1>12. CountsExact'
  <2>1. /\ Total'.created = Total.created /\ Total'.cleanupFailed = Total.cleanupFailed
        /\ Total'.deletedByTests = Total.deletedByTests
        /\ Total'.cleanupDeleted = Total.cleanupDeleted
    BY <1>4 DEF Total, AddCounters
  <2> QED
    BY <2>1, <1>8, <1>9 DEF IInv, CountsExact
<1>13. AccountsMove
  BY <1>4, <1>8, <1>9 DEF AccountsMove
<1> QED
  BY <1>5, <1>6, <1>7, <1>10, <1>11, <1>12, <1>13 DEF IInv

\* The loop of deleteTrackedNodes settles or fails the node it awaited.
LEMMA DrainStepStep ==
  ASSUME IInv, NEW f \in File, DrainStep(f)
  PROVE  IInv' /\ AccountsMove
<1> DEFINE n == call[f].node
           st == call[f].st
           r == remaining[f]
           c == CountAnswer(n, st)
<1>1. /\ f \in Caller /\ call[f].op = "delete" /\ n \in Node /\ n # NoNode
      /\ st # "sent" /\ drain[f] = "running" /\ r \in SUBSET Node
  BY ConstantsAssumption
  DEF IInv, TypeOK, DrainPhases, CallsWellFormed, DrainStep, Resumes, NoCall, Caller
<1>2. /\ Pending(f) = r \cup {n} /\ n \notin r
      /\ n \notin trackedNodes /\ n \notin Failed
      /\ \A g \in File : g # f => n \notin Pending(g)
      /\ published.cleanupFailedIds \cap counters.cleanupFailedIds = {}
  BY <1>1 DEF IInv, HeldOnce, Pending
<1>3. counters \in CounterType /\ published \in CounterType /\ trackedNodes \subseteq Node
  BY DEF IInv, TypeOK
<1>4. /\ trackedNodes' = trackedNodes /\ DrainLoop(f, r, c)
      /\ UNCHANGED <<network, runner, answered>>
  BY <1>2 DEF DrainStep
<1>5. /\ c \in CounterType
      /\ c.created = counters.created /\ c.deletedByTests = counters.deletedByTests
      /\ Gone(st) => /\ c.cleanupDeleted = counters.cleanupDeleted + 1
                     /\ c.cleanupFailed = counters.cleanupFailed
                     /\ c.cleanupFailedIds = counters.cleanupFailedIds
      /\ ~Gone(st) => /\ c.cleanupDeleted = counters.cleanupDeleted
                      /\ c.cleanupFailed = counters.cleanupFailed + 1
                      /\ c.cleanupFailedIds = counters.cleanupFailedIds \cup {n}
  BY <1>1, <1>2, <1>3 DEF CountAnswer, FailedIds, CounterType
<1>6. published.cleanupFailedIds \cap c.cleanupFailedIds = {}
  BY <1>2, <1>5 DEF Failed
<1> HIDE DEF c, r
<1>7. /\ Pending(f)' = r /\ call'[f].node \notin remaining'[f]
      /\ \A g \in File : g # f => Pending(g)' = Pending(g)
      /\ \A g \in Caller : g # f => call'[g] = call[g]
      /\ \A g \in File : g # f => remaining'[g] = remaining[g] /\ drain'[g] = drain[g]
      /\ call' \in [Caller -> CallType] /\ remaining' \in [File -> SUBSET Node]
      /\ drain' \in [File -> {"idle", "running", "done"}]
      /\ counters' \in CounterType /\ published' \in CounterType
      /\ drain'[f] # "running" => remaining'[f] = {} /\ call'[f] = NoCall
      /\ call'[f] = NoCall \/ \E m \in r : call'[f] = Request("delete", m)
      /\ Failed' = published.cleanupFailedIds \cup c.cleanupFailedIds
      /\ published'.cleanupFailedIds \cap counters'.cleanupFailedIds = {}
      /\ UNCHANGED published \/ counters' = ZeroCounters
      /\ Total'.created = published.created + c.created
      /\ Total'.cleanupFailed = published.cleanupFailed + c.cleanupFailed
      /\ Total'.deletedByTests = published.deletedByTests + c.deletedByTests
      /\ Total'.cleanupDeleted = published.cleanupDeleted + c.cleanupDeleted
  <2>1. TypeOK /\ DrainPhases /\ (r = {} => remaining[f] = {})
    BY DEF IInv, r
  <2>2. DrainLoop(f, r, c) /\ r \in SUBSET Node /\ c \in CounterType
    BY <1>1, <1>4, <1>5
  <2> QED
    BY <2>1, <2>2, <1>6, DrainLoopEffect
<1>8. TypeOK'
  BY <1>4, <1>7 DEF IInv, TypeOK, network, runner
<1>9. CallsWellFormed' /\ AnswersTrue'
  BY <1>1, <1>4, <1>7, DrainRequest DEF network
<1>10. DrainPhases'
  BY <1>1, <1>4, <1>7 DEF IInv, DrainPhases, TypeOK, runner, Caller
<1>11. Held' = Held \ {n} /\ n \in Held
  BY <1>2, <1>4, <1>7 DEF Held
<1>12. Failed' = IF Gone(st) THEN Failed ELSE Failed \cup {n}
  BY <1>5, <1>7 DEF Failed
<1>13. HeldOnce'
  <2>1. Failed' \subseteq Failed \cup {n}
    BY <1>12
  <2>2. \A g \in File : Pending(g)' \subseteq Pending(g) /\ n \notin Pending(g)'
    BY <1>2, <1>7
  <2>3. \A g \in File : call'[g].node \notin remaining'[g]
    BY <1>7 DEF IInv, HeldOnce, Caller
  <2> QED
    BY <2>1, <2>2, <2>3, <1>2, <1>4, <1>7 DEF IInv, HeldOnce
<1>14. answered' = answered /\ ledger' = ledger
  BY <1>4 DEF network
<1>15. /\ Total'.created = Total.created
       /\ Gone(st) => /\ Total'.cleanupFailed = Total.cleanupFailed
                      /\ Total'.deletedByTests + Total'.cleanupDeleted
                           = Total.deletedByTests + Total.cleanupDeleted + 1
       /\ ~Gone(st) => /\ Total'.cleanupFailed = Total.cleanupFailed + 1
                       /\ Total'.deletedByTests + Total'.cleanupDeleted
                            = Total.deletedByTests + Total.cleanupDeleted
  BY <1>3, <1>5, <1>7 DEF Total, AddCounters, CounterType
<1>a. AccountsMove
  <2>1. Failed' \in {Failed, Failed \cup {n}}
    BY <1>12
  <2> QED
    BY <2>1, <1>7, <1>11, <1>14 DEF AccountsMove
<1>16. CASE Gone(st)
  <2>1. ledger[n] = "deleted"
    BY <1>1, <1>16 DEF IInv, AnswersTrue
  <2>2. Failed' = Failed
    BY <1>12, <1>16
  <2>3. CountsExact' /\ SettledNodesAreGone' /\ HeldAnswered'
    BY <1>2, <1>8, <1>11, <1>14, <1>15, <1>16, <2>1, <2>2, SettleCounts DEF IInv
  <2> QED
    BY <1>8, <1>9, <1>10, <1>13, <1>a, <2>3 DEF IInv
<1>17. CASE ~Gone(st)
  <2>1. Failed' = Failed \cup {n}
    BY <1>12, <1>17
  <2>2. Settled' = Settled
    BY <1>11, <1>14, <2>1 DEF Settled
  <2>3. Cardinality(Failed') = Cardinality(Failed) + 1
    BY <1>2, <2>1, FiniteParts, FS_AddElement DEF IInv
  <2>4. CountsExact'
    BY <1>14, <1>15, <1>17, <2>2, <2>3 DEF IInv, CountsExact
  <2>5. SettledNodesAreGone' /\ HeldAnswered'
    BY <1>11, <1>14, <2>1, <2>2 DEF IInv, SettledNodesAreGone, HeldAnswered
  <2> QED
    BY <1>8, <1>9, <1>10, <1>13, <1>a, <2>4, <2>5 DEF IInv
<1> QED
  BY <1>16, <1>17

-----------------------------------------------------------------------------
\* IInv is inductive: one step per group of actions of Next.
THEOREM NextIInv == IInv /\ [Next]_vars => IInv' /\ AccountsMove
<1> SUFFICES ASSUME IInv, [Next]_vars PROVE IInv' /\ AccountsMove
  OBVIOUS
<1>1. CASE RunnerStep \/ UNCHANGED vars
  BY <1>1, RunnerSteps, DrainStartStep DEF RunnerStep
<1>2. ASSUME NEW b \in Body, BodyStep(b) PROVE IInv' /\ AccountsMove
  BY <1>2, RunnerSteps, SendSteps, DoneStep DEF BodyStep
<1>3. ASSUME NEW b \in Body, ServeBody(b) PROVE IInv' /\ AccountsMove
  <2>1. b \in Caller
    BY DEF Caller
  <2> QED
    BY <1>3, <2>1, ExecuteCreateStep, ExecuteDeleteStep, RotateAndFailSteps DEF ServeBody
<1>4. ASSUME NEW f \in File, DrainStep(f) \/ ServeDrain(f) PROVE IInv' /\ AccountsMove
  <2>1. f \in Caller
    BY DEF Caller
  <2> QED
    BY <1>4, <2>1, DrainStepStep, ExecuteDeleteStep DEF ServeDrain
<1>5. ASSUME NEW c \in Caller, FailCall(c) PROVE IInv' /\ AccountsMove
  BY <1>5, RotateAndFailSteps
<1> QED
  BY <1>1, <1>2, <1>3, <1>4, <1>5 DEF Next

\* The type invariant and the safety invariants of run "registry" hold in every
\* reachable state, for any number of nodes, bodies and files: the registry
\* forgets no live node it was told of, holds none twice, and counts exactly.
THEOREM RegistrySafe ==
  Spec => [](TypeOK /\ SettledNodesAreGone /\ HeldOnce /\ CountsExact)
<1>1. IInv => TypeOK /\ SettledNodesAreGone /\ HeldOnce /\ CountsExact
  BY DEF IInv
<1> QED
  BY <1>1, InitIInv, NextIInv, PTL DEF Spec

-----------------------------------------------------------------------------
\* The refinement of NodeAccounting.

Stage == [n \in Node |-> StageOf(n)]

\* The instance's Cardinality is the one of this module.
LEMMA SameCardinality == \A S : Accounting!Cardinality(S) = Cardinality(S)
BY DEF Accounting!Cardinality, Cardinality

\* An exact report of the present stages is what the counters add up to.
LEMMA StageTotals ==
  ASSUME IInv
  PROVE  Accounting!Totals(Stage) =
           [created |-> Total.created,
            deleted |-> Total.deletedByTests + Total.cleanupDeleted,
            failed  |-> Failed]
<1>1. Held \cap Failed = {}
  BY DEF IInv, HeldOnce, Held
<1>2. /\ Held \subseteq answered /\ Failed \subseteq answered /\ answered \subseteq Node
  BY DEF IInv, HeldAnswered, TypeOK
<1>3. Accounting!At(Stage, "held") = Held
  BY <1>2 DEF Accounting!At, Stage, StageOf
<1>4. Accounting!At(Stage, "failed") = Failed
  BY <1>1, <1>2 DEF Accounting!At, Stage, StageOf
<1>5. Accounting!At(Stage, "deleted") = Settled
  BY <1>2 DEF Accounting!At, Stage, StageOf, Settled
<1>6. Held \cup Settled \cup Failed = answered
  BY <1>2 DEF Settled
<1> QED
  BY <1>3, <1>4, <1>5, <1>6, SameCardinality DEF Accounting!Totals, IInv, CountsExact

\* The registry implements NodeAccounting: every step settles at most one node,
\* forward, and a line written is exact at the moment it is written.
THEOREM RegistryImplementsAccounting == Spec => ImplementsAccounting
<1>1. Init => Accounting!Init
  <2> SUFFICES ASSUME Init PROVE Accounting!Init
    OBVIOUS
  <2>1. \A f \in File : Pending(f) = {}
    BY DEF Init, Pending, NoCall, Caller
  <2>2. Held = {} /\ Failed = {} /\ answered = {}
    BY <2>1 DEF Held, Failed, Init, ZeroCounters
  <2> QED
    BY <2>2 DEF Accounting!Init, StageOf, Init, ZeroCounters
<1>a. IInv => Accounting!Totals(Stage) =
                 [created |-> Total.created,
                  deleted |-> Total.deletedByTests + Total.cleanupDeleted,
                  failed  |-> Failed]
  BY StageTotals
<1>b. IInv' => (Accounting!Totals(Stage) =
                 [created |-> Total.created,
                  deleted |-> Total.deletedByTests + Total.cleanupDeleted,
                  failed  |-> Failed])'
  BY <1>a, PTL
<1>2. IInv /\ IInv' /\ AccountsMove => [Accounting!Next]_(Accounting!vars)
  <2> SUFFICES ASSUME IInv, IInv', AccountsMove PROVE Accounting!Next
    OBVIOUS
  <2>1. /\ Held \subseteq answered /\ Failed \subseteq answered /\ answered \subseteq Node
        /\ Held \cap Failed = {}
    BY DEF IInv, HeldAnswered, TypeOK, HeldOnce, Held
  <2>2. Stage' = Stage \/ \E n \in Node : Accounting!Advance(n)
    <3>1. CASE UNCHANGED <<Held, Failed, answered>>
      BY <3>1 DEF Stage, StageOf
    <3>2. ASSUME NEW n \in Node \ answered, Held' = Held \cup {n},
                 answered' = answered \cup {n}, Failed' = Failed
          PROVE  Accounting!Advance(n)
      <4>1. StageOf(n) = "unknown" /\ StageOf(n)' = "held"
        BY <2>1, <3>2 DEF StageOf
      <4>2. \A m \in Node : m # n => StageOf(m)' = StageOf(m)
        BY <3>2 DEF StageOf
      <4> QED
        BY <4>1, <4>2 DEF Accounting!Advance
    <3>3. ASSUME NEW n \in Held, Held' = Held \ {n}, answered' = answered,
                 Failed' \in {Failed, Failed \cup {n}}
          PROVE  Accounting!Advance(n)
      <4>1. StageOf(n) = "held" /\ StageOf(n)' \in {"deleted", "failed"}
        BY <2>1, <3>3 DEF StageOf
      <4>2. \A m \in Node : m # n => StageOf(m)' = StageOf(m)
        BY <3>3 DEF StageOf
      <4>3. n \in Node
        BY <2>1
      <4> QED
        BY <4>1, <4>2, <4>3 DEF Accounting!Advance
    <3> QED
      BY <2>1, <3>1, <3>2, <3>3 DEF AccountsMove
  <2>3. CASE UNCHANGED published
    BY <2>2, <2>3 DEF Accounting!Next, Stage
  <2>4. CASE counters' = ZeroCounters
    <3> QED
      BY <1>b, <2>2, <2>4 DEF Accounting!Next, Accounting!Publish, Stage, Total,
         AddCounters, ZeroCounters, Failed, IInv, TypeOK, CounterType
  <2> QED
    BY <2>3, <2>4 DEF AccountsMove
<1>3. Accounting!Spec <=> ImplementsAccounting
  BY DEF ImplementsAccounting
<1> QED
  BY <1>1, <1>2, <1>3, InitIInv, NextIInv, PTL DEF Spec, Accounting!Spec
=============================================================================
