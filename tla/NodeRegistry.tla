---------------------------- MODULE NodeRegistry ----------------------------
(***************************************************************************)
(* The node registry of one mocha worker process, with the JSON-RPC client *)
(* that feeds it, the test bodies and after() hooks that call it and the   *)
(* network they act on (utils/helpers/node-registry.ts, services/Client.ts,*)
(* the hooks of src/tests/node-service).                                   *)
(*                                                                         *)
(* JavaScript runs to completion: everything between two awaits is one     *)
(* action.  A caller (a test body, or the drain of a file's after() hook)  *)
(* awaits at most one request at a time.  Mocha's timeouts do not cancel a *)
(* body or a hook: the runner goes on and the async function continues     *)
(* when its answer comes.                                                  *)
(***************************************************************************)
EXTENDS Integers, FiniteSets

CONSTANTS
  Node,         \* node ids the network can assign during the run
  Body,         \* test bodies (it/before functions) this worker can start
  MaxFile,      \* bound: the number of node-service files this worker is given
  Privileged,   \* the suite's operator may delete a node without its admin key
  NoNode, NoBody

ASSUME ConstantsAssumption ==
  /\ IsFiniteSet(Node) /\ NoNode \notin Node
  /\ NoBody \notin Body
  /\ MaxFile \in Nat \ {0}
  /\ Body \cap (1..MaxFile) = {}
  /\ Privileged \in BOOLEAN

File == 1..MaxFile
\* Each file has one after() hook, so a file also names the drain it starts.
Caller == Body \cup File

VARIABLES
  ledger,       \* the network: each node id is absent, live or deleted
  rotated,      \* nodes whose admin key was replaced by updateNode
  call,         \* the request each caller awaits
  body,         \* progress of each test body
  bodyFile,     \* the file a started body belongs to
  file, phase, current,   \* the mocha runner of this worker
  trackedNodes, counters, \* the registry's module state
  remaining,    \* what each drain still has to delete after its awaited node
  drain,        \* progress of each drain
  published,    \* sum of the lines of node-cleanup.jsonl
  answered,     \* history: nodes whose createNode answer reached trackNode
  home          \* history: the file whose body created a node (0: none yet)

network  == <<ledger, rotated, home>>
runner   == <<file, phase, current, body, bodyFile>>
registry == <<trackedNodes, counters, published, answered>>
drains   == <<remaining, drain>>
vars == <<network, call, runner, registry, drains>>

-----------------------------------------------------------------------------
\* Requests.  st is "sent" until the server has executed or refused the
\* request, then the outcome its answer carries; "ERROR" is every error other
\* than NODE_DELETED, those of the transport (non-200, connection) included.
NoCall == [op |-> "none", node |-> NoNode, st |-> "sent"]
Request(op, n) == [op |-> op, node |-> n, st |-> "sent"]
Answered(r, st) == [op |-> r.op, node |-> r.node, st |-> st]
Outcome == {"sent", "SUCCESS", "NODE_DELETED", "ERROR"}
CallType == [op: {"none", "create", "delete", "rotate"},
             node: Node \cup {NoNode}, st: Outcome]

CounterType == [created: Nat, deletedByTests: Nat, cleanupDeleted: Nat,
                cleanupFailed: Nat, cleanupFailedIds: SUBSET Node]
ZeroCounters == [created |-> 0, deletedByTests |-> 0, cleanupDeleted |-> 0,
                 cleanupFailed |-> 0, cleanupFailedIds |-> {}]

\* What global teardown makes of two lines.
AddCounters(a, b) ==
  [created          |-> a.created + b.created,
   deletedByTests   |-> a.deletedByTests + b.deletedByTests,
   cleanupDeleted   |-> a.cleanupDeleted + b.cleanupDeleted,
   cleanupFailed    |-> a.cleanupFailed + b.cleanupFailed,
   cleanupFailedIds |-> a.cleanupFailedIds \cup b.cleanupFailedIds]

Init ==
  /\ ledger = [n \in Node |-> "absent"]
  /\ rotated = {}
  /\ call = [c \in Caller |-> NoCall]
  /\ body = [b \in Body |-> "unused"]
  /\ bodyFile = [b \in Body |-> 0]
  /\ file = 1 /\ phase = "tests" /\ current = NoBody
  /\ trackedNodes = {}
  /\ counters = ZeroCounters
  /\ remaining = [f \in File |-> {}]
  /\ drain = [f \in File |-> "idle"]
  /\ published = ZeroCounters
  /\ answered = {}
  /\ home = [n \in Node |-> 0]

-----------------------------------------------------------------------------
\* The runner: tests one after the other, then the after() hook, then the next
\* file the pool gives this worker, until the pool is terminated.

Alive == phase # "terminated"

StartTest(b) ==
  /\ phase = "tests" /\ current = NoBody /\ body[b] = "unused"
  /\ body' = [body EXCEPT ![b] = "active"]
  /\ bodyFile' = [bodyFile EXCEPT ![b] = file]
  /\ current' = b
  /\ UNCHANGED <<network, call, file, phase, registry, drains>>

\* this.timeout(30000): the runner leaves the body behind; it is not cancelled.
TimeOutTest ==
  /\ phase = "tests" /\ current # NoBody
  /\ current' = NoBody
  /\ UNCHANGED <<network, call, file, phase, body, bodyFile, registry, drains>>

\* A body returns or throws; if the runner still waits for it, it moves on.
EndBody(b) ==
  /\ Alive /\ body[b] = "active" /\ call[b] = NoCall
  /\ body' = [body EXCEPT ![b] = "done"]
  /\ current' = IF current = b THEN NoBody ELSE current
  /\ UNCHANGED <<network, call, file, phase, bodyFile, registry, drains>>

\* The after() hook ends with its drain, or with mocha's timeout on hooks.
EndHook ==
  /\ phase = "after" /\ drain[file] = "done"
  /\ phase' = "between"
  /\ UNCHANGED <<network, call, file, current, body, bodyFile, registry, drains>>

\* Mutant: hooks have no timeout; the runner waits for the drain.
NoHookTimeout ==
  /\ phase = "after" /\ drain[file] = "done"
  /\ phase' = "between"
  /\ UNCHANGED <<network, call, file, current, body, bodyFile, registry, drains>>

TimeOutHook ==
  /\ phase = "after" /\ drain[file] = "running"
  /\ phase' = "between"
  /\ UNCHANGED <<network, call, file, current, body, bodyFile, registry, drains>>

\* Workers are reused and the registry is module state: it is not reset.
NextFile ==
  /\ phase = "between" /\ file < MaxFile
  /\ file' = file + 1
  /\ phase' = "tests"
  /\ UNCHANGED <<network, call, current, body, bodyFile, registry, drains>>

\* The pool is terminated when its files have run, or the run is killed.
Terminate ==
  /\ Alive
  /\ phase' = "terminated"
  /\ current' = NoBody
  /\ UNCHANGED <<network, call, file, body, bodyFile, registry, drains>>

-----------------------------------------------------------------------------
\* Test bodies, those the runner left behind included, use the client.

MaySend(b) == Alive /\ body[b] = "active" /\ call[b] = NoCall

SendCreate(b) ==
  /\ MaySend(b)
  /\ call' = [call EXCEPT ![b] = Request("create", NoNode)]
  /\ UNCHANGED <<network, runner, registry, drains>>

\* A body names nodes its own file has been told of.
SendOn(b, op, n) ==
  /\ MaySend(b)
  /\ n \in answered /\ home[n] = bodyFile[b]
  /\ call' = [call EXCEPT ![b] = Request(op, n)]
  /\ UNCHANGED <<network, runner, registry, drains>>

\* JSONRPCRequest after its await, in a test body: trackNode on a created node,
\* untrackNode on a deleted one, nothing on an error or a NOT_IMPLEMENTED skip.
trackNode(n) ==
  /\ trackedNodes' = trackedNodes \cup {n}
  /\ counters' = [counters EXCEPT !.created = @ + 1]
  /\ answered' = answered \cup {n}

\* Mutant: counts a delete the registry was not tracking.
untrackAlways(n) ==
  /\ trackedNodes' = trackedNodes \ {n}
  /\ counters' = [counters EXCEPT !.deletedByTests = @ + 1]
  /\ UNCHANGED answered

untrackNode(n) ==
  /\ trackedNodes' = trackedNodes \ {n}
  /\ counters' = IF n \in trackedNodes
                 THEN [counters EXCEPT !.deletedByTests = @ + 1]
                 ELSE counters
  /\ UNCHANGED answered

\* Mutant: tracks a create without looking at what was answered.
CreatedUnchecked(r) == r.op = "create"
Created(r) == r.op = "create" /\ r.st = "SUCCESS"

JSONRPCRequestDone(b) ==
  LET r == call[b] IN
  /\ Alive /\ r.st # "sent"
  /\ call' = [call EXCEPT ![b] = NoCall]
  /\ \/ Created(r) /\ trackNode(r.node)
     \/ r.op = "delete" /\ r.st = "SUCCESS" /\ untrackNode(r.node)
     \/ /\ r.op = "rotate" \/ r.st # "SUCCESS"
        /\ UNCHANGED <<trackedNodes, counters, answered>>
  /\ UNCHANGED <<network, runner, published, drains>>

-----------------------------------------------------------------------------
\* The SDK server and the network.  A request already sent is executed even
\* after the process that sent it has gone.

ExecuteCreate(b, n) ==
  /\ call[b] = Request("create", NoNode)
  /\ ledger[n] = "absent"
  /\ ledger' = [ledger EXCEPT ![n] = "live"]
  /\ home' = [home EXCEPT ![n] = bodyFile[b]]
  /\ call' = [call EXCEPT ![b] = Answered(Request("create", n), "SUCCESS")]
  /\ UNCHANGED <<rotated, runner, registry, drains>>

\* A test signs a delete with the node's present admin key or with a wrong
\* one; a drain replays the signers of the create.
SignersSufficient(c, n) == Privileged \/ c \in Body \/ n \notin rotated

ExecuteDelete(c, n) ==
  /\ call[c] = Request("delete", n)
  /\ \/ /\ ledger[n] = "deleted"
        /\ call' = [call EXCEPT ![c] = Answered(@, "NODE_DELETED")]
        /\ UNCHANGED ledger
     \/ /\ ledger[n] = "live" /\ SignersSufficient(c, n)
        /\ ledger' = [ledger EXCEPT ![n] = "deleted"]
        /\ call' = [call EXCEPT ![c] = Answered(@, "SUCCESS")]
  /\ UNCHANGED <<rotated, home, runner, registry, drains>>

\* updateNode with a new admin key, signed by the old and the new key.
ExecuteRotate(b, n) ==
  /\ call[b] = Request("rotate", n) /\ ledger[n] = "live"
  /\ rotated' = rotated \cup {n}
  /\ call' = [call EXCEPT ![b] = Answered(@, "SUCCESS")]
  /\ UNCHANGED <<ledger, home, runner, registry, drains>>

\* The server refuses the request, or the transport fails: before the request
\* was executed, or after it, when only the answer is lost.
FailCall(c) ==
  /\ call[c] # NoCall /\ call[c].st # "ERROR"
  /\ call' = [call EXCEPT ![c] = Answered(@, "ERROR")]
  /\ UNCHANGED <<network, runner, registry, drains>>

-----------------------------------------------------------------------------
\* deleteTrackedNodes

\* The end of a drain: append a line and reset the counters, or only warn.
\* Mutant: the counters are reset even when the line could not be written.
ResetAlways(c) ==
  \/ /\ published' = AddCounters(published, c)
     /\ counters' = ZeroCounters
  \/ /\ counters' = ZeroCounters
     /\ UNCHANGED published

WriteLine(c) ==
  \/ /\ published' = AddCounters(published, c)
     /\ counters' = ZeroCounters
  \/ /\ counters' = c
     /\ UNCHANGED published

\* The loop head with r still to delete and the counters at c: send the next
\* deleteNode, or fall through to the line at the end.
DrainLoop(f, r, c) ==
  \/ \E n \in r :
       /\ call' = [call EXCEPT ![f] = Request("delete", n)]
       /\ remaining' = [remaining EXCEPT ![f] = r \ {n}]
       /\ drain' = [drain EXCEPT ![f] = "running"]
       /\ counters' = c
       /\ UNCHANGED published
  \/ /\ r = {}
     /\ call' = [call EXCEPT ![f] = NoCall]
     /\ drain' = [drain EXCEPT ![f] = "done"]
     /\ UNCHANGED remaining
     /\ WriteLine(c)

\* after(): snapshot and clear, then run to the first await.
\* Mutant: the snapshot is taken but the registry is not cleared.
SnapshotOnly ==
  /\ phase = "tests" /\ current = NoBody
  /\ phase' = "after"
  /\ DrainLoop(file, trackedNodes, counters)
  /\ UNCHANGED <<network, file, current, body, bodyFile, answered, trackedNodes>>

deleteTrackedNodes ==
  /\ phase = "tests" /\ current = NoBody
  /\ phase' = "after"
  /\ trackedNodes' = {}
  /\ DrainLoop(file, trackedNodes, counters)
  /\ UNCHANGED <<network, file, current, body, bodyFile, answered>>

Gone(st) == st \in {"SUCCESS", "NODE_DELETED"}

\* Mutant: a failed delete is counted but its id is not kept.
NoIds(n, st) == {}
FailedIds(n, st) == IF Gone(st) THEN {} ELSE {n}

\* The counters after the awaited deleteNode of n was answered with st:
\* JSONRPCRequest's untrackNode runs first, then the loop's own bookkeeping.
CountAnswer(n, st) ==
  [created          |-> counters.created,
   deletedByTests   |-> counters.deletedByTests
                          + (IF st = "SUCCESS" /\ n \in trackedNodes THEN 1 ELSE 0),
   cleanupDeleted   |-> counters.cleanupDeleted + (IF Gone(st) THEN 1 ELSE 0),
   cleanupFailed    |-> counters.cleanupFailed + (IF Gone(st) THEN 0 ELSE 1),
   cleanupFailedIds |-> counters.cleanupFailedIds \cup FailedIds(n, st)]

\* The catch lets the loop go on after any answer.
\* Mutant: without it, a failed delete ends the drain in mid-loop.
ResumesIfGone(st) == Gone(st)
Resumes(st) == st # "sent"

DrainStep(f) ==
  LET n == call[f].node
      st == call[f].st
  IN
  /\ Alive /\ Resumes(st)
  /\ trackedNodes' = IF st = "SUCCESS" THEN trackedNodes \ {n} ELSE trackedNodes
  /\ DrainLoop(f, remaining[f], CountAnswer(n, st))
  /\ UNCHANGED <<network, runner, answered>>

-----------------------------------------------------------------------------
BodyStep(b) ==
  \/ StartTest(b) \/ EndBody(b) \/ SendCreate(b) \/ JSONRPCRequestDone(b)
  \/ \E n \in Node : SendOn(b, "delete", n) \/ SendOn(b, "rotate", n)

ServeBody(b) ==
  \E n \in Node : ExecuteCreate(b, n) \/ ExecuteDelete(b, n) \/ ExecuteRotate(b, n)

ServeDrain(f) == \E n \in Node : ExecuteDelete(f, n)

RunnerStep ==
  TimeOutTest \/ deleteTrackedNodes \/ EndHook \/ TimeOutHook \/ NextFile \/ Terminate

Next ==
  \/ RunnerStep
  \/ \E b \in Body : BodyStep(b) \/ ServeBody(b)
  \/ \E f \in File : DrainStep(f) \/ ServeDrain(f)
  \/ \E c \in Caller : FailCall(c)

Spec == Init /\ [][Next]_vars

\* Mocha's runner goes on by itself and its timers fire; nothing is assumed of
\* the server.
RunnerFairness ==
  /\ WF_vars(TimeOutTest)
  /\ WF_vars(deleteTrackedNodes)
  /\ WF_vars(EndHook \/ TimeOutHook)
  /\ WF_vars(NextFile)

\* The network answers a drain's deletes in some way and the event loop
\* resumes the drain.
DrainFairness ==
  \A f \in File : WF_vars(DrainStep(f)) /\ WF_vars(ServeDrain(f) \/ FailCall(f))

-----------------------------------------------------------------------------
\* Properties

\* Type invariant of the worker, the server's requests and the network.
TypeOK ==
  /\ ledger \in [Node -> {"absent", "live", "deleted"}]
  /\ rotated \subseteq Node
  /\ home \in [Node -> 0..MaxFile]
  /\ call \in [Caller -> CallType]
  /\ body \in [Body -> {"unused", "active", "done"}]
  /\ bodyFile \in [Body -> 0..MaxFile]
  /\ file \in File
  /\ phase \in {"tests", "after", "between", "terminated"}
  /\ current \in Body \cup {NoBody}
  /\ trackedNodes \subseteq Node
  /\ counters \in CounterType
  /\ published \in CounterType
  /\ remaining \in [File -> SUBSET Node]
  /\ drain \in [File -> {"idle", "running", "done"}]
  /\ answered \subseteq Node

\* What drain f has still to settle: the node it awaits and those after it.
Pending(f) == remaining[f] \cup ({call[f].node} \ {NoNode})

Held == trackedNodes \cup UNION {Pending(f) : f \in File}
Failed == published.cleanupFailedIds \cup counters.cleanupFailedIds
Settled == answered \ (Held \cup Failed)
Total == AddCounters(published, counters)

\* A node the registry no longer holds and has not reported as failed is gone
\* from the network: no order of late answers, overlapping drains and lost
\* answers makes deleteTrackedNodes forget a live node it was told of.
SettledNodesAreGone == \A n \in Settled : ledger[n] = "deleted"

\* However drains overlap, a node is in one place: tracked, or due in one
\* drain, or reported as failed; so no two drains delete it and none is
\* counted twice.
HeldOnce ==
  /\ \A f \in File : Pending(f) \cap (trackedNodes \cup Failed) = {}
  /\ \A f \in File : call[f].node \notin remaining[f]
  /\ \A f, g \in File : f # g => Pending(f) \cap Pending(g) = {}
  /\ trackedNodes \cap Failed = {}
  /\ published.cleanupFailedIds \cap counters.cleanupFailedIds = {}

\* The lines written and the counters not yet written add up to what happened:
\* one creation for each node answered, one deletion for each node settled,
\* one failure for each id listed.
CountsExact ==
  /\ Total.created = Cardinality(answered)
  /\ Total.deletedByTests + Total.cleanupDeleted = Cardinality(Settled)
  /\ Total.cleanupFailed = Cardinality(Failed)

\* The registry implements NodeAccounting: nodes are settled once and the
\* lines written are exact at the moment they are written, also after a write
\* failed and when a drain left behind writes in the middle of another one.
StageOf(n) ==
  IF n \in Held THEN "held"
  ELSE IF n \in Failed THEN "failed"
  ELSE IF n \in answered THEN "deleted" ELSE "unknown"

Accounting == INSTANCE NodeAccounting WITH
  stage <- [n \in Node |-> StageOf(n)],
  report <- [created |-> published.created,
             deleted |-> published.deletedByTests + published.cleanupDeleted,
             failed |-> published.cleanupFailedIds]

ImplementsAccounting == Accounting!Spec

\* Whatever the server does, mocha gets past every after() hook: it ends or
\* its timeout fires (the drain's requests themselves have no timeout).
HooksEnd == RunnerFairness =>
  \A f \in File : (phase = "after" /\ file = f) ~> (phase # "after" \/ file # f)

\* A drain that has begun reaches its line, whatever its deletes are answered,
\* unless the worker is terminated first: a failed delete does not end it.
DrainsSettle == DrainFairness =>
  \A f \in File : drain[f] = "running" ~> (drain[f] = "done" \/ ~Alive)

-----------------------------------------------------------------------------
\* A claim of a comment that the code does not keep.

\* node-registry.ts:23-26: "Replaying the create's signers on delete always
\* suffices".
SignersSuffice == \A f \in File, n \in Node :
  call[f] = Request("delete", n) /\ ledger[n] = "live" => SignersSufficient(f, n)
=============================================================================
