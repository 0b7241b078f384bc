------------------------------ MODULE LeakCheck ------------------------------
(***************************************************************************)
(* The leak check of preflight.ts: global setup notes when the run starts, *)
(* global teardown compares the NODECREATE with the NODEDELETE transactions*)
(* of that window on a mirror node, which ingests the consensus log with   *)
(* some lag.  Each of the two counts is here one look at the mirror, at    *)
(* some moment between the call and its answer; LeakCheckPaged has the     *)
(* pages and the retries behind it, and implements this.                   *)
(*                                                                         *)
(* The runner's clock and consensus time are taken to agree; both are kept *)
(* in seconds, so what happens in one second is ordered by the log only.   *)
(***************************************************************************)
EXTENDS Integers, Sequences, FiniteSets

CONSTANTS
  Attempts,    \* how often the teardown polls: 5
  MaxTx,       \* bound: length of the consensus log
  MaxSecond,   \* bound: the clock
  Null

ASSUME LeakAssumption ==
  /\ Attempts \in Nat \ {0} /\ MaxTx \in Nat /\ MaxSecond \in Nat
  /\ Null \notin Int

VARIABLES
  log,         \* NODECREATE and NODEDELETE transactions in consensus order
  ingested,    \* the mirror has the first so many of them
  second,      \* the clock
  pc,          \* where the run is
  runStartSeconds,
  attempt,     \* the teardown's poll
  mirrorCreated, mirrorDeleted, leaked,
  calledAt,    \* history: what the mirror had when the count in flight was called
  createdAt,   \* history: what the mirror had when mirrorCreated was read
  readAt       \* history: what it had at the two reads that leaked is from

network == <<log, ingested, second>>
counts == <<mirrorCreated, mirrorDeleted, leaked, createdAt, readAt>>
vars == <<network, pc, runStartSeconds, attempt, calledAt, counts>>

Tx == [op: {"create", "delete"}, by: {"run", "sweep", "other"}, ok: BOOLEAN,
       at: 0..MaxSecond]

Successes(p, op, by) ==
  {i \in 1..p : log[i].op = op /\ log[i].ok /\ log[i].by = by}

\* The run's nodes that are on the network: every delete of the run that
\* succeeds deletes one of them.
RunCreates(p) == Cardinality(Successes(p, "create", "run"))
RunDeletes(p) == Cardinality(Successes(p, "delete", "run"))
RunNodesLive == RunCreates(Len(log)) - RunDeletes(Len(log))

Init ==
  /\ log = <<>> /\ ingested = 0 /\ second = 0
  /\ pc = "sweep" /\ runStartSeconds = Null /\ attempt = 0
  /\ mirrorCreated = Null /\ mirrorDeleted = Null /\ leaked = Null
  /\ calledAt = 0 /\ createdAt = 0 /\ readAt = <<0, 0>>

-----------------------------------------------------------------------------
\* Consensus, its other users, the clock and the mirror.

Submit(op, by, ok) ==
  /\ Len(log) < MaxTx
  /\ log' = Append(log, [op |-> op, by |-> by, ok |-> ok, at |-> second])
  /\ UNCHANGED <<ingested, second, pc, runStartSeconds, attempt, calledAt, counts>>

OtherTx == \E op \in {"create", "delete"} : Submit(op, "other", TRUE)

Tick ==
  /\ second < MaxSecond
  /\ second' = second + 1
  /\ UNCHANGED <<log, ingested, pc, runStartSeconds, attempt, calledAt, counts>>

Ingest ==
  /\ ingested < Len(log)
  /\ ingested' = ingested + 1
  /\ UNCHANGED <<log, second, pc, runStartSeconds, attempt, calledAt, counts>>

\* The transactions of the run, from the start of the tests on: requests in
\* flight when the workers are terminated are still executed.
RunTx ==
  /\ runStartSeconds # Null
  /\ \/ \E ok \in BOOLEAN : Submit("create", "run", ok)
     \/ RunNodesLive > 0 /\ Submit("delete", "run", TRUE)
     \/ Submit("delete", "run", FALSE)

-----------------------------------------------------------------------------
\* Global setup: the sweep, then the stamp.

SweepTx == pc = "sweep" /\ Submit("delete", "sweep", TRUE)

\* Mutant: the run is taken to start a second earlier.
StampEarly ==
  /\ pc = "sweep"
  /\ runStartSeconds' = IF second = 0 THEN 0 ELSE second - 1
  /\ pc' = "tests"
  /\ UNCHANGED <<network, attempt, calledAt, counts>>

\* Math.floor(Date.now() / 1000)
StampStart ==
  /\ pc = "sweep"
  /\ runStartSeconds' = second
  /\ pc' = "tests"
  /\ UNCHANGED <<network, attempt, calledAt, counts>>

TestsEnd ==
  /\ pc = "tests"
  /\ pc' = "created" /\ attempt' = 1 /\ calledAt' = ingested
  /\ UNCHANGED <<network, runStartSeconds, counts>>

-----------------------------------------------------------------------------
\* Global teardown.

\* Mutants: failed transactions are counted too; the window is not applied.
CountedUnfiltered(i) == log[i].at >= runStartSeconds
CountedAlways(i) == log[i].ok
Counted(i) == log[i].ok /\ log[i].at >= runStartSeconds

\* The number of successful transactions of a type since runStartSeconds among
\* the first p of the log.
countSuccessfulTransactions(op, p) ==
  Cardinality({i \in 1..p : log[i].op = op /\ Counted(i)})

\* The count of creations is v, what the mirror had of them when it had the
\* first p of the log; the count of deletions is called.
Created(v, p) ==
  /\ pc = "created"
  /\ mirrorCreated' = v /\ createdAt' = p
  /\ pc' = "deleted" /\ calledAt' = ingested
  /\ UNCHANGED <<network, runStartSeconds, attempt, mirrorDeleted, leaked, readAt>>

\* The same of the deletions; the poll is decided.
Deleted(v, p) ==
  /\ pc = "deleted"
  /\ mirrorDeleted' = v
  /\ leaked' = mirrorCreated - v
  /\ readAt' = <<createdAt, p>>
  /\ pc' = IF leaked' <= 0 THEN "done" ELSE "waiting"
  /\ UNCHANGED <<network, runStartSeconds, attempt, calledAt, mirrorCreated, createdAt>>

CountCreated ==
  \E p \in calledAt..ingested : Created(countSuccessfulTransactions("create", p), p)

CountDeleted ==
  \E p \in calledAt..ingested : Deleted(countSuccessfulTransactions("delete", p), p)

\* Mutant: the poll goes on until nothing is leaked.
PollForever ==
  /\ pc = "waiting"
  /\ pc' = "created" /\ calledAt' = ingested
  /\ UNCHANGED <<network, runStartSeconds, attempt, counts>>

\* After the 3 s of the last poll, too.
NextPoll ==
  /\ pc = "waiting"
  /\ \/ attempt < Attempts /\ attempt' = attempt + 1
        /\ pc' = "created" /\ calledAt' = ingested
     \/ attempt = Attempts /\ pc' = "done" /\ UNCHANGED <<attempt, calledAt>>
  /\ UNCHANGED <<network, runStartSeconds, counts>>

\* Mutant: a count that cannot be made is 0, and the poll decides on it.
ZeroOnFailure ==
  /\ \/ pc = "created" /\ mirrorCreated' = 0 /\ UNCHANGED mirrorDeleted
     \/ pc = "deleted" /\ mirrorDeleted' = 0 /\ UNCHANGED mirrorCreated
  /\ pc' = "done"
  /\ UNCHANGED <<network, runStartSeconds, attempt, calledAt, leaked, createdAt, readAt>>

\* countSuccessfulTransactions gave up its retries: the catch around the loop.
\* What was counted before stays in the summary.
QueryFails ==
  /\ pc \in {"created", "deleted"}
  /\ pc' = "done"
  /\ UNCHANGED <<network, runStartSeconds, attempt, calledAt, counts>>

Teardown == CountCreated \/ CountDeleted \/ NextPoll \/ QueryFails

Next ==
  \/ OtherTx \/ RunTx \/ SweepTx \/ Tick \/ Ingest
  \/ StampStart \/ TestsEnd \/ Teardown

Spec == Init /\ [][Next]_vars

-----------------------------------------------------------------------------
\* Properties

\* Type invariant of the log, the window and the summary's counts.
TypeOK ==
  /\ log \in Seq(Tx)
  /\ ingested \in 0..Len(log)
  /\ second \in 0..MaxSecond
  /\ pc \in {"sweep", "tests", "created", "deleted", "waiting", "done"}
  /\ runStartSeconds \in 0..MaxSecond \cup {Null}
  /\ attempt \in 0..Attempts
  /\ mirrorCreated \in Nat \cup {Null} /\ mirrorDeleted \in Nat \cup {Null}
  /\ leaked \in Int \cup {Null}
  /\ calledAt \in 0..Len(log) /\ createdAt \in 0..Len(log)
  /\ readAt \in (0..Len(log)) \X (0..Len(log))

\* The two counts are reads at different times, creations first: what they say
\* is leaked is never more than what was, in the window, at either of them.  A
\* node created and deleted between the reads raises no alarm.
NoFalseAlarmAtReads ==
  leaked # Null =>
    \A p \in readAt[1]..readAt[2] :
      leaked <= countSuccessfulTransactions("create", p)
                  - countSuccessfulTransactions("delete", p)

\* What the summary says after any answer, also when a later poll's query fails
\* and the count of creations is newer than the rest of it: the deletions are
\* those that leaked is from, the creations are no older, leaked never exceeds
\* the difference of the two, and a summary without a leak adds up.
SummaryExplained ==
  leaked # Null =>
    /\ mirrorDeleted = countSuccessfulTransactions("delete", readAt[2])
    /\ \E p \in readAt[1]..ingested :
         mirrorCreated = countSuccessfulTransactions("create", p)
    /\ leaked <= mirrorCreated - mirrorDeleted
    /\ leaked <= 0 => leaked = mirrorCreated - mirrorDeleted

\* What else the counts hold of the first p of the log: the other users'
\* successes since the start, and the sweep's in the second of the start only.
Elsewhere(op, p) ==
  Cardinality({i \in 1..p :
    /\ log[i].op = op /\ log[i].ok
    /\ \/ log[i].by = "other" /\ log[i].at >= runStartSeconds
       \/ log[i].by = "sweep" /\ log[i].at = runStartSeconds})

\* The leaked count, of the run's own nodes.
Own == leaked - (Elsewhere("create", readAt[1]) - Elsewhere("delete", readAt[2]))

\* If the mirror had ingested the run's creations when they were counted, the
\* check misses none of the run's nodes that are still there, but for as many as
\* others deleted more than they created since the start, where the sweep is one
\* of them for what it deleted in that same second: with neither, a check that
\* says nothing leaked is right.
ZeroIsClean ==
  /\ pc = "done" /\ leaked # Null
  /\ RunCreates(readAt[1]) = RunCreates(Len(log))
  => RunNodesLive <= Own

\* If the mirror had ingested the run's deletions when they were counted, then as
\* many of the run's nodes as the check reports are still there, but for as many
\* as others created more than they deleted.
LeaksAreReal ==
  /\ pc = "done" /\ leaked # Null
  /\ RunDeletes(readAt[2]) = RunDeletes(Len(log))
  => RunNodesLive >= Own

\* The check ends, also when what it polls for never comes.
TeardownEnds == pc = "created" ~> pc = "done"

-----------------------------------------------------------------------------
\* A claim of a comment and the README that the code does not keep.

\* preflight.ts:20-21 and README.md:111-112: leaks are reported, so that "CI
\* can gate on leakedCount == 0"; with no other user of the network, no sweep
\* and no transaction of the run after its tests have ended.
LeaksAreReported ==
  /\ pc = "done" /\ leaked # Null
  /\ \A i \in DOMAIN log : log[i].by = "run"
  => leaked > 0 \/ RunNodesLive = 0
=============================================================================
