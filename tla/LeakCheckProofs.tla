--------------------------- MODULE LeakCheckProofs ---------------------------
(***************************************************************************)
(* Proofs about LeakCheck for any log, any clock and any number of polls:  *)
(* a count of a prefix of the log stays what it was as the log grows, and  *)
(* grows with the prefix.                                                  *)
(***************************************************************************)
EXTENDS LeakCheckPaged, FiniteSetTheorems, TLAPS

\* The window is open from the end of the sweep on, holds every transaction of
\* the run, and none of the sweep after its first second.
WindowHoldsRun ==
  /\ pc = "sweep" <=> runStartSeconds = Null
  /\ runStartSeconds # Null => runStartSeconds <= second
  /\ \A i \in 1..Len(log) :
       /\ log[i].by = "run" => runStartSeconds # Null /\ log[i].at >= runStartSeconds
       /\ log[i].by = "sweep" =>
            /\ log[i].at <= second
            /\ runStartSeconds # Null => log[i].at <= runStartSeconds

\* The counts are those of the log as the mirror had it when they were read.
CountsTrue ==
  /\ pc = "sweep" => leaked = Null
  /\ calledAt <= ingested
  /\ pc = "deleted" =>
       /\ createdAt <= calledAt
       /\ mirrorCreated = countSuccessfulTransactions("create", createdAt)
  /\ leaked # Null =>
       /\ readAt[1] <= readAt[2]
       /\ leaked = countSuccessfulTransactions("create", readAt[1])
                     - countSuccessfulTransactions("delete", readAt[2])

\* What is in the summary is from these reads, or from a later one of the
\* creations in a poll that is not decided; a poll without a leak is the last.
SummaryTrue ==
  leaked # Null =>
    /\ mirrorDeleted = countSuccessfulTransactions("delete", readAt[2])
    /\ mirrorCreated = countSuccessfulTransactions("create", createdAt)
    /\ readAt[1] <= createdAt /\ createdAt <= ingested /\ readAt[1] <= ingested
    /\ pc = "created" => readAt[1] <= calledAt
    /\ leaked <= 0 => pc = "done" /\ createdAt = readAt[1]

IInv == TypeOK /\ WindowHoldsRun /\ CountsTrue /\ SummaryTrue

-----------------------------------------------------------------------------
\* Counts of a prefix.

\* Any part of a prefix is finite, and a part of it has no more elements.
LEMMA PartsOfPrefix ==
  ASSUME NEW p \in Nat, NEW S \in SUBSET (1..p), NEW T \in SUBSET S
  PROVE  /\ IsFiniteSet(S)
         /\ Cardinality(S) \in Nat /\ Cardinality(T) \in Nat
         /\ Cardinality(T) <= Cardinality(S)
<1>1. IsFiniteSet(1..p)
  BY FS_Interval
<1>2. IsFiniteSet(S)
  BY <1>1, FS_Subset
<1>3. IsFiniteSet(T) /\ Cardinality(T) <= Cardinality(S)
  BY <1>2, FS_Subset
<1> QED
  BY <1>2, <1>3, FS_CardinalityType

\* A count is a number, and a longer prefix counts no less.
LEMMA CountGrows ==
  ASSUME NEW op, NEW p \in Nat, NEW q \in Nat, p <= q
  PROVE  /\ countSuccessfulTransactions(op, p) \in Nat
         /\ countSuccessfulTransactions(op, q) \in Nat
         /\ countSuccessfulTransactions(op, p) <= countSuccessfulTransactions(op, q)
<1> DEFINE In(r) == {i \in 1..r : log[i].op = op /\ Counted(i)}
<1>1. In(q) \in SUBSET (1..q) /\ In(p) \in SUBSET In(q)
  OBVIOUS
<1> HIDE DEF In
<1>2. /\ Cardinality(In(p)) \in Nat /\ Cardinality(In(q)) \in Nat
      /\ Cardinality(In(p)) <= Cardinality(In(q))
  BY <1>1, PartsOfPrefix
<1> QED
  BY <1>2 DEF countSuccessfulTransactions, In

\* The same of the run's own transactions.
LEMMA SuccessesGrow ==
  ASSUME NEW op, NEW p \in Nat, NEW q \in Nat, p <= q
  PROVE  /\ IsFiniteSet(Successes(q, op, "run"))
         /\ Cardinality(Successes(p, op, "run")) \in Nat
         /\ Cardinality(Successes(q, op, "run")) \in Nat
         /\ Cardinality(Successes(p, op, "run")) <= Cardinality(Successes(q, op, "run"))
<1>1. /\ Successes(q, op, "run") \in SUBSET (1..q)
      /\ Successes(p, op, "run") \in SUBSET Successes(q, op, "run")
  BY DEF Successes
<1> QED
  BY <1>1, PartsOfPrefix

\* What the counts and the history are made of, out of the type invariant.
LEMMA Typed ==
  ASSUME TypeOK
  PROVE  /\ log \in Seq(Tx) /\ Len(log) \in Nat
         /\ \A i \in 1..Len(log) : log[i] \in Tx
         /\ ingested \in 0..Len(log)
         /\ calledAt \in 0..Len(log) /\ createdAt \in 0..Len(log)
         /\ readAt \in (0..Len(log)) \X (0..Len(log))
         /\ readAt[1] \in 0..Len(log) /\ readAt[2] \in 0..Len(log)
         /\ Null \notin Int /\ MaxSecond \in Nat /\ MaxTx \in Nat /\ Attempts \in Nat \ {0}
BY LeakAssumption DEF TypeOK

-----------------------------------------------------------------------------
\* The log grows.

\* A new transaction changes no earlier one.
LEMMA Appended ==
  ASSUME TypeOK, NEW op \in {"create", "delete"}, NEW by \in {"run", "sweep", "other"},
         NEW ok \in BOOLEAN, Submit(op, by, ok)
  PROVE  /\ log' \in Seq(Tx) /\ Len(log') = Len(log) + 1
         /\ \A i \in 1..Len(log) : log'[i] = log[i]
         /\ log'[Len(log) + 1] = [op |-> op, by |-> by, ok |-> ok, at |-> second]
<1>1. log \in Seq(Tx) /\ [op |-> op, by |-> by, ok |-> ok, at |-> second] \in Tx
  BY DEF TypeOK, Tx
<1> QED
  BY <1>1 DEF Submit

\* So what was counted stays counted.
LEMMA CountStays ==
  ASSUME TypeOK, NEW op \in {"create", "delete"}, NEW by \in {"run", "sweep", "other"},
         NEW ok \in BOOLEAN, Submit(op, by, ok),
         NEW kind, NEW p \in 0..Len(log)
  PROVE  countSuccessfulTransactions(kind, p)' = countSuccessfulTransactions(kind, p)
<1>1. Len(log) \in Nat
  BY Typed
<1>2. \A i \in 1..Len(log) : log'[i] = log[i]
  BY Appended
<1>3. runStartSeconds' = runStartSeconds
  BY DEF Submit
<1>4. \A i \in 1..p : log'[i] = log[i]
  BY <1>1, <1>2
<1>5. {i \in 1..p : log'[i].op = kind /\ Counted(i)'}
        = {i \in 1..p : log[i].op = kind /\ Counted(i)}
  BY <1>3, <1>4 DEF Counted
<1> QED
  BY <1>5 DEF countSuccessfulTransactions

\* A transaction that the window's rules allow keeps the invariant.
LEMMA SubmitStep ==
  ASSUME IInv, NEW op \in {"create", "delete"}, NEW by \in {"run", "sweep", "other"},
         NEW ok \in BOOLEAN, Submit(op, by, ok),
         by = "run" => runStartSeconds # Null,
         by = "sweep" => runStartSeconds = Null
  PROVE  IInv'
<1>1. TypeOK /\ WindowHoldsRun /\ CountsTrue /\ SummaryTrue
  BY DEF IInv
<1>2. /\ log' \in Seq(Tx) /\ Len(log') = Len(log) + 1
      /\ \A i \in 1..Len(log) : log'[i] = log[i]
      /\ log'[Len(log) + 1] = [op |-> op, by |-> by, ok |-> ok, at |-> second]
  BY <1>1, Appended
<1>3. UNCHANGED <<ingested, second, pc, runStartSeconds, attempt, calledAt, counts>>
  BY DEF Submit
<1>4. /\ Len(log) \in Nat /\ ingested \in 0..Len(log)
      /\ calledAt \in 0..Len(log) /\ createdAt \in 0..Len(log)
      /\ readAt \in (0..Len(log)) \X (0..Len(log))
      /\ readAt[1] \in 0..Len(log) /\ readAt[2] \in 0..Len(log)
  BY <1>1, Typed
<1>5. TypeOK'
  <2>1. /\ ingested \in 0..(Len(log) + 1) /\ calledAt \in 0..(Len(log) + 1)
        /\ createdAt \in 0..(Len(log) + 1)
        /\ readAt \in (0..(Len(log) + 1)) \X (0..(Len(log) + 1))
    BY <1>4
  <2> QED
    BY <1>1, <1>2, <1>3, <2>1 DEF TypeOK, counts
<1>6. WindowHoldsRun'
  <2>1. second \in Int
    BY <1>1, Typed DEF TypeOK
  <2>3. ASSUME NEW i \in 1..Len(log'), log'[i].by = "sweep"
        PROVE  /\ log'[i].at <= second
               /\ runStartSeconds # Null => log'[i].at <= runStartSeconds
    <3>1. CASE i \in 1..Len(log)
      BY <1>1, <1>2, <2>3, <3>1 DEF WindowHoldsRun
    <3>2. CASE i = Len(log) + 1
      BY <1>2, <2>1, <2>3, <3>2
    <3> QED
      BY <1>2, <1>4, <3>1, <3>2
  <2>2. ASSUME NEW i \in 1..Len(log'), log'[i].by = "run"
        PROVE  runStartSeconds # Null /\ log'[i].at >= runStartSeconds
    <3>1. CASE i \in 1..Len(log)
      BY <1>1, <1>2, <2>2, <3>1 DEF WindowHoldsRun
    <3>2. CASE i = Len(log) + 1
      <4>1. by = "run" /\ log'[i].at = second
        BY <1>2, <2>2, <3>2
      <4>2. runStartSeconds # Null /\ runStartSeconds <= second
        BY <1>1, <4>1 DEF WindowHoldsRun
      <4>3. runStartSeconds \in Int
        BY <1>1, <4>2, Typed DEF TypeOK
      <4> QED
        BY <2>1, <4>1, <4>2, <4>3
    <3> QED
      BY <1>2, <1>4, <3>1, <3>2
  <2> QED
    BY <1>1, <1>3, <2>2, <2>3 DEF WindowHoldsRun
<1>8. CountsTrue'
  <2>1. /\ countSuccessfulTransactions("create", createdAt)'
             = countSuccessfulTransactions("create", createdAt)
        /\ countSuccessfulTransactions("create", readAt[1])'
             = countSuccessfulTransactions("create", readAt[1])
        /\ countSuccessfulTransactions("delete", readAt[2])'
             = countSuccessfulTransactions("delete", readAt[2])
    BY <1>1, <1>3, <1>4, CountStays DEF counts, countSuccessfulTransactions
  <2> QED
    BY <1>1, <1>3, <2>1 DEF CountsTrue, counts
<1>9. SummaryTrue'
  <2>1. /\ countSuccessfulTransactions("create", createdAt)'
             = countSuccessfulTransactions("create", createdAt)
        /\ countSuccessfulTransactions("delete", readAt[2])'
             = countSuccessfulTransactions("delete", readAt[2])
    BY <1>1, <1>3, <1>4, CountStays DEF counts, countSuccessfulTransactions
  <2> QED
    BY <1>1, <1>3, <2>1 DEF SummaryTrue, counts
<1> QED
  BY <1>5, <1>6, <1>8, <1>9 DEF IInv

-----------------------------------------------------------------------------
\* The steps that leave the log alone.

\* With the log and the window, what is counted in a prefix stays.
LEMMA SameCounts ==
  ASSUME UNCHANGED <<log, runStartSeconds>>, NEW op, NEW p
  PROVE  countSuccessfulTransactions(op, p)' = countSuccessfulTransactions(op, p)
BY DEF countSuccessfulTransactions, Counted

\* The clock and the mirror move on.
LEMMA WorldStep ==
  ASSUME IInv, Tick \/ Ingest
  PROVE  IInv'
<1>1. TypeOK /\ WindowHoldsRun /\ CountsTrue /\ SummaryTrue
  BY DEF IInv
<1>2. /\ UNCHANGED <<log, pc, runStartSeconds, attempt, calledAt, mirrorCreated,
                    mirrorDeleted, leaked, createdAt, readAt>>
      /\ \/ second < MaxSecond /\ second' = second + 1 /\ ingested' = ingested
         \/ ingested < Len(log) /\ ingested' = ingested + 1 /\ second' = second
  BY DEF Tick, Ingest, counts
<1>3. /\ Len(log) \in Nat /\ ingested \in 0..Len(log)
      /\ calledAt \in 0..Len(log) /\ createdAt \in 0..Len(log)
      /\ second \in 0..MaxSecond /\ MaxSecond \in Nat
  BY <1>1, Typed DEF TypeOK
<1>4. TypeOK'
  BY <1>1, <1>2, <1>3 DEF TypeOK
<1>5. WindowHoldsRun'
  <2>1. runStartSeconds # Null => runStartSeconds \in Int
    BY <1>1, Typed DEF TypeOK
  <2>2. runStartSeconds # Null => runStartSeconds <= second'
    BY <1>1, <1>2, <1>3, <2>1 DEF WindowHoldsRun
  <2>3. ASSUME NEW i \in 1..Len(log), log[i].by = "sweep"
        PROVE  log[i].at <= second'
    <3>1. log[i].at <= second /\ log[i].at \in Int
      BY <1>1, <2>3, Typed DEF WindowHoldsRun, Tx
    <3> QED
      BY <1>2, <1>3, <3>1
  <2> QED
    BY <1>1, <1>2, <2>2, <2>3 DEF WindowHoldsRun
<1>6. CountsTrue'
  <2>1. calledAt <= ingested => calledAt <= ingested'
    BY <1>2, <1>3
  <2> QED
    BY <1>1, <1>2, <2>1, SameCounts DEF CountsTrue, countSuccessfulTransactions, Counted
<1>7. SummaryTrue'
  <2>1. /\ readAt[1] <= ingested => readAt[1] <= ingested'
        /\ createdAt <= ingested => createdAt <= ingested'
    BY <1>1, <1>2, <1>3, Typed
  <2> QED
    BY <1>1, <1>2, <2>1, SameCounts DEF SummaryTrue, countSuccessfulTransactions, Counted
<1> QED
  BY <1>1, <1>2, <1>4, <1>5, <1>6, <1>7 DEF IInv

\* The stamp and the end of the tests.
LEMMA SetupStep ==
  ASSUME IInv, StampStart \/ TestsEnd
  PROVE  IInv'
<1>1. TypeOK /\ WindowHoldsRun /\ CountsTrue /\ SummaryTrue
  BY DEF IInv
<1>3. CASE StampStart
  <2>1. /\ pc = "sweep" /\ pc' = "tests" /\ runStartSeconds' = second /\ runStartSeconds = Null
        /\ UNCHANGED <<log, ingested, second, attempt, calledAt, mirrorCreated, mirrorDeleted,
                      leaked, createdAt, readAt>>
        /\ leaked = Null
    BY <1>1, <1>3 DEF StampStart, network, counts, WindowHoldsRun, CountsTrue
  <2>2. second \in 0..MaxSecond /\ second # Null /\ second <= second
    BY <1>1, Typed DEF TypeOK
  <2>3. TypeOK' /\ WindowHoldsRun' /\ CountsTrue' /\ SummaryTrue'
    BY <1>1, <2>1, <2>2 DEF TypeOK, WindowHoldsRun, CountsTrue, SummaryTrue
  <2> QED
    BY <1>1, <2>1, <2>3 DEF IInv
<1>4. CASE TestsEnd
  <2>1. /\ pc = "tests" /\ pc' = "created" /\ attempt' = 1 /\ calledAt' = ingested
        /\ UNCHANGED <<log, ingested, second, runStartSeconds, mirrorCreated, mirrorDeleted,
                      leaked, createdAt, readAt>>
    BY <1>4 DEF TestsEnd, network, counts
  <2>2. 1 \in 0..Attempts /\ ingested \in 0..Len(log) /\ ingested <= ingested
    BY <1>1, Typed
  <2>3. TypeOK' /\ WindowHoldsRun'
    BY <1>1, <2>1, <2>2 DEF TypeOK, WindowHoldsRun
  <2>4. CountsTrue'
    BY <1>1, <2>1, <2>2 DEF CountsTrue, countSuccessfulTransactions, Counted
  <2>5. SummaryTrue'
    BY <1>1, <2>1 DEF SummaryTrue, countSuccessfulTransactions, Counted
  <2> QED
    BY <1>1, <2>1, <2>3, <2>4, <2>5 DEF IInv
<1> QED
  BY <1>3, <1>4

\* The answers of the two counts.
LEMMA CreatedStep ==
  ASSUME IInv, NEW p \in calledAt..ingested,
         Created(countSuccessfulTransactions("create", p), p)
  PROVE  TypeOK' /\ CountsTrue' /\ SummaryTrue'
<1>1. TypeOK /\ CountsTrue /\ SummaryTrue
  BY DEF IInv
<1>2. /\ Len(log) \in Nat /\ ingested \in 0..Len(log) /\ ingested <= ingested
      /\ p \in 0..Len(log) /\ p <= ingested /\ p \in Nat
  BY <1>1, Typed
<1>3. countSuccessfulTransactions("create", p) \in Nat
  BY <1>2, CountGrows
<1>4. /\ pc' = "deleted" /\ createdAt' = p /\ calledAt' = ingested
      /\ mirrorCreated' = countSuccessfulTransactions("create", p)
      /\ UNCHANGED <<log, ingested, second, runStartSeconds, attempt, mirrorDeleted,
                    leaked, readAt>>
  BY DEF Created, network
<1>5. TypeOK'
  BY <1>1, <1>2, <1>3, <1>4 DEF TypeOK
<1>6. CountsTrue'
  BY <1>1, <1>2, <1>4 DEF CountsTrue, countSuccessfulTransactions, Counted
<1>7. pc = "created" /\ calledAt <= p /\ calledAt \in Nat
  BY <1>1, Typed DEF Created
<1>8. leaked # Null => readAt[1] <= p /\ readAt[1] <= ingested /\ ~(leaked <= 0)
  BY <1>1, <1>2, <1>7, Typed DEF SummaryTrue
<1>9. SummaryTrue'
  BY <1>1, <1>2, <1>4, <1>8 DEF SummaryTrue, countSuccessfulTransactions, Counted
<1> QED
  BY <1>5, <1>6, <1>9

LEMMA DeletedStep ==
  ASSUME IInv, NEW p \in calledAt..ingested,
         Deleted(countSuccessfulTransactions("delete", p), p)
  PROVE  TypeOK' /\ CountsTrue' /\ SummaryTrue'
<1>1. TypeOK /\ CountsTrue /\ SummaryTrue
  BY DEF IInv
<1>2. /\ Len(log) \in Nat /\ p \in 0..Len(log) /\ p \in Nat
      /\ calledAt \in Nat /\ createdAt \in 0..Len(log) /\ createdAt \in Nat
      /\ calledAt <= p
  BY <1>1, Typed
<1>3. /\ countSuccessfulTransactions("delete", p) \in Nat
      /\ countSuccessfulTransactions("create", createdAt) \in Nat
  BY <1>2, CountGrows
<1>4. /\ pc = "deleted" /\ readAt' = <<createdAt, p>>
      /\ mirrorDeleted' = countSuccessfulTransactions("delete", p)
      /\ leaked' = mirrorCreated - countSuccessfulTransactions("delete", p)
      /\ pc' \in {"waiting", "done"}
      /\ UNCHANGED <<log, ingested, second, runStartSeconds, attempt, calledAt,
                    mirrorCreated, createdAt>>
  BY DEF Deleted, network
<1>5. /\ createdAt <= p
      /\ mirrorCreated = countSuccessfulTransactions("create", createdAt)
  BY <1>1, <1>2, <1>4 DEF CountsTrue
<1>6. leaked' \in Int /\ readAt' \in (0..Len(log)) \X (0..Len(log))
  BY <1>2, <1>3, <1>4, <1>5
<1>7. TypeOK'
  BY <1>1, <1>2, <1>3, <1>4, <1>6 DEF TypeOK
<1>8. CountsTrue'
  BY <1>1, <1>2, <1>4, <1>5 DEF CountsTrue, countSuccessfulTransactions, Counted
<1>9. SummaryTrue'
  <2>1. leaked' <= 0 => pc' = "done"
    BY DEF Deleted
  <2>2. p <= ingested /\ createdAt <= ingested /\ createdAt <= createdAt
    BY <1>1, <1>2, <1>5, Typed
  <2> QED
    BY <1>1, <1>2, <1>4, <1>5, <2>1, <2>2
       DEF SummaryTrue, countSuccessfulTransactions, Counted
<1> QED
  BY <1>7, <1>8, <1>9

\* The teardown.
LEMMA TeardownStep ==
  ASSUME IInv, Teardown
  PROVE  IInv'
<1>1. TypeOK /\ WindowHoldsRun /\ CountsTrue /\ SummaryTrue
  BY DEF IInv
<1>2. /\ UNCHANGED <<log, ingested, second, runStartSeconds>>
      /\ pc # "sweep" /\ pc' \in {"created", "deleted", "waiting", "done"}
  BY DEF Teardown, CountCreated, CountDeleted, Created, Deleted, NextPoll, QueryFails, network
<1>3. WindowHoldsRun'
  BY <1>1, <1>2 DEF WindowHoldsRun
<1>4. CASE CountCreated
  BY <1>3, <1>4, CreatedStep DEF CountCreated, IInv
<1>5. CASE CountDeleted
  BY <1>3, <1>5, DeletedStep DEF CountDeleted, IInv
<1>6. CASE NextPoll \/ QueryFails
  <2>1. /\ pc' \in {"created", "done"}
        /\ \/ attempt' = attempt
           \/ attempt < Attempts /\ attempt' = attempt + 1
        /\ calledAt' \in {calledAt, ingested}
        /\ UNCHANGED <<mirrorCreated, mirrorDeleted, leaked, createdAt, readAt>>
    BY <1>6 DEF NextPoll, QueryFails, counts
  <2>2. attempt' \in 0..Attempts
    BY <1>1, <2>1, LeakAssumption DEF TypeOK
  <2>3. ingested \in 0..Len(log) /\ ingested <= ingested
    BY <1>1, Typed
  <2>4. TypeOK'
    BY <1>1, <1>2, <2>1, <2>2, <2>3 DEF TypeOK
  <2>5. CountsTrue'
    BY <1>1, <1>2, <2>1, <2>3 DEF CountsTrue, countSuccessfulTransactions, Counted
  <2>6. SummaryTrue'
    <3>1. /\ pc \in {"created", "deleted", "waiting"}
          /\ pc' = "created" => calledAt' = ingested
      BY <1>6 DEF NextPoll, QueryFails
    <3> QED
      BY <1>1, <1>2, <2>1, <3>1 DEF SummaryTrue, countSuccessfulTransactions, Counted
  <2> QED
    BY <1>3, <2>4, <2>5, <2>6 DEF IInv
<1> QED
  BY <1>4, <1>5, <1>6 DEF Teardown

-----------------------------------------------------------------------------
\* The inductive invariant, and what it gives.

\* It holds when global setup begins.
THEOREM LeakInit == Init => IInv
<1> SUFFICES ASSUME Init PROVE IInv
  OBVIOUS
<1>1. /\ log = <<>> /\ ingested = 0 /\ second = 0 /\ pc = "sweep"
      /\ runStartSeconds = Null /\ attempt = 0 /\ mirrorCreated = Null
      /\ mirrorDeleted = Null /\ leaked = Null /\ calledAt = 0 /\ createdAt = 0
      /\ readAt = <<0, 0>>
  BY DEF Init
<1>2. TypeOK
  BY <1>1, LeakAssumption DEF TypeOK
<1>3. WindowHoldsRun /\ CountsTrue /\ SummaryTrue
  BY <1>1 DEF WindowHoldsRun, CountsTrue, SummaryTrue
<1> QED
  BY <1>2, <1>3 DEF IInv

\* Every step keeps it.
THEOREM LeakStep == IInv /\ [Next]_vars => IInv'
<1> SUFFICES ASSUME IInv, [Next]_vars PROVE IInv'
  OBVIOUS
<1>1. CASE OtherTx
  BY <1>1, SubmitStep DEF OtherTx
<1>2. CASE RunTx
  BY <1>2, SubmitStep DEF RunTx
<1>3. CASE SweepTx
  <2>1. runStartSeconds = Null
    BY <1>3 DEF SweepTx, IInv, WindowHoldsRun
  <2> QED
    BY <1>3, <2>1, SubmitStep DEF SweepTx
<1>4. CASE Tick \/ Ingest
  BY <1>4, WorldStep
<1>5. CASE StampStart \/ TestsEnd
  BY <1>5, SetupStep
<1>6. CASE Teardown
  BY <1>6, TeardownStep
<1>7. CASE UNCHANGED vars
  BY <1>7 DEF IInv, TypeOK, WindowHoldsRun, CountsTrue, SummaryTrue, vars,
              network, counts, countSuccessfulTransactions, Counted
<1> QED
  BY <1>1, <1>2, <1>3, <1>4, <1>5, <1>6, <1>7 DEF Next

\* What is counted in a prefix is the run's own transactions and the rest.
LEMMA CountsAndOwn ==
  ASSUME IInv, pc # "sweep", NEW op, NEW p \in 0..Len(log)
  PROVE  /\ Elsewhere(op, p) \in Nat
         /\ countSuccessfulTransactions(op, p)
              = Cardinality(Successes(p, op, "run")) + Elsewhere(op, p)
<1> DEFINE S == Successes(p, op, "run")
           E == {i \in 1..p :
                  /\ log[i].op = op /\ log[i].ok
                  /\ \/ log[i].by = "other" /\ log[i].at >= runStartSeconds
                     \/ log[i].by = "sweep" /\ log[i].at = runStartSeconds}
           In == {i \in 1..p : log[i].op = op /\ Counted(i)}
<1>1. /\ Len(log) \in Nat /\ p \in Nat /\ runStartSeconds \in Int
      /\ \A i \in 1..Len(log) :
           /\ log[i] \in Tx
           /\ log[i].by = "run" => log[i].at >= runStartSeconds
           /\ log[i].by = "sweep" => log[i].at <= runStartSeconds
  BY Typed DEF IInv, WindowHoldsRun, TypeOK
<1>2. \A i \in 1..p :
        /\ log[i].by \in {"run", "sweep", "other"} /\ log[i].at \in Int
        /\ log[i].by = "run" => log[i].at >= runStartSeconds
        /\ log[i].by = "sweep" => log[i].at <= runStartSeconds
  <2>1. \A i \in 1..p : i \in 1..Len(log)
    BY <1>1
  <2>2. MaxSecond \in Nat
    BY LeakAssumption
  <2> QED
    BY <1>1, <2>1, <2>2 DEF Tx
<1>3. In \in SUBSET (S \cup E)
  BY <1>1, <1>2 DEF Successes, Counted
<1>4. S \cup E \in SUBSET In
  BY <1>1, <1>2 DEF Successes, Counted
<1>5. S \cap E = {}
  BY DEF Successes
<1>6. S \in SUBSET (1..p) /\ E \in SUBSET (1..p)
  BY DEF Successes
<1>7. In = S \cup E
  BY <1>3, <1>4
<1>8. countSuccessfulTransactions(op, p) = Cardinality(In) /\ Elsewhere(op, p) = Cardinality(E)
  BY DEF countSuccessfulTransactions, Elsewhere
<1> HIDE DEF In, S, E
<1>9. /\ IsFiniteSet(S) /\ IsFiniteSet(E)
      /\ Cardinality(S) \in Nat /\ Cardinality(E) \in Nat
  BY <1>1, <1>6, PartsOfPrefix
<1>10. Cardinality(In) = Cardinality(S) + Cardinality(E)
  <2>1. Cardinality(S \cup E) = Cardinality(S) + Cardinality(E) - Cardinality(S \cap E)
    BY <1>9, FS_Union
  <2>2. Cardinality(S \cap E) = 0
    BY <1>5, FS_EmptySet
  <2> QED
    BY <1>7, <1>9, <2>1, <2>2
<1> QED
  BY <1>8, <1>9, <1>10 DEF S

\* What the two reads make of the run's nodes.
LEMMA ReadsCompared ==
  ASSUME IInv, pc = "done", leaked # Null
  PROVE  LET a == readAt[1]
             b == readAt[2]
         IN  /\ leaked \in Int
             /\ RunCreates(a) \in Nat /\ RunCreates(Len(log)) \in Nat
             /\ RunDeletes(b) \in Nat /\ RunDeletes(Len(log)) \in Nat
             /\ RunCreates(a) <= RunCreates(Len(log))
             /\ RunDeletes(b) <= RunDeletes(Len(log))
             /\ Own = RunCreates(a) - RunDeletes(b)
<1> DEFINE a == readAt[1]
           b == readAt[2]
           cc == countSuccessfulTransactions("create", a)
           cd == countSuccessfulTransactions("delete", b)
           ec == Elsewhere("create", a)
           ed == Elsewhere("delete", b)
           rc == RunCreates(a)
           rd == RunDeletes(b)
<1>1. /\ Len(log) \in Nat /\ a \in 0..Len(log) /\ b \in 0..Len(log)
      /\ leaked = cc - cd
  BY Typed DEF IInv, CountsTrue
<1>2. a \in Nat /\ b \in Nat /\ a <= Len(log) /\ b <= Len(log)
  BY <1>1
<1>3. cc \in Nat /\ cd \in Nat
  BY <1>2, CountGrows
<1>4. /\ RunCreates(a) \in Nat /\ RunCreates(Len(log)) \in Nat
      /\ RunCreates(a) <= RunCreates(Len(log))
  BY <1>1, <1>2, SuccessesGrow DEF RunCreates
<1>5. /\ RunDeletes(b) \in Nat /\ RunDeletes(Len(log)) \in Nat
      /\ RunDeletes(b) <= RunDeletes(Len(log))
  BY <1>1, <1>2, SuccessesGrow DEF RunDeletes
<1>6. ec \in Nat /\ cc = RunCreates(a) + ec
  BY <1>1, CountsAndOwn DEF RunCreates
<1>7. ed \in Nat /\ cd = RunDeletes(b) + ed
  BY <1>1, CountsAndOwn DEF RunDeletes
<1>8. Own = leaked - (ec - ed)
  BY DEF Own
<1> HIDE DEF a, b, cc, cd, ec, ed, rc, rd
<1>9. leaked \in Int /\ Own = rc - rd
  <2>1. rc \in Nat /\ rd \in Nat
    BY <1>4, <1>5 DEF rc, rd
  <2>2. cc = rc + ec /\ cd = rd + ed /\ ec \in Nat /\ ed \in Nat
    BY <1>6, <1>7 DEF rc, rd
  <2> QED
    BY <1>1, <1>3, <1>8, <2>1, <2>2
<1> QED
  BY <1>4, <1>5, <1>9 DEF a, b, rc, rd

\* The inductive invariant is strong enough for all that the run checks.
THEOREM LeakImplies ==
  IInv => TypeOK /\ NoFalseAlarmAtReads /\ ZeroIsClean /\ LeaksAreReal /\ SummaryExplained
<1> SUFFICES ASSUME IInv
             PROVE  /\ TypeOK /\ NoFalseAlarmAtReads /\ ZeroIsClean /\ LeaksAreReal
                    /\ SummaryExplained
  OBVIOUS
<1>1. TypeOK /\ CountsTrue /\ SummaryTrue
  BY DEF IInv
<1>2. NoFalseAlarmAtReads
  <2> SUFFICES ASSUME leaked # Null, NEW p \in readAt[1]..readAt[2]
               PROVE  leaked <= countSuccessfulTransactions("create", p)
                                  - countSuccessfulTransactions("delete", p)
    BY DEF NoFalseAlarmAtReads
  <2> DEFINE a == readAt[1]
             b == readAt[2]
  <2>1. a \in Nat /\ b \in Nat /\ p \in Nat /\ a <= p /\ p <= b
    BY <1>1, Typed
  <2>2. leaked = countSuccessfulTransactions("create", a)
                   - countSuccessfulTransactions("delete", b)
    BY <1>1 DEF CountsTrue
  <2> HIDE DEF a, b
  <2>3. /\ countSuccessfulTransactions("create", a) \in Nat
        /\ countSuccessfulTransactions("create", p) \in Nat
        /\ countSuccessfulTransactions("create", a) <= countSuccessfulTransactions("create", p)
    BY <2>1, CountGrows
  <2>4. /\ countSuccessfulTransactions("delete", p) \in Nat
        /\ countSuccessfulTransactions("delete", b) \in Nat
        /\ countSuccessfulTransactions("delete", p) <= countSuccessfulTransactions("delete", b)
    BY <2>1, CountGrows
  <2> QED
    BY <2>2, <2>3, <2>4
<1>3. ZeroIsClean
  <2> SUFFICES ASSUME pc = "done", leaked # Null,
                      RunCreates(readAt[1]) = RunCreates(Len(log))
               PROVE  RunCreates(Len(log)) - RunDeletes(Len(log)) <= Own
    BY DEF ZeroIsClean, RunNodesLive
  <2> QED
    BY ReadsCompared
<1>4. LeaksAreReal
  <2> SUFFICES ASSUME pc = "done", leaked # Null,
                      RunDeletes(readAt[2]) = RunDeletes(Len(log))
               PROVE  RunCreates(Len(log)) - RunDeletes(Len(log)) >= Own
    BY DEF LeaksAreReal, RunNodesLive
  <2> QED
    BY ReadsCompared
<1>5. SummaryExplained
  <2> SUFFICES ASSUME leaked # Null
               PROVE  /\ mirrorDeleted = countSuccessfulTransactions("delete", readAt[2])
                      /\ \E p \in readAt[1]..ingested :
                           mirrorCreated = countSuccessfulTransactions("create", p)
                      /\ leaked <= mirrorCreated - mirrorDeleted
                      /\ leaked <= 0 => leaked = mirrorCreated - mirrorDeleted
    BY DEF SummaryExplained
  <2> DEFINE a == readAt[1]
             c == createdAt
             cc(p) == countSuccessfulTransactions("create", p)
             cd == countSuccessfulTransactions("delete", readAt[2])
  <2>1. /\ a \in Nat /\ c \in Nat /\ readAt[2] \in Nat /\ ingested \in Nat
        /\ a <= c /\ c \in a..ingested
    BY <1>1, Typed DEF SummaryTrue
  <2>2. /\ mirrorDeleted = cd /\ mirrorCreated = cc(c) /\ leaked = cc(a) - cd
        /\ leaked <= 0 => c = a
    BY <1>1 DEF SummaryTrue, CountsTrue
  <2>3. cd \in Nat
    BY <2>1, CountGrows
  <2> HIDE DEF a, c
  <2>4. cc(a) \in Nat /\ cc(c) \in Nat /\ cc(a) <= cc(c)
    BY <2>1, CountGrows
  <2> HIDE DEF cc, cd
  <2>5. leaked <= mirrorCreated - mirrorDeleted
    BY <2>2, <2>3, <2>4
  <2>6. leaked <= 0 => leaked = mirrorCreated - mirrorDeleted
    BY <2>2
  <2> QED
    BY <2>1, <2>2, <2>5, <2>6 DEF a, c, cc, cd
<1> QED
  BY <1>1, <1>2, <1>3, <1>4, <1>5

\* For any log, clock and number of polls: the check never alarms at more than
\* was leaked in the window at every moment between its two reads; once what
\* others did in the window is taken off (and the sweep, in the second of the
\* start alone), it misses none of the run's nodes if the mirror had its
\* creations, and reports none in excess if the mirror had its deletions; and the
\* summary's counts bear its leak out, whatever query failed.
THEOREM LeakCheckSafe ==
  Spec => [](TypeOK /\ NoFalseAlarmAtReads /\ ZeroIsClean /\ LeaksAreReal
             /\ SummaryExplained)
BY LeakInit, LeakStep, LeakImplies, PTL DEF Spec

-----------------------------------------------------------------------------
\* The check with paged counts.

\* A count in flight has read, newest first, everything of its first page's
\* snapshot above the link, and answers with that snapshot; what it was asked
\* for is fixed, as the log only grows and the window stays.
CountsPaged ==
  Counting =>
    /\ calledAt <= firstAt /\ firstAt <= ingested
    /\ reading = "sleeping" => tries < MaxRetries
    /\ reading = "returned" => answer = Matching(firstAt)
    /\ reading = "fetching" /\ next = -1 => taken = 0
    /\ reading = "fetching" /\ next # -1 =>
         next <= Matching(firstAt) /\ taken = Matching(firstAt) - next

ReadTypeOK ==
  /\ reading \in {"fetching", "sleeping", "returned", "failed"}
  /\ tries \in 1..MaxRetries
  /\ taken \in Nat /\ next \in Nat \cup {-1} /\ answer \in Nat
  /\ firstAt \in 0..Len(log)

PagedInv == IInv /\ ReadTypeOK /\ CountsPaged

\* One page of a count: a full one leaves a link, the last one ends the call.
LEMMA PageRead ==
  ASSUME FetchPage
  PROVE  LET left == IF next = -1 THEN Matching(ingested) ELSE next
         IN  /\ UNCHANGED vars /\ Counting /\ reading = "fetching"
             /\ tries' = tries
             /\ firstAt' = IF next = -1 THEN ingested ELSE firstAt
             /\ \/ /\ ~(left < Limit) /\ taken' = taken + Limit
                   /\ next' = left - Limit
                   /\ reading' = reading /\ answer' = answer
                \/ /\ left < Limit /\ taken' = taken + left /\ next' = next
                   /\ reading' = "returned" /\ answer' = taken + left
<1>1. /\ UNCHANGED vars /\ Counting /\ Read!ReadPage
      /\ firstAt' = IF next = -1 THEN ingested ELSE firstAt
  BY DEF FetchPage, Read!NoLink
<1>2. /\ reading = "fetching" /\ taken' = taken + Read!Page
      /\ \/ /\ Read!Page = Limit /\ next' = Read!LinkAfter
            /\ UNCHANGED <<reading, tries, answer>>
         \/ /\ Read!Page < Limit
            /\ reading' = "returned" /\ answer' = taken + Read!Page
            /\ UNCHANGED <<tries, next>>
  BY <1>1 DEF Read!ReadPage, Read!Return
<1> DEFINE left == IF next = -1 THEN Matching(ingested) ELSE next
<1>3. /\ Read!Left = left /\ Read!LinkAfter = left - Limit
      /\ Read!Page = IF left < Limit THEN left ELSE Limit
  BY DEF Read!Left, Read!LinkAfter, Read!Page, Read!AtMost, Read!NewestFirst, Read!NoLink
<1> HIDE DEF left
<1>4. Limit \in Nat
  BY PagedAssumption
<1>5. /\ left < Limit => Read!Page = left /\ left # Limit
      /\ ~(left < Limit) => Read!Page = Limit /\ ~(Limit < Limit)
  BY <1>3, <1>4
<1>6. CASE left < Limit
  BY <1>1, <1>2, <1>3, <1>5, <1>6 DEF left
<1>7. CASE ~(left < Limit)
  BY <1>1, <1>2, <1>3, <1>5, <1>7 DEF left
<1> QED
  BY <1>6, <1>7

\* A page that fails, and the attempt after it.
LEMMA PageFails ==
  ASSUME FetchAgain
  PROVE  /\ UNCHANGED <<vars, firstAt, answer>> /\ Counting
         /\ \/ /\ reading = "fetching" /\ UNCHANGED <<tries, taken, next>>
               /\ reading' = IF tries = MaxRetries THEN "failed" ELSE "sleeping"
            \/ /\ reading = "sleeping" /\ reading' = "fetching"
               /\ tries' = tries + 1 /\ taken' = 0 /\ next' = -1
BY DEF FetchAgain, Read!FetchFails, Read!Retry, Read!StartOver, Read!GivesUp,
       Read!HasFallback, Read!NoLink

\* What a count in flight is about, out of the invariant.
LEMMA Asked ==
  ASSUME PagedInv, Counting
  PROVE  /\ firstAt \in Nat /\ ingested \in Nat /\ calledAt \in Nat
         /\ Matching(firstAt) \in Nat /\ Matching(ingested) \in Nat
<1>1. firstAt \in Nat /\ ingested \in Nat /\ calledAt \in Nat
  BY Typed DEF PagedInv, IInv, ReadTypeOK
<1> QED
  BY <1>1, CountGrows DEF Matching

\* A page, a failure or a retry keeps the account.
LEMMA FetchStep ==
  ASSUME PagedInv, FetchPage \/ FetchAgain
  PROVE  ReadTypeOK' /\ CountsPaged'
<1>1. /\ UNCHANGED vars /\ Counting
      /\ firstAt \in 0..Len(log) /\ ingested \in 0..Len(log)
  BY PageRead, PageFails, Typed DEF PagedInv, IInv, ReadTypeOK
<1>2. /\ UNCHANGED <<log, ingested, pc, runStartSeconds, calledAt>>
      /\ Counting' /\ calledAt <= ingested
  BY <1>1 DEF vars, network, Counting, PagedInv, IInv, CountsTrue
<1>3. /\ firstAt \in Nat /\ ingested \in Nat /\ calledAt \in Nat
      /\ Matching(firstAt) \in Nat /\ Matching(ingested) \in Nat
  BY <1>1, Asked
<1>5. CASE FetchPage
  <2> DEFINE left == IF next = -1 THEN Matching(ingested) ELSE next
             first == IF next = -1 THEN ingested ELSE firstAt
  <2>1. /\ reading = "fetching" /\ tries' = tries /\ firstAt' = first
        /\ \/ /\ ~(left < Limit) /\ taken' = taken + Limit
              /\ next' = left - Limit
              /\ reading' = reading /\ answer' = answer
           \/ /\ left < Limit /\ taken' = taken + left /\ next' = next
              /\ reading' = "returned" /\ answer' = taken + left
    BY <1>5, PageRead
  <2>2. /\ first \in 0..Len(log) /\ calledAt <= first /\ first <= ingested
        /\ first \in Nat /\ Matching(first) \in Nat
        /\ left \in Nat /\ left <= Matching(first) /\ taken = Matching(first) - left
    BY <1>1, <1>2, <1>3, <2>1 DEF PagedInv, CountsPaged, ReadTypeOK
  <2>3. Matching(firstAt)' = Matching(first)
    BY <1>2, <2>1 DEF Matching, TransactionType, countSuccessfulTransactions, Counted
  <2> HIDE DEF left, first
  <2>4. CASE left < Limit
    <3>1. /\ taken' = Matching(first) /\ answer' = Matching(first)
          /\ reading' = "returned" /\ next' = next
      BY <2>1, <2>2, <2>4
    <3>2. ReadTypeOK'
      BY <1>2, <2>1, <2>2, <3>1 DEF ReadTypeOK, PagedInv
    <3>3. CountsPaged'
      BY <1>2, <2>1, <2>2, <2>3, <3>1 DEF CountsPaged
    <3> QED
      BY <3>2, <3>3
  <2>5. CASE ~(left < Limit)
    <3>1. /\ next' = left - Limit /\ next' \in Nat /\ next' <= Matching(first)
          /\ taken' = Matching(first) - next' /\ taken' \in Nat
          /\ reading' = "fetching" /\ answer' = answer
      BY <2>1, <2>2, <2>5, PagedAssumption
    <3>2. ReadTypeOK'
      BY <1>2, <2>1, <2>2, <3>1 DEF ReadTypeOK, PagedInv
    <3>3. CountsPaged'
      BY <1>2, <2>1, <2>2, <2>3, <3>1 DEF CountsPaged
    <3> QED
      BY <3>2, <3>3
  <2> QED
    BY <2>4, <2>5
<1>6. CASE FetchAgain
  <2>1. /\ UNCHANGED <<firstAt, answer>>
        /\ \/ /\ reading = "fetching" /\ UNCHANGED <<tries, taken, next>>
              /\ reading' = IF tries = MaxRetries THEN "failed" ELSE "sleeping"
           \/ /\ reading = "sleeping" /\ reading' = "fetching"
              /\ tries' = tries + 1 /\ taken' = 0 /\ next' = -1
    BY <1>6, PageFails
  <2>2. /\ tries \in 1..MaxRetries /\ MaxRetries \in Nat
        /\ reading = "sleeping" => tries < MaxRetries
    BY <1>1, PagedAssumption DEF PagedInv, ReadTypeOK, CountsPaged
  <2>3. ReadTypeOK'
    BY <1>2, <2>1, <2>2 DEF ReadTypeOK, PagedInv
  <2>4. CountsPaged'
    BY <1>1, <1>2, <2>1, <2>2 DEF CountsPaged, PagedInv
  <2> QED
    BY <2>3, <2>4
<1> QED
  BY <1>5, <1>6

\* A call has read nothing yet.
LEMMA CallStep ==
  ASSUME PagedInv, Call, ingested' = ingested, calledAt' = ingested, log' = log
  PROVE  ReadTypeOK' /\ CountsPaged'
<1>1. /\ ingested \in 0..Len(log) /\ ingested <= ingested /\ 1 \in 1..MaxRetries
  BY Typed, PagedAssumption DEF PagedInv, IInv
<1>2. /\ reading' = "fetching" /\ tries' = 1 /\ taken' = 0 /\ next' = -1
      /\ answer' = 0 /\ firstAt' = ingested
  BY DEF Call, Read!NoLink
<1> QED
  BY <1>1, <1>2 DEF ReadTypeOK, CountsPaged

\* The rest of the world: nothing it does changes what was counted.
LEMMA WorldPaged ==
  ASSUME PagedInv, World, UNCHANGED read
  PROVE  ReadTypeOK' /\ CountsPaged'
<1>1. /\ UNCHANGED <<reading, tries, taken, next, answer, firstAt>>
      /\ IInv /\ TypeOK /\ ReadTypeOK
      /\ Len(log) \in Nat /\ ingested \in 0..Len(log) /\ firstAt \in 0..Len(log)
  BY Typed DEF read, PagedInv, IInv, ReadTypeOK
<1>2. CASE \E op \in {"create", "delete"}, by \in {"run", "sweep", "other"}, ok \in BOOLEAN :
             Submit(op, by, ok)
  <2>1. PICK op \in {"create", "delete"}, by \in {"run", "sweep", "other"}, ok \in BOOLEAN :
          Submit(op, by, ok)
    BY <1>2
  <2>2. Len(log') = Len(log) + 1
    BY <1>1, <2>1, Appended
  <2>3. UNCHANGED <<ingested, pc, calledAt>>
    BY <2>1 DEF Submit
  <2>4. Matching(firstAt)' = Matching(firstAt)
    <3>1. \A kind : countSuccessfulTransactions(kind, firstAt)'
                      = countSuccessfulTransactions(kind, firstAt)
      BY <1>1, <2>1, CountStays DEF countSuccessfulTransactions
    <3>2. TransactionType' = TransactionType
      BY <2>3 DEF TransactionType
    <3> QED
      BY <3>1, <3>2 DEF Matching, countSuccessfulTransactions
  <2>5. ReadTypeOK'
    BY <1>1, <2>2 DEF ReadTypeOK
  <2>6. CountsPaged'
    BY <1>1, <2>3, <2>4 DEF CountsPaged, Counting, PagedInv
  <2> QED
    BY <2>5, <2>6
<1>3. CASE Tick \/ Ingest
  <2>1. /\ UNCHANGED <<log, pc, calledAt, runStartSeconds>>
        /\ ingested' = ingested \/ ingested' = ingested + 1
    BY <1>3 DEF Tick, Ingest
  <2>2. Matching(firstAt)' = Matching(firstAt)
    BY <1>1, <2>1 DEF Matching, TransactionType, countSuccessfulTransactions, Counted
  <2>3. firstAt <= ingested => firstAt <= ingested'
    BY <1>1, <2>1
  <2>4. CountsPaged'
    BY <1>1, <2>1, <2>2, <2>3 DEF CountsPaged, Counting, PagedInv
  <2> QED
    BY <1>1, <2>1, <2>4 DEF ReadTypeOK
<1>4. CASE StampStart
  <2>1. log' = log /\ ~Counting'
    BY <1>4 DEF StampStart, Counting, network
  <2> QED
    BY <1>1, <2>1 DEF ReadTypeOK, CountsPaged
<1>5. OtherTx \/ RunTx \/ SweepTx =>
        \E op \in {"create", "delete"}, by \in {"run", "sweep", "other"}, ok \in BOOLEAN :
          Submit(op, by, ok)
  BY DEF OtherTx, RunTx, SweepTx
<1> QED
  BY <1>2, <1>3, <1>4, <1>5 DEF World

\* Every step is one of LeakCheck's or leaves its variables alone: an answer is
\* the count of a moment between the call and now.
LEMMA PagedIsLeakStep ==
  ASSUME PagedInv, [PagedNext]_pagedVars
  PROVE  [Next]_vars
<1>1. CASE World \/ CallFirst \/ PagedPoll \/ PagedFails
  BY <1>1 DEF World, CallFirst, PagedPoll, PagedFails, Next, Teardown
<1>2. CASE FetchPage \/ FetchAgain
  BY <1>2 DEF FetchPage, FetchAgain
<1>3. CASE PagedCreated \/ PagedDeleted
  <2>1. Counting /\ reading = "returned"
    BY <1>3 DEF PagedCreated, PagedDeleted, Created, Deleted, Counting
  <2>2. /\ firstAt \in calledAt..ingested
        /\ answer = Matching(firstAt)
    BY <2>1, Asked DEF PagedInv, CountsPaged
  <2>3. CASE PagedCreated
    <3>1. Created(answer, firstAt) /\ pc = "created"
      BY <2>3 DEF PagedCreated, Created
    <3>2. answer = countSuccessfulTransactions("create", firstAt)
      BY <2>2, <3>1 DEF Matching, TransactionType
    <3> QED
      BY <2>2, <3>1, <3>2 DEF CountCreated, Teardown, Next
  <2>4. CASE PagedDeleted
    <3>1. Deleted(answer, firstAt) /\ pc = "deleted"
      BY <2>4 DEF PagedDeleted, Deleted
    <3>2. answer = countSuccessfulTransactions("delete", firstAt)
      BY <2>2, <3>1 DEF Matching, TransactionType
    <3> QED
      BY <2>2, <3>1, <3>2 DEF CountDeleted, Teardown, Next
  <2> QED
    BY <1>3, <2>3, <2>4
<1>4. CASE UNCHANGED pagedVars
  BY <1>4 DEF pagedVars
<1> QED
  BY <1>1, <1>2, <1>3, <1>4 DEF PagedNext, PagedTeardown

\* The invariant of the paged check holds at first and is kept.
LEMMA PagedBegins == PagedInit => PagedInv
BY LeakInit, PagedAssumption
   DEF PagedInit, PagedInv, Init, ReadTypeOK, CountsPaged, Counting, Read!NoLink

LEMMA PagedStep ==
  ASSUME PagedInv, [PagedNext]_pagedVars
  PROVE  PagedInv'
<1>1. IInv'
  BY PagedIsLeakStep, LeakStep DEF PagedInv
<1>2. CASE World /\ UNCHANGED read
  BY <1>1, <1>2, WorldPaged DEF PagedInv
<1>3. CASE CallFirst \/ PagedCreated \/ (PagedPoll /\ pc' = "created")
  <2>1. /\ Call /\ log' = log /\ ingested' = ingested /\ calledAt' = ingested
    BY <1>3 DEF CallFirst, TestsEnd, PagedCreated, Created, PagedPoll, NextPoll, network
  <2> QED
    BY <1>1, <2>1, CallStep DEF PagedInv
<1>4. CASE PagedDeleted \/ PagedFails \/ (PagedPoll /\ pc' # "created")
  <2>1. /\ UNCHANGED <<reading, tries, taken, next, answer, firstAt, log>>
        /\ ~Counting'
    BY <1>4 DEF PagedDeleted, Deleted, PagedFails, QueryFails, PagedPoll, NextPoll, network,
                read, Counting
  <2> QED
    BY <1>1, <2>1 DEF PagedInv, ReadTypeOK, CountsPaged
<1>5. CASE FetchPage \/ FetchAgain
  BY <1>1, <1>5, FetchStep DEF PagedInv
<1>6. CASE UNCHANGED pagedVars
  BY <1>1, <1>6 DEF pagedVars, vars, network, read, PagedInv, ReadTypeOK, CountsPaged, Counting,
                    Matching, TransactionType, countSuccessfulTransactions, Counted
<1> QED
  BY <1>2, <1>3, <1>4, <1>5, <1>6 DEF PagedNext, PagedTeardown

\* For every page size, retry budget and growth of the mirror, the paged check
\* does only what a check with single looks at the mirror may do.
THEOREM PagedImplementsLeakCheck == PagedSpec => ImplementsLeakCheck
<1>1. PagedInit => Init
  BY DEF PagedInit
<1>2. PagedInv /\ [PagedNext]_pagedVars => [Next]_vars
  BY PagedIsLeakStep
<1>3. PagedInv /\ [PagedNext]_pagedVars => PagedInv'
  BY PagedStep
<1> QED
  BY <1>1, <1>2, <1>3, PagedBegins, PTL DEF PagedSpec, Spec, ImplementsLeakCheck

\* So all that holds of the check with single looks holds of the check with the
\* pages and the retries, and the call it waits for has its types.
THEOREM PagedSafe ==
  PagedSpec => [](PagedTypeOK /\ NoFalseAlarmAtReads /\ ZeroIsClean /\ LeaksAreReal
                  /\ SummaryExplained)
<1>1. PagedInv => ReadTypeOK
  BY DEF PagedInv
<1>2. PagedInv /\ [PagedNext]_pagedVars => PagedInv'
  BY PagedStep
<1>3. TypeOK /\ ReadTypeOK => PagedTypeOK
  BY DEF ReadTypeOK, PagedTypeOK, Read!NoLink
<1> QED
  BY <1>1, <1>2, <1>3, PagedBegins, PagedImplementsLeakCheck, LeakCheckSafe, PTL
     DEF PagedSpec, ImplementsLeakCheck
=============================================================================
