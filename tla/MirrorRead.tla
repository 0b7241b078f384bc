----------------------------- MODULE MirrorRead -----------------------------
(***************************************************************************)
(* One call of MirrorNodeClient: retryOnError around a read of the mirror's*)
(* REST API, which may page through a result that grows meanwhile and may  *)
(* fall back to an older server (services/MirrorNodeClient.ts,             *)
(* utils/helpers/retry-on-error.ts, utils/helpers/fetch-data.ts).          *)
(*                                                                         *)
(* What is read is a stream of items 1..stream that only grows: matching   *)
(* transactions in consensus order, nodes of the address book by id, or the*)
(* versions of an entity.  An answer is the number of items in it, or the  *)
(* version; both servers read the same database.                           *)
(***************************************************************************)
EXTENDS Integers, FiniteSets

CONSTANTS
  MaxRetries,   \* 20 unless the caller says otherwise
  Limit,        \* items in a page: 100
  MaxStream     \* bound: length of the stream

ASSUME ReadAssumption ==
  /\ MaxRetries \in Nat \ {0} /\ Limit \in Nat \ {0} /\ MaxStream \in Nat

\* The kinds of call: a plain getter, getNodeData, countSuccessfulTransactions
\* and getAllNetworkNodeIds.
Query == {"get", "node", "count", "list"}
HasFallback(q) == q \in {"node", "list"}
Pages(q) == q \in {"count", "list"}

VARIABLES
  stream,      \* the mirror's items
  query,       \* the call made
  pc,          \* "fetching" a page, "sleeping" before a retry, or the end
  attempt, server,
  taken,       \* items on the pages read so far
  next,        \* links.next: read the items up to or above this one
  answer,
  calledAt, snap  \* history: the stream at the call and at the first page

vars == <<stream, query, pc, attempt, server, taken, next, answer, calledAt, snap>>

NoLink == -1
Ended == pc \in {"returned", "failed"}

Init ==
  /\ stream \in 0..MaxStream
  /\ query \in Query
  /\ pc = "fetching" /\ attempt = 1 /\ server = "first"
  /\ taken = 0 /\ next = NoLink /\ answer = 0
  /\ calledAt = stream /\ snap = stream

Grow ==
  /\ stream < MaxStream
  /\ stream' = stream + 1
  /\ UNCHANGED <<query, pc, attempt, server, taken, next, answer, calledAt, snap>>

AtMost(a, b) == IF a < b THEN a ELSE b

\* Transactions come newest first, so the link excludes what came meanwhile;
\* nodes come by ascending id.
\* Mutant: transactions are asked for in ascending order.
OldestFirst == FALSE
NewestFirst == query = "count"

\* A full page has a link, also when nothing is left behind it.
Left == IF NewestFirst THEN (IF next = NoLink THEN stream ELSE next)
        ELSE stream - (IF next = NoLink THEN 0 ELSE next)
Page == AtMost(Left, Limit)
LinkAfter == IF NewestFirst THEN Left - Limit
             ELSE (IF next = NoLink THEN 0 ELSE next) + Limit

Return(v) ==
  /\ pc' = "returned" /\ answer' = v
  /\ UNCHANGED <<stream, query, attempt, server, next, calledAt>>

ReadEntity ==
  /\ pc = "fetching" /\ ~Pages(query)
  /\ Return(stream)
  /\ UNCHANGED <<taken, snap>>

\* The while loop of the paging calls.
ReadPage ==
  /\ pc = "fetching" /\ Pages(query)
  /\ taken' = taken + Page
  /\ snap' = IF next = NoLink THEN stream ELSE snap
  /\ \/ /\ Page = Limit
        /\ next' = LinkAfter
        /\ UNCHANGED <<stream, query, pc, attempt, server, answer, calledAt>>
     \/ Page < Limit /\ Return(taken + Page)

\* Mutant: the count lives outside the closure.
KeepCount == taken' = taken /\ next' = NoLink

\* count, nodeIds and path live inside the closure.
StartOver == taken' = 0 /\ next' = NoLink

\* Mutant: one attempt too many.
GivesUpLate == attempt > MaxRetries
GivesUp == attempt = MaxRetries

\* The fetch of a page failed, at any page: the older server, or the catch of
\* retryOnError.
FetchFails ==
  /\ pc = "fetching"
  /\ \/ /\ HasFallback(query) /\ server = "first"
        /\ server' = "legacy" /\ UNCHANGED pc
        /\ StartOver
     \/ /\ ~(HasFallback(query) /\ server = "first")
        /\ pc' = IF GivesUp THEN "failed" ELSE "sleeping"
        /\ UNCHANGED <<server, taken, next>>
  /\ UNCHANGED <<stream, query, attempt, answer, calledAt, snap>>

\* Mutant: attempts are not counted.
RetryForever ==
  /\ pc = "sleeping"
  /\ pc' = "fetching" /\ server' = "first"
  /\ StartOver
  /\ UNCHANGED <<stream, query, attempt, answer, calledAt, snap>>

Retry ==
  /\ pc = "sleeping"
  /\ attempt' = attempt + 1
  /\ pc' = "fetching" /\ server' = "first"
  /\ StartOver
  /\ UNCHANGED <<stream, query, answer, calledAt, snap>>

Call == ReadEntity \/ ReadPage \/ FetchFails \/ Retry
Next == Grow \/ Call

Spec == Init /\ [][Next]_vars

\* Every fetch ends with a page or an error and the timers fire.
CallSpec == Spec /\ WF_vars(Call)

-----------------------------------------------------------------------------
\* Properties

\* Type invariant of the call.
TypeOK ==
  /\ stream \in 0..MaxStream
  /\ query \in Query
  /\ pc \in {"fetching", "sleeping", "returned", "failed"}
  /\ attempt \in 1..MaxRetries
  /\ server \in {"first", "legacy"}
  /\ taken \in Nat /\ next \in Nat \cup {NoLink} /\ answer \in Nat
  /\ calledAt \in 0..stream /\ snap \in calledAt..stream

\* An answer is what the mirror had at one moment of the call: pages of a
\* growing result, failures in the middle of it, restarts and the fallback add
\* up to a snapshot, with no item missed or counted twice.  A count is that of
\* its first page, however long the pages behind it took.
AnswerIsSnapshot ==
  pc = "returned" =>
    /\ answer \in calledAt..stream
    /\ query = "count" => answer = snap

\* The call ends, with an answer or with the last error.
CallEnds == <>Ended
=============================================================================
