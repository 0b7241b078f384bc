-------------------------- MODULE MirrorReadProofs --------------------------
(* Proofs about MirrorRead, for every retry budget, page size and stream. *)
EXTENDS MirrorRead, TLAPS

\* What a call has read of a growing result.  Newest first: everything of the
\* first page's snapshot above the link.  By ascending id: everything up to it.
Progress ==
  pc = "fetching" /\ Pages(query) =>
    /\ next = NoLink => taken = 0
    /\ next # NoLink /\ NewestFirst => next <= snap /\ taken = snap - next
    /\ next # NoLink /\ ~NewestFirst => next <= stream /\ taken = next

\* A call that will be retried has attempts left.
RetriesLeft == pc = "sleeping" => attempt < MaxRetries

IInv == TypeOK /\ RetriesLeft /\ Progress /\ AnswerIsSnapshot

\* A call starts with nothing read.
LEMMA ReadInit == Init => IInv
BY ReadAssumption DEF Init, IInv, TypeOK, RetriesLeft, Progress, AnswerIsSnapshot, NoLink, Query

\* Every page, failure, fallback and retry keeps the account of what was read.
LEMMA ReadNext == IInv /\ [Next]_vars => IInv'
<1> SUFFICES ASSUME IInv, [Next]_vars PROVE IInv'
    OBVIOUS
<1> USE ReadAssumption
<1>1. CASE Grow
  BY <1>1 DEF Grow, IInv, TypeOK, RetriesLeft, Progress, AnswerIsSnapshot,
     NoLink, NewestFirst, Pages
<1>2. CASE ReadEntity
  BY <1>2 DEF ReadEntity, Return, IInv, TypeOK, RetriesLeft, Progress, AnswerIsSnapshot,
     NoLink, NewestFirst, Pages, Query
<1>3. CASE ReadPage
  <2>1. Left \in Nat /\ Page \in Nat /\ Page <= Left /\ Page <= Limit
    BY <1>3 DEF ReadPage, Left, Page, AtMost, NewestFirst, IInv, TypeOK,
       RetriesLeft, Progress, NoLink
  <2>2. CASE Page = Limit /\ next' = LinkAfter
             /\ UNCHANGED <<stream, query, pc, attempt, server, answer, calledAt>>
    BY <1>3, <2>1, <2>2 DEF ReadPage, Left, LinkAfter, NewestFirst, IInv, TypeOK,
       RetriesLeft, Progress, AnswerIsSnapshot, NoLink, Pages
  <2>3. CASE Page < Limit /\ Return(taken + Page)
    <3>1. Page = Left
      BY <2>1, <2>3 DEF Page, AtMost
    <3>2. QED
      BY <1>3, <2>1, <2>3, <3>1 DEF ReadPage, Return, Left, NewestFirst, IInv,
         TypeOK, RetriesLeft, Progress, AnswerIsSnapshot, NoLink, Pages
  <2>4. QED
    BY <1>3, <2>2, <2>3 DEF ReadPage
<1>4. CASE FetchFails
  BY <1>4 DEF FetchFails, StartOver, GivesUp, IInv, TypeOK, RetriesLeft, Progress,
     AnswerIsSnapshot, NoLink, NewestFirst, Pages
<1>5. CASE Retry
  BY <1>5 DEF Retry, StartOver, IInv, TypeOK, RetriesLeft, Progress, AnswerIsSnapshot,
     NoLink, NewestFirst, Pages
<1>6. CASE UNCHANGED vars
  BY <1>6 DEF vars, IInv, TypeOK, RetriesLeft, Progress, AnswerIsSnapshot,
     NoLink, NewestFirst, Pages
<1>7. QED
  BY <1>1, <1>2, <1>3, <1>4, <1>5, <1>6 DEF Next, Call

\* Whatever the retry budget, the page size and the growth of the result, and
\* wherever a page fails, an answer is a snapshot, and a count the snapshot of
\* the first page of its last attempt.
THEOREM ReadSafe == Spec => [](TypeOK /\ AnswerIsSnapshot)
<1>1. IInv => TypeOK /\ AnswerIsSnapshot
  BY DEF IInv
<1>2. QED
  BY ReadInit, ReadNext, <1>1, PTL DEF Spec
=============================================================================
