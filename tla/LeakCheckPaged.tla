---------------------------- MODULE LeakCheckPaged ----------------------------
(***************************************************************************)
(* The leak check with the mirror client it calls: each count is a call of *)
(* MirrorRead, a paged read of the transactions of one type that starts    *)
(* over when a page fails, while the mirror goes on ingesting.  It is      *)
(* shown to implement LeakCheck, where a count is one look at the mirror.  *)
(***************************************************************************)
EXTENDS LeakCheck

CONSTANTS
  MaxRetries,  \* of a count: 20
  Limit        \* transactions in a page: 100

ASSUME PagedAssumption == MaxRetries \in Nat \ {0} /\ Limit \in Nat \ {0}

VARIABLES
  reading, tries, taken, next, answer,  \* the call, as in MirrorRead
  firstAt      \* history: what the mirror had at the first page of the attempt

read == <<reading, tries, taken, next, answer, firstAt>>
pagedVars == <<vars, read>>

\* What the count in flight counts.
TransactionType == IF pc = "created" THEN "create" ELSE "delete"
Matching(p) == countSuccessfulTransactions(TransactionType, p)

Read == INSTANCE MirrorRead WITH
  MaxStream <- MaxTx, stream <- Matching(ingested),
  query <- "count", server <- "first", pc <- reading, attempt <- tries,
  calledAt <- Matching(calledAt), snap <- Matching(firstAt)

PagedInit ==
  /\ Init
  /\ reading = "returned" /\ tries = 1 /\ taken = 0 /\ next = Read!NoLink
  /\ answer = 0 /\ firstAt = 0

-----------------------------------------------------------------------------
\* A count.

Call ==
  /\ reading' = "fetching" /\ tries' = 1 /\ taken' = 0 /\ next' = Read!NoLink
  /\ answer' = 0 /\ firstAt' = ingested

Counting == pc \in {"created", "deleted"}

FetchPage ==
  /\ Counting
  /\ UNCHANGED vars
  /\ firstAt' = IF next = Read!NoLink THEN ingested ELSE firstAt
  /\ Read!ReadPage

FetchAgain ==
  /\ Counting
  /\ UNCHANGED <<vars, firstAt>>
  /\ Read!FetchFails \/ Read!Retry

-----------------------------------------------------------------------------
\* Global teardown: a call follows at once on what it waits for.

CallFirst == TestsEnd /\ Call
PagedCreated == reading = "returned" /\ Created(answer, firstAt) /\ Call
PagedDeleted == reading = "returned" /\ Deleted(answer, firstAt) /\ UNCHANGED read
PagedPoll == NextPoll /\ IF pc' = "created" THEN Call ELSE UNCHANGED read
PagedFails == reading = "failed" /\ QueryFails /\ UNCHANGED read

PagedTeardown ==
  FetchPage \/ FetchAgain \/ PagedCreated \/ PagedDeleted \/ PagedPoll \/ PagedFails

World == OtherTx \/ RunTx \/ SweepTx \/ Tick \/ Ingest \/ StampStart

PagedNext == (World /\ UNCHANGED read) \/ CallFirst \/ PagedTeardown

PagedSpec == PagedInit /\ [][PagedNext]_pagedVars

\* Every fetch ends with a page or an error and the timers fire.
PagedTeardownSpec == PagedSpec /\ WF_pagedVars(PagedTeardown)

-----------------------------------------------------------------------------
\* Properties

\* Type invariant of the check and of the call it waits for.
PagedTypeOK ==
  /\ TypeOK
  /\ reading \in {"fetching", "sleeping", "returned", "failed"}
  /\ tries \in 1..MaxRetries
  /\ taken \in Nat /\ next \in Nat \cup {Read!NoLink} /\ answer \in Nat
  /\ firstAt \in 0..Len(log)

\* A count over pages that come while the mirror ingests, with retries from the
\* first one, does what one look at the mirror between call and answer does.
ImplementsLeakCheck == Spec
=============================================================================
