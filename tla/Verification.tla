---------------------------- MODULE Verification ----------------------------
(***************************************************************************)
(* One call of a verify... helper by a test: what the test did is read     *)
(* back from a consensus node and then from the mirror, which may not have *)
(* ingested it (utils/helpers/transfer.ts, token.ts, allowances.ts,        *)
(* custom-fees.ts, verify-contract-tx.ts, verify-token-tx.ts,              *)
(* verify-topic-tx.ts, over retry-on-error.ts and MirrorNodeClient.ts).    *)
(*                                                                         *)
(* A helper looks at one quantity: a balance, a key, a flag, an allowance, *)
(* whether an account has an NFT.  It takes values in Value; Absent is a   *)
(* missing relation, NFT or key.  The comparison of the fields that make   *)
(* up a value, and the search for it in a list, are equality here.         *)
(***************************************************************************)
EXTENDS Integers, Sequences

CONSTANTS
  Value,        \* what the quantity can be
  Zero, Absent, \* two of them
  Error,        \* the outcome of a query that throws
  MaxRetries,   \* of retryOnError: 20
  MaxChanges    \* bound: length of the quantity's history

ASSUME VerificationAssumption ==
  /\ {Zero, Absent} \subseteq Value /\ Zero # Absent /\ Error \notin Value
  /\ MaxRetries \in Nat \ {0} /\ MaxChanges \in Nat \ {0}

-----------------------------------------------------------------------------
\* The helpers.
\*   consensus  the consensus read: "none", of the "value", or of one that
\*              "throws" for what does not exist
\*   late       its value is judged only when the mirror has answered too
\*   zeroed     a missing quantity is a zero one
\*   reads      the endpoints of its mirror reads, in order: "entity" answers
\*              404, which throws, for what the mirror does not know; "list"
\*              answers with a list that lacks it
\*   retried    each of them is within a retryOnError of the helper, on top of
\*              the one in the client's getter
\*   expects    what can be asked for: "any" value, one "present", one "absent"

Plain == [consensus |-> "value", late |-> FALSE, zeroed |-> FALSE,
          reads |-> <<"entity">>, retried |-> FALSE, expects |-> "any"]

verifyHbarBalance == [Plain EXCEPT !.late = TRUE, !.expects = "present"]
verifyTokenBalance == [Plain EXCEPT !.late = TRUE, !.zeroed = TRUE, !.expects = "present"]
verifyNftBalance == [Plain EXCEPT !.late = TRUE, !.reads = <<"list">>]
verifyAirdrop ==
  [Plain EXCEPT !.consensus = "none", !.reads = <<"list", "list">>, !.expects = "present"]

verifyTokenIsDeleted == [Plain EXCEPT !.expects = "present"]
verifyFungibleTokenMint ==
  [Plain EXCEPT !.reads = <<"list">>, !.retried = TRUE, !.expects = "present"]
verifyNonFungibleTokenMint == verifyFungibleTokenMint
verifyFungibleTokenBurn == verifyFungibleTokenMint
verifyNonFungibleTokenBurn ==
  [Plain EXCEPT !.consensus = "throws", !.reads = <<"list">>, !.retried = TRUE,
                !.expects = "absent"]
verifyFungibleTokenWipe ==
  [Plain EXCEPT !.reads = <<"list", "entity">>, !.retried = TRUE, !.expects = "present"]
verifyNonFungibleTokenWipe == verifyNonFungibleTokenBurn

\* verifyHbarAllowance, verifyTokenAllowance, verifyNftAllowance,
\* verifyApprovedForAllAllowance, verifyNoNftAllowance
verifyAllowance == [Plain EXCEPT !.consensus = "none", !.reads = <<"list">>]

\* verifyTokenCreationWithFixedFee, -FractionalFee, -RoyaltyFee
verifyTokenCreationWithFee == [Plain EXCEPT !.late = TRUE, !.expects = "present"]

\* verifyTokenKey and the other functions of verify-token-tx.ts that query, and
\* likewise of verify-topic-tx.ts and verify-contract-tx.ts.
verifyToken == Plain
verifyTopic == Plain
verifyContract == Plain
verifyContractCreateWithNullKey == [Plain EXCEPT !.retried = TRUE, !.expects = "absent"]

Helpers ==
  {verifyHbarBalance, verifyTokenBalance, verifyNftBalance, verifyAirdrop,
   verifyTokenIsDeleted, verifyFungibleTokenMint, verifyNonFungibleTokenMint,
   verifyFungibleTokenBurn, verifyNonFungibleTokenBurn, verifyFungibleTokenWipe,
   verifyNonFungibleTokenWipe, verifyAllowance, verifyTokenCreationWithFee,
   verifyToken, verifyTopic, verifyContract, verifyContractCreateWithNullKey}

Expectable(h) ==
  {v \in Value : /\ h.expects = "present" => v # Absent
                 /\ h.expects = "absent" => v = Absent}

\* How a test calls it: by itself; in retryOnError(async () => verify...()); or
\* in retryOnError(async () => { verify...(); }), which drops its promise.
Wrapping == {"bare", "retried", "dropped"}
Wrappings(h) ==
  {w \in Wrapping : w = "dropped" => h \in {verifyTokenIsDeleted, verifyToken, verifyTopic}}

-----------------------------------------------------------------------------
VARIABLES
  history,      \* the quantity's values on consensus, the last one present
  known,        \* the mirror has the first so many of them
  helper, expected, wrapping, \* the call
  pc,           \* "consensus", "mirror", "sleep" (in a getter), "sleepOuter" (in
                \* the helper), "sleepWhole" (in the test), "passed", "failed"
  read,         \* the mirror read it is at
  inner, outer, whole, \* attempts of the getter, of the helper and of the test
  delays,       \* 250 ms delays so far
  consensusSaw, \* what the consensus read of this attempt answered
  verdict,      \* of the test: "running", "passed", "failed"
  mirrorKnew,   \* history: known at the last mirror read
  disturbed     \* history: a query of this attempt failed for a reason of its own

world == <<history, known>>
call == <<helper, expected, wrapping>>
attempts == <<read, inner, outer, whole, delays>>
vars == <<world, call, pc, attempts, consensusSaw, verdict, mirrorKnew, disturbed>>

Present == history[Len(history)]
First == IF helper.consensus = "none" THEN "mirror" ELSE "consensus"

Init ==
  /\ \E n \in 1..MaxChanges : history \in [1..n -> Value]
  /\ known \in 0..Len(history)
  /\ helper \in Helpers /\ expected \in Expectable(helper)
  /\ wrapping \in Wrappings(helper)
  /\ pc = First
  /\ read = 1 /\ inner = 1 /\ outer = 1 /\ whole = 1 /\ delays = 0
  /\ consensusSaw = Error /\ verdict = "running"
  /\ mirrorKnew = 0 /\ disturbed = FALSE

\* The mirror's importer.
Ingest ==
  /\ known < Len(history)
  /\ known' = known + 1
  /\ UNCHANGED <<history, call, pc, attempts, consensusSaw, verdict, mirrorKnew, disturbed>>

-----------------------------------------------------------------------------
\* How what was read is judged.

\* Mutant: a missing quantity is not zero.
EqualStrictly(v) == v = expected
EqualOrZero(v) == IF v \in {Absent, Zero} THEN expected = Zero ELSE v = expected

ConsensusAgrees(v) ==
  CASE helper.consensus = "throws" -> v \in {Error, Absent}
    [] helper.consensus = "none"   -> TRUE
    [] OTHER -> v # Error /\ IF helper.zeroed THEN EqualOrZero(v) ELSE v = expected

\* Mutant: a value that was not found agrees with anything.
MirrorAgreesIfAbsent(v) == v = expected \/ v = Absent
MirrorAgrees(v) == v = expected \/ (helper.zeroed /\ expected = Zero)

-----------------------------------------------------------------------------
\* retryOnError

\* Another attempt after one that threw.
\* Mutant: one attempt too many.
AgainLate(attempt) == attempt <= MaxRetries
Again(attempt) == attempt < MaxRetries

\* Where a throw leads: from the helper, from one of its mirror reads.
HelperThrows == IF wrapping = "retried" /\ Again(whole) THEN "sleepWhole" ELSE "failed"
ReadThrows == IF helper.retried /\ Again(outer) THEN "sleepOuter" ELSE HelperThrows

\* The test has the helper's outcome, unless it dropped the promise.
Settle == verdict' = IF wrapping # "dropped" /\ pc' \in {"passed", "failed"}
                     THEN pc' ELSE verdict

\* retryOnError has its undefined before the first query is answered.
Resumed == wrapping = "dropped" => verdict # "running"
WrapperReturns ==
  /\ ~Resumed
  /\ verdict' = "passed"
  /\ UNCHANGED <<world, call, pc, attempts, consensusSaw, mirrorKnew, disturbed>>

-----------------------------------------------------------------------------
\* The helper

\* Mutant: what was read is not judged.
ReadConsensusUnjudged ==
  /\ pc = "consensus"
  /\ consensusSaw' \in {Present, Error}
  /\ disturbed' = (consensusSaw' = Error)
  /\ pc' = "mirror"
  /\ Settle
  /\ UNCHANGED <<world, call, attempts, mirrorKnew>>

\* A query can fail whatever the quantity is.
ReadConsensus ==
  /\ pc = "consensus"
  /\ consensusSaw' \in {Present, Error}
  /\ disturbed' = (consensusSaw' = Error)
  /\ pc' = IF ConsensusAgrees(consensusSaw') \/ (helper.late /\ consensusSaw' # Error)
           THEN "mirror" ELSE HelperThrows
  /\ Settle
  /\ UNCHANGED <<world, call, attempts, mirrorKnew>>

Unknown == helper.reads[read] = "entity" /\ known = 0
Shown == IF known = 0 THEN Absent ELSE history[known]
BothAgree == MirrorAgrees(Shown) /\ (helper.late => ConsensusAgrees(consensusSaw))

\* The getter's fetch answered.
ReadMirror ==
  /\ pc = "mirror" /\ ~Unknown
  /\ mirrorKnew' = known
  /\ \/ /\ BothAgree /\ read < Len(helper.reads)
        /\ read' = read + 1 /\ inner' = 1 /\ outer' = 1
        /\ UNCHANGED <<pc, whole, delays>>
     \/ /\ BothAgree /\ read = Len(helper.reads)
        /\ pc' = "passed"
        /\ UNCHANGED attempts
     \/ /\ ~BothAgree
        /\ pc' = ReadThrows
        /\ UNCHANGED attempts
  /\ Settle
  /\ UNCHANGED <<world, call, consensusSaw, disturbed>>

\* The getter's fetch threw: 404, or the transport.
FetchThrows ==
  /\ pc = "mirror"
  /\ disturbed' = (disturbed \/ ~Unknown)
  /\ mirrorKnew' = known
  /\ pc' = IF Again(inner) THEN "sleep" ELSE ReadThrows
  /\ Settle
  /\ UNCHANGED <<world, call, attempts, consensusSaw>>

\* Mutant: the attempt is not counted.
WakeUncounted ==
  /\ pc \in {"sleep", "sleepOuter"}
  /\ pc' = "mirror"
  /\ delays' = delays /\ inner' = 1
  /\ UNCHANGED <<world, call, read, outer, whole, consensusSaw, verdict, mirrorKnew, disturbed>>

\* A delay is over.  A new attempt of the helper calls the getter anew.
Wake ==
  /\ pc \in {"sleep", "sleepOuter"}
  /\ pc' = "mirror"
  /\ delays' = delays + 1
  /\ inner' = IF pc = "sleep" THEN inner + 1 ELSE 1
  /\ outer' = IF pc = "sleepOuter" THEN outer + 1 ELSE outer
  /\ UNCHANGED <<world, call, read, whole, consensusSaw, verdict, mirrorKnew, disturbed>>

\* A new attempt of the test calls the helper anew.
WakeWhole ==
  /\ pc = "sleepWhole"
  /\ pc' = First
  /\ delays' = delays + 1
  /\ read' = 1 /\ inner' = 1 /\ outer' = 1 /\ whole' = whole + 1
  /\ disturbed' = FALSE
  /\ UNCHANGED <<world, call, consensusSaw, verdict, mirrorKnew>>

Call == Resumed /\ (ReadConsensus \/ ReadMirror \/ FetchThrows \/ Wake \/ WakeWhole)
Next == Ingest \/ WrapperReturns \/ Call

Spec == Init /\ [][Next]_vars

\* Queries end in some way, timers fire and promises are resolved.
CallSpec == Spec /\ WF_vars(WrapperReturns \/ Call)

-----------------------------------------------------------------------------
\* Properties

\* Type invariant of the call and what it reads.
TypeOK ==
  /\ history \in Seq(Value) /\ Len(history) > 0
  /\ known \in 0..Len(history) /\ mirrorKnew \in 0..known
  /\ helper \in Helpers /\ expected \in Expectable(helper)
  /\ wrapping \in Wrappings(helper)
  /\ pc \in {"consensus", "mirror", "sleep", "sleepOuter", "sleepWhole", "passed", "failed"}
  /\ read \in 1..Len(helper.reads)
  /\ inner \in 1..MaxRetries /\ outer \in 1..MaxRetries /\ whole \in 1..MaxRetries
  /\ delays \in Nat /\ consensusSaw \in Value \cup {Error}
  /\ verdict \in {"running", "passed", "failed"} /\ disturbed \in BOOLEAN

Zeroed(v) == IF v = Absent /\ helper.zeroed THEN Zero ELSE v

\* A helper with a consensus read passes only if the network is as expected,
\* whatever else fails, but for one case: the two helpers that take any error of
\* that read for the absence of the NFT (token.ts:279-287, 378-386) also pass
\* when it failed and the mirror has not seen the NFT minted or shows it gone.
PassIsTrue ==
  pc = "passed" /\ helper.consensus # "none" =>
    \/ Zeroed(Present) = expected
    \/ /\ helper.consensus = "throws" /\ consensusSaw = Error
       /\ mirrorKnew > 0 => history[mirrorKnew] = Absent

\* If the quantity never before had the value expected, a helper that passes
\* has seen the mirror catch up with the transaction under test: the mirror's
\* half of the check is not empty (token.ts:119-149 and the like).  It is for
\* verifyTokenBalance of zero, which agrees with whatever the mirror shows
\* (transfer.ts:36-45), and for what should be missing from a list.
FreshPassIsCaughtUp ==
  /\ pc = "passed" /\ Present = expected
  /\ \A i \in 1..(Len(history) - 1) : history[i] # expected
  /\ expected = Absent => helper.reads[read] = "entity"
  /\ expected = Zero => ~helper.zeroed
  => mirrorKnew = Len(history)

\* A helper whose quantity is as expected fails only if a query of the last
\* attempt failed or its last mirror read was behind: neither the retries of
\* retry-on-error.ts nor the rules for missing quantities lose a good answer.
FailureHasReason ==
  pc = "failed" /\ Zeroed(Present) = expected
    => disturbed \/ mirrorKnew < Len(history)

\* How long a call can wait: the retries of getters, helpers and tests
\* multiply (retry-on-error.ts:13-33).
DelaysBounded ==
  LET once == IF helper.retried THEN MaxRetries * MaxRetries - 1 ELSE MaxRetries - 1
  IN  delays <= (whole - 1) * (once * Len(helper.reads) + 1) + once * read

\* The call ends, and the test with it (retry-on-error.ts:20-33).
HelperEnds == <>(pc \in {"passed", "failed"} /\ verdict # "running")

\* What docs/design.md:19 says of a test: "If the mirror node confirms the data,
\* the test is marked as passed; otherwise, it's marked as failed."
MarkedAsVerified == pc = "failed" => verdict = "failed"
=============================================================================
