------------------------- MODULE VerificationProofs -------------------------
(* Safety of a call of a verify... helper, for every set of values, history  *)
(* and number of retries.                                                    *)
EXTENDS Verification, TLAPS

\* What an attempt past its consensus read knows of the network.
Judged ==
  pc \in {"mirror", "sleep", "sleepOuter"} /\ helper.consensus # "none" =>
    /\ \/ consensusSaw = Present
       \/ helper.consensus = "throws" /\ consensusSaw = Error /\ disturbed
    /\ helper.late \/ ConsensusAgrees(consensusSaw)

\* Who is asleep has an attempt left; who is at the consensus read has one.
Awaited ==
  /\ pc = "sleep" => inner < MaxRetries
  /\ pc = "sleepOuter" => outer < MaxRetries
  /\ pc = "sleepWhole" => whole < MaxRetries
  /\ pc = "consensus" => helper.consensus # "none"

IInv == TypeOK /\ Awaited /\ Judged /\ PassIsTrue /\ FreshPassIsCaughtUp /\ FailureHasReason

-----------------------------------------------------------------------------
\* The table of the helpers of transfer.ts, token.ts and the other files: the
\* combinations of traits that occur.
LEMMA HelperTraits ==
  ASSUME NEW h \in Helpers
  PROVE  /\ h.consensus \in {"none", "value", "throws"}
         /\ h.late \in BOOLEAN /\ h.zeroed \in BOOLEAN /\ h.retried \in BOOLEAN
         /\ h.reads \in Seq({"entity", "list"}) /\ Len(h.reads) > 0
         /\ h.consensus = "throws" => h.expects = "absent"
         /\ h.zeroed \/ h.late => h.consensus = "value"
         /\ h.zeroed => h.expects = "present"
<1> DEFINE
      Traits(g) ==
        /\ g.consensus \in {"none", "value", "throws"}
        /\ g.late \in BOOLEAN /\ g.zeroed \in BOOLEAN /\ g.retried \in BOOLEAN
        /\ g.reads \in Seq({"entity", "list"}) /\ Len(g.reads) > 0
        /\ g.consensus = "throws" => g.expects = "absent"
        /\ g.zeroed \/ g.late => g.consensus = "value"
        /\ g.zeroed => g.expects = "present"
<1>1. Traits(Plain) /\ Traits(verifyTokenIsDeleted) /\ Traits(verifyContractCreateWithNullKey)
  BY DEF Plain, verifyTokenIsDeleted, verifyContractCreateWithNullKey
<1>2. Traits(verifyHbarBalance) /\ Traits(verifyTokenBalance) /\ Traits(verifyNftBalance)
      /\ Traits(verifyTokenCreationWithFee)
  BY DEF Plain, verifyHbarBalance, verifyTokenBalance, verifyNftBalance,
         verifyTokenCreationWithFee
<1>3. Traits(verifyAirdrop) /\ Traits(verifyAllowance)
  BY DEF Plain, verifyAirdrop, verifyAllowance
<1>4. Traits(verifyFungibleTokenMint) /\ Traits(verifyNonFungibleTokenBurn)
      /\ Traits(verifyFungibleTokenWipe)
  BY DEF Plain, verifyFungibleTokenMint, verifyNonFungibleTokenBurn, verifyFungibleTokenWipe
<1> HIDE DEF Traits
<1>5. Traits(h)
  BY <1>1, <1>2, <1>3, <1>4
  DEF Helpers, verifyNonFungibleTokenMint, verifyFungibleTokenBurn,
      verifyNonFungibleTokenWipe, verifyToken, verifyTopic, verifyContract
<1> QED  BY <1>5 DEF Traits

\* What is on the network and what the mirror shows of it are values.
LEMMA PresentIsValue ==
  ASSUME TypeOK
  PROVE  /\ Present \in Value /\ Shown \in Value
         /\ Len(history) \in Nat
         /\ known = Len(history) => Shown = Present
BY VerificationAssumption DEF TypeOK, Present, Shown

\* The rules of transfer.ts for the consensus half: a value that agrees is the
\* one expected, and the one expected agrees.
LEMMA AgreesIffTrue ==
  ASSUME TypeOK, helper.consensus # "none"
  PROVE  ConsensusAgrees(Present) <=> Zeroed(Present) = expected
<1>1. PICK h \in Helpers : h = helper
  BY DEF TypeOK
<1>2. Present \in Value /\ Present # Error
  BY PresentIsValue, VerificationAssumption
<1>3. CASE helper.consensus = "throws"
  <2>1. expected = Absent /\ ~helper.zeroed
    BY <1>1, <1>3, HelperTraits DEF TypeOK, Expectable
  <2> QED  BY <1>2, <1>3, <2>1 DEF ConsensusAgrees, Zeroed
<1>4. CASE helper.consensus = "value"
  <2>1. helper.zeroed => expected # Absent
    BY <1>1, HelperTraits DEF TypeOK, Expectable
  <2> QED  BY <1>2, <1>4, <2>1, VerificationAssumption
           DEF ConsensusAgrees, EqualOrZero, Zeroed
<1> QED  BY <1>1, <1>3, <1>4, HelperTraits

\* A mirror that has caught up agrees with what is on the network.
LEMMA CaughtUpAgrees ==
  ASSUME TypeOK, known = Len(history), Zeroed(Present) = expected
  PROVE  MirrorAgrees(Shown)
BY PresentIsValue DEF MirrorAgrees, Zeroed
-----------------------------------------------------------------------------
\* A call starts with nothing read.
LEMMA VerificationInit == Init => IInv
<1> SUFFICES ASSUME Init PROVE IInv
    OBVIOUS
<1>1. history \in Seq(Value) /\ Len(history) \in Nat /\ Len(history) > 0
  BY VerificationAssumption DEF Init
<1>2. Len(helper.reads) \in Nat \ {0} /\ helper.consensus \in {"none", "value", "throws"}
  BY HelperTraits DEF Init
<1>3. TypeOK
  <2>1. known \in 0..Len(history) /\ mirrorKnew \in 0..known /\ delays \in Nat
    BY <1>1 DEF Init
  <2>2. /\ read \in 1..Len(helper.reads)
        /\ inner \in 1..MaxRetries /\ outer \in 1..MaxRetries /\ whole \in 1..MaxRetries
    BY <1>2, VerificationAssumption DEF Init
  <2> QED  BY <1>1, <2>1, <2>2 DEF Init, TypeOK, First
<1>4. Awaited /\ Judged /\ PassIsTrue /\ FreshPassIsCaughtUp /\ FailureHasReason
  BY DEF Init, First, Awaited, Judged, PassIsTrue, FreshPassIsCaughtUp, FailureHasReason
<1> QED  BY <1>3, <1>4 DEF IInv

\* Every step of the mirror, the helper and the retries keeps what a call knows.
LEMMA VerificationNext == IInv /\ [Next]_vars => IInv'
<1> SUFFICES ASSUME IInv, [Next]_vars PROVE IInv'
    OBVIOUS
<1> USE VerificationAssumption
<1>t. TypeOK
  BY DEF IInv
<1>h. /\ helper.consensus \in {"none", "value", "throws"}
      /\ helper.late \in BOOLEAN /\ helper.zeroed \in BOOLEAN /\ helper.retried \in BOOLEAN
      /\ helper.reads \in Seq({"entity", "list"}) /\ Len(helper.reads) \in Nat \ {0}
      /\ helper.zeroed \/ helper.late => helper.consensus = "value"
  BY <1>t, HelperTraits DEF TypeOK
<1>a. Awaited
  BY DEF IInv
<1>v. Present \in Value /\ Shown \in Value /\ Len(history) \in Nat
  BY <1>t, PresentIsValue
<1>1. CASE Ingest
  <2>1. TypeOK'
    BY <1>1, <1>t DEF Ingest, TypeOK, call, attempts
  <2>2. UNCHANGED <<history, helper, expected, wrapping, pc, read, inner, outer, whole,
                    consensusSaw, mirrorKnew, disturbed>>
    BY <1>1 DEF Ingest, call, attempts
  <2> QED  BY <2>1, <2>2
           DEF IInv, Awaited, Judged, PassIsTrue, FreshPassIsCaughtUp, FailureHasReason,
               Present, Zeroed, ConsensusAgrees, EqualOrZero
<1>2. CASE WrapperReturns \/ UNCHANGED vars
  <2>1. UNCHANGED <<history, known, helper, expected, wrapping, pc, read, inner, outer,
                    whole, delays, consensusSaw, mirrorKnew, disturbed>>
        /\ verdict' \in {"running", "passed", "failed"}
    BY <1>2, <1>t DEF WrapperReturns, TypeOK, vars, world, call, attempts
  <2> QED  BY <2>1
           DEF IInv, TypeOK, Awaited, Judged, PassIsTrue, FreshPassIsCaughtUp, FailureHasReason,
               Present, Zeroed, ConsensusAgrees, EqualOrZero
<1>3. CASE ReadConsensus
  <2>1. UNCHANGED <<history, known, helper, expected, wrapping, read, inner, outer,
                    whole, delays, mirrorKnew>>
    BY <1>3 DEF ReadConsensus, world, call, attempts
  <2>2. TypeOK'
    BY <1>3, <1>t, <1>v, <2>1 DEF ReadConsensus, TypeOK, HelperThrows, Settle
  <2>3. pc' = "mirror" \/ pc' \in {"sleepWhole", "failed"}
    BY <1>3 DEF ReadConsensus, HelperThrows
  <2>4. pc' = "mirror" =>
          /\ \/ consensusSaw' = Present
             \/ helper.consensus = "throws" /\ consensusSaw' = Error /\ disturbed'
          /\ helper.late \/ ConsensusAgrees(consensusSaw')
    <3>1. pc' = "mirror" => ConsensusAgrees(consensusSaw') \/ (helper.late /\ consensusSaw' # Error)
      BY <1>3 DEF ReadConsensus, HelperThrows
    <3>2. consensusSaw' \in {Present, Error} /\ disturbed' = (consensusSaw' = Error)
      BY <1>3 DEF ReadConsensus
    <3>3. helper.consensus # "none"
      BY <1>3, <1>a DEF Awaited, ReadConsensus
    <3>4. helper.consensus # "throws" => ~ConsensusAgrees(Error)
      BY <1>h, <3>3 DEF ConsensusAgrees
    <3>5. helper.consensus # "throws" /\ pc' = "mirror" => consensusSaw' = Present
      BY <3>1, <3>2, <3>4
    <3>6. helper.consensus = "throws" /\ pc' = "mirror" =>
            consensusSaw' = Present \/ (consensusSaw' = Error /\ disturbed')
      BY <3>2
    <3> QED  BY <3>1, <3>5, <3>6
  <2>5. pc' = "failed" /\ ~disturbed' => ~ConsensusAgrees(Present)
    BY <1>3, <1>v DEF ReadConsensus, HelperThrows
  <2>6. ConsensusAgrees(Present) <=> Zeroed(Present) = expected
    BY <1>3, <1>t, <1>a, AgreesIffTrue DEF ReadConsensus, Awaited
  <2>7. Awaited'
    BY <1>3, <2>1, <2>3 DEF ReadConsensus, HelperThrows, Again, Awaited
  <2> QED
    BY <2>1, <2>2, <2>3, <2>4, <2>5, <2>6, <2>7
    DEF IInv, Judged, PassIsTrue, FreshPassIsCaughtUp, FailureHasReason,
        Present, Zeroed, ConsensusAgrees, EqualOrZero
<1>4. CASE ReadMirror
  <2>1. UNCHANGED <<history, known, helper, expected, wrapping, consensusSaw, disturbed>>
        /\ mirrorKnew' = known /\ pc = "mirror" /\ ~Unknown
    BY <1>4 DEF ReadMirror, world, call
  <2>2. pc' \in {"mirror", "passed", "sleepOuter", "sleepWhole", "failed"}
    BY <1>4 DEF ReadMirror, ReadThrows, HelperThrows
  <2>3. TypeOK'
    BY <1>4, <1>t, <1>h, <2>1, <2>2 DEF ReadMirror, TypeOK, attempts, Settle
  <2>4. Judged'
    BY <2>1, <2>2 DEF IInv, Judged, Present, ConsensusAgrees, EqualOrZero
  <2>7. Awaited'
    BY <1>4, <2>1, <2>2 DEF ReadMirror, ReadThrows, HelperThrows, Again, Awaited, attempts
  <2>5. CASE pc' = "passed"
    <3>1. BothAgree /\ read' = read
      BY <1>4, <2>5 DEF ReadMirror, ReadThrows, HelperThrows, attempts
    <3>2. PassIsTrue'
      <4> SUFFICES ASSUME helper.consensus # "none"
                   PROVE  \/ Zeroed(Present) = expected
                          \/ /\ helper.consensus = "throws" /\ consensusSaw = Error
                             /\ known > 0 => history[known] = Absent
        BY <2>1 DEF PassIsTrue, Present, Zeroed
      <4>1. CASE consensusSaw = Present
        <5>1. ConsensusAgrees(Present)
          BY <1>h, <2>1, <3>1, <4>1 DEF IInv, Judged, BothAgree
        <5> QED  BY <1>t, <5>1, AgreesIffTrue
      <4>2. CASE helper.consensus = "throws" /\ consensusSaw = Error
        <5>1. expected = Absent /\ ~helper.zeroed
          BY <1>t, <1>h, <4>2, HelperTraits DEF TypeOK, Expectable
        <5>2. Shown = Absent
          BY <3>1, <5>1 DEF BothAgree, MirrorAgrees
        <5>3. known > 0 => history[known] = Absent
          BY <5>2 DEF Shown
        <5> QED  BY <4>2, <5>3
      <4> QED  BY <2>1, <4>1, <4>2 DEF IInv, Judged
    <3>3. FreshPassIsCaughtUp'
      <4> SUFFICES ASSUME \A i \in 1..(Len(history) - 1) : history[i] # expected,
                          expected = Absent => helper.reads[read] = "entity",
                          expected = Zero => ~helper.zeroed
                   PROVE  known = Len(history)
        BY <2>1, <3>1 DEF FreshPassIsCaughtUp
      <4>1. Shown = expected
        BY <3>1 DEF BothAgree, MirrorAgrees
      <4>2. known # 0
        BY <2>1, <4>1 DEF Shown, Unknown
      <4> QED  BY <1>t, <4>1, <4>2 DEF Shown, TypeOK
    <3> QED  BY <2>3, <2>4, <2>5, <2>7, <3>2, <3>3 DEF IInv, FailureHasReason
  <2>6. CASE pc' = "failed"
    <3>1. ~BothAgree
      BY <1>4, <2>1, <2>6 DEF ReadMirror
    <3>2. ASSUME Zeroed(Present) = expected, ~disturbed, known = Len(history)
          PROVE  FALSE
      <4>1. MirrorAgrees(Shown)
        BY <1>t, <3>2, CaughtUpAgrees
      <4>2. helper.late => ConsensusAgrees(consensusSaw)
        BY <1>t, <1>h, <2>1, <3>2, AgreesIffTrue DEF IInv, Judged
      <4> QED  BY <3>1, <4>1, <4>2 DEF BothAgree
    <3>3. FailureHasReason'
      BY <1>t, <2>1, <3>2 DEF FailureHasReason, Present, Zeroed, TypeOK
    <3> QED  BY <2>3, <2>4, <2>6, <2>7, <3>3 DEF IInv, PassIsTrue, FreshPassIsCaughtUp
  <2> QED  BY <2>2, <2>3, <2>4, <2>5, <2>6, <2>7
           DEF IInv, PassIsTrue, FreshPassIsCaughtUp, FailureHasReason
<1>5. CASE FetchThrows
  <2>1. UNCHANGED <<history, known, helper, expected, wrapping, read, inner, outer,
                    whole, delays, consensusSaw>>
        /\ mirrorKnew' = known /\ pc = "mirror" /\ disturbed' = (disturbed \/ ~Unknown)
    BY <1>5 DEF FetchThrows, world, call, attempts
  <2>2. pc' \in {"sleep", "sleepOuter", "sleepWhole", "failed"}
    BY <1>5 DEF FetchThrows, ReadThrows, HelperThrows
  <2>3. TypeOK'
    BY <1>5, <1>t, <2>1, <2>2 DEF FetchThrows, TypeOK, Settle
  <2>4. Judged'
    BY <2>1, <2>2 DEF IInv, Judged, Present, ConsensusAgrees, EqualOrZero
  <2>5. FailureHasReason'
    BY <1>t, <2>1 DEF FailureHasReason, Unknown, TypeOK
  <2>6. Awaited'
    BY <1>5, <2>1, <2>2 DEF FetchThrows, ReadThrows, HelperThrows, Again, Awaited
  <2> QED  BY <2>2, <2>3, <2>4, <2>5, <2>6 DEF IInv, PassIsTrue, FreshPassIsCaughtUp
<1>6. CASE Wake
  <2>1. UNCHANGED <<history, known, helper, expected, wrapping, consensusSaw, mirrorKnew,
                    disturbed>>
        /\ pc' = "mirror" /\ pc \in {"sleep", "sleepOuter"}
    BY <1>6 DEF Wake, world, call
  <2>2. TypeOK'
    BY <1>6, <1>t, <1>a, <2>1 DEF Wake, TypeOK, Awaited
  <2> QED  BY <2>1, <2>2
           DEF IInv, Awaited, Judged, PassIsTrue, FreshPassIsCaughtUp, FailureHasReason,
               Present, ConsensusAgrees, EqualOrZero
<1>7. CASE WakeWhole
  <2>1. UNCHANGED <<history, known, helper, expected, wrapping, mirrorKnew>>
        /\ pc' = First
    BY <1>7 DEF WakeWhole, world, call
  <2>2. /\ read' \in 1..Len(helper.reads) /\ delays' \in Nat
        /\ inner' \in 1..MaxRetries /\ outer' \in 1..MaxRetries /\ whole' \in 1..MaxRetries
    BY <1>7, <1>t, <1>h, <1>a DEF WakeWhole, TypeOK, Awaited
  <2>3. TypeOK'
    BY <1>7, <1>t, <2>1, <2>2 DEF WakeWhole, TypeOK, First
  <2> QED  BY <2>1, <2>3
           DEF IInv, Awaited, Judged, PassIsTrue, FreshPassIsCaughtUp, FailureHasReason, First
<1> QED  BY <1>1, <1>2, <1>3, <1>4, <1>5, <1>6, <1>7 DEF Next, Call

\* A helper's pass is true, but where it takes an error for an absence and the
\* mirror has none; of a value that is new, it has seen the mirror catch up; and
\* its failure has a reason, whatever the mirror's lag and the errors of queries
\* (transfer.ts, token.ts and the other verification helpers).
THEOREM VerificationSafe ==
  Spec => [](TypeOK /\ PassIsTrue /\ FreshPassIsCaughtUp /\ FailureHasReason)
<1>1. IInv => TypeOK /\ PassIsTrue /\ FreshPassIsCaughtUp /\ FailureHasReason
  BY DEF IInv
<1> QED  BY VerificationInit, VerificationNext, <1>1, PTL DEF Spec

-----------------------------------------------------------------------------
\* How long a call can wait.

\* The most delays that one mirror read of an attempt can take, and one attempt
\* of the test with the delay after it.
OneRead == IF helper.retried THEN MaxRetries * MaxRetries - 1 ELSE MaxRetries - 1
OneAttempt == OneRead * Len(helper.reads) + 1

\* Where the delays of a call went: its earlier attempts, the reads before this
\* one, and the attempts at this read.
DelaysSpent ==
  delays <= (whole - 1) * OneAttempt + OneRead * (read - 1)
              + (outer - 1) * MaxRetries + (inner - 1)

\* A helper without a retry of its own stays in the first attempt at a read.
OuterIsRetry == (outer > 1 \/ pc = "sleepOuter") => helper.retried

\* The attempts at one read spend what a read can take, at most.
LEMMA ReadSpends ==
  ASSUME TypeOK, OuterIsRetry
  PROVE  /\ OneRead \in Nat /\ OneAttempt \in Nat
         /\ (outer - 1) * MaxRetries \in Nat
         /\ (outer - 1) * MaxRetries + (inner - 1) <= OneRead
<1>1. /\ MaxRetries \in Nat \ {0} /\ outer \in 1..MaxRetries /\ inner \in 1..MaxRetries
      /\ helper.retried \in BOOLEAN /\ Len(helper.reads) \in Nat
  BY VerificationAssumption, HelperTraits DEF TypeOK
<1>2. (outer - 1) * MaxRetries \in Nat
  BY <1>1
<1>3. CASE helper.retried
  <2>1. (outer - 1) * MaxRetries <= (MaxRetries - 1) * MaxRetries
    BY <1>1
  <2>2. (MaxRetries - 1) * MaxRetries = MaxRetries * MaxRetries - MaxRetries
    BY <1>1
  <2>3. MaxRetries * MaxRetries \in Nat /\ MaxRetries * MaxRetries >= MaxRetries
    BY <1>1
  <2>4. OneRead = MaxRetries * MaxRetries - 1
    BY <1>3 DEF OneRead
  <2>5. OneRead \in Nat /\ (outer - 1) * MaxRetries + (inner - 1) <= OneRead
    BY <1>1, <1>2, <2>1, <2>2, <2>3, <2>4
  <2> QED
    BY <1>1, <1>2, <2>5 DEF OneAttempt
<1>4. CASE ~helper.retried
  <2>1. outer = 1
    BY <1>1, <1>4 DEF OuterIsRetry
  <2>2. OneRead = MaxRetries - 1
    BY <1>4 DEF OneRead
  <2>3. OneRead \in Nat /\ (outer - 1) * MaxRetries + (inner - 1) <= OneRead
    BY <1>1, <2>1, <2>2
  <2> QED
    BY <1>1, <1>2, <2>3 DEF OneAttempt
<1> QED
  BY <1>3, <1>4

\* What was spent before this read is within what the reads before it may take.
LEMMA SpentBounded ==
  ASSUME TypeOK, OuterIsRetry, DelaysSpent
  PROVE  delays <= (whole - 1) * OneAttempt + OneRead * read
<1>1. /\ OneRead \in Nat /\ OneAttempt \in Nat /\ (outer - 1) * MaxRetries \in Nat
      /\ (outer - 1) * MaxRetries + (inner - 1) <= OneRead
  BY ReadSpends
<1>2. read \in Int /\ whole \in Int /\ inner \in Int /\ delays \in Int
  BY VerificationAssumption, HelperTraits DEF TypeOK
<1>3. OneRead * read = OneRead * (read - 1) + OneRead /\ OneRead * (read - 1) \in Int
      /\ (whole - 1) * OneAttempt \in Int
  BY <1>1, <1>2
<1> HIDE DEF OneRead, OneAttempt
<1> DEFINE a == (whole - 1) * OneAttempt
           b == OneRead * (read - 1)
           c == (outer - 1) * MaxRetries
<1>4. delays <= a + b + c + (inner - 1) /\ c + (inner - 1) <= OneRead /\ OneRead * read = b + OneRead
  BY <1>1, <1>3 DEF DelaysSpent
<1> HIDE DEF a, b, c
<1>5. a \in Int /\ b \in Int /\ c \in Int
  BY <1>1, <1>3 DEF a, b, c
<1>6. delays <= a + OneRead * read
  BY <1>1, <1>2, <1>4, <1>5
<1> QED
  BY <1>6 DEF a

\* Every delay is one more of an attempt's, and no step forgets one.
LEMMA DelaysStep ==
  ASSUME IInv, OuterIsRetry, DelaysSpent, [Next]_vars
  PROVE  OuterIsRetry' /\ DelaysSpent'
<1>1. TypeOK /\ Awaited /\ helper' = helper
  BY DEF IInv, Next, Call, Ingest, WrapperReturns, ReadConsensus, ReadMirror, FetchThrows,
         Wake, WakeWhole, vars, call
<1>2. /\ MaxRetries \in Nat \ {0} /\ Len(helper.reads) \in Nat \ {0}
      /\ read \in 1..Len(helper.reads) /\ whole \in 1..MaxRetries
      /\ outer \in 1..MaxRetries /\ inner \in 1..MaxRetries /\ delays \in Nat
  BY <1>1, VerificationAssumption, HelperTraits DEF TypeOK
<1>3. OneRead' = OneRead /\ OneAttempt' = OneAttempt
  BY <1>1 DEF OneRead, OneAttempt
<1>4. /\ OneRead \in Nat /\ OneAttempt \in Nat
      /\ delays <= (whole - 1) * OneAttempt + OneRead * read
  BY <1>1, ReadSpends, SpentBounded
<1>5. CASE UNCHANGED attempts /\ (pc' = "sleepOuter" => helper.retried \/ pc = "sleepOuter")
  BY <1>1, <1>3, <1>5 DEF attempts, OuterIsRetry, DelaysSpent
<1>6. CASE /\ read' = read + 1 /\ inner' = 1 /\ outer' = 1 /\ UNCHANGED <<pc, whole, delays>>
           /\ pc = "mirror"
  <2>1. /\ (outer' - 1) * MaxRetries = 0 /\ inner' - 1 = 0 /\ read' - 1 = read
    BY <1>2, <1>6
  <2>2. (whole - 1) * OneAttempt \in Int /\ OneRead * read \in Int
    BY <1>2, <1>4
  <2>3. DelaysSpent'
    BY <1>2, <1>3, <1>4, <1>6, <2>1, <2>2 DEF DelaysSpent
  <2> QED
    BY <1>6, <2>3 DEF OuterIsRetry
<1>7. CASE Wake
  <2>1. /\ UNCHANGED <<read, whole>> /\ delays' = delays + 1 /\ pc' = "mirror"
        /\ \/ pc = "sleep" /\ inner' = inner + 1 /\ outer' = outer
           \/ pc = "sleepOuter" /\ inner' = 1 /\ outer' = outer + 1
    BY <1>7 DEF Wake
  <2>2. OuterIsRetry'
    BY <1>1, <1>2, <2>1 DEF OuterIsRetry
  <2> DEFINE s == (whole - 1) * OneAttempt + OneRead * (read - 1)
  <2>3. s \in Int /\ (outer - 1) * MaxRetries \in Int
    BY <1>2, <1>4
  <2>4. delays <= s + (outer - 1) * MaxRetries + (inner - 1)
    BY DEF DelaysSpent
  <2> HIDE DEF s
  <2>5. CASE inner' = inner + 1 /\ outer' = outer
    <3>1. delays + 1 <= s + (outer - 1) * MaxRetries + (inner' - 1)
      BY <1>2, <2>3, <2>4, <2>5
    <3> QED
      BY <1>3, <2>1, <2>2, <2>5, <3>1 DEF DelaysSpent, s
  <2>6. CASE inner' = 1 /\ outer' = outer + 1
    <3>1. (outer' - 1) * MaxRetries = (outer - 1) * MaxRetries + MaxRetries
      BY <1>2, <2>6
    <3>2. delays + 1 <= s + (outer' - 1) * MaxRetries + (inner' - 1)
      BY <1>2, <2>3, <2>4, <2>6, <3>1
    <3> QED
      BY <1>3, <2>1, <2>2, <3>2 DEF DelaysSpent, s
  <2> QED
    BY <2>1, <2>5, <2>6
<1>8. CASE WakeWhole
  <2>1. /\ read' = 1 /\ inner' = 1 /\ outer' = 1 /\ whole' = whole + 1
        /\ delays' = delays + 1 /\ pc' # "sleepOuter"
    BY <1>8 DEF WakeWhole, First
  <2>2. OneRead * read <= OneRead * Len(helper.reads)
    BY <1>2, <1>4
  <2>3. OneAttempt = OneRead * Len(helper.reads) + 1
    BY DEF OneAttempt
  <2>4. (whole' - 1) * OneAttempt = (whole - 1) * OneAttempt + OneAttempt
    BY <1>2, <1>4, <2>1
  <2>5. /\ (whole - 1) * OneAttempt \in Int /\ OneRead * read \in Int
        /\ OneRead * Len(helper.reads) \in Int
    BY <1>2, <1>4
  <2> DEFINE a == (whole - 1) * OneAttempt
             b == OneRead * read
             c == OneRead * Len(helper.reads)
  <2>6. delays' <= (whole' - 1) * OneAttempt
    <3>1. /\ a \in Int /\ b \in Int /\ c \in Int /\ delays <= a + b /\ b <= c
          /\ (whole' - 1) * OneAttempt = a + OneAttempt /\ OneAttempt = c + 1
      BY <1>4, <2>2, <2>3, <2>4, <2>5
    <3> HIDE DEF a, b, c, OneAttempt
    <3>2. delays + 1 <= a + OneAttempt
      BY <1>2, <3>1
    <3> QED
      BY <2>1, <3>1, <3>2
  <2> HIDE DEF OneRead, OneAttempt
  <2>7. /\ OneRead * (read' - 1) = 0 /\ (outer' - 1) * MaxRetries = 0 /\ inner' - 1 = 0
        /\ (whole' - 1) * OneAttempt \in Int
    BY <1>2, <1>4, <2>1
  <2>8. DelaysSpent'
    BY <1>3, <2>6, <2>7 DEF DelaysSpent
  <2> QED
    BY <2>1, <2>8 DEF OuterIsRetry
<1>9. CASE Ingest \/ WrapperReturns \/ ReadConsensus \/ FetchThrows \/ UNCHANGED vars
  BY <1>5, <1>9 DEF Ingest, WrapperReturns, ReadConsensus, FetchThrows, vars, ReadThrows,
                    HelperThrows
<1>10. CASE ReadMirror
  BY <1>5, <1>6, <1>10 DEF ReadMirror, ReadThrows, HelperThrows, attempts
<1> QED
  BY <1>7, <1>8, <1>9, <1>10 DEF Next, Call

\* However the retries of getters, helpers and tests nest, and for every number
\* of them, a call waits no longer than the product of what they allow.
THEOREM DelaysAreBounded == Spec => []DelaysBounded
<1>1. Init => OuterIsRetry /\ DelaysSpent
  <2> SUFFICES ASSUME Init PROVE OuterIsRetry /\ DelaysSpent
    OBVIOUS
  <2>1. /\ read = 1 /\ inner = 1 /\ outer = 1 /\ whole = 1 /\ delays = 0
        /\ pc # "sleepOuter"
    BY DEF Init, First
  <2>2. OuterIsRetry /\ OneRead \in Nat /\ OneAttempt \in Nat /\ MaxRetries \in Nat
    BY <2>1, VerificationInit, ReadSpends, VerificationAssumption DEF OuterIsRetry, IInv
  <2> QED
    BY <2>1, <2>2 DEF DelaysSpent
<1>2. IInv /\ OuterIsRetry /\ DelaysSpent => DelaysBounded
  BY SpentBounded DEF IInv, DelaysBounded, OneRead, OneAttempt
<1> QED
  BY <1>1, <1>2, VerificationInit, VerificationNext, DelaysStep, PTL DEF Spec
=============================================================================
