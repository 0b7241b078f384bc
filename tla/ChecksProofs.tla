---------------------------- MODULE ChecksProofs ----------------------------
(***************************************************************************)
(* Proofs about Checks, for fees of any number and any accounts, any       *)
(* settings and any endpoints that answer, and about TestCount, for any    *)
(* repository and any requests that fail.                                  *)
(***************************************************************************)
EXTENDS Checks, TestCount, FiniteSetTheorems, WellFoundedInduction, TLAPS

\* An expected fee is matched by the consensus node's view of it.
LEMMA HeldIsMatched ==
  ASSUME NEW fees \in Seq(Fee), NEW e, Holds(fees, e)
  PROVE  \E i \in DOMAIN fees : ConsensusMatches(fees[i], e)
<1>1. PICK i \in DOMAIN fees : IsExpected(fees[i], e)
  BY DEF Holds
<1>2. fees[i] \in Fee /\ fees[i].max \in Nat
  <2>1. fees[i] \in Fee
    OBVIOUS
  <2> QED
    BY <2>1 DEF Fee
<1>3. ConsensusMatches(fees[i], e)
  BY <1>1, <1>2 DEF IsExpected, ConsensusMatches, consensusNodeFeeEqualsCustomFee,
     consensusNodeFeeEqualsCustomFractionalFee, consensusNodeFeeEqualsCustomRoyaltyFee,
     stringifyNumberValue, Null
<1> QED
  BY <1>3

\* What the mirror shows of a fee leaves its exemption out.
LEMMA LooksLike ==
  ASSUME NEW f \in Fee, NEW e
  PROVE  /\ LooksExpected(f, e) <=>
              /\ f.type = e.type /\ f.collector = e.collector /\ f.amount = e.amount
              /\ e.type = "fractional" => f.max = e.max /\ f.net = e.exclusive
              /\ e.type = "royalty" => stringifyNumberValue(f.fallback) = e.fallback
         /\ IsExpected(f, e) => LooksExpected(f, e)
<1> DEFINE g == [f EXCEPT !.exempt = e.exempt]
<1>1. /\ g.type = f.type /\ g.collector = f.collector /\ g.exempt = e.exempt
      /\ g.amount = f.amount /\ g.max = f.max /\ g.net = f.net /\ g.fallback = f.fallback
  BY DEF Fee
<1> QED
  BY <1>1 DEF LooksExpected, IsExpected

\* A fee that looks expected is matched by the mirror's view of it, the null for
\* no maximum included; only a royalty fee without a fallback is shown as
\* something the mirror's loop cannot compare.
LEMMA ExpectedIsShown ==
  ASSUME NEW fees \in Seq(Fee), NEW e, NEW i \in DOMAIN fees, LooksExpected(fees[i], e),
         ~(e.type = "royalty" /\ fees[i].fallback = Null)
  PROVE  /\ i \in DOMAIN MirrorView(fees, e.type)
         /\ MirrorMatches(MirrorView(fees, e.type)[i], e)
<1>1. fees[i] \in Fee
  OBVIOUS
<1>2. fees[i].max \in Nat
  BY <1>1 DEF Fee
<1>3. /\ fees[i].type = e.type /\ fees[i].collector = e.collector /\ fees[i].amount = e.amount
      /\ e.type = "fractional" => fees[i].max = e.max /\ fees[i].net = e.exclusive
      /\ e.type = "royalty" => stringifyNumberValue(fees[i].fallback) = e.fallback
  BY <1>1, LooksLike
<1>4. i \in DOMAIN MirrorView(fees, e.type)
  BY <1>3 DEF MirrorView
<1>5. MirrorView(fees, e.type)[i] =
        [collector |-> fees[i].collector, amount |-> fees[i].amount,
         maximum |-> IF fees[i].max = 0 THEN Null ELSE fees[i].max,
         net |-> fees[i].net, fallback_fee |-> fees[i].fallback]
  BY <1>4 DEF MirrorView
<1>6. e.type = "royalty" => fees[i].fallback = e.fallback
  BY <1>3 DEF stringifyNumberValue
<1>7. MirrorMatches(MirrorView(fees, e.type)[i], e)
  BY <1>2, <1>3, <1>5, <1>6 DEF MirrorMatches, mirrorNodeFeeEqualsCustomFractionalFee, Null
<1> QED
  BY <1>4, <1>7

\* A view the mirror's loop stumbles on is one of a royalty fee without a
\* fallback, like the expected one up to there.
LEMMA ThrownIsBare ==
  ASSUME NEW fees, NEW e, NEW j \in DOMAIN MirrorView(fees, e.type),
         MirrorThrows(MirrorView(fees, e.type)[j], e)
  PROVE  /\ j \in DOMAIN fees /\ e.type = "royalty" /\ fees[j].type = "royalty"
         /\ fees[j].fallback = Null
         /\ fees[j].collector = e.collector /\ fees[j].amount = e.amount
<1>1. j \in DOMAIN fees /\ fees[j].type = e.type
  BY DEF MirrorView
<1>2. /\ MirrorView(fees, e.type)[j].fallback_fee = fees[j].fallback
      /\ MirrorView(fees, e.type)[j].collector = fees[j].collector
      /\ MirrorView(fees, e.type)[j].amount = fees[j].amount
  BY <1>1 DEF MirrorView
<1> QED
  BY <1>1, <1>2 DEF MirrorThrows

\* Of the fees that look expected there is a first one, at which the mirror's
\* loop stops.
LEMMA FirstExpected ==
  ASSUME NEW fees \in Seq(Fee), NEW e, Holds(fees, e)
  PROVE  \E i \in DOMAIN fees :
           /\ LooksExpected(fees[i], e)
           /\ \A k \in DOMAIN fees : LooksExpected(fees[k], e) => i <= k
<1> DEFINE T == {i \in DOMAIN fees : LooksExpected(fees[i], e)}
           R == OpToRel(<, Nat)
<1>1. T # {} /\ T \subseteq Nat
  <2>1. \A i \in DOMAIN fees : fees[i] \in Fee /\ i \in Nat
    OBVIOUS
  <2> QED
    BY <2>1, LooksLike DEF Holds
<1>2. IsWellFoundedOn(R, Nat)
  BY NatLessThanWellFounded
<1>3. \A x, y \in Nat : x < y => <<x, y>> \in R
  BY DEF OpToRel
<1> HIDE DEF T, R
<1>4. PICK i \in T : \A k \in T : ~(<<k, i>> \in R)
  BY <1>1, <1>2, WFMin
<1>5. \A k \in T : ~(k < i)
  BY <1>1, <1>3, <1>4
<1>6. \A k \in T : i <= k
  BY <1>1, <1>4, <1>5
<1> QED
  BY <1>4, <1>6 DEF T

\* So a fee check passes exactly if the fee is there and the mirror's loop comes
\* to one that looks like it.
LEMMA TokenFeeRight ==
  ASSUME NEW fees \in Seq(Fee), NEW e
  PROVE  VerifyTokenFee(fees, e) <=> Holds(fees, e) /\ ~Stumbles(fees, e)
<1>1. ASSUME VerifyTokenFee(fees, e)
      PROVE  Holds(fees, e)
  <2>1. PICK i \in DOMAIN fees : ConsensusMatches(fees[i], e)
    BY <1>1 DEF VerifyTokenFee, ConsensusView
  <2>2. fees[i] \in Fee
    OBVIOUS
  <2>3. e.type = "fractional" => fees[i].max = e.max /\ fees[i].net = e.exclusive
    BY <2>1, <2>2 DEF ConsensusMatches, consensusNodeFeeEqualsCustomFractionalFee,
       stringifyNumberValue, Fee, Null
  <2> QED
    BY <2>1, <2>3 DEF Holds, IsExpected, ConsensusMatches, consensusNodeFeeEqualsCustomFee,
       consensusNodeFeeEqualsCustomRoyaltyFee
<1>2. ASSUME VerifyTokenFee(fees, e), Stumbles(fees, e)
      PROVE  FALSE
  <2> DEFINE mirror == MirrorView(fees, e.type)
  <2>1. PICK j \in DOMAIN fees :
          /\ e.type = "royalty" /\ fees[j].type = "royalty" /\ fees[j].fallback = Null
          /\ fees[j].collector = e.collector /\ fees[j].amount = e.amount
          /\ \A i \in DOMAIN fees : i < j => ~LooksExpected(fees[i], e)
    BY <1>2 DEF Stumbles
  <2>2. PICK i \in DOMAIN mirror :
          /\ MirrorMatches(mirror[i], e)
          /\ \A k \in DOMAIN mirror : MirrorThrows(mirror[k], e) => i < k
    BY <1>2 DEF VerifyTokenFee
  <2>3. /\ DOMAIN mirror = {k \in DOMAIN fees : fees[k].type = "royalty"}
        /\ \A k \in DOMAIN mirror :
             /\ mirror[k].collector = fees[k].collector
             /\ mirror[k].amount = fees[k].amount
             /\ mirror[k].fallback_fee = fees[k].fallback
    BY <2>1 DEF MirrorView
  <2> HIDE DEF mirror
  <2>4. j \in DOMAIN mirror /\ MirrorThrows(mirror[j], e)
    BY <2>1, <2>3 DEF MirrorThrows
  <2>5. i < j /\ i \in DOMAIN fees /\ i \in Nat /\ fees[i] \in Fee
    BY <2>2, <2>3, <2>4
  <2>6. fees[i].fallback # Null
    <3> SUFFICES ASSUME fees[i].fallback = Null PROVE FALSE
      OBVIOUS
    <3>1. MirrorThrows(mirror[i], e)
      BY <2>1, <2>2, <2>3 DEF MirrorThrows, MirrorMatches
    <3>2. i < i
      BY <2>2, <3>1
    <3> QED
      BY <2>5, <3>2
  <2>7. /\ fees[i].type = e.type /\ fees[i].collector = e.collector
        /\ fees[i].amount = e.amount /\ stringifyNumberValue(fees[i].fallback) = e.fallback
    BY <2>1, <2>2, <2>3, <2>6 DEF MirrorMatches, stringifyNumberValue
  <2>8. LooksExpected(fees[i], e)
    BY <2>1, <2>5, <2>7, LooksLike
  <2> QED
    BY <2>1, <2>5, <2>8
<1>3. ASSUME Holds(fees, e), ~Stumbles(fees, e)
      PROVE  VerifyTokenFee(fees, e)
  <2>1. PICK i \in DOMAIN fees :
          /\ LooksExpected(fees[i], e)
          /\ \A k \in DOMAIN fees : LooksExpected(fees[k], e) => i <= k
    BY <1>3, FirstExpected
  <2>2. i \in Nat /\ DOMAIN fees \subseteq Nat /\ fees[i] \in Fee
    OBVIOUS
  <2>3. ASSUME NEW j \in DOMAIN fees, e.type = "royalty", fees[j].type = "royalty",
               fees[j].fallback = Null, fees[j].collector = e.collector,
               fees[j].amount = e.amount
        PROVE  i < j
    <3>1. PICK k \in DOMAIN fees : k < j /\ LooksExpected(fees[k], e)
      BY <1>3, <2>3 DEF Stumbles
    <3> QED
      BY <2>1, <2>2, <3>1
  <2>4. /\ fees[i].type = e.type /\ fees[i].collector = e.collector
        /\ fees[i].amount = e.amount
    BY <2>1, <2>2, LooksLike
  <2>5. ~(e.type = "royalty" /\ fees[i].fallback = Null)
    <3> SUFFICES ASSUME e.type = "royalty", fees[i].fallback = Null PROVE FALSE
      OBVIOUS
    <3>1. i < i
      BY <2>3, <2>4
    <3> QED
      BY <2>2, <3>1
  <2>6. /\ i \in DOMAIN MirrorView(fees, e.type)
        /\ MirrorMatches(MirrorView(fees, e.type)[i], e)
    BY <2>1, <2>5, ExpectedIsShown
  <2>7. \A j \in DOMAIN MirrorView(fees, e.type) :
          MirrorThrows(MirrorView(fees, e.type)[j], e) => i < j
    BY <2>3, ThrownIsBare
  <2>8. \E k \in DOMAIN fees : ConsensusMatches(fees[k], e)
    BY <1>3, HeldIsMatched
  <2> QED
    BY <2>6, <2>7, <2>8 DEF VerifyTokenFee, ConsensusView
<1> QED
  BY <1>1, <1>2, <1>3

\* The mirror's comparison of a topic's fees is equality.
LEMMA TopicFeesRight ==
  ASSUME NEW fees \in Seq(TopicFee), NEW expected \in Seq(TopicFee)
  PROVE  /\ verifyMirrorNodeCustomFees(fees, expected) <=> fees = expected
         /\ verifyMirrorNodeCustomFees(fees, expected)
              => verifyConsensusNodeCustomFees(fees, expected)
<1>1. ASSUME verifyMirrorNodeCustomFees(fees, expected)
      PROVE  fees = expected
  <2>1. Len(fees) = Len(expected)
    BY <1>1 DEF verifyMirrorNodeCustomFees
  <2>2. ASSUME NEW i \in 1..Len(expected)
        PROVE  fees[i] = expected[i]
    <3>1. fees[i] \in TopicFee /\ expected[i] \in TopicFee
      BY <2>1, <2>2
    <3>2. /\ fees[i].collector = expected[i].collector
          /\ fees[i].amount = expected[i].amount
          /\ fees[i].token = expected[i].token
      BY <1>1, <2>2 DEF verifyMirrorNodeCustomFees
    <3>3. \A f \in TopicFee :
            f = [collector |-> f.collector, amount |-> f.amount, token |-> f.token]
      BY DEF TopicFee
    <3> QED
      BY <3>1, <3>2, <3>3
  <2> QED
    BY <2>1, <2>2
<1>2. verifyMirrorNodeCustomFees(expected, expected)
  BY DEF verifyMirrorNodeCustomFees
<1>3. verifyConsensusNodeCustomFees(expected, expected)
  BY DEF verifyConsensusNodeCustomFees, isNullOrEmpty
<1> QED
  BY <1>1, <1>2, <1>3

\* What the preflight lets pass and stops, for any settings and endpoints.
LEMMA EndpointsRight ==
  ASSUME NEW env, NEW up, up \cap Malformed = {}
  PROVE  LET set == {v \in {"NODE_IP", "MIRROR_NODE_REST_URL"} : Truthy(env[v])}
             passes == mochaGlobalSetup(env, up)
             chosen == Truthy(env["NODE_IP"]) /\ Truthy(env["NODE_ACCOUNT_ID"])
         IN /\ passes =>
                 /\ RpcUsed(env) \in up
                 /\ Truthy(MirrorRestUsed(env)) => MirrorRestUsed(env) \in up
                 /\ chosen => createClient(env) \in up
            /\ ~passes => \/ \E v \in set : env[v] \notin up
                          \/ RpcUsed(env) \notin up
            /\ ~mirrorConfigured(env) <=>
                 \/ ~Truthy(MirrorRestUsed(env)) /\ ~Truthy(MirrorJavaUsed(env))
                 \/ MirrorJavaUsed(env) = Empty
<1> DEFINE passes == mochaGlobalSetup(env, up)
<1>1. passes =>
        /\ RpcUsed(env) \in up
        /\ Truthy(MirrorRestUsed(env)) => MirrorRestUsed(env) \in up
        /\ Truthy(env["NODE_IP"]) /\ Truthy(env["NODE_ACCOUNT_ID"])
             => createClient(env) \in up
  BY DEF mochaGlobalSetup, RpcUsed, JsonRpcUrl, checkJsonRpcServer, MirrorRestUsed,
     checkHttp, checkTcp, createClient
<1>2. ~passes => \/ Truthy(env["NODE_IP"]) /\ env["NODE_IP"] \notin up
                 \/ Truthy(env["MIRROR_NODE_REST_URL"]) /\ env["MIRROR_NODE_REST_URL"] \notin up
                 \/ RpcUsed(env) \notin up
  BY DEF mochaGlobalSetup, RpcUsed, JsonRpcUrl, checkJsonRpcServer, checkHttp, checkTcp
<1>3. ~mirrorConfigured(env) <=>
        \/ ~Truthy(MirrorRestUsed(env)) /\ ~Truthy(MirrorJavaUsed(env))
        \/ MirrorJavaUsed(env) = Empty
  BY DEF mirrorConfigured, MirrorRestUsed, MirrorJavaUsed, Or, Truthy, Unset, Empty
<1> QED
  BY <1>1, <1>2, <1>3

-----------------------------------------------------------------------------
\* A result is that of the input's check.
Evaluated ==
  /\ input \in Inputs
  /\ done /\ input.topic = "token" => result = VerifyTokenFee(input.fees, input.expected)
  /\ done /\ input.topic = "topic" =>
       result = [consensus |-> verifyConsensusNodeCustomFees(input.fees, input.expected),
                 mirror |-> verifyMirrorNodeCustomFees(input.fees, input.expected)]
  /\ done /\ input.topic = "endpoints" => result = mochaGlobalSetup(EnvOf(input), input.up)

LEMMA EvaluatedInit == ChecksInit => Evaluated
BY DEF ChecksInit, Evaluated

LEMMA EvaluatedStep == Evaluated /\ [ChecksNext]_vars => Evaluated'
<1> SUFFICES ASSUME Evaluated, [ChecksNext]_vars PROVE Evaluated'
  OBVIOUS
<1>1. CASE CheckToken
  BY <1>1 DEF CheckToken, Evaluate, Evaluated
<1>2. CASE CheckTopic
  BY <1>2 DEF CheckTopic, Evaluate, Evaluated
<1>3. CASE CheckEndpoints
  BY <1>3 DEF CheckEndpoints, Evaluate, Evaluated
<1>4. CASE UNCHANGED vars
  BY <1>4 DEF vars, Evaluated
<1> QED
  BY <1>1, <1>2, <1>3, <1>4 DEF ChecksNext

\* For all fees a token or a topic may have and all a test may expect of them,
\* the checks of fees judge right; for all settings and all endpoints that
\* answer, the preflight lets a run start with the endpoints it will use.
THEOREM ChecksRight == ChecksSpec => [](FeeChecksRight /\ EndpointsCovered)
<1>1. ASSUME Evaluated
      PROVE  FeeChecksRight
  <2>1. ASSUME done, input.topic = "token"
        PROVE  result <=> /\ Holds(input.fees, input.expected)
                          /\ ~Stumbles(input.fees, input.expected)
    <3>1. result = VerifyTokenFee(input.fees, input.expected)
      BY <1>1, <2>1 DEF Evaluated
    <3>2. input.fees \in Seq(Fee)
      BY <1>1, <2>1, ChecksAssumption DEF Evaluated, Inputs
    <3> QED
      BY <3>1, <3>2, TokenFeeRight
  <2>2. ASSUME done, input.topic = "topic"
        PROVE  /\ result.mirror <=> input.fees = input.expected
               /\ result.mirror => result.consensus
    <3>1. /\ result.mirror = verifyMirrorNodeCustomFees(input.fees, input.expected)
          /\ result.consensus = verifyConsensusNodeCustomFees(input.fees, input.expected)
      BY <1>1, <2>2 DEF Evaluated
    <3>2. input.fees \in Seq(TopicFee) /\ input.expected \in Seq(TopicFee)
      BY <1>1, <2>2, ChecksAssumption DEF Evaluated, Inputs
    <3> QED
      BY <3>1, <3>2, TopicFeesRight
  <2> QED
    BY <2>1, <2>2 DEF FeeChecksRight
<1>2. ASSUME Evaluated
      PROVE  EndpointsCovered
  <2> SUFFICES ASSUME done, input.topic = "endpoints" PROVE EndpointsCovered
    BY DEF EndpointsCovered
  <2>1. result = mochaGlobalSetup(EnvOf(input), input.up)
    BY <1>2 DEF Evaluated
  <2>2. input.up \cap Malformed = {}
    BY <1>2, ChecksAssumption DEF Evaluated, Inputs
  <2> QED
    BY <2>1, <2>2, EndpointsRight DEF EndpointsCovered
<1> QED
  BY <1>1, <1>2, EvaluatedInit, EvaluatedStep, PTL DEF ChecksSpec

-----------------------------------------------------------------------------
\* Counting tests: the walk.

\* The item at a place of the repository.
At(x) == repo[x[1]][x[2]][x[3]]

\* The directories that a call was made for.
Entered(d) ==
  d = Root \/ \E x \in visited : At(x).type = "dir" /\ At(x).path = d

\* Where a call has been: everything ahead of its place.
Behind(c, p, i) == p < c.page \/ (p = c.page /\ i < c.item)

CallType == [dir : DOMAIN repo, page : Nat, item : Nat]

CountTyped ==
  /\ repo \in Repository
  /\ calls \in Seq(CallType)
  /\ files \in Seq(GitHubContentItem)
  /\ next \in 1..(Len(files) + 1)
  /\ calls # <<>> => next = 1

\* Every place visited exists, was called for and is on a page that was fetched.
VisitedShown ==
  \A x \in visited :
    /\ \E d \in DOMAIN repo : \E p \in DOMAIN repo[d] : \E i \in DOMAIN repo[d][p] :
         x = <<d, p, i>>
    /\ Entered(x[1]) /\ IsShown(x[1], x[2])

\* A call has visited what is ahead of its place and nothing else.
InPlace(c) ==
  /\ Entered(c.dir)
  /\ c.page \in DOMAIN repo[c.dir] /\ c.item \in 0..(Len(repo[c.dir][c.page]) + 1)
  /\ IsShown(c.dir, c.page - 1)
  /\ c.item > 0 => IsShown(c.dir, c.page)
  /\ \A p \in DOMAIN repo[c.dir] : \A i \in DOMAIN repo[c.dir][p] :
       <<c.dir, p, i>> \in visited <=> Behind(c, p, i)

\* The calls under way are of different directories.
CallsInPlace ==
  /\ \A k \in DOMAIN calls : InPlace(calls[k])
  /\ \A j, k \in DOMAIN calls : j # k => calls[j].dir # calls[k].dir

\* A call that has returned has visited all that is shown.
ReturnedComplete ==
  \A d \in DOMAIN repo :
    Entered(d) /\ (\A k \in DOMAIN calls : calls[k].dir # d) =>
      \A p \in DOMAIN repo[d] : \A i \in DOMAIN repo[d][p] :
        IsShown(d, p) => <<d, p, i>> \in visited

\* The files found are the markdown files visited, each once.
FilesVisited ==
  /\ \A k \in DOMAIN files : \E x \in visited : At(x).type = "md" /\ files[k] = At(x)
  /\ \A x \in visited : At(x).type = "md" => \E k \in DOMAIN files : files[k] = At(x)
  /\ \A j, k \in DOMAIN files : files[j].path = files[k].path => j = k

\* No directory is entered but through items that are shown.
EnteredReached ==
  \A S \in SUBSET DOMAIN repo : Closed(S) => \A d \in DOMAIN repo : Entered(d) => d \in S

\* The rows of the first k files, as far as they can be read.
RowsUpTo(k, implemented) ==
  UNION {{f.path} \X RowsOf(f.tables, implemented) :
           f \in {files[j] : j \in {i \in 1..k : Reads(files[i])}}}

TotalsSoFar ==
  /\ \A b \in BOOLEAN : IsFiniteSet(RowsUpTo(next - 1, b))
  /\ totals = [implemented |-> Cardinality(RowsUpTo(next - 1, TRUE)),
               notImplemented |-> Cardinality(RowsUpTo(next - 1, FALSE))]

WalkInv == CountTyped /\ VisitedShown /\ CallsInPlace /\ ReturnedComplete
           /\ FilesVisited /\ EnteredReached
CountInv == WalkInv /\ TotalsSoFar
-----------------------------------------------------------------------------

\* What a repository is, out of the assumption.
LEMMA RepoFormed ==
  ASSUME CountTyped
  PROVE  /\ WellFormed(repo) /\ Root \in DOMAIN repo
         /\ \A d \in DOMAIN repo :
              /\ Len(repo[d]) \in Nat \ {0} /\ DOMAIN repo[d] = 1..Len(repo[d])
              /\ \A p \in DOMAIN repo[d] :
                   /\ Len(repo[d][p]) \in Nat /\ DOMAIN repo[d][p] = 1..Len(repo[d][p])
                   /\ Len(repo[d][p]) = PageSize <=> p < Len(repo[d])
                   /\ \A i \in DOMAIN repo[d][p] : repo[d][p][i] \in GitHubContentItem
<1>1. WellFormed(repo)
  BY CountAssumption DEF CountTyped
<1>2. \A d \in DOMAIN repo :
        /\ Len(repo[d]) \in Nat \ {0} /\ DOMAIN repo[d] = 1..Len(repo[d])
        /\ \A p \in DOMAIN repo[d] : repo[d][p] \in Seq(GitHubContentItem)
  <2> TAKE d \in DOMAIN repo
  <2>1. repo[d] \in Seq(Seq(GitHubContentItem)) /\ repo[d] # <<>>
    BY <1>1 DEF WellFormed
  <2> QED
    BY <2>1
<1>3. \A d \in DOMAIN repo : \A p \in DOMAIN repo[d] :
        Len(repo[d][p]) = PageSize <=> p < Len(repo[d])
  BY <1>1 DEF WellFormed
<1>4. \A S : \A s \in Seq(S) : Len(s) \in Nat /\ DOMAIN s = 1..Len(s) /\ \A i \in DOMAIN s : s[i] \in S
  OBVIOUS
<1> QED
  BY <1>1, <1>2, <1>3, <1>4 DEF WellFormed

\* Pages and the items on them count from 1.
LEMMA PlacesCount ==
  ASSUME CountTyped, NEW d \in DOMAIN repo, NEW p \in DOMAIN repo[d], NEW i \in DOMAIN repo[d][p]
  PROVE  p \in Nat /\ p >= 1 /\ i \in Nat /\ i >= 1 /\ i <= Len(repo[d][p])
<1>1. /\ DOMAIN repo[d] = 1..Len(repo[d]) /\ DOMAIN repo[d][p] = 1..Len(repo[d][p])
      /\ Len(repo[d]) \in Nat /\ Len(repo[d][p]) \in Nat
  BY RepoFormed
<1> QED
  BY <1>1

\* An item is at one place only, and a directory that is listed is not the root.
LEMMA PathsDiffer ==
  ASSUME CountTyped, NEW d \in DOMAIN repo, NEW p \in DOMAIN repo[d], NEW i \in DOMAIN repo[d][p]
  PROVE  /\ repo[d][p][i].type = "dir" =>
              repo[d][p][i].path \in DOMAIN repo /\ repo[d][p][i].path # Root
         /\ \A e \in DOMAIN repo : \A q \in DOMAIN repo[e] : \A j \in DOMAIN repo[e][q] :
              repo[e][q][j].path = repo[d][p][i].path => e = d /\ q = p /\ j = i
<1>1. WellFormed(repo)
  BY RepoFormed
<1>2. repo[d][p][i].type = "dir" => repo[d][p][i].path \in DOMAIN repo \ {Root}
  BY <1>1 DEF WellFormed
<1>3. ASSUME NEW e \in DOMAIN repo, NEW q \in DOMAIN repo[e], NEW j \in DOMAIN repo[e][q],
             repo[e][q][j].path = repo[d][p][i].path
      PROVE  e = d /\ q = p /\ j = i
  BY <1>1, <1>3 DEF WellFormed
<1> QED
  BY <1>2, <1>3

\* The innermost call and what becomes of the stack.
LEMMA Stack ==
  ASSUME CountTyped, calls # <<>>
  PROVE  /\ Len(calls) \in Nat \ {0} /\ DOMAIN calls = 1..Len(calls)
         /\ \A k \in DOMAIN calls : calls[k] \in CallType
         /\ Len(calls) \in DOMAIN calls /\ Top \in CallType
         /\ /\ Return \in Seq(CallType) /\ Len(Return) = Len(calls) - 1
            /\ \A k \in 1..(Len(calls) - 1) : Return[k] = calls[k]
         /\ \A p, i \in Nat :
              /\ Goto(p, i) \in Seq(CallType) /\ Len(Goto(p, i)) = Len(calls)
              /\ Goto(p, i)[Len(calls)] = [dir |-> Top.dir, page |-> p, item |-> i]
              /\ \A k \in 1..(Len(calls) - 1) : Goto(p, i)[k] = calls[k]
<1>1. /\ Len(calls) \in Nat \ {0} /\ DOMAIN calls = 1..Len(calls)
      /\ \A k \in DOMAIN calls : calls[k] \in CallType
      /\ Len(calls) \in DOMAIN calls /\ Top \in CallType
  <2> DEFINE T == CallType
  <2>1. calls \in Seq(T)
    BY DEF CountTyped
  <2> HIDE DEF T
  <2> QED
    BY <2>1 DEF Top, T
<1>2. /\ Return \in Seq(CallType) /\ Len(Return) = Len(calls) - 1
      /\ \A k \in 1..(Len(calls) - 1) : Return[k] = calls[k]
  <2> DEFINE T == CallType
  <2>1. calls \in Seq(T)
    BY DEF CountTyped
  <2> HIDE DEF T
  <2> QED
    BY <2>1, <1>1 DEF Return, T
<1>3. ASSUME NEW p \in Nat, NEW i \in Nat
      PROVE  /\ Goto(p, i) \in Seq(CallType) /\ Len(Goto(p, i)) = Len(calls)
             /\ Goto(p, i)[Len(calls)] = [dir |-> Top.dir, page |-> p, item |-> i]
             /\ \A k \in 1..(Len(calls) - 1) : Goto(p, i)[k] = calls[k]
  <2> DEFINE T == CallType
             c == [dir |-> Top.dir, page |-> p, item |-> i]
  <2>1. calls \in Seq(T) /\ c \in T
    BY <1>1 DEF CountTyped, CallType
  <2> HIDE DEF T, c
  <2>2. [calls EXCEPT ![Len(calls)] = c] \in Seq(T)
    BY <2>1, <1>1
  <2> QED
    BY <2>1, <2>2, <1>1 DEF Goto, T, c
<1> QED
  BY <1>1, <1>2, <1>3

\* A walk starts with the call of the root, which has visited nothing.
LEMMA CountStarts == CountInit => CountInv
<1> SUFFICES ASSUME CountInit PROVE CountInv
  OBVIOUS
<1>1. WellFormed(repo) /\ Root \in DOMAIN repo
  BY CountAssumption DEF CountInit, WellFormed
<1>2. calls = <<Call(Root)>> /\ Call(Root) \in CallType
  BY <1>1 DEF CountInit, Call, CallType
<1>3. CountTyped
  <2> DEFINE T == CallType
             c == Call(Root)
  <2>1. c \in T /\ calls = <<c>>
    BY <1>2
  <2> HIDE DEF T, c
  <2>2. calls \in Seq(T)
    BY <2>1
  <2> QED
    BY <2>2 DEF CountInit, CountTyped, T
<1>4. /\ Len(calls) = 1 /\ DOMAIN calls = {1} /\ calls[1].dir = Root
      /\ calls[1].page = 1 /\ calls[1].item = 0
  BY <1>2 DEF Call
<1>5. VisitedShown /\ FilesVisited
  BY DEF CountInit, VisitedShown, FilesVisited
<1>6. CallsInPlace
  <2>1. InPlace(calls[1])
    BY <1>3, <1>4, RepoFormed DEF CountInit, InPlace, Entered, IsShown, Behind
  <2> QED
    BY <1>4, <2>1 DEF CallsInPlace
<1>7. ReturnedComplete /\ EnteredReached
  BY <1>4 DEF CountInit, ReturnedComplete, EnteredReached, Entered, Closed
<1>8. TotalsSoFar
  <2>1. \A b : RowsUpTo(next - 1, b) = {}
    BY DEF CountInit, RowsUpTo
  <2> QED
    BY <2>1, FS_EmptySet DEF CountInit, TotalsSoFar
<1> QED
  BY <1>3, <1>5, <1>6, <1>7, <1>8 DEF CountInv, WalkInv

-----------------------------------------------------------------------------
\* The steps of the walk.

\* Where nothing is visited, what was said of the visited places and the files
\* stays.
LEMMA NothingVisited ==
  ASSUME WalkInv, UNCHANGED <<repo, failing, files, visited>>
  PROVE  VisitedShown' /\ FilesVisited' /\ EnteredReached'
<1>1. \A S : Closed(S)' <=> Closed(S)
  BY DEF Closed, Shown, IsShown
<1>2. \A d : Entered(d)' <=> Entered(d)
  BY DEF Entered, At
<1> QED
  BY <1>1, <1>2 DEF WalkInv, VisitedShown, FilesVisited, EnteredReached, At, IsShown

\* A call that goes on without visiting anything is in place if the page it
\* goes to was fetched and begins where it was.
LEMMA GoesOn ==
  ASSUME WalkInv, calls # <<>>, UNCHANGED <<repo, failing, files, visited, count>>,
         NEW p \in Nat, NEW i \in Nat, calls' = Goto(p, i),
         InPlace([dir |-> Top.dir, page |-> p, item |-> i])
  PROVE  WalkInv'
<1> DEFINE n == Len(calls)
<1>1. CountTyped /\ CallsInPlace
  BY DEF WalkInv
<1>2. /\ n \in Nat \ {0} /\ DOMAIN calls = 1..n
      /\ calls' \in Seq(CallType) /\ Len(calls') = n /\ DOMAIN calls' = 1..n
      /\ calls'[n] = [dir |-> Top.dir, page |-> p, item |-> i]
      /\ \A k \in 1..(n - 1) : calls'[k] = calls[k]
  <2> DEFINE T == CallType
  <2>1. /\ n \in Nat \ {0} /\ DOMAIN calls = 1..n
        /\ calls' \in Seq(T) /\ Len(calls') = n
        /\ calls'[n] = [dir |-> Top.dir, page |-> p, item |-> i]
        /\ \A k \in 1..(n - 1) : calls'[k] = calls[k]
    BY <1>1, Stack
  <2> HIDE DEF T
  <2> QED
    BY <2>1 DEF T
<1>3. \A c : InPlace(c)' <=> InPlace(c)
  BY DEF InPlace, Entered, At, IsShown, Behind
<1>4. \A k \in 1..n : InPlace(calls'[k]) /\ calls'[k].dir = calls[k].dir
  BY <1>1, <1>2 DEF CallsInPlace, Top
<1>5. CallsInPlace'
  BY <1>1, <1>2, <1>3, <1>4 DEF CallsInPlace
<1>6. CountTyped'
  <2>1. CallType' = CallType
    BY DEF CallType
  <2>2. calls' # <<>> => next' = 1
    BY <1>1 DEF CountTyped, count
  <2> QED
    BY <1>1, <1>2, <2>1, <2>2 DEF CountTyped, count
<1>7. ReturnedComplete'
  <2>1. \A d : (\A k \in DOMAIN calls' : calls'[k].dir # d)
             => \A k \in DOMAIN calls : calls[k].dir # d
    BY <1>2, <1>4
  <2> QED
    BY <2>1 DEF WalkInv, ReturnedComplete, Entered, At, IsShown
<1> QED
  BY <1>5, <1>6, <1>7, NothingVisited DEF WalkInv

\* A call returns when all that is shown of its directory is visited.
LEMMA Returns ==
  ASSUME WalkInv, calls # <<>>, UNCHANGED <<repo, failing, files, visited, count>>,
         calls' = Return,
         \A p \in DOMAIN repo[Top.dir] : \A i \in DOMAIN repo[Top.dir][p] :
           IsShown(Top.dir, p) => <<Top.dir, p, i>> \in visited
  PROVE  WalkInv'
<1> DEFINE n == Len(calls)
<1>1. CountTyped /\ CallsInPlace
  BY DEF WalkInv
<1>2. /\ n \in Nat \ {0} /\ DOMAIN calls = 1..n
      /\ calls' \in Seq(CallType) /\ Len(calls') = n - 1 /\ DOMAIN calls' = 1..(n - 1)
      /\ \A k \in 1..(n - 1) : calls'[k] = calls[k]
  <2> DEFINE T == CallType
  <2>1. /\ n \in Nat \ {0} /\ DOMAIN calls = 1..n
        /\ calls' \in Seq(T) /\ Len(calls') = n - 1
        /\ \A k \in 1..(n - 1) : calls'[k] = calls[k]
    BY <1>1, Stack
  <2> HIDE DEF T
  <2> QED
    BY <2>1 DEF T
<1>3. \A c : InPlace(c)' <=> InPlace(c)
  BY DEF InPlace, Entered, At, IsShown, Behind
<1>5. CallsInPlace'
  BY <1>1, <1>2, <1>3 DEF CallsInPlace
<1>6. CountTyped'
  <2>1. CallType' = CallType
    BY DEF CallType
  <2>2. next' = 1
    BY <1>1 DEF CountTyped, count
  <2> QED
    BY <1>1, <1>2, <2>1, <2>2 DEF CountTyped, count
<1>7. ReturnedComplete'
  <2>1. \A d : (\A k \in DOMAIN calls' : calls'[k].dir # d)
             => d = Top.dir \/ \A k \in DOMAIN calls : calls[k].dir # d
    BY <1>2 DEF Top
  <2> QED
    BY <2>1 DEF WalkInv, ReturnedComplete, Entered, At, IsShown
<1> QED
  BY <1>5, <1>6, <1>7, NothingVisited DEF WalkInv

\* A page is fetched, or its failure ends the call.
LEMMA FetchKeeps == WalkInv /\ FetchPage => WalkInv'
<1> SUFFICES ASSUME WalkInv, FetchPage PROVE WalkInv'
  OBVIOUS
<1>1. CountTyped /\ CallsInPlace /\ calls # <<>> /\ Top.item = 0
  BY DEF WalkInv, FetchPage
<1>2. /\ Top \in CallType /\ InPlace(Top)
      /\ Top.page \in 1..Len(repo[Top.dir]) /\ Len(repo[Top.dir]) \in Nat
  BY <1>1, Stack, RepoFormed DEF CallsInPlace, Top, InPlace, CallType
<1>3. CASE <<Top.dir, Top.page>> \in failing.pages
  <2>1. \A p \in DOMAIN repo[Top.dir] : IsShown(Top.dir, p) => p < Top.page
    BY <1>1, <1>2, <1>3, RepoFormed DEF IsShown, CallType
  <2>2. \A p \in DOMAIN repo[Top.dir] : \A i \in DOMAIN repo[Top.dir][p] :
          IsShown(Top.dir, p) => <<Top.dir, p, i>> \in visited
    BY <1>2, <2>1 DEF InPlace, Behind
  <2> QED
    BY <1>1, <1>3, <2>2, Returns DEF FetchPage
<1>4. CASE <<Top.dir, Top.page>> \notin failing.pages
  <2> DEFINE c == [dir |-> Top.dir, page |-> Top.page, item |-> 1]
  <2>1. IsShown(Top.dir, Top.page)
    BY <1>2, <1>4 DEF InPlace, IsShown
  <2>2. Top.dir \in DOMAIN repo /\ Len(repo[Top.dir][Top.page]) \in Nat
    BY <1>1, <1>2, RepoFormed DEF CallType
  <2>3. \A p \in DOMAIN repo[Top.dir] : \A i \in DOMAIN repo[Top.dir][p] :
          Behind(Top, p, i) <=> Behind(c, p, i)
    BY <1>1, <2>2, PlacesCount DEF Behind
  <2>4. InPlace(c)
    BY <1>2, <2>1, <2>2, <2>3 DEF InPlace
  <2> QED
    BY <1>1, <1>2, <1>4, <2>4, GoesOn DEF FetchPage, CallType
<1> QED
  BY <1>3, <1>4

\* The loop goes on to the next page after a full one and ends at the last.
LEMMA EndPageKeeps == WalkInv /\ EndPage => WalkInv'
<1> SUFFICES ASSUME WalkInv, EndPage PROVE WalkInv'
  OBVIOUS
<1>1. CountTyped /\ CallsInPlace /\ calls # <<>> /\ Top.item = Len(Page) + 1
  BY DEF WalkInv, EndPage
<1>2. /\ Top \in CallType /\ InPlace(Top) /\ Top.dir \in DOMAIN repo
      /\ Top.page \in 1..Len(repo[Top.dir]) /\ Len(repo[Top.dir]) \in Nat
      /\ Len(Page) \in Nat /\ (HasMore <=> Top.page < Len(repo[Top.dir]))
  BY <1>1, Stack, RepoFormed DEF CallsInPlace, Top, InPlace, CallType, Page, HasMore
<1>3. \A p \in DOMAIN repo[Top.dir] : \A i \in DOMAIN repo[Top.dir][p] :
        Behind(Top, p, i) <=> p <= Top.page
  BY <1>1, <1>2, RepoFormed DEF Behind, Page
<1>4. CASE HasMore
  <2> DEFINE c == [dir |-> Top.dir, page |-> Top.page + 1, item |-> 0]
  <2>1. \A p \in DOMAIN repo[Top.dir] : \A i \in DOMAIN repo[Top.dir][p] :
          Behind(Top, p, i) <=> Behind(c, p, i)
    <3>1. \A p \in DOMAIN repo[Top.dir] : p \in Nat
      BY <1>1, <1>2, RepoFormed
    <3>2. \A p \in DOMAIN repo[Top.dir] : \A i \in DOMAIN repo[Top.dir][p] :
            i \in Nat /\ i >= 1 /\ (Behind(c, p, i) <=> p < Top.page + 1)
      BY <1>1, <1>2, PlacesCount DEF Behind
    <3> QED
      BY <1>2, <1>3, <3>1, <3>2
  <2>2. /\ Top.page + 1 \in DOMAIN repo[Top.dir]
        /\ Len(repo[Top.dir][Top.page + 1]) \in Nat
        /\ IsShown(Top.dir, Top.page) /\ (Top.page + 1) - 1 = Top.page
    <3>1. IsShown(Top.dir, Top.page)
      BY <1>1, <1>2 DEF InPlace
    <3>2. Top.page + 1 \in DOMAIN repo[Top.dir]
      BY <1>1, <1>2, <1>4, RepoFormed
    <3> QED
      BY <1>1, <1>2, <3>1, <3>2, RepoFormed
  <2>3. InPlace(c)
    BY <1>2, <2>1, <2>2 DEF InPlace
  <2> QED
    BY <1>1, <1>2, <1>4, <2>3, GoesOn DEF EndPage, CallType
<1>5. CASE ~HasMore
  <2>1. \A p \in DOMAIN repo[Top.dir] : p <= Top.page
    BY <1>1, <1>2, <1>5, RepoFormed
  <2>2. \A p \in DOMAIN repo[Top.dir] : \A i \in DOMAIN repo[Top.dir][p] :
          <<Top.dir, p, i>> \in visited
    BY <1>2, <1>3, <2>1 DEF InPlace
  <2> QED
    BY <1>1, <1>5, <2>2, Returns DEF EndPage
<1> QED
  BY <1>4, <1>5

\* The item at the innermost call's place, which nobody has visited yet.
LEMMA ItemAhead ==
  ASSUME WalkInv, VisitItem,
         NEW d, NEW p, NEW i, NEW item, NEW x,
         d = Top.dir, p = Top.page, i = Top.item, item = Page[i], x = <<d, p, i>>
  PROVE  /\ d \in DOMAIN repo /\ p \in DOMAIN repo[d] /\ i \in DOMAIN repo[d][p]
         /\ p \in Nat /\ i \in Nat /\ i > 0 /\ i + 1 <= Len(repo[d][p]) + 1
         /\ item = repo[d][p][i] /\ item = At(x) /\ item \in GitHubContentItem
         /\ InPlace(Top) /\ IsShown(d, p) /\ Entered(d)
         /\ x \notin visited
         /\ \A y \in visited : At(y).path # item.path
         /\ item.type = "dir" => item.path \in DOMAIN repo /\ ~Entered(item.path)
<1>1. CountTyped /\ CallsInPlace /\ VisitedShown /\ calls # <<>> /\ Top.item \in DOMAIN Page
  BY DEF WalkInv, VisitItem
<1>2. Top \in CallType /\ InPlace(Top) /\ d \in DOMAIN repo
  BY <1>1, Stack DEF CallsInPlace, Top, CallType
<1>3. p \in DOMAIN repo[d] /\ i \in DOMAIN repo[d][p]
  BY <1>1, <1>2 DEF InPlace, Page
<1>4. p \in Nat /\ i \in Nat /\ i > 0 /\ i <= Len(repo[d][p]) /\ Len(repo[d][p]) \in Nat
  BY <1>1, <1>2, <1>3, RepoFormed
<1>5. item = repo[d][p][i] /\ item = At(x) /\ item \in GitHubContentItem
  BY <1>1, <1>2, <1>3, RepoFormed DEF Page, At
<1>6. IsShown(d, p) /\ Entered(d)
  BY <1>2, <1>4 DEF InPlace
<1>7. x \notin visited
  BY <1>2, <1>3, <1>4 DEF InPlace, Behind
<1>8. ASSUME NEW y \in visited PROVE At(y).path # item.path
  <2>1. PICK e \in DOMAIN repo : \E q \in DOMAIN repo[e] : \E j \in DOMAIN repo[e][q] : y = <<e, q, j>>
    BY <1>1 DEF VisitedShown
  <2>2. PICK q \in DOMAIN repo[e] : \E j \in DOMAIN repo[e][q] : y = <<e, q, j>>
    BY <2>1
  <2>3. PICK j \in DOMAIN repo[e][q] : y = <<e, q, j>>
    BY <2>2
  <2>4. At(y) = repo[e][q][j]
    BY <2>3 DEF At
  <2>5. ASSUME repo[e][q][j].path = repo[d][p][i].path PROVE y = x
    <3>1. e = d /\ q = p /\ j = i
      BY <1>1, <1>2, <1>3, <2>5, PathsDiffer
    <3> QED
      BY <2>3, <3>1
  <2> QED
    BY <1>5, <1>7, <2>4, <2>5
<1>9. ASSUME item.type = "dir" PROVE item.path \in DOMAIN repo /\ ~Entered(item.path)
  <2>1. item.path \in DOMAIN repo /\ item.path # Root
    <3>1. repo[d][p][i].type = "dir" =>
            repo[d][p][i].path \in DOMAIN repo /\ repo[d][p][i].path # Root
      BY <1>1, <1>2, <1>3, PathsDiffer
    <3>2. item = repo[d][p][i]
      BY <1>5
    <3> QED
      BY <1>9, <3>1, <3>2
  <2> QED
    BY <1>8, <2>1 DEF Entered
<1> QED
  BY <1>2, <1>3, <1>4, <1>5, <1>6, <1>7, <1>8, <1>9

\* Visiting an item keeps the calls in place: the one that goes on is past it,
\* the one it makes is of a directory nobody has entered.
LEMMA VisitCalls ==
  ASSUME WalkInv, VisitItem
  PROVE  /\ calls' \in Seq(CallType)
         /\ CallsInPlace' /\ ReturnedComplete'
<1> DEFINE d == Top.dir
           p == Top.page
           i == Top.item
           item == Page[i]
           x == <<d, p, i>>
           n == Len(calls)
           g == [dir |-> d, page |-> p, item |-> i + 1]
           m == IF item.type = "dir" THEN n + 1 ELSE n
<1>1. CountTyped /\ CallsInPlace /\ VisitedShown /\ ReturnedComplete /\ calls # <<>>
  BY DEF WalkInv, VisitItem
<1>2. /\ d \in DOMAIN repo /\ p \in DOMAIN repo[d] /\ i \in DOMAIN repo[d][p]
      /\ p \in Nat /\ i \in Nat /\ i > 0 /\ i + 1 <= Len(repo[d][p]) + 1
      /\ item = repo[d][p][i] /\ item = At(x)
      /\ InPlace(Top) /\ IsShown(d, p) /\ Entered(d)
      /\ item.type = "dir" => item.path \in DOMAIN repo /\ ~Entered(item.path)
  BY ItemAhead
<1>3. /\ n \in Nat \ {0} /\ DOMAIN calls = 1..n /\ Top = calls[n]
      /\ calls' \in Seq(CallType) /\ Len(calls') = m /\ DOMAIN calls' = 1..m
      /\ \A k \in 1..(n - 1) : calls'[k] = calls[k]
      /\ calls'[n] = g
      /\ item.type = "dir" => calls'[n + 1] = Call(item.path)
  <2> DEFINE T == CallType
             rest == Goto(p, i + 1)
             c == Call(item.path)
  <2>1. /\ n \in Nat \ {0} /\ DOMAIN calls = 1..n /\ Top = calls[n]
        /\ rest \in Seq(T) /\ Len(rest) = n /\ rest[n] = g
        /\ \A k \in 1..(n - 1) : rest[k] = calls[k]
    BY <1>1, <1>2, Stack DEF Top
  <2>2. item.type = "dir" => c \in T
    BY <1>2 DEF Call, CallType
  <2>3. calls' = IF item.type = "dir" THEN Append(rest, c) ELSE rest
    BY DEF VisitItem
  <2> HIDE DEF T, rest, c, g, item, n
  <2>4. CASE item.type = "dir"
    <3>1. m = n + 1 /\ calls' = Append(rest, c) /\ c \in T
      BY <2>2, <2>3, <2>4
    <3>2. calls' \in Seq(T) /\ Len(calls') = n + 1 /\ calls'[n + 1] = c
          /\ \A k \in 1..n : calls'[k] = rest[k]
      BY <2>1, <3>1
    <3> QED
      BY <2>1, <3>1, <3>2 DEF T, c
  <2>5. CASE item.type # "dir"
    BY <2>1, <2>3, <2>5 DEF T
  <2> QED
    BY <2>4, <2>5
<1>4. repo' = repo /\ failing' = failing /\ visited' = visited \cup {x}
  BY DEF VisitItem
<1>5. \A e : Entered(e)' <=> Entered(e) \/ (item.type = "dir" /\ e = item.path)
  <2>1. \A y : At(y)' = At(y)
    BY <1>4 DEF At
  <2> QED
    BY <1>2, <1>4, <2>1 DEF Entered
<1>6. \A e, q : IsShown(e, q)' <=> IsShown(e, q)
  BY <1>4 DEF IsShown
<1>7. ASSUME NEW k \in 1..(n - 1), NEW f, f = calls'[k] PROVE InPlace(f)'
  <2>1. f = calls[k] /\ InPlace(f) /\ f.dir # d
    BY <1>1, <1>3, <1>7 DEF CallsInPlace
  <2>2. \A q, j : <<f.dir, q, j>> \in visited' <=> <<f.dir, q, j>> \in visited
    BY <1>4, <2>1
  <2> QED
    BY <1>4, <1>5, <1>6, <2>1, <2>2 DEF InPlace, Behind
<1>8. ASSUME NEW f, f = g PROVE InPlace(f)'
  <2>1. \A q \in DOMAIN repo[d] : \A j \in DOMAIN repo[d][q] : q \in Nat /\ j \in Nat
    BY <1>1, <1>2, PlacesCount
  <2>2. /\ f.dir = d /\ f.page = p /\ f.item = i + 1 /\ i + 1 > 0
        /\ i + 1 \in 0..(Len(repo[d][p]) + 1)
    BY <1>1, <1>2, <1>8, RepoFormed
  <2>3. \A q \in DOMAIN repo[d] : \A j \in DOMAIN repo[d][q] :
          Behind(f, q, j) <=> Behind(Top, q, j) \/ (q = p /\ j = i)
    BY <1>2, <2>1, <2>2 DEF Behind
  <2>4. \A q \in DOMAIN repo[d] : \A j \in DOMAIN repo[d][q] :
          <<d, q, j>> \in visited' <=> Behind(f, q, j)
    BY <1>2, <1>4, <2>3 DEF InPlace
  <2>5. IsShown(d, p - 1)
    BY <1>2 DEF InPlace
  <2> QED
    BY <1>2, <1>4, <1>5, <1>6, <2>2, <2>4, <2>5 DEF InPlace, Behind
<1>9. ASSUME item.type = "dir", NEW f, f = Call(item.path) PROVE InPlace(f)'
  <2> DEFINE c == f.dir
  <2>1. f.dir = item.path /\ f.page = 1 /\ f.item = 0
    BY <1>9 DEF Call
  <2>2. c \in DOMAIN repo /\ ~Entered(c) /\ c # d
    BY <1>2, <1>9, <2>1
  <2>3. \A q, j : <<c, q, j>> \notin visited'
    BY <1>1, <1>4, <2>2 DEF VisitedShown
  <2>4. 1 \in DOMAIN repo[c] /\ Len(repo[c][1]) \in Nat
    BY <1>1, <2>2, RepoFormed
  <2>5. \A q \in DOMAIN repo[c] : \A j \in DOMAIN repo[c][q] : ~Behind(f, q, j)
    BY <1>1, <2>1, <2>2, PlacesCount DEF Behind
  <2>6. Entered(c)'
    BY <1>5, <1>9, <2>1
  <2>7. IsShown(c, f.page - 1)'
    BY <1>6, <2>1 DEF IsShown
  <2> QED
    BY <1>4, <2>1, <2>3, <2>4, <2>5, <2>6, <2>7 DEF InPlace, Behind
<1>10. \A k \in 1..n : calls'[k].dir = calls[k].dir /\ Entered(calls[k].dir)
  <2>1. \A k \in 1..n : Entered(calls[k].dir)
    BY <1>1, <1>3 DEF CallsInPlace, InPlace
  <2> HIDE DEF n
  <2>2. \A k \in 1..n : k = n \/ k \in 1..(n - 1)
    BY <1>3
  <2> QED
    BY <1>3, <2>1, <2>2
<1>11. CallsInPlace'
  <2>1. \A k \in 1..m : k \in 1..n \/ (item.type = "dir" /\ k = n + 1)
    BY <1>3
  <2>2. \A k \in 1..m : \A f : f = calls'[k] => InPlace(f)'
    <3> TAKE k \in 1..m
    <3> TAKE f
    <3> HAVE f = calls'[k]
    <3>1. CASE k \in 1..(n - 1)
      BY <1>7, <3>1
    <3>2. CASE k = n
      BY <1>3, <1>8, <3>2
    <3>3. CASE item.type = "dir" /\ k = n + 1
      BY <1>3, <1>9, <3>3
    <3> HIDE DEF n, item
    <3> QED
      BY <1>3, <2>1, <3>1, <3>2, <3>3
  <2>3. \A j, k \in 1..n : j # k => calls'[j].dir # calls'[k].dir
    BY <1>1, <1>3, <1>10 DEF CallsInPlace
  <2>4. item.type = "dir" => \A k \in 1..n : calls'[k].dir # calls'[n + 1].dir
    <3> SUFFICES ASSUME item.type = "dir", NEW k \in 1..n
                 PROVE  calls'[k].dir # calls'[n + 1].dir
      OBVIOUS
    <3>1. calls'[n + 1].dir = item.path /\ ~Entered(item.path)
      BY <1>2, <1>3 DEF Call
    <3>2. Entered(calls'[k].dir)
      BY <1>10
    <3> QED
      BY <3>1, <3>2
  <2> HIDE DEF n, item
  <2>5. \A j, k \in 1..m : j # k => calls'[j].dir # calls'[k].dir
    BY <2>1, <2>3, <2>4
  <2> HIDE DEF m
  <2> QED
    BY <1>3, <2>2, <2>5 DEF CallsInPlace
<1>12. ReturnedComplete'
  <2> SUFFICES ASSUME NEW e \in DOMAIN repo, Entered(e)', \A k \in 1..m : calls'[k].dir # e,
                      NEW q \in DOMAIN repo[e], NEW j \in DOMAIN repo[e][q], IsShown(e, q)
               PROVE  <<e, q, j>> \in visited
    BY <1>3, <1>4, <1>6 DEF ReturnedComplete
  <2>1. Entered(e)
    BY <1>3, <1>5 DEF Call
  <2>2. \A k \in 1..n : calls[k].dir # e
    BY <1>3, <1>10
  <2> QED
    BY <1>1, <1>3, <2>1, <2>2 DEF ReturnedComplete
<1> QED
  BY <1>3, <1>11, <1>12

\* What is visited is shown, and a markdown file is found with its visit.
LEMMA VisitFinds ==
  ASSUME WalkInv, VisitItem
  PROVE  files' \in Seq(GitHubContentItem) /\ VisitedShown' /\ FilesVisited' /\ EnteredReached'
<1> DEFINE d == Top.dir
           p == Top.page
           i == Top.item
           item == Page[i]
           x == <<d, p, i>>
           n == Len(files)
<1>1. CountTyped /\ VisitedShown /\ FilesVisited /\ EnteredReached
  BY DEF WalkInv
<1>2. /\ d \in DOMAIN repo /\ p \in DOMAIN repo[d] /\ i \in DOMAIN repo[d][p]
      /\ item = repo[d][p][i] /\ item = At(x) /\ item \in GitHubContentItem
      /\ IsShown(d, p) /\ Entered(d)
      /\ \A y \in visited : At(y).path # item.path
      /\ item.type = "dir" => item.path \in DOMAIN repo
  BY ItemAhead
<1>3. repo' = repo /\ failing' = failing /\ visited' = visited \cup {x}
  BY DEF VisitItem
<1>4. \A y : At(y)' = At(y)
  BY <1>3 DEF At
<1>5. \A e : Entered(e)' <=> Entered(e) \/ (item.type = "dir" /\ e = item.path)
  BY <1>2, <1>3, <1>4 DEF Entered
<1>6. VisitedShown'
  <2>1. \A e, q : IsShown(e, q)' <=> IsShown(e, q)
    BY <1>3 DEF IsShown
  <2>2. x[1] = d /\ x[2] = p
    OBVIOUS
  <2> HIDE DEF d, p, i, x
  <2>3. x = <<d, p, i>>
    BY DEF x
  <2> QED
    BY <1>1, <1>2, <1>3, <1>5, <2>1, <2>2, <2>3 DEF VisitedShown
<1>7. EnteredReached'
  <2>1. \A S : Closed(S)' <=> Closed(S)
    BY <1>3 DEF Closed, Shown, IsShown
  <2>2. item \in Shown(d)
    <3>1. item \in {repo[d][p][j] : j \in DOMAIN repo[d][p]}
      BY <1>2
    <3>2. p \in {q \in DOMAIN repo[d] : IsShown(d, q)}
      BY <1>2
    <3> HIDE DEF d, p, item
    <3> QED
      BY <3>1, <3>2 DEF Shown
  <2> HIDE DEF d, item
  <2> QED
    BY <1>1, <1>2, <1>3, <1>5, <2>1, <2>2 DEF EnteredReached, Closed
<1>8. files' = IF item.type = "md" THEN Append(files, item) ELSE files
  BY DEF VisitItem
<1>9. files \in Seq(GitHubContentItem)
  BY <1>1 DEF CountTyped
<1>10. CASE item.type = "md"
  <2> HIDE DEF item, x
  <2>1. /\ files' \in Seq(GitHubContentItem) /\ n \in Nat
        /\ DOMAIN files = 1..n /\ DOMAIN files' = 1..(n + 1)
        /\ files'[n + 1] = item /\ \A k \in 1..n : files'[k] = files[k]
    BY <1>2, <1>8, <1>9, <1>10
  <2>2. \A k \in 1..n : files[k].path # item.path
    BY <1>1, <1>2, <2>1 DEF FilesVisited
  <2>3. \A k \in 1..(n + 1) : \E y \in visited' : At(y).type = "md" /\ files'[k] = At(y)
    BY <1>1, <1>2, <1>3, <1>10, <2>1 DEF FilesVisited
  <2>4. \A y \in visited' : At(y).type = "md" => \E k \in 1..(n + 1) : files'[k] = At(y)
    <3> TAKE y \in visited'
    <3> HAVE At(y).type = "md"
    <3>1. CASE y = x
      BY <1>2, <2>1, <3>1
    <3>2. CASE y \in visited
      <4>1. PICK k \in 1..n : files[k] = At(y)
        BY <1>1, <2>1, <3>2 DEF FilesVisited
      <4> QED
        BY <2>1, <4>1
    <3> QED
      BY <1>3, <3>1, <3>2
  <2>5. \A j, k \in 1..(n + 1) : files'[j].path = files'[k].path => j = k
    <3>1. \A j, k \in 1..n : files'[j].path = files'[k].path => j = k
      BY <1>1, <2>1 DEF FilesVisited
    <3> QED
      BY <2>1, <2>2, <3>1
  <2>6. FilesVisited'
    BY <1>4, <2>1, <2>3, <2>4, <2>5 DEF FilesVisited
  <2> QED
    BY <1>6, <1>7, <2>1, <2>6
<1>11. CASE item.type # "md"
  <2>1. FilesVisited'
    BY <1>1, <1>2, <1>3, <1>4, <1>8, <1>11 DEF FilesVisited
  <2> QED
    BY <1>6, <1>7, <1>8, <1>9, <1>11, <2>1
<1> QED
  BY <1>10, <1>11

\* Visiting an item keeps the account of the walk.
LEMMA VisitKeeps == WalkInv /\ VisitItem => WalkInv'
<1> SUFFICES ASSUME WalkInv, VisitItem PROVE WalkInv'
  OBVIOUS
<1>1. CountTyped /\ calls # <<>>
  BY DEF WalkInv, VisitItem
<1>2. repo' = repo /\ next' = 1 /\ CallType' = CallType
  BY <1>1 DEF VisitItem, count, CountTyped, CallType
<1>3. files' \in Seq(GitHubContentItem) /\ calls' \in Seq(CallType)
  BY VisitCalls, VisitFinds
<1>4. CountTyped'
  BY <1>1, <1>2, <1>3 DEF CountTyped
<1> QED
  BY <1>4, VisitCalls, VisitFinds DEF WalkInv

-----------------------------------------------------------------------------
\* The downloads.

\* A file has finitely many rows.
LEMMA RowsFinite ==
  ASSUME NEW f \in GitHubContentItem, NEW b
  PROVE  IsFiniteSet(RowsOf(f.tables, b))
<1> DEFINE tables == f.tables
           n == Len(tables)
           part == [t \in 1..n |-> {t} \X CountedRows(tables[t], b)]
           parts == {part[t] : t \in 1..n}
<1>1. tables \in Seq(Seq(Seq(STRING)))
  BY DEF GitHubContentItem
<1>2. n \in Nat /\ DOMAIN tables = 1..n /\ \A t \in 1..n : Len(tables[t]) \in Nat
  BY <1>1
<1>3. \A t \in 1..n : IsFiniteSet(CountedRows(tables[t], b))
  <2> TAKE t \in 1..n
  <2>1. CountedRows(tables[t], b) \in SUBSET (2..Len(tables[t]))
    BY DEF CountedRows
  <2>2. Len(tables[t]) \in Int /\ 2 \in Int
    BY <1>2
  <2>3. IsFiniteSet(2..Len(tables[t]))
    BY <2>2, FS_Interval
  <2> QED
    BY <2>1, <2>3, FS_Subset
<1>4. \A t \in 1..n : IsFiniteSet(part[t])
  <2> TAKE t \in 1..n
  <2>1. IsFiniteSet({t})
    BY FS_Singleton
  <2>2. IsFiniteSet({t} \X CountedRows(tables[t], b))
    BY <1>3, <2>1, FS_Product
  <2> QED
    BY <2>2
<1>5. IsFiniteSet(parts)
  <2> HIDE DEF n
  <2>1. part \in Surjection(1..n, parts)
    BY DEF Surjection
  <2>2. IsFiniteSet(1..n)
    BY <1>2, FS_Interval
  <2> HIDE DEF part, parts
  <2> QED
    BY <2>1, <2>2, FS_Surjection
<1>6. IsFiniteSet(UNION parts)
  <2>1. \A s \in parts : IsFiniteSet(s)
    BY <1>4
  <2> HIDE DEF parts
  <2> QED
    BY <1>5, <2>1, FS_UNION
<1>7. RowsOf(tables, b) = UNION parts
  BY <1>2 DEF RowsOf
<1> QED
  BY <1>6, <1>7

\* Naming the rows of a file after it changes their number as little.
LEMMA NamedRows ==
  ASSUME NEW path, NEW R, IsFiniteSet(R)
  PROVE  IsFiniteSet({path} \X R) /\ Cardinality({path} \X R) = Cardinality(R)
<1> DEFINE name == [r \in R |-> <<path, r>>]
<1>1. name \in Bijection(R, {path} \X R)
  <2>1. name \in [R -> {path} \X R]
    OBVIOUS
  <2>2. \A r, q \in R : name[r] = name[q] => r = q
    OBVIOUS
  <2>3. \A x \in {path} \X R : \E r \in R : name[r] = x
    <3> TAKE x \in {path} \X R
    <3>1. x[2] \in R /\ x = <<path, x[2]>>
      OBVIOUS
    <3> QED
      BY <3>1
  <2> HIDE DEF name
  <2> QED
    BY <2>1, <2>2, <2>3 DEF Bijection, Injection, Surjection, IsInjective
<1>2. ExistsBijection(R, {path} \X R)
  BY <1>1 DEF ExistsBijection
<1> QED
  BY <1>2, FS_Bijection

\* With one more file, if it is read, come its rows, and none of them is of a
\* file before it.
LEMMA RowsOfNext ==
  ASSUME WalkInv, next \in DOMAIN files, NEW b, IsFiniteSet(RowsUpTo(next - 1, b))
  PROVE  /\ IsFiniteSet(RowsUpTo(next, b))
         /\ Cardinality(RowsUpTo(next, b))
              = Cardinality(RowsUpTo(next - 1, b))
                + (IF Reads(files[next]) THEN Cardinality(RowsOf(files[next].tables, b)) ELSE 0)
<1> DEFINE f == files[next]
           Before == RowsUpTo(next - 1, b)
           R == RowsOf(f.tables, b)
           These == {f.path} \X R
           Read(k) == {files[j] : j \in {i \in 1..k : Reads(files[i])}}
<1>1. CountTyped /\ FilesVisited
  BY DEF WalkInv
<1>2. /\ next \in Nat /\ next >= 1 /\ f \in GitHubContentItem /\ DOMAIN files = 1..Len(files)
      /\ next <= Len(files) /\ Len(files) \in Nat
  <2>1. files \in Seq(GitHubContentItem)
    BY <1>1 DEF CountTyped
  <2> QED
    BY <2>1
<1>3. IsFiniteSet(R)
  BY <1>2, RowsFinite
<1>4. CASE ~Reads(f)
  <2>1. {i \in 1..next : Reads(files[i])} = {i \in 1..(next - 1) : Reads(files[i])}
    BY <1>2, <1>4
  <2>2. RowsUpTo(next, b) = Before
    BY <2>1 DEF RowsUpTo
  <2>3. Cardinality(Before) \in Nat
    BY FS_CardinalityType
  <2> QED
    BY <1>4, <2>2, <2>3
<1>5. CASE Reads(f)
  <2>1. {i \in 1..next : Reads(files[i])} = {i \in 1..(next - 1) : Reads(files[i])} \cup {next}
    BY <1>2, <1>5
  <2>2. Read(next) = Read(next - 1) \cup {f}
    BY <2>1
  <2>3. RowsUpTo(next, b) = Before \cup These
    <3>1. \A k : RowsUpTo(k, b) = UNION {{g.path} \X RowsOf(g.tables, b) : g \in Read(k)}
      BY DEF RowsUpTo
    <3> HIDE DEF Read, f
    <3>2. ASSUME NEW z
          PROVE  z \in RowsUpTo(next, b) <=> z \in Before \/ z \in {f.path} \X RowsOf(f.tables, b)
      <4>1. z \in RowsUpTo(next, b)
              <=> \E g \in Read(next) : z \in {g.path} \X RowsOf(g.tables, b)
        BY <3>1
      <4>2. z \in Before
              <=> \E g \in Read(next - 1) : z \in {g.path} \X RowsOf(g.tables, b)
        BY <3>1
      <4> HIDE DEF Before
      <4> QED
        BY <2>2, <4>1, <4>2
    <3> HIDE DEF Before
    <3> QED
      BY <3>2 DEF f
  <2>4. \A g \in Read(next - 1) : g.path # f.path
    BY <1>1, <1>2 DEF FilesVisited
  <2>5. Before \cap These = {}
    <3>1. Before = UNION {{g.path} \X RowsOf(g.tables, b) : g \in Read(next - 1)}
      BY DEF RowsUpTo
    <3> HIDE DEF Read, f, R
    <3> QED
      BY <2>4, <3>1
  <2>6. IsFiniteSet(These) /\ Cardinality(These) = Cardinality(R)
    BY <1>3, NamedRows
  <2> HIDE DEF Before, These, R, f
  <2>7. /\ IsFiniteSet(Before \cup These)
        /\ Cardinality(Before \cup These)
             = Cardinality(Before) + Cardinality(These) - Cardinality(Before \cap These)
    BY <2>6, FS_Union DEF Before
  <2>8. /\ Cardinality(Before \cap These) = 0 /\ Cardinality(Before) \in Nat
        /\ Cardinality(R) \in Nat
    BY <1>3, <2>5, FS_EmptySet, FS_CardinalityType DEF Before
  <2> QED
    BY <1>5, <2>3, <2>6, <2>7, <2>8 DEF Before, R, f
<1> QED
  BY <1>4, <1>5

\* The walk leaves the totals at zero, a download adds the rows of its file.
LEMMA TotalsKeep ==
  ASSUME CountInv, [CountNext]_countVars
  PROVE  TotalsSoFar'
<1>1. WalkInv /\ CountTyped /\ TotalsSoFar
  BY DEF CountInv, WalkInv
<1>2. \A t, b : RowsOf(t, b)' = RowsOf(t, b)
  OBVIOUS
<1>3. ASSUME UNCHANGED <<next, totals, failing>>,
             \A k \in 1..(next - 1) : files'[k] = files[k]
      PROVE  TotalsSoFar'
  <2>1. \A b : RowsUpTo(next - 1, b)' = RowsUpTo(next - 1, b)
    BY <1>3 DEF RowsUpTo, Reads
  <2> QED
    BY <1>1, <1>3, <2>1 DEF TotalsSoFar
<1>4. CASE UNCHANGED countVars
  BY <1>3, <1>4 DEF countVars, walk, count
<1>5. CASE FetchPage \/ EndPage
  BY <1>3, <1>5 DEF FetchPage, EndPage, count
<1>6. CASE VisitItem
  <2>1. next = 1
    BY <1>1, <1>6 DEF CountTyped, VisitItem
  <2> QED
    BY <1>3, <1>6, <2>1 DEF VisitItem, count
<1>7. CASE CountFile
  <2> DEFINE f == files[next]
  <2>1. /\ next \in DOMAIN files /\ next' = next + 1
        /\ files' = files /\ failing' = failing
    BY <1>7 DEF CountFile, walk
  <2>2. next \in Nat
    BY <1>1 DEF CountTyped
  <2>3. \A b : RowsUpTo(next - 1, b)' = RowsUpTo(next, b)
    BY <2>1, <2>2 DEF RowsUpTo, Reads
  <2>4. ASSUME NEW b \in BOOLEAN
        PROVE  /\ IsFiniteSet(RowsUpTo(next, b))
               /\ Cardinality(RowsUpTo(next, b))
                    = Cardinality(RowsUpTo(next - 1, b))
                      + (IF Reads(f) THEN Cardinality(RowsOf(f.tables, b)) ELSE 0)
               /\ Cardinality(RowsUpTo(next - 1, b)) \in Nat
    BY <1>1, <2>1, RowsOfNext, FS_CardinalityType DEF TotalsSoFar
  <2>5. totals' = IF Reads(f)
                  THEN [implemented |-> totals.implemented + Cardinality(RowsOf(f.tables, TRUE)),
                        notImplemented |-> totals.notImplemented + Cardinality(RowsOf(f.tables, FALSE))]
                  ELSE totals
    BY <1>7 DEF CountFile, parseMarkdownWithTables
  <2>6. totals = [implemented |-> Cardinality(RowsUpTo(next - 1, TRUE)),
                  notImplemented |-> Cardinality(RowsUpTo(next - 1, FALSE))]
    BY <1>1 DEF TotalsSoFar
  <2> HIDE DEF f
  <2>7. totals' = [implemented |-> Cardinality(RowsUpTo(next, TRUE)),
                   notImplemented |-> Cardinality(RowsUpTo(next, FALSE))]
    <3> DEFINE was(b) == Cardinality(RowsUpTo(next - 1, b))
               now(b) == Cardinality(RowsUpTo(next, b))
               more(b) == Cardinality(RowsOf(f.tables, b))
    <3>1. \A b \in BOOLEAN : was(b) \in Nat /\ now(b) = was(b) + (IF Reads(f) THEN more(b) ELSE 0)
      BY <2>4
    <3>2. totals = [implemented |-> was(TRUE), notImplemented |-> was(FALSE)]
      BY <2>6
    <3>3. totals' = IF Reads(f) THEN [implemented |-> totals.implemented + more(TRUE),
                                      notImplemented |-> totals.notImplemented + more(FALSE)]
                    ELSE totals
      BY <2>5
    <3> HIDE DEF was, now, more
    <3>4. CASE Reads(f)
      BY <3>1, <3>2, <3>3, <3>4 DEF now
    <3>5. CASE ~Reads(f)
      <4>1. \A b \in BOOLEAN : was(b) \in Nat /\ now(b) = was(b) + 0
        BY <3>1, <3>5
      <4>2. \A b \in BOOLEAN : now(b) = was(b)
        BY <4>1
      <4>3. now(TRUE) = was(TRUE) /\ now(FALSE) = was(FALSE)
        BY <4>2
      <4> QED
        BY <3>2, <3>3, <3>5, <4>3 DEF now
    <3> QED
      BY <3>4, <3>5
  <2> QED
    BY <2>3, <2>4, <2>7 DEF TotalsSoFar
<1> QED
  BY <1>4, <1>5, <1>6, <1>7 DEF CountNext

\* The walk and the downloads keep the invariant.
LEMMA CountKeeps == CountInv /\ [CountNext]_countVars => CountInv'
<1> SUFFICES ASSUME CountInv, [CountNext]_countVars PROVE WalkInv'
  BY TotalsKeep DEF CountInv
<1>1. WalkInv /\ CountTyped
  BY DEF CountInv, WalkInv
<1>2. ASSUME UNCHANGED <<repo, failing, walk>>, next' \in 1..(Len(files) + 1),
             calls # <<>> => next' = 1
      PROVE  WalkInv'
  <2>1. CountTyped'
    BY <1>1, <1>2 DEF CountTyped, CallType, walk
  <2>2. CallsInPlace'
    BY <1>1, <1>2 DEF WalkInv, CallsInPlace, InPlace, Entered, At, IsShown, Behind, walk
  <2>3. ReturnedComplete'
    BY <1>1, <1>2 DEF WalkInv, ReturnedComplete, Entered, At, IsShown, walk
  <2>4. UNCHANGED <<repo, failing, files, visited>>
    BY <1>2 DEF walk
  <2> QED
    BY <1>1, <2>1, <2>2, <2>3, <2>4, NothingVisited DEF WalkInv
<1>3. CASE UNCHANGED countVars
  <2>1. /\ UNCHANGED <<repo, failing, walk>> /\ next' = next
    BY <1>3 DEF countVars, count
  <2>2. next' \in 1..(Len(files) + 1) /\ (calls # <<>> => next' = 1)
    BY <1>1, <2>1 DEF CountTyped
  <2> QED
    BY <1>2, <2>1, <2>2
<1>4. CASE CountFile
  <2>1. next' \in 1..(Len(files) + 1)
    <3>1. files \in Seq(GitHubContentItem)
      BY <1>1 DEF CountTyped
    <3>2. next \in 1..Len(files) /\ next' = next + 1 /\ Len(files) \in Nat
      BY <1>4, <3>1 DEF CountFile
    <3> QED
      BY <3>2
  <2>2. UNCHANGED <<repo, failing, walk>> /\ calls = <<>>
    BY <1>4 DEF CountFile
  <2> QED
    BY <1>2, <2>1, <2>2
<1>5. CASE FetchPage \/ VisitItem \/ EndPage
  <2>1. CASE FetchPage
    BY <1>1, <2>1, FetchKeeps
  <2>2. CASE VisitItem
    BY <1>1, <2>2, VisitKeeps
  <2>3. CASE EndPage
    BY <1>1, <2>3, EndPageKeeps
  <2> QED
    BY <1>5, <2>1, <2>2, <2>3
<1> QED
  BY <1>3, <1>4, <1>5 DEF CountNext

\* When all calls have returned, the files found are those that can be: the
\* directories entered are closed under what is shown of them, so they are all
\* that are reached.
LEMMA FoundAll ==
  ASSUME WalkInv, calls = <<>>
  PROVE  {files[j] : j \in {i \in 1..Len(files) : Reads(files[i])}} = Readable
<1> DEFINE E == {d \in DOMAIN repo : Entered(d)}
<1>1. /\ CountTyped /\ VisitedShown /\ ReturnedComplete /\ FilesVisited /\ EnteredReached
      /\ DOMAIN calls = {}
  BY DEF WalkInv
<1>2. \A d \in E : \A p \in DOMAIN repo[d] : \A i \in DOMAIN repo[d][p] :
        IsShown(d, p) => <<d, p, i>> \in visited
  BY <1>1 DEF ReturnedComplete
<1>3. \A d, item : item \in Shown(d) <=>
        \E p \in DOMAIN repo[d] : IsShown(d, p) /\ \E i \in DOMAIN repo[d][p] : item = repo[d][p][i]
  BY DEF Shown
<1>4. \A d \in E : \A item \in Shown(d) : \E x \in visited : At(x) = item
  <2> SUFFICES ASSUME NEW d \in E, NEW item \in Shown(d) PROVE \E x \in visited : At(x) = item
    OBVIOUS
  <2>1. PICK p \in DOMAIN repo[d] : IsShown(d, p) /\ \E i \in DOMAIN repo[d][p] : item = repo[d][p][i]
    BY <1>3
  <2>2. PICK i \in DOMAIN repo[d][p] : item = repo[d][p][i]
    BY <2>1
  <2>3. <<d, p, i>> \in visited
    BY <1>2, <2>1
  <2> QED
    BY <2>2, <2>3 DEF At
<1>5. \A x \in visited : x[1] \in E /\ At(x) \in Shown(x[1])
  <2> SUFFICES ASSUME NEW x \in visited PROVE x[1] \in E /\ At(x) \in Shown(x[1])
    OBVIOUS
  <2>1. PICK d \in DOMAIN repo : \E p \in DOMAIN repo[d] : \E i \in DOMAIN repo[d][p] : x = <<d, p, i>>
    BY <1>1 DEF VisitedShown
  <2>2. PICK p \in DOMAIN repo[d] : \E i \in DOMAIN repo[d][p] : x = <<d, p, i>>
    BY <2>1
  <2>3. PICK i \in DOMAIN repo[d][p] : x = <<d, p, i>>
    BY <2>2
  <2>4. x[1] = d /\ x[2] = p /\ At(x) = repo[d][p][i] /\ Entered(d) /\ IsShown(d, p)
    BY <1>1, <2>3 DEF At, VisitedShown
  <2> QED
    BY <1>3, <2>4
<1>6. E = Reached
  <2>1. Closed(E)
    <3>1. Root \in E
      BY <1>1, RepoFormed DEF Entered
    <3>2. \A d \in E : \A item \in Shown(d) : item.type = "dir" => item.path \in E
      <4> SUFFICES ASSUME NEW d \in E, NEW item \in Shown(d), item.type = "dir"
                   PROVE  item.path \in E
        OBVIOUS
      <4>1. PICK x \in visited : At(x) = item
        BY <1>4
      <4>2. Entered(item.path)
        BY <4>1 DEF Entered
      <4>3. PICK p \in DOMAIN repo[d] : \E i \in DOMAIN repo[d][p] : item = repo[d][p][i]
        BY <1>3
      <4>4. PICK i \in DOMAIN repo[d][p] : item = repo[d][p][i]
        BY <4>3
      <4>5. item.path \in DOMAIN repo
        BY <1>1, <4>4, PathsDiffer
      <4> QED
        BY <4>2, <4>5
    <3> QED
      BY <3>1, <3>2 DEF Closed
  <2>2. \A S \in SUBSET DOMAIN repo : Closed(S) => E \subseteq S
    BY <1>1 DEF EnteredReached
  <2>3. E \in SUBSET DOMAIN repo
    OBVIOUS
  <2> HIDE DEF E
  <2> QED
    BY <2>1, <2>2, <2>3 DEF Reached
<1> HIDE DEF E
<1>7. ASSUME NEW f
      PROVE  f \in UNION {Shown(d) : d \in Reached} <=> \E x \in visited : At(x) = f
  BY <1>4, <1>5, <1>6
<1>8. ASSUME NEW f
      PROVE  (\E j \in DOMAIN files : files[j] = f)
               <=> \E x \in visited : At(x) = f /\ f.type = "md"
  BY <1>1 DEF FilesVisited
<1>9. DOMAIN files = 1..Len(files)
  <2>1. files \in Seq(GitHubContentItem)
    BY <1>1 DEF CountTyped
  <2> QED
    BY <2>1
<1>10. ASSUME NEW f
       PROVE  f \in {files[j] : j \in {i \in 1..Len(files) : Reads(files[i])}} <=> f \in Readable
  <2>1. f \in {files[j] : j \in {i \in 1..Len(files) : Reads(files[i])}}
          <=> Reads(f) /\ \E j \in DOMAIN files : files[j] = f
    BY <1>9
  <2> QED
    BY <1>7, <1>8, <2>1 DEF Readable
<1> QED
  BY <1>10

\* For every repository, however deep and however long its listings, and
\* whatever requests fail, the totals are those of the files that can be read,
\* each of their rows once.
THEOREM CountRight == CountSpec => []TestsCounted
<1>1. ASSUME CountInv PROVE TestsCounted
  <2> SUFFICES ASSUME calls = <<>>, next > Len(files)
               PROVE  totals = [implemented |-> Cardinality(ReadableRows(TRUE)),
                                notImplemented |-> Cardinality(ReadableRows(FALSE))]
    BY DEF TestsCounted
  <2>1. WalkInv /\ TotalsSoFar /\ CountTyped
    BY <1>1 DEF CountInv, WalkInv
  <2>2. next - 1 = Len(files)
    <3>1. files \in Seq(GitHubContentItem) /\ next \in 1..(Len(files) + 1)
      BY <2>1 DEF CountTyped
    <3> QED
      BY <3>1
  <2>3. \A b : RowsUpTo(next - 1, b) = ReadableRows(b)
    BY <2>1, <2>2, FoundAll DEF RowsUpTo, ReadableRows
  <2> QED
    BY <2>1, <2>3 DEF TotalsSoFar
<1> QED
  BY <1>1, CountStarts, CountKeeps, PTL DEF CountSpec
=============================================================================
