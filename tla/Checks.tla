------------------------------- MODULE Checks -------------------------------
(***************************************************************************)
(* The checks that only compare: the fees of a token or a topic with what  *)
(* a test expects, and the endpoints of a run with what answers.  A        *)
(* behaviour picks an input and evaluates it; the properties compare the   *)
(* result with a definition of what it is meant to be.                     *)
(***************************************************************************)
EXTENDS FeeChecks, Endpoints

CONSTANTS
  Account, Token,                     \* fee collectors and denominating tokens
  TokenInput, TopicInput, EnvInput    \* the inputs of the three checks

\* What the network may hold, and a test expect; amounts are never negative,
\* and what is not set is null.
Fee ==
  [type : {"fixed", "fractional", "royalty"}, collector : Account, exempt : BOOLEAN,
   amount : Nat, max : Nat, net : BOOLEAN, fallback : Nat \cup {Null}]
TopicFee == [collector : Account, amount : Nat, token : Token \cup {None}]

\* What is no address does not answer.
ASSUME ChecksAssumption ==
  /\ \A i \in TokenInput : i.topic = "token" /\ i.fees \in Seq(Fee)
  /\ \A i \in TopicInput :
       i.topic = "topic" /\ i.fees \in Seq(TopicFee) /\ i.expected \in Seq(TopicFee)
  /\ \A i \in EnvInput : i.topic = "endpoints" /\ i.up \cap Malformed = {}

VARIABLES input, done, result

vars == <<input, done, result>>

\* The settings of the process, on top of a file or of none.
EnvOf(i) == IF i.file = "none" THEN i.env ELSE getNetworkConfig(i.file, i.env)

Inputs == TokenInput \cup TopicInput \cup EnvInput

ChecksInit == input \in Inputs /\ done = FALSE /\ result = <<>>

Evaluate(topic, value) ==
  /\ ~done /\ input.topic = topic
  /\ done' = TRUE /\ result' = value /\ UNCHANGED input

CheckToken == Evaluate("token", VerifyTokenFee(input.fees, input.expected))
CheckTopic == Evaluate("topic",
  [consensus |-> verifyConsensusNodeCustomFees(input.fees, input.expected),
   mirror |-> verifyMirrorNodeCustomFees(input.fees, input.expected)])
CheckEndpoints == Evaluate("endpoints", mochaGlobalSetup(EnvOf(input), input.up))

ChecksNext == CheckToken \/ CheckTopic \/ CheckEndpoints

ChecksSpec == ChecksInit /\ [][ChecksNext]_vars

-----------------------------------------------------------------------------
\* Properties

\* A fee check passes exactly if the network holds the fee in every respect,
\* the two sides' different shows of it notwithstanding, and the mirror's loop
\* does not first meet a royalty fee without fallback that is like it up to
\* there.  A topic's fees are compared exactly on the mirror; the consensus check
\* accepts all that.
FeeChecksRight ==
  /\ done /\ input.topic = "token" =>
       result <=> /\ Holds(input.fees, input.expected)
                  /\ ~Stumbles(input.fees, input.expected)
  /\ done /\ input.topic = "topic" =>
       /\ result.mirror <=> input.fees = input.expected
       /\ result.mirror => result.consensus

\* A run that starts finds the endpoints it will use: the server, the mirror,
\* and the consensus node if it is of its own choice.  It is refused only for a
\* setting that is no address or whose endpoint is down.  The leak check is off
\* exactly where there is no mirror to ask or the Java URL is set to nothing.
EndpointsCovered ==
  done /\ input.topic = "endpoints" =>
    LET env == EnvOf(input)
        set == {v \in {"NODE_IP", "MIRROR_NODE_REST_URL"} : Truthy(env[v])}
        chosen == Truthy(env["NODE_IP"]) /\ Truthy(env["NODE_ACCOUNT_ID"])
    IN /\ result =>
            /\ RpcUsed(env) \in input.up
            /\ Truthy(MirrorRestUsed(env)) => MirrorRestUsed(env) \in input.up
            /\ chosen => createClient(env) \in input.up
       /\ ~result => \/ \E v \in set : env[v] \notin input.up
                     \/ RpcUsed(env) \notin input.up
       /\ ~mirrorConfigured(env) <=>
            \/ ~Truthy(MirrorRestUsed(env)) /\ ~Truthy(MirrorJavaUsed(env))
            \/ MirrorJavaUsed(env) = Empty
=============================================================================
