----------------------------- MODULE Endpoints -----------------------------
(***************************************************************************)
(* The configuration of a run: the environment variables, the files they   *)
(* may come from (utils/helpers/network-config.ts, .env.testnet,           *)
(* .env.custom_node), the endpoints the preflight checks with them         *)
(* (preflight.ts) and the endpoints the services use                       *)
(* (services/*.ts).  A setting is unset, empty, or names an endpoint.      *)
(***************************************************************************)
EXTENDS Integers

Unset == "unset"
Empty == ""
Truthy(v) == v \notin {Unset, Empty}
Or(v, default) == IF v = Unset THEN default ELSE v   \* v ?? default

\* Endpoints, and settings that are no address at all.
DefaultRpc == "localhost:8544"
LocalNode == "127.0.0.1:50211"
Malformed == {Empty, "portless"}

Variable == {"NODE_IP", "NODE_ACCOUNT_ID", "MIRROR_NETWORK", "MIRROR_NODE_REST_URL",
             "MIRROR_NODE_REST_JAVA_URL", "JSON_RPC_SERVER_URL"}

\* The two files; the placeholder for the operator is for the user to replace.
TestnetFile ==
  [NODE_IP |-> Unset, NODE_ACCOUNT_ID |-> Unset, MIRROR_NETWORK |-> Unset,
   MIRROR_NODE_REST_URL |-> "rest", MIRROR_NODE_REST_JAVA_URL |-> "rest",
   JSON_RPC_SERVER_URL |-> DefaultRpc]
CustomNodeFile ==
  [NODE_IP |-> LocalNode, NODE_ACCOUNT_ID |-> "0.0.3", MIRROR_NETWORK |-> "mirror",
   MIRROR_NODE_REST_URL |-> "rest", MIRROR_NODE_REST_JAVA_URL |-> "java",
   JSON_RPC_SERVER_URL |-> DefaultRpc]

\* dotenv sets what is not set yet; setNetworkEnvironment writes back what it
\* read.
getNetworkConfig(network, env) ==
  LET file == IF network = "testnet" THEN TestnetFile ELSE CustomNodeFile
  IN [v \in Variable |-> Or(env[v], file[v])]

-----------------------------------------------------------------------------
\* The preflight.  up is the set of the endpoints that answer.

checkHttp(url, up) == url \in up

\* Mutant: a socket error resolves like a connection.
checkTcpAlways(hostPort, up) == TRUE

\* Without a port the socket refuses to connect.
checkTcp(hostPort, up) == hostPort \notin Malformed /\ hostPort \in up

JsonRpcUrl(env) == Or(env["JSON_RPC_SERVER_URL"], DefaultRpc)

\* An empty url is not one: the check itself throws.
checkJsonRpcServer(url, up) == url \notin Malformed /\ url \in up

mochaGlobalSetup(env, up) ==
  /\ Truthy(env["MIRROR_NODE_REST_URL"]) => checkHttp(env["MIRROR_NODE_REST_URL"], up)
  /\ Truthy(env["NODE_IP"]) => checkTcp(env["NODE_IP"], up)
  /\ checkJsonRpcServer(JsonRpcUrl(env), up)

\* Whether the baseline is taken and the run checked for leaked nodes.
mirrorConfigured(env) ==
  Truthy(Or(env["MIRROR_NODE_REST_JAVA_URL"], env["MIRROR_NODE_REST_URL"]))

-----------------------------------------------------------------------------
\* The services.

RpcUsed(env) == Or(env["JSON_RPC_SERVER_URL"], DefaultRpc)

\* ConsensusInfoClient: a node of its own choice only with its account id.
createClient(env) ==
  IF Truthy(env["NODE_IP"]) /\ Truthy(env["NODE_ACCOUNT_ID"])
  THEN env["NODE_IP"] ELSE LocalNode

MirrorRestUsed(env) == env["MIRROR_NODE_REST_URL"]
MirrorJavaUsed(env) == env["MIRROR_NODE_REST_JAVA_URL"]
=============================================================================
