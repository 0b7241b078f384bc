----------------------------- MODULE InfoClient -----------------------------
(***************************************************************************)
(* The consensus info client of one process (services/ConsensusInfoClient  *)
(* .ts): a singleton whose Hashgraph SDK client is created when a query    *)
(* first needs it and closed between test files.  SDK clients are numbered *)
(* in the order of their creation.                                         *)
(***************************************************************************)
EXTENDS Integers

CONSTANT Asker   \* whoever awaits a query of the info client

VARIABLES
  sdk,       \* _sdkClient, or NoClient
  created,   \* number of SDK clients created
  closing, closed,
  query      \* the SDK client each caller's query in flight runs on

infoVars == <<sdk, created, closing, closed, query>>

NoClient == 0

InfoInit ==
  /\ sdk = NoClient /\ created = 0
  /\ closing = {} /\ closed = {}
  /\ query = [a \in Asker |-> NoClient]

\* The getter sdkClient: what _sdkClient ??= createClient() evaluates to.
SdkClient == IF sdk = NoClient THEN created + 1 ELSE sdk

\* Every query method evaluates the getter when it is called, and only then.
Execute(a) ==
  /\ sdk' = SdkClient
  /\ created' = IF SdkClient > created THEN SdkClient ELSE created
  /\ query' = [query EXCEPT ![a] = SdkClient]
  /\ UNCHANGED <<closing, closed>>

\* An answer, an error of the network, or the end of the client it runs on.
Settle(a) ==
  /\ query[a] # NoClient
  /\ query' = [query EXCEPT ![a] = NoClient]
  /\ UNCHANGED <<sdk, created, closing, closed>>

\* Mutant: _sdkClient is cleared when the close has ended, not before.
CloseKeeping ==
  /\ closing' = closing \cup ({sdk} \ {NoClient})
  /\ UNCHANGED <<sdk, created, closed, query>>

\* close(): the field is cleared before client.close() is awaited.
Close ==
  /\ closing' = closing \cup ({sdk} \ {NoClient})
  /\ sdk' = NoClient
  /\ UNCHANGED <<created, closed, query>>

CloseEnds(c) ==
  /\ c \in closing
  /\ closing' = closing \ {c} /\ closed' = closed \cup {c}
  /\ UNCHANGED <<sdk, created, query>>

-----------------------------------------------------------------------------
InfoTypeOK ==
  /\ created \in Nat
  /\ sdk \in 0..created
  /\ closing \subseteq 1..created /\ closed \subseteq 1..created
  /\ query \in [Asker -> 0..created]

\* No SDK client is lost track of while open, and none is handed to a query
\* once its close has begun.
OnlyCurrentOpen == (1..created) \ (closing \cup closed) = {sdk} \ {NoClient}
=============================================================================
