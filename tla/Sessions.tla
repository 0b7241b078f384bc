------------------------------ MODULE Sessions ------------------------------
(***************************************************************************)
(* The session of a test file: the id the JSON-RPC client attaches to every*)
(* request (services/Client.ts), the requests that set the session's       *)
(* operator (utils/helpers/setup-tests.ts, the hooks of the suites) and the*)
(* SDK server that keeps one client per session.                           *)
(***************************************************************************)
EXTENDS Integers

CONSTANTS
  MaxFile,       \* bound: test files of the run
  Body,          \* test bodies; each creates the payer account it may use
  DefaultOperator, NoOperator

File == 1..MaxFile
Operator == {DefaultOperator} \cup Body
Hook == [hook : {"before", "after"}, file : File]
Caller == Body \cup Hook

ASSUME SessionsAssumption ==
  /\ MaxFile \in Nat \ {0}
  /\ Body \cap Hook = {}
  /\ NoOperator \notin Operator
  /\ DefaultOperator \notin Body

VARIABLES
  parallel,   \* mocha --parallel, or the serial runner
  operator,   \* the server: the operator of each session's client
  call        \* the request each caller awaits, or its last one

\* The root suite a file's tests hang under.  A parallel worker loads one file
\* at a time under a fresh root; the serial runner loads all under one.
getRootSuiteContext(f) == IF parallel THEN f ELSE 1

\* Mutant: the root suite's own title, which is empty.
NoSession(f) == 0

\* The title of the root's first suite, which is that of its first file; the
\* titles of the files are distinct.
getOrCreateSessionId(f) == getRootSuiteContext(f)

\* Requests.  st is "sent", then "done" when the server executed the request
\* and answered, or "failed": it was refused, its method is not implemented,
\* or its answer was lost.
NoCall == [op |-> "none", session |-> 1, operator |-> NoOperator, st |-> "done"]
Request(op, f, o) ==
  [op |-> op, session |-> getOrCreateSessionId(f), operator |-> o, st |-> "sent"]

JSONRPCRequest(c, op, f, o) == call' = [call EXCEPT ![c] = Request(op, f, o)]

setOperator(c, f) == JSONRPCRequest(c, "setup", f, DefaultOperator)
setOperatorForExistingSession(c, f, o) == JSONRPCRequest(c, "setOperator", f, o)
reset(c, f) == JSONRPCRequest(c, "reset", f, NoOperator)
transact(c, f) == JSONRPCRequest(c, "transact", f, NoOperator)

Answer(c, st) == call' = [call EXCEPT ![c].st = st]
HasClient(s) == operator[s] # NoOperator

\* The server's handlers.  A client is created or replaced by setup, changed
\* by setOperator, dropped by reset; a transaction is paid by its operator.
Handle(c) ==
  LET r == call[c]
      Replaced == operator' = [operator EXCEPT ![r.session] = r.operator]
  IN \/ r.op \in {"setup", "reset"} /\ Replaced
     \/ r.op = "setOperator" /\ HasClient(r.session) /\ Replaced
     \/ r.op = "transact" /\ HasClient(r.session) /\ UNCHANGED operator

\* The request is executed; its answer may still be lost.
Executed(c) ==
  /\ call[c].st = "sent"
  /\ Handle(c)
  /\ \E st \in {"done", "failed"} : Answer(c, st)

\* The request is refused, or never reaches the server.
Refused(c) ==
  /\ call[c].st = "sent"
  /\ Answer(c, "failed")
  /\ UNCHANGED operator

SessionsInit ==
  /\ parallel \in BOOLEAN
  /\ operator = [f \in File |-> NoOperator]
  /\ call = [c \in Caller |-> NoCall]

CallType ==
  [op : {"none", "setup", "setOperator", "reset", "transact"},
   session : File, operator : Operator \cup {NoOperator}, st : {"sent", "done", "failed"}]

SessionsTypeOK ==
  /\ parallel \in BOOLEAN
  /\ operator \in [File -> Operator \cup {NoOperator}]
  /\ call \in [Caller -> CallType]
=============================================================================
