------------------------------- MODULE Worker -------------------------------
(***************************************************************************)
(* One mocha process going through its test files: the hooks that set up   *)
(* and reset a file's session, the tests that act through it, some with an *)
(* operator of their own, and the root hook that closes the consensus info *)
(* client (src/tests, preflight.ts).  Composes Sessions and InfoClient.    *)
(*                                                                         *)
(* A timeout makes the runner go on; the body or hook it gave up on keeps  *)
(* its request or query and continues when the answer comes.               *)
(***************************************************************************)
EXTENDS Sessions, InfoClient, FiniteSets

CONSTANT MaxTimeouts   \* bound: hooks and tests that time out

ASSUME WorkerAssumption == Body \subseteq Asker

VARIABLES
  file, phase,   \* the runner: "before", "tests", "after", "close" or "over"
  running,       \* the test the runner awaits, or NoOperator
  step,          \* progress of each body
  kind, home,    \* what the body does and the file it is of
  abandoned      \* history: the hooks and bodies the runner gave up on

runner == <<file, phase, running>>
bodies == <<step, kind, home>>
vars == <<parallel, operator, call, infoVars, runner, bodies, abandoned>>

\* A test of kind "plain" acts as the suite's operator.  "bare" and "finally"
\* set an operator of their own, act, and set the suite's again: a "finally"
\* test also when its request fails.
Kind == {"plain", "bare", "finally"}
Before(f) == [hook |-> "before", file |-> f]
After(f) == [hook |-> "after", file |-> f]

Init ==
  /\ SessionsInit /\ InfoInit
  /\ file = 1 /\ phase = "begin" /\ running = NoOperator
  /\ step = [b \in Body |-> "idle"]
  /\ kind = [b \in Body |-> "plain"] /\ home = [b \in Body |-> 1]
  /\ abandoned = {}

\* The before() hook of a suite.
BeginFile ==
  /\ phase = "begin"
  /\ phase' = "before"
  /\ setOperator(Before(file), file)
  /\ UNCHANGED <<parallel, operator, infoVars, file, running, bodies, abandoned>>

\* A timeout: whoever is given up on goes on when its answer comes.
Abandon(c) ==
  /\ Cardinality(abandoned) < MaxTimeouts
  /\ abandoned' = abandoned \cup {c}

EnterAfter == phase' = "after" /\ reset(After(file), file)

\* Mutant: after a before() hook that failed there is nothing to reset.
SkipAfter == phase' = "close" /\ UNCHANGED call

\* Mocha skips the tests of a suite whose before() failed, not its after().
AfterFailedHook == EnterAfter

BeforeEnds ==
  /\ phase = "before" /\ call[Before(file)].st # "sent"
  /\ IF call[Before(file)].st = "done" THEN phase' = "tests" /\ UNCHANGED call
                                       ELSE AfterFailedHook
  /\ UNCHANGED <<parallel, operator, infoVars, file, running, bodies, abandoned>>

BeforeTimesOut ==
  /\ phase = "before" /\ call[Before(file)].st = "sent"
  /\ EnterAfter
  /\ Abandon(Before(file))
  /\ UNCHANGED <<parallel, operator, infoVars, file, running, bodies>>

StartTest(b, k) ==
  /\ phase = "tests" /\ running = NoOperator /\ step[b] = "idle"
  /\ running' = b
  /\ kind' = [kind EXCEPT ![b] = k] /\ home' = [home EXCEPT ![b] = file]
  /\ IF k = "plain"
     THEN /\ step' = [step EXCEPT ![b] = "act"]
          /\ transact(b, file)
     ELSE /\ step' = [step EXCEPT ![b] = "take"]
          /\ setOperatorForExistingSession(b, file, b)
  /\ UNCHANGED <<parallel, operator, infoVars, file, phase, abandoned>>

\* The promise of it() settles, passed, failed or skipped.
End(b) ==
  /\ step' = [step EXCEPT ![b] = "ended"]
  /\ running' = IF running = b THEN NoOperator ELSE running

\* What a body does when its request is answered.
TakeAnswered(b, ok) ==
  /\ step[b] = "take"
  /\ IF ok THEN /\ step' = [step EXCEPT ![b] = "act"]
                /\ transact(b, home[b])
                /\ UNCHANGED running
           ELSE End(b) /\ UNCHANGED call

\* Mutant: no test sets the suite's operator again when its request failed.
RestoresNever(b) == FALSE

RestoresOnError(b) == kind[b] = "finally"

ActAnswered(b, ok) ==
  /\ step[b] = "act"
  /\ IF kind[b] # "plain" /\ (ok \/ RestoresOnError(b))
     THEN /\ step' = [step EXCEPT ![b] = "restore"]
          /\ setOperatorForExistingSession(b, home[b], DefaultOperator)
          /\ UNCHANGED running
     ELSE /\ IF ok THEN step' = [step EXCEPT ![b] = "look"] /\ UNCHANGED running
                   ELSE End(b)
          /\ UNCHANGED call

RestoreAnswered(b, ok) ==
  /\ step[b] = "restore"
  /\ IF ok THEN step' = [step EXCEPT ![b] = "look"] /\ UNCHANGED running
           ELSE End(b)
  /\ UNCHANGED call

BodyContinues(b) ==
  /\ call[b].st # "sent"
  /\ LET ok == call[b].st = "done" IN
     TakeAnswered(b, ok) \/ ActAnswered(b, ok) \/ RestoreAnswered(b, ok)
  /\ UNCHANGED <<parallel, operator, infoVars, file, phase, kind, home, abandoned>>

\* A test may compare what consensus nodes say, and ends.
Look(b) ==
  /\ step[b] = "look"
  /\ step' = [step EXCEPT ![b] = "looking"]
  /\ Execute(b)
  /\ UNCHANGED <<parallel, operator, call, runner, kind, home, abandoned>>

EndBody(b) ==
  /\ \/ step[b] = "look" /\ UNCHANGED infoVars
     \/ step[b] = "looking" /\ Settle(b)
  /\ End(b)
  /\ UNCHANGED <<parallel, operator, call, file, phase, kind, home, abandoned>>

TestTimesOut ==
  /\ running # NoOperator
  /\ running' = NoOperator
  /\ Abandon(running)
  /\ UNCHANGED <<parallel, operator, call, infoVars, file, phase, bodies>>

TestsEnd ==
  /\ phase = "tests" /\ running = NoOperator
  /\ EnterAfter
  /\ UNCHANGED <<parallel, operator, infoVars, file, running, bodies, abandoned>>

\* The root hook afterAll runs after each file of a parallel worker, and once
\* at the end of a serial run.
NextFile == IF file = MaxFile THEN phase' = "over" /\ UNCHANGED file
                              ELSE phase' = "begin" /\ file' = file + 1
LeaveFile == IF parallel \/ file = MaxFile THEN phase' = "close" /\ UNCHANGED file
                                           ELSE NextFile

AfterEnds ==
  /\ phase = "after" /\ call[After(file)].st # "sent"
  /\ LeaveFile
  /\ UNCHANGED <<parallel, operator, call, infoVars, running, bodies, abandoned>>

AfterTimesOut ==
  /\ phase = "after" /\ call[After(file)].st = "sent"
  /\ LeaveFile
  /\ Abandon(After(file))
  /\ UNCHANGED <<parallel, operator, call, infoVars, running, bodies>>

CloseHook ==
  /\ phase = "close"
  /\ Close
  /\ phase' = "closing"
  /\ UNCHANGED <<parallel, operator, call, file, running, bodies, abandoned>>

\* The hook ends when the client is closed, or its timeout fires.
CloseHookEnds ==
  /\ phase = "closing"
  /\ NextFile
  /\ UNCHANGED <<parallel, operator, call, infoVars, running, bodies, abandoned>>

Serve(c) ==
  /\ Executed(c) \/ Refused(c)
  /\ UNCHANGED <<parallel, infoVars, runner, bodies, abandoned>>

ClientCloses ==
  /\ \E c \in closing : CloseEnds(c)
  /\ UNCHANGED <<parallel, operator, call, runner, bodies, abandoned>>

Next ==
  \/ BeginFile \/ BeforeEnds \/ BeforeTimesOut
  \/ \E b \in Body, k \in Kind : StartTest(b, k)
  \/ \E b \in Body : BodyContinues(b) \/ Look(b) \/ EndBody(b)
  \/ TestTimesOut \/ TestsEnd \/ AfterEnds \/ AfterTimesOut
  \/ CloseHook \/ CloseHookEnds \/ ClientCloses
  \/ \E c \in Caller : Serve(c)

Spec == Init /\ [][Next]_vars

-----------------------------------------------------------------------------
\* Properties

\* Type invariant.
TypeOK ==
  /\ SessionsTypeOK /\ InfoTypeOK
  /\ file \in File /\ running \in Body \cup {NoOperator}
  /\ phase \in {"begin", "before", "tests", "after", "close", "closing", "over"}
  /\ step \in [Body -> {"idle", "take", "act", "restore", "look", "looking", "ended"}]
  /\ kind \in [Body -> Kind] /\ home \in [Body -> File]
  /\ abandoned \subseteq Caller

\* The files whose requests meet at the server.
Meet(f, g) == parallel => f = g

\* A test whose change of the operator was refused or lost its answer, or a
\* "bare" one that failed or was skipped before it had set the suite's again.
Unrestored(b) ==
  /\ step[b] = "ended" /\ call[b].st = "failed"
  /\ kind[b] = "bare" \/ call[b].op = "setOperator"

\* What those the runner gave up on can make of the operator of a file: a
\* test sets itself and then the suite's, before() the suite's, after() none.
LateTest(b, f) == b \in abandoned /\ kind[b] # "plain" /\ Meet(home[b], f)
LateBefore(f) == \E g \in File : Meet(g, f) /\ Before(g) \in abandoned
LateAfter(f) == \E g \in File : Meet(g, f) /\ After(g) \in abandoned
LeftBehind(f) ==
  {b \in Body : LateTest(b, f)}
    \cup {o \in {DefaultOperator} : LateBefore(f) \/ \E b \in Body : LateTest(b, f)}
    \cup {o \in {NoOperator} : LateAfter(f)}

Payer(b) == IF kind[b] = "plain" THEN DefaultOperator ELSE b

\* The transaction of the running test is paid by the operator the test means.
\* Any other payer is traced to its cause: to a body or hook of a file of the
\* same session that timed out and went on, or, for a test that acts as the
\* suite's operator, to a test of its own file that failed to put it back.  A
\* failed "finally" test is no cause, nor is anything of another file of a
\* parallel worker, nor a test that failed in an earlier file.
PayerAsIntended ==
  \A b \in Body :
    running = b /\ step[b] = "act" /\ call[b].st = "sent" =>
      operator[getOrCreateSessionId(home[b])] \in
        {Payer(b)} \cup LeftBehind(home[b])
          \cup {o \in Body : kind[b] = "plain" /\ home[o] = home[b] /\ Unrestored(o)}

\* When the run is over, a session whose reset was executed has no client,
\* whatever of its tests failed, was skipped or timed out and whether its
\* before() succeeded.  Only a before() that timed out, and whose request is
\* executed after the reset, can bring a client back.
SessionsEnd ==
  phase = "over" =>
    \A f \in File :
      /\ parallel \/ f = MaxFile
      /\ call[After(f)].st = "done"
      /\ ~LateBefore(f)
      => ~HasClient(getOrCreateSessionId(f))

\* Exactly the current SDK client is open; a query loses its client only if
\* its test timed out; and after the last file every client is closed, unless
\* a test that timed out asked, or was about to ask, for a new one.
ClientsAreClosed ==
  /\ OnlyCurrentOpen
  /\ \A b \in Body : query[b] \in closing \cup closed => running # b
  /\ phase = "over" /\ sdk # NoClient =>
       \E b \in Body \cap abandoned : step[b] \in {"looking", "ended"}
=============================================================================
