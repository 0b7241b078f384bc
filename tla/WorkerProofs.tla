---------------------------- MODULE WorkerProofs ----------------------------
(* Who pays, which sessions stay and which SDK clients are open, for every   *)
(* number of test files and every set of tests.                              *)
EXTENDS Worker, TLAPS

Active(b) == step[b] \in {"take", "act", "restore", "look", "looking"}

\* The runner and the bodies: whoever is active without being awaited timed
\* out; mocha leaves the tests with none awaited.
RunnerInv ==
  /\ running # NoOperator => phase = "tests" /\ home[running] = file /\ Active(running)
  /\ \A b \in Body : Active(b) /\ running # b => b \in abandoned
  /\ \A b \in Body \cap abandoned : step[b] # "idle"
  /\ phase = "over" => file = MaxFile
  /\ phase \in {"close", "closing"} => parallel \/ file = MaxFile

\* Queries are awaited by bodies that look, and a client is closed while no
\* test is awaited.
Lookers == \A b \in Body : query[b] # NoClient => step[b] = "looking"
ClosedAtEnd ==
  phase \in {"closing", "over"} /\ sdk # NoClient =>
    \E b \in Body \cap abandoned : step[b] \in {"looking", "ended"}
AwaitedAnswer == \A b \in Body : query[b] \in closing \cup closed => running # b

ClientInv == Lookers /\ ClosedAtEnd /\ AwaitedAnswer /\ OnlyCurrentOpen

\* The requests: what is awaited by whom.
BodyCalls ==
  \A b \in Body :
    /\ call[b].st = "sent" => step[b] \in {"take", "act", "restore"}
    /\ step[b] \in {"take", "act", "restore"} =>
         call[b].session = getOrCreateSessionId(home[b])
    /\ step[b] = "take" => call[b].op = "setOperator" /\ call[b].operator = b
    /\ step[b] = "act" => call[b].op = "transact"
    /\ step[b] = "restore" => call[b].op = "setOperator" /\ call[b].operator = DefaultOperator
    /\ step[b] \in {"take", "restore"} => kind[b] # "plain"

HookCalls ==
  \A f \in File :
    /\ call[Before(f)].st = "sent" =>
         /\ call[Before(f)].session = getOrCreateSessionId(f)
         /\ call[Before(f)].op = "setup" /\ call[Before(f)].operator = DefaultOperator
         /\ Before(f) \in abandoned \/ (phase = "before" /\ file = f)
    /\ call[After(f)].st = "sent" =>
         /\ call[After(f)].session = getOrCreateSessionId(f)
         /\ call[After(f)].op = "reset" /\ call[After(f)].operator = NoOperator
         /\ After(f) \in abandoned \/ (phase = "after" /\ file = f)

\* The tests whose operator the server has, or no longer has, on their own doing.
Holds(b) ==
  \/ step[b] = "take" /\ call[b].st = "done"
  \/ step[b] = "act" /\ kind[b] # "plain"
  \/ step[b] = "restore" /\ call[b].st = "sent"

PutBack(b) ==
  /\ kind[b] # "plain"
  /\ step[b] \in {"look", "looking"} \/ (step[b] = "restore" /\ call[b].st = "done")

\* The operators the current file's session may have: the suite's, the awaited
\* test's, one of a test of the file that did not put it back, and whatever
\* those make of it that timed out.
Known == {DefaultOperator} \cup LeftBehind(file)
Own == {o \in Body : home[o] = file /\ Unrestored(o)} \cup {o \in Body : o = running /\ kind[o] # "plain"}

OperatorInv ==
  LET current == operator[getOrCreateSessionId(file)] IN
  /\ phase = "before" /\ call[Before(file)].st = "done" => current \in Known
  /\ phase = "tests" => current \in Known \cup Own
  /\ \A b \in Body : running = b /\ Holds(b) => current \in {b} \cup LeftBehind(file)
  /\ \A b \in Body : running = b /\ PutBack(b) => current # b

\* The sessions of the files that are done.
Left(f) == \/ f = file /\ phase \in {"close", "closing", "over"}
           \/ f = file /\ phase = "after" /\ call[After(f)].st = "done"
           \/ parallel /\ f < file

LeftInv ==
  \A f \in File :
    Left(f) /\ call[After(f)].st = "done" /\ ~LateBefore(f)
      => operator[getOrCreateSessionId(f)] = NoOperator

IInv == TypeOK /\ RunnerInv /\ ClientInv /\ BodyCalls /\ HookCalls /\ OperatorInv /\ LeftInv

-----------------------------------------------------------------------------
\* Hooks and bodies are different callers.
LEMMA Callers ==
  /\ \A f \in File : Before(f) \in Caller /\ After(f) \in Caller
  /\ \A b \in Body : b \in Caller
  /\ \A f, g \in File : Before(f) # After(g) /\ (f # g => Before(f) # Before(g) /\ After(f) # After(g))
  /\ \A f \in File, b \in Body : b # Before(f) /\ b # After(f)
<1>1. \A f \in File : Before(f) \in Hook /\ After(f) \in Hook
  BY DEF Before, After, Hook
<1>2. \A f, g \in File :
        Before(f) # After(g) /\ (f # g => Before(f) # Before(g) /\ After(f) # After(g))
  BY DEF Before, After
<1> QED  BY <1>1, <1>2, SessionsAssumption DEF Caller

\* Files and the sessions they have.
LEMMA SessionOfFile ==
  ASSUME TypeOK, NEW f \in File
  PROVE  /\ getOrCreateSessionId(f) \in File
         /\ f \in Nat /\ f <= MaxFile /\ MaxFile \in Nat
         /\ parallel => getOrCreateSessionId(f) = f
         /\ ~parallel => \A g \in File : getOrCreateSessionId(g) = getOrCreateSessionId(f)
BY SessionsAssumption DEF TypeOK, SessionsTypeOK, getOrCreateSessionId, getRootSuiteContext, File

LEMMA TypeInit == Init => TypeOK
BY SessionsAssumption
DEF Init, SessionsInit, InfoInit, TypeOK, SessionsTypeOK, InfoTypeOK, CallType, NoCall, NoClient,
    File, Operator, Kind

\* A request is awaited by its caller; the others' are as they were.
LEMMA Sends ==
  ASSUME TypeOK, NEW c \in Caller, NEW f \in File, NEW o \in Operator \cup {NoOperator},
         NEW op \in {"setup", "setOperator", "reset", "transact"},
         JSONRPCRequest(c, op, f, o)
  PROVE  /\ call' \in [Caller -> CallType]
         /\ call'[c] = [op |-> op, session |-> getOrCreateSessionId(f), operator |-> o, st |-> "sent"]
         /\ \A d \in Caller : d # c => call'[d] = call[d]
<1>1. Request(op, f, o) \in CallType
  BY SessionOfFile DEF Request, CallType
<1> QED  BY <1>1 DEF TypeOK, SessionsTypeOK, JSONRPCRequest, Request

\* What the server does with a request, answered or not.
LEMMA Serves ==
  ASSUME TypeOK, NEW c \in Caller, Executed(c) \/ Refused(c)
  PROVE  /\ call[c].st = "sent"
         /\ \E st \in {"done", "failed"} :
              /\ call' = [call EXCEPT ![c].st = st]
              /\ st = "done" => Handle(c)
         /\ \/ operator' = operator
            \/ /\ operator' = [operator EXCEPT ![call[c].session] = call[c].operator]
               /\ call[c].op \in {"setup", "reset", "setOperator"}
         /\ operator' \in [File -> Operator \cup {NoOperator}]
         /\ call' \in [Caller -> CallType]
<1> USE DEF TypeOK, SessionsTypeOK, CallType, Answer
<1>1. CASE Refused(c)
  BY <1>1 DEF Refused
<1>2. CASE Executed(c)
  <2>1. call[c].st = "sent" /\ Handle(c)
    BY <1>2 DEF Executed
  <2>2. \/ operator' = operator
        \/ /\ operator' = [operator EXCEPT ![call[c].session] = call[c].operator]
           /\ call[c].op \in {"setup", "reset", "setOperator"}
    BY <2>1 DEF Handle
  <2>3. PICK st \in {"done", "failed"} : call' = [call EXCEPT ![c].st = st]
    BY <1>2 DEF Executed
  <2>4. call' \in [Caller -> CallType]
    BY <2>3
  <2>5. operator' \in [File -> Operator \cup {NoOperator}]
    BY <2>2
  <2> QED  BY <2>1, <2>2, <2>3, <2>4, <2>5
<1> QED  BY <1>1, <1>2

LEMMA TypeStep == TypeOK /\ [Next]_vars => TypeOK'
<1> SUFFICES ASSUME TypeOK, [Next]_vars PROVE TypeOK'
  OBVIOUS
<1> USE SessionsAssumption, WorkerAssumption, Callers
<1>0. /\ file \in File /\ DefaultOperator \in Operator \cup {NoOperator}
      /\ NoOperator \in Operator \cup {NoOperator} /\ Body \subseteq Operator \cup {NoOperator}
      /\ running \in Body \cup {NoOperator}
      /\ \A b \in Body : home[b] \in File
      /\ \A f \in File : f < MaxFile => f + 1 \in File
  BY SessionOfFile DEF TypeOK, Operator, File
<1> USE <1>0
<1>1. ASSUME BeginFile PROVE TypeOK'
  BY <1>1, Sends DEF BeginFile, setOperator, TypeOK, SessionsTypeOK, InfoTypeOK, infoVars, bodies
<1>2. ASSUME BeforeEnds \/ BeforeTimesOut \/ TestsEnd PROVE TypeOK'
  <2>1. call' \in [Caller -> CallType] /\ phase' \in {"tests", "after"}
    BY <1>2, Sends DEF BeforeEnds, BeforeTimesOut, TestsEnd, AfterFailedHook, EnterAfter, reset, TypeOK, SessionsTypeOK
  <2> QED  BY <1>2, <2>1 DEF BeforeEnds, BeforeTimesOut, TestsEnd, Abandon, TypeOK, SessionsTypeOK, InfoTypeOK, infoVars, bodies
<1>3. ASSUME NEW b \in Body, NEW k \in Kind, StartTest(b, k) PROVE TypeOK'
  <2>1. call' \in [Caller -> CallType]
    BY <1>3, Sends DEF StartTest, transact, setOperatorForExistingSession
  <2> QED  BY <1>3, <2>1 DEF StartTest, TypeOK, SessionsTypeOK, InfoTypeOK, infoVars
<1>4. ASSUME NEW b \in Body, BodyContinues(b) PROVE TypeOK'
  <2>1. call' \in [Caller -> CallType]
    BY <1>4, Sends DEF BodyContinues, TakeAnswered, ActAnswered, RestoreAnswered, transact,
      setOperatorForExistingSession, TypeOK, SessionsTypeOK
  <2>2. /\ step' \in [Body -> {"idle", "take", "act", "restore", "look", "looking", "ended"}]
        /\ running' \in Body \cup {NoOperator}
    BY <1>4 DEF BodyContinues, TakeAnswered, ActAnswered, RestoreAnswered, End, TypeOK
  <2> QED  BY <1>4, <2>1, <2>2 DEF BodyContinues, TypeOK, SessionsTypeOK, InfoTypeOK, infoVars
<1>5. ASSUME NEW b \in Body, Look(b) \/ EndBody(b) PROVE TypeOK'
  <2>1. ASSUME Execute(b) PROVE InfoTypeOK'
    BY <2>1 DEF Execute, SdkClient, NoClient, TypeOK, InfoTypeOK
  <2>2. ASSUME Settle(b) PROVE InfoTypeOK'
    BY <2>2 DEF Settle, NoClient, TypeOK, InfoTypeOK
  <2>3. ASSUME UNCHANGED infoVars PROVE InfoTypeOK'
    BY <2>3 DEF infoVars, TypeOK, InfoTypeOK
  <2> QED  BY <1>5, <2>1, <2>2, <2>3 DEF Look, EndBody, End, TypeOK, SessionsTypeOK, runner
<1>6. ASSUME TestTimesOut PROVE TypeOK'
  BY <1>6 DEF TestTimesOut, Abandon, TypeOK, SessionsTypeOK, InfoTypeOK, infoVars, bodies
<1>7. ASSUME AfterEnds \/ AfterTimesOut \/ CloseHookEnds PROVE TypeOK'
  <2>1. phase' \in {"begin", "close", "over"} /\ file' \in File
    BY <1>7, SessionOfFile DEF AfterEnds, AfterTimesOut, CloseHookEnds, LeaveFile, NextFile
  <2> QED  BY <1>7, <2>1 DEF AfterEnds, AfterTimesOut, CloseHookEnds, Abandon, TypeOK, SessionsTypeOK,
    InfoTypeOK, infoVars, bodies
<1>8. ASSUME CloseHook PROVE TypeOK'
  BY <1>8 DEF CloseHook, Close, NoClient, TypeOK, SessionsTypeOK, InfoTypeOK, bodies
<1>9. ASSUME ClientCloses PROVE TypeOK'
  BY <1>9 DEF ClientCloses, CloseEnds, TypeOK, SessionsTypeOK, InfoTypeOK, bodies, runner
<1>10. ASSUME NEW c \in Caller, Serve(c) PROVE TypeOK'
  BY <1>10, Serves DEF Serve, TypeOK, SessionsTypeOK, InfoTypeOK, infoVars, bodies, runner
<1>11. CASE UNCHANGED vars
  BY <1>11 DEF vars, TypeOK, SessionsTypeOK, InfoTypeOK, infoVars, bodies, runner
<1> QED  BY <1>1, <1>2, <1>3, <1>4, <1>5, <1>6, <1>7, <1>8, <1>9, <1>10, <1>11 DEF Next

-----------------------------------------------------------------------------
\* The runner and the bodies.
LEMMA RunnerStep ==
  ASSUME TypeOK, TypeOK', RunnerInv, [Next]_vars
  PROVE  RunnerInv'
<1> USE SessionsAssumption DEF RunnerInv, Active, TypeOK, Operator
<1>0. Before(file) \notin Body /\ After(file) \notin Body
  BY Callers
<1>1. CASE BeginFile \/ BeforeEnds \/ BeforeTimesOut \/ TestsEnd
  BY <1>0, <1>1 DEF BeginFile, BeforeEnds, BeforeTimesOut, TestsEnd, AfterFailedHook, EnterAfter, Abandon, bodies
<1>2. ASSUME NEW b \in Body, NEW k \in Kind, StartTest(b, k) PROVE RunnerInv'
  BY <1>2 DEF StartTest
<1>3. ASSUME NEW b \in Body, BodyContinues(b) PROVE RunnerInv'
  BY <1>3 DEF BodyContinues, TakeAnswered, ActAnswered, RestoreAnswered, End
<1>4. ASSUME NEW b \in Body, Look(b) \/ EndBody(b) PROVE RunnerInv'
  BY <1>4 DEF Look, EndBody, End, runner
<1>5. CASE TestTimesOut
  BY <1>5 DEF TestTimesOut, Abandon, bodies
<1>6. CASE AfterEnds \/ AfterTimesOut \/ CloseHook \/ CloseHookEnds
  BY <1>0, <1>6 DEF AfterEnds, AfterTimesOut, CloseHook, CloseHookEnds, LeaveFile, NextFile, Abandon, bodies
<1>7. CASE ClientCloses \/ (\E c \in Caller : Serve(c)) \/ UNCHANGED vars
  BY <1>7 DEF ClientCloses, Serve, vars, bodies, runner
<1> QED  BY <1>1, <1>2, <1>3, <1>4, <1>5, <1>6, <1>7 DEF Next

\* The consensus info client.
LEMMA InfoClientStep ==
  ASSUME InfoTypeOK, OnlyCurrentOpen,
         \/ \E a \in Asker : Execute(a) \/ Settle(a)
         \/ Close \/ (\E c \in closing : CloseEnds(c)) \/ UNCHANGED infoVars
  PROVE  OnlyCurrentOpen'
<1> USE DEF InfoTypeOK, OnlyCurrentOpen, NoClient
<1>1. ASSUME NEW a \in Asker, Execute(a) PROVE OnlyCurrentOpen'
  BY <1>1 DEF Execute, SdkClient
<1>2. ASSUME NEW a \in Asker, Settle(a) PROVE OnlyCurrentOpen'
  BY <1>2 DEF Settle
<1>3. CASE Close
  BY <1>3 DEF Close
<1>4. ASSUME NEW c \in closing, CloseEnds(c) PROVE OnlyCurrentOpen'
  BY <1>4 DEF CloseEnds
<1> QED  BY <1>1, <1>2, <1>3, <1>4 DEF infoVars

LEMMA ClientStep ==
  ASSUME TypeOK, TypeOK', RunnerInv, RunnerInv', ClientInv, [Next]_vars
  PROVE  ClientInv'
<1> USE WorkerAssumption, SessionsAssumption DEF ClientInv, TypeOK, NoClient
<1>1. CASE BeginFile \/ BeforeEnds \/ BeforeTimesOut \/ TestsEnd
  <2>1. /\ UNCHANGED infoVars /\ UNCHANGED <<step, running>>
        /\ phase' \notin {"closing", "over"}
    BY <1>1 DEF BeginFile, BeforeEnds, BeforeTimesOut, TestsEnd, AfterFailedHook, EnterAfter, bodies
  <2> QED  BY <2>1, InfoClientStep DEF infoVars, Lookers, ClosedAtEnd, AwaitedAnswer
<1>2. ASSUME NEW b \in Body, NEW k \in Kind, StartTest(b, k) PROVE ClientInv'
  <2>1. /\ UNCHANGED infoVars /\ phase' = "tests" /\ step[b] = "idle" /\ running' = b
        /\ \A c \in Body : c # b => step'[c] = step[c]
    BY <1>2 DEF StartTest
  <2>2. query[b] = NoClient /\ NoClient \notin closing \cup closed
    BY <2>1 DEF Lookers, InfoTypeOK
  <2> QED  BY <2>1, <2>2, InfoClientStep DEF infoVars, Lookers, ClosedAtEnd, AwaitedAnswer
<1>3. ASSUME NEW b \in Body, BodyContinues(b) PROVE ClientInv'
  <2>1. /\ UNCHANGED infoVars /\ UNCHANGED <<phase, abandoned>> /\ step[b] \notin {"looking", "ended"}
        /\ running' \in {running, NoOperator}
        /\ \A c \in Body : c # b => step'[c] = step[c]
    BY <1>3 DEF BodyContinues, TakeAnswered, ActAnswered, RestoreAnswered, End
  <2> QED  BY <2>1, InfoClientStep DEF infoVars, Lookers, ClosedAtEnd, AwaitedAnswer, Operator
<1>4. ASSUME NEW b \in Body, Look(b) PROVE ClientInv'
  <2>1. /\ UNCHANGED <<phase, running, abandoned>> /\ Execute(b) /\ step'[b] = "looking"
        /\ step[b] = "look" /\ \A c \in Body : c # b => step'[c] = step[c]
    BY <1>4 DEF Look, runner
  <2>2. /\ \A c \in Body : c # b => query'[c] = query[c]
        /\ query'[b] \notin closing \cup closed /\ UNCHANGED <<closing, closed>>
    BY <2>1 DEF Execute, SdkClient, InfoTypeOK, OnlyCurrentOpen
  <2>3. phase \in {"closing", "over"} => b \in abandoned
    BY <2>1 DEF RunnerInv, Active, Operator
  <2>4. OnlyCurrentOpen'
    BY <2>1, InfoClientStep
  <2> QED  BY <2>1, <2>2, <2>3, <2>4 DEF Lookers, ClosedAtEnd, AwaitedAnswer
<1>5. ASSUME NEW b \in Body, EndBody(b) PROVE ClientInv'
  <2>1. /\ UNCHANGED <<phase, abandoned, sdk, closing, closed>> /\ (UNCHANGED infoVars \/ Settle(b))
        /\ step'[b] = "ended"
        /\ running' \in {running, NoOperator}
        /\ \A c \in Body : c # b => step'[c] = step[c] /\ query'[c] = query[c]
    BY <1>5 DEF EndBody, End, Settle, infoVars, InfoTypeOK
  <2>2. query'[b] = NoClient
    BY <1>5 DEF EndBody, Settle, infoVars, Lookers, InfoTypeOK
  <2>3. NoClient \notin closing \cup closed
    BY DEF InfoTypeOK
  <2>4. OnlyCurrentOpen'
    BY <2>1, InfoClientStep
  <2> QED  BY <2>1, <2>2, <2>3, <2>4 DEF Lookers, ClosedAtEnd, AwaitedAnswer, Operator
<1>6. CASE TestTimesOut
  <2>1. UNCHANGED infoVars /\ UNCHANGED <<phase, step>> /\ running' = NoOperator /\ abandoned \subseteq abandoned'
    BY <1>6 DEF TestTimesOut, Abandon, bodies
  <2> QED  BY <2>1, InfoClientStep DEF infoVars, Lookers, ClosedAtEnd, AwaitedAnswer, Operator
<1>7. CASE AfterEnds \/ AfterTimesOut \/ CloseHookEnds
  <2>1. /\ UNCHANGED infoVars /\ UNCHANGED <<step, running>> /\ abandoned \subseteq abandoned'
        /\ phase' \in {"closing", "over"} => phase = "closing"
    BY <1>7 DEF AfterEnds, AfterTimesOut, CloseHookEnds, LeaveFile, NextFile, Abandon, bodies
  <2> QED  BY <2>1, InfoClientStep DEF infoVars, Lookers, ClosedAtEnd, AwaitedAnswer
<1>8. CASE CloseHook
  <2>1. Close /\ UNCHANGED <<step, running, query>> /\ sdk' = NoClient
    BY <1>8 DEF CloseHook, Close, bodies
  <2>2. running = NoOperator
    BY <1>8 DEF CloseHook, RunnerInv
  <2> QED  BY <2>1, <2>2, InfoClientStep DEF Lookers, ClosedAtEnd, AwaitedAnswer, Operator
<1>9. CASE ClientCloses
  <2>1. PICK c \in closing : CloseEnds(c)
    BY <1>9 DEF ClientCloses
  <2>2. /\ UNCHANGED <<step, running, query, phase, abandoned, sdk>>
        /\ closing' \cup closed' = closing \cup closed
    BY <1>9, <2>1 DEF ClientCloses, CloseEnds, bodies, runner
  <2> QED  BY <2>1, <2>2, InfoClientStep DEF Lookers, ClosedAtEnd, AwaitedAnswer
<1>10. CASE (\E c \in Caller : Serve(c)) \/ UNCHANGED vars
  <2>1. UNCHANGED infoVars /\ UNCHANGED <<step, running, phase, abandoned>>
    BY <1>10 DEF Serve, vars, bodies, runner
  <2> QED  BY <2>1, InfoClientStep DEF infoVars, Lookers, ClosedAtEnd, AwaitedAnswer
<1> QED  BY <1>1, <1>2, <1>3, <1>4, <1>5, <1>6, <1>7, <1>8, <1>9, <1>10 DEF Next

-----------------------------------------------------------------------------
\* What the runner does to requests: it sends the hooks' and no others.
LEMMA RunnerCalls ==
  ASSUME TypeOK, BeginFile \/ BeforeEnds \/ BeforeTimesOut \/ TestsEnd
  PROVE  /\ UNCHANGED <<parallel, operator, file, running, step, kind, home>>
         /\ \A b \in Body : call'[b] = call[b]
         /\ \A f \in File \ {file} : call'[Before(f)] = call[Before(f)] /\ call'[After(f)] = call[After(f)]
<1> USE SessionsAssumption, Callers
<1>1. file \in File /\ DefaultOperator \in Operator \cup {NoOperator}
  BY DEF TypeOK, Operator
<1> QED  BY <1>1, Sends
  DEF BeginFile, BeforeEnds, BeforeTimesOut, TestsEnd, AfterFailedHook, EnterAfter, setOperator, reset, bodies

\* A body's step changes its own request and progress only.
LEMMA BodySends ==
  ASSUME TypeOK, NEW b \in Body,
         BodyContinues(b) \/ (\E k \in Kind : StartTest(b, k))
  PROVE  /\ UNCHANGED <<parallel, operator, file, phase>>
         /\ \A d \in Caller : d # b => call'[d] = call[d]
         /\ \A c \in Body : c # b => step'[c] = step[c] /\ kind'[c] = kind[c] /\ home'[c] = home[c]
<1> USE SessionsAssumption, Callers
<1>1. file \in File /\ home[b] \in File /\ DefaultOperator \in Operator /\ b \in Operator
  BY DEF TypeOK, Operator
<1>2. CASE BodyContinues(b)
  <2>1. \A d \in Caller : d # b => call'[d] = call[d]
    BY <1>1, <1>2, Sends DEF BodyContinues, TakeAnswered, ActAnswered, RestoreAnswered, transact,
      setOperatorForExistingSession
  <2> QED  BY <1>2, <2>1 DEF BodyContinues, TakeAnswered, ActAnswered, RestoreAnswered, End, TypeOK
<1>3. ASSUME NEW k \in Kind, StartTest(b, k) PROVE \A d \in Caller : d # b => call'[d] = call[d]
  BY <1>1, <1>3, Sends DEF StartTest, transact, setOperatorForExistingSession
<1> QED  BY <1>2, <1>3 DEF StartTest, TypeOK

\* The request and the progress of the body that takes a step.
LEMMA BodyMoves ==
  ASSUME TypeOK, BodyCalls, NEW b \in Body, BodyContinues(b)
  PROVE  /\ UNCHANGED <<kind, home>> /\ call[b].st \in {"done", "failed"}
         /\ running' = running \/ (running = b /\ running' = NoOperator /\ step'[b] = "ended")
         /\ UNCHANGED abandoned /\ step[b] # "ended"
         /\ \/ /\ step[b] = "take" /\ call[b].st = "done" /\ step'[b] = "act"
               /\ call'[b] = [op |-> "transact", session |-> getOrCreateSessionId(home[b]),
                              operator |-> NoOperator, st |-> "sent"]
            \/ /\ step[b] = "act" /\ kind[b] # "plain" /\ step'[b] = "restore"
               /\ call'[b] = [op |-> "setOperator", session |-> getOrCreateSessionId(home[b]),
                              operator |-> DefaultOperator, st |-> "sent"]
            \/ /\ step[b] = "act" /\ kind[b] = "plain" /\ step'[b] \in {"look", "ended"}
               /\ UNCHANGED call
            \/ /\ step[b] = "restore" /\ call[b].st = "done" /\ step'[b] = "look" /\ UNCHANGED call
            \/ /\ step'[b] = "ended" /\ Unrestored(b)' /\ UNCHANGED call
<1> USE SessionsAssumption, Callers
<1>1. home[b] \in File /\ DefaultOperator \in Operator /\ b \in Operator /\ kind[b] \in Kind
  BY DEF TypeOK, Operator
<1>2. call[b].st \in {"done", "failed"} /\ UNCHANGED <<kind, home>>
  BY DEF BodyContinues, TypeOK, SessionsTypeOK, CallType
<1>3. /\ running' = running \/ (running = b /\ running' = NoOperator /\ step'[b] = "ended")
      /\ UNCHANGED abandoned /\ step[b] # "ended"
  BY DEF BodyContinues, TakeAnswered, ActAnswered, RestoreAnswered, End, TypeOK
<1>4. CASE TakeAnswered(b, call[b].st = "done")
  <2>1. CASE call[b].st = "done"
    <3>1. /\ step[b] = "take" /\ step'[b] = "act" /\ JSONRPCRequest(b, "transact", home[b], NoOperator)
      BY <1>4, <2>1 DEF TakeAnswered, transact, TypeOK
    <3>2. call'[b] = [op |-> "transact", session |-> getOrCreateSessionId(home[b]),
                      operator |-> NoOperator, st |-> "sent"]
      BY <3>1 DEF JSONRPCRequest, Request, TypeOK, SessionsTypeOK
    <3> QED  BY <1>2, <1>3, <2>1, <3>1, <3>2
  <2>2. CASE call[b].st # "done"
    BY <1>2, <1>3, <1>4, <2>2 DEF TakeAnswered, End, Unrestored, BodyCalls, TypeOK
  <2> QED  BY <2>1, <2>2
<1>5. CASE ActAnswered(b, call[b].st = "done")
  <2>1. CASE kind[b] # "plain" /\ (call[b].st = "done" \/ RestoresOnError(b))
    <3>1. /\ step[b] = "act" /\ step'[b] = "restore"
          /\ JSONRPCRequest(b, "setOperator", home[b], DefaultOperator)
      BY <1>5, <2>1 DEF ActAnswered, setOperatorForExistingSession, TypeOK
    <3>2. call'[b] = [op |-> "setOperator", session |-> getOrCreateSessionId(home[b]),
                      operator |-> DefaultOperator, st |-> "sent"]
      BY <3>1 DEF JSONRPCRequest, Request, TypeOK, SessionsTypeOK
    <3> QED  BY <1>2, <1>3, <2>1, <3>1, <3>2
  <2>2. CASE kind[b] = "plain"
    <3>1. step[b] = "act" /\ step'[b] \in {"look", "ended"} /\ UNCHANGED call
      BY <1>5, <2>2 DEF ActAnswered, End, TypeOK
    <3> QED  BY <1>2, <1>3, <2>2, <3>1
  <2>3. CASE kind[b] = "bare" /\ call[b].st # "done"
    <3>1. step'[b] = "ended" /\ Unrestored(b)' /\ UNCHANGED call
      BY <1>2, <1>5, <2>3 DEF ActAnswered, RestoresOnError, End, Unrestored, TypeOK
    <3> QED  BY <1>2, <1>3, <3>1
  <2> QED  BY <1>1, <2>1, <2>2, <2>3 DEF Kind, RestoresOnError
<1>6. CASE RestoreAnswered(b, call[b].st = "done")
  <2>1. CASE call[b].st = "done"
    BY <1>2, <1>3, <1>6, <2>1 DEF RestoreAnswered, TypeOK
  <2>2. CASE call[b].st # "done"
    BY <1>2, <1>3, <1>6, <2>2 DEF RestoreAnswered, End, Unrestored, BodyCalls, TypeOK
  <2> QED  BY <2>1, <2>2
<1>7. \/ TakeAnswered(b, call[b].st = "done")
      \/ ActAnswered(b, call[b].st = "done") \/ RestoreAnswered(b, call[b].st = "done")
  BY DEF BodyContinues
<1> QED  BY <1>2, <1>3, <1>4, <1>5, <1>6, <1>7

\* The request and the progress of a test that starts.
LEMMA TestStarts ==
  ASSUME TypeOK, NEW b \in Body, NEW k \in Kind, StartTest(b, k)
  PROVE  /\ phase = "tests" /\ running = NoOperator /\ running' = b /\ step[b] = "idle"
         /\ UNCHANGED abandoned
         /\ kind'[b] = k /\ home'[b] = file
         /\ \/ /\ k = "plain" /\ step'[b] = "act"
               /\ call'[b] = [op |-> "transact", session |-> getOrCreateSessionId(file),
                              operator |-> NoOperator, st |-> "sent"]
            \/ /\ k # "plain" /\ step'[b] = "take"
               /\ call'[b] = [op |-> "setOperator", session |-> getOrCreateSessionId(file),
                              operator |-> b, st |-> "sent"]
<1> USE SessionsAssumption, Callers DEF StartTest, TypeOK, SessionsTypeOK
<1>1. CASE k = "plain"
  BY <1>1 DEF transact, JSONRPCRequest, Request
<1>2. CASE k # "plain"
  BY <1>2 DEF setOperatorForExistingSession, JSONRPCRequest, Request
<1> QED  BY <1>1, <1>2

\* What the server leaves alone, and the one answer it gives.
LEMMA ServerAnswers ==
  ASSUME TypeOK, NEW c \in Caller, Serve(c)
  PROVE  /\ UNCHANGED <<parallel, file, phase, running, step, kind, home, abandoned>>
         /\ \A d \in Caller : d # c => call'[d] = call[d]
         /\ call[c].st = "sent" /\ call'[c].st \in {"done", "failed"}
         /\ call'[c].op = call[c].op /\ call'[c].session = call[c].session
         /\ call'[c].operator = call[c].operator
<1>1. UNCHANGED <<parallel, file, phase, running, step, kind, home, abandoned>>
  BY DEF Serve, runner, bodies
<1>2. Executed(c) \/ Refused(c)
  BY DEF Serve
<1>3. PICK st \in {"done", "failed"} : call' = [call EXCEPT ![c].st = st]
  BY <1>2, Serves
<1>4. call[c].st = "sent"
  BY <1>2, Serves
<1> QED  BY <1>1, <1>3, <1>4 DEF TypeOK, SessionsTypeOK, CallType

\* The other steps leave the requests and the server alone.
Quiet ==
  TestTimesOut \/ AfterEnds \/ AfterTimesOut \/ CloseHook \/ CloseHookEnds \/ ClientCloses \/ UNCHANGED vars

LEMMA QuietStep ==
  ASSUME Quiet
  PROVE  UNCHANGED <<parallel, operator, call, step, kind, home>> /\ abandoned \subseteq abandoned'
BY DEF Quiet, TestTimesOut, AfterEnds, AfterTimesOut, CloseHook, CloseHookEnds, ClientCloses, vars, bodies, Abandon

LEMMA NextCases ==
  ASSUME [Next]_vars
  PROVE  \/ BeginFile \/ BeforeEnds \/ BeforeTimesOut \/ TestsEnd
         \/ (\E b \in Body : (\E k \in Kind : StartTest(b, k)) \/ BodyContinues(b) \/ Look(b) \/ EndBody(b))
         \/ (\E c \in Caller : Serve(c)) \/ Quiet
BY DEF Next, Quiet

LEMMA BodyCallsStep ==
  ASSUME TypeOK, BodyCalls, [Next]_vars
  PROVE  BodyCalls'
<1> USE Callers DEF BodyCalls, getOrCreateSessionId, getRootSuiteContext
<1>1. CASE BeginFile \/ BeforeEnds \/ BeforeTimesOut \/ TestsEnd
  BY <1>1, RunnerCalls
<1>2. ASSUME NEW b \in Body, NEW k \in Kind, StartTest(b, k) PROVE BodyCalls'
  <2>1. /\ UNCHANGED <<parallel, operator, file, phase>>
        /\ \A d \in Caller : d # b => call'[d] = call[d]
        /\ \A c \in Body : c # b => step'[c] = step[c] /\ kind'[c] = kind[c] /\ home'[c] = home[c]
    BY <1>2, BodySends
  <2>2. ASSUME NEW c \in Body, c # b PROVE call'[c] = call[c] /\ step'[c] = step[c]
    BY <2>1, <2>2
  <2>3. /\ kind'[b] = k /\ home'[b] = file
        /\ \/ /\ k = "plain" /\ step'[b] = "act"
              /\ call'[b] = [op |-> "transact", session |-> getOrCreateSessionId(file),
                             operator |-> NoOperator, st |-> "sent"]
           \/ /\ k # "plain" /\ step'[b] = "take"
              /\ call'[b] = [op |-> "setOperator", session |-> getOrCreateSessionId(file),
                             operator |-> b, st |-> "sent"]
    BY <1>2, TestStarts
  <2> QED  BY <2>1, <2>2, <2>3
<1>3. ASSUME NEW b \in Body, BodyContinues(b) PROVE BodyCalls'
  <2>1. /\ UNCHANGED <<parallel, operator, file, phase>>
        /\ \A d \in Caller : d # b => call'[d] = call[d]
        /\ \A c \in Body : c # b => step'[c] = step[c] /\ kind'[c] = kind[c] /\ home'[c] = home[c]
    BY <1>3, BodySends
  <2>2. ASSUME NEW c \in Body, c # b PROVE call'[c] = call[c] /\ step'[c] = step[c]
    BY <2>1, <2>2
  <2>3. /\ UNCHANGED <<kind, home>> /\ call[b].st \in {"done", "failed"}
        /\ \/ /\ step[b] = "take" /\ step'[b] = "act"
              /\ call'[b] = [op |-> "transact", session |-> getOrCreateSessionId(home[b]),
                             operator |-> NoOperator, st |-> "sent"]
           \/ /\ kind[b] # "plain" /\ step'[b] = "restore"
              /\ call'[b] = [op |-> "setOperator", session |-> getOrCreateSessionId(home[b]),
                             operator |-> DefaultOperator, st |-> "sent"]
           \/ step'[b] \in {"look", "ended"} /\ UNCHANGED call
    BY <1>3, BodyMoves
  <2> QED  BY <2>1, <2>2, <2>3
<1>4. ASSUME NEW b \in Body, Look(b) \/ EndBody(b) PROVE BodyCalls'
  BY <1>4 DEF Look, EndBody, End, TypeOK
<1>5. ASSUME NEW c \in Caller, Serve(c) PROVE BodyCalls'
  BY <1>5, ServerAnswers
<1>6. CASE Quiet
  BY <1>6, QuietStep
<1> QED  BY <1>1, <1>2, <1>3, <1>4, <1>5, <1>6, NextCases

\* What the runner's steps make of the current file's hooks.
LEMMA RunnerHooks ==
  ASSUME TypeOK
  PROVE  /\ BeginFile =>
              /\ phase = "begin" /\ phase' = "before" /\ UNCHANGED abandoned
              /\ call'[Before(file)] = [op |-> "setup", session |-> getOrCreateSessionId(file),
                                        operator |-> DefaultOperator, st |-> "sent"]
              /\ call'[After(file)] = call[After(file)]
         /\ BeforeEnds \/ BeforeTimesOut \/ TestsEnd =>
              /\ call'[Before(file)] = call[Before(file)]
              /\ \/ /\ phase' = "after"
                    /\ call'[After(file)] = [op |-> "reset", session |-> getOrCreateSessionId(file),
                                             operator |-> NoOperator, st |-> "sent"]
                 \/ /\ phase = "before" /\ phase' = "tests" /\ call[Before(file)].st = "done"
                    /\ call'[After(file)] = call[After(file)]
         /\ BeforeEnds => /\ phase = "before" /\ call[Before(file)].st # "sent" /\ UNCHANGED abandoned
         /\ BeforeTimesOut => phase = "before" /\ abandoned' = abandoned \cup {Before(file)}
         /\ TestsEnd => phase = "tests" /\ UNCHANGED abandoned
<1> USE SessionsAssumption, Callers
    DEF TypeOK, SessionsTypeOK, JSONRPCRequest, Request, EnterAfter, reset
<1>1. ASSUME BeginFile
      PROVE  /\ phase = "begin" /\ phase' = "before" /\ UNCHANGED abandoned
             /\ call'[Before(file)] = [op |-> "setup", session |-> getOrCreateSessionId(file),
                                       operator |-> DefaultOperator, st |-> "sent"]
             /\ call'[After(file)] = call[After(file)]
  BY <1>1 DEF BeginFile, setOperator
<1>2. ASSUME EnterAfter
      PROVE  /\ call'[Before(file)] = call[Before(file)] /\ phase' = "after"
             /\ call'[After(file)] = [op |-> "reset", session |-> getOrCreateSessionId(file),
                                      operator |-> NoOperator, st |-> "sent"]
  BY <1>2
<1> QED  BY <1>1, <1>2 DEF BeforeEnds, BeforeTimesOut, TestsEnd, AfterFailedHook, Abandon

LEMMA HookCallsStep ==
  ASSUME TypeOK, TypeOK', HookCalls, [Next]_vars
  PROVE  HookCalls'
<1> USE Callers DEF HookCalls, getOrCreateSessionId, getRootSuiteContext
<1>1. CASE BeginFile \/ BeforeEnds \/ BeforeTimesOut \/ TestsEnd
  BY <1>1, RunnerCalls, RunnerHooks DEF TypeOK
<1>2. ASSUME NEW b \in Body, NEW k \in Kind, StartTest(b, k) PROVE HookCalls'
  <2>1. UNCHANGED <<parallel, file, phase>> /\ \A d \in Caller : d # b => call'[d] = call[d]
    BY <1>2, BodySends
  <2>2. UNCHANGED abandoned
    BY <1>2, TestStarts
  <2> QED  BY <2>1, <2>2
<1>3. ASSUME NEW b \in Body, BodyContinues(b) PROVE HookCalls'
  BY <1>3, BodySends DEF BodyContinues, TakeAnswered, ActAnswered, RestoreAnswered, Abandon
<1>4. ASSUME NEW b \in Body, Look(b) \/ EndBody(b) PROVE HookCalls'
  BY <1>4 DEF Look, EndBody, runner
<1>5. ASSUME NEW c \in Caller, Serve(c) PROVE HookCalls'
  BY <1>5, ServerAnswers
<1>6. CASE Quiet
  BY <1>6, QuietStep DEF Quiet, TestTimesOut, AfterEnds, AfterTimesOut, CloseHook, CloseHookEnds,
    ClientCloses, vars, runner, LeaveFile, NextFile, Abandon
<1> QED  BY <1>1, <1>2, <1>3, <1>4, <1>5, <1>6, NextCases

-----------------------------------------------------------------------------
\* Files share a session exactly when their requests meet.
LEMMA MeetIsShare ==
  ASSUME TypeOK, NEW f \in File, NEW g \in File
  PROVE  Meet(f, g) <=> getOrCreateSessionId(f) = getOrCreateSessionId(g)
BY DEF Meet, getOrCreateSessionId, getRootSuiteContext, TypeOK, SessionsTypeOK

\* Who is given up on stays so, and what it may do to an operator stays possible.
LEMMA LateGrows ==
  ASSUME TypeOK, RunnerInv, BodyCalls, [Next]_vars
  PROVE  /\ abandoned \subseteq abandoned' /\ parallel' = parallel
         /\ \A f \in File : LeftBehind(f) \subseteq LeftBehind(f)' /\ (LateBefore(f) => LateBefore(f)')
<1>1. /\ abandoned \subseteq abandoned' /\ parallel' = parallel
      /\ \A b \in Body \cap abandoned : kind'[b] = kind[b] /\ home'[b] = home[b]
  <2>1. CASE BeginFile \/ BeforeEnds \/ BeforeTimesOut \/ TestsEnd
    BY <2>1 DEF BeginFile, BeforeEnds, BeforeTimesOut, TestsEnd, Abandon, bodies
  <2>2. ASSUME NEW b \in Body, NEW k \in Kind, StartTest(b, k)
        PROVE  /\ abandoned \subseteq abandoned' /\ parallel' = parallel
               /\ \A c \in Body \cap abandoned : kind'[c] = kind[c] /\ home'[c] = home[c]
    BY <2>2 DEF StartTest, RunnerInv, TypeOK
  <2>3. ASSUME NEW b \in Body, BodyContinues(b) \/ Look(b) \/ EndBody(b)
        PROVE  abandoned \subseteq abandoned' /\ parallel' = parallel /\ UNCHANGED <<kind, home>>
    BY <2>3 DEF BodyContinues, Look, EndBody
  <2>4. ASSUME NEW c \in Caller, Serve(c)
        PROVE  abandoned \subseteq abandoned' /\ parallel' = parallel /\ UNCHANGED <<kind, home>>
    BY <2>4 DEF Serve, bodies
  <2>5. CASE Quiet
    BY <2>5, QuietStep
  <2> QED  BY <2>1, <2>2, <2>3, <2>4, <2>5, NextCases
<1>2. ASSUME NEW f \in File PROVE LateBefore(f) => LateBefore(f)'
  BY <1>1 DEF LateBefore, Meet
<1>3. ASSUME NEW f \in File PROVE LateAfter(f) => LateAfter(f)'
  BY <1>1 DEF LateAfter, Meet
<1>4. ASSUME NEW f \in File, NEW b \in Body PROVE LateTest(b, f) => LateTest(b, f)'
  BY <1>1 DEF LateTest, Meet
<1> QED  BY <1>1, <1>2, <1>3, <1>4 DEF LeftBehind

\* What a request that changes a file's operator can make of it, and whose
\* request it is if not one of those left behind.
LEMMA Answered ==
  ASSUME TypeOK, RunnerInv, BodyCalls, HookCalls, NEW c \in Caller, call[c].st = "sent",
         call[c].op # "transact", NEW f \in File, call[c].session = getOrCreateSessionId(f)
  PROVE  \/ call[c].operator \in LeftBehind(f) /\ (c \in Body => c # running /\ call[c].operator # running)
         \/ c \in Body /\ c = running /\ phase = "tests" /\ Meet(file, f) /\ step[c] \in {"take", "restore"}
         \/ /\ c = Before(file) /\ phase = "before" /\ Meet(file, f)
            /\ call[c].op = "setup" /\ call[c].operator = DefaultOperator
         \/ /\ c = After(file) /\ phase = "after" /\ Meet(file, f)
            /\ call[c].op = "reset" /\ call[c].operator = NoOperator
<1> USE Callers, SessionsAssumption
<1>0. file \in File
  BY DEF TypeOK
<1>1. CASE c \in Body
  <2>1. /\ Active(c) /\ home[c] \in File /\ step[c] \in {"take", "restore"} /\ kind[c] # "plain"
        /\ call[c].operator \in {c, DefaultOperator} /\ call[c].session = getOrCreateSessionId(home[c])
    BY <1>1 DEF BodyCalls, Active, TypeOK
  <2>2. Meet(home[c], f)
    BY <2>1, MeetIsShare
  <2>3. CASE c = running
    BY <1>1, <2>1, <2>2, <2>3 DEF RunnerInv, Operator
  <2>4. CASE c # running
    <3>1. LateTest(c, f)
      BY <1>1, <2>1, <2>2, <2>4 DEF RunnerInv, LateTest
    <3>2. call[c].operator # running
      BY <2>1, <2>4 DEF TypeOK, Operator
    <3> QED  BY <1>1, <2>1, <2>4, <3>1, <3>2 DEF LeftBehind
  <2> QED  BY <2>3, <2>4
<1>2. ASSUME NEW g \in File, c = Before(g)
      PROVE  \/ call[c].operator \in LeftBehind(f)
             \/ /\ c = Before(file) /\ phase = "before" /\ Meet(file, f)
                /\ call[c].op = "setup" /\ call[c].operator = DefaultOperator
  <2>1. /\ call[c].op = "setup" /\ call[c].operator = DefaultOperator /\ Meet(g, f)
        /\ Before(g) \in abandoned \/ (phase = "before" /\ file = g)
    BY <1>2, MeetIsShare DEF HookCalls
  <2> QED  BY <1>2, <2>1 DEF LeftBehind, LateBefore
<1>3. ASSUME NEW g \in File, c = After(g)
      PROVE  \/ call[c].operator \in LeftBehind(f)
             \/ /\ c = After(file) /\ phase = "after" /\ Meet(file, f)
                /\ call[c].op = "reset" /\ call[c].operator = NoOperator
  <2>1. /\ call[c].op = "reset" /\ call[c].operator = NoOperator /\ Meet(g, f)
        /\ After(g) \in abandoned \/ (phase = "after" /\ file = g)
    BY <1>3, MeetIsShare DEF HookCalls
  <2> QED  BY <1>3, <2>1 DEF LeftBehind, LateAfter
<1>4. c \in Body \/ \E g \in File : c = Before(g) \/ c = After(g)
  BY DEF Caller, Hook, Before, After
<1> QED  BY <1>1, <1>2, <1>3, <1>4

\* What a request does to its session when it is answered.
LEMMA Effect ==
  ASSUME TypeOK, NEW c \in Caller, Serve(c)
  PROVE  /\ \A s \in File : operator'[s] = operator[s] \/
              (s = call[c].session /\ operator'[s] = call[c].operator /\ call[c].op # "transact")
         /\ call'[c].st = "done" /\ call[c].op # "transact"
              => operator'[call[c].session] = call[c].operator
         /\ call[c].op = "setOperator" /\ operator[call[c].session] = NoOperator
              => operator' = operator
<1>1. Executed(c) \/ Refused(c)
  BY DEF Serve
<1>2. PICK st \in {"done", "failed"} :
        call' = [call EXCEPT ![c].st = st] /\ (st = "done" => Handle(c))
  BY <1>1, Serves
<1>3. call'[c].st = st
  BY <1>2 DEF TypeOK, SessionsTypeOK
<1>4. \/ operator' = operator
      \/ /\ operator' = [operator EXCEPT ![call[c].session] = call[c].operator]
         /\ call[c].op \in {"setup", "reset", "setOperator"}
  BY <1>1, Serves
<1>5. Handle(c) /\ call[c].op # "transact" => operator' = [operator EXCEPT ![call[c].session] = call[c].operator]
  BY DEF Handle
<1>6. call[c].session \in File /\ operator \in [File -> Operator \cup {NoOperator}]
  BY DEF TypeOK, SessionsTypeOK, CallType
<1>7. call[c].op = "setOperator" /\ operator[call[c].session] = NoOperator => operator' = operator
  BY <1>1 DEF Executed, Refused, Handle, HasClient
<1> QED  BY <1>2, <1>3, <1>4, <1>5, <1>6, <1>7

-----------------------------------------------------------------------------
\* The current file's session has an operator that somebody accounts for.
LEMMA OperatorStep ==
  ASSUME IInv, TypeOK', RunnerInv', [Next]_vars
  PROVE  OperatorInv'
<1> USE SessionsAssumption, Callers DEF IInv
<1> DEFINE s == getOrCreateSessionId(file)
           current == operator[s]
           Late == LeftBehind(file)
           Forgetful == {o \in Body : home[o] = file /\ Unrestored(o)}
           Awaited == {o \in Body : o = running /\ kind[o] # "plain"}
<1>0. /\ parallel' = parallel /\ file \in File
      /\ file' = file => Late \subseteq Late' /\ s' = s
  BY LateGrows DEF TypeOK, getOrCreateSessionId, getRootSuiteContext
<1>a. ASSUME file' = file,
             phase' = "before" /\ call'[Before(file)].st = "done" => current' \in {DefaultOperator} \cup Late',
             phase' = "tests" => current' \in {DefaultOperator} \cup Late' \cup Forgetful' \cup Awaited',
             \A b \in Body : running' = b /\ Holds(b)' => current' \in {b} \cup Late',
             \A b \in Body : running' = b /\ PutBack(b)' => current' # b
      PROVE  OperatorInv'
  BY <1>a DEF OperatorInv, Known, Own
<1>b. /\ phase = "before" /\ call[Before(file)].st = "done" => current \in {DefaultOperator} \cup Late
      /\ phase = "tests" => current \in {DefaultOperator} \cup Late \cup Forgetful \cup Awaited
      /\ \A b \in Body : running = b /\ Holds(b) => current \in {b} \cup Late
      /\ \A b \in Body : running = b /\ PutBack(b) => current # b
  BY DEF OperatorInv, Known, Own
<1>c. running # NoOperator => phase = "tests" /\ running \in Body /\ home[running] = file
  BY DEF RunnerInv, TypeOK
<1>d. NoOperator \notin Body
  BY DEF Operator
<1> HIDE DEF Late, s
<1>1. CASE BeginFile \/ BeforeEnds \/ BeforeTimesOut \/ TestsEnd
  <2>1. /\ running = NoOperator /\ running' = NoOperator /\ file' = file /\ operator' = operator
    BY <1>1, RunnerCalls DEF RunnerInv, BeginFile, BeforeEnds, BeforeTimesOut, TestsEnd
  <2>2. phase' = "tests" => phase = "before" /\ call[Before(file)].st = "done"
    BY <1>1, RunnerHooks
  <2>3. phase' = "before" => call'[Before(file)].st = "sent"
    BY <1>1, RunnerHooks
  <2>4. current' = current
    BY <1>0, <2>1
  <2> QED  BY <1>0, <1>a, <1>b, <1>d, <2>1, <2>2, <2>3, <2>4
<1>2. ASSUME NEW b \in Body, NEW k \in Kind, StartTest(b, k) PROVE OperatorInv'
  <2>1. UNCHANGED <<operator, file, phase>> /\ phase = "tests" /\ running = NoOperator /\ running' = b
    BY <1>2, BodySends, TestStarts
  <2>2. ~Holds(b)' /\ ~PutBack(b)'
    <3>1. \/ step'[b] = "act" /\ kind'[b] = "plain"
          \/ step'[b] = "take" /\ call'[b].st = "sent"
      <4>1. /\ kind'[b] = k
            /\ \/ /\ k = "plain" /\ step'[b] = "act"
               \/ /\ step'[b] = "take"
                  /\ call'[b] = [op |-> "setOperator", session |-> getOrCreateSessionId(file),
                                 operator |-> b, st |-> "sent"]
        BY <1>2, TestStarts
      <4> QED  BY <4>1
    <3> QED  BY <3>1 DEF Holds, PutBack
  <2>3. Forgetful \subseteq Forgetful'
    <3> SUFFICES ASSUME NEW o \in Body, home[o] = file, Unrestored(o) PROVE home'[o] = file /\ Unrestored(o)'
      BY <2>1
    <3>1. o # b /\ call'[o] = call[o]
      BY <1>2, BodySends, TestStarts DEF Unrestored
    <3> QED  BY <1>2, <3>1, BodySends DEF Unrestored
  <2>4. Awaited = {} /\ current' = current
    BY <1>0, <1>d, <2>1
  <2> QED  BY <1>0, <1>a, <1>b, <2>1, <2>2, <2>3, <2>4
<1>3. ASSUME NEW b \in Body, BodyContinues(b) PROVE OperatorInv'
  <2>1. /\ UNCHANGED <<operator, file, phase, home, kind>> /\ \A d \in Caller : d # b => call'[d] = call[d]
        /\ \A c \in Body : c # b => step'[c] = step[c]
        /\ running' = running \/ (running = b /\ running' = NoOperator /\ step'[b] = "ended")
        /\ step[b] # "ended"
    BY <1>3, BodySends, BodyMoves
  <2>2. Forgetful \subseteq Forgetful'
    <3> SUFFICES ASSUME NEW o \in Body, home[o] = file, Unrestored(o) PROVE home'[o] = file /\ Unrestored(o)'
      BY <2>1
    <3>1. o # b /\ call'[o] = call[o]
      BY <2>1 DEF Unrestored
    <3> QED  BY <2>1, <3>1 DEF Unrestored
  <2>3. current' = current /\ call'[Before(file)] = call[Before(file)]
    BY <1>0, <2>1
  <2>4. CASE running # b
    <3>1. \A c \in Body : running = c => (Holds(c)' <=> Holds(c)) /\ (PutBack(c)' <=> PutBack(c))
      BY <2>1, <2>4 DEF Holds, PutBack
    <3> QED  BY <1>0, <1>a, <1>b, <2>1, <2>2, <2>3, <2>4, <3>1
  <2>5. CASE running = b
    <3>1. \/ step[b] = "take" /\ call[b].st = "done" /\ step'[b] = "act" /\ call'[b].st = "sent"
          \/ step[b] = "act" /\ kind[b] # "plain" /\ step'[b] = "restore" /\ call'[b].st = "sent"
          \/ step[b] = "act" /\ kind[b] = "plain" /\ step'[b] \in {"look", "ended"} /\ UNCHANGED call
          \/ step[b] = "restore" /\ call[b].st = "done" /\ step'[b] = "look" /\ UNCHANGED call
          \/ step'[b] = "ended" /\ Unrestored(b)' /\ UNCHANGED call
      <4>1. \/ /\ step[b] = "take" /\ call[b].st = "done" /\ step'[b] = "act"
               /\ call'[b] = [op |-> "transact", session |-> getOrCreateSessionId(home[b]),
                              operator |-> NoOperator, st |-> "sent"]
            \/ /\ step[b] = "act" /\ kind[b] # "plain" /\ step'[b] = "restore"
               /\ call'[b] = [op |-> "setOperator", session |-> getOrCreateSessionId(home[b]),
                              operator |-> DefaultOperator, st |-> "sent"]
            \/ step[b] = "act" /\ kind[b] = "plain" /\ step'[b] \in {"look", "ended"} /\ UNCHANGED call
            \/ step[b] = "restore" /\ call[b].st = "done" /\ step'[b] = "look" /\ UNCHANGED call
            \/ step'[b] = "ended" /\ Unrestored(b)' /\ UNCHANGED call
        BY <1>3, BodyMoves
      <4> QED  BY <4>1
    <3>2. Holds(b)' => Holds(b)
      BY <2>1, <3>1 DEF Holds
    <3>3. PutBack(b)' => PutBack(b)
      BY <2>1, <3>1 DEF PutBack
    <3>4. home[b] = file /\ phase = "tests"
      BY <1>c, <1>d, <2>5
    <3>5. running' = NoOperator => Awaited \subseteq Forgetful'
      <4> SUFFICES ASSUME running' = NoOperator, kind[b] # "plain" PROVE home'[b] = file' /\ Unrestored(b)'
        BY <2>5
      <4>1. step'[b] = "ended"
        BY <1>d, <2>1, <2>5
      <4> QED  BY <2>1, <3>1, <3>4, <4>1
    <3>6. running' = running => Awaited' = Awaited
      BY <2>1
    <3>7. running' \in {b, NoOperator}
      BY <2>1, <2>5
    <3>8. current' \in {DefaultOperator} \cup Late' \cup Forgetful' \cup Awaited'
      BY <1>0, <1>b, <2>1, <2>2, <2>3, <2>5, <3>4, <3>5, <3>6, <3>7
    <3> QED  BY <1>0, <1>a, <1>b, <1>d, <2>1, <2>3, <2>5, <3>2, <3>3, <3>4, <3>7, <3>8
  <2> QED  BY <2>4, <2>5
<1>4. ASSUME NEW b \in Body, Look(b) \/ EndBody(b) PROVE OperatorInv'
  <2>1. /\ UNCHANGED <<operator, file, phase, call, kind, home>>
        /\ step[b] \in {"look", "looking"} /\ step'[b] \in {"looking", "ended"}
        /\ running' = running \/ (running = b /\ running' = NoOperator)
        /\ \A c \in Body : c # b => step'[c] = step[c]
    BY <1>4 DEF Look, EndBody, End, runner, TypeOK
  <2>2. Forgetful \subseteq Forgetful'
    BY <2>1 DEF Unrestored
  <2>3. \A c \in Body : (Holds(c)' => Holds(c)) /\ (PutBack(c)' => PutBack(c))
    BY <2>1 DEF Holds, PutBack
  <2>4. current' = current
    BY <1>0, <2>1
  <2>5. running = b /\ running' = NoOperator /\ current \in Awaited => FALSE
    BY <1>b, <2>1 DEF PutBack
  <2>6. phase = "tests" => current' \in {DefaultOperator} \cup Late' \cup Forgetful' \cup Awaited'
    BY <1>0, <1>b, <2>1, <2>2, <2>4, <2>5
  <2> QED  BY <1>0, <1>a, <1>b, <1>d, <2>1, <2>3, <2>4, <2>6
<1>5. ASSUME NEW c \in Caller, Serve(c) PROVE OperatorInv'
  <2>1. /\ UNCHANGED <<parallel, file, phase, running, step, kind, home, abandoned>>
        /\ \A d \in Caller : d # c => call'[d] = call[d]
        /\ call[c].st = "sent" /\ call'[c].st \in {"done", "failed"}
        /\ call'[c].op = call[c].op
    BY <1>5, ServerAnswers
  <2>2. current' = current \/
          (call[c].session = s /\ current' = call[c].operator /\ call[c].op # "transact")
    <3>1. s \in File
      BY <1>0, SessionOfFile DEF s
    <3> QED  BY <1>0, <1>5, <2>1, <3>1, Effect
  <2>3. Forgetful \subseteq Forgetful' /\ Awaited' = Awaited
    <3>1. ASSUME NEW o \in Body, Unrestored(o) PROVE call'[o] = call[o]
      BY <2>1, <3>1 DEF Unrestored
    <3> QED  BY <2>1, <3>1 DEF Unrestored
  <2>4. ASSUME NEW d \in Body, d # c PROVE (Holds(d)' <=> Holds(d)) /\ (PutBack(d)' <=> PutBack(d))
    BY <2>1, <2>4 DEF Holds, PutBack
  <2>5. call[c].session = s /\ call[c].op # "transact" =>
          \/ call[c].operator \in Late /\ (c \in Body => c # running /\ call[c].operator # running)
          \/ c \in Body /\ c = running /\ phase = "tests" /\ step[c] \in {"take", "restore"}
          \/ c = Before(file) /\ phase = "before" /\ call[c].operator = DefaultOperator
          \/ c = After(file) /\ phase = "after"
    BY <1>0, <2>1, Answered DEF s, Late
  <2>6. CASE c \in Body /\ c = running
    <3>1. /\ step[c] \in {"take", "act", "restore"} /\ call[c].session = s /\ phase = "tests"
          /\ step[c] = "take" => call[c].op = "setOperator" /\ call[c].operator = c /\ kind[c] # "plain"
          /\ step[c] = "act" => call[c].op = "transact"
          /\ step[c] = "restore" => call[c].op = "setOperator" /\ call[c].operator = DefaultOperator /\ kind[c] # "plain"
      BY <1>c, <1>d, <2>1, <2>6 DEF BodyCalls, s
    <3>2. call'[c].st = "done" /\ step[c] # "act" => current' = call[c].operator
      BY <1>0, <1>5, <2>1, <3>1, Effect
    <3>3. c # DefaultOperator
      BY <2>6
    <3>4. current' \in {DefaultOperator} \cup Late' \cup Forgetful' \cup Awaited'
      BY <1>0, <1>b, <2>1, <2>2, <2>3, <2>6, <3>1
    <3>5. Holds(c)' => current' \in {c} \cup Late'
      BY <1>0, <1>b, <2>1, <2>2, <2>6, <3>1, <3>2 DEF Holds
    <3>6. PutBack(c)' => current' # c
      BY <2>1, <2>6, <3>1, <3>2, <3>3 DEF PutBack
    <3> QED  BY <1>a, <2>1, <2>6, <3>1, <3>4, <3>5, <3>6
  <2>7. CASE ~(c \in Body /\ c = running)
    <3>1. \A d \in Body : running = d => (Holds(d)' <=> Holds(d)) /\ (PutBack(d)' <=> PutBack(d)) /\ phase = "tests"
      BY <1>c, <1>d, <2>4, <2>7
    <3>2. CASE current' = current
      <4>1. phase = "before" /\ call'[Before(file)].st = "done" => current' \in {DefaultOperator} \cup Late'
        <5>1. CASE c = Before(file)
          <6>1. phase = "before" /\ call'[c].st = "done" => current' = DefaultOperator
            BY <1>0, <1>5, <2>1, <5>1, Effect DEF HookCalls, s
          <6> QED  BY <5>1, <6>1
        <5>2. CASE c # Before(file)
          BY <1>0, <1>b, <2>1, <3>2, <5>2
        <5> QED  BY <5>1, <5>2
      <4> QED  BY <1>0, <1>a, <1>b, <2>1, <2>3, <3>1, <3>2, <4>1
    <3>3. CASE current' # current
      <4>1. /\ \/ current' \in Late /\ (running \in Body => current' # running)
               \/ phase = "before" /\ current' = DefaultOperator
               \/ phase = "after"
        <5>1. ASSUME running \in Body, c \notin Body PROVE call[c].operator # running
          <6>1. PICK g \in File : c = Before(g) \/ c = After(g)
            BY <5>1 DEF Caller, Hook, Before, After
          <6>2. call[c].operator \in {DefaultOperator, NoOperator}
            BY <2>1, <6>1 DEF HookCalls
          <6> QED  BY <1>d, <5>1, <6>2
        <5> QED  BY <2>2, <2>5, <2>7, <3>3, <5>1
      <4> QED  BY <1>0, <1>a, <2>1, <3>1, <4>1
    <3> QED  BY <3>2, <3>3
  <2> QED  BY <2>6, <2>7
<1>6. CASE Quiet
  <2>1. UNCHANGED <<parallel, operator, call, step, kind, home>>
    BY <1>6, QuietStep
  <2>2. CASE TestTimesOut
    <3>1. /\ file' = file /\ phase' = phase /\ phase = "tests" /\ running \in Body /\ running' = NoOperator
          /\ running \in abandoned' /\ home[running] = file
      BY <1>c, <2>2 DEF TestTimesOut, Abandon
    <3>2. Awaited \subseteq Late'
      <4> SUFFICES ASSUME NEW b \in Body, b = running, kind[b] # "plain" PROVE b \in LeftBehind(file)'
        BY <3>1 DEF Late
      <4>1. LateTest(b, file)'
        BY <2>1, <3>1 DEF LateTest, Meet
      <4> QED  BY <4>1 DEF LeftBehind
    <3>3. current' = current /\ Forgetful' = Forgetful
      BY <1>0, <2>1, <3>1 DEF Unrestored
    <3> QED  BY <1>0, <1>a, <1>b, <1>d, <3>1, <3>2, <3>3
  <2>3. CASE AfterEnds \/ AfterTimesOut \/ CloseHook \/ CloseHookEnds
    <3>1. running' = NoOperator /\ phase' \notin {"before", "tests"}
      BY <2>3, <1>c DEF AfterEnds, AfterTimesOut, CloseHook, CloseHookEnds, LeaveFile, NextFile
    <3> QED  BY <1>d, <3>1 DEF OperatorInv
  <2>4. CASE ClientCloses \/ UNCHANGED vars
    <3>1. UNCHANGED <<file, phase, running>>
      BY <2>4 DEF ClientCloses, vars, runner
    <3>2. /\ current' = current /\ Forgetful' = Forgetful /\ Awaited' = Awaited
          /\ \A b \in Body : (Holds(b)' <=> Holds(b)) /\ (PutBack(b)' <=> PutBack(b))
      BY <1>0, <2>1, <3>1 DEF Unrestored, Holds, PutBack
    <3> QED  BY <1>0, <1>a, <1>b, <2>1, <3>1, <3>2
  <2> QED  BY <1>6, <2>2, <2>3, <2>4 DEF Quiet
<1> QED  BY <1>1, <1>2, <1>3, <1>4, <1>5, <1>6, NextCases

\* A session whose reset was executed after its files has no client.
LEMMA LeftStep ==
  ASSUME IInv, TypeOK', [Next]_vars
  PROVE  LeftInv'
<1> USE SessionsAssumption, Callers DEF IInv
<1>0. /\ \A f \in File : LateBefore(f) => LateBefore(f)'
      /\ parallel' = parallel /\ file \in File
      /\ \A f \in File : f \in Nat /\ getOrCreateSessionId(f)' = getOrCreateSessionId(f)
  BY LateGrows, SessionOfFile DEF TypeOK, getOrCreateSessionId, getRootSuiteContext
<1> DEFINE Gone(f) == Left(f) /\ call[After(f)].st = "done"
<1>1. ASSUME UNCHANGED operator, \A f \in File : Gone(f)' => Gone(f)
      PROVE  LeftInv'
  BY <1>0, <1>1 DEF LeftInv
<1>2. CASE BeginFile \/ BeforeEnds \/ BeforeTimesOut \/ TestsEnd
  <2>1. /\ UNCHANGED <<operator, file>>
        /\ \A f \in File \ {file} : call'[After(f)] = call[After(f)]
    BY <1>2, RunnerCalls
  <2>2. /\ phase' \in {"before", "tests", "after"}
        /\ phase' = "after" => call'[After(file)].st = "sent"
    <3>1. BeginFile => phase' = "before"
      BY RunnerHooks
    <3>2. BeforeEnds \/ BeforeTimesOut \/ TestsEnd =>
            \/ /\ phase' = "after"
               /\ call'[After(file)] = [op |-> "reset", session |-> getOrCreateSessionId(file),
                                        operator |-> NoOperator, st |-> "sent"]
            \/ phase' = "tests"
      BY RunnerHooks
    <3> QED  BY <1>2, <3>1, <3>2
  <2>3. ASSUME NEW f \in File, Gone(f)' PROVE Gone(f)
    BY <1>0, <2>1, <2>2, <2>3 DEF Left
  <2> QED  BY <1>1, <2>1, <2>3
<1>3. ASSUME NEW b \in Body, BodyContinues(b) \/ (\E k \in Kind : StartTest(b, k)) PROVE LeftInv'
  <2>1. /\ UNCHANGED <<operator, file, phase>> /\ \A d \in Caller : d # b => call'[d] = call[d]
    BY <1>3, BodySends
  <2>2. ASSUME NEW f \in File, Gone(f)' PROVE Gone(f)
    BY <1>0, <2>1, <2>2 DEF Left
  <2> QED  BY <1>1, <2>1, <2>2
<1>4. ASSUME NEW b \in Body, Look(b) \/ EndBody(b) PROVE LeftInv'
  <2>1. UNCHANGED <<operator, file, phase, call>>
    BY <1>4 DEF Look, EndBody, runner
  <2>2. ASSUME NEW f \in File, Gone(f)' PROVE Gone(f)
    BY <1>0, <2>1, <2>2 DEF Left
  <2> QED  BY <1>1, <2>1, <2>2
<1>5. ASSUME NEW c \in Caller, Serve(c) PROVE LeftInv'
  <2> SUFFICES ASSUME NEW f \in File, Gone(f)', ~LateBefore(f)'
               PROVE  operator'[getOrCreateSessionId(f)] = NoOperator
    BY <1>0 DEF LeftInv
  <2>1. /\ UNCHANGED <<parallel, file, phase, running, step, kind, home, abandoned>>
        /\ \A d \in Caller : d # c => call'[d] = call[d]
        /\ call[c].st = "sent" /\ call'[c].st \in {"done", "failed"}
    BY <1>5, ServerAnswers
  <2>2. getOrCreateSessionId(f) \in File
    BY SessionOfFile
  <2>3. ~LateBefore(f)
    BY <1>0
  <2>4. CASE c = After(f)
    BY <1>5, <2>1, <2>4, Effect DEF HookCalls
  <2>5. CASE c # After(f)
    <3>1. Gone(f)
      BY <1>0, <2>1, <2>5 DEF Left
    <3>2. operator[getOrCreateSessionId(f)] = NoOperator
      BY <2>3, <3>1 DEF LeftInv
    <3> SUFFICES ASSUME operator'[getOrCreateSessionId(f)] # operator[getOrCreateSessionId(f)]
                 PROVE  operator'[getOrCreateSessionId(f)] = NoOperator
      BY <3>2
    <3>3. /\ call[c].session = getOrCreateSessionId(f) /\ call[c].op # "transact"
          /\ operator'[getOrCreateSessionId(f)] = call[c].operator /\ call[c].op # "setOperator"
      BY <1>5, <2>2, <3>2, Effect
    <3>4. ASSUME c \in Body PROVE FALSE
      BY <2>1, <3>3, <3>4 DEF BodyCalls
    <3>5. ASSUME NEW g \in File, c = After(g) PROVE call[c].operator = NoOperator
      BY <2>1, <3>5 DEF HookCalls
    <3>6. ASSUME NEW g \in File, c = Before(g) PROVE FALSE
      <4>1. Meet(g, f)
        BY <2>1, <3>3, <3>6, MeetIsShare DEF HookCalls
      <4>2. phase = "before" /\ file = g
        BY <2>1, <2>3, <3>6, <4>1 DEF HookCalls, LateBefore
      <4>3. parallel /\ f < file
        BY <3>1, <4>2 DEF Left
      <4> QED  BY <1>0, <4>1, <4>2, <4>3 DEF Meet
    <3>7. c \in Body \/ \E g \in File : c = Before(g) \/ c = After(g)
      BY DEF Caller, Hook, Before, After
    <3> QED  BY <3>3, <3>4, <3>5, <3>6, <3>7
  <2> QED  BY <2>4, <2>5
<1>6. CASE Quiet
  <2>1. UNCHANGED <<operator, call>>
    BY <1>6, QuietStep
  <2>2. ASSUME NEW f \in File, Left(f)', call[After(f)].st = "done" PROVE Left(f)
    <3>1. CASE TestTimesOut \/ ClientCloses \/ UNCHANGED vars
      <4>1. UNCHANGED <<file, phase, parallel, call>>
        BY <3>1 DEF TestTimesOut, ClientCloses, vars, runner
      <4> QED  BY <2>2, <4>1 DEF Left
    <3>2. CASE AfterEnds
      BY <1>0, <2>1, <2>2, <3>2 DEF AfterEnds, LeaveFile, NextFile, Left
    <3>3. CASE AfterTimesOut
      <4>1. f # file
        BY <2>2, <3>3 DEF AfterTimesOut
      <4> QED  BY <1>0, <2>1, <2>2, <3>3, <4>1 DEF AfterTimesOut, LeaveFile, NextFile, Left
    <3>4. CASE CloseHook \/ CloseHookEnds
      BY <1>0, <2>1, <2>2, <3>4 DEF CloseHook, CloseHookEnds, NextFile, Left
    <3> QED  BY <1>6, <3>1, <3>2, <3>3, <3>4 DEF Quiet
  <2> QED  BY <1>1, <2>1, <2>2
<1> QED  BY <1>2, <1>3, <1>4, <1>5, <1>6, NextCases

-----------------------------------------------------------------------------
LEMMA InitIInv == Init => IInv
<1> SUFFICES ASSUME Init PROVE IInv
  OBVIOUS
<1> USE SessionsAssumption, WorkerAssumption, Callers
<1>1. /\ TypeOK /\ \A c \in Caller : call[c].st = "done"
      /\ \A b \in Body : step[b] = "idle" /\ query[b] = NoClient
      /\ phase = "begin" /\ running = NoOperator /\ file = 1 /\ file \in File /\ abandoned = {}
      /\ sdk = NoClient /\ created = 0 /\ closing = {} /\ closed = {}
  BY TypeInit DEF Init, SessionsInit, InfoInit, NoCall, File
<1>2. RunnerInv /\ ClientInv
  BY <1>1 DEF RunnerInv, Active, ClientInv, Lookers, ClosedAtEnd, AwaitedAnswer, OnlyCurrentOpen, NoClient, Operator
<1>3. BodyCalls /\ HookCalls
  BY <1>1 DEF BodyCalls, HookCalls
<1>4. OperatorInv
  BY <1>1 DEF OperatorInv, Operator
<1>5. LeftInv
  BY <1>1, SessionOfFile DEF LeftInv, Left, File
<1> QED  BY <1>1, <1>2, <1>3, <1>4, <1>5 DEF IInv

LEMMA IInvProperties == IInv => PayerAsIntended /\ SessionsEnd /\ ClientsAreClosed
<1> SUFFICES ASSUME IInv PROVE PayerAsIntended /\ SessionsEnd /\ ClientsAreClosed
  OBVIOUS
<1> USE SessionsAssumption, Callers DEF IInv
<1>1. PayerAsIntended
  <2> SUFFICES ASSUME NEW b \in Body, running = b, step[b] = "act"
               PROVE  operator[getOrCreateSessionId(home[b])] \in
                        {Payer(b)} \cup LeftBehind(home[b])
                          \cup {o \in Body : kind[b] = "plain" /\ home[o] = home[b] /\ Unrestored(o)}
    BY DEF PayerAsIntended
  <2>1. home[b] = file /\ phase = "tests"
    BY DEF RunnerInv, Operator
  <2>2. CASE kind[b] = "plain"
    BY <2>1, <2>2 DEF OperatorInv, Known, Own, Payer
  <2>3. CASE kind[b] # "plain"
    BY <2>1, <2>3 DEF OperatorInv, Holds, Payer
  <2> QED  BY <2>2, <2>3
<1>2. SessionsEnd
  <2> SUFFICES ASSUME phase = "over", NEW f \in File, parallel \/ f = MaxFile,
                      call[After(f)].st = "done", ~LateBefore(f)
               PROVE  operator[getOrCreateSessionId(f)] = NoOperator
    BY DEF SessionsEnd, HasClient
  <2>1. file = MaxFile /\ f \in 1..MaxFile /\ MaxFile \in Nat
    BY DEF RunnerInv, File
  <2>2. Left(f)
    BY <2>1 DEF Left
  <2> QED  BY <2>2 DEF LeftInv
<1>3. ClientsAreClosed
  BY DEF ClientsAreClosed, ClientInv, ClosedAtEnd, AwaitedAnswer
<1> QED  BY <1>1, <1>2, <1>3

\* For every number of files and every set of tests, with timeouts, refused
\* requests, lost answers and bodies left behind: the state has its types; the
\* awaited transaction is paid by the operator its test means, or by one traced
\* to a test or hook that timed out or to a test of the file that failed to put
\* it back; a session whose reset was executed keeps no client; and the SDK
\* clients are closed (services/Client.ts, setup-tests.ts,
\* ConsensusInfoClient.ts, the hooks of the suites).
THEOREM WorkerSafe == Spec => [](TypeOK /\ PayerAsIntended /\ SessionsEnd /\ ClientsAreClosed)
<1>1. IInv /\ [Next]_vars => IInv'
  <2> SUFFICES ASSUME IInv, [Next]_vars PROVE IInv'
    OBVIOUS
  <2>1. TypeOK'
    BY TypeStep DEF IInv
  <2>2. RunnerInv' /\ BodyCalls' /\ HookCalls'
    BY <2>1, RunnerStep, BodyCallsStep, HookCallsStep DEF IInv
  <2>3. ClientInv'
    BY <2>1, <2>2, ClientStep DEF IInv
  <2>4. OperatorInv' /\ LeftInv'
    BY <2>1, <2>2, OperatorStep, LeftStep
  <2> QED  BY <2>1, <2>2, <2>3, <2>4 DEF IInv
<1>2. IInv => TypeOK /\ PayerAsIntended /\ SessionsEnd /\ ClientsAreClosed
  BY IInvProperties DEF IInv
<1> QED  BY <1>1, <1>2, InitIInv, PTL DEF Spec
=============================================================================
