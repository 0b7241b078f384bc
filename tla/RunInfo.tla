------------------------------ MODULE RunInfo -------------------------------
(***************************************************************************)
(* The directory mochawesome-report over several runs: run-info.json,      *)
(* node-cleanup.jsonl and the report, what global setup and teardown       *)
(* (preflight.ts), the workers (node-registry.ts) and mocha write there,   *)
(* what the scripts of package.json wipe, and the exit code that           *)
(* scripts/check-test-results.mjs derives.                                 *)
(*                                                                         *)
(* A line of node-cleanup.jsonl is the number of the run that wrote it,    *)
(* and the totals of a run the lines it added up; the sums are in          *)
(* NodeRegistry.  The endpoints' answers are one choice.                   *)
(***************************************************************************)
EXTENDS Integers, Sequences, FiniteSets

CONSTANTS
  MaxRuns,   \* bound: runs, one after the other
  MaxLines,  \* bound: lines of node-cleanup.jsonl
  None,      \* no such file, no such part
  Garbled    \* a file whose write broke off

\* run-info.json: the stamp of the run it is of, and the summary of the nodes.
Nodes == [run : 1..MaxRuns, lines : Seq(1..MaxRuns)]
File == [stamp : 1..MaxRuns \cup {None}, nodes : Nodes \cup {None}]

ASSUME RunInfoAssumption ==
  /\ MaxRuns \in Nat \ {0} /\ MaxLines \in Nat
  /\ None # Garbled /\ None \notin Nat /\ Garbled \notin Nat
  /\ None \notin File /\ Garbled \notin File

\* npm test, test:ci and test:no-node-service; test:file and test:serial; a run
\* of RunTestsInContainer.ts, which has neither preflight nor gate.
Command == {"test", "file", "container"}

\* How the stamp of global setup ended: with everything done, or at which call.
Outcome == {"none", "done", "mkdirSync", "rmSync", "writeFileSync"}

VARIABLES
  runs,      \* history: what each run did, the last one current; the lines it
             \* wrote, and how many of them late, behind the adding up
  pc,        \* of the current run
  report,    \* mochawesome.json: None or [run, failures]
  runInfo,   \* run-info.json: None, Garbled or [stamp, nodes]
  cleanup,   \* node-cleanup.jsonl: the run of each line
  counts,    \* the lines teardown has added up
  exitCode   \* of the last gate

vars == <<runs, pc, report, runInfo, cleanup, counts, exitCode>>

run == Len(runs)
command == runs[run].command
Preflight == command # "container"

Init ==
  /\ runs = <<>> /\ pc = "idle"
  /\ report = None /\ runInfo = None /\ cleanup = <<>>
  /\ counts = <<>> /\ exitCode = None

-----------------------------------------------------------------------------
\* The scripts of package.json: rm -rf ... && mocha ...; node check...

New(c, wiped) ==
  [command |-> c, wiped |-> wiped, stamp |-> "none", wrote |-> 0, late |-> 0]
Begin(c, wiped, at) == runs' = Append(runs, New(c, wiped)) /\ pc' = at

\* Mutant: the report of the last run stays.
WipeKeepsReport ==
  /\ UNCHANGED report /\ runInfo' = None /\ cleanup' = <<>>
  /\ Begin("test", TRUE, "setup")

\* rm -rf can break off: mocha does not run then, the gate does.
Wipe ==
  \/ /\ report' = None /\ runInfo' = None /\ cleanup' = <<>>
     /\ Begin("test", TRUE, "setup")
  \/ /\ report' \in {report, None} /\ runInfo' \in {runInfo, None}
     /\ cleanup' \in {cleanup, <<>>}
     /\ Begin("test", FALSE, "gate")

Start ==
  /\ pc = "idle" /\ run < MaxRuns
  /\ \/ Wipe
     \/ Begin("file", FALSE, "setup") /\ UNCHANGED <<report, runInfo, cleanup>>
     \/ Begin("container", FALSE, "testing") /\ UNCHANGED <<report, runInfo, cleanup>>
  /\ counts' = <<>>
  /\ UNCHANGED exitCode

\* mocha is gone: by itself, aborted by global setup, or killed.
Over == IF command = "test" THEN "gate" ELSE "idle"

Killed ==
  /\ pc \in {"setup", "testing", "polling", "reporting"}
  /\ pc' = Over
  /\ UNCHANGED <<runs, report, runInfo, cleanup, counts, exitCode>>

\* check-test-results.mjs
Gate ==
  /\ pc = "gate" /\ pc' = "idle"
  /\ exitCode' = IF report = None THEN 2 ELSE IF report.failures THEN 1 ELSE 0
  /\ UNCHANGED <<runs, report, runInfo, cleanup, counts>>

-----------------------------------------------------------------------------
\* Global setup and teardown

\* Mutants: the lines of an earlier run are not removed; the stamp is one late.
StampOfLastRun(o) ==
  /\ o = "done" /\ cleanup' = <<>>
  /\ runInfo' = [stamp |-> run - 1, nodes |-> None]
StampKeepsLines(o) ==
  /\ cleanup' = cleanup
  /\ runInfo' = [stamp |-> run, nodes |-> None]
  /\ o = "done"

\* The best-effort stamp: three calls, the first that throws ends it.
Stamp(o) ==
  /\ cleanup' = IF o \in {"done", "writeFileSync"} THEN <<>> ELSE cleanup
  /\ CASE o = "done"          -> runInfo' = [stamp |-> run, nodes |-> None]
       [] o = "writeFileSync" -> runInfo' \in {runInfo, Garbled}
       [] OTHER               -> runInfo' = runInfo

\* An endpoint that is unreachable and a sweep without a protected set abort the
\* run after the stamp; mocha then has neither teardown nor report.
mochaGlobalSetup ==
  /\ pc = "setup"
  /\ \E o \in Outcome \ {"none"} :
       Stamp(o) /\ runs' = [runs EXCEPT ![run].stamp = o]
  /\ pc' \in {"testing", Over}
  /\ UNCHANGED <<report, counts, exitCode>>

WithLine(r) ==
  [r EXCEPT !.wrote = r.wrote + 1, !.late = IF pc = "testing" THEN r.late ELSE r.late + 1]

\* A drain's line (node-registry.ts).  Where the files run in mocha's process, a
\* drain that its hook left behind can write while teardown polls.
WriteLine ==
  /\ pc = "testing" \/ (pc \in {"polling", "reporting"} /\ command # "test")
  /\ Len(cleanup) < MaxLines
  /\ cleanup' = Append(cleanup, run)
  /\ runs' = [runs EXCEPT ![run] = WithLine(runs[run])]
  /\ UNCHANGED <<pc, report, runInfo, counts, exitCode>>

\* The last file is over; teardown adds the lines up and starts to poll.  Lines
\* it cannot read end mocha, as Killed does.
AddUp ==
  /\ pc = "testing"
  /\ IF Preflight THEN pc' = "polling" /\ counts' = cleanup
                  ELSE pc' = "reporting" /\ UNCHANGED counts
  /\ UNCHANGED <<runs, report, runInfo, cleanup, exitCode>>

Summary == [run |-> run, lines |-> counts]

\* Mutant: the summary replaces the stamp.
WithNodesAlone(info) == [stamp |-> None, nodes |-> Summary]
WithNodes(info) == [stamp |-> IF info = None THEN None ELSE info.stamp, nodes |-> Summary]

\* The end of teardown: run-info.json is read and written back with the summary.
mochaGlobalTeardown ==
  /\ pc = "polling" /\ pc' = "reporting"
  /\ \/ runInfo # Garbled /\ runInfo' = WithNodes(runInfo)
     \/ runInfo' \in {runInfo, Garbled}
  /\ UNCHANGED <<runs, report, cleanup, counts, exitCode>>

\* mocha's reporter; a run whose workers were killed can end without one.
Report ==
  /\ pc = "reporting" /\ pc' = Over
  /\ \/ \E f \in BOOLEAN : report' = [run |-> run, failures |-> f]
     \/ UNCHANGED report
  /\ UNCHANGED <<runs, runInfo, cleanup, counts, exitCode>>

Next == Start \/ Killed \/ Gate \/ mochaGlobalSetup \/ WriteLine \/ AddUp
        \/ mochaGlobalTeardown \/ Report

Spec == Init /\ [][Next]_vars

-----------------------------------------------------------------------------
\* Properties

\* Type invariant of the directory and the runs.
TypeOK ==
  /\ runs \in Seq([command : Command, wiped : BOOLEAN, stamp : Outcome,
                   wrote : Nat, late : Nat])
  /\ run <= MaxRuns
  /\ pc \in {"idle", "setup", "testing", "polling", "reporting", "gate"}
  /\ pc # "idle" => run > 0
  /\ report \in {None} \cup [run : 1..MaxRuns, failures : BOOLEAN]
  /\ runInfo \in File \cup {None, Garbled}
  /\ cleanup \in Seq(1..MaxRuns) /\ counts \in Seq(1..MaxRuns)
  /\ exitCode \in {None, 0, 1, 2}

\* The gate is green only for a report of its own run without a failure, if the
\* wipe before it was complete (check-test-results.mjs:1-5): neither a crash, an
\* abort nor a killed worker lets an earlier run's report stand for this one.
GreenIsOwn ==
  pc = "idle" /\ run > 0 /\ exitCode = 0 /\ command = "test" /\ runs[run].wiped
    => report = [run |-> run, failures |-> FALSE]

Summarised == runInfo \notin {None, Garbled} /\ runInfo.nodes # None

\* The run removed the lines of those before it: its script or its stamp did.
Removed(r) == runs[r].wiped \/ runs[r].stamp \in {"done", "writeFileSync"}

\* The totals are the lines the run's drains wrote before teardown added them up,
\* each once: a parallel run's are all of them, where the files run in mocha's
\* process those of a drain left behind are missing (preflight.ts:318-337).
\* Lines of an earlier run, of a container or of a run that was killed before its
\* own teardown are among them only if neither it nor any run between could
\* remove the file (preflight.ts:257-259).
TotalsAreExact ==
  Summarised =>
    LET nodes == runInfo.nodes
        n     == nodes.run
        own   == {i \in DOMAIN nodes.lines : nodes.lines[i] = n}
    IN /\ Cardinality(own) = runs[n].wrote - runs[n].late
       /\ runs[n].command = "test" => Cardinality(own) = runs[n].wrote
       /\ \A i \in DOMAIN nodes.lines : \A r \in (nodes.lines[i] + 1)..n : ~Removed(r)

\* The versions and endpoints in run-info.json and the nodes beside them are of
\* one run (preflight.ts:248-263, 395-408), but where the stamp of the nodes' run
\* failed: then there are none, or those of an earlier run that neither this run
\* nor any between could replace or remove.  A run with a stamp has it in
\* run-info.json to the end.
InfoIsOfOneRun ==
  /\ Summarised =>
       LET s == runInfo.stamp
           n == runInfo.nodes.run
       IN s # n =>
            /\ runs[n].stamp # "done"
            /\ s # None => /\ s < n
                           /\ \A r \in (s + 1)..n : ~runs[r].wiped /\ runs[r].stamp # "done"
  /\ run > 0 /\ runs[run].stamp = "done" /\ runInfo # Garbled
       => runInfo # None /\ runInfo.stamp = run
=============================================================================
