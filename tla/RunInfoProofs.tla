---------------------------- MODULE RunInfoProofs ----------------------------
(***************************************************************************)
(* Proofs about RunInfo for any number of runs and of lines.               *)
(***************************************************************************)
EXTENDS RunInfo, FiniteSetTheorems, TLAPS

\* Until global setup is over a run has no stamp and no lines, and none is late
\* before teardown has begun or where the files have processes of their own.
SetupIsFirst == pc = "setup" => runs[run].stamp = "none" /\ runs[run].wrote = 0
LateIsBehind ==
  /\ pc \in {"setup", "testing"} => runs[run].late = 0
  /\ \A k \in 1..run : runs[k].command = "test" => runs[k].late = 0

\* Once a run has wiped the directory, its own reporter alone puts a report there.
ReportIsOwn ==
  run > 0 /\ command = "test" /\ runs[run].wiped /\ pc # "idle"
    => report = None \/ report.run = run

\* The last w of the lines are those of run n; the others are of earlier runs,
\* and neither n nor a run between has removed them.
LinesOf(lines, n, w) ==
  /\ w \in 0..Len(lines)
  /\ \A i \in 1..Len(lines) : lines[i] = n <=> i > Len(lines) - w
  /\ \A i \in 1..Len(lines) : lines[i] <= n /\ \A r \in (lines[i] + 1)..n : ~Removed(r)

\* The lines there are, and those teardown has added up.
LinesKnown ==
  IF run = 0 THEN cleanup = <<>> ELSE LinesOf(cleanup, run, runs[run].wrote)
CountsKnown ==
  pc = "polling" => LinesOf(counts, run, runs[run].wrote - runs[run].late)

\* Of a summary's lines the same is known of its run.
SummaryKnown ==
  Summarised => LET n == runInfo.nodes.run IN
                LinesOf(runInfo.nodes.lines, n, runs[n].wrote - runs[n].late)

\* A stamp is there until a later run wipes the directory or stamps it.
Replaces(r) == runs[r].wiped \/ runs[r].stamp = "done"
StampKnown ==
  runInfo \notin {None, Garbled} /\ runInfo.stamp # None =>
    runInfo.stamp <= run /\ \A r \in (runInfo.stamp + 1)..run : ~Replaces(r)

\* A summary is of a run that has reached its own teardown.
SummaryIsLate ==
  Summarised =>
    /\ runInfo.nodes.run <= run
    /\ runInfo.nodes.run = run => pc \in {"reporting", "gate", "idle"}

\* InfoIsOfOneRun of a summary.
SummaryStamped ==
  Summarised =>
    LET s == runInfo.stamp
        n == runInfo.nodes.run
    IN s # n =>
         /\ runs[n].stamp # "done"
         /\ s # None => /\ s < n
                        /\ \A r \in (s + 1)..n : ~runs[r].wiped /\ runs[r].stamp # "done"

IInv ==
  /\ TypeOK
  /\ SetupIsFirst
  /\ LateIsBehind
  /\ ReportIsOwn
  /\ LinesKnown
  /\ CountsKnown
  /\ SummaryIsLate
  /\ SummaryKnown
  /\ StampKnown
  /\ GreenIsOwn
  /\ InfoIsOfOneRun

Run == [command : Command, wiped : BOOLEAN, stamp : Outcome, wrote : Nat, late : Nat]

\* The shapes of the runs and of run-info.json, out of the type invariant.
LEMMA Shapes ==
  ASSUME TypeOK
  PROVE  /\ runs \in Seq(Run) /\ run \in Nat
         /\ \A k \in 1..run : runs[k] \in Run
         /\ pc # "idle" => run \in 1..run
         /\ Summarised => runInfo.nodes \in Nodes /\ runInfo.nodes.run \in Nat
         /\ None # Garbled /\ None \notin File /\ Garbled \notin File
<1>1. Summarised => runInfo \in File /\ runInfo.nodes \in Nodes
  BY DEF TypeOK, Summarised, File
<1>2. \A n \in Nodes : n.run \in Nat
  BY RunInfoAssumption DEF Nodes
<1>3. runs \in Seq(Run) /\ (pc # "idle" => run > 0)
  BY DEF TypeOK, Run
<1>4. run \in Nat /\ \A k \in 1..run : runs[k] \in Run
  BY <1>3 DEF run
<1>5. pc # "idle" => run \in 1..run
  BY <1>3, <1>4
<1> QED
  BY <1>1, <1>2, <1>3, <1>4, <1>5, RunInfoAssumption

\* Such lines are of the run as often as it says.
LEMMA LinesCounted ==
  ASSUME NEW lines \in Seq(1..MaxRuns), NEW n, NEW w, LinesOf(lines, n, w)
  PROVE  Cardinality({i \in DOMAIN lines : lines[i] = n}) = w
<1>1. w \in 0..Len(lines) /\ Len(lines) \in Nat /\ DOMAIN lines = 1..Len(lines)
  BY DEF LinesOf
<1>2. {i \in DOMAIN lines : lines[i] = n} = (Len(lines) - w + 1)..Len(lines)
  BY <1>1 DEF LinesOf
<1>3. Len(lines) - w + 1 \in Int /\ Len(lines) \in Int
  BY <1>1
<1>4. Cardinality((Len(lines) - w + 1)..Len(lines))
        = IF Len(lines) - w + 1 > Len(lines) THEN 0 ELSE Len(lines) - (Len(lines) - w + 1) + 1
  BY <1>3, FS_Interval
<1>5. \A l \in Nat : \A k \in 0..l :
        (IF l - k + 1 > l THEN 0 ELSE l - (l - k + 1) + 1) = k
  OBVIOUS
<1> QED
  BY <1>1, <1>2, <1>4, <1>5

\* Before the first run.
THEOREM RunInfoInit == Init => IInv
<1> SUFFICES ASSUME Init PROVE IInv
  OBVIOUS
<1>1. /\ runs = <<>> /\ pc = "idle" /\ report = None /\ runInfo = None /\ cleanup = <<>>
      /\ counts = <<>> /\ exitCode = None /\ run = 0
  BY DEF Init, run
<1>2. TypeOK
  BY <1>1, RunInfoAssumption DEF TypeOK
<1> QED
  BY <1>1, <1>2 DEF IInv, SetupIsFirst, LateIsBehind, ReportIsOwn, LinesKnown, CountsKnown,
                    SummaryIsLate, SummaryKnown, StampKnown, GreenIsOwn, InfoIsOfOneRun,
                    Summarised

\* What is known of a summary stays so while its run's records stay.
LEMMA SummaryKept ==
  ASSUME TypeOK, SummaryKnown, Summarised => runInfo.nodes.run <= run,
         Summarised' => Summarised /\ runInfo' = runInfo,
         Summarised => \A k \in 1..runInfo.nodes.run :
           /\ runs'[k].wiped = runs[k].wiped /\ runs'[k].stamp = runs[k].stamp
           /\ runs'[k].wrote - runs'[k].late = runs[k].wrote - runs[k].late
  PROVE  SummaryKnown'
<1> SUFFICES ASSUME Summarised'
             PROVE  LinesOf(runInfo.nodes.lines, runInfo.nodes.run,
                            runs[runInfo.nodes.run].wrote - runs[runInfo.nodes.run].late)'
  BY DEF SummaryKnown
<1> DEFINE n == runInfo.nodes.run
           lines == runInfo.nodes.lines
<1>1. Summarised /\ runInfo' = runInfo
  OBVIOUS
<1>2. /\ n \in 1..MaxRuns /\ n \in Nat /\ n \in 1..n
      /\ lines \in Seq(1..MaxRuns) /\ Len(lines) \in Nat
      /\ \A i \in 1..Len(lines) : lines[i] \in Nat /\ lines[i] >= 1
  <2>1. n \in 1..MaxRuns /\ lines \in Seq(1..MaxRuns)
    BY <1>1 DEF TypeOK, Summarised, File, Nodes
  <2> QED
    BY <2>1, RunInfoAssumption
<1>3. LinesOf(lines, n, runs[n].wrote - runs[n].late)
  BY <1>1 DEF SummaryKnown
<1>4. \A r \in 1..n : Removed(r)' = Removed(r)
  BY <1>1 DEF Removed
<1>5. runs'[n].wrote - runs'[n].late = runs[n].wrote - runs[n].late
  BY <1>1, <1>2
<1>6. \A i \in 1..Len(lines) : \A r \in (lines[i] + 1)..n : ~Removed(r)'
  <2> SUFFICES ASSUME NEW i \in 1..Len(lines), NEW r \in (lines[i] + 1)..n
               PROVE  ~Removed(r)'
    OBVIOUS
  <2>1. r \in 1..n
    BY <1>2
  <2> QED
    BY <1>3, <1>4, <2>1 DEF LinesOf
<1> QED
  BY <1>1, <1>3, <1>5, <1>6 DEF LinesOf

\* The same of the stamp beside it.
LEMMA InfoKept ==
  ASSUME TypeOK, InfoIsOfOneRun, Summarised' => Summarised /\ runInfo' = runInfo,
         Summarised => \A k \in 1..runInfo.nodes.run :
           runs'[k].wiped = runs[k].wiped /\ runs'[k].stamp = runs[k].stamp
  PROVE  SummaryStamped'
<1> SUFFICES ASSUME Summarised', runInfo'.stamp # runInfo'.nodes.run
             PROVE  LET s == runInfo'.stamp
                        n == runInfo'.nodes.run
                    IN /\ runs'[n].stamp # "done"
                       /\ s # None => /\ s < n
                                      /\ \A r \in (s + 1)..n :
                                           ~runs'[r].wiped /\ runs'[r].stamp # "done"
  BY DEF SummaryStamped
<1> DEFINE n == runInfo.nodes.run
           s == runInfo.stamp
<1>1. Summarised /\ runInfo' = runInfo
  OBVIOUS
<1>2. n \in Nat /\ n \in 1..n /\ (s # None => s \in Nat)
  <2>1. n \in 1..MaxRuns /\ s \in 1..MaxRuns \cup {None}
    BY <1>1 DEF TypeOK, Summarised, File, Nodes
  <2> QED
    BY <2>1, RunInfoAssumption
<1>3. /\ runs[n].stamp # "done"
      /\ s # None => /\ s < n
                     /\ \A r \in (s + 1)..n : ~runs[r].wiped /\ runs[r].stamp # "done"
  BY <1>1 DEF InfoIsOfOneRun
<1>4. s # None => \A r \in (s + 1)..n : r \in 1..n
  BY <1>2
<1> QED
  BY <1>1, <1>2, <1>3, <1>4

\* The next run: what is in the directory is of earlier runs, or wiped.
LEMMA StartStep ==
  ASSUME IInv, Start
  PROVE  IInv'
<1>1. PICK c \in Command, w \in BOOLEAN, at \in {"setup", "testing", "gate"} :
        /\ runs' = Append(runs, New(c, w)) /\ pc' = at /\ pc = "idle" /\ run < MaxRuns
        /\ counts' = <<>> /\ exitCode' = exitCode
        /\ report' \in {report, None} /\ runInfo' \in {runInfo, None}
        /\ cleanup' \in {cleanup, <<>>}
        /\ w => report' = None /\ runInfo' = None /\ cleanup' = <<>>
  BY DEF Start, Wipe, Begin, Command
<1>2. /\ TypeOK /\ GreenIsOwn /\ InfoIsOfOneRun /\ SummaryIsLate /\ SummaryKnown
      /\ LateIsBehind /\ LinesKnown /\ StampKnown
  BY DEF IInv
<1>3. New(c, w) \in Run /\ New(c, w).stamp = "none" /\ New(c, w).wrote = 0
      /\ New(c, w).late = 0 /\ New(c, w).wiped = w
  BY DEF New, Run, Outcome
<1>4. /\ runs \in Seq(Run) /\ run \in Nat
  BY <1>2, Shapes
<1>5. /\ runs' \in Seq(Run) /\ run' = run + 1 /\ runs'[run + 1] = New(c, w)
      /\ \A k \in 1..run : runs'[k] = runs[k]
  BY <1>1, <1>3, <1>4 DEF run
<1>6. TypeOK'
  <2>1. run + 1 <= MaxRuns /\ run + 1 > 0
    BY <1>1, <1>4, RunInfoAssumption
  <2>2. run' <= MaxRuns /\ run' > 0
    BY <1>5, <2>1
  <2>3. /\ report' \in {None} \cup [run : 1..MaxRuns, failures : BOOLEAN]
        /\ runInfo' \in File \cup {None, Garbled}
        /\ cleanup' \in Seq(1..MaxRuns) /\ counts' \in Seq(1..MaxRuns)
        /\ exitCode' \in {None, 0, 1, 2}
        /\ pc' \in {"idle", "setup", "testing", "polling", "reporting", "gate"}
    <3>1. /\ report \in {None} \cup [run : 1..MaxRuns, failures : BOOLEAN]
          /\ runInfo \in File \cup {None, Garbled} /\ cleanup \in Seq(1..MaxRuns)
          /\ exitCode \in {None, 0, 1, 2}
      BY <1>2 DEF TypeOK
    <3>2. <<>> \in Seq(1..MaxRuns)
      OBVIOUS
    <3> QED
      BY <1>1, <3>1, <3>2
  <2> QED
    BY <1>5, <2>2, <2>3 DEF TypeOK, Run
<1>7. /\ SetupIsFirst' /\ CountsKnown' /\ GreenIsOwn' /\ LateIsBehind'
  <2>1. LateIsBehind'
    BY <1>2, <1>3, <1>4, <1>5 DEF LateIsBehind
  <2> QED
    BY <1>1, <1>3, <1>5, <2>1 DEF SetupIsFirst, CountsKnown, GreenIsOwn
<1>8. ReportIsOwn'
  BY <1>1, <1>3, <1>5 DEF ReportIsOwn
<1>9. Summarised' => Summarised /\ runInfo' = runInfo /\ runInfo.nodes.run \in 1..run
  <2>1. Summarised' => Summarised /\ runInfo' = runInfo
    BY <1>1 DEF Summarised
  <2>2. Summarised => runInfo.nodes.run \in 1..MaxRuns
    BY <1>2 DEF TypeOK, Summarised, File, Nodes
  <2> QED
    BY <1>2, <1>4, <2>1, <2>2, RunInfoAssumption DEF SummaryIsLate
<1>10. Summarised => \A k \in 1..runInfo.nodes.run : k \in 1..run
  BY <1>2, <1>4, Shapes DEF SummaryIsLate
<1>14. SummaryIsLate' /\ SummaryKnown'
  <2>1. SummaryIsLate'
    BY <1>4, <1>5, <1>9 DEF SummaryIsLate
  <2>2. SummaryKnown'
    BY <1>2, <1>5, <1>9, <1>10, SummaryKept DEF SummaryIsLate
  <2> QED
    BY <2>1, <2>2
<1>11. LinesKnown'
  <2>1. CASE cleanup' = <<>>
    BY <1>3, <1>4, <1>5, <2>1 DEF LinesKnown, LinesOf
  <2>2. CASE cleanup' = cleanup /\ cleanup # <<>>
    <3>1. run > 0 /\ LinesOf(cleanup, run, runs[run].wrote) /\ ~w
      BY <1>1, <1>2, <1>4, <2>2 DEF LinesKnown
    <3>2. cleanup \in Seq(1..MaxRuns) /\ Len(cleanup) \in Nat
          /\ \A i \in 1..Len(cleanup) : cleanup[i] \in Nat /\ cleanup[i] >= 1
      BY <1>2, RunInfoAssumption DEF TypeOK
    <3>3. \A r : (r = run + 1 => ~Removed(r)') /\ (r \in 1..run => Removed(r)' = Removed(r))
      BY <1>3, <1>5, <3>1 DEF Removed
    <3>4. \A i \in 1..Len(cleanup) : \A r \in (cleanup[i] + 1)..(run + 1) : ~Removed(r)'
      <4> SUFFICES ASSUME NEW i \in 1..Len(cleanup), NEW r \in (cleanup[i] + 1)..(run + 1)
                   PROVE  ~Removed(r)'
        OBVIOUS
      <4>1. r = run + 1 \/ (r \in 1..run /\ r \in (cleanup[i] + 1)..run)
        BY <1>4, <3>2
      <4> QED
        BY <3>1, <3>3, <4>1 DEF LinesOf
    <3>5. \A i \in 1..Len(cleanup) : cleanup[i] <= run + 1 /\ cleanup[i] # run + 1
      <4>1. \A i \in 1..Len(cleanup) : cleanup[i] <= run
        BY <3>1 DEF LinesOf
      <4> QED
        BY <1>4, <3>2, <4>1
    <3> QED
      BY <1>3, <1>4, <1>5, <2>2, <3>2, <3>4, <3>5 DEF LinesKnown, LinesOf
  <2> QED
    BY <1>1, <2>1, <2>2
<1>12. StampKnown'
  <2> SUFFICES ASSUME runInfo' \notin {None, Garbled}, runInfo'.stamp # None
               PROVE  /\ runInfo'.stamp <= run + 1
                      /\ \A r \in (runInfo'.stamp + 1)..(run + 1) : ~Replaces(r)'
    BY <1>5 DEF StampKnown
  <2>1. runInfo' = runInfo /\ ~w
    BY <1>1
  <2>2. runInfo.stamp <= run /\ \A r \in (runInfo.stamp + 1)..run : ~Replaces(r)
    BY <1>2, <2>1 DEF StampKnown
  <2>3. runInfo.stamp \in Nat /\ runInfo.stamp >= 1
    BY <1>2, <2>1, RunInfoAssumption DEF TypeOK, File
  <2>4. \A r : (r = run + 1 => ~Replaces(r)') /\ (r \in 1..run => Replaces(r)' = Replaces(r))
    BY <1>3, <1>5, <2>1 DEF Replaces
  <2>5. ASSUME NEW r \in (runInfo.stamp + 1)..(run + 1) PROVE ~Replaces(r)'
    <3>1. r = run + 1 \/ (r \in 1..run /\ r \in (runInfo.stamp + 1)..run)
      BY <1>4, <2>3
    <3> QED
      BY <2>2, <2>4, <3>1
  <2>6. runInfo'.stamp <= run + 1
    BY <1>4, <2>1, <2>2, <2>3
  <2> QED
    BY <2>1, <2>5, <2>6
<1>13. InfoIsOfOneRun'
  <2>1. SummaryStamped'
    BY <1>2, <1>5, <1>9, <1>10, InfoKept DEF SummaryIsLate
  <2> QED
    BY <1>3, <1>4, <1>5, <2>1 DEF InfoIsOfOneRun, SummaryStamped
<1> QED
  BY <1>6, <1>7, <1>8, <1>11, <1>12, <1>13, <1>14 DEF IInv

\* The end of a run, its report and its gate: nothing of preflight changes.
LEMMA EndStep ==
  ASSUME IInv, Killed \/ Gate \/ Report
  PROVE  IInv'
<1>1. /\ UNCHANGED <<runs, runInfo, cleanup, counts>> /\ run' = run /\ pc # "idle"
      /\ pc' \in {"gate", "idle"}
  BY DEF Killed, Gate, Report, Over, run
<1>2. /\ TypeOK /\ GreenIsOwn /\ InfoIsOfOneRun /\ SummaryIsLate /\ SummaryKnown
      /\ LateIsBehind /\ LinesKnown /\ StampKnown /\ ReportIsOwn /\ run > 0
  BY <1>1 DEF IInv, TypeOK
<1>3. run \in 1..MaxRuns
  BY <1>2, Shapes, RunInfoAssumption DEF TypeOK
<1>4. TypeOK'
  <2>1. /\ report' \in {report} \cup [run : 1..MaxRuns, failures : BOOLEAN]
        /\ exitCode' \in {exitCode, 0, 1, 2}
    BY <1>3 DEF Killed, Gate, Report
  <2> QED
    BY <1>1, <1>2, <2>1 DEF TypeOK, run
<1>5. /\ SetupIsFirst' /\ LateIsBehind' /\ LinesKnown' /\ CountsKnown' /\ SummaryIsLate'
      /\ SummaryKnown' /\ StampKnown' /\ InfoIsOfOneRun'
  BY <1>1, <1>2 DEF SetupIsFirst, LateIsBehind, LinesKnown, CountsKnown, SummaryIsLate,
                    SummaryKnown, StampKnown, InfoIsOfOneRun, LinesOf, Removed, Replaces,
                    Summarised
<1>6. ReportIsOwn'
  BY <1>1, <1>2 DEF ReportIsOwn, Killed, Gate, Report, command
<1>7. GreenIsOwn'
  <2> SUFFICES ASSUME pc' = "idle", exitCode' = 0, command = "test", runs[run].wiped
               PROVE  report' = [run |-> run, failures |-> FALSE]
    BY <1>1 DEF GreenIsOwn, command
  <2>1. Gate
    BY DEF Killed, Report, Over
  <2>2. report' = report /\ report # None /\ report.failures = FALSE
    BY <1>2, <2>1 DEF Gate, TypeOK
  <2>3. report.run = run
    BY <1>1, <1>2, <2>2 DEF ReportIsOwn
  <2> QED
    BY <1>2, <2>2, <2>3 DEF TypeOK
<1> QED
  BY <1>4, <1>5, <1>6, <1>7 DEF IInv

\* The stamp: what it removes and writes is of the current run.
LEMMA StampStep ==
  ASSUME IInv, mochaGlobalSetup
  PROVE  IInv'
<1>1. PICK o \in Outcome \ {"none"} : Stamp(o) /\ runs' = [runs EXCEPT ![run].stamp = o]
  BY DEF mochaGlobalSetup
<1>2. /\ pc = "setup" /\ pc' \in {"testing", "gate", "idle"}
      /\ (pc' = "idle" => command # "test")
      /\ UNCHANGED <<report, counts, exitCode>>
  BY DEF mochaGlobalSetup, Over
<1>3. /\ TypeOK /\ SetupIsFirst /\ LateIsBehind /\ ReportIsOwn /\ SummaryIsLate
      /\ SummaryKnown /\ LinesKnown /\ StampKnown /\ InfoIsOfOneRun
  BY DEF IInv
<1>4. /\ runs \in Seq(Run) /\ run \in Nat /\ run \in 1..run /\ run > 0 /\ run \in 1..MaxRuns
      /\ \A k \in 1..run : runs[k] \in Run
  BY <1>2, <1>3, Shapes, RunInfoAssumption DEF TypeOK
<1>5. /\ runs' \in Seq(Run) /\ run' = run
      /\ \A k \in (1..run) \ {run} : runs'[k] = runs[k]
      /\ runs'[run] = [runs[run] EXCEPT !.stamp = o]
  <2>1. /\ runs' = [runs EXCEPT ![run] = [runs[run] EXCEPT !.stamp = o]]
        /\ runs \in Seq(Run) /\ run \in DOMAIN runs /\ run \in 1..run
    BY <1>1, <1>4 DEF run
  <2>2. runs[run] \in Run
    BY <1>4
  <2> DEFINE r == [runs[run] EXCEPT !.stamp = o]
  <2>3. r \in Run
    BY <1>1, <2>2 DEF Run
  <2> HIDE DEF r
  <2>4. runs' \in Seq(Run) /\ Len(runs') = Len(runs)
    BY <2>1, <2>3 DEF r
  <2>5. /\ \A k \in (1..run) \ {run} : runs'[k] = runs[k]
        /\ runs'[run] = r
    BY <2>1 DEF run, r
  <2> QED
    BY <2>4, <2>5 DEF run, r
<1>6. /\ command' = command /\ runs'[run].wiped = runs[run].wiped /\ runs'[run].stamp = o
      /\ runs'[run].wrote = 0 /\ runs'[run].late = 0
      /\ runs[run].wrote = 0 /\ runs[run].stamp = "none" /\ runs'[run].command = runs[run].command
  BY <1>2, <1>3, <1>4, <1>5 DEF command, Run, SetupIsFirst, LateIsBehind
<1>7. /\ o \in {"done", "writeFileSync"} => cleanup' = <<>>
      /\ cleanup' \in {cleanup, <<>>}
      /\ o = "done" => runInfo' = [stamp |-> run, nodes |-> None]
      /\ o # "done" => runInfo' \in {runInfo, Garbled}
  BY <1>1 DEF Stamp, Outcome
<1>8. o = "done" => runInfo' \in File
  BY <1>4, <1>7 DEF File
<1>9. TypeOK'
  <2>1. /\ runInfo' \in File \cup {None, Garbled}
        /\ cleanup' \in Seq(1..MaxRuns)
    <3>1. runInfo \in File \cup {None, Garbled} /\ cleanup \in Seq(1..MaxRuns)
      BY <1>3 DEF TypeOK
    <3>2. <<>> \in Seq(1..MaxRuns)
      OBVIOUS
    <3> QED
      BY <1>7, <1>8, <3>1, <3>2
  <2> QED
    BY <1>2, <1>3, <1>4, <1>5, <2>1 DEF TypeOK, Run
<1>10. SetupIsFirst' /\ LateIsBehind' /\ CountsKnown' /\ ReportIsOwn' /\ GreenIsOwn'
  BY <1>2, <1>3, <1>4, <1>5, <1>6, <1>7
     DEF SetupIsFirst, LateIsBehind, CountsKnown, ReportIsOwn, GreenIsOwn
<1>11. Summarised' => Summarised /\ runInfo' = runInfo /\ runInfo.nodes.run \in (1..run) \ {run}
  <2>1. Summarised' => Summarised /\ runInfo' = runInfo
    BY <1>7 DEF Summarised
  <2>2. Summarised => runInfo.nodes.run \in 1..MaxRuns
    BY <1>3 DEF TypeOK, Summarised, File, Nodes
  <2>3. Summarised => runInfo.nodes.run <= run /\ runInfo.nodes.run # run
    BY <1>2, <1>3 DEF SummaryIsLate
  <2> QED
    BY <1>4, <2>1, <2>2, <2>3, RunInfoAssumption
<1>12. \A k \in (1..run) \ {run} :
          /\ runs'[k].wiped = runs[k].wiped /\ runs'[k].stamp = runs[k].stamp
          /\ runs'[k].wrote - runs'[k].late = runs[k].wrote - runs[k].late
  BY <1>5
<1>13. Summarised' => \A k \in 1..runInfo.nodes.run : k \in (1..run) \ {run}
  BY <1>4, <1>11
<1>14. SummaryIsLate' /\ SummaryKnown' /\ SummaryStamped'
  <2>1. CASE Summarised'
    BY <1>3, <1>4, <1>5, <1>11, <1>12, <1>13, <2>1, SummaryKept, InfoKept DEF SummaryIsLate
  <2>2. CASE ~Summarised'
    BY <2>2 DEF SummaryIsLate, SummaryKnown, SummaryStamped
  <2> QED
    BY <2>1, <2>2
<1>15. InfoIsOfOneRun'
  <2>1. runs'[run].stamp = "done" => runInfo' # None /\ runInfo'.stamp = run
    BY <1>6, <1>7, <1>8, RunInfoAssumption
  <2> QED
    BY <1>5, <1>14, <2>1 DEF InfoIsOfOneRun, SummaryStamped
<1>16. StampKnown'
  <2>1. CASE o = "done"
    <3>1. runInfo'.stamp = run
      BY <1>7, <2>1
    <3> QED
      BY <1>4, <1>5, <3>1 DEF StampKnown
  <2>2. CASE o # "done"
    <3> SUFFICES ASSUME runInfo' \notin {None, Garbled}, runInfo'.stamp # None
                 PROVE  /\ runInfo'.stamp <= run
                        /\ \A r \in (runInfo'.stamp + 1)..run : ~Replaces(r)'
      BY <1>5 DEF StampKnown
    <3>1. runInfo' = runInfo
      BY <1>7, <2>2
    <3>2. runInfo.stamp <= run /\ \A r \in (runInfo.stamp + 1)..run : ~Replaces(r)
      BY <1>3, <3>1 DEF StampKnown
    <3>3. runInfo.stamp \in Nat /\ runInfo.stamp >= 1
      BY <1>3, <3>1, RunInfoAssumption DEF TypeOK, File
    <3>4. \A r \in 1..run : Replaces(r)' = Replaces(r)
      BY <1>5, <1>6, <2>2 DEF Replaces
    <3> QED
      BY <1>4, <3>1, <3>2, <3>3, <3>4
  <2> QED
    BY <2>1, <2>2
<1>17. LinesKnown'
  <2>1. CASE cleanup' = <<>>
    BY <1>4, <1>5, <1>6, <2>1 DEF LinesKnown, LinesOf
  <2>2. CASE cleanup' = cleanup /\ o \notin {"done", "writeFileSync"}
    <3>1. LinesOf(cleanup, run, runs[run].wrote)
      BY <1>3, <1>4 DEF LinesKnown
    <3>2. cleanup \in Seq(1..MaxRuns) /\ Len(cleanup) \in Nat
          /\ \A i \in 1..Len(cleanup) : cleanup[i] \in Nat /\ cleanup[i] >= 1
      BY <1>3, RunInfoAssumption DEF TypeOK
    <3>3. \A r \in 1..run : Removed(r)' = Removed(r)
      BY <1>5, <1>6, <2>2 DEF Removed
    <3>4. \A i \in 1..Len(cleanup) : \A r \in (cleanup[i] + 1)..run : r \in 1..run
      BY <1>4, <3>2
    <3> QED
      BY <1>4, <1>5, <1>6, <2>2, <3>1, <3>3, <3>4 DEF LinesKnown, LinesOf
  <2> QED
    BY <1>7, <2>1, <2>2
<1> QED
  BY <1>9, <1>10, <1>14, <1>15, <1>16, <1>17 DEF IInv

\* One more line makes a run's record one with a line more.
LEMMA WithLineRun ==
  ASSUME NEW r \in Run
  PROVE  /\ WithLine(r) \in Run /\ r.wrote \in Nat /\ r.late \in Nat
         /\ WithLine(r).command = r.command /\ WithLine(r).wiped = r.wiped
         /\ WithLine(r).stamp = r.stamp /\ WithLine(r).wrote = r.wrote + 1
         /\ WithLine(r).late = IF pc = "testing" THEN r.late ELSE r.late + 1
<1> DEFINE l == IF pc = "testing" THEN r.late ELSE r.late + 1
           a == [r EXCEPT !.wrote = r.wrote + 1]
           b == [a EXCEPT !.late = l]
<1>1. r.wrote \in Nat /\ r.late \in Nat /\ l \in Nat
  BY DEF Run
<1>2. WithLine(r) = b
  BY DEF WithLine
<1> HIDE DEF l
<1>3. /\ a \in Run /\ a.command = r.command /\ a.wiped = r.wiped /\ a.stamp = r.stamp
      /\ a.wrote = r.wrote + 1
  BY <1>1 DEF Run
<1> HIDE DEF a
<1>4. /\ b \in Run /\ b.command = a.command /\ b.wiped = a.wiped /\ b.stamp = a.stamp
      /\ b.wrote = a.wrote /\ b.late = l
  BY <1>1, <1>3 DEF Run
<1> QED
  BY <1>1, <1>2, <1>3, <1>4 DEF l

\* A line of the run, while its lines can still change.
LEMMA LineStep ==
  ASSUME IInv, WriteLine
  PROVE  IInv'
<1>1. /\ pc = "testing" \/ (pc \in {"polling", "reporting"} /\ command # "test")
      /\ cleanup' = Append(cleanup, run)
      /\ runs' = [runs EXCEPT ![run] = WithLine(runs[run])]
      /\ UNCHANGED <<pc, report, runInfo, counts, exitCode>>
  BY DEF WriteLine
<1>2. /\ TypeOK /\ SetupIsFirst /\ LateIsBehind /\ ReportIsOwn /\ LinesKnown /\ CountsKnown
      /\ SummaryIsLate /\ SummaryKnown /\ StampKnown /\ InfoIsOfOneRun
  BY DEF IInv
<1>3. /\ runs \in Seq(Run) /\ run \in Nat /\ run \in 1..run /\ run > 0 /\ run \in 1..MaxRuns
      /\ \A k \in 1..run : runs[k] \in Run
  BY <1>1, <1>2, Shapes, RunInfoAssumption DEF TypeOK
<1> DEFINE late == IF pc = "testing" THEN runs[run].late ELSE runs[run].late + 1
           rec == WithLine(runs[run])
<1>4. /\ runs' \in Seq(Run) /\ run' = run
      /\ \A k \in (1..run) \ {run} : runs'[k] = runs[k]
      /\ runs'[run] = rec
  <2>1. runs[run] \in Run
    BY <1>3
  <2>2. rec \in Run
    BY <2>1, WithLineRun
  <2>3. runs' = [runs EXCEPT ![run] = rec]
    BY <1>1
  <2> HIDE DEF rec
  <2>4. runs' \in Seq(Run) /\ Len(runs') = Len(runs)
    <3>1. runs \in Seq(Run) /\ run \in DOMAIN runs
      BY <1>3 DEF run
    <3> QED
      BY <2>2, <2>3, <3>1
  <2>5. /\ \A k \in (1..run) \ {run} : runs'[k] = runs[k]
        /\ runs'[run] = rec
    <3>1. DOMAIN runs = 1..run
      BY <1>3 DEF run
    <3> QED
      BY <1>3, <2>3, <3>1
  <2> QED
    BY <2>4, <2>5 DEF run
<1>5. /\ runs'[run].command = runs[run].command /\ runs'[run].wiped = runs[run].wiped
      /\ runs'[run].stamp = runs[run].stamp /\ runs'[run].wrote = runs[run].wrote + 1
      /\ runs'[run].late = late
      /\ runs[run].wrote \in Nat /\ runs[run].late \in Nat
  <2>1. runs[run] \in Run
    BY <1>3
  <2> QED
    BY <1>4, <2>1, WithLineRun
<1>6. cleanup \in Seq(1..MaxRuns) /\ cleanup' \in Seq(1..MaxRuns) /\ Len(cleanup) \in Nat
      /\ Len(cleanup') = Len(cleanup) + 1 /\ cleanup'[Len(cleanup) + 1] = run
      /\ \A i \in 1..Len(cleanup) : cleanup'[i] = cleanup[i]
  BY <1>1, <1>2, <1>3 DEF TypeOK
<1>7. TypeOK'
  BY <1>1, <1>2, <1>3, <1>4, <1>6 DEF TypeOK, Run
<1>8. \A k \in 1..run : /\ runs'[k].stamp = runs[k].stamp /\ runs'[k].wiped = runs[k].wiped
                        /\ runs'[k].command = runs[k].command
                        /\ Removed(k)' = Removed(k) /\ Replaces(k)' = Replaces(k)
  BY <1>4, <1>5 DEF Removed, Replaces
<1> HIDE DEF rec
<1>9. SetupIsFirst' /\ LateIsBehind' /\ ReportIsOwn' /\ GreenIsOwn'
  <2>1. LateIsBehind'
    BY <1>1, <1>2, <1>3, <1>4, <1>5 DEF LateIsBehind, command
  <2> QED
    BY <1>1, <1>2, <1>3, <1>4, <1>5, <2>1 DEF SetupIsFirst, ReportIsOwn, GreenIsOwn, command
<1>10. LinesKnown'
  <2>1. /\ runs[run].wrote \in 0..Len(cleanup)
        /\ \A i \in 1..Len(cleanup) : cleanup[i] = run <=> i > Len(cleanup) - runs[run].wrote
        /\ \A i \in 1..Len(cleanup) :
             cleanup[i] <= run /\ \A r \in (cleanup[i] + 1)..run : ~Removed(r)
    BY <1>2, <1>3 DEF LinesKnown, LinesOf
  <2>2. ASSUME NEW i \in 1..Len(cleanup')
        PROVE  /\ cleanup'[i] = run <=> i > Len(cleanup') - (runs[run].wrote + 1)
               /\ cleanup'[i] <= run /\ \A r \in (cleanup'[i] + 1)..run : ~Removed(r)'
    <3>1. CASE i \in 1..Len(cleanup)
      <4>1. cleanup[i] \in Nat /\ cleanup[i] >= 1
        BY <1>6, <3>1, RunInfoAssumption
      <4>2. \A r \in (cleanup[i] + 1)..run : r \in 1..run
        BY <1>3, <4>1
      <4> QED
        BY <1>6, <1>8, <2>1, <3>1, <4>2
    <3>2. CASE i = Len(cleanup) + 1
      BY <1>3, <1>5, <1>6, <2>1, <3>2
    <3> QED
      BY <1>6, <3>1, <3>2
  <2>3. runs[run].wrote + 1 \in 0..Len(cleanup')
    BY <1>5, <1>6, <2>1
  <2>4. LinesOf(cleanup, run, runs[run].wrote)'
    BY <1>4, <1>5, <2>2, <2>3 DEF LinesOf
  <2> QED
    BY <1>3, <1>4, <2>4 DEF LinesKnown
<1>11. CountsKnown'
  <2> SUFFICES ASSUME pc = "polling"
               PROVE  LinesOf(counts, run, runs[run].wrote - runs[run].late)'
    BY <1>1 DEF CountsKnown
  <2>1. LinesOf(counts, run, runs[run].wrote - runs[run].late)
    BY <1>2 DEF CountsKnown
  <2>2. runs'[run].wrote - runs'[run].late = runs[run].wrote - runs[run].late
    BY <1>5
  <2>3. \A i \in 1..Len(counts) : \A r \in (counts[i] + 1)..run : r \in 1..run
    <3>1. \A i \in 1..Len(counts) : counts[i] \in Nat /\ counts[i] >= 1
      BY <1>2, RunInfoAssumption DEF TypeOK
    <3> QED
      BY <1>3, <3>1
  <2> QED
    BY <1>1, <1>4, <1>8, <2>1, <2>2, <2>3 DEF LinesOf
<1>12. Summarised' = Summarised /\ runInfo' = runInfo
       /\ (Summarised => runInfo.nodes.run \in 1..run)
  <2>1. Summarised => runInfo.nodes.run \in 1..MaxRuns
    BY <1>2 DEF TypeOK, Summarised, File, Nodes
  <2> QED
    BY <1>1, <1>2, <1>3, <2>1, RunInfoAssumption DEF SummaryIsLate, Summarised
<1>13. Summarised => \A k \in 1..runInfo.nodes.run :
         /\ k \in 1..run
         /\ runs'[k].wrote - runs'[k].late = runs[k].wrote - runs[k].late
  <2> SUFFICES ASSUME Summarised, NEW k \in 1..runInfo.nodes.run
               PROVE  k \in 1..run /\ runs'[k].wrote - runs'[k].late = runs[k].wrote - runs[k].late
    OBVIOUS
  <2>1. k \in 1..run
    BY <1>3, <1>12
  <2>2. k = run => pc # "testing"
    BY <1>2, <1>3, <1>12 DEF SummaryIsLate
  <2>3. CASE k = run
    <3>1. runs'[run].late = runs[run].late + 1
      BY <1>5, <2>2, <2>3
    <3> QED
      BY <1>5, <2>1, <2>3, <3>1
  <2>4. CASE k # run
    BY <1>4, <2>1, <2>4
  <2> QED
    BY <2>3, <2>4
<1>14. SummaryIsLate' /\ SummaryKnown' /\ SummaryStamped'
  <2>1. SummaryIsLate'
    BY <1>1, <1>2, <1>4, <1>12 DEF SummaryIsLate
  <2>2. Summarised => runInfo.nodes.run <= run
    BY <1>2 DEF SummaryIsLate
  <2>3. SummaryKnown'
    BY <1>2, <1>8, <1>12, <1>13, <2>2, SummaryKept
  <2>4. SummaryStamped'
    BY <1>2, <1>8, <1>12, <1>13, InfoKept
  <2> QED
    BY <2>1, <2>3, <2>4
<1>15. InfoIsOfOneRun'
  BY <1>1, <1>2, <1>4, <1>5, <1>14 DEF InfoIsOfOneRun, SummaryStamped
<1>16. StampKnown'
  <2> SUFFICES ASSUME runInfo \notin {None, Garbled}, runInfo.stamp # None
               PROVE  runInfo.stamp <= run /\ \A r \in (runInfo.stamp + 1)..run : ~Replaces(r)'
    BY <1>1, <1>4 DEF StampKnown
  <2>1. runInfo.stamp \in Nat /\ runInfo.stamp >= 1
    BY <1>2, RunInfoAssumption DEF TypeOK, File
  <2>2. \A r \in (runInfo.stamp + 1)..run : r \in 1..run
    BY <1>3, <2>1
  <2> QED
    BY <1>2, <1>8, <2>2 DEF StampKnown
<1> QED
  BY <1>7, <1>9, <1>10, <1>11, <1>14, <1>15, <1>16 DEF IInv

\* Teardown: the lines are added up, and the summary joins the stamp.
LEMMA TotalsStep ==
  ASSUME IInv, AddUp \/ mochaGlobalTeardown
  PROVE  IInv'
<1>1. /\ UNCHANGED <<runs, report, cleanup, exitCode>> /\ run' = run
      /\ pc \in {"testing", "polling"} /\ pc' \in {"polling", "reporting"}
  BY DEF AddUp, mochaGlobalTeardown, run
<1>2. /\ TypeOK /\ ReportIsOwn /\ LateIsBehind /\ LinesKnown /\ CountsKnown /\ SummaryIsLate
      /\ SummaryKnown /\ StampKnown /\ InfoIsOfOneRun
  BY DEF IInv
<1>3. /\ run \in Nat /\ run > 0 /\ run \in 1..MaxRuns
      /\ None \notin File /\ Garbled \notin File /\ None # Garbled
  BY <1>1, <1>2, Shapes, RunInfoAssumption DEF TypeOK
<1>4. SetupIsFirst' /\ LateIsBehind' /\ ReportIsOwn' /\ GreenIsOwn' /\ LinesKnown'
  BY <1>1, <1>2 DEF SetupIsFirst, LateIsBehind, ReportIsOwn, GreenIsOwn, LinesKnown, LinesOf,
                    Removed, command
<1>5. CASE AddUp
  <2>1. runInfo' = runInfo /\ pc = "testing" /\ counts' \in {counts, cleanup}
        /\ (pc' = "polling" => counts' = cleanup)
    BY <1>5 DEF AddUp
  <2>2. TypeOK'
    BY <1>1, <1>2, <1>3, <2>1 DEF TypeOK
  <2>3. CountsKnown'
    <3>1. /\ LinesOf(cleanup, run, runs[run].wrote)
          /\ runs[run].wrote - runs[run].late = runs[run].wrote
      <4>1. runs[run] \in Run /\ runs[run].late = 0
        BY <1>2, <1>3, <2>1, Shapes DEF LateIsBehind
      <4> QED
        BY <1>2, <1>3, <4>1 DEF LinesKnown, Run
    <3> QED
      BY <1>1, <2>1, <3>1 DEF CountsKnown, LinesOf, Removed
  <2>4. SummaryIsLate' /\ SummaryKnown' /\ StampKnown' /\ InfoIsOfOneRun'
    BY <1>1, <1>2, <2>1 DEF SummaryIsLate, SummaryKnown, StampKnown, InfoIsOfOneRun, LinesOf,
                            Removed, Replaces, Summarised
  <2> QED
    BY <1>4, <2>2, <2>3, <2>4 DEF IInv
<1>6. CASE mochaGlobalTeardown /\ runInfo # Garbled /\ runInfo' = WithNodes(runInfo)
  <2>1. pc = "polling" /\ pc' = "reporting" /\ counts' = counts
    BY <1>6 DEF mochaGlobalTeardown
  <2> DEFINE s == IF runInfo = None THEN None ELSE runInfo.stamp
  <2>2. runInfo' = [stamp |-> s, nodes |-> [run |-> run, lines |-> counts]]
    BY <1>6 DEF WithNodes, Summary
  <2>3. s \in 1..MaxRuns \cup {None}
    BY <1>2, <1>6 DEF TypeOK, File
  <2>4. [run |-> run, lines |-> counts] \in Nodes /\ runInfo' \in File
    BY <1>2, <1>3, <2>2, <2>3 DEF TypeOK, Nodes, File
  <2>5. runs[run].stamp = "done" => s = run
    BY <1>2, <1>3, <1>6 DEF InfoIsOfOneRun
  <2>6. s # None => s <= run /\ \A r \in (s + 1)..run : ~Replaces(r)
    BY <1>2, <1>6 DEF StampKnown
  <2>7. s # None => s \in Nat
    BY <2>3
  <2> HIDE DEF s
  <2>8. /\ runInfo'.stamp = s /\ runInfo'.nodes.run = run /\ runInfo'.nodes.lines = counts
        /\ runInfo' # None
    BY <1>3, <2>2, <2>4
  <2>9. TypeOK'
    BY <1>1, <1>2, <1>3, <2>1, <2>4 DEF TypeOK
  <2>10. CountsKnown' /\ SummaryIsLate' /\ StampKnown'
    BY <1>1, <1>3, <2>1, <2>6, <2>8 DEF CountsKnown, SummaryIsLate, StampKnown, Replaces
  <2>11. SummaryKnown'
    BY <1>1, <1>2, <2>1, <2>8 DEF SummaryKnown, CountsKnown, LinesOf, Removed
  <2>12. InfoIsOfOneRun'
    <3>1. s # run => /\ runs[run].stamp # "done"
                     /\ s # None => /\ s < run
                                    /\ \A r \in (s + 1)..run : ~runs[r].wiped /\ runs[r].stamp # "done"
      BY <1>3, <2>5, <2>6, <2>7 DEF Replaces
    <3> QED
      BY <1>1, <2>5, <2>8, <3>1 DEF InfoIsOfOneRun
  <2> QED
    BY <1>4, <2>9, <2>10, <2>11, <2>12 DEF IInv
<1>7. CASE mochaGlobalTeardown /\ runInfo' \in {runInfo, Garbled}
  <2>1. pc = "polling" /\ pc' = "reporting" /\ counts' = counts
    BY <1>7 DEF mochaGlobalTeardown
  <2>2. Summarised' => Summarised /\ runInfo' = runInfo
    BY <1>7 DEF Summarised
  <2>3. TypeOK'
    BY <1>1, <1>2, <1>3, <1>7, <2>1 DEF TypeOK
  <2>4. CountsKnown' /\ SummaryIsLate' /\ StampKnown' /\ InfoIsOfOneRun'
    BY <1>1, <1>2, <1>7, <2>1, <2>2
       DEF CountsKnown, SummaryIsLate, StampKnown, Replaces, InfoIsOfOneRun
  <2>5. SummaryKnown'
    BY <1>1, <1>2, <2>2 DEF SummaryKnown, LinesOf, Removed
  <2> QED
    BY <1>4, <2>3, <2>4, <2>5 DEF IInv
<1> QED
  BY <1>5, <1>6, <1>7 DEF mochaGlobalTeardown

\* Every step keeps the invariant.
THEOREM RunInfoStep == IInv /\ [Next]_vars => IInv'
<1> SUFFICES ASSUME IInv, [Next]_vars PROVE IInv'
  OBVIOUS
<1>1. CASE UNCHANGED vars
  BY <1>1 DEF vars, IInv, TypeOK, SetupIsFirst, LateIsBehind, ReportIsOwn, LinesKnown,
              CountsKnown, SummaryIsLate, SummaryKnown, StampKnown, GreenIsOwn, InfoIsOfOneRun,
              LinesOf, Removed, Replaces, Summarised, run, command
<1> QED
  BY <1>1, StartStep, EndStep, StampStep, LineStep, TotalsStep DEF Next

\* What is known of a summary's lines are the totals the property states.
LEMMA TotalsFollow == IInv => TotalsAreExact
<1> SUFFICES ASSUME IInv, Summarised PROVE TotalsAreExact
  BY DEF TotalsAreExact
<1> DEFINE n == runInfo.nodes.run
           lines == runInfo.nodes.lines
           w == runs[n].wrote - runs[n].late
<1>1. TypeOK /\ SummaryIsLate /\ SummaryKnown /\ LateIsBehind
  BY DEF IInv
<1>2. n \in 1..run /\ lines \in Seq(1..MaxRuns) /\ DOMAIN lines = 1..Len(lines)
      /\ runs[n] \in Run
  <2>1. n \in 1..MaxRuns /\ lines \in Seq(1..MaxRuns) /\ n <= run
    BY <1>1 DEF TypeOK, Summarised, File, Nodes, SummaryIsLate
  <2>2. n \in 1..run
    BY <1>1, <2>1, Shapes, RunInfoAssumption
  <2> QED
    BY <1>1, <2>1, <2>2, Shapes
<1>3. LinesOf(lines, n, w)
  BY <1>1 DEF SummaryKnown
<1>4. Cardinality({i \in DOMAIN lines : lines[i] = n}) = w
  <2> HIDE DEF lines, n, w
  <2> QED
    BY <1>2, <1>3, LinesCounted
<1>5. runs[n].command = "test" => w = runs[n].wrote
  BY <1>1, <1>2 DEF LateIsBehind, Run
<1> QED
  BY <1>2, <1>3, <1>4, <1>5 DEF TotalsAreExact, LinesOf

\* For any number of runs, aborts, kills and partial failures of the writes: a
\* green gate is of its own run, the totals are the lines its run wrote in time
\* and those of earlier ones that could not be removed, and run-info.json is of
\* one run but where its stamp failed.
THEOREM RunInfoSafe == Spec => [](TypeOK /\ GreenIsOwn /\ TotalsAreExact /\ InfoIsOfOneRun)
<1>1. IInv => TypeOK /\ GreenIsOwn /\ TotalsAreExact /\ InfoIsOfOneRun
  BY TotalsFollow DEF IInv
<1> QED
  BY <1>1, RunInfoInit, RunInfoStep, PTL DEF Spec
=============================================================================
