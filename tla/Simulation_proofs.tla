------------------------- MODULE Simulation_proofs -------------------------
(***************************************************************************)
(* What is proved of a simulation as a whole, from outside and in time.    *)
(*                                                                         *)
(* From outside: the sweep's log is true of the result files and no        *)
(* simulation that fails leaves results, for every study, however many     *)
(* sweeps, simulations and kills there are; a report covers the pairs that *)
(* have results but those interrupted.  The instances a simulation runs    *)
(* with are those its configuration plans, on processors of their own; and *)
(* whatever the database of durations holds and whatever was asked before, *)
(* an iteration is given the duration its batch has on its own.            *)
(*                                                                         *)
(* In time: cancelling and rescheduling in the event loop, for every set of *)
(* instances, every set of durations, any trace and any end time.  Then the *)
(* life of one request, of any size: the cache follows it and its nodes run *)
(* in order, under every choice of when tasks run or are preempted.  Last  *)
(* what is measured on the way: the times of the nodes add up, and those of *)
(* the tiers and nodes decompose the response time, however long each step *)
(* takes.                                                                  *)
(***************************************************************************)
EXTENDS Sweep, Simulator, Metrics, FoldLaws

Rows == [point : Points, status : {"ok", "failed", "skipped"}]

ResultFiles == {"summary", "detailed"}

(* Where the sweep is in its loops.                                        *)
LoopInv ==
  /\ sweep.pc \in {"idle", "next", "wait", "orphan"}
  /\ sweep.number \in Nat
  /\ sweep.pc # "idle" =>
       /\ sweep.number > 0
       /\ sweep.split \in Splits
       /\ sweep.k \in Nat \ {0}
       /\ sweep.b \in 0 .. Len(Bandwidths)
       /\ sweep.rows \in Seq(Rows)
  /\ sweep.pc \in {"wait", "orphan"} => ~ AtEnd

(* No file is newer than the sweep, and details come with a summary.       *)
FilesInv ==
  /\ files \in [Points -> [summary : Nat, detailed : Nat]]
  /\ \A p \in Points :
       /\ files[p].summary <= sweep.number
       /\ files[p].detailed <= sweep.number
       /\ files[p].detailed # 0 => files[p].summary # 0

(* What the rows of sweep n say is true.                                   *)
RowTrue(row, n, dry) ==
  /\ row.status = "skipped" => files[row.point].summary # 0
  /\ row.status = "ok" /\ ~ dry => /\ files[row.point].summary >= n
                                   /\ files[row.point].detailed >= n

RowsTrue(rows, n, dry) == \A i \in DOMAIN rows : RowTrue(rows[i], n, dry)

LogInv ==
  /\ runlog.number \in Nat
  /\ runlog.rows \in Seq(Rows)
  /\ RowsTrue(runlog.rows, runlog.number, runlog.dry)
  /\ sweep.pc # "idle" => RowsTrue(sweep.rows, sweep.number, sweep.dry)

(* The order in which a process writes its files.                          *)
ProcessInv ==
  /\ phase \in {"idle", "build", "load", "allocate", "run", "results", "summary",
                "detailed", "allocations", "done", "failed", "killed"}
  /\ phase \in {"detailed", "allocations", "done"} => "summary" \in written
  /\ phase \in {"allocations", "done"} => "detailed" \in written
  /\ phase \notin {"detailed", "allocations", "done", "killed"} =>
       written \cap ResultFiles = {}

(* What the process of the sweep has written is at its point.              *)
RunningInv ==
  sweep.pc \in {"wait", "orphan"} =>
    /\ "summary" \in written => files[Here].summary = sweep.number
    /\ "detailed" \in written => files[Here].detailed = sweep.number

SplitInv ==
  \A row \in splitRows :
    row.status = "ok" => row.point \in Points /\ HasSummary(row.point)

StudyInv ==
  LoopInv /\ FilesInv /\ LogInv /\ ProcessInv /\ RunningInv /\ SplitInv
-----------------------------------------------------------------------------
(* What the loops of the script count is a point of the study.             *)
LEMMA PointsOfLoops ==
  ASSUME NEW split \in Splits, NEW k \in 1 .. Len(Workloads),
         NEW b \in 0 .. Len(Bandwidths)
  PROVE  PointAt(split, k, b) \in Points
<1>1. k \in DOMAIN Workloads
  BY StudyAssumption
<1> QED
  BY <1>1 DEF Points

(* In particular the point the script stands at.                           *)
LEMMA HereIsAPoint ==
  ASSUME LoopInv, sweep.pc # "idle", ~ AtEnd
  PROVE  Here \in Points
<1>1. Len(Workloads) \in Nat
  BY StudyAssumption
<1>2. sweep.k \in 1 .. Len(Workloads)
  BY <1>1 DEF LoopInv, AtEnd
<1> QED
  BY <1>2, PointsOfLoops DEF LoopInv, Here

(* A step of a simulation follows the order of its files.                  *)
LEMMA SimulationKeepsOrder ==
  ASSUME ProcessInv, Alive, SimulationStep
  PROVE  /\ ProcessInv'
         /\ written \subseteq written'
         /\ "detailed" \in written' \ written => "summary" \in written
<1>1. CASE Build(traces[config.trace])
  BY <1>1 DEF Build, Raise, ProcessInv, ResultFiles
<1>2. CASE LoadTrace
  BY <1>2 DEF LoadTrace, Raise, ProcessInv, ResultFiles
<1>3. CASE SpinUpInstance
  BY <1>3 DEF SpinUpInstance, Raise, ProcessInv, ResultFiles
<1>4. CASE StartRun
  BY <1>4 DEF StartRun, ProcessInv, ResultFiles
<1>5. CASE ScheduleRaises
  BY <1>5 DEF ScheduleRaises, Raise, ProcessInv, ResultFiles
<1>5a. CASE FinishTask
  BY <1>5a DEF FinishTask, Raise, ProcessInv, ResultFiles
<1>6. ASSUME NEW i \in DOMAIN instances, NEW batch \in Batches, Iterate(i, batch)
      PROVE  /\ phase = "run" /\ phase' \in {"run", "failed"}
             /\ written' = written
  BY <1>6 DEF Iterate, Raise
<1>7. CASE \E i \in DOMAIN instances, batch \in Batches : Iterate(i, batch)
  BY <1>6, <1>7 DEF ProcessInv, ResultFiles
<1>8. CASE \E n \in 0 .. Len(requests) : EndRun(n)
  BY <1>8 DEF EndRun, ProcessInv, ResultFiles
<1>9. CASE SaveNodes
  BY <1>9 DEF SaveNodes, Save, Raise, ProcessInv, ResultFiles
<1>10. CASE SaveSummary
  BY <1>10 DEF SaveSummary, Save, Raise, ProcessInv, ResultFiles
<1>11. CASE SaveDetailed
  BY <1>11 DEF SaveDetailed, Save, ProcessInv, ResultFiles
<1>12. CASE SaveAllocations
  BY <1>12 DEF SaveAllocations, Save, ProcessInv, ResultFiles
<1> QED
  BY <1>1, <1>2, <1>3, <1>4, <1>5, <1>5a, <1>7, <1>8, <1>9, <1>10, <1>11, <1>12
     DEF SimulationStep

(* Steps of the other scripts leave all of this alone.                     *)
LEMMA OthersKeep ==
  ASSUME StudyInv, UNCHANGED <<phase, written, sweep, runlog, files, splitRows>>
  PROVE  StudyInv'
  BY DEF StudyInv, LoopInv, FilesInv, LogInv, RowsTrue, RowTrue, HasSummary, ProcessInv,
         RunningInv, SplitInv, AtEnd, Here

(* The sweep goes to its next point with rows that are true of the files.  *)
LEMMA Advanced ==
  ASSUME StudyInv, sweep.pc # "idle", NEW more \in Seq(Rows), Advance(more),
         UNCHANGED <<files, runlog>>, RowsTrue(more, sweep.number, sweep.dry)
  PROVE  LoopInv' /\ FilesInv' /\ LogInv' /\ sweep'.pc = "next"
<1>1. /\ sweep'.pc = "next"
      /\ sweep'.number = sweep.number
      /\ sweep'.split = sweep.split
      /\ sweep'.dry = sweep.dry
      /\ sweep'.rows = more
      /\ sweep'.k \in {sweep.k, sweep.k + 1}
      /\ sweep'.b = IF sweep.b = Len(Bandwidths) THEN 0 ELSE sweep.b + 1
  BY DEF Advance
<1>2. Len(Bandwidths) \in Nat
  BY StudyAssumption
<1>3. LoopInv'
  BY <1>1, <1>2 DEF StudyInv, LoopInv
<1>4. FilesInv'
  BY <1>1 DEF StudyInv, FilesInv
<1>5. RowsTrue(sweep.rows, sweep.number, sweep.dry)'
  BY <1>1 DEF RowsTrue, RowTrue
<1>6. RowsTrue(runlog.rows, runlog.number, runlog.dry)'
  BY DEF StudyInv, LogInv, RowsTrue, RowTrue
<1> QED
  BY <1>1, <1>3, <1>4, <1>5, <1>6 DEF StudyInv, LogInv

(* A row that is true of the files is added to rows that are.              *)
LEMMA RowAdded ==
  ASSUME StudyInv, sweep.pc # "idle", ~ AtEnd,
         NEW status \in {"ok", "failed", "skipped"},
         AddRow(status), UNCHANGED <<files, runlog>>,
         status = "skipped" => files[Here].summary # 0,
         status = "ok" /\ ~ sweep.dry => /\ files[Here].summary >= sweep.number
                                         /\ files[Here].detailed >= sweep.number
  PROVE  LoopInv' /\ FilesInv' /\ LogInv' /\ sweep'.pc = "next"
<1> DEFINE row == [point |-> Here, status |-> status]
           more == Append(sweep.rows, row)
<1>1. row \in Rows
  BY HereIsAPoint DEF StudyInv, Rows
<1>2. sweep.rows \in Seq(Rows) /\ more \in Seq(Rows)
  BY <1>1 DEF StudyInv, LoopInv
<1>3. RowsTrue(sweep.rows, sweep.number, sweep.dry)
  BY DEF StudyInv, LogInv
<1>4. ASSUME NEW i \in DOMAIN more
      PROVE  RowTrue(more[i], sweep.number, sweep.dry)
  <2>1. CASE i = Len(sweep.rows) + 1
    <3>1. more[i] = row
      BY <1>1, <1>2, <2>1
    <3> QED
      BY <3>1 DEF RowTrue
  <2>2. CASE i # Len(sweep.rows) + 1
    <3>1. i \in DOMAIN sweep.rows /\ more[i] = sweep.rows[i]
      BY <1>1, <1>2, <1>4, <2>2
    <3> QED
      BY <3>1, <1>3 DEF RowsTrue
  <2> QED
    BY <2>1, <2>2
<1>5. RowsTrue(more, sweep.number, sweep.dry)
  BY <1>4 DEF RowsTrue
<1>6. Advance(more)
  BY DEF AddRow
<1> HIDE DEF more
<1> QED
  BY <1>2, <1>5, <1>6, Advanced
-----------------------------------------------------------------------------
(* A file becomes newer, or stays, when a simulation writes it.            *)
LEMMA SimulateKeeps == StudyInv /\ Simulate => StudyInv'
<1> SUFFICES ASSUME StudyInv, Simulate PROVE StudyInv'
  OBVIOUS
<1>1. /\ ProcessInv'
      /\ written \subseteq written'
      /\ "detailed" \in written' \ written => "summary" \in written
  BY SimulationKeepsOrder DEF StudyInv, Simulate
<1>2. UNCHANGED <<sweep, runlog, splitRows>>
  BY DEF Simulate
<1>3. ASSUME NEW p \in Points
      PROVE  /\ files'[p].summary = IF p \in Simulating /\ Newly("summary")
                                    THEN sweep.number ELSE files[p].summary
             /\ files'[p].detailed = IF p \in Simulating /\ Newly("detailed")
                                     THEN sweep.number ELSE files[p].detailed
  BY DEF Simulate
<1>4. files' \in [Points -> [summary : Nat, detailed : Nat]]
  <2>1. sweep.number \in Nat /\ files \in [Points -> [summary : Nat, detailed : Nat]]
    BY DEF StudyInv, LoopInv, FilesInv
  <2> QED
    BY <2>1 DEF Simulate
<1>5. LoopInv'
  BY <1>2 DEF StudyInv, LoopInv, AtEnd
<1>6. ASSUME NEW p \in Points
      PROVE  /\ files[p].summary \in Nat /\ files[p].detailed \in Nat
             /\ files'[p].summary >= files[p].summary
             /\ files'[p].summary <= sweep.number
             /\ files'[p].detailed >= files[p].detailed
             /\ files'[p].detailed <= sweep.number
             /\ files'[p].detailed # 0 => files'[p].summary # 0
  <2>1. /\ sweep.number \in Nat
        /\ files[p].summary \in Nat /\ files[p].detailed \in Nat
        /\ files[p].summary <= sweep.number
        /\ files[p].detailed <= sweep.number
        /\ files[p].detailed # 0 => files[p].summary # 0
    BY DEF StudyInv, LoopInv, FilesInv
  <2>2. p \in Simulating /\ Newly("detailed") => files[p].summary # 0
    <3> SUFFICES ASSUME p \in Simulating, Newly("detailed") PROVE files[p].summary # 0
      OBVIOUS
    <3>1. sweep.pc \in {"wait", "orphan"} /\ p = Here
      BY DEF Simulating
    <3>2. "summary" \in written
      BY <1>1 DEF Newly
    <3> QED
      BY <3>1, <3>2 DEF StudyInv, RunningInv, LoopInv
  <2>3. p \in Simulating => sweep.number > 0
    BY DEF Simulating, StudyInv, LoopInv
  <2> QED
    BY <1>3, <2>1, <2>2, <2>3
<1>7. FilesInv'
  BY <1>2, <1>4, <1>6 DEF FilesInv
<1>8. ASSUME NEW rows \in Seq(Rows), NEW n \in Nat, NEW dry, RowsTrue(rows, n, dry)
      PROVE  \A i \in DOMAIN rows :
               /\ rows[i].status = "skipped" => files'[rows[i].point].summary # 0
               /\ rows[i].status = "ok" /\ ~ dry =>
                    /\ files'[rows[i].point].summary >= n
                    /\ files'[rows[i].point].detailed >= n
  <2> TAKE i \in DOMAIN rows
  <2>1. rows[i] \in Rows
    BY <1>8
  <2>2. rows[i].point \in Points
    BY <2>1 DEF Rows
  <2>3. /\ files'[rows[i].point].summary \in Nat
        /\ files'[rows[i].point].detailed \in Nat
    BY <1>4, <2>2
  <2>4. RowTrue(rows[i], n, dry)
    BY <1>8 DEF RowsTrue
  <2>5. rows[i].status = "skipped" => files'[rows[i].point].summary # 0
    <3>1. rows[i].status = "skipped" => files[rows[i].point].summary # 0
      BY <2>4 DEF RowTrue
    <3> QED
      BY <1>6, <2>2, <2>3, <3>1
  <2>6. ASSUME rows[i].status = "ok", ~ dry
        PROVE  /\ files'[rows[i].point].summary >= n
               /\ files'[rows[i].point].detailed >= n
    <3>1. /\ files[rows[i].point].summary >= n
          /\ files[rows[i].point].detailed >= n
      BY <2>4, <2>6 DEF RowTrue
    <3>2. /\ files[rows[i].point].summary \in Nat /\ files[rows[i].point].detailed \in Nat
          /\ files'[rows[i].point].summary >= files[rows[i].point].summary
          /\ files'[rows[i].point].detailed >= files[rows[i].point].detailed
      BY <1>6, <2>2
    <3> DEFINE a == files[rows[i].point].summary
               b == files[rows[i].point].detailed
               x == files'[rows[i].point].summary
               y == files'[rows[i].point].detailed
    <3>3. /\ a \in Nat /\ b \in Nat /\ x \in Nat /\ y \in Nat
          /\ a >= n /\ b >= n /\ x >= a /\ y >= b
      BY <2>3, <3>1, <3>2
    <3> HIDE DEF a, b, x, y
    <3>4. x >= n /\ y >= n
      BY <3>3
    <3> QED
      BY <3>4 DEF x, y
  <2> QED
    BY <2>5, <2>6
<1>9. LogInv'
  <2>1. /\ runlog.number \in Nat /\ runlog.rows \in Seq(Rows)
        /\ RowsTrue(runlog.rows, runlog.number, runlog.dry)
        /\ sweep.number \in Nat
        /\ sweep.pc # "idle" => /\ sweep.rows \in Seq(Rows)
                               /\ RowsTrue(sweep.rows, sweep.number, sweep.dry)
    BY DEF StudyInv, LogInv, LoopInv
  <2>2. RowsTrue(runlog.rows, runlog.number, runlog.dry)'
    <3>1. \A i \in DOMAIN runlog.rows :
            LET row == runlog.rows[i]
            IN  /\ row.status = "skipped" => files'[row.point].summary # 0
                /\ row.status = "ok" /\ ~ runlog.dry =>
                     /\ files'[row.point].summary >= runlog.number
                     /\ files'[row.point].detailed >= runlog.number
      BY <1>8, <2>1
    <3>2. runlog' = runlog
      BY <1>2
    <3> QED
      BY <3>1, <3>2 DEF RowsTrue, RowTrue
  <2>3. sweep.pc # "idle" => RowsTrue(sweep.rows, sweep.number, sweep.dry)'
    <3> SUFFICES ASSUME sweep.pc # "idle"
                 PROVE  RowsTrue(sweep.rows, sweep.number, sweep.dry)'
      OBVIOUS
    <3>1. \A i \in DOMAIN sweep.rows :
            LET row == sweep.rows[i]
            IN  /\ row.status = "skipped" => files'[row.point].summary # 0
                /\ row.status = "ok" /\ ~ sweep.dry =>
                     /\ files'[row.point].summary >= sweep.number
                     /\ files'[row.point].detailed >= sweep.number
      BY <1>8, <2>1
    <3>2. sweep' = sweep
      BY <1>2
    <3> QED
      BY <3>1, <3>2 DEF RowsTrue, RowTrue
  <2> QED
    BY <1>2, <2>1, <2>2, <2>3 DEF LogInv
<1>10. RunningInv'
  <2> SUFFICES ASSUME sweep.pc \in {"wait", "orphan"}
               PROVE  /\ "summary" \in written' => files'[Here].summary = sweep.number
                      /\ "detailed" \in written' => files'[Here].detailed = sweep.number
    BY <1>2 DEF RunningInv, Here
  <2>1. Here \in Points
    BY HereIsAPoint DEF StudyInv, LoopInv
  <2>2. Here \in Simulating
    BY DEF Simulating
  <2> QED
    BY <1>3, <2>1, <2>2 DEF StudyInv, RunningInv, Newly
<1>11. SplitInv'
  <2> SUFFICES ASSUME NEW row \in splitRows, row.status = "ok"
               PROVE  row.point \in Points /\ files'[row.point].summary # 0
    BY <1>2 DEF SplitInv, HasSummary
  <2>1. row.point \in Points /\ files[row.point].summary # 0
    BY DEF StudyInv, SplitInv, HasSummary
  <2>2. files'[row.point].summary \in Nat
    BY <1>4, <2>1
  <2> QED
    BY <1>6, <2>1, <2>2
<1> QED
  BY <1>1, <1>5, <1>7, <1>9, <1>10, <1>11 DEF StudyInv

(* Before the study there are no files and no log, and the invariant       *)
(* holds.                                                                  *)
LEMMA StudyStarts == StudyInit => StudyInv
<1> SUFFICES ASSUME StudyInit PROVE StudyInv
  OBVIOUS
<1>1. /\ sweep.pc = "idle" /\ sweep.number = 0
      /\ runlog.number = 0 /\ runlog.rows = <<>>
      /\ files = [p \in Points |-> [summary |-> 0, detailed |-> 0]]
      /\ phase = "idle" /\ written = {} /\ splitRows = {}
  BY DEF StudyInit, NoSweep, NoFiles, NotLaunched
<1>2. LoopInv /\ FilesInv
  BY <1>1 DEF LoopInv, FilesInv
<1>3. LogInv
  BY <1>1 DEF LogInv, RowsTrue
<1> QED
  BY <1>1, <1>2, <1>3 DEF StudyInv, ProcessInv, RunningInv, SplitInv

(* A new process has written nothing yet.                                  *)
LEMMA LaunchKeeps ==
  ASSUME StudyInv, NEW c, Launch(c), UNCHANGED <<files, runlog, splitRows>>,
         \/ sweep' = sweep /\ sweep.pc = "idle"
         \/ sweep' = [sweep EXCEPT !.pc = "wait"] /\ sweep.pc = "next" /\ ~ AtEnd
  PROVE  StudyInv'
<1>1. phase' = "build" /\ written' = {}
  BY DEF Launch
<1>2. CASE sweep' = sweep /\ sweep.pc = "idle"
  BY <1>1, <1>2 DEF StudyInv, LoopInv, FilesInv, LogInv, RowsTrue, RowTrue, HasSummary,
                    ProcessInv, RunningInv, SplitInv
<1>3. CASE sweep' = [sweep EXCEPT !.pc = "wait"] /\ sweep.pc = "next" /\ ~ AtEnd
  <2>1. /\ sweep.pc # "idle" /\ sweep'.pc \in {"wait", "next"}
        /\ sweep'.number = sweep.number /\ sweep'.split = sweep.split
        /\ sweep'.k = sweep.k /\ sweep'.b = sweep.b
        /\ sweep'.rows = sweep.rows /\ sweep'.dry = sweep.dry
    BY <1>3
  <2>2. LoopInv' /\ FilesInv'
    BY <1>3, <2>1 DEF StudyInv, LoopInv, FilesInv, AtEnd
  <2>3. LogInv'
    BY <2>1 DEF StudyInv, LogInv, RowsTrue, RowTrue
  <2> QED
    BY <1>1, <2>2, <2>3 DEF StudyInv, ProcessInv, RunningInv, SplitInv, HasSummary
<1> QED
  BY <1>2, <1>3

(* Every step of the scripts and of the runs they start preserves it.      *)
LEMMA StudyStep == StudyInv /\ [StudyNext]_svars => StudyInv'
<1> SUFFICES ASSUME StudyInv, [StudyNext]_svars PROVE StudyInv'
  OBVIOUS
<1>1. CASE GenerateTraces
  BY <1>1, OthersKeep DEF GenerateTraces, procvars
<1>1a. CASE GenerateHandTrace
  BY <1>1a, OthersKeep DEF GenerateHandTrace, procvars
<1>1b. CASE GenerateRateTrace
  BY <1>1b, OthersKeep DEF GenerateRateTrace, procvars
<1>1c. CASE Download
  BY <1>1c, OthersKeep DEF Download, procvars, studyvars
<1>1d. CASE OtherScripts
  BY <1>1d, OthersKeep DEF OtherScripts, procvars, studyvars
<1>2. CASE LaunchByHand
  BY <1>2, LaunchKeeps DEF LaunchByHand, NoSweep, studyvars
<1>3. CASE StartSweep
  <2>1. PICK split \in Splits, systems \in SystemChoices,
             force \in BOOLEAN, dry \in BOOLEAN :
          sweep' = [pc |-> "next", number |-> sweep.number + 1, split |-> split,
                    systems |-> systems, force |-> force, dry |-> dry,
                    k |-> 1, b |-> 0, rows |-> <<>>]
    BY <1>3 DEF StartSweep
  <2>2. /\ sweep.pc = "idle"
        /\ UNCHANGED <<phase, written, runlog, files, splitRows>>
    BY <1>3 DEF StartSweep, procvars
  <2>3. /\ sweep'.pc = "next" /\ sweep'.number = sweep.number + 1
        /\ sweep'.split \in Splits
        /\ sweep'.k = 1 /\ sweep'.b = 0 /\ sweep'.rows = <<>>
    BY <2>1
  <2>4. Len(Bandwidths) \in Nat
    BY StudyAssumption
  <2>5. LoopInv' /\ FilesInv'
    BY <2>2, <2>3, <2>4 DEF StudyInv, LoopInv, FilesInv
  <2>6. LogInv'
    BY <2>2, <2>3 DEF StudyInv, LogInv, RowsTrue, RowTrue
  <2> QED
    BY <2>2, <2>3, <2>5, <2>6 DEF StudyInv, ProcessInv, RunningInv, SplitInv, HasSummary
<1>4. ASSUME NEW status \in {"ok", "failed", "skipped"},
             sweep.pc # "idle", ~ AtEnd, AddRow(status),
             UNCHANGED <<phase, written, runlog, files, splitRows>>,
             status = "skipped" => files[Here].summary # 0,
             status = "ok" /\ ~ sweep.dry => /\ files[Here].summary >= sweep.number
                                             /\ files[Here].detailed >= sweep.number
      PROVE  StudyInv'
  <2>1. LoopInv' /\ FilesInv' /\ LogInv' /\ sweep'.pc = "next"
    BY <1>4, RowAdded
  <2> QED
    BY <1>4, <2>1 DEF StudyInv, ProcessInv, RunningInv, SplitInv, HasSummary
<1>4a. CASE PassOver
  <2>1. /\ sweep.pc = "next" /\ Advance(sweep.rows)
        /\ UNCHANGED <<phase, written, runlog, files, splitRows>>
    BY <1>4a DEF PassOver, procvars
  <2>2. sweep.rows \in Seq(Rows) /\ RowsTrue(sweep.rows, sweep.number, sweep.dry)
    BY <2>1 DEF StudyInv, LoopInv, LogInv
  <2>3. LoopInv' /\ FilesInv' /\ LogInv' /\ sweep'.pc = "next"
    BY <2>1, <2>2, Advanced
  <2> QED
    BY <2>1, <2>3 DEF StudyInv, ProcessInv, RunningInv, SplitInv, HasSummary
<1>5. CASE SkipPoint
  BY <1>4, <1>5 DEF SkipPoint, Wanted, procvars
<1>6. CASE DryRun
  BY <1>4, <1>6 DEF DryRun, procvars
<1>7. CASE LaunchPoint
  BY <1>7, LaunchKeeps DEF LaunchPoint
<1>8. CASE PointEnds
  <2>1. /\ sweep.pc = "wait" /\ AddRow(Status)
        /\ UNCHANGED <<phase, written, runlog, files, splitRows>>
    BY <1>8 DEF PointEnds, procvars
  <2>2. Status \in {"ok", "failed", "skipped"} /\ Status # "skipped"
    BY DEF Status
  <2>3. ~ AtEnd /\ sweep.number \in Nat
    BY <2>1 DEF StudyInv, LoopInv
  <2>4. Status = "ok" => /\ files[Here].summary >= sweep.number
                         /\ files[Here].detailed >= sweep.number
    BY <2>1, <2>3 DEF Status, StudyInv, ProcessInv, RunningInv
  <2> QED
    BY <1>4, <2>1, <2>2, <2>3, <2>4
<1>9. CASE WriteRunlog
  <2>1. /\ sweep.pc = "next" /\ sweep'.pc = "idle" /\ sweep'.number = sweep.number
        /\ runlog'.number = sweep.number /\ runlog'.rows = sweep.rows
        /\ runlog'.dry = sweep.dry
        /\ UNCHANGED <<phase, written, files, splitRows>>
    BY <1>9 DEF WriteRunlog, NoSweep, procvars
  <2>2. LoopInv' /\ FilesInv'
    BY <2>1 DEF StudyInv, LoopInv, FilesInv
  <2>3. LogInv'
    BY <2>1 DEF StudyInv, LoopInv, LogInv, RowsTrue, RowTrue
  <2> QED
    BY <2>1, <2>2, <2>3 DEF StudyInv, ProcessInv, RunningInv, SplitInv, HasSummary
<1>10. CASE Simulate
  BY <1>10, SimulateKeeps
<1>11. CASE KillSimulation
  <2>1. /\ phase' = "killed" /\ UNCHANGED <<written, runlog, files, splitRows>>
    BY <1>11 DEF KillSimulation, Kill
  <2>2. ProcessInv' /\ SplitInv'
    BY <2>1 DEF StudyInv, ProcessInv, SplitInv, HasSummary
  <2>3. CASE sweep' = sweep
    BY <2>1, <2>2, <2>3 DEF StudyInv, LoopInv, FilesInv, LogInv, RowsTrue, RowTrue,
                            RunningInv, AtEnd, Here
  <2>4. CASE sweep' = [NoSweep EXCEPT !.number = sweep.number]
    <3>1. sweep'.pc = "idle" /\ sweep'.number = sweep.number
      BY <2>4 DEF NoSweep
    <3> QED
      BY <2>1, <2>2, <3>1 DEF StudyInv, LoopInv, FilesInv, LogInv, RowsTrue, RowTrue,
                              RunningInv
  <2> QED
    BY <1>11, <2>3, <2>4 DEF KillSimulation
<1>11a. ASSUME sweep' = [NoSweep EXCEPT !.number = sweep.number],
               UNCHANGED <<phase, written, runlog, files, splitRows>>
        PROVE  StudyInv'
  <2>1. sweep'.pc = "idle" /\ sweep'.number = sweep.number
    BY <1>11a DEF NoSweep
  <2> QED
    BY <1>11a, <2>1 DEF StudyInv, LoopInv, FilesInv, LogInv, RowsTrue, RowTrue, ProcessInv,
                        RunningInv, SplitInv, HasSummary
<1>11b. CASE KillSweep
  <2>1. UNCHANGED <<phase, written, runlog, files, splitRows>>
    BY <1>11b DEF KillSweep, procvars
  <2>2. CASE sweep.pc = "wait" /\ sweep' = [sweep EXCEPT !.pc = "orphan"]
    <3>1. /\ sweep.pc # "idle" /\ ~ AtEnd /\ sweep'.pc \in {"orphan", "wait"}
          /\ sweep'.number = sweep.number /\ sweep'.split = sweep.split
          /\ sweep'.k = sweep.k /\ sweep'.b = sweep.b
          /\ sweep'.rows = sweep.rows /\ sweep'.dry = sweep.dry
      BY <2>2 DEF StudyInv, LoopInv
    <3>2. LoopInv' /\ FilesInv'
      BY <2>1, <2>2, <3>1 DEF StudyInv, LoopInv, FilesInv, AtEnd
    <3>3. LogInv'
      BY <2>1, <3>1 DEF StudyInv, LogInv, RowsTrue, RowTrue
    <3>4. RunningInv'
      BY <2>1, <2>2, <3>1 DEF StudyInv, RunningInv, Here
    <3> QED
      BY <2>1, <3>2, <3>3, <3>4 DEF StudyInv, ProcessInv, SplitInv, HasSummary
  <2> QED
    BY <1>11a, <1>11b, <2>1, <2>2 DEF KillSweep
<1>11c. CASE OrphanEnds
  BY <1>11a, <1>11c DEF OrphanEnds, procvars
<1>12. CASE StartAggregation
  BY <1>12, OthersKeep DEF StartAggregation, procvars
<1>13. CASE ReadPair
  BY <1>13, OthersKeep DEF ReadPair, procvars
<1>14. CASE ReadDetails
  BY <1>14, OthersKeep DEF ReadDetails, procvars
<1>15. CASE WritePairs
  BY <1>15, OthersKeep DEF WritePairs, procvars
<1>16. CASE WriteReport
  <2>1. UNCHANGED <<phase, written, sweep, runlog, files, splitRows>>
    BY <1>16 DEF WriteReport, procvars
  <2>2. QED BY <2>1, OthersKeep
<1>17. CASE AggregateSplits
  <2>1. UNCHANGED <<phase, written, sweep, runlog, files>>
    BY <1>17 DEF AggregateSplits, procvars
  <2>2. PICK k \in DOMAIN Workloads, b \in DOMAIN Bandwidths :
          splitRows' = {[point  |-> PointAt(split, k, b),
                         status |-> IF /\ Bandwidths[b] \in WholeBandwidths
                                       /\ \A c \in {0, b} : HasDetails(PointAt(split, k, c))
                                    THEN "ok" ELSE "missing"] : split \in Splits}
    BY <1>17 DEF AggregateSplits
  <2>3. k \in 1 .. Len(Workloads) /\ b \in 0 .. Len(Bandwidths)
    BY StudyAssumption
  <2>4. ASSUME NEW row \in splitRows', row.status = "ok"
        PROVE  row.point \in Points /\ files[row.point].summary # 0
    <3>1. PICK split \in Splits :
            row = [point  |-> PointAt(split, k, b),
                   status |-> IF /\ Bandwidths[b] \in WholeBandwidths
                                 /\ \A c \in {0, b} : HasDetails(PointAt(split, k, c))
                              THEN "ok" ELSE "missing"]
      BY <2>2, <2>4
    <3>2. row.point = PointAt(split, k, b) /\ HasDetails(row.point)
      BY <2>4, <3>1
    <3>3. row.point \in Points
      BY <2>3, <3>2, PointsOfLoops
    <3> QED
      BY <3>2, <3>3 DEF HasDetails, StudyInv, FilesInv
  <2>5. SplitInv'
    BY <2>1, <2>4 DEF SplitInv, HasSummary
  <2> QED
    BY <2>1, <2>5 DEF StudyInv, LoopInv, FilesInv, LogInv, RowsTrue, RowTrue, ProcessInv,
                      RunningInv, AtEnd, Here
<1>18. CASE UNCHANGED svars
  BY <1>18, OthersKeep DEF svars, procvars, studyvars
<1> QED
  BY <1>1, <1>1a, <1>1b, <1>1c, <1>1d, <1>2, <1>3, <1>4a, <1>5, <1>6, <1>7, <1>8, <1>9,
     <1>10, <1>11, <1>11b, <1>11c, <1>12, <1>13, <1>14, <1>15, <1>16, <1>17, <1>18
     DEF StudyNext, Study

(* What the log says is true of the result files, now and later: a point   *)
(* that was skipped has a summary, and one that ran has files at least as  *)
(* new as the sweep (run_param_sweep.py).                                  *)
THEOREM LogAlwaysTrue == StudySpec => []RunlogIsTrue
<1>1. StudyInv => RunlogIsTrue
  BY DEF StudyInv, LogInv, RowsTrue, RowTrue, RunlogIsTrue, HasSummary
<1> QED
  BY <1>1, StudyStarts, StudyStep, PTL DEF StudySpec

(* A simulation that fails has written no results, and a row of the split  *)
(* summary that is ok has a summary as well (simulator.py, save_results).  *)
THEOREM NoHalfResults == StudySpec => []ResultsAreWhole
<1>1. StudyInv => ResultsAreWhole
  BY DEF StudyInv, ProcessInv, SplitInv, ResultsAreWhole, ResultFiles
<1> QED
  BY <1>1, StudyStarts, StudyStep, PTL DEF StudySpec
-----------------------------------------------------------------------------
(* A row of the pairs table that is ok has its ratio, or was interrupted.  *)
PairRows ==
  {row \in [status : {"ok", "missing"}, ratio : BOOLEAN, interrupted : BOOLEAN] :
     row.status = "ok" => row.ratio \/ row.interrupted}

Aggregations ==
  [pc : {"idle", "pair", "details"}, base : BOOLEAN, todo : Seq(Points),
   rows : Seq(PairRows)]

(* A point with a summary and without details was cut, or is just there.   *)
CutInv ==
  /\ phase = "detailed" => "detailed" \notin written
  /\ \A p \in Points : HasSummary(p) /\ ~ HasDetails(p) => p \in Interrupted

(* What the aggregation has read is still true of the files; in particular *)
(* summaries stay.                                                         *)
ReadInv ==
  /\ agg \in Aggregations
  /\ \A i \in DOMAIN agg.todo :
       /\ Baseline(agg.todo[i].workload) \in Points
       /\ agg.base => HasSummary(Baseline(agg.todo[i].workload))
  /\ agg.pc = "details" => agg.todo # <<>> /\ agg.base /\ HasSummary(Head(agg.todo))

TablesInv == pairs \in Seq(PairRows) /\ ReportCoversPairs

CoverInv == CutInv /\ ReadInv /\ TablesInv
-----------------------------------------------------------------------------
(* Which steps of a simulation come between its two files.                 *)
LEMMA SimulationCuts ==
  ASSUME ProcessInv, CutInv, SimulationStep
  PROVE  /\ phase' = "detailed" => "detailed" \notin written'
         /\ Newly("summary") => phase' = "detailed"
         /\ phase = "detailed" => Newly("detailed")
<1> USE DEF Newly
<1>1. CASE SaveSummary
  BY <1>1 DEF SaveSummary, Save, Raise, ProcessInv, ResultFiles
<1>2. CASE SaveDetailed
  BY <1>2 DEF SaveDetailed, Save, CutInv
<1>3. CASE SaveNodes \/ SaveAllocations
  BY <1>3 DEF SaveNodes, SaveAllocations, Save, Raise
<1>4. ASSUME NEW i \in DOMAIN instances, NEW batch \in Batches, Iterate(i, batch)
      PROVE  phase = "run" /\ phase' \in {"run", "failed"} /\ written' = written
  BY <1>4 DEF Iterate, Raise
<1>5. CASE \E i \in DOMAIN instances, batch \in Batches : Iterate(i, batch)
  BY <1>4, <1>5
<1>6. CASE \/ Build(traces[config.trace]) \/ LoadTrace \/ SpinUpInstance \/ StartRun
           \/ ScheduleRaises \/ FinishTask
           \/ \E n \in 0 .. Len(requests) : EndRun(n)
  BY <1>6 DEF Build, LoadTrace, SpinUpInstance, StartRun, ScheduleRaises, FinishTask,
     EndRun, Raise
<1> QED
  BY <1>1, <1>2, <1>3, <1>5, <1>6 DEF SimulationStep

(* A point becomes interrupted when its summary is written and is no more  *)
(* when its details are.                                                   *)
LEMMA SimulateCuts ==
  ASSUME StudyInv, CutInv, Simulate
  PROVE  /\ CutInv'
         /\ \A p \in Points : HasSummary(p) => HasSummary(p)'
<1>1. /\ phase' = "detailed" => "detailed" \notin written'
      /\ Newly("summary") => phase' = "detailed"
      /\ phase = "detailed" => Newly("detailed")
  BY SimulationCuts DEF Simulate, StudyInv
<1>2. sweep' = sweep /\ Simulating' = Simulating
  BY DEF Simulate, Simulating, Here
<1>3. Simulating # {} => sweep.number # 0
  BY DEF StudyInv, LoopInv, Simulating
<1>4. ASSUME NEW p \in Points
      PROVE  /\ files'[p].summary = IF p \in Simulating /\ Newly("summary")
                                    THEN sweep.number ELSE files[p].summary
             /\ files'[p].detailed = IF p \in Simulating /\ Newly("detailed")
                                     THEN sweep.number ELSE files[p].detailed
  BY DEF Simulate
<1>5. cut' = IF Newly("detailed") THEN cut \ Simulating ELSE cut
  BY DEF Simulate
<1>6. ASSUME NEW p \in Points, files'[p].summary # 0, files'[p].detailed = 0
      PROVE  p \in cut' \cup (IF phase' = "detailed" THEN Simulating ELSE {})
  <2>1. CASE p \in Simulating /\ Newly("summary")
    BY <1>1, <2>1
  <2>2. CASE ~ (p \in Simulating /\ Newly("summary"))
    <3>1. files[p].summary # 0 /\ ~ (p \in Simulating /\ Newly("detailed"))
      BY <1>3, <1>4, <1>6, <2>2
    <3>2. files[p].detailed = 0
      BY <1>4, <1>6, <3>1
    <3>3. p \in cut \/ (phase = "detailed" /\ p \in Simulating)
      BY <3>1, <3>2 DEF CutInv, HasSummary, HasDetails, Interrupted
    <3> QED
      BY <1>1, <1>5, <3>1, <3>3
  <2> QED
    BY <2>1, <2>2
<1> QED
  BY <1>1, <1>2, <1>3, <1>4, <1>6 DEF CutInv, HasSummary, HasDetails, Interrupted

(* Steps that write no file lose no interrupted point.                     *)
LEMMA OthersCut ==
  ASSUME CutInv, UNCHANGED files, Interrupted \subseteq Interrupted',
         phase' = "detailed" => phase = "detailed" /\ written' = written
  PROVE  /\ CutInv'
         /\ \A p \in Points : HasSummary(p) => HasSummary(p)'
  BY DEF CutInv, HasSummary, HasDetails

(* So it is in every step of the study.                                    *)
LEMMA CutStep ==
  ASSUME StudyInv, CutInv, [StudyNext]_svars
  PROVE  /\ CutInv'
         /\ \A p \in Points : HasSummary(p) => HasSummary(p)'
<1>1. ASSUME UNCHANGED <<phase, written, sweep, files, cut>>
      PROVE  /\ CutInv'
             /\ \A p \in Points : HasSummary(p) => HasSummary(p)'
  BY <1>1, OthersCut DEF Interrupted, Simulating, Here
<1>2. CASE Simulate
  BY <1>2, SimulateCuts
<1>3. CASE LaunchByHand \/ LaunchPoint
  <2>1. phase # "detailed" /\ phase' = "build" /\ UNCHANGED <<files, cut>>
    BY <1>3 DEF LaunchByHand, LaunchPoint, Launch, Alive, studyvars
  <2> QED
    BY <2>1, OthersCut DEF Interrupted
<1>4. CASE KillSimulation
  <2>1. /\ phase' = "killed" /\ UNCHANGED files
        /\ cut' = IF phase = "detailed" THEN cut \cup Simulating ELSE cut
    BY <1>4 DEF KillSimulation, Kill
  <2> QED
    BY <2>1, OthersCut DEF Interrupted
<1>5. CASE StartSweep \/ PointEnds \/ OrphanEnds
  <2>1. phase # "detailed" /\ UNCHANGED <<phase, files, cut>>
    BY <1>5 DEF StartSweep, PointEnds, OrphanEnds, Alive, procvars
  <2> QED
    BY <2>1, OthersCut DEF Interrupted
<1>6. ASSUME sweep.pc = "next", UNCHANGED <<phase, written, files, cut>>
      PROVE  /\ CutInv'
             /\ \A p \in Points : HasSummary(p) => HasSummary(p)'
  <2>1. Simulating = {}
    BY <1>6 DEF Simulating
  <2> QED
    BY <1>6, <2>1, OthersCut DEF Interrupted
<1>6a. CASE PassOver \/ SkipPoint \/ DryRun \/ WriteRunlog
  BY <1>6, <1>6a DEF PassOver, SkipPoint, DryRun, WriteRunlog, procvars
<1>6b. CASE KillSweep
  <2>1. UNCHANGED <<phase, written, files, cut>>
    BY <1>6b DEF KillSweep, procvars
  <2>2. CASE sweep.pc = "wait" /\ sweep' = [sweep EXCEPT !.pc = "orphan"]
    <3>1. /\ sweep'.pc \in {"wait", "orphan"} /\ sweep'.split = sweep.split
          /\ sweep'.k = sweep.k /\ sweep'.b = sweep.b
      BY <2>2
    <3>2. Simulating' = Simulating
      BY <2>2, <3>1 DEF Simulating, Here
    <3> QED
      BY <2>1, <3>2, OthersCut DEF Interrupted
  <2> QED
    BY <1>6, <1>6b, <2>1, <2>2 DEF KillSweep
<1>7. CASE GenerateTraces \/ GenerateHandTrace \/ GenerateRateTrace
  BY <1>1, <1>7 DEF GenerateTraces, GenerateHandTrace, GenerateRateTrace, procvars
<1>8. CASE \/ StartAggregation \/ ReadPair \/ ReadDetails \/ WritePairs
           \/ AggregateSplits \/ WriteReport
  BY <1>1, <1>8 DEF StartAggregation, ReadPair, ReadDetails, WritePairs,
     AggregateSplits, WriteReport, procvars
<1>9. CASE Download \/ OtherScripts \/ UNCHANGED svars
  BY <1>1, <1>9 DEF Download, OtherScripts, svars, studyvars, procvars
<1> QED
  BY <1>2, <1>3, <1>4, <1>5, <1>6a, <1>6b, <1>7, <1>8, <1>9 DEF StudyNext, Study

(* Reading: the aggregation's rows are covered as they are made.           *)

(* What remains of a sequence after its first element.                     *)
LEMMA TailIsASequence ==
  ASSUME NEW S, NEW s \in Seq(S), s # <<>>
  PROVE  Tail(s) \in Seq(S)
OBVIOUS

(* A sequence and one more element.                                        *)
LEMMA AppendIsASequence ==
  ASSUME NEW S, NEW s \in Seq(S), NEW e \in S
  PROVE  Append(s, e) \in Seq(S)
OBVIOUS

(* A pair without a baseline or a summary is a missing one.                *)
LEMMA PairRead ==
  ASSUME ReadInv, ReadPair
  PROVE  ReadInv'
<1> DEFINE point == Head(agg.todo)
           row == [status |-> "missing", ratio |-> FALSE, interrupted |-> FALSE]
<1>1. /\ agg \in Aggregations /\ agg.todo \in Seq(Points) /\ agg.rows \in Seq(PairRows)
      /\ agg.todo # <<>> /\ UNCHANGED files
  BY DEF ReadInv, Aggregations, ReadPair
<1>2. CASE Complete(point)
  <2>1. agg' = [agg EXCEPT !.pc = "details"]
    BY <1>2 DEF ReadPair
  <2>2. /\ agg' \in Aggregations /\ agg'.pc = "details" /\ agg'.base = agg.base
        /\ agg'.todo = agg.todo
    BY <1>1, <2>1 DEF Aggregations
  <2> QED
    BY <1>1, <1>2, <2>2 DEF ReadInv, Complete, HasSummary
<1>3. CASE ~ Complete(point)
  <2>1. row \in PairRows
    BY DEF PairRows
  <2>2. PICK rest \in Seq(Points) : rest = Tail(agg.todo)
    <3>1. Tail(agg.todo) \in Seq(Points)
      BY <1>1, TailIsASequence
    <3> QED
      BY <3>1, Zenon
  <2>3. PICK rows \in Seq(PairRows) : rows = Append(agg.rows, row)
    <3>1. Append(agg.rows, row) \in Seq(PairRows)
      BY <1>1, <2>1, AppendIsASequence
    <3> QED
      BY <3>1, Zenon
  <2>4. PICK a \in Aggregations : a = [agg EXCEPT !.todo = rest]
    BY <1>1 DEF Aggregations
  <2>5. agg' = [a EXCEPT !.rows = rows]
    <3>1. agg' = [agg EXCEPT !.todo = Tail(@), !.rows = Append(@, row)]
      BY <1>3 DEF ReadPair
    <3>2. agg' = [agg EXCEPT !.todo = rest, !.rows = rows]
      BY <2>2, <2>3, <3>1, Zenon
    <3> QED
      BY <1>1, <2>4, <3>2 DEF Aggregations
  <2>6. /\ agg' \in Aggregations /\ agg'.pc = agg.pc /\ agg'.base = agg.base
        /\ agg'.todo = rest
    BY <2>4, <2>5 DEF Aggregations
  <2>7. \A i \in DOMAIN rest : i + 1 \in DOMAIN agg.todo /\ rest[i] = agg.todo[i + 1]
    BY <1>1, <2>2
  <2>8. agg.pc = "pair"
    BY DEF ReadPair
  <2> QED
    BY <1>1, <2>6, <2>7, <2>8 DEF ReadInv, HasSummary
<1> QED
  BY <1>2, <1>3

(* A pair that has both summaries lacks details only while one of its two  *)
(* points is interrupted.                                                  *)
LEMMA DetailsRead ==
  ASSUME ReadInv, CutInv, ReadDetails
  PROVE  ReadInv'
<1> DEFINE point == Head(agg.todo)
           both == {Baseline(point.workload), point}
           row == [status      |-> "ok",
                   ratio       |-> \A p \in both : HasDetails(p),
                   interrupted |-> both \cap Interrupted # {}]
<1>1. /\ agg \in Aggregations /\ agg.todo \in Seq(Points) /\ agg.rows \in Seq(PairRows)
      /\ agg.todo # <<>> /\ agg.base /\ HasSummary(point) /\ UNCHANGED files
  BY DEF ReadInv, Aggregations, ReadDetails
<1>2. point \in Points /\ 1 \in DOMAIN agg.todo /\ point = agg.todo[1]
  BY <1>1
<1>3. \A p \in both : p \in Points /\ HasSummary(p)
  BY <1>1, <1>2 DEF ReadInv
<1>4. row \in PairRows
  <2>1. ASSUME ~ \A p \in both : HasDetails(p)
        PROVE  both \cap Interrupted # {}
    BY <1>3, <2>1 DEF CutInv
  <2>2. /\ row.status = "ok" /\ row.ratio = (\A p \in both : HasDetails(p))
        /\ row.interrupted = (both \cap Interrupted # {})
        /\ row \in [status : {"ok", "missing"}, ratio : BOOLEAN, interrupted : BOOLEAN]
    OBVIOUS
  <2>3. row.ratio \/ row.interrupted
    BY <2>1, <2>2
  <2> QED
    BY <2>2, <2>3 DEF PairRows
<1>5. agg' = [agg EXCEPT !.pc = "pair", !.todo = Tail(@), !.rows = Append(@, row)]
  BY DEF ReadDetails
<1> HIDE DEF row
<1>6. PICK rest \in Seq(Points) : rest = Tail(agg.todo)
  <2>1. Tail(agg.todo) \in Seq(Points)
    BY <1>1, TailIsASequence
  <2> QED
    BY <2>1, Zenon
<1>7. PICK rows \in Seq(PairRows) : rows = Append(agg.rows, row)
  <2>1. Append(agg.rows, row) \in Seq(PairRows)
    BY <1>1, <1>4, AppendIsASequence
  <2> QED
    BY <2>1, Zenon
<1>8. PICK a \in Aggregations : a = [agg EXCEPT !.pc = "pair"]
  BY <1>1 DEF Aggregations
<1>9. PICK b \in Aggregations : b = [a EXCEPT !.todo = rest]
  BY DEF Aggregations
<1>10. agg' = [b EXCEPT !.rows = rows]
  <2>1. agg' = [agg EXCEPT !.pc = "pair", !.todo = rest, !.rows = rows]
    BY <1>5, <1>6, <1>7, Zenon
  <2> QED
    BY <1>1, <1>8, <1>9, <2>1 DEF Aggregations
<1>11. /\ agg' \in Aggregations /\ agg'.pc = "pair" /\ agg'.base = agg.base
       /\ agg'.todo = rest
  BY <1>1, <1>8, <1>9, <1>10 DEF Aggregations
<1>12. \A i \in DOMAIN rest : i + 1 \in DOMAIN agg.todo /\ rest[i] = agg.todo[i + 1]
  BY <1>1, <1>6
<1> QED
  BY <1>1, <1>11, <1>12 DEF ReadInv, HasSummary

(* An aggregation starts with the points of one workload and the summary   *)
(* of their baseline.                                                      *)
LEMMA AggregationStarted ==
  ASSUME ReadInv, StartAggregation
  PROVE  ReadInv'
<1>1. PICK k \in DOMAIN Workloads, split \in Splits :
        agg' = [pc |-> "pair", base |-> HasSummary(PointAt(split, k, 0)), rows |-> <<>>,
                todo |-> [b \in DOMAIN Bandwidths |-> PointAt(split, k, b)]]
  BY DEF StartAggregation
<1> DEFINE todoNow == [b \in DOMAIN Bandwidths |-> PointAt(split, k, b)]
<1>2. k \in 1 .. Len(Workloads) /\ Len(Bandwidths) \in Nat
      /\ DOMAIN Bandwidths = 1 .. Len(Bandwidths)
  BY StudyAssumption
<1>3. \A b \in 0 .. Len(Bandwidths) : PointAt(split, k, b) \in Points
  BY <1>2, PointsOfLoops
<1>4. todoNow \in Seq(Points)
  BY <1>2, <1>3
<1>5. ASSUME NEW b \in DOMAIN Bandwidths
      PROVE  Baseline(todoNow[b].workload) = PointAt(split, k, 0)
  BY <1>2, <1>5 DEF PointAt, PD
<1>6. PointAt(split, k, 0) \in Points
  BY <1>2, <1>3
<1>7. UNCHANGED files
  BY DEF StartAggregation
<1> HIDE DEF todoNow
<1>8. /\ agg'.pc = "pair" /\ agg'.base = HasSummary(PointAt(split, k, 0))
      /\ agg'.todo = todoNow /\ agg' \in Aggregations
  BY <1>1, <1>4 DEF Aggregations, HasSummary, todoNow
<1>9. DOMAIN todoNow = DOMAIN Bandwidths
  BY DEF todoNow
<1> QED
  BY <1>5, <1>6, <1>7, <1>8, <1>9 DEF ReadInv, HasSummary

(* The report counts rows: an ok one that is no case was interrupted.      *)
LEMMA NumbersCover ==
  ASSUME NEW rows \in Seq(PairRows)
  PROVE  Numbers(rows).pairs = Numbers(rows).cases + Numbers(rows).interrupted
<1> DEFINE ok == Ok(rows)
           cases == Cases(rows)
           rest == ok \ cases
<1>1. IsFiniteSet(DOMAIN rows)
  BY FS_Interval
<1>2. ok \subseteq DOMAIN rows /\ cases \subseteq ok
  BY DEF Cases, Ok
<1>3. {k \in rest : rows[k].interrupted} = rest
  BY DEF Ok, Cases, PairRows
<1>4. Numbers(rows) = [pairs |-> Cardinality(ok), cases |-> Cardinality(cases),
                       interrupted |-> Cardinality(rest)]
  BY <1>3 DEF Numbers
<1> HIDE DEF ok, cases
<1>5. IsFiniteSet(ok) /\ IsFiniteSet(cases)
  BY <1>1, <1>2, FS_Subset
<1>6. /\ IsFiniteSet(rest)
      /\ Cardinality(rest) = Cardinality(ok) - Cardinality(ok \cap cases)
  BY <1>5, FS_Difference
<1>7. ok \cap cases = cases
  BY <1>2
<1>8. Cardinality(ok) \in Nat /\ Cardinality(cases) \in Nat
  BY <1>5, FS_CardinalityType
<1>9. Cardinality(rest) = Cardinality(ok) - Cardinality(cases)
  BY <1>6, <1>7
<1> HIDE DEF rest
<1>10. Cardinality(ok) = Cardinality(cases) + Cardinality(rest)
  BY <1>8, <1>9
<1> QED
  BY <1>4, <1>10

(* Every step keeps what the pairs table and the report rest on.           *)
LEMMA CoverStep == StudyInv /\ CoverInv /\ [StudyNext]_svars => CoverInv'
<1> SUFFICES ASSUME StudyInv, CoverInv, [StudyNext]_svars PROVE CoverInv'
  OBVIOUS
<1>1. CutInv' /\ \A p \in Points : HasSummary(p) => HasSummary(p)'
  BY CutStep DEF CoverInv
<1>2. ASSUME UNCHANGED agg
      PROVE  ReadInv'
  <2>1. agg.pc = "details" => Head(agg.todo) \in Points
    BY DEF CoverInv, ReadInv, Aggregations
  <2> QED
    BY <1>1, <1>2, <2>1 DEF CoverInv, ReadInv
<1>3. ASSUME UNCHANGED <<pairs, report>>
      PROVE  TablesInv'
  BY <1>3 DEF CoverInv, TablesInv, ReportCoversPairs
<1>4. CASE UNCHANGED <<agg, pairs, report>>
  BY <1>1, <1>2, <1>3, <1>4 DEF CoverInv
<1>5. CASE StartAggregation
  BY <1>1, <1>3, <1>5, AggregationStarted DEF CoverInv, StartAggregation
<1>6. CASE ReadPair
  BY <1>1, <1>3, <1>6, PairRead DEF CoverInv, ReadPair
<1>7. CASE ReadDetails
  BY <1>1, <1>3, <1>7, DetailsRead DEF CoverInv, ReadDetails
<1>8. CASE WritePairs
  <2>1. pairs' = agg.rows /\ agg' = NoAgg /\ report' = report
    BY <1>8 DEF WritePairs
  <2>2. ReadInv'
    BY <2>1 DEF ReadInv, NoAgg, Aggregations
  <2>3. TablesInv'
    BY <2>1 DEF CoverInv, ReadInv, Aggregations, TablesInv, ReportCoversPairs
  <2> QED
    BY <1>1, <2>2, <2>3 DEF CoverInv
<1>9. CASE WriteReport
  <2>1. pairs' = pairs /\ agg' = agg /\ report' = Numbers(pairs)
    BY <1>9 DEF WriteReport
  <2>2. TablesInv'
    BY <2>1, NumbersCover DEF CoverInv, TablesInv, ReportCoversPairs
  <2> QED
    BY <1>1, <1>2, <2>1, <2>2 DEF CoverInv
<1>10. CASE \/ GenerateTraces \/ GenerateHandTrace \/ GenerateRateTrace \/ LaunchByHand
            \/ StartSweep \/ PassOver \/ SkipPoint \/ DryRun \/ LaunchPoint \/ PointEnds
            \/ WriteRunlog \/ Simulate \/ KillSimulation \/ KillSweep \/ OrphanEnds
            \/ AggregateSplits
  BY <1>4, <1>10 DEF GenerateTraces, GenerateHandTrace, GenerateRateTrace, LaunchByHand,
     StartSweep, PassOver, SkipPoint, DryRun, LaunchPoint, PointEnds, WriteRunlog,
     Simulate, KillSimulation, KillSweep, OrphanEnds, AggregateSplits, studyvars
<1>11. CASE Download \/ OtherScripts \/ UNCHANGED svars
  BY <1>4, <1>11 DEF Download, OtherScripts, svars, studyvars
<1> QED
  BY <1>5, <1>6, <1>7, <1>8, <1>9, <1>10, <1>11 DEF StudyNext, Study

(* Of the pairs the report calls complete, those that are no cases are     *)
(* exactly the ones that were read while a point was between its two files *)
(* or had been killed there                                                *)
(* (aggregate_param_results.py, create_report_assets.py).                  *)
THEOREM ReportsCoverPairs == StudySpec => []ReportCoversPairs
<1>1. StudyInit => CoverInv
  <2> SUFFICES ASSUME StudyInit PROVE CoverInv
    OBVIOUS
  <2>1. /\ phase = "idle" /\ files = [p \in Points |-> NoFiles] /\ agg = NoAgg
        /\ pairs = <<>> /\ report = [pairs |-> 0, cases |-> 0, interrupted |-> 0]
    BY DEF StudyInit, NotLaunched
  <2> QED
    BY <2>1 DEF CoverInv, CutInv, ReadInv, TablesInv, NoFiles, NoAgg, Aggregations,
                HasSummary, ReportCoversPairs
<1>2. CoverInv => ReportCoversPairs
  BY DEF CoverInv, TablesInv
<1> QED
  BY <1>1, <1>2, StudyStarts, StudyStep, CoverStep, PTL DEF StudySpec
-----------------------------------------------------------------------------
(* The instances of a simulation: first the start state planned for a       *)
(* configuration, then what is spun up of it.                               *)

(* A configuration that the servers of a cluster can be built from.        *)
Sound(c) ==
  /\ c.tp \in Nat \ {0}
  /\ c.servers \in Seq(Range(c.servers))
  /\ \A k \in DOMAIN c.servers :
       /\ c.servers[k].count \in Nat
       /\ c.servers[k].count > 0 => c.servers[k].sku \in DOMAIN Skus

(* The processors of a server.                                             *)
Own(c, s) == {<<s, j>> : j \in 1 .. Skus[Servers(c)[s]]}

Tags == {"none", "prompt", "token", "unsupported"}

(* What may be planned on the processors of a set.                         *)
PlansOn(processors) ==
  [tag : Tags, name : DOMAIN Skus \cup {""}, processors : SUBSET processors]

Plans(c) == PlansOn(Processors(c))

(* Pairs of plans without a common processor.                              *)
Apart(c) == {pq \in Plans(c) \X Plans(c) : pq[1].processors \cap pq[2].processors = {}}

(* Plans of instances: some processors each.                               *)
Real(c) == {p \in Plans(c) : p = Unsupported \/ p.processors # {}}

(* Each server is of a known sku.                                          *)
LEMMA ServersFound ==
  ASSUME NEW c, Sound(c)
  PROVE  Servers(c) \in Seq(DOMAIN Skus)
<1> DEFINE ss == [k \in DOMAIN c.servers |->
                    [n \in 1 .. c.servers[k].count |-> c.servers[k].sku]]
<1>1. ASSUME NEW k \in DOMAIN c.servers
      PROVE  ss[k] \in Seq(DOMAIN Skus)
  <2>1. c.servers[k].count \in Nat
        /\ \A n \in 1 .. c.servers[k].count : c.servers[k].sku \in DOMAIN Skus
    BY DEF Sound
  <2> QED
    BY <2>1
<1>2. ss \in Seq(Seq(DOMAIN Skus))
  <2>1. Len(c.servers) \in Nat /\ DOMAIN c.servers = 1 .. Len(c.servers)
    BY DEF Sound
  <2>2. ss = [k \in 1 .. Len(c.servers) |-> ss[k]]
    BY <2>1
  <2> HIDE DEF ss
  <2> QED
    BY <1>1, <2>1, <2>2
<1> HIDE DEF ss
<1>3. FlattenSeq(ss) \in Seq(DOMAIN Skus)
  BY <1>2, FlattenType
<1> QED
  BY <1>3 DEF Servers, ss

(* The processors of a server are some of those of the cluster, and no     *)
(* other server's.                                                         *)
LEMMA OwnProcessors ==
  ASSUME NEW c, Sound(c), NEW s \in DOMAIN Servers(c)
  PROVE  /\ Skus[Servers(c)[s]] \in Nat \ {0}
         /\ Servers(c)[s] \in DOMAIN Skus
         /\ Own(c, s) \subseteq Processors(c)
         /\ \A t \in DOMAIN Servers(c) : s # t => Own(c, s) \cap Own(c, t) = {}
<1>1. Servers(c)[s] \in DOMAIN Skus
  BY ServersFound
<1>2. Skus[Servers(c)[s]] \in Nat \ {0}
  BY <1>1, ConfigsAssumption
<1>3. Own(c, s) \subseteq Processors(c)
  BY DEF Own, Processors
<1>4. ASSUME NEW t \in DOMAIN Servers(c), s # t
      PROVE  Own(c, s) \cap Own(c, t) = {}
  BY <1>4 DEF Own
<1> QED
  BY <1>1, <1>2, <1>3, <1>4

(* Of n processors the k-th slice of tp begins within, and after the end   *)
(* of those before it.                                                     *)
LEMMA SliceBounds ==
  ASSUME NEW n \in Nat \ {0}, NEW tp \in Nat \ {0},
         NEW k \in 1 .. (n + tp - 1) \div tp
  PROVE  /\ (n + tp - 1) \div tp \in Nat
         /\ (k - 1) * tp \in Nat
         /\ (k - 1) * tp + 1 <= n
         /\ (k - 1) * tp + 1 <= k * tp
         /\ \A l \in 1 .. (n + tp - 1) \div tp : k < l => k * tp <= (l - 1) * tp
<1> DEFINE q == (n + tp - 1) \div tp
<1>1. q \in Nat /\ q * tp <= n + tp - 1
  OBVIOUS
<1> HIDE DEF q
<1>2. k \in Nat /\ 1 <= k /\ k <= q
  BY <1>1 DEF q
<1>3. k * tp <= q * tp
  BY <1>1, <1>2
<1>4. (k - 1) * tp = k * tp - tp /\ (k - 1) * tp \in Nat
  BY <1>2
<1>5. ASSUME NEW l \in 1 .. q, k < l
      PROVE  k * tp <= (l - 1) * tp
  BY <1>1, <1>2, <1>5
<1> QED
  BY <1>1, <1>2, <1>3, <1>4, <1>5 DEF q

(* The slices of a server have processors of it, none in common.           *)
LEMMA SlicesApart ==
  ASSUME NEW c, Sound(c), NEW s \in DOMAIN Servers(c), NEW tag \in {"prompt", "token"}
  PROVE  /\ Slices(c, s, tag) \in Seq(PlansOn(Own(c, s)))
         /\ \A i \in DOMAIN Slices(c, s, tag) : Slices(c, s, tag)[i].processors # {}
         /\ \A i, j \in DOMAIN Slices(c, s, tag) : i < j =>
              Slices(c, s, tag)[i].processors \cap Slices(c, s, tag)[j].processors = {}
<1> DEFINE n == Skus[Servers(c)[s]]
           q == (n + c.tp - 1) \div c.tp
           own(k) == {<<s, j>> : j \in {i \in 1 .. n : (k - 1) * c.tp < i /\ i <= k * c.tp}}
           slices == Slices(c, s, tag)
<1>1. n \in Nat \ {0} /\ c.tp \in Nat \ {0} /\ Servers(c)[s] \in DOMAIN Skus
  BY OwnProcessors DEF Sound
<1>2. Own(c, s) = {<<s, j>> : j \in 1 .. n}
  BY DEF Own
<1>3. slices = [k \in 1 .. q |-> Planned(tag, Servers(c)[s], own(k))]
  BY DEF Slices
<1> HIDE DEF n
<1>4. ASSUME NEW k \in 1 .. q
      PROVE  /\ q \in Nat
             /\ own(k) \subseteq Own(c, s)
             /\ own(k) # {}
             /\ \A l \in 1 .. q : k < l => own(k) \cap own(l) = {}
  <2> DEFINE low == (k - 1) * c.tp
             high == k * c.tp
  <2>1. /\ q \in Nat /\ low \in Nat /\ low + 1 <= n /\ low + 1 <= high
        /\ \A l \in 1 .. q : k < l => high <= (l - 1) * c.tp
    BY <1>1, SliceBounds
  <2> HIDE DEF q
  <2>2. own(k) \subseteq Own(c, s)
    BY <1>2
  <2>3. own(k) # {}
    <3>1. low + 1 \in 1 .. n /\ low < low + 1
      BY <1>1, <2>1
    <3>2. <<s, low + 1>> \in own(k)
      BY <2>1, <3>1
    <3> QED
      BY <3>2
  <2>4. ASSUME NEW l \in 1 .. q, k < l
        PROVE  own(k) \cap own(l) = {}
    <3> DEFINE next == (l - 1) * c.tp
    <3>1. high <= next /\ high \in Int /\ next \in Int
      BY <1>1, <2>1, <2>4
    <3> HIDE DEF high, next
    <3>2. \A j \in 1 .. n : ~ (j <= high /\ next < j)
      BY <1>1, <3>1
    <3>3. \A p \in own(k) : \E j \in 1 .. n : p = <<s, j>> /\ j <= high
      BY DEF high
    <3>4. \A p \in own(l) : \E j \in 1 .. n : p = <<s, j>> /\ next < j
      BY DEF next
    <3> HIDE DEF own
    <3> QED
      BY <3>2, <3>3, <3>4
  <2> QED
    BY <2>1, <2>2, <2>3, <2>4
<1> HIDE DEF own
<1>5. \A k \in 1 .. q : Planned(tag, Servers(c)[s], own(k)) \in PlansOn(Own(c, s))
  BY <1>1, <1>4 DEF PlansOn, Planned, Tags
<1>6. q \in Nat
  BY <1>1
<1> HIDE DEF q
<1>7. slices \in Seq(PlansOn(Own(c, s)))
  BY <1>3, <1>5, <1>6
<1>8. DOMAIN slices = 1 .. q /\ \A k \in 1 .. q : slices[k].processors = own(k)
  BY <1>3, <1>6 DEF Planned
<1> QED
  BY <1>4, <1>7, <1>8

(* What is planned on a server may be planned.                             *)
LEMMA PlannedHere ==
  ASSUME NEW c, Sound(c), NEW s \in DOMAIN Servers(c),
         NEW p \in PlansOn(Own(c, s)), p.processors # {}
  PROVE  p \in Real(c)
<1>1. p.processors \subseteq Processors(c)
  BY OwnProcessors DEF PlansOn
<1>2. p \in Plans(c)
  BY <1>1 DEF Plans, PlansOn
<1> QED
  BY <1>2 DEF Real

(* Unsupported is a plan too.                                              *)
LEMMA UnsupportedIsPlan ==
  ASSUME NEW c
  PROVE  Unsupported \in Real(c) /\ Unsupported.processors = {}
  BY DEF Unsupported, Planned, Real, Plans, PlansOn, Tags

(* Of the plans for a server that either are slices of it, or are not      *)
(* supported, those of two servers have nothing in common.                 *)
OnServer(c, s, plans) ==
  \/ plans \in {Slices(c, s, "prompt"), Slices(c, s, "token")}
  \/ plans \in {<<>>, <<Unsupported>>}

(* Such plans are plans for that server, and do not overlap either.        *)
LEMMA OnServerApart ==
  ASSUME NEW c, Sound(c), NEW s \in DOMAIN Servers(c), NEW plans, OnServer(c, s, plans)
  PROVE  /\ plans \in Seq(Real(c))
         /\ \A i \in DOMAIN plans : plans[i].processors \subseteq Own(c, s)
         /\ \A i, j \in DOMAIN plans : i < j =>
              plans[i].processors \cap plans[j].processors = {}
<1>1. CASE plans = Slices(c, s, "prompt") \/ plans = Slices(c, s, "token")
  <2>1. PICK tag \in {"prompt", "token"} : plans = Slices(c, s, tag)
    BY <1>1
  <2>2. /\ plans \in Seq(PlansOn(Own(c, s)))
        /\ \A i \in DOMAIN plans : plans[i].processors # {}
        /\ \A i, j \in DOMAIN plans : i < j =>
             plans[i].processors \cap plans[j].processors = {}
    BY <2>1, SlicesApart
  <2>3. \A i \in DOMAIN plans : plans[i] \in PlansOn(Own(c, s))
    BY <2>2
  <2>4. \A i \in DOMAIN plans : plans[i] \in Real(c)
    BY <2>2, <2>3, PlannedHere
  <2>5. \A i \in DOMAIN plans : plans[i].processors \subseteq Own(c, s)
    BY <2>3 DEF PlansOn
  <2>6. plans \in Seq(Real(c))
    BY <2>2, <2>4
  <2> QED
    BY <2>2, <2>5, <2>6
<1>2. CASE plans = <<>>
  BY <1>2
<1>3. CASE plans = <<Unsupported>>
  BY <1>3, UnsupportedIsPlan
<1> QED
  BY <1>1, <1>2, <1>3 DEF OnServer

(* A sequence of such plans, flattened.                                    *)
Spread(c, plan) ==
  /\ plan \in Seq(Real(c))
  /\ \A i, j \in DOMAIN plan : i < j =>
       plan[i].processors \cap plan[j].processors = {}

(* Flattened over all servers, such plans have no processor in common:     *)
(* those of a server by its slices, those of two because servers own theirs. *)
LEMMA ServersApart ==
  ASSUME NEW c, Sound(c), NEW f,
         \A s \in DOMAIN Servers(c) : OnServer(c, s, f[s])
  PROVE  Spread(c, FlattenSeq([s \in 1 .. Len(Servers(c)) |-> f[s]]))
<1> DEFINE n == Len(Servers(c))
           V == Seq(Real(c))
           ss == [s \in 1 .. n |-> f[s]]
<1>1. n \in Nat /\ DOMAIN Servers(c) = 1 .. n
  BY ServersFound
<1> HIDE DEF n
<1>2. \A s \in 1 .. n :
        /\ ss[s] \in V
        /\ \A i \in DOMAIN ss[s] : ss[s][i].processors \subseteq Own(c, s)
        /\ \A i, j \in DOMAIN ss[s] : i < j =>
             ss[s][i].processors \cap ss[s][j].processors = {}
  BY <1>1, OnServerApart
<1>3. ss \in Seq(V) /\ DOMAIN ss = 1 .. n
  <2>1. \A s \in 1 .. n : f[s] \in V
    BY <1>2
  <2> HIDE DEF V
  <2> QED
    BY <1>1, <2>1
<1> HIDE DEF ss
<1>4. \A s \in DOMAIN ss : \A i, j \in DOMAIN ss[s] :
        i < j => <<ss[s][i], ss[s][j]>> \in Apart(c)
  <2>1. ASSUME NEW s \in DOMAIN ss, NEW i \in DOMAIN ss[s], NEW j \in DOMAIN ss[s], i < j
        PROVE  <<ss[s][i], ss[s][j]>> \in Apart(c)
    <3>1. ss[s] \in Seq(Real(c)) /\ ss[s][i].processors \cap ss[s][j].processors = {}
      BY <1>2, <1>3, <2>1
    <3>2. ss[s][i] \in Real(c) /\ ss[s][j] \in Real(c)
      BY <2>1, <3>1
    <3> QED
      BY <3>1, <3>2 DEF Apart, Real
  <2> QED
    BY <2>1
<1>5. \A s, t \in DOMAIN ss : s < t =>
        \A i \in DOMAIN ss[s], j \in DOMAIN ss[t] : <<ss[s][i], ss[t][j]>> \in Apart(c)
  <2>1. ASSUME NEW s \in DOMAIN ss, NEW t \in DOMAIN ss, s < t,
               NEW i \in DOMAIN ss[s], NEW j \in DOMAIN ss[t]
        PROVE  <<ss[s][i], ss[t][j]>> \in Apart(c)
    <3>1. s \in DOMAIN Servers(c) /\ t \in DOMAIN Servers(c) /\ s # t
      BY <1>1, <1>3, <2>1
    <3>2. Own(c, s) \cap Own(c, t) = {}
      BY <3>1, OwnProcessors
    <3>3. /\ ss[s][i].processors \subseteq Own(c, s)
          /\ ss[t][j].processors \subseteq Own(c, t)
      BY <1>2, <1>3, <2>1, <3>1
    <3>4. ss[s][i] \in Real(c) /\ ss[t][j] \in Real(c)
      <4>1. ss[s] \in Seq(Real(c)) /\ ss[t] \in Seq(Real(c))
        BY <1>2, <1>3
      <4> QED
        BY <2>1, <4>1
    <3> QED
      BY <3>2, <3>3, <3>4 DEF Apart, Real
  <2> QED
    BY <2>1
<1>6. FlattenSeq(ss) \in Seq(Real(c))
  BY <1>3, FlattenType
<1>7. \A i, j \in DOMAIN FlattenSeq(ss) : i < j =>
        <<FlattenSeq(ss)[i], FlattenSeq(ss)[j]>> \in Apart(c)
  BY <1>3, <1>4, <1>5, FlattenPairs
<1>8. \A i, j \in DOMAIN FlattenSeq(ss) : i < j =>
        FlattenSeq(ss)[i].processors \cap FlattenSeq(ss)[j].processors = {}
  BY <1>7 DEF Apart
<1> QED
  BY <1>6, <1>8 DEF Spread, ss, n

(* In every start state, instances have processors of their own.           *)
LEMMA StartStateSpread ==
  ASSUME NEW c, Sound(c)
  PROVE  Spread(c, StartState(c))
<1> DEFINE n == Len(Servers(c))
<1>1. n \in Nat /\ DOMAIN Servers(c) = 1 .. n
  BY ServersFound
<1>2. CASE StartState(c) \in {<<>>, <<Unsupported>>}
  <2>1. CASE StartState(c) = <<>>
    BY <2>1 DEF Spread
  <2>2. CASE StartState(c) = <<Unsupported>>
    <3>1. Unsupported \in Real(c)
      BY UnsupportedIsPlan
    <3>2. /\ <<Unsupported>> \in Seq(Real(c))
          /\ \A i, j \in DOMAIN <<Unsupported>> : ~ (i < j)
      BY <3>1
    <3> QED
      BY <2>2, <3>2 DEF Spread
  <2> QED
    BY <1>2, <2>1, <2>2
<1>3. CASE StartState(c) = [s \in 1 .. n |-> Whole(c, s)]
  <2>1. ASSUME NEW s \in 1 .. n
        PROVE  Whole(c, s) \in Real(c) /\ Whole(c, s).processors = Own(c, s)
    <3>1. /\ Servers(c)[s] \in DOMAIN Skus /\ Own(c, s) \subseteq Processors(c)
          /\ Skus[Servers(c)[s]] \in Nat \ {0}
      BY <1>1, OwnProcessors
    <3>2. Whole(c, s) = [tag |-> "none", name |-> Servers(c)[s], processors |-> Own(c, s)]
      BY DEF Whole, Planned, Own
    <3>3. <<s, 1>> \in Own(c, s)
      BY <3>1 DEF Own
    <3>4. Whole(c, s) \in PlansOn(Own(c, s)) /\ Whole(c, s).processors = Own(c, s)
      <4> DEFINE sku == Servers(c)[s]
                 own == Own(c, s)
      <4>1. sku \in DOMAIN Skus /\ own \in SUBSET own
        BY <3>1
      <4> HIDE DEF sku, own
      <4>2. [tag |-> "none", name |-> sku, processors |-> own] \in PlansOn(own)
        BY <4>1 DEF PlansOn, Tags
      <4> QED
        BY <3>2, <4>2 DEF sku, own
    <3> QED
      BY <1>1, <3>3, <3>4, PlannedHere
  <2>2. \A s, t \in 1 .. n : s # t => Own(c, s) \cap Own(c, t) = {}
    BY <1>1, OwnProcessors
  <2> HIDE DEF n
  <2> DEFINE plan == [s \in 1 .. n |-> Whole(c, s)]
  <2>3. DOMAIN plan = 1 .. n /\ \A s \in 1 .. n : plan[s] = Whole(c, s)
    OBVIOUS
  <2>4. plan \in Seq(Real(c))
    BY <1>1, <2>1
  <2> HIDE DEF plan
  <2>5. \A i, j \in DOMAIN plan : i < j => plan[i].processors \cap plan[j].processors = {}
    BY <2>1, <2>2, <2>3
  <2>6. Spread(c, plan)
    BY <2>4, <2>5 DEF Spread
  <2> QED
    BY <1>3, <2>6 DEF plan
<1>4. CASE StartState(c) = Homogeneous(c)
  <2> DEFINE plans(s) ==
        CASE s <= c.prompts                             -> Slices(c, s, "prompt")
          [] s > c.prompts /\ s <= c.prompts + c.tokens -> Slices(c, s, "token")
          [] OTHER                                      -> <<>>
             f == [s \in 1 .. n |-> plans(s)]
  <2>1. \A s : OnServer(c, s, plans(s))
    BY DEF OnServer
  <2>2. Homogeneous(c) = FlattenSeq([s \in 1 .. n |-> plans(s)])
    BY DEF Homogeneous
  <2> HIDE DEF plans, n
  <2>3. \A s \in DOMAIN Servers(c) : OnServer(c, s, f[s])
    BY <1>1, <2>1
  <2>4. [s \in 1 .. n |-> f[s]] = [s \in 1 .. n |-> plans(s)]
    OBVIOUS
  <2> HIDE DEF f
  <2>5. Spread(c, FlattenSeq([s \in 1 .. n |-> f[s]]))
    BY <2>3, ServersApart DEF n
  <2> QED
    BY <1>4, <2>2, <2>4, <2>5
<1>5. CASE StartState(c) = Heterogeneous(c)
  <2> DEFINE plans(s) ==
        CASE Servers(c)[s] \in c.promptSkus                -> Slices(c, s, "prompt")
          [] Servers(c)[s] \in c.tokenSkus \ c.promptSkus  -> Slices(c, s, "token")
          [] OTHER                                         -> <<Unsupported>>
             f == [s \in 1 .. n |-> plans(s)]
  <2>1. \A s : OnServer(c, s, plans(s))
    BY DEF OnServer
  <2>2. Heterogeneous(c) = FlattenSeq([s \in 1 .. n |-> plans(s)])
    BY DEF Heterogeneous
  <2> HIDE DEF plans, n
  <2>3. \A s \in DOMAIN Servers(c) : OnServer(c, s, f[s])
    BY <1>1, <2>1
  <2>4. [s \in 1 .. n |-> f[s]] = [s \in 1 .. n |-> plans(s)]
    OBVIOUS
  <2> HIDE DEF f
  <2>5. Spread(c, FlattenSeq([s \in 1 .. n |-> f[s]]))
    BY <2>3, ServersApart DEF n
  <2> QED
    BY <1>5, <2>2, <2>4, <2>5
<1> QED
  BY <1>2, <1>3, <1>4, <1>5 DEF StartState

(* The instances spun up are the first of the start state, on processors   *)
(* of their own, and the rest is still to do.                              *)
Buildable(c) ==
  /\ c.tp \in Nat \ {0}
  /\ c.servers \in Seq(Range(c.servers))
  /\ \A k \in DOMAIN c.servers : c.servers[k].count \in Nat

Built ==
  /\ Sound(config)
  /\ config.scheduler \in DOMAIN SchedulerConfigs
  /\ DOMAIN share = Processors(config)

NoneYet == instances = <<>> /\ prompts = {} /\ tokens = {}

Placed ==
  /\ prompts = {i \in DOMAIN instances : RoleOf(instances[i]) = "prompt"}
  /\ tokens = {i \in DOMAIN instances : RoleOf(instances[i]) = "token"}

Spun ==
  /\ instances \in Seq(Real(config)) /\ todo \in Seq(Real(config))
  /\ Len(instances) + Len(todo) = Len(StartState(config))
  /\ \A i \in DOMAIN instances :
       instances[i] = StartState(config)[i] /\ instances[i] # Unsupported
  /\ \A j \in DOMAIN todo : todo[j] = StartState(config)[Len(instances) + j]
  /\ Placed

AllocInv ==
  /\ phase = "build" => Buildable(config)
  /\ phase \in {"idle", "build", "load"} => NoneYet
  /\ phase \in {"load", "allocate", "run"} => Built
  /\ phase \in {"allocate", "run"} => Spun
  /\ phase = "run" => todo = <<>>
  /\ ProcessorsUnshared

AllocVars == <<config, todo, instances, prompts, tokens, share>>

(* A step that ends the process, or one that goes on with the run.         *)
LEMMA OthersAllocate ==
  ASSUME AllocInv, UNCHANGED AllocVars,
         \/ phase' \notin {"idle", "build", "load", "allocate", "run"}
         \/ phase' = phase
         \/ phase = "allocate" /\ todo = <<>> /\ phase' = "run"
  PROVE  AllocInv'
BY DEF AllocInv, AllocVars, Built, Spun, Placed, RoleOf, RoleByName, Scheduler, NoneYet, ProcessorsUnshared

(* A new process has no instances.                                         *)
LEMMA LaunchAllocates ==
  ASSUME NEW c, Buildable(c), Launch(c)
  PROVE  AllocInv'
BY DEF AllocInv, Launch, NoneYet, ProcessorsUnshared

(* Build looks up what the start state needs.                              *)
LEMMA BuildAllocates ==
  ASSUME AllocInv, NEW trace, Build(trace)
  PROVE  AllocInv'
<1>1. CASE Found(trace)
  <2>1. /\ phase = "build" /\ phase' = "load"
        /\ share' = [p \in Processors(config) |-> 0]
        /\ UNCHANGED <<config, todo, instances, prompts, tokens>>
    BY <1>1 DEF Build
  <2>2. Sound(config) /\ config.scheduler \in DOMAIN SchedulerConfigs
    BY <1>1, <2>1 DEF AllocInv, Buildable, Sound, Found, FoundSkus, FoundScheduler
  <2>3. Built'
    <3>1. Sound(config)' /\ Processors(config)' = Processors(config)
      BY <2>1, <2>2, Zenon
    <3> QED
      BY <2>1, <2>2, <3>1 DEF Built
  <2>4. NoneYet' /\ ProcessorsUnshared'
    BY <2>1 DEF AllocInv, NoneYet, ProcessorsUnshared
  <2> QED
    BY <2>1, <2>3, <2>4 DEF AllocInv
<1>2. CASE ~ Found(trace)
  BY <1>2, OthersAllocate DEF Build, Raise, AllocVars
<1> QED
  BY <1>1, <1>2

(* The start state is what is to be spun up.                               *)
LEMMA LoadTraceAllocates ==
  ASSUME AllocInv, LoadTrace
  PROVE  AllocInv'
<1>1. CASE Raise
  BY <1>1, OthersAllocate DEF Raise, AllocVars
<1>2. CASE ~ Raise
  <2>1. /\ phase = "load" /\ phase' = "allocate" /\ todo' = StartState(config)
        /\ UNCHANGED <<config, instances, prompts, tokens, share>>
    BY <1>2 DEF LoadTrace
  <2>2. Built /\ NoneYet /\ ProcessorsUnshared
    BY <2>1 DEF AllocInv
  <2>3. Built' /\ ProcessorsUnshared'
    BY <2>1, <2>2 DEF Built, ProcessorsUnshared
  <2>4. StartState(config) \in Seq(Real(config))
    BY <2>2, StartStateSpread DEF Built, Spread
  <2>5. Spun'
    <3>1. instances' = <<>> /\ config' = config /\ todo' = StartState(config)
          /\ prompts' = {} /\ tokens' = {}
      BY <2>1, <2>2 DEF NoneYet
    <3> DEFINE state == StartState(config)
               V == Real(config)
    <3>2. StartState(config)' = state /\ Real(config)' = V
      BY <3>1, Zenon
    <3> HIDE DEF state, V
    <3>3. state \in Seq(V) /\ todo' = state
      BY <2>4, <3>1 DEF state, V
    <3>4. /\ <<>> \in Seq(V) /\ Len(<<>>) + Len(state) = Len(state)
          /\ \A j \in DOMAIN state : state[j] = state[Len(<<>>) + j]
      BY <3>3
    <3> QED
      BY <3>1, <3>2, <3>3, <3>4 DEF Spun, Placed
  <2> QED
    BY <2>1, <2>3, <2>5 DEF AllocInv
<1> QED
  BY <1>1, <1>2

(* Spinning up an instance: the next of the start state, on processors     *)
(* that no instance has.                                                   *)
LEMMA SpinUpAllocates ==
  ASSUME AllocInv, SpinUpInstance
  PROVE  AllocInv'
<1> DEFINE planned == Head(todo)
           state == StartState(config)
           n == Len(instances)
           role == RoleOf(planned)
           V == Real(config)
<1>1. /\ phase = "allocate" /\ todo # <<>> /\ Built /\ Spun /\ ProcessorsUnshared
  BY DEF SpinUpInstance, AllocInv
<1>2. CASE planned = Unsupported \/ role = "unsupported"
  BY <1>2, OthersAllocate DEF SpinUpInstance, Raise, AllocVars
<1>3. CASE ~ (planned = Unsupported \/ role = "unsupported")
  <2>1. /\ AddInstance(planned, role)
        /\ share' = SharedOver(planned.processors)
        /\ todo' = Tail(todo)
        /\ UNCHANGED <<phase, config>>
    BY <1>3 DEF SpinUpInstance
  <2>2. /\ instances \in Seq(V) /\ todo \in Seq(V) /\ n + Len(todo) = Len(state)
        /\ \A i \in 1 .. n : instances[i] = state[i] /\ instances[i] # Unsupported
        /\ \A j \in DOMAIN todo : todo[j] = state[n + j]
    BY <1>1 DEF Spun
  <2>3. state \in Seq(V) /\ \A i, j \in DOMAIN state : i < j =>
          state[i].processors \cap state[j].processors = {}
    BY <1>1, StartStateSpread DEF Built, Spread
  <2> HIDE DEF V, state
  <2>4. /\ n \in Nat /\ n + 1 \in DOMAIN state /\ planned = state[n + 1] /\ planned \in V
        /\ \A i \in 1 .. n : i \in DOMAIN state /\ i < n + 1
        /\ \A i \in 1 .. n : instances[i] \in V
    <3>1. /\ n \in Nat /\ Len(todo) \in Nat /\ Len(todo) # 0 /\ Len(state) \in Nat
          /\ 1 \in DOMAIN todo /\ planned = todo[1] /\ planned \in V
          /\ DOMAIN state = 1 .. Len(state)
          /\ \A i \in 1 .. n : instances[i] \in V
      BY <1>1, <2>2, <2>3
    <3>2. n + Len(todo) = Len(state) /\ todo[1] = state[n + 1]
      BY <2>2, <3>1
    <3> HIDE DEF n, planned
    <3> QED
      BY <3>1, <3>2
  <2>5. /\ instances' = Append(instances, planned)
        /\ instances' \in Seq(V) /\ Len(instances') = n + 1
        /\ DOMAIN instances' = 1 .. n + 1
        /\ instances'[n + 1] = planned
        /\ \A i \in 1 .. n : instances'[i] = instances[i]
    BY <2>1, <2>2, <2>4 DEF AddInstance
  <2>6. /\ todo' \in Seq(V) /\ Len(todo') = Len(todo) - 1
        /\ \A j \in DOMAIN todo' : j + 1 \in DOMAIN todo /\ todo'[j] = todo[j + 1]
    BY <1>1, <2>1, <2>2
  <2>7. state' = state /\ V' = V
    BY <2>1, Zenon DEF state, V
  <2> HIDE DEF n
  <2>8. \A i \in 1 .. n + 1 : i \in 1 .. n \/ i = n + 1
    BY <2>4
  <2>9. Placed'
    <3>1. \A p : RoleOf(p)' = RoleOf(p)
      BY <2>1 DEF RoleOf, RoleByName, Scheduler
    <3>2. /\ prompts = {i \in 1 .. n : RoleOf(instances[i]) = "prompt"}
          /\ tokens = {i \in 1 .. n : RoleOf(instances[i]) = "token"}
      BY <1>1, <2>2 DEF Spun, Placed, n
    <3>3. /\ prompts' = IF role = "prompt" THEN prompts \cup {n + 1} ELSE prompts
          /\ tokens' = IF role = "token" THEN tokens \cup {n + 1} ELSE tokens
      BY <2>1 DEF AddInstance, n
    <3> HIDE DEF role
    <3>4. RoleOf(instances'[n + 1]) = role
      BY <2>5 DEF role
    <3>5. \A i \in 1 .. n : i \in 1 .. n + 1 /\ i # n + 1
      BY <2>4
    <3>6. n + 1 \in 1 .. n + 1
      BY <2>4
    <3>7. prompts' = {i \in 1 .. n + 1 : RoleOf(instances'[i]) = "prompt"}
      BY <2>5, <2>8, <3>2, <3>3, <3>4, <3>5, <3>6
    <3>8. tokens' = {i \in 1 .. n + 1 : RoleOf(instances'[i]) = "token"}
      BY <2>5, <2>8, <3>2, <3>3, <3>4, <3>5, <3>6
    <3>9. /\ {i \in DOMAIN instances : RoleOf(instances[i]) = "prompt"}'
               = {i \in 1 .. n + 1 : RoleOf(instances'[i]) = "prompt"}
          /\ {i \in DOMAIN instances : RoleOf(instances[i]) = "token"}'
               = {i \in 1 .. n + 1 : RoleOf(instances'[i]) = "token"}
      BY <2>5, <3>1
    <3> QED
      BY <3>7, <3>8, <3>9 DEF Placed
  <2>10. Spun'
    <3>1. Len(instances') + Len(todo') = Len(state)
      <4>1. Len(todo) \in Nat /\ n + Len(todo) = Len(state)
        BY <2>2 DEF n
      <4>2. n \in Nat /\ Len(instances') = n + 1 /\ Len(todo') = Len(todo) - 1
        BY <2>4, <2>5, <2>6
      <4> HIDE DEF planned, role
      <4> QED
        BY <4>1, <4>2, SMTT(30)
    <3>2. \A i \in 1 .. n + 1 : instances'[i] = state[i] /\ instances'[i] # Unsupported
      BY <1>3, <2>2, <2>4, <2>5, <2>8
    <3>3. \A j \in DOMAIN todo' : todo'[j] = state[(n + 1) + j]
      <4>1. ASSUME NEW j \in DOMAIN todo'
            PROVE  todo'[j] = state[(n + 1) + j]
        <5>1. todo'[j] = state[n + (j + 1)] /\ j \in Nat
          BY <2>2, <2>6
        <5>2. n + (j + 1) = (n + 1) + j
          BY <2>4, <5>1
        <5> QED
          BY <5>1, <5>2
      <4> QED
        BY <4>1
    <3>4. /\ instances' \in Seq(V') /\ todo' \in Seq(V')
          /\ Len(instances') + Len(todo') = Len(state')
          /\ \A i \in DOMAIN instances' :
               instances'[i] = state'[i] /\ instances'[i] # Unsupported
          /\ \A j \in DOMAIN todo' : todo'[j] = state'[Len(instances') + j]
      BY <2>5, <2>6, <2>7, <3>1, <3>2, <3>3
    <3>5. Unsupported' = Unsupported
      BY DEF Unsupported, Planned
    <3> QED
      BY <2>9, <3>4, <3>5 DEF Spun, V, state
  <2>11. DOMAIN share' = DOMAIN share /\ Built'
    <3>1. DOMAIN share' = DOMAIN share
      BY <2>1 DEF SharedOver
    <3> QED
      BY <1>1, <2>1, <3>1 DEF Built
  <2>12. ProcessorsUnshared'
    <3> DEFINE new == planned.processors
               own(i) == instances[i].processors
    <3>1. new # {} /\ new \subseteq DOMAIN share
      BY <1>1, <1>3, <2>4 DEF V, Real, Plans, PlansOn, Built
    <3>2. ASSUME NEW i \in 1 .. n
          PROVE  /\ own(i) # {} /\ own(i) \subseteq DOMAIN share
                 /\ own(i) \cap new = {}
                 /\ \A p \in own(i) : share[p] = Cardinality(own(i))
                 /\ \A j \in 1 .. n : i # j => own(i) \cap own(j) = {}
      <4>1. i \in DOMAIN instances /\ DOMAIN instances = 1 .. n
        BY <2>2 DEF n
      <4>2. /\ own(i) # {}
            /\ \A p \in own(i) : share[p] = Cardinality(own(i))
            /\ \A j \in 1 .. n : i # j => own(i) \cap own(j) = {}
        BY <1>1, <4>1 DEF ProcessorsUnshared
      <4>3. own(i) \subseteq DOMAIN share
        <5>1. instances[i] \in V
          BY <2>4
        <5> QED
          BY <1>1, <5>1 DEF V, Real, Plans, PlansOn, Built
      <4>4. own(i) \cap new = {}
        BY <2>2, <2>3, <2>4
      <4> QED
        BY <4>2, <4>3, <4>4
    <3>3. \A p \in DOMAIN share :
            share'[p] = IF p \in new THEN Cardinality(new) ELSE share[p]
      BY <2>1 DEF SharedOver
    <3>4. /\ \A i \in 1 .. n : instances'[i].processors = own(i)
          /\ instances'[n + 1].processors = new
      BY <2>5
    <3> HIDE DEF own, new, planned
    <3>5. ASSUME NEW i \in 1 .. n + 1
          PROVE  /\ instances'[i].processors # {}
                 /\ \A p \in instances'[i].processors :
                      share'[p] = Cardinality(instances'[i].processors)
                 /\ \A j \in 1 .. n + 1 : i # j =>
                      instances'[i].processors \cap instances'[j].processors = {}
      <4>1. CASE i = n + 1
        <5>1. \A j \in 1 .. n + 1 : i # j => j \in 1 .. n
          BY <2>8, <4>1
        <5> QED
          BY <3>1, <3>2, <3>3, <3>4, <4>1, <5>1
      <4>2. CASE i \in 1 .. n
        <5>1. \A p \in own(i) : share'[p] = share[p]
          BY <3>2, <3>3, <4>2
        <5> QED
          BY <2>8, <3>2, <3>4, <4>2, <5>1
      <4> QED
        BY <2>8, <4>1, <4>2
    <3> QED
      BY <2>5, <3>5 DEF ProcessorsUnshared
  <2>13. phase' = "allocate"
    BY <1>1, <2>1
  <2> QED
    BY <2>10, <2>11, <2>12, <2>13 DEF AllocInv
<1> QED
  BY <1>2, <1>3

(* The process of the sweep has the configuration of the sweep's point.    *)
ConfigInv ==
  /\ sweep.pc \in {"wait", "orphan"} => config = ConfigOf(Here)
  /\ sweep.pc # "idle" => EnoughServers(sweep.split)

(* Every point of a sweep has a configuration that a cluster can be built  *)
(* from, so that the laws of start states apply to it.                     *)
LEMMA ConfigBuildable ==
  ASSUME NEW point
  PROVE  Buildable(ConfigOf(point))
<1> DEFINE c == ConfigOf(point)
           a == [sku |-> "a100", count |-> TotalA100]
           h == [sku |-> "h100", count |-> 0]
<1>1. c.tp = Skus["a100"] /\ c.servers = <<a, h>>
  BY DEF ConfigOf
<1> HIDE DEF c
<1>2. c.tp \in Nat \ {0}
  BY <1>1, ConfigsAssumption
<1>3. a.count \in Nat /\ h.count \in Nat
  BY ConfigsAssumption
<1> HIDE DEF a, h
<1>4. /\ DOMAIN c.servers = 1 .. 2 /\ c.servers[1] = a /\ c.servers[2] = h
  BY <1>1
<1>5. a \in Range(c.servers) /\ h \in Range(c.servers)
  BY <1>4 DEF Range
<1>6. <<a, h>> \in Seq(Range(c.servers))
  BY <1>5
<1> QED
  BY <1>1, <1>2, <1>3, <1>4, <1>6 DEF Buildable, c

(* A step of a simulation.                                                 *)
LEMMA SimulationAllocates ==
  ASSUME AllocInv, SimulationStep
  PROVE  AllocInv' /\ config' = config
<1>1. CASE Build(traces[config.trace])
  BY <1>1, BuildAllocates DEF Build, Raise
<1>2. CASE LoadTrace
  BY <1>2, LoadTraceAllocates DEF LoadTrace, Raise
<1>3. CASE SpinUpInstance
  BY <1>3, SpinUpAllocates DEF SpinUpInstance, Raise
<1>4. CASE StartRun
  BY <1>4, OthersAllocate DEF StartRun, AllocVars
<1>5. CASE ScheduleRaises \/ FinishTask
  BY <1>5, OthersAllocate DEF ScheduleRaises, FinishTask, Raise, AllocVars
<1>6. ASSUME NEW i \in DOMAIN instances, NEW batch \in Batches, Iterate(i, batch)
      PROVE  AllocInv' /\ config' = config
  <2>1. phase = "run" /\ phase' \in {"run", "failed"} /\ UNCHANGED AllocVars
    BY <1>6 DEF Iterate, Raise, AllocVars
  <2> QED
    BY <2>1, OthersAllocate DEF AllocVars
<1>7. ASSUME NEW n \in 0 .. Len(requests), EndRun(n)
      PROVE  AllocInv' /\ config' = config
  BY <1>7, OthersAllocate DEF EndRun, AllocVars
<1>8. CASE SaveNodes \/ SaveSummary \/ SaveDetailed \/ SaveAllocations
  <2>1. /\ phase' \in {"failed", "summary", "detailed", "allocations", "done"}
        /\ UNCHANGED AllocVars
    BY <1>8 DEF SaveNodes, SaveSummary, SaveDetailed, SaveAllocations, Save, Raise, AllocVars
  <2> QED
    BY <2>1, OthersAllocate DEF AllocVars
<1> QED
  BY <1>1, <1>2, <1>3, <1>4, <1>5, <1>6, <1>7, <1>8 DEF SimulationStep

StartInv == AllocInv /\ ConfigInv

(* Every step of a study leaves the instances of a simulation as planned.  *)
LEMMA StartStep ==
  ASSUME StartInv, [StudyNext]_svars
  PROVE  StartInv'
<1>1. ASSUME UNCHANGED <<procvars, sweep>>
      PROVE  StartInv'
  <2>1. AllocInv'
    BY <1>1, OthersAllocate DEF StartInv, procvars, AllocVars
  <2> QED
    BY <1>1, <2>1 DEF StartInv, ConfigInv, Here, EnoughServers, procvars
<1>2. CASE Simulate
  <2>1. AllocInv' /\ config' = config
    BY <1>2, SimulationAllocates DEF Simulate, StartInv
  <2>2. sweep' = sweep
    BY <1>2 DEF Simulate
  <2> QED
    BY <2>1, <2>2 DEF StartInv, ConfigInv, Here, EnoughServers
<1>3. CASE LaunchByHand
  <2>1. PICK c \in HandConfigs : Launch(c)
    BY <1>3 DEF LaunchByHand
  <2>2. Buildable(c)
    BY ConfigsAssumption DEF Buildable
  <2>3. AllocInv'
    BY <2>1, <2>2, LaunchAllocates
  <2>4. sweep.pc = "idle" /\ sweep' = sweep
    BY <1>3 DEF LaunchByHand, NoSweep, studyvars
  <2> QED
    BY <2>3, <2>4 DEF StartInv, ConfigInv
<1>4. CASE LaunchPoint
  <2>1. Launch(ConfigOf(Here)) /\ sweep.pc = "next" /\ sweep' = [sweep EXCEPT !.pc = "wait"]
    BY <1>4 DEF LaunchPoint
  <2>2. AllocInv'
    BY <2>1, ConfigBuildable, LaunchAllocates
  <2>3. config' = ConfigOf(Here)
    BY <2>1 DEF Launch
  <2>4. Here' = Here /\ sweep'.split = sweep.split
    BY <2>1 DEF Here
  <2>5. \A p : ConfigOf(p)' = ConfigOf(p)
    BY DEF ConfigOf
  <2> QED
    BY <2>1, <2>2, <2>3, <2>4, <2>5 DEF StartInv, ConfigInv, EnoughServers
<1>5. CASE KillSimulation
  <2>1. /\ phase' = "killed" /\ UNCHANGED AllocVars
        /\ sweep' \in {sweep, [NoSweep EXCEPT !.number = sweep.number]}
    BY <1>5 DEF KillSimulation, Kill, AllocVars
  <2>2. AllocInv' /\ config' = config
    BY <2>1, OthersAllocate DEF StartInv, AllocVars
  <2>3. CASE sweep' = sweep
    BY <2>2, <2>3 DEF StartInv, ConfigInv, Here, EnoughServers
  <2>4. CASE sweep' = [NoSweep EXCEPT !.number = sweep.number]
    BY <2>2, <2>4 DEF StartInv, ConfigInv, NoSweep
  <2> QED
    BY <2>1, <2>3, <2>4
<1>6. ASSUME UNCHANGED procvars,
             sweep'.pc \in {"idle", "next"},
             sweep'.pc = "next" => EnoughServers(sweep'.split)
      PROVE  StartInv'
  <2>1. AllocInv'
    BY <1>6, OthersAllocate DEF StartInv, procvars, AllocVars
  <2> QED
    BY <1>6, <2>1 DEF StartInv, ConfigInv, EnoughServers
<1>7. CASE StartSweep
  BY <1>6, <1>7 DEF StartSweep
<1>8. CASE PassOver \/ SkipPoint \/ DryRun \/ PointEnds
  <2>1. UNCHANGED procvars /\ sweep.pc # "idle" /\ sweep'.pc = "next"
        /\ sweep'.split = sweep.split
    BY <1>8 DEF PassOver, SkipPoint, DryRun, PointEnds, AddRow, Advance
  <2> QED
    BY <1>6, <2>1 DEF StartInv, ConfigInv
<1>9. CASE WriteRunlog \/ OrphanEnds
  <2>1. UNCHANGED procvars /\ sweep'.pc = "idle"
    BY <1>9 DEF WriteRunlog, OrphanEnds, NoSweep
  <2> QED
    BY <1>6, <2>1
<1>9a. CASE KillSweep
  <2>1. UNCHANGED procvars
    BY <1>9a DEF KillSweep
  <2>2. CASE sweep' = [NoSweep EXCEPT !.number = sweep.number]
    BY <1>6, <2>1, <2>2 DEF NoSweep
  <2>3. CASE sweep.pc = "wait" /\ sweep' = [sweep EXCEPT !.pc = "orphan"]
    <3>1. AllocInv'
      BY <2>1, OthersAllocate DEF StartInv, procvars, AllocVars
    <3>2. sweep'.split = sweep.split /\ sweep'.k = sweep.k /\ sweep'.b = sweep.b
      BY <2>3
    <3> QED
      BY <2>1, <2>3, <3>1, <3>2 DEF StartInv, ConfigInv, Here, EnoughServers, procvars
  <2> QED
    BY <1>9a, <2>2, <2>3 DEF KillSweep
<1>10. CASE GenerateTraces \/ GenerateHandTrace \/ GenerateRateTrace
  BY <1>1, <1>10 DEF GenerateTraces, GenerateHandTrace, GenerateRateTrace
<1>11. CASE \/ StartAggregation \/ ReadPair \/ ReadDetails \/ WritePairs
            \/ AggregateSplits \/ WriteReport
  BY <1>1, <1>11 DEF StartAggregation, ReadPair, ReadDetails, WritePairs,
     AggregateSplits, WriteReport
<1>12. CASE Download \/ OtherScripts \/ UNCHANGED svars
  BY <1>1, <1>12 DEF Download, OtherScripts, svars, studyvars
<1> QED
  BY <1>2, <1>3, <1>4, <1>5, <1>7, <1>8, <1>9, <1>9a, <1>10, <1>11, <1>12
     DEF StudyNext, Study

(* So it is at the start.                                                  *)
LEMMA StartStarts == StudyInit => StartInv
BY DEF StudyInit, NotLaunched, NoSweep, StartInv, AllocInv, ConfigInv, NoneYet, ProcessorsUnshared

(* In every simulation, of a study or by hand, and for every start state   *)
(* and tensor parallelism, no processor is shared by two instances and     *)
(* each holds its part of the weights (processor.py, memory_used).         *)
THEOREM NoProcessorShared == StudySpec => []ProcessorsUnshared
<1>1. StartInv => ProcessorsUnshared
  BY DEF StartInv, AllocInv
<1>2. StartInv /\ [StudyNext]_svars => StartInv'
  BY StartStep
<1> QED
  BY <1>1, <1>2, StartStarts, PTL DEF StudySpec

(* The servers of a simulation of the study.                               *)
LEMMA StudyServers ==
  ASSUME NEW point
  PROVE  /\ Len(Servers(ConfigOf(point))) = TotalA100
         /\ DOMAIN Servers(ConfigOf(point)) = 1 .. TotalA100
         /\ \A s \in 1 .. TotalA100 : Servers(ConfigOf(point))[s] = "a100"
<1> DEFINE c == ConfigOf(point)
           a == [sku |-> "a100", count |-> TotalA100]
           h == [sku |-> "h100", count |-> 0]
           as == [n \in 1 .. TotalA100 |-> "a100"]
           hs == [n \in 1 .. 0 |-> "h100"]
           rows(cs) == [k \in DOMAIN cs |-> [n \in 1 .. cs[k].count |-> cs[k].sku]]
<1>1. c.servers = <<a, h>>
  BY DEF ConfigOf
<1>2. Servers(c) = FlattenSeq(rows(c.servers))
  BY DEF Servers
<1>3. rows(<<a, h>>) = <<as, hs>>
  <2> DEFINE cs == <<a, h>>
             r == rows(cs)
  <2>1. /\ cs[1].count = TotalA100 /\ cs[1].sku = "a100"
        /\ cs[2].count = 0 /\ cs[2].sku = "h100"
        /\ DOMAIN cs = 1 .. 2
    OBVIOUS
  <2>2. r = [k \in 1 .. 2 |-> r[k]]
    BY <2>1
  <2>3. r[1] = [n \in 1 .. cs[1].count |-> cs[1].sku]
        /\ r[2] = [n \in 1 .. cs[2].count |-> cs[2].sku]
    BY <2>1
  <2>4. r[1] = as /\ r[2] = hs
    BY <2>1, <2>3
  <2> HIDE DEF r, as, hs
  <2>5. r = <<r[1], r[2]>>
    BY <2>2, RowsAreTwo
  <2> QED
    BY <2>4, <2>5 DEF r
<1>4. as \in Seq({"a100", "h100"}) /\ hs \in Seq({"a100", "h100"}) /\ hs = <<>>
  BY ConfigsAssumption
<1> HIDE DEF rows, c, hs
<1>5. Servers(c) = as \o hs
  <2> HIDE DEF as
  <2>1. FlattenSeq(<<as, hs>>) = as \o hs
    BY <1>4, FlattenTwo
  <2> QED
    BY <1>1, <1>2, <1>3, <2>1
<1>6. as \o hs = as
  BY <1>4
<1>7. Servers(c) = as
  BY <1>5, <1>6
<1> QED
  BY <1>7, ConfigsAssumption DEF c

(* With the tensor parallelism of the study, a server is one slice.        *)
LEMMA OneSlice ==
  ASSUME NEW point, NEW s \in 1 .. TotalA100, NEW tag
  PROVE  \E processors :
           Slices(ConfigOf(point), s, tag) = <<Planned(tag, "a100", processors)>>
<1> DEFINE c == ConfigOf(point)
           n == Skus["a100"]
           own(k) == {<<s, j>> : j \in {i \in 1 .. n : (k - 1) * c.tp < i /\ i <= k * c.tp}}
<1>1. c.tp = n /\ n \in Nat \ {0} /\ Servers(c)[s] = "a100"
  BY StudyServers, ConfigsAssumption DEF ConfigOf
<1>2. Slices(c, s, tag) =
        [k \in 1 .. (n + c.tp - 1) \div c.tp |-> Planned(tag, "a100", own(k))]
  BY <1>1 DEF Slices
<1> HIDE DEF n
<1>3. (n + n - 1) \div n = 1
  <2> DEFINE q == (n + n - 1) \div n
  <2>1. q \in Nat /\ q * n <= n + n - 1 /\ n + n - 1 < q * n + n
    BY <1>1
  <2> HIDE DEF q
  <2>2. q < 2
    <3>1. CASE q >= 2
      <4>1. q * n >= 2 * n
        BY <1>1, <2>1, <3>1
      <4> QED
        BY <1>1, <2>1, <4>1
    <3> QED
      BY <2>1, <3>1
  <2>3. q # 0
    BY <1>1, <2>1
  <2> QED
    BY <2>1, <2>2, <2>3 DEF q
<1> HIDE DEF own
<1>4. Slices(c, s, tag) = [k \in 1 .. 1 |-> Planned(tag, "a100", own(k))]
  BY <1>1, <1>2, <1>3
<1>5. [k \in 1 .. 1 |-> Planned(tag, "a100", own(k))] = <<Planned(tag, "a100", own(1))>>
  OBVIOUS
<1> QED
  BY <1>4, <1>5

(* The start state of a baseline is one instance for each server.          *)
LEMMA BaselineStartState ==
  ASSUME NEW point, point.system # "pd"
  PROVE  Len(StartState(ConfigOf(point))) = TotalA100
<1> DEFINE c == ConfigOf(point)
<1>1. c.state = "uniform"
  BY DEF ConfigOf
<1>2. StartState(c) = [s \in 1 .. Len(Servers(c)) |-> Whole(c, s)]
  BY <1>1 DEF StartState
<1>3. Len(Servers(c)) = TotalA100 /\ TotalA100 \in Nat
  BY StudyServers, ConfigsAssumption
<1> QED
  BY <1>2, <1>3

(* That of a split is a prompt instance for each of the first servers, and *)
(* a token instance for each of the next.                                  *)
LEMMA SplitStartState ==
  ASSUME NEW point, point.system = "pd", point.split \in Nat \X Nat,
         EnoughServers(point.split)
  PROVE  /\ Len(StartState(ConfigOf(point))) = point.split[1] + point.split[2]
         /\ \A s \in 1 .. point.split[1] + point.split[2] :
              StartState(ConfigOf(point))[s].tag
                = IF s <= point.split[1] THEN "prompt" ELSE "token"
<1> DEFINE c == ConfigOf(point)
           x == point.split[1]
           y == point.split[2]
           role(s) == IF s <= x THEN "prompt" ELSE "token"
           slice(s) == Slices(c, s, role(s))
           first == [s \in 1 .. TotalA100 |-> slice(s)[1]]
           plans(s) ==
             CASE s <= c.prompts                             -> Slices(c, s, "prompt")
               [] s > c.prompts /\ s <= c.prompts + c.tokens -> Slices(c, s, "token")
               [] OTHER                                      -> <<>>
           ss == [s \in 1 .. TotalA100 |-> plans(s)]
<1>1. /\ c.state = "homogeneous" /\ c.prompts = x /\ c.tokens = y
      /\ x \in Nat /\ y \in Nat /\ x + y <= TotalA100 /\ TotalA100 \in Nat
  BY ConfigsAssumption DEF ConfigOf, EnoughServers
<1>2. StartState(c) = FlattenSeq(ss)
  <2>1. StartState(c) = Homogeneous(c)
    BY <1>1 DEF StartState
  <2>2. Len(Servers(c)) = TotalA100
    BY StudyServers
  <2> QED
    BY <2>1, <2>2 DEF Homogeneous
<1> HIDE DEF c, x, y
<1>3. ASSUME NEW s \in 1 .. TotalA100
      PROVE  slice(s) = <<first[s]>> /\ first[s].tag = role(s)
  <2>1. PICK processors : slice(s) = <<Planned(role(s), "a100", processors)>>
    BY OneSlice DEF c
  <2>2. first[s] = Planned(role(s), "a100", processors)
    BY <2>1
  <2> QED
    BY <2>1, <2>2 DEF Planned
<1>4. ASSUME NEW s \in 1 .. TotalA100
      PROVE  plans(s) = IF s <= x + y THEN slice(s) ELSE <<>>
  BY <1>1
<1> DEFINE S == Range(first)
<1>5. \A s \in 1 .. TotalA100 : first[s] \in S
  BY DEF Range
<1> HIDE DEF first, slice, plans, S, role
<1>6. ASSUME NEW s \in 1 .. TotalA100
      PROVE  plans(s) \in Seq(S)
  <2>1. plans(s) = <<first[s]>> \/ plans(s) = <<>>
    BY <1>3, <1>4
  <2>2. first[s] \in S
    BY <1>5
  <2>3. <<first[s]>> \in Seq(S) /\ <<>> \in Seq(S)
    BY <2>2
  <2> QED
    BY <2>1, <2>3
<1>7. ss \in Seq(Seq(S)) /\ Len(ss) = TotalA100 /\ DOMAIN ss = 1 .. TotalA100
  <2> DEFINE V == Seq(S)
  <2>1. \A s \in 1 .. TotalA100 : plans(s) \in V
    BY <1>6
  <2> HIDE DEF V
  <2>2. ss \in Seq(V) /\ Len(ss) = TotalA100 /\ DOMAIN ss = 1 .. TotalA100
    BY <1>1, <2>1
  <2> QED
    BY <2>2 DEF V
<1>8. \A s \in DOMAIN ss : ss[s] = IF s <= x + y THEN <<first[s]>> ELSE <<>>
  BY <1>3, <1>4, <1>7
<1> HIDE DEF ss
<1>9. x + y \in 0 .. Len(ss)
  BY <1>1, <1>7
<1>10. /\ Len(FlattenSeq(ss)) = x + y
       /\ \A s \in 1 .. x + y : FlattenSeq(ss)[s] = first[s]
  BY <1>7, <1>8, <1>9, FlattenSingles
<1>11. \A s \in 1 .. x + y : s \in 1 .. TotalA100
  BY <1>1
<1>12. \A s \in 1 .. x + y : FlattenSeq(ss)[s].tag = role(s)
  BY <1>3, <1>10, <1>11
<1> QED
  BY <1>2, <1>10, <1>12 DEF c, x, y, role

(* A simulation of the sweep serves its requests with the prompt and token *)
(* instances its directory is named for: the start state, the roles of the *)
(* scheduler and the command line agree (run_param_sweep.py).              *)
THEOREM SplitsAsNamed == StudySpec => []SplitAsNamed
<1>1. ASSUME StudyInv, StartInv
      PROVE  SplitAsNamed
  <2>1. ASSUME phase = "run", sweep.pc \in {"wait", "orphan"}
        PROVE  IF Here.system = "pd"
               THEN Cardinality(prompts) = Here.split[1] /\ Cardinality(tokens) = Here.split[2]
               ELSE Len(instances) = TotalA100 /\ prompts = {} /\ tokens = {}
    <3> DEFINE n == Len(instances)
               state == StartState(config)
    <3>1. config = ConfigOf(Here) /\ EnoughServers(sweep.split)
      BY <1>1, <2>1 DEF StartInv, ConfigInv
    <3>2. /\ Spun /\ todo = <<>> /\ config.scheduler \in DOMAIN SchedulerConfigs
      BY <1>1, <2>1 DEF StartInv, AllocInv, Built
    <3>3. /\ n = Len(state) /\ n \in Nat /\ DOMAIN instances = 1 .. n
          /\ \A i \in 1 .. n : instances[i] = state[i] /\ instances[i] # Unsupported
          /\ prompts = {i \in 1 .. n : RoleOf(instances[i]) = "prompt"}
          /\ tokens = {i \in 1 .. n : RoleOf(instances[i]) = "token"}
      BY <3>2 DEF Spun, Placed
    <3>4. /\ sweep.split \in Splits /\ sweep.b \in 0 .. Len(Bandwidths)
      BY <1>1, <2>1 DEF StudyInv, LoopInv
    <3> HIDE DEF state
    <3>5. CASE sweep.b # 0
      <4> DEFINE x == sweep.split[1]
                 y == sweep.split[2]
      <4>1. /\ Here.system = "pd" /\ Here.split = sweep.split
            /\ Here.bandwidth \in Range(Bandwidths)
        BY <3>4, <3>5, StudyAssumption DEF Here, PointAt, PD, Range
      <4>2. sweep.split \in Nat \X Nat /\ x \in Nat /\ y \in Nat
        BY <3>4, ConfigsAssumption
      <4>3. /\ n = x + y
            /\ \A i \in 1 .. n : instances[i].tag = IF i <= x THEN "prompt" ELSE "token"
        <5>1. Here.split \in Nat \X Nat /\ EnoughServers(Here.split)
          BY <3>1, <4>1, <4>2
        <5>2. /\ Len(StartState(ConfigOf(Here))) = Here.split[1] + Here.split[2]
              /\ \A s \in 1 .. Here.split[1] + Here.split[2] :
                   StartState(ConfigOf(Here))[s].tag
                     = IF s <= Here.split[1] THEN "prompt" ELSE "token"
          BY <4>1, <5>1, SplitStartState
        <5>3. state = StartState(ConfigOf(Here))
          BY <3>1 DEF state
        <5> HIDE DEF n
        <5> QED
          BY <3>3, <4>1, <5>2, <5>3
      <4>4. Scheduler.kind # "plain"
        <5>1. config.scheduler = <<"mixed_pool", Here.bandwidth>>
          BY <3>1, <4>1 DEF ConfigOf
        <5> QED
          BY <3>2, <4>1, <5>1, ConfigsAssumption DEF Scheduler
      <4> HIDE DEF n, x, y
      <4>5. \A i \in 1 .. n : RoleOf(instances[i]) = IF i <= x THEN "prompt" ELSE "token"
        <5>1. \A p : p.tag \in {"prompt", "token"} => RoleOf(p) = p.tag
          BY <4>4 DEF RoleOf
        <5> QED
          BY <4>3, <5>1
      <4>6. prompts = 1 .. x /\ tokens = x + 1 .. x + y
        BY <3>3, <4>2, <4>3, <4>5 DEF x, y
      <4>7. x \in Nat /\ y \in Nat
        BY <4>2
      <4>8. Cardinality(1 .. x) = x /\ Cardinality(x + 1 .. x + y) = y
        BY <4>7, FS_Interval
      <4> QED
        BY <4>1, <4>6, <4>8 DEF x, y
    <3>6. CASE sweep.b = 0
      <4>1. Here.system = "baseline"
        BY <3>6 DEF Here, PointAt, Baseline
      <4>2. n = TotalA100
        BY <3>1, <3>3, <4>1, BaselineStartState DEF state
      <4>3. Scheduler.kind = "plain"
        <5>1. config.scheduler = <<"token_jsq">>
          BY <3>1, <4>1 DEF ConfigOf
        <5> QED
          BY <3>2, <5>1, ConfigsAssumption DEF Scheduler
      <4>4. prompts = {} /\ tokens = {}
        <5>1. \A p : RoleOf(p) = "none"
          BY <4>3 DEF RoleOf
        <5> QED
          BY <3>3, <5>1
      <4> QED
        BY <4>1, <4>2, <4>4
    <3> QED
      BY <3>5, <3>6
  <2> QED
    BY <2>1 DEF SplitAsNamed, Simulating
<1>2. StartInv /\ [StudyNext]_svars => StartInv'
  BY StartStep
<1> QED
  BY <1>1, <1>2, StartStarts, StudyStarts, StudyStep, PTL DEF StudySpec
-----------------------------------------------------------------------------
(* What is cached is what would be predicted.                              *)
Exact(cache, predicted) ==
  /\ DOMAIN cache \subseteq Keys
  /\ \A key \in DOMAIN cache : cache[key] = predicted[key]

CacheInv ==
  /\ Exact(promptCache, PromptTime)
  /\ Exact(tokenCache, TokenTime)
  /\ DurationIsFresh
-----------------------------------------------------------------------------
(* A cache that is exact answers as the predictor would.                   *)
LEMMA LookupIsExact ==
  ASSUME NEW cache, NEW predicted, NEW key, Exact(cache, predicted)
  PROVE  Lookup(cache, key, predicted) = predicted[key]
  BY DEF Exact, Lookup

(* An exact cache remains exact when the predictor's answer is stored.     *)
LEMMA StoredIsExact ==
  ASSUME NEW cache, NEW predicted, NEW key \in Keys, Exact(cache, predicted)
  PROVE  Exact(Stored(cache, key, predicted[key]), predicted)
  BY DEF Exact, Stored

(* The key of a batch is one the predictor was asked about.                *)
LEMMA KeysOfBatches ==
  ASSUME NEW predictor \in Predictors, NEW batch \in Batches
  PROVE  Key(predictor, batch) \in Keys
<1>1. batch.prompt + batch.token \in 1 .. MaxTokens
  BY DEF Batches
<1> QED
  BY <1>1 DEF Key, Keys

(* An answer leaves the caches exact and is what the predictors say.        *)
LEMMA DurationKeepsExact ==
  ASSUME CacheInv, NEW predictor \in Predictors, NEW batch \in Batches,
         IterationDuration(predictor, batch)
  PROVE  CacheInv'
<1> DEFINE kind == Kind(batch)
           key  == Key(predictor, batch)
<1>1. key \in Keys
  BY KeysOfBatches
<1>2. CASE kind = "token"
  <2>1. /\ tokenCache' = Stored(tokenCache, key, TokenTime[key])
        /\ answer' = [kind |-> kind, key |-> key, time |-> Scale(kind) * TokenTime[key]]
        /\ promptCache' = promptCache
    BY <1>2, LookupIsExact DEF IterationDuration, CacheInv
  <2>2. DurationIsFresh'
    BY <1>2, <2>1 DEF DurationIsFresh, Predicted
  <2> QED
    BY <1>1, <2>1, <2>2, StoredIsExact DEF CacheInv
<1>3. CASE kind # "token"
  <2>1. /\ promptCache' = Stored(promptCache, key, PromptTime[key])
        /\ answer' = [kind |-> kind, key |-> key, time |-> Scale(kind) * PromptTime[key]]
        /\ tokenCache' = tokenCache
    BY <1>3, LookupIsExact DEF IterationDuration, CacheInv
  <2>2. DurationIsFresh'
    BY <1>3, <2>1 DEF DurationIsFresh, Predicted
  <2> QED
    BY <1>1, <2>1, <2>2, StoredIsExact DEF CacheInv
<1> QED
  BY <1>2, <1>3

(* Before the first question the caches are empty.                         *)
LEMMA CacheStarts == PerfInit => CacheInv
  BY DEF PerfInit, CacheInv, Exact, EmptyCache, NoAnswer, DurationIsFresh

(* The caches stay exact while nobody asks.                                *)
LEMMA CacheRests == CacheInv /\ UNCHANGED perfvars => CacheInv'
  BY DEF perfvars, CacheInv, DurationIsFresh, Predicted

(* A new process starts with empty caches.                                 *)
LEMMA CacheRelaunched ==
  ASSUME NEW c, Launch(c)
  PROVE  CacheInv'
  BY DEF Launch, CacheInv, Exact, EmptyCache, NoAnswer, DurationIsFresh

(* Of the steps of a simulation only an iteration asks.                    *)
LEMMA CacheSimulated ==
  ASSUME CacheInv, SimulationStep
  PROVE  CacheInv'
<1>1. ASSUME NEW i \in DOMAIN instances, NEW batch \in Batches, Iterate(i, batch)
      PROVE  CacheInv'
  <2>1. CASE Raise
    BY <2>1, CacheRests DEF Raise
  <2>2. CASE <<instances[i].name, config.tp>> \in Predictors
             /\ IterationDuration(<<instances[i].name, config.tp>>, batch)
    BY <2>2, DurationKeepsExact
  <2> QED
    BY <1>1, <2>1, <2>2 DEF Iterate
<1>2. CASE \/ Build(traces[config.trace]) \/ LoadTrace \/ SpinUpInstance \/ StartRun
           \/ ScheduleRaises \/ FinishTask
           \/ \E n \in 0 .. Len(requests) : EndRun(n)
           \/ SaveNodes \/ SaveSummary \/ SaveDetailed \/ SaveAllocations
  BY <1>2, CacheRests DEF Build, LoadTrace, SpinUpInstance, StartRun, ScheduleRaises,
     FinishTask, EndRun, SaveNodes, SaveSummary, SaveDetailed, SaveAllocations, Save,
     Raise
<1> QED
  BY <1>1, <1>2 DEF SimulationStep

(* So do those of the study, which starts process after process.           *)
LEMMA CacheStudied == CacheInv /\ [StudyNext]_svars => CacheInv'
<1> SUFFICES ASSUME CacheInv, [StudyNext]_svars PROVE CacheInv'
  OBVIOUS
<1>1. CASE LaunchByHand \/ LaunchPoint
  BY <1>1, CacheRelaunched DEF LaunchByHand, LaunchPoint
<1>2. CASE Simulate
  BY <1>2, CacheSimulated DEF Simulate
<1>3. CASE KillSimulation
  BY <1>3, CacheRests DEF KillSimulation, Kill
<1>4. CASE \/ GenerateTraces \/ GenerateHandTrace \/ GenerateRateTrace
           \/ StartSweep \/ PassOver \/ SkipPoint \/ DryRun \/ PointEnds \/ WriteRunlog
           \/ KillSweep \/ OrphanEnds
  BY <1>4, CacheRests DEF GenerateTraces, GenerateHandTrace, GenerateRateTrace,
     StartSweep, PassOver, SkipPoint, DryRun, PointEnds, WriteRunlog, KillSweep, OrphanEnds
<1>5. CASE \/ StartAggregation \/ ReadPair \/ ReadDetails \/ WritePairs
           \/ AggregateSplits \/ WriteReport
  BY <1>5, CacheRests DEF StartAggregation, ReadPair, ReadDetails, WritePairs,
     AggregateSplits, WriteReport
<1>6. CASE Download \/ OtherScripts \/ UNCHANGED svars
  BY <1>6, CacheRests DEF Download, OtherScripts, svars
<1> QED
  BY <1>1, <1>2, <1>3, <1>4, <1>5, <1>6 DEF StudyNext, Study

(* The caches never change what get_iteration_duration answers, to any     *)
(* simulation of a study.                                                  *)
THEOREM DurationsAreFresh == StudySpec => []DurationIsFresh
<1>1. StudyInit => CacheInv
  BY CacheStarts DEF StudyInit, NotLaunched
<1>2. CacheInv => DurationIsFresh
  BY DEF CacheInv
<1> QED
  BY <1>1, <1>2, CacheStudied, PTL DEF StudySpec

(* The same of the performance model on its own, asked anything.           *)
THEOREM AnswersAreFresh == PerfSpec => []DurationIsFresh
<1>1. CacheInv => DurationIsFresh
  BY DEF CacheInv
<1>2. CacheInv /\ [PerfNext]_perfvars => CacheInv'
  BY DurationKeepsExact, CacheRests DEF PerfNext
<1> QED
  BY <1>1, <1>2, CacheStarts, PTL DEF PerfSpec

-----------------------------------------------------------------------------
(* The reports.                                                            *)

(* A table by splits: results have a ratio, and no row is there twice.     *)
Table(rows) ==
  /\ IsFiniteSet(rows)
  /\ \A r \in rows : /\ r.split \in SplitNames /\ r.ratio \in Nat
                     /\ (r.status = "ok" <=> r.ratio # Missing)
  /\ \A q, r \in rows : q.case = r.case /\ q.split = r.split => q = r

(* The rows are those that the tables have results of.                     *)
Shown(rows, tables) ==
  /\ \A r \in rows : /\ r.split \in SplitNames /\ r.ratio \in Nat /\ r.ratio # Missing
                     /\ r.case \in AllCases(tables)
                     /\ RatioIn(tables, r.case, r.split) = r.ratio
  /\ \A c, s : s \in SplitsOf(tables, c) => \E r \in rows : r.case = c /\ r.split = s

(* What the aggregation writes is a table.                                 *)
LEMMA SplitTableIsTable ==
  ASSUME NEW cases, IsFiniteSet(cases), NEW ratios \in SUBSET (Nat \ {Missing}),
         NEW rows \in SplitTables(cases, ratios)
  PROVE  Table(rows)
<1> DEFINE places == cases \X SplitNames
           row(t, q) == [case |-> q[1], split |-> q[2], ratio |-> t[q],
                         status |-> IF t[q] = Missing THEN "missing" ELSE "ok"]
<1>1. PICK t \in [places -> ratios \cup {Missing}] : rows = {row(t, q) : q \in places}
  BY DEF SplitTables
<1>2. IsFiniteSet(places)
  BY ReportAssumption, FS_Product
<1>3. IsFiniteSet(rows)
  <2> DEFINE all == [q \in places |-> row(t, q)]
  <2>1. all \in Surjection(places, rows)
    <3> HIDE DEF places
    <3> QED
      BY <1>1 DEF Surjection
  <2> HIDE DEF all, places
  <2> QED
    BY <1>2, <2>1, FS_Surjection
<1>4. ASSUME NEW r \in rows
      PROVE  /\ r.split \in SplitNames /\ r.ratio \in Nat
             /\ (r.status = "ok" <=> r.ratio # Missing)
  <2>1. PICK q \in places : r = row(t, q)
    BY <1>1
  <2>2. t[q] \in ratios \cup {Missing} /\ q[2] \in SplitNames
    OBVIOUS
  <2>3. r.split = q[2] /\ r.ratio = t[q]
        /\ r.status = IF t[q] = Missing THEN "missing" ELSE "ok"
    BY <2>1
  <2>4. r.split \in SplitNames /\ r.ratio \in Nat
    <3>1. Missing \in Nat
      BY DEF Missing
    <3>2. \A x \in ratios \cup {Missing} : x \in Nat
      BY <3>1
    <3>3. t[q] \in Nat
      BY <2>2, <3>2
    <3> QED
      BY ONLY <2>2, <2>3, <3>3
  <2>5. CASE t[q] = Missing
    BY ONLY <2>3, <2>4, <2>5
  <2>6. CASE t[q] # Missing
    BY ONLY <2>3, <2>4, <2>6
  <2> QED
    BY ONLY <2>5, <2>6
<1>5. ASSUME NEW q \in rows, NEW r \in rows, q.case = r.case, q.split = r.split
      PROVE  q = r
  <2>1. PICK x \in places : q = row(t, x)
    BY <1>1
  <2>2. PICK y \in places : r = row(t, y)
    BY <1>1
  <2>3. x[1] = y[1] /\ x[2] = y[2]
    BY <1>5, <2>1, <2>2
  <2> QED
    BY <2>1, <2>2, <2>3
<1> QED
  BY <1>1, <1>3, <1>4, <1>5 DEF Table

(* A result counts if no table before its own has one of the case and      *)
(* split.                                                                  *)
LEMMA RatioOfFirst ==
  ASSUME NEW tables, DOMAIN tables \subseteq Nat, NEW k \in DOMAIN tables,
         Table(tables[k]), NEW r \in CompleteRows(tables[k]),
         \A j \in DOMAIN tables : j < k => \A q \in CompleteRows(tables[j]) :
           q.case # r.case \/ q.split # r.split
  PROVE  RatioIn(tables, r.case, r.split) = r.ratio
<1> DEFINE found(j) == {q \in CompleteRows(tables[j]) : q.case = r.case /\ q.split = r.split}
           having == {j \in DOMAIN tables : found(j) # {}}
           first == CHOOSE j \in having : \A i \in having : j <= i
<1>1. found(k) = {r}
  BY DEF Table, CompleteRows
<1>2. k \in having /\ \A i \in having : k <= i
  BY <1>1
<1>3. first = k
  <2>1. first \in having /\ \A i \in having : first <= i
    BY <1>2
  <2> QED
    BY <1>2, <2>1
<1> HIDE DEF first
<1>4. found(first) = {r} /\ having # {}
  BY <1>1, <1>2, <1>3
<1>5. (CHOOSE q \in found(first) : TRUE) = r
  BY <1>4
<1> QED
  BY <1>4, <1>5 DEF RatioIn, first

(* A case and split with a ratio has a result in some table.               *)
LEMMA RatioIsFound ==
  ASSUME NEW tables, NEW c, NEW s, s \in SplitsOf(tables, c)
  PROVE  /\ s \in SplitNames
         /\ \E k \in DOMAIN tables : \E r \in CompleteRows(tables[k]) :
              r.case = c /\ r.split = s
BY DEF SplitsOf, RatioIn

(* The table itself.                                                       *)
LEMMA OneShown ==
  ASSUME NEW a, Table(a)
  PROVE  Shown(CompleteRows(a), <<a>>)
<1> DEFINE tables == <<a>>
<1>1. DOMAIN tables = {1} /\ tables[1] = a
  OBVIOUS
<1> HIDE DEF tables
<1>2. ASSUME NEW r \in CompleteRows(a)
      PROVE  /\ r.split \in SplitNames /\ r.ratio \in Nat /\ r.ratio # Missing
             /\ r.case \in AllCases(tables)
             /\ RatioIn(tables, r.case, r.split) = r.ratio
  <2>1. r \in a /\ r.status = "ok"
    BY DEF CompleteRows
  <2>2. r.case \in AllCases(tables)
    BY <1>1, <2>1 DEF AllCases, CasesIn
  <2>3. RatioIn(tables, r.case, r.split) = r.ratio
    <3>1. DOMAIN tables \subseteq Nat /\ 1 \in DOMAIN tables
      BY <1>1
    <3>2. \A j \in DOMAIN tables : ~ (j < 1)
      BY <1>1
    <3> QED
      BY <1>1, <3>1, <3>2, RatioOfFirst
  <2> QED
    BY <2>1, <2>2, <2>3 DEF Table
<1>3. \A c, s : s \in SplitsOf(tables, c) =>
        \E r \in CompleteRows(a) : r.case = c /\ r.split = s
  BY <1>1, RatioIsFound
<1>4. Shown(CompleteRows(a), tables)
  BY <1>2, <1>3 DEF Shown
<1> QED
  BY <1>4 DEF tables

(* Two tables that are merged.                                             *)
LEMMA TwoShown ==
  ASSUME NEW a, NEW b, Table(a), Table(b)
  PROVE  Shown(Merged(a, b), <<a, b>>)
<1> DEFINE tables == <<a, b>>
<1>1. DOMAIN tables = {1, 2} /\ tables[1] = a /\ tables[2] = b
  OBVIOUS
<1> HIDE DEF tables
<1>2. DOMAIN tables \subseteq Nat
  BY <1>1
<1>3. ASSUME NEW r \in Merged(a, b)
      PROVE  /\ r.split \in SplitNames /\ r.ratio \in Nat /\ r.ratio # Missing
             /\ r.case \in AllCases(tables)
             /\ RatioIn(tables, r.case, r.split) = r.ratio
  <2>1. \/ r \in CompleteRows(a)
        \/ r \in CompleteRows(b) /\ \A q \in CompleteRows(a) :
                                      q.case # r.case \/ q.split # r.split
    BY DEF Merged, FirstOfEach
  <2>2. r \in a \cup b /\ r.status = "ok"
    BY <2>1 DEF CompleteRows
  <2>3. r.case \in AllCases(tables)
    BY <1>1, <2>2 DEF AllCases, CasesIn
  <2>4. r.split \in SplitNames /\ r.ratio \in Nat /\ r.ratio # Missing
    BY <2>2 DEF Table
  <2>5. CASE r \in CompleteRows(a)
    <3>1. \A j \in DOMAIN tables : ~ (j < 1)
      BY <1>1
    <3>2. RatioIn(tables, r.case, r.split) = r.ratio
      BY <1>1, <1>2, <2>5, <3>1, RatioOfFirst
    <3> QED
      BY <2>3, <2>4, <3>2
  <2>6. CASE r \in CompleteRows(b) /\ \A q \in CompleteRows(a) :
                                       q.case # r.case \/ q.split # r.split
    <3>1. \A j \in DOMAIN tables : j < 2 => j = 1
      BY <1>1
    <3>2. 2 \in DOMAIN tables /\ Table(tables[2]) /\ r \in CompleteRows(tables[2])
      BY <1>1, <2>6
    <3>3. \A j \in DOMAIN tables : j < 2 => \A q \in CompleteRows(tables[j]) :
            q.case # r.case \/ q.split # r.split
      BY <1>1, <2>6, <3>1
    <3>4. RatioIn(tables, r.case, r.split) = r.ratio
      BY <1>2, <3>2, <3>3, RatioOfFirst
    <3> QED
      BY <2>3, <2>4, <3>4
  <2> QED
    BY <2>1, <2>5, <2>6
<1>4. ASSUME NEW c, NEW s, s \in SplitsOf(tables, c)
      PROVE  \E r \in Merged(a, b) : r.case = c /\ r.split = s
  <2>1. PICK k \in DOMAIN tables :
          \E r \in CompleteRows(tables[k]) : r.case = c /\ r.split = s
    BY <1>4, RatioIsFound
  <2>2. \E r \in CompleteRows(a) \cup CompleteRows(b) : r.case = c /\ r.split = s
    BY <1>1, <2>1
  <2> QED
    BY <2>2 DEF Merged, FirstOfEach
<1>5. Shown(Merged(a, b), tables)
  BY <1>3, <1>4 DEF Shown
<1> QED
  BY <1>5 DEF tables

(* The best of what is shown is the best there is, of every case.          *)
LEMMA BestOfShown ==
  ASSUME NEW rows, NEW tables, Shown(rows, tables)
  PROVE  /\ DOMAIN Best(rows) = CasesIn(rows)
         /\ BestIsBest(Best(rows), tables)
         /\ \A c : SplitsOf(tables, c) # {} => c \in CasesIn(rows)
<1>1. DOMAIN Best(rows) = CasesIn(rows)
  BY DEF Best
<1>2. ASSUME NEW c \in CasesIn(rows), NEW s \in Best(rows)[c], NEW t \in SplitsOf(tables, c)
      PROVE  /\ s \in SplitsOf(tables, c)
             /\ RatioIn(tables, c, s) <= RatioIn(tables, c, t)
  <2>1. PICK r \in rows : /\ r.case = c /\ r.split = s
                          /\ \A q \in rows : q.case = c => r.ratio <= q.ratio
    BY DEF Best
  <2>2. PICK q \in rows : q.case = c /\ q.split = t
    BY DEF Shown
  <2>3. RatioIn(tables, c, s) = r.ratio /\ RatioIn(tables, c, t) = q.ratio
    BY <2>1, <2>2 DEF Shown
  <2>4. s \in SplitNames /\ r.ratio # Missing
    BY <2>1 DEF Shown
  <2> QED
    BY <2>1, <2>2, <2>3, <2>4 DEF SplitsOf
<1>3. \A c : SplitsOf(tables, c) # {} => c \in CasesIn(rows)
  BY DEF Shown, CasesIn
<1> QED
  BY <1>1, <1>2, <1>3 DEF BestIsBest

(* The keys of a set, and those with a key.                                 *)
KeysOf(rows, key) == {key[r] : r \in rows}

Keyed(rows, key, k) == {r \in rows : key[r] = k}

(* A set counted class by class.                                           *)
LEMMA CountByKey ==
  ASSUME NEW rows, IsFiniteSet(rows), NEW key, NEW f, IsFiniteSet(DOMAIN f),
         \A r \in rows : key[r] \in DOMAIN f,
         \A k \in DOMAIN f : f[k] = Cardinality(Keyed(rows, key, k))
  PROVE  SumFunction(f) = Cardinality(rows)
<1> DEFINE K == DOMAIN f
           Of(T) == {r \in rows : key[r] \in T}
           G == {T \in SUBSET K : SumFunctionOnSet(f, T) = Cardinality(Of(T))}
<1>1. ASSUME NEW T
      PROVE  IsFiniteSet(Of(T)) /\ Cardinality(Of(T)) \in Nat
  BY FS_Subset, FS_CardinalityType
<1>2. \A k \in K : f[k] \in Int
  <2>1. ASSUME NEW k \in K
        PROVE  f[k] \in Int
    <3>1. Keyed(rows, key, k) = Of({k})
      BY DEF Keyed
    <3>2. f[k] = Cardinality(Of({k}))
      BY <3>1
    <3> HIDE DEF Of
    <3> QED
      BY <1>1, <3>2
  <2> QED
    BY <2>1
<1>3. {} \in G
  <2>1. Of({}) = {}
    OBVIOUS
  <2> QED
    BY <2>1, SumEmpty, FS_EmptySet
<1>4. ASSUME NEW T \in G, NEW x \in K \ T
      PROVE  T \cup {x} \in G
  <2>1. IsFiniteSet(T) /\ T \subseteq K /\ SumFunctionOnSet(f, T) = Cardinality(Of(T))
    BY FS_Subset
  <2>2. SumFunctionOnSet(f, T \cup {x}) = f[x] + SumFunctionOnSet(f, T)
    <3>1. \A y \in T \cup {x} : f[y] \in Int
      BY <1>2, <2>1
    <3> QED
      BY <2>1, <3>1, SumAdd
  <2>3. Of(T \cup {x}) = Of(T) \cup Of({x}) /\ Of(T) \cap Of({x}) = {}
    OBVIOUS
  <2>4. f[x] = Cardinality(Of({x}))
    <3>1. Keyed(rows, key, x) = Of({x})
      BY DEF Keyed
    <3> QED
      BY <3>1
  <2> HIDE DEF Of
  <2>5. Cardinality(Of(T) \cup Of({x})) = Cardinality(Of(T)) + Cardinality(Of({x}))
    <3> DEFINE A == Of(T)
               B == Of({x})
    <3>1. IsFiniteSet(A) /\ IsFiniteSet(B) /\ A \cap B = {}
          /\ Cardinality(A) \in Nat /\ Cardinality(B) \in Nat
      BY <1>1, <2>3
    <3> HIDE DEF A, B
    <3>2. Cardinality(A \cup B) = Cardinality(A) + Cardinality(B) - Cardinality({})
      BY <3>1, FS_Union
    <3>3. Cardinality(A \cup B) = Cardinality(A) + Cardinality(B)
      BY <3>1, <3>2, FS_EmptySet
    <3> QED
      BY <3>3 DEF A, B
  <2>6. SumFunctionOnSet(f, T \cup {x}) = Cardinality(Of(T \cup {x}))
    <3> DEFINE a == Cardinality(Of(T))
               b == Cardinality(Of({x}))
    <3>1. a \in Nat /\ b \in Nat
      BY <1>1
    <3>2. SumFunctionOnSet(f, T \cup {x}) = b + a
      BY <2>1, <2>2, <2>4
    <3>3. Cardinality(Of(T \cup {x})) = a + b
      BY <2>3, <2>5
    <3> HIDE DEF a, b
    <3> QED
      BY <3>1, <3>2, <3>3
  <2> QED
    BY <2>1, <2>6
<1>5. K \in G
  <2>1. G \in SUBSET SUBSET K
    OBVIOUS
  <2> HIDE DEF G, K
  <2>2. IsFiniteSet(K)
    BY DEF K
  <2> QED
    BY <1>3, <1>4, <2>1, <2>2, SubsetInduction
<1>6. Of(K) = rows
  OBVIOUS
<1> HIDE DEF Of
<1> QED
  BY <1>5, <1>6 DEF SumFunction

(* An image of a finite set.                                               *)
LEMMA KeysAreFinite ==
  ASSUME NEW rows, IsFiniteSet(rows), NEW key, DOMAIN key = rows
  PROVE  IsFiniteSet(KeysOf(rows, key))
<1> DEFINE T == KeysOf(rows, key)
           g == [r \in rows |-> key[r]]
<1>1. g \in Surjection(rows, T)
  BY DEF Surjection, KeysOf
<1> HIDE DEF g, T
<1>2. IsFiniteSet(T)
  BY <1>1, FS_Surjection
<1> QED
  BY <1>2 DEF T

(* Counts by key of some rows, and of the wins.                            *)
Counted(counts, rows, key, all, won) ==
  /\ DOMAIN key = rows /\ all \subseteq rows /\ won \subseteq rows
  /\ DOMAIN counts = KeysOf(rows, key)
  /\ \A k \in DOMAIN counts :
       /\ counts[k].cases = Cardinality(Keyed(all, key, k))
       /\ counts[k].wins = Cardinality(Keyed(won, key, k))

(* They add up.                                                            *)
LEMMA CountsAddUp ==
  ASSUME NEW rows, IsFiniteSet(rows), NEW key, NEW all, NEW won, NEW counts,
         Counted(counts, rows, key, all, won)
  PROVE  /\ SumOfCases(counts) = Cardinality(all)
         /\ SumOfWins(counts) = Cardinality(won)
<1> USE DEF Counted
<1>1. IsFiniteSet(DOMAIN counts)
  BY KeysAreFinite
<1>2. IsFiniteSet(all) /\ IsFiniteSet(won)
  BY FS_Subset
<1>3. \A r \in rows : key[r] \in DOMAIN counts
  BY DEF KeysOf
<1> DEFINE f == [k \in DOMAIN counts |-> counts[k].cases]
           g == [k \in DOMAIN counts |-> counts[k].wins]
<1>4. /\ DOMAIN f = DOMAIN counts /\ DOMAIN g = DOMAIN counts
      /\ \A k \in DOMAIN counts : f[k] = Cardinality(Keyed(all, key, k))
      /\ \A k \in DOMAIN counts : g[k] = Cardinality(Keyed(won, key, k))
  OBVIOUS
<1>5. SumOfCases(counts) = SumFunction(f) /\ SumOfWins(counts) = SumFunction(g)
  BY DEF SumOfCases, SumOfWins
<1> HIDE DEF f, g
<1>6. SumFunction(f) = Cardinality(all)
  BY <1>1, <1>2, <1>3, <1>4, CountByKey
<1>7. SumFunction(g) = Cardinality(won)
  BY <1>1, <1>2, <1>3, <1>4, CountByKey
<1> QED
  BY <1>5, <1>6, <1>7

(* Wins by splits.                                                         *)
LEMMA SplitsAddUp ==
  ASSUME NEW rows, IsFiniteSet(rows), NEW counts,
         counts = [s \in SplitsIn(rows) |-> Counts(OfSplit(rows, s))]
  PROVE  Counts(rows) = [cases |-> SumOfCases(counts), wins |-> SumOfWins(counts)]
<1> DEFINE key == [r \in rows |-> r.split]
           won == {r \in rows : r.ratio < Par}
<1>1. DOMAIN key = rows /\ DOMAIN counts = KeysOf(rows, key)
  BY DEF SplitsIn, KeysOf
<1>2. ASSUME NEW k \in DOMAIN counts
      PROVE  /\ counts[k].cases = Cardinality(Keyed(rows, key, k))
             /\ counts[k].wins = Cardinality(Keyed(won, key, k))
  <2>1. OfSplit(rows, k) = Keyed(rows, key, k)
    BY DEF OfSplit, Keyed
  <2>2. {r \in OfSplit(rows, k) : r.ratio < Par} = Keyed(won, key, k)
    BY DEF OfSplit, Keyed
  <2>3. counts[k] = Counts(OfSplit(rows, k))
    OBVIOUS
  <2> HIDE DEF key, won
  <2> QED
    BY <2>1, <2>2, <2>3 DEF Counts, Wins
<1>3. won \in SUBSET rows
  OBVIOUS
<1>4. Wins(rows) = Cardinality(won)
  BY DEF Wins
<1> HIDE DEF key, won
<1>5. SumOfCases(counts) = Cardinality(rows) /\ SumOfWins(counts) = Cardinality(won)
  <2>1. Counted(counts, rows, key, rows, won)
    BY <1>1, <1>2, <1>3 DEF Counted
  <2> QED
    BY <2>1, CountsAddUp
<1> QED
  BY <1>4, <1>5 DEF Counts

(* A metric by a key of the cases.                                         *)
LEMMA MetricAddsUp ==
  ASSUME NEW rows, IsFiniteSet(rows), NEW key, DOMAIN key = rows, NEW metric,
         NEW counts, DOMAIN counts = KeysOf(rows, key),
         \A k \in DOMAIN counts : counts[k] = MetricCounts(Keyed(rows, key, k), metric)
  PROVE  MetricCounts(rows, metric)
           = [cases |-> SumOfCases(counts), wins |-> SumOfWins(counts)]
<1> DEFINE all == CasesWith(rows, metric)
           won == {r \in rows : r[metric] \in 1 .. Par - 1}
<1>1. ASSUME NEW k \in DOMAIN counts
      PROVE  /\ counts[k].cases = Cardinality(Keyed(all, key, k))
             /\ counts[k].wins = Cardinality(Keyed(won, key, k))
  <2> DEFINE own == Keyed(rows, key, k)
             lower == {r \in own : r[metric] \in 1 .. Par - 1}
  <2>1. CasesWith(own, metric) = Keyed(all, key, k)
    BY DEF CasesWith, Keyed
  <2>2. lower = Keyed(won, key, k)
    BY DEF Keyed
  <2>3. counts[k] = [cases |-> Cardinality(CasesWith(own, metric)),
                     wins  |-> Cardinality(lower)]
    BY DEF MetricCounts
  <2> HIDE DEF all, won, own, lower
  <2> QED
    BY <2>1, <2>2, <2>3
<1>2. all \in SUBSET rows /\ won \in SUBSET rows
  BY DEF CasesWith
<1>3. MetricCounts(rows, metric) = [cases |-> Cardinality(all), wins |-> Cardinality(won)]
  BY DEF MetricCounts
<1> HIDE DEF all, won
<1>4. SumOfCases(counts) = Cardinality(all) /\ SumOfWins(counts) = Cardinality(won)
  <2>1. Counted(counts, rows, key, all, won)
    BY <1>1, <1>2 DEF Counted
  <2> QED
    BY <2>1, CountsAddUp
<1> QED
  BY <1>3, <1>4

(* A seed of which several files are used has a workload in one of them.   *)
LEMMA WinsAreSeeds ==
  ASSUME NEW seeds \in SeedCases
  PROVE  \A c \in DOMAIN Robustness(seeds) :
           Robustness(seeds)[c].wins <= Robustness(seeds)[c].seeds
<1> DEFINE used == SeedFiles(seeds)
           entries == UNION {{[file |-> f, row |-> r] : r \in CompleteRows(f.rows)} :
                               f \in used}
           Of(c) == {q \in entries : q.row.case = c}
           Won(c) == {q \in Of(c) : q.row.e2e < Par}
           Seeds(c) == {q.file.seed : q \in Of(c)}
<1>1. /\ IsFiniteSet(seeds)
      /\ \A f \in seeds : IsFiniteSet(f.rows) /\ f.traced \in BOOLEAN
      /\ \A f, g \in seeds : \A q \in f.rows, r \in g.rows :
           f.traced = g.traced /\ f.seed = g.seed /\ q.case = r.case => f = g /\ q = r
  BY ReportAssumption
<1>2. used \subseteq seeds /\ \A f, g \in used : f.traced = g.traced
  BY <1>1 DEF SeedFiles
<1> HIDE DEF used
<1>3. \A q \in entries : /\ q.file \in used /\ q.row \in q.file.rows
                         /\ q = [file |-> q.file, row |-> q.row]
  BY DEF CompleteRows
<1> HIDE DEF entries
<1>4. ASSUME NEW c
      PROVE  Cardinality(Won(c)) <= Cardinality(Seeds(c))
  <2> DEFINE key == [f \in seeds |-> f.seed]
             seedOf == [q \in Won(c) |-> q.file.seed]
  <2>1. IsFiniteSet(KeysOf(seeds, key))
    BY <1>1, KeysAreFinite
  <2>2. Seeds(c) \subseteq KeysOf(seeds, key)
    BY <1>2, <1>3 DEF KeysOf
  <2>3. IsFiniteSet(Seeds(c))
    BY <2>1, <2>2, FS_Subset
  <2>4. ASSUME NEW q \in Won(c), NEW r \in Won(c), q.file.seed = r.file.seed
        PROVE  q = r
    <3>1. /\ q.file \in seeds /\ r.file \in seeds /\ q.file.traced = r.file.traced
          /\ q.row \in q.file.rows /\ r.row \in r.file.rows /\ q.row.case = r.row.case
      BY <1>2, <1>3
    <3>2. q.file = r.file /\ q.row = r.row
      BY <1>1, <2>4, <3>1
    <3> QED
      BY <1>3, <3>2
  <2>5. seedOf \in [Won(c) -> Seeds(c)]
    OBVIOUS
  <2>6. \A q, r \in Won(c) : seedOf[q] = seedOf[r] => q = r
    BY <2>4
  <2> HIDE DEF seedOf, Won, Seeds
  <2>7. seedOf \in Injection(Won(c), Seeds(c))
    BY <2>5, <2>6 DEF Injection, IsInjective
  <2> QED
    BY <2>3, <2>7, FS_Injection
<1>5. ASSUME NEW c \in DOMAIN Robustness(seeds)
      PROVE  /\ Robustness(seeds)[c].wins = Cardinality(Won(c))
             /\ Robustness(seeds)[c].seeds = Cardinality(Seeds(c))
  BY DEF Robustness, entries, used
<1> HIDE DEF Won, Seeds
<1> QED
  BY <1>4, <1>5

(* A table of pairs: results have a ratio of E2E, others none.             *)
PairTable(rows) ==
  /\ IsFiniteSet(rows)
  /\ \A r \in rows : /\ r.status = "ok" => r.e2e # Missing
                     /\ r.handoff # Missing => r.status = "ok"

(* What the aggregation of pairs writes is one.                            *)
LEMMA PairTableIsTable ==
  ASSUME NEW cases, IsFiniteSet(cases), NEW rows \in PairTables(cases)
  PROVE  PairTable(rows)
<1> DEFINE row(t, c) == [case |-> c, e2e |-> t[c][1], handoff |-> t[c][2],
                         status |-> IF t[c][1] = Missing THEN "missing" ELSE "ok"]
           values == (PairRatios \X (PairRatios \cup {Missing})) \cup {<<Missing, Missing>>}
<1>1. PICK t \in [cases -> values] : rows = {row(t, c) : c \in cases}
  BY DEF PairTables
<1> DEFINE key == [c \in cases |-> row(t, c)]
<1>2. IsFiniteSet(rows)
  <2>1. rows = KeysOf(cases, key)
    BY <1>1 DEF KeysOf
  <2>2. DOMAIN key = cases
    OBVIOUS
  <2> HIDE DEF key
  <2> QED
    BY <2>1, <2>2, KeysAreFinite
<1>3. ASSUME NEW r \in rows
      PROVE  /\ r.status = "ok" => r.e2e # Missing
             /\ r.handoff # Missing => r.status = "ok"
  <2>1. PICK c \in cases : r = row(t, c)
    BY <1>1
  <2>2. t[c] \in values
    OBVIOUS
  <2> DEFINE x == t[c][1]
             y == t[c][2]
  <2>3. x \in PairRatios \/ (x = Missing /\ y = Missing)
    BY <2>2
  <2>4. x = Missing => y = Missing
    BY <2>3, ReportAssumption
  <2>5. r.e2e = x /\ r.handoff = y /\ r.status = IF x = Missing THEN "missing" ELSE "ok"
    BY <2>1
  <2> QED
    BY ONLY <2>4, <2>5
<1> QED
  BY <1>2, <1>3 DEF PairTable

(* A script that raises before it writes a file says nothing.              *)
LEMMA NothingIsTrue ==
  ASSUME NEW m, m.files = {}, m.raised \/ m.script = "none"
  PROVE  TrueOfTables(m)
BY DEF TrueOfTables

(* Best splits by workload, and wins by splits.                            *)
LEMMA SummarizeIsTrue ==
  ASSUME NEW table, Table(table)
  PROVE  TrueOfTables(Summarize(table))
<1> DEFINE rows == CompleteRows(table)
           bySplit == [s \in SplitsIn(rows) |-> Counts(OfSplit(rows, s))]
           m == Summarize(table)
<1>1. rows = {} => m.files = {} /\ m.raised
  BY DEF Summarize, Outcome
<1>2. rows # {} => /\ m.script = "summarize" /\ m.tables = <<table>>
                   /\ m.shown.best = Best(rows) /\ m.shown.all = Counts(rows)
                   /\ m.shown.bySplit = bySplit
  BY DEF Summarize, Outcome
<1>3. IsFiniteSet(rows)
  BY FS_Subset DEF Table, CompleteRows
<1>4. Shown(rows, <<table>>)
  BY OneShown
<1> SUFFICES TrueOfTables(m)
  OBVIOUS
<1> HIDE DEF m, rows
<1>5. Counts(rows) = [cases |-> SumOfCases(bySplit), wins |-> SumOfWins(bySplit)]
  BY <1>3, SplitsAddUp
<1>6. /\ DOMAIN Best(rows) = CasesIn(rows) /\ BestIsBest(Best(rows), <<table>>)
      /\ \A c : SplitsOf(<<table>>, c) # {} => c \in CasesIn(rows)
  BY <1>4, BestOfShown
<1> HIDE DEF bySplit
<1>7. CASE rows # {}
  <2>1. NoneLeftOut(m)
    BY <1>2, <1>6, <1>7 DEF NoneLeftOut
  <2> QED
    BY <1>2, <1>5, <1>6, <1>7, <2>1 DEF TrueOfTables
<1> QED
  BY <1>1, <1>7, NothingIsTrue

(* These scripts say nothing of best splits or of numbers.                 *)
LEMMA OthersAreTrue ==
  ASSUME NEW table
  PROVE  /\ TrueOfTables(PlotResource(table))
         /\ TrueOfTables(PlotPairs(table))
         /\ TrueOfTables(PlotHeatmaps(table))
<1>1. ASSUME NEW m, m.script \in {"resource", "pairs", "heatmaps"}
      PROVE  TrueOfTables(m)
  BY <1>1 DEF TrueOfTables
<1> DEFINE a == PlotResource(table)
           b == PlotPairs(table)
           c == PlotHeatmaps(table)
<1>2. a.script = "resource"
  BY DEF PlotResource, Outcome
<1>3. b.script = "pairs"
  BY DEF PlotPairs, Outcome
<1>4. c.script = "heatmaps"
  BY DEF PlotHeatmaps, Outcome
<1> SUFFICES TrueOfTables(a) /\ TrueOfTables(b) /\ TrueOfTables(c)
  OBVIOUS
<1> HIDE DEF a, b, c
<1> QED
  BY <1>1, <1>2, <1>3, <1>4

(* Best splits by rate.                                                    *)
LEMMA CoreIsTrue ==
  ASSUME NEW table, Table(table)
  PROVE  TrueOfTables(PlotCore(table))
<1> DEFINE rows == CompleteRows(table)
           rates == RatesIn(CasesIn(rows))
           mapped == {r \in rates : \A q \in rates : q <= r => IsGrid(CasesIn(rows), q)}
           best == [c \in {d \in CasesIn(rows) : d.rate \in mapped} |-> Best(rows)[c]]
           names == ({"by_rate"} \X {"e2e", "tbt", "handoff"})
                      \cup ({"heatmap"} \X rates \X SplitsIn(rows)) \cup ({"best"} \X mapped)
           m == PlotCore(table)
<1>1. rows = {} => m.files = {} /\ m.raised
  BY DEF PlotCore, Outcome, HasRatios
<1>2. rows # {} => /\ m.script = "core" /\ m.tables = <<table>> /\ m.shown.best = best
                   /\ m.files = names /\ (m.raised <=> mapped # rates)
  BY DEF PlotCore, Outcome, HasRatios
<1>3. Shown(rows, <<table>>)
  BY OneShown
<1>4. \A r : <<"best", r>> \in names => r \in mapped
  <2> HIDE DEF mapped, rates, rows
  <2>1. \A x \in {"heatmap"} \X rates \X SplitsIn(rows) : x[1] = "heatmap"
    OBVIOUS
  <2>2. \A r : <<"best", r>> \notin {"heatmap"} \X rates \X SplitsIn(rows)
    BY <2>1
  <2> QED
    BY <2>2
<1>5. mapped \subseteq rates /\ \A c \in CasesIn(rows) : c.rate \in rates
  BY DEF RatesIn
<1> SUFFICES TrueOfTables(m)
  OBVIOUS
<1> HIDE DEF m, rows, names, mapped, rates
<1>6. /\ DOMAIN Best(rows) = CasesIn(rows) /\ BestIsBest(Best(rows), <<table>>)
      /\ \A c : SplitsOf(<<table>>, c) # {} => c \in CasesIn(rows)
  BY <1>3, BestOfShown
<1>7. BestIsBest(best, <<table>>)
  BY <1>6 DEF BestIsBest
<1>8. DOMAIN best = {d \in CasesIn(rows) : d.rate \in mapped}
  OBVIOUS
<1> HIDE DEF best
<1>9. CASE rows # {}
  <2>1. ASSUME NEW c \in AllCases(<<table>>), SplitsOf(<<table>>, c) # {}
        PROVE  c \in DOMAIN best \/ (m.raised /\ <<"best", c.rate>> \notin names)
    <3>1. c \in CasesIn(rows) /\ c.rate \in rates
      BY <1>5, <1>6, <2>1
    <3>2. CASE c.rate \notin mapped
      BY <1>2, <1>4, <1>9, <3>1, <3>2
    <3> QED
      BY <1>8, <3>1, <3>2
  <2>2. NoneLeftOut(m)
    BY <1>2, <1>9, <2>1 DEF NoneLeftOut
  <2> QED
    BY <1>2, <1>7, <1>9, <2>2 DEF TrueOfTables
<1> QED
  BY <1>1, <1>9, NothingIsTrue

(* Points by output.                                                       *)
LEMMA SpaceIsTrue ==
  ASSUME NEW table, Table(table)
  PROVE  TrueOfTables(PlotSpace(table))
<1> DEFINE rows == CompleteRows(table)
           tables == <<table>>
           points == [o \in DrawnOutputs |->
                        {r \in rows : r.case.output = o /\ HasPlace(r)}]
           m == PlotSpace(table)
<1>1. rows = {} => m.files = {} /\ m.raised
  BY DEF PlotSpace, Outcome
<1>2. rows # {} => /\ m.script = "space" /\ m.tables = tables
                   /\ m.shown.points = points
  BY DEF PlotSpace, Outcome
<1>3. Shown(rows, tables)
  BY OneShown
<1>4. \A r : HasPlace(r) <=> HasPlace([case |-> r.case, split |-> r.split])
  BY DEF HasPlace
<1> SUFFICES TrueOfTables(m)
  OBVIOUS
<1> HIDE DEF m, rows, tables
<1>5. ASSUME NEW o \in DOMAIN points
      PROVE  {<<r.case, r.split, r.ratio>> : r \in points[o]} =
               {<<q[1], q[2], RatioIn(tables, q[1], q[2])>> :
                  q \in {q \in AllCases(tables) \X SplitNames :
                           /\ q[1].output = o /\ q[2] \in SplitsOf(tables, q[1])
                           /\ HasPlace([case |-> q[1], split |-> q[2]])}}
  <2> DEFINE there == {q \in AllCases(tables) \X SplitNames :
                         /\ q[1].output = o /\ q[2] \in SplitsOf(tables, q[1])
                         /\ HasPlace([case |-> q[1], split |-> q[2]])}
  <2>1. ASSUME NEW r \in points[o]
        PROVE  \E q \in there : <<r.case, r.split, r.ratio>>
                                  = <<q[1], q[2], RatioIn(tables, q[1], q[2])>>
    <3>1. r \in rows /\ r.case.output = o /\ HasPlace(r)
      OBVIOUS
    <3>2. /\ r.case \in AllCases(tables) /\ r.split \in SplitNames
          /\ RatioIn(tables, r.case, r.split) = r.ratio /\ r.ratio # Missing
      BY <1>3, <3>1 DEF Shown
    <3> DEFINE q == <<r.case, r.split>>
    <3>3. q \in there
      BY <1>4, <3>1, <3>2 DEF SplitsOf
    <3>4. q[1] = r.case /\ q[2] = r.split
      OBVIOUS
    <3> HIDE DEF q, there
    <3> QED
      BY <3>2, <3>3, <3>4
  <2>2. ASSUME NEW q \in there
        PROVE  \E r \in points[o] : <<r.case, r.split, r.ratio>>
                                      = <<q[1], q[2], RatioIn(tables, q[1], q[2])>>
    <3>1. PICK r \in rows : r.case = q[1] /\ r.split = q[2]
      BY <1>3 DEF Shown
    <3>2. RatioIn(tables, q[1], q[2]) = r.ratio
      BY <1>3, <3>1 DEF Shown
    <3>3. r \in points[o]
      BY <1>4, <3>1
    <3> QED
      BY <3>1, <3>2, <3>3
  <2> HIDE DEF points, there
  <2>3. {<<r.case, r.split, r.ratio>> : r \in points[o]}
          = {<<q[1], q[2], RatioIn(tables, q[1], q[2])>> : q \in there}
    BY <2>1, <2>2
  <2> QED
    BY <2>3 DEF there
<1> HIDE DEF points
<1>6. PointsAreTrue(points, tables)
  BY <1>5 DEF PointsAreTrue
<1>7. CASE rows # {}
  BY <1>2, <1>6, <1>7 DEF TrueOfTables
<1> QED
  BY <1>1, <1>7, NothingIsTrue

(* Best splits of two tables.                                              *)
LEMMA PhaseIsTrue ==
  ASSUME NEW a, NEW b, Table(a), Table(b)
  PROVE  TrueOfTables(PlotPhase(a, b))
<1> DEFINE rows == Merged(a, b)
           m == PlotPhase(a, b)
<1>1. \/ m.files = {} /\ m.raised
      \/ /\ m.script = "phase" /\ m.tables = <<a, b>> /\ m.shown.best = Best(rows)
  BY DEF PlotPhase, Outcome
<1>2. Shown(rows, <<a, b>>)
  BY TwoShown
<1> SUFFICES TrueOfTables(m)
  OBVIOUS
<1> HIDE DEF m, rows
<1>3. /\ DOMAIN Best(rows) = CasesIn(rows) /\ BestIsBest(Best(rows), <<a, b>>)
      /\ \A c : SplitsOf(<<a, b>>, c) # {} => c \in CasesIn(rows)
  BY <1>2, BestOfShown
<1>4. CASE m.script = "phase" /\ m.tables = <<a, b>> /\ m.shown.best = Best(rows)
  <2>1. NoneLeftOut(m)
    BY <1>3, <1>4 DEF NoneLeftOut
  <2> QED
    BY <1>3, <1>4, <2>1 DEF TrueOfTables
<1> QED
  BY <1>1, <1>4, NothingIsTrue

(* Lines of two tables, of which the first has the prompts of the scope    *)
(* only.                                                                   *)
LEMMA CrossoverIsTrue ==
  ASSUME NEW a, NEW b, Table(a), Table(b), a = InScope(a)
  PROVE  TrueOfTables(PlotCrossover(a, b))
<1> DEFINE rows == Merged(a, InScope(b))
           all == Merged(a, b)
           tables == <<a, b>>
           columns == PromptsIn(CasesIn(rows))
           lower == OutputsIn(CasesIn(rows))
           lines == [f \in columns \X lower \X SplitNames |->
                       LineOf(rows, f[1], f[2], f[3])]
           m == PlotCrossover(a, b)
<1>1. \/ m.files = {} /\ m.raised
      \/ /\ m.script = "crossover" /\ m.tables = tables /\ m.shown.lines = lines
         /\ \A f \in DOMAIN lines : lines[f] # {}
  BY DEF PlotCrossover, Outcome
<1>2. Shown(all, tables)
  BY TwoShown
<1>3. rows = {r \in all : r.case.prompt \in {128, 512}}
  BY DEF Merged, FirstOfEach, InScope, CompleteRows
<1>4. \A p \in columns : p \in {128, 512}
  BY <1>3 DEF PromptsIn, CasesIn
<1> SUFFICES TrueOfTables(m)
  OBVIOUS
<1> HIDE DEF m, rows, all, tables, columns, lower
<1>5. ASSUME NEW f \in DOMAIN lines
      PROVE  {<<r.case, r.ratio>> : r \in lines[f]} =
               {<<c, RatioIn(tables, c, f[3])>> :
                  c \in {d \in AllCases(tables) : /\ d.prompt = f[1] /\ d.output = f[2]
                                                  /\ f[3] \in SplitsOf(tables, d)}}
  <2> DEFINE there == {d \in AllCases(tables) : /\ d.prompt = f[1] /\ d.output = f[2]
                                                /\ f[3] \in SplitsOf(tables, d)}
             line == LineOf(rows, f[1], f[2], f[3])
  <2>1. lines[f] = line /\ f[1] \in {128, 512}
    BY <1>4
  <2>2. ASSUME NEW r \in line
        PROVE  r.case \in there /\ RatioIn(tables, r.case, f[3]) = r.ratio
    <3>1. r \in all /\ r.case.prompt = f[1] /\ r.case.output = f[2] /\ r.split = f[3]
      BY <1>3 DEF LineOf
    <3>2. /\ r.case \in AllCases(tables) /\ r.split \in SplitNames
          /\ RatioIn(tables, r.case, r.split) = r.ratio /\ r.ratio # Missing
      BY <1>2, <3>1 DEF Shown
    <3> QED
      BY <3>1, <3>2 DEF SplitsOf
  <2>3. ASSUME NEW c \in there
        PROVE  \E r \in line : r.case = c /\ RatioIn(tables, c, f[3]) = r.ratio
    <3>1. PICK r \in all : r.case = c /\ r.split = f[3]
      BY <1>2 DEF Shown
    <3>2. RatioIn(tables, c, f[3]) = r.ratio
      BY <1>2, <3>1 DEF Shown
    <3>3. r \in line
      BY <1>3, <2>1, <3>1 DEF LineOf
    <3> QED
      BY <3>1, <3>2, <3>3
  <2> HIDE DEF lines, there, line
  <2>4. {<<r.case, r.ratio>> : r \in line} = {<<c, RatioIn(tables, c, f[3])>> : c \in there}
    BY <2>2, <2>3
  <2> QED
    BY <2>1, <2>4 DEF there
<1> HIDE DEF lines
<1>6. CASE /\ m.script = "crossover" /\ m.tables = tables /\ m.shown.lines = lines
           /\ \A f \in DOMAIN lines : lines[f] # {}
  <2>1. LinesAreWhole(lines, tables)
    BY <1>5, <1>6 DEF LinesAreWhole
  <2> QED
    BY <1>6, <2>1 DEF TrueOfTables
<1> QED
  BY <1>1, <1>6, NothingIsTrue

(* The numbers of the report.                                              *)
LEMMA AssetsAreTrue ==
  ASSUME NEW table, PairTable(table), NEW seeds \in SeedCases, NEW resource,
         Table(resource), NEW output512, NEW plots \in SUBSET Plots
  PROVE  TrueOfTables(CreateAssets(table, seeds, resource, output512, plots))
<1> DEFINE rows == CompleteRows(table)
           stages == Stages(table, seeds, resource, output512, plots)
           reached == {k \in DOMAIN stages : \A j \in 1 .. k : stages[j].ok}
           grouped == {<<c.output, c.rate>> : c \in CasesIn(rows)}
           byBandwidth == [b \in {c.bandwidth : c \in CasesIn(rows)} |->
                             MetricCounts(OfBandwidth(rows, b), "e2e")]
           byOutputRate == [g \in grouped |->
                              MetricCounts(OfOutputRate(rows, g[1], g[2]), "e2e")]
           m == CreateAssets(table, seeds, resource, output512, plots)
<1>1. /\ m.script = "assets" /\ m.tables[2] = resource
      /\ m.files = UNION {stages[k].files : k \in reached}
      /\ m.shown.pairs = Cardinality(rows)
      /\ m.shown.metrics["e2e"] = MetricCounts(rows, "e2e")
      /\ m.shown.metrics["handoff"] = MetricCounts(rows, "handoff")
      /\ m.shown.byBandwidth = byBandwidth /\ m.shown.byOutputRate = byOutputRate
      /\ m.shown.robustness = Robustness(seeds)
      /\ m.shown.best = Best(CompleteRows(resource))
  BY DEF CreateAssets, Outcome
<1>2. /\ DOMAIN stages = 1 .. 4 /\ stages[1].ok = HasHandoff(table)
      /\ \A k \in 1 .. 3 : "report_summary" \notin stages[k].files
  <2>1. "report_summary" \notin plots
    BY ReportAssumption
  <2> QED
    BY <2>1 DEF Stages
<1>3. IsFiniteSet(rows) /\ \A r \in rows : r.e2e # Missing
  BY FS_Subset DEF PairTable, CompleteRows
<1>4. ASSUME "report_summary" \in m.files
      PROVE  HasHandoff(table)
  <2>1. PICK k \in reached : "report_summary" \in stages[k].files
    BY <1>1, <1>4
  <2>2. k \in 1 .. 4 /\ 1 \in 1 .. k /\ \A j \in 1 .. k : stages[j].ok
    BY <1>2
  <2> HIDE DEF stages
  <2> QED
    BY <1>2, <2>2
<1>5. HasHandoff(table) => MetricCounts(rows, "handoff").cases \in 1 .. Cardinality(rows)
  <2> DEFINE with == CasesWith(rows, "handoff")
  <2>1. MetricCounts(rows, "handoff").cases = Cardinality(with)
    BY DEF MetricCounts
  <2>2. with \subseteq rows /\ \A r \in rows : r["handoff"] # Missing => r \in with
    BY DEF CasesWith
  <2>3. HasHandoff(table) => with # {}
    BY <2>2 DEF HasHandoff, PairTable, CompleteRows
  <2> HIDE DEF with, rows
  <2>4. IsFiniteSet(with) /\ Cardinality(with) <= Cardinality(rows)
    BY <1>3, <2>2, FS_Subset
  <2>5. Cardinality(with) \in Nat /\ Cardinality(rows) \in Nat
    BY <1>3, <2>4, FS_CardinalityType
  <2>6. with # {} => Cardinality(with) # 0
    BY <2>4, FS_EmptySet
  <2> QED
    BY <2>1, <2>3, <2>4, <2>5, <2>6
<1>6. /\ Cardinality(rows) = SumOfCases(byBandwidth)
      /\ MetricCounts(rows, "e2e").cases = Cardinality(rows)
  <2> DEFINE key == [r \in rows |-> r.case.bandwidth]
  <2>1. DOMAIN key = rows /\ DOMAIN byBandwidth = KeysOf(rows, key)
    BY DEF KeysOf, CasesIn
  <2>2. \A k \in DOMAIN byBandwidth :
          byBandwidth[k] = MetricCounts(Keyed(rows, key, k), "e2e")
    <3>1. \A k : OfBandwidth(rows, k) = Keyed(rows, key, k)
      BY DEF OfBandwidth, Keyed
    <3> HIDE DEF key, rows
    <3> QED
      BY <3>1
  <2>3. MetricCounts(rows, "e2e").cases = Cardinality(rows)
    <3>1. CasesWith(rows, "e2e") = rows
      BY <1>3 DEF CasesWith
    <3> HIDE DEF rows
    <3> QED
      BY <3>1 DEF MetricCounts
  <2> HIDE DEF rows, key, byBandwidth
  <2>4. MetricCounts(rows, "e2e")
          = [cases |-> SumOfCases(byBandwidth), wins |-> SumOfWins(byBandwidth)]
    BY <1>3, <2>1, <2>2, MetricAddsUp
  <2> QED
    BY <2>3, <2>4
<1>7. MetricCounts(rows, "e2e")
        = [cases |-> SumOfCases(byOutputRate), wins |-> SumOfWins(byOutputRate)]
  <2> DEFINE key == [r \in rows |-> <<r.case.output, r.case.rate>>]
  <2>1. DOMAIN key = rows /\ DOMAIN byOutputRate = KeysOf(rows, key)
    BY DEF KeysOf, CasesIn
  <2>2. ASSUME NEW g \in grouped
        PROVE  byOutputRate[g] = MetricCounts(Keyed(rows, key, g), "e2e")
    <3>1. g = <<g[1], g[2]>>
      OBVIOUS
    <3>2. OfOutputRate(rows, g[1], g[2]) = Keyed(rows, key, g)
      BY <3>1 DEF OfOutputRate, Keyed
    <3>3. byOutputRate[g] = MetricCounts(OfOutputRate(rows, g[1], g[2]), "e2e")
      OBVIOUS
    <3> HIDE DEF key, rows, byOutputRate
    <3> QED
      BY <3>2, <3>3
  <2>3. \A k \in DOMAIN byOutputRate :
          byOutputRate[k] = MetricCounts(Keyed(rows, key, k), "e2e")
    BY <2>2
  <2> HIDE DEF rows, key, byOutputRate
  <2> QED
    BY <1>3, <2>1, <2>3, MetricAddsUp
<1>8. \A c \in DOMAIN Robustness(seeds) :
        Robustness(seeds)[c].wins <= Robustness(seeds)[c].seeds
  BY WinsAreSeeds
<1>9. BestIsBest(Best(CompleteRows(resource)), <<resource>>)
  BY OneShown, BestOfShown
<1> SUFFICES TrueOfTables(m)
  OBVIOUS
<1> HIDE DEF m, rows, byBandwidth, byOutputRate, stages, reached
<1> QED
  BY <1>1, <1>4, <1>5, <1>6, <1>7, <1>8, <1>9 DEF TrueOfTables

(* Experiments of splits and of pairs are tables.                          *)
LEMMA ExperimentsAreTables ==
  /\ \A table \in SplitTables(Cases1, Ratios1) \cup SplitTables(Cases2, Ratios2) : Table(table)
  /\ \A table \in SplitTables(ReportCases, Ratios1) \cup {{}} : Table(table)
  /\ \A table \in PairTables(PairCases) : PairTable(table)
<1>1. /\ IsFiniteSet(Cases1) /\ IsFiniteSet(Cases2) /\ IsFiniteSet(ReportCases)
      /\ IsFiniteSet(PairCases)
      /\ Ratios1 \in SUBSET (Nat \ {Missing}) /\ Ratios2 \in SUBSET (Nat \ {Missing})
  BY ReportAssumption
<1>2. Table({})
  BY FS_EmptySet DEF Table
<1> QED
  BY <1>1, <1>2, SplitTableIsTable, PairTableIsTable

(* Whatever a script makes is true.                                        *)
LEMMA MadeIsTrue ==
  MakeReport => ReportsAreTrue'
<1>1. CASE MakeFromSplits
  BY <1>1, ExperimentsAreTables, SummarizeIsTrue, OthersAreTrue, CoreIsTrue, SpaceIsTrue
  DEF MakeFromSplits, ReportsAreTrue
<1>2. CASE MakeFromTwo
  BY <1>2, ExperimentsAreTables, PhaseIsTrue, CrossoverIsTrue DEF MakeFromTwo, ReportsAreTrue
<1>3. CASE MakeFromPairs
  BY <1>3, OthersAreTrue DEF MakeFromPairs, ReportsAreTrue
<1>4. CASE MakeAssets
  BY <1>4, ExperimentsAreTables, AssetsAreTrue DEF MakeAssets, ReportsAreTrue
<1> QED
  BY <1>1, <1>2, <1>3, <1>4 DEF MakeReport

(* Figures and tables of the report are true of the tables they are made   *)
(* from, whichever cases these lack: the best splits, the lines with all   *)
(* their points, the numbers that must agree; and no case with results is  *)
(* left out but by a script that raises.                                   *)
THEOREM ReportsTellTheTruth == StudySpec => []ReportsAreTrue
<1>1. StudyInit => ReportsAreTrue
  <2>1. NothingMade.files = {} /\ NothingMade.script = "none"
    BY DEF NothingMade
  <2>2. TrueOfTables(NothingMade)
    BY <2>1, NothingIsTrue
  <2> QED
    BY <2>2 DEF StudyInit, ReportInit, ReportsAreTrue
<1>2. ReportsAreTrue /\ [StudyNext]_svars => ReportsAreTrue'
  <2> SUFFICES ASSUME ReportsAreTrue, [StudyNext]_svars
               PROVE  ReportsAreTrue'
    OBVIOUS
  <2>1. CASE UNCHANGED made
    BY <2>1 DEF ReportsAreTrue
  <2>2. CASE MakeReport
    BY <2>2, MadeIsTrue
  <2> QED
    BY <2>1, <2>2 DEF StudyNext, OtherScripts, svars
<1> QED
  BY <1>1, <1>2, PTL DEF StudySpec
-----------------------------------------------------------------------------
Somewhere == Instances \cup {NoEvent.inst}

EventType == [id : Nat, time : Nat,
              kind : {"none", "arrival", "completion", "flow", "retry"},
              inst : Somewhere]

RunType == [handle : EventType, prompts : Nat, duration : Nat \ {0},
            planned : Nat, iterations : Nat, pausing : BOOLEAN, pausedAt : Nat]

(* The states between the steps of a handler: what Handling makes of the   *)
(* variables.                                                              *)
StateType == [events : SUBSET EventType, deleted : SUBSET EventType,
              created : Nat, run : [Instances -> RunType],
              queued : [Instances -> Nat], waiting : [Instances -> Nat]]

(* The heap at time clock: nothing in it is overdue, its identities have     *)
(* been given out, and all but the arrivals are events of an instance.     *)
HeapInv(s, clock) ==
  /\ s.deleted \subseteq s.events
  /\ \A e \in s.events :
       /\ clock <= e.time
       /\ e.id \in 1 .. s.created
       /\ e.kind # "arrival" => e.inst \in Instances

Completions(s, i) ==
  {e \in s.events \ s.deleted : e.kind = "completion" /\ e.inst = i}

(* How far a run has come at time clock.  A run that nobody has paused has   *)
(* the iterations it was planned with; a paused one ends with the          *)
(* iteration under way at the pause, which starts no later than the last   *)
(* one planned ends.                                                       *)
RunInv(r, clock) ==
  /\ Running(r) => r.iterations # 0 /\ Start(r) \in Nat /\ Start(r) <= clock
  /\ ~r.pausing => r.iterations = r.planned
  /\ r.pausing =>
       /\ Running(r)
       /\ Start(r) + r.duration * (r.iterations - 1) <= r.pausedAt
       /\ r.pausedAt < r.handle.time
       /\ r.handle.time <= r.pausedAt + r.duration
       /\ r.iterations > r.planned =>
            /\ r.iterations = r.planned + 1
            /\ r.pausedAt = Start(r) + r.duration * r.planned

RunsExcept(s, clock, i) ==
  \A j \in Instances \ {i} :
    /\ RunInv(s.run[j], clock)
    /\ Completions(s, j) = {s.run[j].handle} \ {NoEvent}

(* Between its completion event and its next run an instance has no event  *)
(* of its own, whatever its run still says.                                *)
BetweenRuns(s, clock, i) ==
  /\ s \in StateType
  /\ HeapInv(s, clock)
  /\ RunsExcept(s, clock, i)
  /\ Completions(s, i) = {}

StateInv(s, clock) ==
  /\ s \in StateType
  /\ HeapInv(s, clock)
  /\ \A j \in Instances :
       /\ RunInv(s.run[j], clock)
       /\ Completions(s, j) = {s.run[j].handle} \ {NoEvent}

Now == [events |-> events, deleted |-> deleted, created |-> created, run |-> run,
        queued |-> queued, waiting |-> waiting]

SimInv == time \in Nat /\ StateInv(Now, time)
-----------------------------------------------------------------------------
(* The place of a time in a run of iterations of d.                        *)
LEMMA Division ==
  ASSUME NEW a \in Nat, NEW d \in Nat \ {0}
  PROVE  /\ a \div d \in Nat
         /\ d * (a \div d) <= a
         /\ a < d * (a \div d) + d
  BY Z3

(* The iterations in a time that p iterations of d cover.                  *)
LEMMA Covered ==
  ASSUME NEW a \in Nat, NEW d \in Nat \ {0}, NEW p \in Nat, a <= d * p
  PROVE  /\ a \div d <= p
         /\ a \div d = p => a = d * p
<1> DEFINE q == a \div d
<1>1. q \in Nat /\ d * q <= a
  BY Division
<1>2. CASE q > p
  <2>1. PICK k \in Nat : q = p + 1 + k
    <3>1. q - p - 1 \in Nat /\ q = p + 1 + (q - p - 1)
      BY <1>1, <1>2
    <3> QED
      BY <3>1
  <2>2. d * q = d * p + d + d * k
    BY <2>1
  <2> QED
    BY <1>1, <2>2
<1>3. CASE q = p
  BY <1>1, <1>3
<1>4. CASE q < p
  BY <1>1, <1>4
<1> QED
  BY <1>1, <1>2, <1>3, <1>4
-----------------------------------------------------------------------------
(* A new event: its identity is of no other, so it was never cancelled.    *)
LEMMA ScheduleAdds ==
  ASSUME NEW s \in StateType, NEW clock \in Nat, HeapInv(s, clock),
         NEW at \in Nat, clock <= at, NEW i \in Instances,
         NEW kind \in {"completion", "flow", "retry"}
  PROVE  LET e == Event(s.created + 1, at, kind, i)
             t == Schedule(s, at, kind, i)
         IN /\ e \in EventType /\ e # NoEvent /\ e \notin s.events
            /\ t = [events |-> s.events \cup {e}, deleted |-> s.deleted,
                    created |-> s.created + 1, run |-> s.run,
                    queued |-> s.queued, waiting |-> s.waiting]
            /\ t \in StateType
            /\ HeapInv(t, clock)
            /\ \A j \in Instances :
                 Completions(t, j) = Completions(s, j) \cup
                   (IF kind = "completion" /\ j = i THEN {e} ELSE {})
<1> DEFINE e == Event(s.created + 1, at, kind, i)
           t == Schedule(s, at, kind, i)
<1>1. e \in EventType /\ e.id = s.created + 1 /\ e.time = at /\ e.kind = kind
      /\ e.inst = i
  BY DEF Event, EventType, Somewhere, StateType
<1>2. e # NoEvent
  BY <1>1 DEF Event, NoEvent, StateType
<1>3. e \notin s.events
  BY <1>1 DEF HeapInv, StateType
<1>4. t = [events |-> s.events \cup {e}, deleted |-> s.deleted,
           created |-> s.created + 1, run |-> s.run,
           queued |-> s.queued, waiting |-> s.waiting]
  BY DEF Schedule, StateType
<1>5. t \in StateType
  BY <1>1, <1>4 DEF StateType
<1>6. HeapInv(t, clock)
  BY <1>1, <1>4 DEF HeapInv, StateType
<1>7. ASSUME NEW j \in Instances
      PROVE  Completions(t, j) = Completions(s, j) \cup
               (IF kind = "completion" /\ j = i THEN {e} ELSE {})
  BY <1>1, <1>3, <1>4 DEF Completions, HeapInv
<1> QED
  BY <1>1, <1>2, <1>3, <1>4, <1>5, <1>6, <1>7

(* flow_arrival, for the prompts of a completed run: some flows get events, *)
(* which are no completions, and some wait.                                *)
LEMMA ShippedBetweenRuns ==
  ASSUME NEW s, NEW clock \in Nat, NEW i \in Instances,
         BetweenRuns(s, clock, i), NEW s1 \in Shipped(s, clock, i)
  PROVE  BetweenRuns(s1, clock, i)
<1> DEFINE p == s.run[i].prompts
<1>1. /\ s \in StateType /\ HeapInv(s, clock) /\ p \in Nat
      /\ s.created \in Nat /\ s.waiting \in [Instances -> Nat]
  BY DEF BetweenRuns, StateType, RunType
<1>2. PICK n \in 0 .. p :
        s1 \in {FlowsArrive(s, clock, i, f, more) :
                   f \in [1 .. n -> LinkEvents], more \in 0 .. p - n}
  BY DEF Shipped
<1>3. PICK f \in [1 .. n -> LinkEvents], more \in 0 .. p - n :
        s1 = FlowsArrive(s, clock, i, f, more)
  BY <1>2
<1> HIDE DEF p
<1>4. n \in Nat /\ more \in Nat
  BY <1>1
<1>5. DOMAIN f = 1 .. n /\ Cardinality(1 .. n) = n /\ Blocked(f) \in Nat
  <2> DEFINE late == {k \in DOMAIN f : f[k][1] = "retry"}
  <2>1. DOMAIN f = 1 .. n
    BY <1>3
  <2>2. late \subseteq 1 .. n
    BY <2>1
  <2>3. IsFiniteSet(1 .. n) /\ Cardinality(1 .. n) = n
    BY <1>4, FS_Interval
  <2>4. IsFiniteSet(late)
    BY <2>2, <2>3, FS_Subset
  <2>5. Cardinality(late) \in Nat
    BY <2>4, FS_CardinalityType
  <2> QED
    BY <2>1, <2>3, <2>5 DEF Blocked
<1> DEFINE E(k) == Event(s.created + k, clock + f[k][2], f[k][1], i)
           arriving == {E(k) : k \in 1 .. n}
<1>6. ASSUME NEW k \in 1 .. n
      PROVE  /\ E(k) \in EventType /\ clock <= E(k).time
             /\ E(k).id \in s.created + 1 .. s.created + n
             /\ E(k).kind \in {"flow", "retry"} /\ E(k).inst = i
  <2>1. f[k] \in LinkEvents
    BY <1>3
  <2>2. f[k][1] \in {"flow", "retry"} /\ f[k][2] \in Nat
    <3>1. CASE f[k] \in {"flow"} \X Durations
      BY <3>1, SimulatorAssumption
    <3>2. CASE f[k] = <<"retry", RetryDelay>>
      BY <3>2, SimulatorAssumption
    <3> QED
      BY <2>1, <3>1, <3>2 DEF LinkEvents
  <2> DEFINE kind == f[k][1]
             delay == f[k][2]
  <2>3. k \in Nat /\ 1 <= k /\ k <= n
    BY <1>4
  <2> HIDE DEF kind, delay
  <2>4. E(k) = Event(s.created + k, clock + delay, kind, i)
    BY DEF kind, delay
  <2>5. kind \in {"flow", "retry"} /\ delay \in Nat
    BY <2>2 DEF kind, delay
  <2>6. /\ s.created + k \in Nat /\ clock + delay \in Nat /\ clock <= clock + delay
        /\ s.created + k \in s.created + 1 .. s.created + n
    BY <1>1, <1>4, <2>3, <2>5
  <2> DEFINE id == s.created + k
             at == clock + delay
  <2> HIDE DEF id, at
  <2>7. E(k) = [id |-> id, time |-> at, kind |-> kind, inst |-> i]
    BY <2>4 DEF Event, id, at
  <2>8. id \in Nat /\ at \in Nat /\ id \in s.created + 1 .. s.created + n /\ clock <= at
    BY <2>6 DEF id, at
  <2> HIDE DEF E
  <2> QED
    BY <2>5, <2>7, <2>8 DEF EventType, Somewhere
<1>7. /\ s1.events = s.events \cup arriving
      /\ s1.deleted = s.deleted /\ s1.run = s.run /\ s1.queued = s.queued
      /\ s1.created = s.created + n
      /\ s1.waiting = [s.waiting EXCEPT ![i] = @ + Blocked(f) + more]
      /\ s1 = [events |-> s1.events, deleted |-> s1.deleted,
               created |-> s1.created, run |-> s1.run,
               queued |-> s1.queued, waiting |-> s1.waiting]
  BY <1>1, <1>3, <1>5 DEF FlowsArrive, StateType
<1> HIDE DEF E
<1>8. \A e \in arriving : /\ e \in EventType /\ clock <= e.time
                         /\ e.id \in s.created + 1 .. s.created + n
                         /\ e.kind \in {"flow", "retry"} /\ e.inst = i
  BY <1>6
<1> HIDE DEF arriving
<1>9. s1 \in StateType
  <2>1. s1.waiting \in [Instances -> Nat]
    BY <1>1, <1>4, <1>5, <1>7
  <2>2. s1.events \subseteq EventType
    BY <1>1, <1>7, <1>8 DEF StateType
  <2>3. s1.created \in Nat
    BY <1>1, <1>4, <1>7
  <2> QED
    BY <1>1, <1>7, <2>1, <2>2, <2>3 DEF StateType
<1>10. HeapInv(s1, clock)
  <2>1. s1.deleted \subseteq s1.events
    BY <1>1, <1>7 DEF HeapInv
  <2>2. ASSUME NEW e \in s1.events
        PROVE  /\ clock <= e.time
               /\ e.id \in 1 .. s1.created
               /\ e.kind # "arrival" => e.inst \in Instances
    <3>1. CASE e \in s.events
      <4>1. e.id \in 1 .. s.created
        BY <1>1, <3>1 DEF HeapInv
      <4>2. e.id \in 1 .. s1.created
        BY <1>1, <1>4, <1>7, <4>1
      <4> QED
        BY <1>1, <3>1, <4>2 DEF HeapInv
    <3>2. CASE e \in arriving
      <4>1. e.id \in s.created + 1 .. s.created + n
        BY <1>8, <3>2
      <4>2. e.id \in 1 .. s1.created
        BY <1>1, <1>4, <1>7, <4>1
      <4> QED
        BY <1>8, <3>2, <4>2
    <3> QED
      BY <1>7, <3>1, <3>2
  <2> QED
    BY <2>1, <2>2 DEF HeapInv
<1>11. ASSUME NEW j \in Instances
       PROVE  Completions(s1, j) = Completions(s, j)
  BY <1>7, <1>8 DEF Completions
<1> QED
  BY <1>7, <1>9, <1>10, <1>11 DEF BetweenRuns, RunsExcept

(* A step of the link that looks for its next flow: that flow is run, or   *)
(* tried again later, or there is nothing to do.                           *)
LEMMA NextFlowKeeps ==
  ASSUME NEW s, NEW clock \in Nat, NEW i \in Instances, StateInv(s, clock),
         NEW s2 \in NextFlow(s, clock, i)
  PROVE  StateInv(s2, clock)
<1>1. /\ s \in StateType /\ HeapInv(s, clock)
      /\ s.waiting \in [Instances -> Nat]
  BY DEF StateInv, StateType
<1>2. ASSUME NEW t, t \in StateType, HeapInv(t, clock), t.run = s.run,
             \A j \in Instances : Completions(t, j) = Completions(s, j)
      PROVE  StateInv(t, clock)
  BY <1>2 DEF StateInv
<1>3. ASSUME NEW t \in StateType, HeapInv(t, clock), t.run = s.run,
             \A j \in Instances : Completions(t, j) = Completions(s, j),
             NEW delay \in Nat, NEW kind \in {"flow", "retry"}
      PROVE  StateInv(Schedule(t, clock + delay, kind, i), clock)
  <2> DEFINE u == Schedule(t, clock + delay, kind, i)
  <2>1. clock + delay \in Nat /\ clock <= clock + delay
    OBVIOUS
  <2>2. /\ u \in StateType /\ HeapInv(u, clock)
        /\ \A j \in Instances : Completions(u, j) = Completions(t, j)
    BY <1>3, <2>1, ScheduleAdds
  <2>3. u.run = s.run
    BY <1>3 DEF Schedule
  <2> QED
    BY <1>2, <1>3, <2>2, <2>3
<1>4. CASE s2 = s
  BY <1>4
<1>5. CASE s2 = Schedule(s, clock + RetryDelay, "retry", i)
  BY <1>1, <1>3, <1>5, SimulatorAssumption
<1>6. ASSUME s.waiting[i] # 0, NEW d \in Durations,
             s2 = Schedule([s EXCEPT !.waiting[i] = @ - 1], clock + d, "flow", i)
      PROVE  StateInv(s2, clock)
  <2> DEFINE t == [s EXCEPT !.waiting[i] = @ - 1]
  <2>1. /\ t.events = s.events /\ t.deleted = s.deleted
        /\ t.created = s.created /\ t.run = s.run
        /\ t \in StateType
    BY <1>1, <1>6 DEF StateType
  <2> HIDE DEF t
  <2>2. HeapInv(t, clock) /\ \A j \in Instances : Completions(t, j) = Completions(s, j)
    BY <1>1, <2>1 DEF HeapInv, Completions
  <2>3. d \in Nat
    BY SimulatorAssumption
  <2>4. s2 = Schedule(t, clock + d, "flow", i)
    BY <1>6 DEF t
  <2> QED
    BY <1>3, <2>1, <2>2, <2>3, <2>4
<1> QED
  BY <1>4, <1>5, <1>6 DEF NextFlow

(* start_iteration gives an instance its one completion event.             *)
LEMMA StartedKeeps ==
  ASSUME NEW s, NEW clock \in Nat, NEW i \in Instances, NEW d \in Durations,
         NEW n \in 1 .. MaxIterations, BetweenRuns(s, clock, i),
         NEW p \in 0 .. s.queued[i]
  PROVE  StateInv(RunStarted(s, clock, i, d, n, p), clock)
<1> DEFINE at == clock + d * n
           e == Event(s.created + 1, at, "completion", i)
           t == Schedule(s, at, "completion", i)
           r == [handle |-> e, prompts |-> p, duration |-> d,
                 planned |-> n, iterations |-> n,
                 pausing |-> FALSE, pausedAt |-> 0]
           u == RunStarted(s, clock, i, d, n, p)
<1>1. d \in Nat \ {0} /\ n \in Nat \ {0} /\ d * n \in Nat
  BY SimulatorAssumption
<1>2. at \in Nat /\ clock <= at
  BY <1>1
<1> HIDE DEF at
<1>3. /\ e \in EventType /\ e # NoEvent
      /\ t = [events |-> s.events \cup {e}, deleted |-> s.deleted,
              created |-> s.created + 1, run |-> s.run,
              queued |-> s.queued, waiting |-> s.waiting]
      /\ t \in StateType
      /\ HeapInv(t, clock)
      /\ \A j \in Instances :
           Completions(t, j) = Completions(s, j) \cup (IF j = i THEN {e} ELSE {})
  BY <1>2, ScheduleAdds DEF BetweenRuns
<1>4. u = [t EXCEPT !.run[i] = r, !.queued[i] = @ - p]
  BY DEF RunStarted, at
<1>5. /\ r \in RunType
      /\ s.queued \in [Instances -> Nat] /\ s.queued[i] - p \in Nat
  <2>1. s.queued \in [Instances -> Nat]
    BY DEF BetweenRuns, StateType
  <2>2. p \in Nat /\ s.queued[i] - p \in Nat
    BY <2>1
  <2> QED
    BY <1>1, <1>3, <2>1, <2>2 DEF RunType
<1>6. RunInv(r, clock)
  <2>1. Start(r) = clock
    BY <1>1, <1>2 DEF Start, Event, at
  <2> QED
    BY <1>1, <2>1 DEF RunInv
<1> HIDE DEF e, t, r, u
<1>7. /\ u.events = t.events /\ u.deleted = t.deleted /\ u.created = t.created
      /\ u.run = [s.run EXCEPT ![i] = r]
      /\ u \in StateType
  BY <1>3, <1>4, <1>5 DEF StateType, BetweenRuns
<1>8. HeapInv(u, clock)
  BY <1>3, <1>7 DEF HeapInv
<1>9. ASSUME NEW j \in Instances
      PROVE  /\ RunInv(u.run[j], clock)
             /\ Completions(u, j) = {u.run[j].handle} \ {NoEvent}
  <2>1. Completions(u, j) = Completions(t, j)
    BY <1>7 DEF Completions
  <2>2. CASE j = i
    <3>1. u.run[j] = r
      BY <1>7, <2>2 DEF StateType, BetweenRuns
    <3>2. r.handle = e
      BY DEF r
    <3> QED
      BY <1>3, <1>6, <2>1, <2>2, <3>1, <3>2 DEF BetweenRuns
  <2>3. CASE j # i
    <3>1. u.run[j] = s.run[j]
      BY <1>7, <2>3 DEF StateType, BetweenRuns
    <3> QED
      BY <1>3, <2>1, <2>3, <3>1 DEF BetweenRuns, RunsExcept
  <2> QED
    BY <2>2, <2>3
<1> QED
  BY <1>7, <1>8, <1>9 DEF StateInv, u

(* With nothing left to run the instance is idle, without an event.        *)
LEMMA IdleKeeps ==
  ASSUME NEW s, NEW clock \in Nat, NEW i \in Instances, BetweenRuns(s, clock, i)
  PROVE  StateInv([s EXCEPT !.run[i] = Idle], clock)
<1> DEFINE u == [s EXCEPT !.run[i] = Idle]
<1>1. NoEvent \in EventType
  BY DEF NoEvent, Event, EventType, Somewhere
<1>2. Idle \in RunType /\ RunInv(Idle, clock) /\ Idle.handle = NoEvent
  BY <1>1 DEF Idle, RunType, RunInv, Running
<1>3. /\ u.events = s.events /\ u.deleted = s.deleted /\ u.created = s.created
      /\ u.run = [s.run EXCEPT ![i] = Idle]
      /\ u \in StateType
  BY <1>2 DEF StateType, BetweenRuns
<1> HIDE DEF u
<1>4. HeapInv(u, clock)
  BY <1>3 DEF HeapInv, BetweenRuns
<1>5. ASSUME NEW j \in Instances
      PROVE  /\ RunInv(u.run[j], clock)
             /\ Completions(u, j) = {u.run[j].handle} \ {NoEvent}
  <2>1. Completions(u, j) = Completions(s, j)
    BY <1>3 DEF Completions
  <2>2. CASE j = i
    <3>1. u.run[j] = Idle
      BY <1>3, <2>2 DEF StateType, BetweenRuns
    <3> QED
      BY <1>2, <2>1, <2>2, <3>1 DEF BetweenRuns
  <2>3. CASE j # i
    <3>1. u.run[j] = s.run[j]
      BY <1>3, <2>3 DEF StateType, BetweenRuns
    <3> QED
      BY <2>1, <2>3, <3>1 DEF BetweenRuns, RunsExcept
  <2> QED
    BY <2>2, <2>3
<1> QED
  BY <1>3, <1>4, <1>5 DEF StateInv, u

(* An idle instance is between runs.                                       *)
LEMMA IdleBetweenRuns ==
  ASSUME NEW s, NEW clock, NEW i \in Instances, StateInv(s, clock),
         ~Running(s.run[i])
  PROVE  BetweenRuns(s, clock, i)
  BY DEF StateInv, BetweenRuns, RunsExcept, Running

(* Whatever run start_iteration begins.                                    *)
LEMMA StartsKeep ==
  ASSUME NEW s, NEW clock \in Nat, NEW i \in Instances, BetweenRuns(s, clock, i),
         NEW s2 \in Starts(s, clock, i)
  PROVE  StateInv(s2, clock)
<1>1. 1 \in 1 .. MaxIterations
  BY SimulatorAssumption
<1>2. \E d \in Durations :
        \/ \E p \in 1 .. s.queued[i] : s2 = RunStarted(s, clock, i, d, 1, p)
        \/ \E n \in 1 .. MaxIterations : s2 = RunStarted(s, clock, i, d, n, 0)
  BY DEF Starts
<1>3. s.queued[i] \in Nat
  BY DEF BetweenRuns, StateType
<1>4. 0 \in 0 .. s.queued[i] /\ 1 .. s.queued[i] \subseteq 0 .. s.queued[i]
  BY <1>3
<1> QED
  BY <1>1, <1>2, <1>4, StartedKeeps

(* The arithmetic of pause_iteration for a run that is not pausing: the    *)
(* new event is not overdue, the run still starts where it started, and it *)
(* ends with the iteration under way, which is one of those planned unless *)
(* the run is over at this very time.                                      *)
LEMMA PauseArithmetic ==
  ASSUME NEW r \in RunType, NEW clock \in Nat, RunInv(r, clock), Running(r),
         ~r.pausing, clock <= r.handle.time,
         NEW elapsed, elapsed = clock - Start(r),
         NEW n, n = IterationsAtPause(r, elapsed),
         NEW at, at = clock + RemainingTime(r, n, elapsed)
  PROVE  /\ n \in Nat \ {0} /\ at \in Nat
         /\ at - r.duration * n = Start(r)
         /\ Start(r) + r.duration * (n - 1) <= clock
         /\ clock < at /\ at <= clock + r.duration
         /\ n > r.planned => /\ n = r.planned + 1
                             /\ clock = Start(r) + r.duration * r.planned
<1> DEFINE d == r.duration
           st == Start(r)
           q == elapsed \div d
<1>1. d \in Nat \ {0} /\ r.planned \in Nat /\ r.iterations = r.planned
  BY DEF RunType, RunInv
<1>2. st \in Nat /\ elapsed \in Nat /\ clock = st + elapsed
  BY DEF RunInv
<1>3. /\ q \in Nat
      /\ d * q <= elapsed
      /\ elapsed < d * q + d
  BY <1>1, <1>2, Division
<1>4. elapsed <= d * r.planned
  <2>1. r.handle.time \in Nat /\ r.handle.time = st + d * r.planned
    <3>1. d * r.planned \in Nat /\ r.handle.time \in Nat
      BY <1>1 DEF RunType, EventType
    <3> QED
      BY <1>1, <3>1 DEF Start
  <2> HIDE DEF st, d
  <2>2. d * r.planned \in Nat
    BY <1>1
  <2> QED
    BY <1>2, <2>1, <2>2
<1>5. q <= r.planned /\ (q = r.planned => elapsed = d * r.planned)
  BY <1>1, <1>2, <1>4, Covered
<1>6. n = q + 1
  BY DEF IterationsAtPause
<1>7. at = clock + (d * n - elapsed)
  BY DEF RemainingTime
<1> HIDE DEF d, st, q
<1>8. d * n = d * q + d /\ d * (n - 1) = d * q /\ d * q \in Nat
  BY <1>1, <1>3, <1>6
<1>9. at = st + d * q + d /\ at \in Nat
  BY <1>1, <1>2, <1>7, <1>8
<1>10. n > r.planned => n = r.planned + 1 /\ q = r.planned
  <2>1. q \in Nat /\ r.planned \in Nat /\ q <= r.planned
    BY <1>1, <1>3, <1>5
  <2> QED
    BY <1>6, <2>1
<1>11. n > r.planned => clock = st + d * r.planned
  BY <1>2, <1>5, <1>10
<1>12. /\ n \in Nat \ {0}
       /\ at - d * n = st
       /\ st + d * (n - 1) <= clock
       /\ clock < at /\ at <= clock + d
  <2>1. n \in Nat \ {0}
    BY <1>3, <1>6
  <2> DEFINE b == d * q
  <2>2. b \in Nat /\ b <= elapsed /\ elapsed < b + d
    BY <1>3, <1>8
  <2>3. d * n = b + d /\ d * (n - 1) = b /\ at = st + b + d
    BY <1>8, <1>9
  <2> DEFINE x == d * n
             y == d * (n - 1)
  <2>4. x = b + d /\ y = b
    BY <2>3
  <2> HIDE DEF b, x, y
  <2>5. at - x = st /\ st + y <= clock /\ clock < at /\ at <= clock + d
    BY ONLY <1>1, <1>2, <2>2, <2>3, <2>4
  <2> QED
    BY <2>1, <2>5 DEF x, y
<1> QED
  BY <1>9, <1>10, <1>11, <1>12 DEF d, st

(* pause_iteration replaces the completion event of a running instance.    *)
LEMMA PausedKeeps ==
  ASSUME NEW s, NEW clock \in Nat, NEW i \in Instances, StateInv(s, clock),
         Running(s.run[i])
  PROVE  StateInv(Paused(s, clock, i), clock)
<1> DEFINE r == s.run[i]
           elapsed == clock - Start(r)
           n == IterationsAtPause(r, elapsed)
           at == clock + RemainingTime(r, n, elapsed)
           c == Cancel(s, r.handle)
           e == Event(s.created + 1, at, "completion", i)
           t == Schedule(c, at, "completion", i)
           p == [handle |-> e, prompts |-> r.prompts, duration |-> r.duration,
                 planned |-> r.planned, iterations |-> n,
                 pausing |-> TRUE, pausedAt |-> clock]
           u == [t EXCEPT !.run[i] = p]
<1>1. CASE r.pausing \/ r.prompts > 0
  BY <1>1 DEF Paused
<1>2. CASE ~(r.pausing \/ r.prompts > 0)
  <2>1. /\ r \in RunType /\ RunInv(r, clock)
        /\ r.handle \in s.events /\ clock <= r.handle.time
        /\ Completions(s, i) = {r.handle}
    BY DEF StateInv, StateType, Running, Completions, HeapInv
  <2>2. /\ n \in Nat \ {0} /\ at \in Nat
        /\ at - r.duration * n = Start(r)
        /\ Start(r) + r.duration * (n - 1) <= clock
        /\ clock < at /\ at <= clock + r.duration
        /\ n > r.planned => /\ n = r.planned + 1
                            /\ clock = Start(r) + r.duration * r.planned
    BY <1>2, <2>1, PauseArithmetic
  <2> HIDE DEF n, at
  <2>3. /\ c \in StateType /\ HeapInv(c, clock)
        /\ c.created = s.created /\ c.run = s.run
        /\ \A j \in Instances : Completions(c, j) =
             IF j = i THEN {} ELSE Completions(s, j)
    <3>1. /\ c.events = s.events /\ c.deleted = s.deleted \cup {r.handle}
          /\ c.created = s.created /\ c.run = s.run
          /\ c \in StateType
      BY <2>1 DEF Cancel, StateInv, StateType
    <3> HIDE DEF c
    <3>2. HeapInv(c, clock)
      BY <2>1, <3>1 DEF HeapInv, StateInv
    <3>3. ASSUME NEW j \in Instances
          PROVE  Completions(c, j) = IF j = i THEN {} ELSE Completions(s, j)
      <4>1. Completions(c, j) = Completions(s, j) \ {r.handle}
        BY <3>1 DEF Completions
      <4>2. j # i => r.handle \notin Completions(s, j)
        BY <2>1 DEF Completions
      <4> QED
        BY <2>1, <4>1, <4>2
    <3> QED
      BY <3>1, <3>2, <3>3
  <2> HIDE DEF c
  <2>4. /\ e \in EventType /\ e # NoEvent
        /\ t = [events |-> c.events \cup {e}, deleted |-> c.deleted,
                created |-> c.created + 1, run |-> c.run,
                queued |-> c.queued, waiting |-> c.waiting]
        /\ t \in StateType
        /\ HeapInv(t, clock)
        /\ \A j \in Instances :
             Completions(t, j) = Completions(c, j) \cup (IF j = i THEN {e} ELSE {})
    <3>1. clock <= at
      BY <2>2
    <3>2. LET e1 == Event(c.created + 1, at, "completion", i)
              t1 == Schedule(c, at, "completion", i)
          IN /\ e1 \in EventType /\ e1 # NoEvent /\ e1 \notin c.events
             /\ t1 = [events |-> c.events \cup {e1}, deleted |-> c.deleted,
                      created |-> c.created + 1, run |-> c.run,
                      queued |-> c.queued, waiting |-> c.waiting]
             /\ t1 \in StateType
             /\ HeapInv(t1, clock)
             /\ \A j \in Instances :
                  Completions(t1, j) = Completions(c, j) \cup
                    (IF "completion" = "completion" /\ j = i THEN {e1} ELSE {})
      BY <2>2, <2>3, <3>1, ScheduleAdds, SMTT(30)
    <3> QED
      BY <2>3, <3>2
  <2>5. p \in RunType
    BY <2>1, <2>2, <2>4 DEF RunType
  <2>6. Start(p) = Start(r)
    BY <2>2 DEF Start, Event
  <2>7. RunInv(p, clock)
    <3>1. p.handle.time = at
      BY DEF Event
    <3>2. Start(r) \in Nat /\ Start(r) <= clock
      BY <2>1 DEF RunInv
    <3>3. Running(p)
      BY <2>4 DEF Running
    <3> HIDE DEF r, e
    <3> QED
      BY <2>2, <2>6, <3>1, <3>2, <3>3 DEF RunInv
  <2>8. Paused(s, clock, i) = u
    BY <1>2 DEF Paused, c, n, at
  <2> HIDE DEF e, t, p
  <2>9. /\ u.events = t.events /\ u.deleted = t.deleted /\ u.created = t.created
        /\ u.run = [s.run EXCEPT ![i] = p]
        /\ u \in StateType
    BY <2>3, <2>4, <2>5 DEF StateType
  <2> HIDE DEF u
  <2>10. HeapInv(u, clock)
    BY <2>4, <2>9 DEF HeapInv
  <2>11. ASSUME NEW j \in Instances
         PROVE  /\ RunInv(u.run[j], clock)
                /\ Completions(u, j) = {u.run[j].handle} \ {NoEvent}
    <3>1. Completions(u, j) = Completions(t, j)
      BY <2>9 DEF Completions
    <3>2. CASE j = i
      <4>1. u.run[j] = p /\ p.handle = e
        BY <2>9, <3>2 DEF StateType, StateInv, p
      <4> QED
        BY <2>3, <2>4, <2>7, <3>1, <3>2, <4>1
    <3>3. CASE j # i
      <4>1. u.run[j] = s.run[j]
        BY <2>9, <3>3 DEF StateType, StateInv
      <4> QED
        BY <2>3, <2>4, <3>1, <3>3, <4>1 DEF StateInv
    <3> QED
      BY <3>2, <3>3
  <2> QED
    BY <2>8, <2>9, <2>10, <2>11 DEF StateInv
<1> QED
  BY <1>1, <1>2

(* task_arrival or notify_flow_completion, at any instance.                *)
LEMMA NotifiedKeeps ==
  ASSUME NEW s, NEW clock \in Nat, NEW i \in Instances, StateInv(s, clock),
         NEW s2 \in Notified(s, clock, i)
  PROVE  StateInv(s2, clock)
<1>1. CASE s2 = s
  BY <1>1
<1>2. CASE Running(s.run[i]) /\ s2 = Paused(s, clock, i)
  BY <1>2, PausedKeeps
<1>3. CASE ~Running(s.run[i]) /\ s2 \in Starts(s, clock, i)
  BY <1>3, IdleBetweenRuns, StartsKeep
<1> QED
  BY <1>1, <1>2, <1>3 DEF Notified

(* complete_iteration, when the completion event has left the heap.        *)
LEMMA CompletedKeeps ==
  ASSUME NEW s, NEW clock \in Nat, NEW i \in Instances, BetweenRuns(s, clock, i),
         NEW s2 \in RunCompleted(s, clock, i)
  PROVE  StateInv(s2, clock)
<1>1. PICK s1 \in Shipped(s, clock, i) :
        s2 = [s1 EXCEPT !.run[i] = Idle] \/ s2 \in Starts(s1, clock, i)
  BY DEF RunCompleted
<1>2. BetweenRuns(s1, clock, i)
  BY ShippedBetweenRuns
<1> QED
  BY <1>1, <1>2, IdleKeeps, StartsKeep

(* A later time, when nothing in the heap comes before it.                 *)
LEMMA RunLater ==
  ASSUME NEW r \in RunType, NEW clock \in Nat, NEW later \in Nat, clock <= later,
         RunInv(r, clock)
  PROVE  RunInv(r, later)
<1>1. Running(r) => Start(r) <= later
  BY DEF RunInv
<1> QED
  BY <1>1 DEF RunInv

(* heappop: the clock goes to the event, the least in the heap.            *)
LEMMA PopKeeps ==
  ASSUME SimInv, NEW e \in events, Pops(e), e \notin deleted
  PROVE  /\ e.time \in Nat
         /\ e.kind # "completion" => StateInv(Handling(e), e.time)
         /\ e.kind = "completion" => /\ e.inst \in Instances
                                     /\ BetweenRuns(Handling(e), e.time, e.inst)
<1> DEFINE s == Handling(e)
<1>1. /\ s.events = events \ {e} /\ s.deleted = deleted
      /\ s.created = created /\ s.run = run
      /\ s \in StateType
      /\ e.time \in Nat /\ time \in Nat /\ time <= e.time
  BY DEF Handling, SimInv, StateInv, StateType, HeapInv, EventType, Now
<1> HIDE DEF s
<1>2. HeapInv(s, e.time)
  BY <1>1 DEF SimInv, StateInv, HeapInv, Now, Pops
<1>3. ASSUME NEW j \in Instances
      PROVE  RunInv(s.run[j], e.time)
  <2>1. run[j] \in RunType /\ RunInv(run[j], time)
    BY DEF SimInv, StateInv, StateType, Now
  <2> QED
    BY <1>1, <2>1, RunLater
<1>4. ASSUME NEW j \in Instances
      PROVE  Completions(s, j) = Completions(Now, j) \ {e}
  BY <1>1 DEF Completions, Now
<1>5. ASSUME NEW j \in Instances
      PROVE  Completions(Now, j) = {run[j].handle} \ {NoEvent}
  BY DEF SimInv, StateInv, Now
<1>6. CASE e.kind # "completion"
  <2>1. ASSUME NEW j \in Instances
        PROVE  Completions(s, j) = Completions(Now, j)
    BY <1>4, <1>6 DEF Completions
  <2> QED
    BY <1>1, <1>2, <1>3, <1>5, <1>6, <2>1 DEF StateInv, s
<1>7. CASE e.kind = "completion"
  <2>1. e.inst \in Instances
    BY <1>7 DEF SimInv, StateInv, HeapInv, Now
  <2>2. e \in Completions(Now, e.inst)
    BY <1>7 DEF Completions, Now
  <2>3. Completions(s, e.inst) = {}
    BY <1>4, <1>5, <2>1, <2>2
  <2>4. ASSUME NEW j \in Instances \ {e.inst}
        PROVE  Completions(s, j) = {s.run[j].handle} \ {NoEvent}
    <3>1. e \notin Completions(Now, j)
      BY DEF Completions
    <3> QED
      BY <1>1, <1>4, <1>5, <3>1
  <2> QED
    BY <1>1, <1>2, <1>3, <1>7, <2>1, <2>3, <2>4 DEF BetweenRuns, RunsExcept, s
<1> QED
  BY <1>1, <1>6, <1>7 DEF s

(* What a handler leaves is the next state.                                *)
LEMMA BecomesInv ==
  ASSUME NEW s, NEW clock \in Nat, StateInv(s, clock), Becomes(s), time' = clock
  PROVE  SimInv'
<1>1. Now' = s
  BY DEF Now, Becomes, StateInv, StateType
<1> QED
  BY <1>1 DEF SimInv

(* load_trace puts arrivals in the heap and no instance runs.              *)
LEMMA SimInvInitially ==
  ASSUME SimInit
  PROVE  SimInv
<1>1. PICK at \in [1 .. NumArrivals -> 1 .. EndTime] :
        events = {Event(k, at[k], "arrival", NoEvent.inst) : k \in 1 .. NumArrivals}
  BY DEF SimInit
<1>2. ASSUME NEW k \in 1 .. NumArrivals
      PROVE  LET e == Event(k, at[k], "arrival", NoEvent.inst)
             IN /\ e \in EventType /\ e.id = k /\ e.time = at[k] /\ at[k] \in Nat
                /\ e.kind = "arrival"
  BY SimulatorAssumption DEF Event, EventType, Somewhere
<1>3. \A e \in events : /\ e \in EventType /\ 0 <= e.time
                        /\ e.id \in 1 .. NumArrivals /\ e.kind = "arrival"
  BY <1>1, <1>2
<1>4. NoEvent \in EventType
  BY DEF NoEvent, Event, EventType, Somewhere
<1>5. Idle \in RunType /\ RunInv(Idle, 0) /\ Idle.handle = NoEvent
  BY <1>4 DEF Idle, RunType, RunInv, Running
<1>6. time = 0 /\ Now.events = events /\ Now.deleted = {}
      /\ Now.created = NumArrivals /\ Now.run = [i \in Instances |-> Idle]
      /\ Now.queued = [i \in Instances |-> 0]
      /\ Now.waiting = [i \in Instances |-> 0]
  BY DEF SimInit, Now
<1>7. Now \in StateType
  BY <1>3, <1>5, <1>6, SimulatorAssumption DEF StateType, Now
<1>8. HeapInv(Now, 0)
  BY <1>3, <1>6 DEF HeapInv
<1>9. ASSUME NEW j \in Instances
      PROVE  Completions(Now, j) = {}
  BY <1>3, <1>6 DEF Completions
<1> QED
  BY <1>5, <1>6, <1>7, <1>8, <1>9 DEF SimInv, StateInv

(* One step for every handler, and one for a cancelled event.              *)
LEMMA SimStep ==
  ASSUME SimInv, [SimNext]_simVars
  PROVE  SimInv'
<1>1. ASSUME NEW e \in events, DropCancelled(e)
      PROVE  SimInv'
  <2>1. /\ Now'.events = events \ {e} /\ Now'.deleted = deleted \ {e}
        /\ Now'.created = created /\ Now'.run = run /\ time' = time
    BY <1>1 DEF DropCancelled, Now
  <2>2. (Now \in StateType)'
    BY <1>1 DEF DropCancelled, SimInv, StateInv, StateType, Now
  <2>3. HeapInv(Now, time)'
    BY <2>1 DEF SimInv, StateInv, HeapInv, Now
  <2>4. ASSUME NEW j \in Instances
        PROVE  Completions(Now', j) = Completions(Now, j)
    BY <1>1, <2>1 DEF Completions, Now, DropCancelled
  <2> QED
    BY <2>1, <2>2, <2>3, <2>4 DEF SimInv, StateInv, Now
<1>2. ASSUME NEW e \in events, Arrival(e)
      PROVE  SimInv'
  <2>1. PICK i \in Instances :
          \E s \in Notified([Handling(e) EXCEPT !.queued[i] = @ + 1], e.time, i) :
            Becomes(s)
    BY <1>2 DEF Arrival
  <2> DEFINE h == [Handling(e) EXCEPT !.queued[i] = @ + 1]
  <2>2. PICK s \in Notified(h, e.time, i) : Becomes(s)
    BY <2>1
  <2>3. /\ e.time \in Nat /\ time' = e.time
        /\ Handling(e) \in StateType /\ StateInv(Handling(e), e.time)
    BY <1>2, PopKeeps DEF Arrival, Handles, StateInv
  <2>4. StateInv(s, e.time)
    <3>1. /\ h.events = Handling(e).events /\ h.deleted = Handling(e).deleted
          /\ h.created = Handling(e).created /\ h.run = Handling(e).run
          /\ h \in StateType
      BY <2>3 DEF StateType
    <3> HIDE DEF h
    <3>2. StateInv(h, e.time)
      BY <2>3, <3>1 DEF StateInv, HeapInv, Completions
    <3> QED
      BY <2>2, <2>3, <3>2, NotifiedKeeps
  <2> QED
    BY <2>2, <2>3, <2>4, BecomesInv
<1>3. ASSUME NEW e \in events, Completion(e)
      PROVE  SimInv'
  <2>1. PICK s \in RunCompleted(Handling(e), e.time, e.inst) : Becomes(s)
    BY <1>3 DEF Completion
  <2>2. /\ e.time \in Nat /\ e.inst \in Instances /\ time' = e.time
        /\ BetweenRuns(Handling(e), e.time, e.inst)
    BY <1>3, PopKeeps DEF Completion, Handles
  <2>3. StateInv(s, e.time)
    BY <2>2, CompletedKeeps
  <2> QED
    BY <2>1, <2>2, <2>3, BecomesInv
<1>4. ASSUME NEW e \in events, FlowCompletion(e)
      PROVE  SimInv'
  <2>1. PICK dest \in Instances \ {e.inst} :
          \E s \in Notified(Handling(e), e.time, dest) :
            \E s2 \in Notified(s, e.time, e.inst) :
              \E s3 \in NextFlow(s2, e.time, e.inst) : Becomes(s3)
    BY <1>4 DEF FlowCompletion
  <2>2. PICK s \in Notified(Handling(e), e.time, dest) :
          \E s2 \in Notified(s, e.time, e.inst) :
            \E s3 \in NextFlow(s2, e.time, e.inst) : Becomes(s3)
    BY <2>1
  <2>3. PICK s2 \in Notified(s, e.time, e.inst) :
          \E s3 \in NextFlow(s2, e.time, e.inst) : Becomes(s3)
    BY <2>2
  <2>4. PICK s3 \in NextFlow(s2, e.time, e.inst) : Becomes(s3)
    BY <2>3
  <2>5. /\ e.time \in Nat /\ StateInv(Handling(e), e.time) /\ time' = e.time
        /\ e.inst \in Instances
    BY <1>4, PopKeeps DEF FlowCompletion, Handles, SimInv, StateInv, HeapInv, Now
  <2>6. StateInv(s, e.time)
    BY <2>5, NotifiedKeeps
  <2>7. StateInv(s2, e.time)
    BY <2>5, <2>6, NotifiedKeeps
  <2>8. StateInv(s3, e.time)
    BY <2>5, <2>7, NextFlowKeeps
  <2> QED
    BY <2>4, <2>5, <2>8, BecomesInv
<1>5. ASSUME NEW e \in events, RetryFlow(e)
      PROVE  SimInv'
  <2>1. PICK s \in NextFlow(Handling(e), e.time, e.inst) : Becomes(s)
    BY <1>5 DEF RetryFlow
  <2>2. /\ e.time \in Nat /\ StateInv(Handling(e), e.time) /\ time' = e.time
        /\ e.inst \in Instances
    BY <1>5, PopKeeps DEF RetryFlow, Handles, SimInv, StateInv, HeapInv, Now
  <2>3. StateInv(s, e.time)
    BY <2>2, NextFlowKeeps
  <2> QED
    BY <2>1, <2>2, <2>3, BecomesInv
<1>6. CASE UNCHANGED simVars
  BY <1>6 DEF simVars, SimInv, Now
<1> QED
  BY <1>1, <1>2, <1>3, <1>4, <1>5, <1>6 DEF SimNext, LoopEnds
-----------------------------------------------------------------------------
(* The inductive invariant.                                                *)
LEMMA SimInvAlways == SimSpec => []SimInv
  BY SimInvInitially, SimStep, PTL DEF SimSpec

(* The clock never goes back: whatever is scheduled, cancelled and         *)
(* scheduled again, no event in the heap is earlier than the clock.        *)
THEOREM ClockNeverGoesBack == SimSpec => []NothingOverdue
<1>1. SimInv => NothingOverdue
  BY DEF SimInv, StateInv, HeapInv, Now, NothingOverdue
<1> QED
  BY <1>1, SimInvAlways, PTL

(* A running instance has exactly one completion event to come, the one it *)
(* holds; an idle instance has none.                                       *)
THEOREM CompletesOnce == SimSpec => []OneCompletion
<1>1. SimInv => OneCompletion
  BY DEF SimInv, StateInv, Completions, Now, OneCompletion
<1> QED
  BY <1>1, SimInvAlways, PTL

(* What is listed as deleted is still in the heap.                         *)
THEOREM NothingDeletedTooLate == SimSpec => []CancelledArePending
<1>1. SimInv => CancelledArePending
  BY DEF SimInv, StateInv, HeapInv, Now, CancelledArePending
<1> QED
  BY <1>1, SimInvAlways, PTL

(* A paused run ends at the boundary of the iteration that was under way.  *)
THEOREM PausesAtBoundary == SimSpec => []PauseAtBoundary
<1>1. SimInv => PauseAtBoundary
  BY DEF SimInv, StateInv, RunInv, Now, PauseAtBoundary
<1> QED
  BY <1>1, SimInvAlways, PTL

(* Only a pause at the very time of the completion event adds an iteration *)
(* to a run, and only one.                                                 *)
THEOREM ExtendedOnlyAtTheEnd == SimSpec => []PauseNeverExtends
<1>1. SimInv => PauseNeverExtends
  <2> SUFFICES ASSUME SimInv, NEW i \in Instances,
                      run[i].iterations > run[i].planned
               PROVE  /\ run[i].iterations = run[i].planned + 1
                      /\ run[i].pausedAt
                           = Start(run[i]) + run[i].duration * run[i].planned
    BY DEF PauseNeverExtends
  <2>1. run[i] \in RunType /\ RunInv(run[i], time)
    BY DEF SimInv, StateInv, StateType, Now
  <2>2. run[i].iterations # run[i].planned
    BY <2>1 DEF RunType
  <2> QED
    BY <2>1, <2>2 DEF RunInv, RunType
<1> QED
  BY <1>1, SimInvAlways, PTL

-----------------------------------------------------------------------------
Active == {"RUNNING", "BLOCKED"}

(* Which nodes can be outstanding together: exactly one, except that the   *)
(* token task of a chain is queued beside its prompt task.                 *)
StageInv ==
  /\ placed = "no" => prompt = "NONE"
  /\ prompt \in {"NONE", "QUEUED", "RUNNING", "COMPLETED"}
  /\ flow \in {"NONE", "QUEUED", "RUNNING", "COMPLETED"}
  /\ prompt = "NONE" => placed = "no" /\ token = "NONE"
  /\ prompt # "COMPLETED" => flow = "NONE" /\ token \in {"NONE", "QUEUED"}
  /\ placed # "apart" => flow = "NONE"
  /\ placed = "apart" /\ flow # "COMPLETED" => token = "NONE"
  /\ placed = "apart" /\ prompt = "COMPLETED" => flow # "NONE"
  /\ placed = "same" => token # "NONE"
  /\ flow = "COMPLETED" => token # "NONE"

(* request.memory is the size of the cache at every stage, so that what a  *)
(* completion frees is what was allocated.                                 *)
MemoryInv ==
  memory = IF prompt \in {"NONE", "QUEUED"} \/ token = "COMPLETED" THEN 0
           ELSE IF token \in Active THEN FullCache
           ELSE PromptCache

HeldInv ==
  /\ heldSrc = IF flow = "COMPLETED" THEN 0 ELSE memory
  /\ heldDest = IF flow \in {"RUNNING", "COMPLETED"} THEN memory ELSE 0

CountInv ==
  /\ generated <= TokenCache
  /\ token = "COMPLETED" => generated = TokenCache

PathInv == TypeOK /\ StageInv /\ MemoryInv /\ HeldInv /\ CountInv
-----------------------------------------------------------------------------
(* The sizes of the KV-cache that a request accounts for are natural, and  *)
(* the prompt's and the token's add up to the whole.                       *)
LEMMA CacheSizes ==
  ASSUME size \in Shapes
  PROVE  /\ PromptCache \in Nat \ {0}
         /\ TokenCache \in Nat
         /\ FullCache \in Nat
         /\ FullCache = PromptCache + TokenCache
  BY PathAssumption DEF PromptCache, TokenCache, FullCache

(* A request that has not started holds no memory.                         *)
LEMMA PathInit == Init => PathInv
<1> SUFFICES ASSUME Init PROVE PathInv
  OBVIOUS
<1>1. TokenCache \in Nat
  BY CacheSizes DEF Init
<1> QED
  BY <1>1 DEF Init, PathInv, TypeOK, NodeState, StageInv, MemoryInv, HeldInv,
              CountInv

(* Every step of the path preserves the invariant.                         *)
LEMMA PathStep == PathInv /\ [Next]_pvars => PathInv'
<1> SUFFICES ASSUME PathInv, [Next]_pvars PROVE PathInv'
  OBVIOUS
<1>1. /\ PromptCache \in Nat \ {0} /\ TokenCache \in Nat /\ FullCache \in Nat
      /\ FullCache = PromptCache + TokenCache
  BY CacheSizes DEF PathInv, TypeOK
<1>2. size' = size => /\ PromptCache' = PromptCache
                      /\ TokenCache' = TokenCache
                      /\ FullCache' = FullCache
  BY DEF PromptCache, TokenCache, FullCache
<1> USE <1>1, <1>2 DEF PathInv, TypeOK, NodeState, StageInv, MemoryInv, HeldInv,
                       CountInv, Active, Submitted, Amount
<1>3. CASE \E where \in {"same", "apart"}, runs \in BOOLEAN : Arrive(where, runs)
  BY <1>3 DEF Arrive
<1>4. CASE RunPrompt
  BY <1>4 DEF RunPrompt
<1>5. ASSUME NEW runs \in BOOLEAN, FinishPrompt(runs)
      PROVE  PathInv'
  BY <1>5 DEF FinishPrompt
<1>6. ASSUME NEW runs \in BOOLEAN, FinishFlow(runs)
      PROVE  PathInv'
  BY <1>6 DEF FinishFlow
<1>7. CASE RunFlow
  BY <1>7 DEF RunFlow
<1>8. CASE RunToken
  BY <1>8 DEF RunToken
<1>9. ASSUME NEW n \in 1 .. TokenCache, NEW preempts \in BOOLEAN,
             Generate(n, preempts)
      PROVE  PathInv'
  BY <1>9 DEF Generate
<1>10. CASE Resume
  BY <1>10 DEF Resume
<1>11. CASE FinishToken
  BY <1>11 DEF FinishToken
<1>12. CASE Done \/ UNCHANGED pvars
  BY <1>12 DEF Done, pvars
<1> QED
  BY <1>3, <1>4, <1>5, <1>6, <1>7, <1>8, <1>9, <1>10, <1>11, <1>12 DEF Next

(* The invariant holds throughout the path.                                *)
LEMMA PathInvariant == Spec => []PathInv
  BY PathInit, PathStep, PTL DEF Spec
-----------------------------------------------------------------------------
(* Every variable keeps its type; in particular the memory accounts never  *)
(* become negative, which processor.memory_used would reject.              *)
THEOREM PathTypeCorrect == Spec => []TypeOK
<1>1. PathInv => TypeOK
  BY DEF PathInv
<1> QED
  BY <1>1, PathInvariant, PTL

(* The KV-cache is allocated where the request is, and freed once.         *)
THEOREM CacheIsConserved == Spec => []CacheFollowsRequest
<1>1. PathInv => CacheFollowsRequest
  BY CacheSizes DEF PathInv, TypeOK, NodeState, StageInv, MemoryInv, HeldInv,
                    Active, CacheFollowsRequest
<1> QED
  BY <1>1, PathInvariant, PTL

(* No token task runs before its prompt task and its transfer.             *)
THEOREM NodesRunInOrder == Spec => []DecodeAfterPrefill
<1>1. PathInv => DecodeAfterPrefill
  BY DEF PathInv, TypeOK, NodeState, StageInv, CountInv, DecodeAfterPrefill
<1> QED
  BY <1>1, PathInvariant, PTL

-----------------------------------------------------------------------------
Legal == {<<"NONE", "QUEUED">>, <<"NONE", "RUNNING">>, <<"QUEUED", "RUNNING">>,
          <<"RUNNING", "BLOCKED">>, <<"BLOCKED", "RUNNING">>,
          <<"RUNNING", "COMPLETED">>}

TierMetrics == [routerArrival : Nat, schedulerArrival : Nat, executorStart : Nat,
                schedulerCompletion : Nat, routerQueue : Int, schedulerQueue : Int,
                queue : Int, service : Int, ttft : Int, routerResponse : Int]

MetricsType ==
  /\ now \in Nat
  /\ measured \in [Nodes -> NodeMetrics]
  /\ tiers \in TierMetrics /\ tiers.executorStart <= now

(* A node that waits has no time counted yet; the others' times add up.    *)
TimesOf(m, state) ==
  /\ state \in {"NONE", "QUEUED"} => m.queue = 0 /\ m.service = 0 /\ m.blocked = 0
  /\ state = "RUNNING"   => m.queue + m.service + m.blocked = m.run - m.arrival
  /\ state = "BLOCKED"   => m.queue + m.service + m.blocked = m.preempt - m.arrival
  /\ state = "COMPLETED" => m.queue + m.service + m.blocked = m.response

HasRun == {"RUNNING", "BLOCKED", "COMPLETED"}

(* What the timestamps of a node mean in each of its states; none lies in  *)
(* the future.                                                             *)
SpanOf(m, state) ==
  /\ state # "NONE" => m.arrival <= now
  /\ state \in HasRun => /\ m.queue = m.start - m.arrival
                         /\ m.arrival <= m.start /\ m.start <= now
  /\ state = "BLOCKED" => m.preempt <= now
  /\ m.blocked >= 0
  /\ state # "COMPLETED" => m.response = 0
  /\ state = "COMPLETED" => /\ m.response = m.completion - m.arrival
                            /\ m.completion <= now

NodesInv ==
  \A n \in Nodes : TimesOf(measured[n], StateOf[n]) /\ SpanOf(measured[n], StateOf[n])

(* The tiers' times are the distances between their timestamps; no node    *)
(* is created before the request runs on its executor.                     *)
StagesInv ==
  /\ stage \in {"NONE", "QUEUED_AT_ROUTER", "QUEUED_AT_SCHEDULER"} => prompt = "NONE"
  /\ stage \in {"QUEUED_AT_SCHEDULER", "RUNNING_ON_EXECUTOR", "COMPLETED_AT_ROUTER"} =>
       tiers.routerQueue = tiers.schedulerArrival - tiers.routerArrival
  /\ stage \in {"RUNNING_ON_EXECUTOR", "COMPLETED_AT_ROUTER"} =>
       tiers.schedulerQueue = tiers.executorStart - tiers.schedulerArrival
  /\ stage # "COMPLETED_AT_ROUTER" => tiers.service = 0
  /\ stage = "COMPLETED_AT_ROUTER" =>
       /\ token = "COMPLETED"
       /\ tiers.service = tiers.schedulerCompletion - tiers.executorStart
       /\ tiers.routerResponse = tiers.schedulerCompletion - tiers.routerArrival

(* The timestamps of the nodes in the order of the DAG, and the two times  *)
(* the request takes from its first node.                                  *)
OrderInv ==
  LET p == measured["prompt"]
      f == measured["flow"]
      k == measured["token"]
  IN  /\ prompt # "NONE" => tiers.executorStart <= p.arrival
      /\ prompt \in HasRun => tiers.queue = p.start - tiers.routerArrival
      /\ prompt = "COMPLETED" => tiers.ttft = p.completion - tiers.routerArrival
      /\ flow # "NONE" => p.completion <= f.arrival
      /\ token \in HasRun => /\ p.completion <= k.start
                             /\ flow = "COMPLETED" => f.completion <= k.start

MetricsInv == PathInv /\ MetricsType /\ NodesInv /\ StagesInv /\ OrderInv

(* What m becomes in a step of its node from old to new: its new times and *)
(* span fit, and a timestamp is written once, when it is reached.          *)
Kept(m, becomes, old, new) ==
  /\ becomes \in NodeMetrics
  /\ TimesOf(becomes, new) /\ SpanOf(becomes, new)
  /\ becomes.arrival = IF old = "NONE" /\ new # "NONE" THEN now ELSE m.arrival
  /\ becomes.start = IF old \in {"NONE", "QUEUED"} /\ new = "RUNNING"
                       THEN now ELSE m.start
  /\ becomes.completion = IF old # "COMPLETED" /\ new = "COMPLETED"
                            THEN now ELSE m.completion
-----------------------------------------------------------------------------
(* A step of the request path moves each node by a legal transition or     *)
(* leaves it where it is (Node.state, node.py).                            *)
LEMMA LegalSteps ==
  ASSUME PathInv, Next, NEW n \in Nodes
  PROVE  StateOf'[n] = StateOf[n] \/ <<StateOf[n], StateOf'[n]>> \in Legal
<1>1. /\ StateOf["prompt"] = prompt /\ StateOf'["prompt"] = prompt'
      /\ StateOf["flow"] = flow /\ StateOf'["flow"] = flow'
      /\ StateOf["token"] = token /\ StateOf'["token"] = token'
  BY DEF StateOf
<1> DEFINE Fine(old, new) == old = new \/ <<old, new>> \in Legal
<1>2. Fine(prompt, prompt') /\ Fine(flow, flow') /\ Fine(token, token')
  <2> USE DEF Legal, PathInv, StageInv, Submitted
  <2>1. CASE \E where \in {"same", "apart"}, runs \in BOOLEAN : Arrive(where, runs)
    BY <2>1 DEF Arrive
  <2>2. CASE RunPrompt
    BY <2>2 DEF RunPrompt
  <2>3. ASSUME NEW runs \in BOOLEAN, FinishPrompt(runs)
        PROVE  Fine(prompt, prompt') /\ Fine(flow, flow') /\ Fine(token, token')
    BY <2>3 DEF FinishPrompt
  <2>4. ASSUME NEW runs \in BOOLEAN, FinishFlow(runs)
        PROVE  Fine(prompt, prompt') /\ Fine(flow, flow') /\ Fine(token, token')
    BY <2>4 DEF FinishFlow
  <2>5. CASE RunFlow
    BY <2>5 DEF RunFlow
  <2>6. CASE RunToken
    BY <2>6 DEF RunToken
  <2>7. CASE \E k \in 1 .. TokenCache, preempts \in BOOLEAN : Generate(k, preempts)
    BY <2>7 DEF Generate
  <2>8. CASE Resume \/ FinishToken \/ Done
    BY <2>8 DEF Resume, FinishToken, Done, pvars
  <2> QED
    BY <2>1, <2>2, <2>3, <2>4, <2>5, <2>6, <2>7, <2>8 DEF Next
<1> QED
  BY <1>1, <1>2 DEF Nodes

(* Each of the four measurements (NodeMetrics of metrics.py, called by     *)
(* run, run_after_preempt, preempt and complete of node.py) leaves the     *)
(* times in the relation that the state it leads to asks for.  This one    *)
(* ends the queueing.                                                      *)
LEMMA StartKeepsTimes ==
  ASSUME now \in Nat, NEW m \in NodeMetrics,
         TimesOf(m, "QUEUED"), SpanOf(m, "QUEUED")
  PROVE  Kept(m, Started(m), "QUEUED", "RUNNING")
<1> USE DEF NodeMetrics
<1>1. PICK k \in Int : k = m.queue + now - m.arrival
  OBVIOUS
<1>2. PICK a \in NodeMetrics : a = [m EXCEPT !.run = now]
  OBVIOUS
<1>3. PICK b \in NodeMetrics : b = [a EXCEPT !.start = now]
  OBVIOUS
<1>4. PICK c \in NodeMetrics : c = [b EXCEPT !.queue = k]
  OBVIOUS
<1>5. Started(m) = c
  BY <1>1, <1>2, <1>3, <1>4 DEF Started
<1>6. /\ c.queue = k /\ c.run = now /\ c.arrival = m.arrival
      /\ c.service = m.service /\ c.blocked = m.blocked
      /\ c.start = now /\ c.preempt = m.preempt
      /\ c.completion = m.completion /\ c.response = m.response
  BY <1>2, <1>3, <1>4
<1> QED
  BY <1>1, <1>5, <1>6 DEF TimesOf, SpanOf, HasRun, Kept

(* The same of a preemption: the time since the last run is service.       *)
LEMMA PreemptKeepsTimes ==
  ASSUME now \in Nat, NEW m \in NodeMetrics,
         TimesOf(m, "RUNNING"), SpanOf(m, "RUNNING")
  PROVE  Kept(m, Preempted(m), "RUNNING", "BLOCKED")
<1> USE DEF NodeMetrics
<1>1. PICK k \in Int : k = m.service + now - m.run
  OBVIOUS
<1>2. PICK a \in NodeMetrics : a = [m EXCEPT !.preempt = now]
  OBVIOUS
<1>3. PICK b \in NodeMetrics : b = [a EXCEPT !.service = k]
  OBVIOUS
<1>4. Preempted(m) = b
  BY <1>1, <1>2, <1>3 DEF Preempted
<1>5. /\ b.service = k /\ b.preempt = now /\ b.arrival = m.arrival
      /\ b.queue = m.queue /\ b.blocked = m.blocked
      /\ b.start = m.start
      /\ b.completion = m.completion /\ b.response = m.response
  BY <1>2, <1>3
<1> QED
  BY <1>1, <1>4, <1>5 DEF TimesOf, SpanOf, HasRun, Kept

(* The same of a run after a preemption: the time since is blocked time.   *)
LEMMA ResumeKeepsTimes ==
  ASSUME now \in Nat, NEW m \in NodeMetrics,
         TimesOf(m, "BLOCKED"), SpanOf(m, "BLOCKED")
  PROVE  Kept(m, Resumed(m), "BLOCKED", "RUNNING")
<1> USE DEF NodeMetrics
<1>1. PICK k \in Int : k = m.blocked + now - m.preempt
  OBVIOUS
<1>2. PICK a \in NodeMetrics : a = [m EXCEPT !.run = now]
  OBVIOUS
<1>3. PICK b \in NodeMetrics : b = [a EXCEPT !.blocked = k]
  OBVIOUS
<1>4. Resumed(m) = b
  BY <1>1, <1>2, <1>3 DEF Resumed
<1>5. /\ b.blocked = k /\ b.run = now /\ b.arrival = m.arrival
      /\ b.queue = m.queue /\ b.service = m.service
      /\ b.start = m.start /\ b.preempt = m.preempt
      /\ b.completion = m.completion /\ b.response = m.response
  BY <1>2, <1>3
<1> QED
  BY <1>1, <1>4, <1>5 DEF TimesOf, SpanOf, HasRun, Kept

(* The same of the completion: no time of the node is left uncounted.      *)
LEMMA CompleteKeepsTimes ==
  ASSUME now \in Nat, NEW m \in NodeMetrics,
         TimesOf(m, "RUNNING"), SpanOf(m, "RUNNING")
  PROVE  Kept(m, Completed(m), "RUNNING", "COMPLETED")
<1> USE DEF NodeMetrics
<1>1. PICK k \in Int : k = m.service + now - m.run
  OBVIOUS
<1>2. PICK l \in Int : l = now - m.arrival
  OBVIOUS
<1>3. PICK a \in NodeMetrics : a = [m EXCEPT !.completion = now]
  OBVIOUS
<1>4. PICK b \in NodeMetrics : b = [a EXCEPT !.service = k]
  OBVIOUS
<1>5. PICK c \in NodeMetrics : c = [b EXCEPT !.response = l]
  OBVIOUS
<1>6. Completed(m) = c
  BY <1>1, <1>2, <1>3, <1>4, <1>5 DEF Completed
<1>7. /\ c.service = k /\ c.response = l /\ c.arrival = m.arrival
      /\ c.queue = m.queue /\ c.blocked = m.blocked
      /\ c.start = m.start /\ c.preempt = m.preempt /\ c.completion = now
  BY <1>3, <1>4, <1>5
<1> QED
  BY <1>1, <1>2, <1>6, <1>7 DEF TimesOf, SpanOf, HasRun, Kept

(* What one event does to the metrics of one node.                         *)
LEMMA MeasureKeepsTimes ==
  ASSUME now \in Nat, NEW m \in NodeMetrics, NEW old, NEW new,
         old = new \/ <<old, new>> \in Legal, TimesOf(m, old), SpanOf(m, old)
  PROVE  Kept(m, Measure(m, old, new), old, new)
<1>1. CASE old = new
  BY <1>1 DEF Measure, Kept
<1>2. CASE old = "NONE"
  <2>1. Kept(m, Arrived(m), "NONE", "QUEUED")
    BY <1>2 DEF Arrived, NodeMetrics, TimesOf, SpanOf, HasRun, Kept
  <2>2. Kept(Arrived(m), Started(Arrived(m)), "QUEUED", "RUNNING")
    BY <2>1, StartKeepsTimes DEF Kept
  <2>3. Kept(m, Started(Arrived(m)), "NONE", "RUNNING")
    BY <2>1, <2>2 DEF Kept
  <2> QED
    BY <1>1, <1>2, <2>1, <2>3 DEF Measure, Legal
<1>3. CASE old = "QUEUED"
  BY <1>1, <1>3, StartKeepsTimes DEF Measure, Legal
<1>4. CASE old = "BLOCKED"
  BY <1>1, <1>4, ResumeKeepsTimes DEF Measure, Legal
<1>5. CASE old = "RUNNING"
  BY <1>1, <1>5, PreemptKeepsTimes, CompleteKeepsTimes DEF Measure, Legal
<1> QED
  BY <1>1, <1>2, <1>3, <1>4, <1>5 DEF Legal

(* What the first node's start and completion write of the request: its    *)
(* queue time and its time to first token (Node.run, PromptTask.complete). *)
LEMMA MarksTiers ==
  ASSUME tiers \in TierMetrics, now \in Nat
  PROVE  /\ MarkFirstToken \in TierMetrics
         /\ \A x \in DOMAIN tiers \ {"queue", "ttft"} : MarkFirstToken[x] = tiers[x]
         /\ MarkFirstToken.queue = IF prompt # "RUNNING" /\ prompt' = "RUNNING"
                                    THEN now - tiers.routerArrival ELSE tiers.queue
         /\ MarkFirstToken.ttft = IF prompt # "COMPLETED" /\ prompt' = "COMPLETED"
                                   THEN now - tiers.routerArrival ELSE tiers.ttft
<1> USE DEF TierMetrics
<1>1. PICK q \in Int : q = IF prompt # "RUNNING" /\ prompt' = "RUNNING"
                           THEN now - tiers.routerArrival ELSE tiers.queue
  OBVIOUS
<1>2. PICK t \in Int : t = IF prompt # "COMPLETED" /\ prompt' = "COMPLETED"
                           THEN now - tiers.routerArrival ELSE tiers.ttft
  OBVIOUS
<1>3. PICK a \in TierMetrics : a = [tiers EXCEPT !.queue = q]
  OBVIOUS
<1>4. PICK b \in TierMetrics : b = [a EXCEPT !.ttft = t]
  OBVIOUS
<1>5. MarkFirstToken = b
  BY <1>1, <1>2, <1>3, <1>4 DEF MarkFirstToken
<1> QED
  BY <1>1, <1>2, <1>3, <1>4, <1>5

(* A node that has not arrived is unmeasured, and the invariant holds.     *)
LEMMA MetricsStart == MetricsInit => MetricsInv
<1> SUFFICES ASSUME MetricsInit PROVE MetricsInv
  OBVIOUS
<1>1. PathInv
  BY PathInit DEF MetricsInit
<1>2. Unmeasured \in NodeMetrics
  BY DEF Unmeasured, NodeMetrics
<1>3. \A n \in Nodes : StateOf[n] = "NONE" /\ measured[n] = Unmeasured
  BY DEF MetricsInit, Init, StateOf, Nodes
<1>4. NodesInv
  BY <1>2, <1>3 DEF MetricsInit, NodesInv, TimesOf, SpanOf, HasRun, Unmeasured
<1>5. MetricsType
  BY <1>2 DEF MetricsInit, MetricsType, TierMetrics
<1>6. StagesInv /\ OrderInv
  BY DEF MetricsInit, Init, StagesInv, OrderInv, HasRun
<1> QED
  BY <1>1, <1>4, <1>5, <1>6 DEF MetricsInv

(* A step that moves no node, at a clock that does not go back, leaves the *)
(* invariants of the nodes as they are.                                    *)
LEMMA NodesKeep ==
  ASSUME MetricsInv, UNCHANGED <<pvars, measured>>, now' \in Nat, now' >= now
  PROVE  /\ PathInv' /\ NodesInv'
         /\ UNCHANGED <<placed, prompt, flow, token>>
<1>1. PathInv'
  BY PathStep DEF MetricsInv
<1>2. StateOf' = StateOf
  BY DEF StateOf, pvars
<1>3. ASSUME NEW n \in Nodes
      PROVE  TimesOf(measured[n], StateOf[n])' /\ SpanOf(measured[n], StateOf[n])'
  <2>1. measured[n] \in NodeMetrics /\ now \in Nat
    BY DEF MetricsInv, MetricsType
  <2> QED
    BY <1>2, <2>1 DEF MetricsInv, NodesInv, TimesOf, SpanOf, NodeMetrics
<1> QED
  BY <1>1, <1>3 DEF NodesInv, pvars

(* Before the request runs on its executor there are no nodes; the step of *)
(* a tier records the time its call took.                                  *)
LEMMA TierKeepsTimes ==
  ASSUME MetricsInv, ArriveAtRouter \/ ArriveAtScheduler \/ RunOnExecutor
  PROVE  MetricsInv'
<1>1. /\ tiers \in TierMetrics /\ now \in Nat /\ tiers.executorStart <= now
      /\ prompt = "NONE" /\ flow = "NONE" /\ token = "NONE"
  BY DEF MetricsInv, MetricsType, PathInv, StageInv, StagesInv, ArriveAtRouter,
         ArriveAtScheduler, RunOnExecutor
<1>2. UNCHANGED <<pvars, now, measured>>
  BY DEF ArriveAtRouter, ArriveAtScheduler, RunOnExecutor
<1>3. PathInv' /\ NodesInv' /\ UNCHANGED <<placed, prompt, flow, token>>
  BY <1>1, <1>2, NodesKeep
<1>4. OrderInv'
  BY <1>1, <1>3 DEF OrderInv, HasRun
<1>5. MetricsType' /\ StagesInv'
  <2> USE <1>1, <1>2, <1>3 DEF MetricsInv, MetricsType, StagesInv, TierMetrics
  <2>1. CASE ArriveAtRouter
    BY <2>1 DEF ArriveAtRouter
  <2>2. CASE ArriveAtScheduler
    <3>1. PICK d \in Int : d = now - tiers.routerArrival
      OBVIOUS
    <3>2. tiers' = [tiers EXCEPT !.schedulerArrival = now, !.routerQueue = d]
      BY <2>2, <3>1 DEF ArriveAtScheduler
    <3>3. stage' = "QUEUED_AT_SCHEDULER" /\ stage = "QUEUED_AT_ROUTER"
      BY <2>2 DEF ArriveAtScheduler
    <3> QED
      BY <3>1, <3>2, <3>3
  <2>3. CASE RunOnExecutor
    <3>1. PICK d \in Int : d = now - tiers.schedulerArrival
      OBVIOUS
    <3>2. tiers' = [tiers EXCEPT !.executorStart = now, !.schedulerQueue = d]
      BY <2>3, <3>1 DEF RunOnExecutor
    <3>3. stage' = "RUNNING_ON_EXECUTOR" /\ stage = "QUEUED_AT_SCHEDULER"
      BY <2>3 DEF RunOnExecutor
    <3>4. /\ tiers' \in TierMetrics /\ tiers'.executorStart = now
          /\ tiers'.schedulerQueue = d /\ tiers'.service = tiers.service
          /\ tiers'.schedulerArrival = tiers.schedulerArrival
          /\ tiers'.routerArrival = tiers.routerArrival
          /\ tiers'.routerQueue = tiers.routerQueue
      BY <3>1, <3>2
    <3> QED
      BY <3>1, <3>3, <3>4
  <2> QED
    BY <2>1, <2>2, <2>3
<1> QED
  BY <1>3, <1>4, <1>5 DEF MetricsInv

(* The completion measures the service and the response time of the whole  *)
(* request, once.                                                          *)
LEMMA CompletionKeepsTimes ==
  ASSUME MetricsInv, CompleteRequest
  PROVE  MetricsInv'
<1>1. /\ tiers \in TierMetrics /\ now \in Nat /\ tiers.executorStart <= now
      /\ tiers.service = 0 /\ UNCHANGED <<pvars, now, measured>>
  BY DEF MetricsInv, MetricsType, StagesInv, CompleteRequest
<1>2. PathInv' /\ NodesInv' /\ UNCHANGED <<placed, prompt, flow, token>>
  BY <1>1, NodesKeep
<1>3. PICK d \in Int : d = tiers.service + now - tiers.executorStart
  BY <1>1 DEF TierMetrics
<1>4. PICK e \in Int : e = now - tiers.routerArrival
  BY <1>1 DEF TierMetrics
<1>5. tiers' = [tiers EXCEPT !.schedulerCompletion = now, !.service = d,
                             !.routerResponse = e]
  BY <1>1, <1>3, <1>4 DEF CompleteRequest
<1>6. /\ tiers' \in TierMetrics
      /\ \A x \in DOMAIN tiers \ {"schedulerCompletion", "service", "routerResponse"} :
           tiers'[x] = tiers[x]
      /\ tiers'.schedulerCompletion = now /\ tiers'.service = d /\ tiers'.routerResponse = e
  BY <1>1, <1>5 DEF TierMetrics
<1>7. /\ tiers'.executorStart = tiers.executorStart
      /\ tiers'.schedulerArrival = tiers.schedulerArrival
      /\ tiers'.routerArrival = tiers.routerArrival
      /\ tiers'.routerQueue = tiers.routerQueue
      /\ tiers'.schedulerQueue = tiers.schedulerQueue
      /\ tiers'.queue = tiers.queue /\ tiers'.ttft = tiers.ttft
  BY <1>1, <1>6 DEF TierMetrics
<1>8. MetricsType'
  BY <1>1, <1>6, <1>7 DEF MetricsInv, MetricsType
<1>9. StagesInv'
  BY <1>1, <1>2, <1>3, <1>4, <1>6, <1>7 DEF MetricsInv, StagesInv, CompleteRequest,
     TierMetrics
<1>10. OrderInv'
  BY <1>1, <1>2, <1>7 DEF MetricsInv, OrderInv
<1> QED
  BY <1>2, <1>8, <1>9, <1>10 DEF MetricsInv

(* Each step of the path measures the nodes that it moves.  Their order in *)
(* time is that of the DAG: a node that starts finds its predecessors      *)
(* complete, or completes them in the same event.                          *)
LEMMA PathKeepsTimes ==
  ASSUME MetricsInv, NodesStep
  PROVE  MetricsInv'
<1>1. now \in Nat /\ now' = now /\ stage' = stage /\ stage = "RUNNING_ON_EXECUTOR"
  BY DEF MetricsInv, MetricsType, NodesStep
<1>2. PathInv /\ PathInv'
  BY PathStep DEF MetricsInv, NodesStep
<1> DEFINE old(n) == StateOf[n]
           new(n) == StateOf'[n]
<1>3. ASSUME NEW n \in Nodes
      PROVE  /\ old(n) = new(n) \/ <<old(n), new(n)>> \in Legal
             /\ measured[n] \in NodeMetrics /\ TimesOf(measured[n], old(n))
             /\ SpanOf(measured[n], old(n))
             /\ Kept(measured[n], measured'[n], old(n), new(n))
  <2>1. old(n) = new(n) \/ <<old(n), new(n)>> \in Legal
    BY LegalSteps DEF MetricsInv, NodesStep
  <2>2. measured'[n] = Measure(measured[n], old(n), new(n))
    BY DEF NodesStep
  <2>3. measured[n] \in NodeMetrics /\ TimesOf(measured[n], old(n))
        /\ SpanOf(measured[n], old(n))
    BY DEF MetricsInv, MetricsType, NodesInv
  <2> HIDE DEF old, new
  <2> QED
    BY <1>1, <2>1, <2>2, <2>3, MeasureKeepsTimes
<1>4. NodesInv'
  <2> SUFFICES ASSUME NEW n \in Nodes
               PROVE  TimesOf(measured[n], StateOf[n])' /\ SpanOf(measured[n], StateOf[n])'
    BY DEF NodesInv
  <2>1. TimesOf(measured'[n], new(n)) /\ SpanOf(measured'[n], new(n))
    BY <1>3 DEF Kept
  <2> QED
    BY <1>1, <2>1 DEF TimesOf, SpanOf
<1>5. /\ tiers' \in TierMetrics
      /\ \A x \in DOMAIN tiers \ {"queue", "ttft"} : tiers'[x] = tiers[x]
      /\ tiers'.queue = IF prompt # "RUNNING" /\ prompt' = "RUNNING"
                         THEN now - tiers.routerArrival ELSE tiers.queue
      /\ tiers'.ttft = IF prompt # "COMPLETED" /\ prompt' = "COMPLETED"
                        THEN now - tiers.routerArrival ELSE tiers.ttft
  BY <1>1, MarksTiers DEF NodesStep, MetricsInv, MetricsType
<1>6. /\ tiers'.executorStart = tiers.executorStart
      /\ tiers'.schedulerArrival = tiers.schedulerArrival
      /\ tiers'.routerArrival = tiers.routerArrival
      /\ tiers'.routerQueue = tiers.routerQueue
      /\ tiers'.schedulerQueue = tiers.schedulerQueue
      /\ tiers'.service = tiers.service
  BY <1>5 DEF MetricsInv, MetricsType, TierMetrics
<1>7. MetricsType'
  <2>1. measured' \in [Nodes -> NodeMetrics]
    BY <1>3 DEF NodesStep, Kept
  <2> QED
    BY <1>1, <1>5, <1>6, <2>1 DEF MetricsInv, MetricsType
<1>8. StagesInv'
  BY <1>1, <1>6 DEF MetricsInv, StagesInv
<1>9. OrderInv'
  <2> DEFINE p == measured["prompt"]
             f == measured["flow"]
             k == measured["token"]
  <2>1. /\ prompt = prompt' \/ <<prompt, prompt'>> \in Legal
        /\ flow = flow' \/ <<flow, flow'>> \in Legal
        /\ token = token' \/ <<token, token'>> \in Legal
        /\ Kept(p, p', prompt, prompt') /\ Kept(f, f', flow, flow')
        /\ Kept(k, k', token, token')
        /\ SpanOf(p, prompt) /\ SpanOf(f, flow) /\ SpanOf(k, token)
        /\ p \in NodeMetrics /\ f \in NodeMetrics /\ k \in NodeMetrics
        /\ p' \in NodeMetrics /\ f' \in NodeMetrics /\ k' \in NodeMetrics
    BY <1>3, <1>7 DEF Nodes, StateOf, MetricsType
  <2>2. tiers \in TierMetrics /\ tiers.executorStart <= now
    BY DEF MetricsInv, MetricsType
  <2>3. /\ prompt # "NONE" => tiers.executorStart <= p.arrival
        /\ prompt \in HasRun => tiers.queue = p.start - tiers.routerArrival
        /\ prompt = "COMPLETED" => tiers.ttft = p.completion - tiers.routerArrival
        /\ flow # "NONE" => p.completion <= f.arrival
        /\ token \in HasRun => /\ p.completion <= k.start
                               /\ flow = "COMPLETED" => f.completion <= k.start
    BY DEF MetricsInv, OrderInv
  <2>4. StageInv /\ StageInv'
    BY <1>2 DEF PathInv
  <2> HIDE DEF p, f, k
  <2> USE <1>1, <2>1, <2>2, <2>3, <2>4
  <2>5. /\ prompt' # "NONE" => tiers'.executorStart <= p'.arrival
        /\ prompt' \in HasRun => tiers'.queue = p'.start - tiers'.routerArrival
        /\ prompt' = "COMPLETED" => tiers'.ttft = p'.completion - tiers'.routerArrival
    BY <1>5, <1>6 DEF Kept, Legal, HasRun, StageInv, TierMetrics, NodeMetrics
  <2>6. flow' # "NONE" => p'.completion <= f'.arrival
    BY DEF Kept, Legal, StageInv, SpanOf, NodeMetrics
  <2>7. token' \in HasRun => p'.completion <= k'.start
    BY DEF Kept, Legal, StageInv, SpanOf, HasRun, NodeMetrics
  <2>8. token' \in HasRun /\ flow' = "COMPLETED" => f'.completion <= k'.start
    BY DEF Kept, Legal, StageInv, SpanOf, HasRun, NodeMetrics
  <2> QED
    BY <2>5, <2>6, <2>7, <2>8 DEF OrderInv, p, f, k
<1> QED
  BY <1>2, <1>4, <1>7, <1>8, <1>9 DEF MetricsInv

(* Every step preserves the invariant; time only passes.                   *)
LEMMA MetricsStep ==
  MetricsInv /\ [MetricsNext]_<<pvars, mvars>> => MetricsInv'
<1> SUFFICES ASSUME MetricsInv, [MetricsNext]_<<pvars, mvars>> PROVE MetricsInv'
  OBVIOUS
<1>1. ASSUME UNCHANGED <<pvars, stage, tiers, measured>>, now' \in Nat, now' >= now
      PROVE  MetricsInv'
  <2>1. PathInv' /\ NodesInv' /\ UNCHANGED <<placed, prompt, flow, token>>
    BY <1>1, NodesKeep
  <2>2. now \in Nat /\ tiers.executorStart \in Nat
    BY DEF MetricsInv, MetricsType, TierMetrics
  <2> QED
    BY <1>1, <2>1, <2>2 DEF MetricsInv, MetricsType, StagesInv, OrderInv
<1>2. CASE Tick
  BY <1>1, <1>2 DEF Tick, MetricsInv, MetricsType
<1>3. CASE Finished \/ UNCHANGED <<pvars, mvars>>
  BY <1>1, <1>3 DEF Finished, mvars, MetricsInv, MetricsType
<1> QED
  BY <1>2, <1>3, TierKeepsTimes, PathKeepsTimes, CompletionKeepsTimes DEF MetricsNext

(* The times of every node add up in every execution: what results report  *)
(* as queued, served and blocked is its whole response time.               *)
THEOREM NodeTimesAddUp == MetricsSpec => []TimesAddUp
<1>1. MetricsInv => TimesAddUp
  BY DEF MetricsInv, NodesInv, TimesOf, TimesAddUp
<1> QED
  BY <1>1, MetricsStart, MetricsStep, PTL DEF MetricsSpec

(* The columns that Scheduler.get_results fills from router, request and   *)
(* nodes decompose the response time of every completed request, and the   *)
(* rows of request_nodes.csv are in the order of the DAG.                  *)
THEOREM ResponseAlwaysDecomposes == MetricsSpec => []ResponseDecomposes
<1> DEFINE p == measured["prompt"]
           f == measured["flow"]
           k == measured["token"]
<1>1. ASSUME MetricsInv, stage = "COMPLETED_AT_ROUTER"
      PROVE  ResponseDecomposes
  <2>1. /\ p \in NodeMetrics /\ f \in NodeMetrics /\ k \in NodeMetrics
        /\ tiers \in TierMetrics
    BY <1>1 DEF MetricsInv, MetricsType, Nodes
  <2>2. token = "COMPLETED" /\ prompt = "COMPLETED" /\ flow \in {"NONE", "COMPLETED"}
    BY <1>1 DEF MetricsInv, StagesInv, PathInv, StageInv
  <2>3. /\ p.queue + p.service + p.blocked = p.response
        /\ p.queue = p.start - p.arrival /\ p.blocked >= 0
        /\ p.response = p.completion - p.arrival
        /\ k.queue + k.service + k.blocked = k.response
        /\ k.queue = k.start - k.arrival
        /\ k.response = k.completion - k.arrival
    BY <1>1, <2>2 DEF MetricsInv, NodesInv, TimesOf, SpanOf, HasRun, Nodes, StateOf
  <2>4. /\ flow = "NONE" => f.response = 0
        /\ flow = "COMPLETED" => /\ f.response = f.completion - f.arrival
                                 /\ f.arrival <= f.start
    BY <1>1 DEF MetricsInv, NodesInv, SpanOf, HasRun, Nodes, StateOf
  <2>5. /\ tiers.executorStart <= p.arrival
        /\ tiers.queue = p.start - tiers.routerArrival
        /\ tiers.ttft = p.completion - tiers.routerArrival
        /\ p.completion <= k.start
        /\ flow = "COMPLETED" => p.completion <= f.arrival /\ f.completion <= k.start
    BY <1>1, <2>2 DEF MetricsInv, OrderInv, HasRun
  <2>6. /\ tiers.routerQueue = tiers.schedulerArrival - tiers.routerArrival
        /\ tiers.schedulerQueue = tiers.executorStart - tiers.schedulerArrival
        /\ tiers.service = tiers.schedulerCompletion - tiers.executorStart
        /\ tiers.routerResponse = tiers.schedulerCompletion - tiers.routerArrival
    BY <1>1 DEF MetricsInv, StagesInv
  <2> USE <2>1, <2>2, <2>3, <2>4, <2>5, <2>6 DEF NodeMetrics, TierMetrics
  <2>7. ASSUME NEW n \in Nodes, StateOf[n] = "COMPLETED"
        PROVE  /\ n # "prompt" => NodeRow("prompt").completion_timestamp
                                     <= NodeRow(n).start_timestamp
               /\ n # "token"  => NodeRow(n).completion_timestamp
                                     <= NodeRow("token").start_timestamp
    BY <2>7 DEF Nodes, NodeRow, StateOf
  <2> QED
    BY <2>7 DEF ResponseDecomposes, Results, NthTokenOverhead
<1> QED
  <2>1. MetricsInv => ResponseDecomposes
    BY <1>1 DEF ResponseDecomposes
  <2> QED
    BY <2>1, MetricsStart, MetricsStep, PTL DEF MetricsSpec
=============================================================================
