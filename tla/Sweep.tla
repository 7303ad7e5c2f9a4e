-------------------------------- MODULE Sweep --------------------------------
(***************************************************************************)
(* The parameter study (scripts/): traces are generated, a sweep runs a    *)
(* simulation for every point that has no summary yet, and two scripts     *)
(* aggregate the result files, from which reports are written.             *)
(*                                                                         *)
(* The scripts share nothing but files.  A simulation writes those of its  *)
(* point one after the other, may fail or be killed between two of them,   *)
(* and the aggregation reads them while a sweep may be under way.          *)
(***************************************************************************)
EXTENDS StartUp, Report

CONSTANTS Workloads,       \* the sequence of (prompt, output, rate), names of traces
          Bandwidths,      \* the sequence --bandwidths
          WholeBandwidths, \* those whose label in a path is the number itself
          SystemChoices,   \* --systems of the sweeps
          Splits,          \* <<prompt_instances, token_instances>> of sweeps
          TotalA100,       \* --total-a100
          Gaps,            \* bound: times between two arrivals
          Duration,        \* --duration, the end of a trace
          RateTraces,      \* request rate -> name of its trace of generate_trace.py
          GapsAt,          \* bound: request rate -> times between two arrivals
          HandTrace,       \* name of a trace of any other distribution
          HandDistributions,  \* such distributions of the times between arrivals
          MaxRequests,     \* max_requests
          HandConfigs,     \* configurations run by hand
          MaxSweeps, MaxKills, MaxAggregations  \* bounds: such steps

ASSUME StudyAssumption ==
  /\ Workloads \in Seq(Range(Workloads))
  /\ Bandwidths \in Seq(Range(Bandwidths))
  /\ \A systems \in SystemChoices : systems \subseteq {"baseline", "pd"}

(* Servers have processors; the schedulers of the study have the kinds     *)
(* that their names say.                                                   *)
ASSUME ConfigsAssumption ==
  /\ Skus \in [DOMAIN Skus -> Nat \ {0}] /\ "a100" \in DOMAIN Skus
  /\ TotalA100 \in Nat /\ Splits \subseteq Nat \X Nat
  /\ \A c \in HandConfigs :
       /\ c.tp \in Nat \ {0}
       /\ c.servers \in Seq(Range(c.servers))
       /\ \A k \in DOMAIN c.servers : c.servers[k].count \in Nat
  /\ \A name \in DOMAIN SchedulerConfigs :
       /\ name = <<"token_jsq">> => SchedulerConfigs[name].kind = "plain"
       /\ \A b \in Range(Bandwidths) :
            name = <<"mixed_pool", b>> => SchedulerConfigs[name].kind # "plain"

VARIABLES data,       \* data/*_distributions.csv: none, page or distributions
          traces,     \* traces/<name>.csv: arrival times
          sweep,      \* the running sweep
          runlog,     \* param_sweep_runlog.csv, and the sweep that wrote it
          files,      \* point -> number of the sweep whose files it has, or 0
          cut,        \* points whose process was killed between the two files
          kills, aggregations,      \* counted for the bounds
          agg,        \* the running aggregation
          pairs,      \* param_sweep_pairs.csv
          splitRows,  \* resource_split_summary.csv
          report      \* the numbers in report_summary.md

studyvars == <<traces, sweep, runlog, files, cut, kills, aggregations, agg, pairs,
               splitRows, report>>
svars == <<procvars, perfvars, studyvars, data, made>>

(* The directory of a baseline names neither split nor bandwidth.          *)
Baseline(w) == [system |-> "baseline", workload |-> w]

PD(w, split, bw) ==
  [system |-> "pd", workload |-> w, split |-> split, bandwidth |-> bw]

(* The point of the sweep's loops: the baseline, then each bandwidth.      *)
PointAt(split, k, b) ==
  IF b = 0 THEN Baseline(Workloads[k]) ELSE PD(Workloads[k], split, Bandwidths[b])

Points ==
  {PointAt(split, k, b) :
     split \in Splits, k \in DOMAIN Workloads, b \in 0 .. Len(Bandwidths)}

(* The command line for a point.                                           *)
ConfigOf(point) ==
  [trace        |-> point.workload,
   servers      |-> <<[sku |-> "a100", count |-> TotalA100], [sku |-> "h100", count |-> 0]>>,
   state        |-> IF point.system = "pd" THEN "homogeneous" ELSE "uniform",
   tp           |-> Skus["a100"],
   prompts      |-> IF point.system = "pd" THEN point.split[1] ELSE 0,
   tokens       |-> IF point.system = "pd" THEN point.split[2] ELSE 0,
   promptSkus   |-> {}, tokenSkus |-> {},
   itype        |-> "splitwise",
   model        |-> "llama2-70b",
   scheduler    |-> IF point.system = "pd" THEN <<"mixed_pool", point.bandwidth>>
                                           ELSE <<"token_jsq">>,
   performance  |-> "database",
   early        |-> FALSE,
   batches      |-> {[prompt |-> 1, token |-> 0]}]

NoFiles == [summary |-> 0, detailed |-> 0]
NoSweep == [pc |-> "idle", number |-> 0, split |-> <<0, 0>>, systems |-> {},
            force |-> FALSE, dry |-> FALSE, k |-> 1, b |-> 0, rows |-> <<>>]
NoAgg == [pc |-> "idle", base |-> FALSE, todo |-> <<>>, rows |-> <<>>]

HandTraces == {HandTrace} \cup Range(RateTraces)

StudyInit ==
  /\ NotLaunched
  /\ ReportInit
  /\ data = "none"
  /\ traces = [w \in Range(Workloads) \cup HandTraces |-> NoTrace]
  /\ sweep = NoSweep
  /\ runlog = [number |-> 0, dry |-> FALSE, rows |-> <<>>]
  /\ files = [p \in Points |-> NoFiles]
  /\ cut = {} /\ kills = 0 /\ aggregations = 0
  /\ agg = NoAgg
  /\ pairs = <<>> /\ splitRows = {}
  /\ report = [pairs |-> 0, cases |-> 0, interrupted |-> 0]
-----------------------------------------------------------------------------
(* Arrivals are the sums of the gaps, up to the first at or past the end.  *)
Arrivals(gaps, end) ==
  LET sum[k \in 0 .. Len(gaps)] == IF k = 0 THEN 0 ELSE sum[k - 1] + gaps[k]
  IN  SelectSeq([k \in DOMAIN gaps |-> sum[k]], LAMBDA t : t < end)

(* To bound the states, a study, traces and simulations by hand, and the   *)
(* scripts of Report exclude each other.                                   *)
NothingYet ==
  /\ sweep = NoSweep /\ phase = "idle" /\ data = "none"
  /\ \A w \in DOMAIN traces : traces[w] = NoTrace

(* generate_param_traces.py, before the sweeps.                            *)
GenerateTraces ==
  /\ NothingYet
  /\ \E gaps \in [Range(Workloads) -> [1 .. Duration -> Gaps]] :
       traces' = [w \in DOMAIN traces |->
                    IF w \in DOMAIN gaps THEN Arrivals(gaps[w], Duration) ELSE traces[w]]
  /\ UNCHANGED <<procvars, perfvars, sweep, runlog, files, cut, kills, aggregations,
                 agg, pairs, splitRows, report>>

(* generate_trace.py.                                                      *)

(* download_azure_llm_traces: a file there is is kept, and the status of   *)
(* the answer is not looked at, so that a page of an error is a file too.  *)
Download ==
  /\ NothingYet
  /\ data' \in {"page", "distributions"}
  /\ UNCHANGED <<procvars, perfvars, studyvars>>

(* generate_samples: an unknown name raises.                               *)
Sampled(distribution, n) ==
  CASE distribution.name = "constant" ->
         {[k \in 1 .. n |-> v] : v \in distribution.values}
    [] distribution.name \in {"normal", "truncnorm", "randint", "uniform",
                              "exponential", "poisson", "trace"} ->
         [1 .. n -> distribution.values]
    [] OTHER -> {}

(* Any distribution with generate_trace; a gap may be 0.                   *)
GenerateHandTrace ==
  /\ NothingYet
  /\ \E d \in HandDistributions : \E gaps \in Sampled(d, MaxRequests) :
       traces' = [traces EXCEPT ![HandTrace] = Arrivals(gaps, Duration)]
  /\ UNCHANGED <<procvars, perfvars, sweep, runlog, files, cut, kills, aggregations,
                 agg, pairs, splitRows, report>>

(* Distributions for a rate; the sizes are samples of the downloaded file. *)
AtRate(rate) == [name |-> "exponential", values |-> GapsAt[rate]]

HasSizes == data = "distributions"

(* generate_traces: a trace for each of the rates, in order.               *)
GenerateRateTrace ==
  /\ sweep = NoSweep /\ phase = "idle"
  /\ \A w \in Range(Workloads) \cup {HandTrace} : traces[w] = NoTrace
  /\ HasSizes
  /\ \E rate \in DOMAIN RateTraces : \E gaps \in Sampled(AtRate(rate), MaxRequests) :
       /\ traces[RateTraces[rate]] = NoTrace
       /\ \A r \in DOMAIN RateTraces : r < rate => traces[RateTraces[r]] # NoTrace
       /\ traces' = [traces EXCEPT ![RateTraces[rate]] = Arrivals(gaps, Duration)]
  /\ UNCHANGED <<procvars, perfvars, sweep, runlog, files, cut, kills, aggregations,
                 agg, pairs, splitRows, report>>

(* A simulation run by hand; its directory is no point of the study.       *)
LaunchByHand ==
  /\ sweep = NoSweep /\ phase = "idle"
  /\ \A w \in Range(Workloads) : traces[w] = NoTrace
  /\ \E c \in HandConfigs : Launch(c)
  /\ UNCHANGED studyvars
-----------------------------------------------------------------------------
(* run_param_sweep.py.                                                     *)

(* Faulty: the servers are not counted.                                    *)
EnoughAnyway(split) == TRUE

EnoughServers(split) == split[1] + split[2] <= TotalA100

StartSweep ==
  /\ sweep.pc = "idle" /\ ~ Alive
  /\ sweep.number < MaxSweeps
  /\ data = "none" /\ \A w \in HandTraces : traces[w] = NoTrace
  /\ phase = "idle" \/ sweep.number > 0
  /\ \E split \in Splits, systems \in SystemChoices, force, dry \in BOOLEAN :
       /\ EnoughServers(split)
       /\ sweep' = [pc |-> "next", number |-> sweep.number + 1, split |-> split,
                    systems |-> systems, force |-> force, dry |-> dry,
                    k |-> 1, b |-> 0, rows |-> <<>>]
  /\ UNCHANGED <<procvars, perfvars, traces, runlog, files, cut, kills, aggregations,
                 agg, pairs, splitRows, report>>

AtEnd == sweep.k > Len(Workloads)

Here == PointAt(sweep.split, sweep.k, sweep.b)

Selected == Here.system \in sweep.systems

Advance(rows) ==
  LET last == sweep.b = Len(Bandwidths)
  IN  sweep' = [pc      |-> "next",
                number  |-> sweep.number,
                split   |-> sweep.split,
                systems |-> sweep.systems,
                force   |-> sweep.force,
                dry     |-> sweep.dry,
                k       |-> IF last THEN sweep.k + 1 ELSE sweep.k,
                b       |-> IF last THEN 0 ELSE sweep.b + 1,
                rows    |-> rows]

AddRow(status) == Advance(Append(sweep.rows, [point |-> Here, status |-> status]))

Wanted == sweep.force \/ files[Here].summary = 0

(* Without a row.                                                          *)
PassOver ==
  /\ sweep.pc = "next" /\ ~ AtEnd /\ ~ Selected
  /\ Advance(sweep.rows)
  /\ UNCHANGED <<procvars, perfvars, traces, runlog, files, cut, kills, aggregations,
                 agg, pairs, splitRows, report>>

SkipPoint ==
  /\ sweep.pc = "next" /\ ~ AtEnd /\ Selected /\ ~ Wanted
  /\ AddRow("skipped")
  /\ UNCHANGED <<procvars, perfvars, traces, runlog, files, cut, kills, aggregations,
                 agg, pairs, splitRows, report>>

(* With --dry-run the command is only printed and returns 0.               *)
DryRun ==
  /\ sweep.pc = "next" /\ ~ AtEnd /\ Selected /\ Wanted /\ sweep.dry
  /\ AddRow("ok")
  /\ UNCHANGED <<procvars, perfvars, traces, runlog, files, cut, kills, aggregations,
                 agg, pairs, splitRows, report>>

LaunchPoint ==
  /\ sweep.pc = "next" /\ ~ AtEnd /\ Selected /\ Wanted /\ ~ sweep.dry
  /\ Launch(ConfigOf(Here))
  /\ sweep' = [sweep EXCEPT !.pc = "wait"]
  /\ UNCHANGED <<traces, runlog, files, cut, kills, aggregations, agg, pairs,
                 splitRows, report>>

(* Faulty: the return code of the simulation is not looked at.             *)
StatusUnchecked == "ok"

Status == IF phase = "done" THEN "ok" ELSE "failed"

PointEnds ==
  /\ sweep.pc = "wait" /\ ~ Alive
  /\ AddRow(Status)
  /\ UNCHANGED <<procvars, perfvars, traces, runlog, files, cut, kills, aggregations,
                 agg, pairs, splitRows, report>>

(* The log of the sweep before is overwritten; it is empty, and the sweep  *)
(* raises, if there are no rows to take the names of the columns from.     *)
WriteRunlog ==
  /\ sweep.pc = "next" /\ AtEnd
  /\ runlog' = [number |-> sweep.number, dry |-> sweep.dry, rows |-> sweep.rows]
  /\ sweep' = [NoSweep EXCEPT !.number = sweep.number]
  /\ UNCHANGED <<procvars, perfvars, traces, files, cut, kills, aggregations, agg,
                 pairs, splitRows, report>>
-----------------------------------------------------------------------------
(* The running simulation, of a point or run by hand.                      *)

SimulationStep ==
  \/ Build(traces[config.trace]) \/ LoadTrace
  \/ SpinUpInstance \/ StartRun
  \/ ScheduleRaises
  \/ \E i \in DOMAIN instances, batch \in Batches : Iterate(i, batch)
  \/ FinishTask
  \/ \E n \in 0 .. Len(requests) : EndRun(n)
  \/ SaveNodes \/ SaveSummary \/ SaveDetailed \/ SaveAllocations

Simulating == IF sweep.pc \in {"wait", "orphan"} THEN {Here} ELSE {}

Newly(file) == file \in written' \ written

Simulate ==
  /\ Alive
  /\ SimulationStep
  /\ files' = [p \in Points |->
                 IF p \notin Simulating THEN files[p]
                 ELSE [summary  |-> IF Newly("summary") THEN sweep.number
                                                        ELSE files[p].summary,
                       detailed |-> IF Newly("detailed") THEN sweep.number
                                                         ELSE files[p].detailed]]
  /\ cut' = IF Newly("detailed") THEN cut \ Simulating ELSE cut
  /\ UNCHANGED <<traces, sweep, runlog, kills, aggregations, agg, pairs, splitRows,
                 report>>

(* Only the simulation is killed (out of memory), or, from the terminal,   *)
(* the sweep with it, before it has written its log.                       *)
KillSimulation ==
  /\ kills < MaxKills
  /\ Simulating # {}
  /\ Kill
  /\ kills' = kills + 1
  /\ cut' = IF phase = "detailed" THEN cut \cup Simulating ELSE cut
  /\ sweep' \in {sweep, [NoSweep EXCEPT !.number = sweep.number]}
  /\ UNCHANGED <<traces, runlog, files, aggregations, agg, pairs, splitRows, report>>

(* The sweep alone is killed: the simulation it waits for runs on.         *)
KillSweep ==
  /\ kills < MaxKills
  /\ \/ sweep.pc = "next" /\ sweep' = [NoSweep EXCEPT !.number = sweep.number]
     \/ sweep.pc = "wait" /\ sweep' = [sweep EXCEPT !.pc = "orphan"]
  /\ kills' = kills + 1
  /\ UNCHANGED <<procvars, perfvars, traces, runlog, files, cut, aggregations, agg,
                 pairs, splitRows, report>>

(* To bound the states, before the next sweep.                             *)
OrphanEnds ==
  /\ sweep.pc = "orphan" /\ ~ Alive
  /\ sweep' = [NoSweep EXCEPT !.number = sweep.number]
  /\ UNCHANGED <<procvars, perfvars, traces, runlog, files, cut, kills, aggregations,
                 agg, pairs, splitRows, report>>
-----------------------------------------------------------------------------
(* aggregate_param_results.py, a file at a time.                           *)

HasSummary(point) == files[point].summary # 0
HasDetails(point) == files[point].detailed # 0

(* read_summary of the baseline, once for all bandwidths.                  *)
StartAggregation ==
  /\ agg.pc = "idle" /\ sweep.number > 0
  /\ aggregations < MaxAggregations
  /\ \E k \in DOMAIN Workloads, split \in Splits :
       /\ EnoughServers(split)
       /\ agg' = [pc |-> "pair", base |-> HasSummary(PointAt(split, k, 0)), rows |-> <<>>,
                  todo |-> [b \in DOMAIN Bandwidths |-> PointAt(split, k, b)]]
  /\ aggregations' = aggregations + 1
  /\ UNCHANGED <<procvars, perfvars, traces, sweep, runlog, files, cut, kills, pairs,
                 splitRows, report>>

(* Faulty: only the baseline, read first, is looked at.                    *)
CompleteWithout(point) == agg.base

(* "ok" if baseline and pd else "missing"                                  *)
Complete(point) == agg.base /\ HasSummary(point)

ReadPair ==
  /\ agg.pc = "pair" /\ agg.todo # <<>>
  /\ agg' = IF Complete(Head(agg.todo))
            THEN [agg EXCEPT !.pc = "details"]
            ELSE [agg EXCEPT !.todo = Tail(@), !.rows = Append(@,
                    [status |-> "missing", ratio |-> FALSE, interrupted |-> FALSE])]
  /\ UNCHANGED <<procvars, perfvars, traces, sweep, runlog, files, cut, kills,
                 aggregations, pairs, splitRows, report>>

(* Points of which there may be a summary without details.                 *)
Interrupted == cut \cup (IF phase = "detailed" THEN Simulating ELSE {})

(* read_effective_ttft of both: without details there is no such ratio.    *)
ReadDetails ==
  /\ agg.pc = "details"
  /\ LET point == Head(agg.todo)
         both  == {Baseline(point.workload), point}
     IN  agg' = [agg EXCEPT !.pc = "pair", !.todo = Tail(@), !.rows = Append(@,
                   [status      |-> "ok",
                    ratio       |-> \A p \in both : HasDetails(p),
                    interrupted |-> both \cap Interrupted # {}])]
  /\ UNCHANGED <<procvars, perfvars, traces, sweep, runlog, files, cut, kills,
                 aggregations, pairs, splitRows, report>>

WritePairs ==
  /\ agg.pc = "pair" /\ agg.todo = <<>>
  /\ pairs' = agg.rows
  /\ agg' = NoAgg
  /\ UNCHANGED <<procvars, perfvars, traces, sweep, runlog, files, cut, kills,
                 aggregations, splitRows, report>>

(* aggregate_resource_splits.py goes by the details alone, and puts the    *)
(* bandwidth in the path as it is written on its command line, "12.5" where *)
(* the directory is named for 12_5.                                        *)
AggregateSplits ==
  /\ \E k \in DOMAIN Workloads, b \in DOMAIN Bandwidths :
       splitRows' = {[point  |-> PointAt(split, k, b),
                      status |-> IF /\ Bandwidths[b] \in WholeBandwidths
                                    /\ \A c \in {0, b} : HasDetails(PointAt(split, k, c))
                                 THEN "ok" ELSE "missing"] : split \in Splits}
  /\ aggregations < MaxAggregations /\ sweep.number > 0
  /\ aggregations' = aggregations + 1
  /\ UNCHANGED <<procvars, perfvars, traces, sweep, runlog, files, cut, kills, agg,
                 pairs, report>>

(* create_report_assets.py: the pairs with status ok, and for each metric  *)
(* the cases that have it; without any case it raises.                     *)
Ok(rows) == {k \in DOMAIN rows : rows[k].status = "ok"}

Cases(rows) == {k \in Ok(rows) : rows[k].ratio}

(* The numbers in the report, and how many of its pairs are no cases       *)
(* because they were interrupted.                                          *)
Numbers(rows) ==
  [pairs       |-> Cardinality(Ok(rows)),
   cases       |-> Cardinality(Cases(rows)),
   interrupted |-> Cardinality({k \in Ok(rows) \ Cases(rows) : rows[k].interrupted})]

WriteReport ==
  /\ Cases(pairs) # {}
  /\ report' = Numbers(pairs)
  /\ UNCHANGED <<procvars, perfvars, traces, sweep, runlog, files, cut, kills,
                 aggregations, agg, pairs, splitRows>>
-----------------------------------------------------------------------------
Study ==
  \/ GenerateTraces \/ GenerateHandTrace \/ GenerateRateTrace \/ LaunchByHand
  \/ StartSweep \/ PassOver \/ SkipPoint \/ DryRun \/ LaunchPoint \/ PointEnds \/ WriteRunlog
  \/ Simulate \/ KillSimulation \/ KillSweep \/ OrphanEnds
  \/ StartAggregation \/ ReadPair \/ ReadDetails \/ WritePairs
  \/ AggregateSplits \/ WriteReport

(* The other scripts are run on tables that are there, whoever made them.  *)
OtherScripts ==
  /\ NothingYet
  /\ MakeReport
  /\ UNCHANGED <<procvars, perfvars, studyvars, data>>

StudyNext ==
  /\ made = NothingMade
  /\ \/ Study /\ UNCHANGED <<data, made>>
     \/ Download /\ UNCHANGED made
     \/ OtherScripts

StudySpec == StudyInit /\ [][StudyNext]_svars
-----------------------------------------------------------------------------
(* A PD simulation of the sweep serves its requests with exactly the       *)
(* prompt and token instances that its directory is named for.             *)
SplitAsNamed ==
  phase = "run" => \A p \in Simulating :
    IF p.system = "pd"
    THEN Cardinality(prompts) = p.split[1] /\ Cardinality(tokens) = p.split[2]
    ELSE Len(instances) = TotalA100 /\ prompts = {} /\ tokens = {}

(* What the log says is true of the files, also later: a point it skipped  *)
(* has a summary, and one it ran successfully has files at least as new.   *)
RunlogIsTrue ==
  \A k \in DOMAIN runlog.rows :
    LET row == runlog.rows[k]
    IN  /\ row.status = "skipped" => HasSummary(row.point)
        /\ row.status = "ok" /\ ~ runlog.dry =>
             /\ files[row.point].summary >= runlog.number
             /\ files[row.point].detailed >= runlog.number

(* A simulation that fails leaves no results of its own, so that the next  *)
(* sweep, which goes by the summary, runs its point again, unless there    *)
(* are results of an earlier one that was repeated with --force; and the   *)
(* split summary, which goes by the details, only has points whose summary *)
(* exists.                                                                 *)
ResultsAreWhole ==
  /\ phase = "failed" => written \cap {"summary", "detailed"} = {}
  /\ \A row \in splitRows : row.status = "ok" => HasSummary(row.point)

(* Of the pairs the report calls complete, those that are no cases of its  *)
(* TTFT and handoff metric are exactly the ones read while a point was     *)
(* between its two files or had been killed there, which a later sweep     *)
(* does not repair: no other pair is lost between the two numbers, and     *)
(* none is counted that was never run.                                     *)
ReportCoversPairs == report.pairs = report.cases + report.interrupted
=============================================================================
