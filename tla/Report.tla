-------------------------------- MODULE Report --------------------------------
(***************************************************************************)
(* What the scripts make of the tables the aggregation has written: best   *)
(* splits, figures and the tables of the report.  A table has a row for    *)
(* every case, also for those that have no results; its columns of ratios  *)
(* exist only if some row has results, so that a script that asks for one  *)
(* of them raises otherwise.                                               *)
(*                                                                         *)
(* A script reads its tables, writes files one after the other, and may    *)
(* raise between two of them.  No two rows of a table are for the same     *)
(* case and split, so a table is the set of its rows.                      *)
(***************************************************************************)
EXTENDS Naturals, FiniteSets, Functions

CONSTANTS Cases1, Cases2,    \* bound: [prompt, output, rate] of two split tables
          SplitNames,        \* the splits
          Ratios1, Ratios2,  \* bound: PD over baseline in them, in hundredths
          PairCases,         \* bound: [prompt, output, rate, bandwidth] of pairs
          PairRatios,        \* bound: ratios of pairs
          ReportCases,       \* bound: cases of the split table of a report
          Cases512,          \* bound: cases of its validation for output 512
          SeedCases,         \* bound: robustness files, [seed, traced, rows]
          Plots              \* bound: figures create_report_assets.py looks for

VARIABLE made     \* the script that was run, on which tables, and its outcome

Missing == 0      \* no ratio: an empty field
Par == 100        \* below it PD is better

(* Experiments are finite, and a result has a ratio.  The name of a        *)
(* robustness file has its seed and workload, so that two files of a kind  *)
(* with the same seed have no case in common.                              *)
ASSUME ReportAssumption ==
  /\ IsFiniteSet(Cases1) /\ IsFiniteSet(Cases2) /\ IsFiniteSet(ReportCases)
  /\ IsFiniteSet(PairCases) /\ IsFiniteSet(Cases512) /\ IsFiniteSet(SplitNames)
  /\ \A ratios \in {Ratios1, Ratios2, PairRatios} : ratios \subseteq Nat \ {Missing}
  /\ "report_summary" \notin Plots
  /\ \A seeds \in SeedCases :
       /\ IsFiniteSet(seeds)
       /\ \A f \in seeds : IsFiniteSet(f.rows) /\ f.traced \in BOOLEAN
       /\ \A f, g \in seeds : \A q \in f.rows, r \in g.rows :
            f.traced = g.traced /\ f.seed = g.seed /\ q.case = r.case => f = g /\ q = r

NothingMade == [script |-> "none", tables |-> <<>>, raised |-> FALSE, files |-> {},
                shown |-> <<>>]

Outcome(script, tables, raised, files, shown) ==
  [script |-> script, tables |-> tables, raised |-> raised, files |-> files,
   shown |-> shown]
-----------------------------------------------------------------------------
(* Tables by splits (aggregate_resource_splits.py).                        *)

SplitTables(cases, ratios) ==
  {{[case |-> q[1], split |-> q[2], ratio |-> t[q],
     status |-> IF t[q] = Missing THEN "missing" ELSE "ok"] :
    q \in cases \X SplitNames} : t \in [cases \X SplitNames -> ratios \cup {Missing}]}

(* df[df["status"] == "ok"]                                                *)
CompleteRows(rows) == {r \in rows : r.status = "ok"}

(* A column of ratios is in the file.                                      *)
HasRatios(rows) == CompleteRows(rows) # {}

(* The rows of both, of two for the same the first: concat and             *)
(* drop_duplicates(subset=["prompt", "output", "rate", "split"]).          *)
FirstOfEach(a, b) ==
  a \cup {r \in b : \A q \in a : q.case # r.case \/ q.split # r.split}

(* Faulty: a missing case of the first table hides that of the second.     *)
MergedFirst(a, b) == CompleteRows(FirstOfEach(a, b))

Merged(a, b) == FirstOfEach(CompleteRows(a), CompleteRows(b))

CasesIn(rows) == {r.case : r \in rows}
SplitsIn(rows) == {r.split : r \in rows}
PromptsIn(cases) == {c.prompt : c \in cases}
OutputsIn(cases) == {c.output : c \in cases}
RatesIn(cases) == {c.rate : c \in cases}

(* sort_values(e2e).groupby(case).head(1): the sort is not stable, so that *)
(* of splits with the same ratio any may be the one.                       *)
Best(rows) ==
  [c \in CasesIn(rows) |->
     LET own == {r \in rows : r.case = c}
     IN  {r.split : r \in {r \in own : \A q \in own : r.ratio <= q.ratio}}]

Wins(rows) == Cardinality({r \in rows : r.ratio < Par})

Counts(rows) == [cases |-> Cardinality(rows), wins |-> Wins(rows)]

OfSplit(rows, split) == {r \in rows : r.split = split}
-----------------------------------------------------------------------------
(* summarize_core_split_results.py                                         *)
Summarize(table) ==
  LET rows == CompleteRows(table)
  IN  IF rows = {} THEN Outcome("summarize", <<table>>, TRUE, {}, <<>>)
      ELSE Outcome("summarize", <<table>>, FALSE,
                {"metric_summary", "best_split_by_workload", "summary_by_split",
                 "summary_by_shape_and_split", "summary_by_rate_and_split"},
                [best |-> Best(rows), all |-> Counts(rows),
                 bySplit |-> [s \in SplitsIn(rows) |->
                                Counts(OfSplit(rows, s))]])

(* plot_resource_splits.py: a line for each workload, over its splits.     *)
PlotResource(table) ==
  LET rows == CompleteRows(table)
  IN  IF rows = {} THEN Outcome("resource", <<table>>, TRUE, {}, <<>>)
      ELSE Outcome("resource", <<table>>, FALSE,
                {"effective_ttft_p99", "tbt_p99", "e2e_p99"},
                [lines |-> [c \in CasesIn(rows) |->
                               SplitsIn({r \in rows : r.case = c})]])

(* Every prompt and output of this rate have a best split: the map of best *)
(* splits takes the first row of each without asking whether there is one. *)
IsGrid(cases, rate) ==
  LET own == {c \in cases : c.rate = rate}
  IN  \A p \in PromptsIn(own), o \in OutputsIn(own) :
        \E c \in own : c.prompt = p /\ c.output = o

(* plot_core_split_results.py: lines, heatmaps, then the best splits rate  *)
(* by rate.                                                                *)
PlotCore(table) ==
  LET rows   == CompleteRows(table)
      rates  == RatesIn(CasesIn(rows))
      mapped == {r \in rates : \A q \in rates : q <= r => IsGrid(CasesIn(rows), q)}
  IN  IF ~ HasRatios(table) THEN Outcome("core", <<table>>, TRUE, {}, <<>>)
      ELSE Outcome("core", <<table>>, mapped # rates,
                ({"by_rate"} \X {"e2e", "tbt", "handoff"})
                  \cup ({"heatmap"} \X rates \X SplitsIn(rows)) \cup ({"best"} \X mapped),
                [best |-> [c \in {d \in CasesIn(rows) : d.rate \in mapped} |->
                             Best(rows)[c]]])

(* plot_3d_split_tradeoff.py: a figure for each of these outputs, also of  *)
(* one without cases; what has no place on the axes is left out.           *)
DrawnOutputs == {64, 128, 256}

HasPlace(row) ==
  /\ row.case.prompt \in {128, 256, 512}
  /\ row.case.rate \in {20, 50, 100}
  /\ row.split \in {"2:6", "4:4", "6:2"}

PlotSpace(table) ==
  LET rows == CompleteRows(table)
      points(o) == {r \in rows : r.case.output = o /\ HasPlace(r)}
  IN  IF rows = {} THEN Outcome("space", <<table>>, TRUE, {}, <<>>)
      ELSE Outcome("space", <<table>>, FALSE, {"3d_split_tradeoff"} \X DrawnOutputs,
                [points |-> [o \in DrawnOutputs |-> points(o)]])

(* plot_phase_diagram.py: the first table is Experiment A; there are three *)
(* rows of axes.                                                           *)
PlotPhase(a, b) ==
  LET rows == Merged(a, b)
  IN  IF \/ ~ HasRatios(a) \/ ~ HasRatios(b)
         \/ Cardinality(RatesIn(CasesIn(rows))) > 3
      THEN Outcome("phase", <<a, b>>, TRUE, {}, <<>>)
      ELSE Outcome("phase", <<a, b>>, FALSE, {"phase_diagram"}, [best |-> Best(rows)])

(* Lines of the crossover figure: what is shown of a facet and a split.    *)
LineOf(rows, p, o, split) ==
  {r \in rows : r.case.prompt = p /\ r.case.output = o /\ r.split = split}

(* The scope of Experiment B.                                              *)
InScope(rows) == {r \in rows : r.case.prompt \in {128, 512}}

(* plot_rate_crossover.py: the last point of every line is annotated, and  *)
(* axes[row][column] needs two rows and two columns.                       *)
PlotCrossover(a, b) ==
  LET rows    == Merged(a, InScope(b))
      prompts == PromptsIn(CasesIn(rows))
      outputs == OutputsIn(CasesIn(rows))
      lines   == [f \in prompts \X outputs \X SplitNames |->
                    LineOf(rows, f[1], f[2], f[3])]
  IN  IF \/ ~ HasRatios(a) \/ ~ HasRatios(b)
         \/ Cardinality(prompts) < 2 \/ Cardinality(outputs) < 2
         \/ \E f \in DOMAIN lines : lines[f] = {}
      THEN Outcome("crossover", <<a, b>>, TRUE, {}, <<>>)
      ELSE Outcome("crossover", <<a, b>>, FALSE, {"rate_crossover_e2e"}, [lines |-> lines])
-----------------------------------------------------------------------------
(* Tables of pairs (aggregate_param_results.py): the ratio of TTFT and     *)
(* handoff is missing where details are.                                   *)

PairTables(cases) ==
  {{[case |-> c, e2e |-> t[c][1], handoff |-> t[c][2],
     status |-> IF t[c][1] = Missing THEN "missing" ELSE "ok"] : c \in cases} :
   t \in [cases ->
            (PairRatios \X (PairRatios \cup {Missing})) \cup {<<Missing, Missing>>}]}

HasHandoff(rows) == \E r \in rows : r.handoff # Missing

CasesWith(rows, metric) == {r \in rows : r[metric] # Missing}

MetricCounts(rows, metric) ==
  [cases |-> Cardinality(CasesWith(rows, metric)),
   wins  |-> Cardinality({r \in rows : r[metric] \in 1 .. Par - 1})]

MetricsIn(rows) == {"e2e"} \cup (IF HasHandoff(rows) THEN {"handoff"} ELSE {})

(* plot_param_results.py: a figure for each metric that is a column.       *)
PlotPairs(table) ==
  LET rows == CompleteRows(table)
  IN  IF rows = {} THEN Outcome("pairs", <<table>>, TRUE, {}, <<>>)
      ELSE Outcome("pairs", <<table>>, FALSE, MetricsIn(rows) \cup {"ttft", "tbt"},
                [points |-> [m \in MetricsIn(rows) |-> CasesWith(rows, m)]])

(* plot_param_heatmaps.py: for each output and rate that have a case.      *)
PlotHeatmaps(table) ==
  LET rows == CompleteRows(table)
      maps == {<<c.output, c.rate>> : c \in CasesIn(rows)}
  IN  IF rows = {} THEN Outcome("heatmaps", <<table>>, TRUE, {}, <<>>)
      ELSE Outcome("heatmaps", <<table>>, FALSE, (MetricsIn(rows) \cup {"tbt"}) \X maps,
                [points |-> [m \in MetricsIn(rows) |-> CasesWith(rows, m)]])
-----------------------------------------------------------------------------
(* create_report_assets.py.                                                *)

OfBandwidth(rows, bw) == {r \in rows : r.case.bandwidth = bw}

OfOutputRate(rows, output, rate) ==
  {r \in rows : r.case.output = output /\ r.case.rate = rate}

(* The robustness files used: those with seeds of traces if there are any. *)
SeedFiles(seeds) ==
  LET traced == {f \in seeds : f.traced} IN IF traced # {} THEN traced ELSE seeds

(* build_seed_robustness: of each workload, the seeds and those PD wins.   *)
Robustness(seeds) ==
  LET entries == UNION {{[file |-> f, row |-> r] : r \in CompleteRows(f.rows)} :
                          f \in SeedFiles(seeds)}
      Of(c)   == {q \in entries : q.row.case = c}
  IN  [c \in {q.row.case : q \in entries} |->
         [seeds |-> Cardinality({q.file.seed : q \in Of(c)}),
          wins  |-> Cardinality({q \in Of(c) : q.row.e2e < Par})]]

(* A file whose cases have results must have the handoff column too.       *)
Readable(table) == HasRatios(table) => HasHandoff(table)

(* The files in the order in which they are written, and what raises       *)
(* before each group: a metric that is not a column, in the pairs, in a    *)
(* robustness file, in the split table, in the validation for output 512.  *)
Stages(pairs, seeds, resource, output512, plots) ==
  <<[ok    |-> HasHandoff(pairs),
     files |-> {"main_metric_summary", "e2e_by_output_rate", "bandwidth_sensitivity",
                "best_e2e_cases", "worst_e2e_cases"}],
    [ok    |-> \A f \in SeedFiles(seeds) : Readable(f.rows),
     files |-> {"seed_robustness_per_seed", "seed_robustness_summary"}],
    [ok    |-> resource # {} => HasRatios(resource),
     files |-> (IF resource # {} THEN {"resource_split_all", "resource_split_best"}
                                   ELSE {})
               \cup (IF output512 # {} THEN {"output512_validation"} ELSE {})
               \cup plots],
    [ok    |-> Readable(output512),
     files |-> {"report_summary"}]>>

CreateAssets(pairs, seeds, resource, output512, plots) ==
  LET rows    == CompleteRows(pairs)
      stages  == Stages(pairs, seeds, resource, output512, plots)
      reached == {k \in DOMAIN stages : \A j \in 1 .. k : stages[j].ok}
      grouped == {<<c.output, c.rate>> : c \in CasesIn(rows)}
  IN  Outcome("assets", <<pairs, resource, output512>>, reached # DOMAIN stages,
           UNION {stages[k].files : k \in reached},
           [pairs        |-> Cardinality(rows),
            metrics      |-> [m \in {"e2e", "handoff"} |-> MetricCounts(rows, m)],
            byBandwidth  |-> [b \in {c.bandwidth : c \in CasesIn(rows)} |->
                                MetricCounts(OfBandwidth(rows, b), "e2e")],
            byOutputRate |-> [g \in grouped |->
                                MetricCounts(OfOutputRate(rows, g[1], g[2]), "e2e")],
            robustness   |-> Robustness(seeds),
            best         |-> Best(CompleteRows(resource))])
-----------------------------------------------------------------------------
ReportInit == made = NothingMade

(* A script is run by hand on whatever tables there are.                   *)
MakeFromSplits ==
  \E table \in SplitTables(Cases1, Ratios1) \cup SplitTables(Cases2, Ratios2) :
    made' \in {Summarize(table), PlotResource(table), PlotCore(table),
              PlotSpace(table)}

(* The first table is Experiment A or, for the crossover, Experiment B,    *)
(* which has the prompts of its scope only.                                *)
MakeFromTwo ==
  \E a \in SplitTables(Cases1, Ratios1), b \in SplitTables(Cases2, Ratios2) :
    \/ made' = PlotPhase(a, b)
    \/ a = InScope(a) /\ made' = PlotCrossover(a, b)

MakeFromPairs ==
  \E table \in PairTables(PairCases) : made' \in {PlotPairs(table), PlotHeatmaps(table)}

MakeAssets ==
  \E pairs \in PairTables(PairCases), seeds \in SeedCases, plots \in SUBSET Plots,
     resource \in SplitTables(ReportCases, Ratios1) \cup {{}},
     output512 \in PairTables(Cases512) \cup {{}} :
    made' = CreateAssets(pairs, seeds, resource, output512, plots)

MakeReport ==
  MakeFromSplits \/ MakeFromTwo \/ MakeFromPairs \/ MakeAssets
-----------------------------------------------------------------------------
(* The ratio of a case under a split: that of the first table that has it. *)
RatioIn(tables, case, split) ==
  LET found(k) == {r \in CompleteRows(tables[k]) : r.case = case /\ r.split = split}
      having == {k \in DOMAIN tables : found(k) # {}}
      first == CHOOSE k \in having : \A j \in having : k <= j
  IN  IF having = {} THEN Missing ELSE (CHOOSE r \in found(first) : TRUE).ratio

SplitsOf(tables, case) == {s \in SplitNames : RatioIn(tables, case, s) # Missing}

AllCases(tables) == UNION {CasesIn(tables[k]) : k \in DOMAIN tables}

BestIsBest(best, tables) ==
  \A c \in DOMAIN best : \A s \in best[c], t \in SplitsOf(tables, c) :
    /\ s \in SplitsOf(tables, c)
    /\ RatioIn(tables, c, s) <= RatioIn(tables, c, t)

(* The best split of a case is left out only by a script that raises       *)
(* before it draws the rate of the case.                                   *)
NoneLeftOut(m) ==
  \A c \in AllCases(m.tables) :
    SplitsOf(m.tables, c) # {} =>
      \/ c \in DOMAIN m.shown.best
      \/ m.raised /\ <<"best", c.rate>> \notin m.files

LinesAreWhole(lines, tables) ==
  \A f \in DOMAIN lines :
    /\ lines[f] # {}
    /\ {<<r.case, r.ratio>> : r \in lines[f]} =
         {<<c, RatioIn(tables, c, f[3])>> :
            c \in {d \in AllCases(tables) : /\ d.prompt = f[1] /\ d.output = f[2]
                                            /\ f[3] \in SplitsOf(tables, d)}}

SumOfCases(counts) == SumFunction([k \in DOMAIN counts |-> counts[k].cases])
SumOfWins(counts) == SumFunction([k \in DOMAIN counts |-> counts[k].wins])

PointsAreTrue(points, tables) ==
  \A o \in DOMAIN points :
    {<<r.case, r.split, r.ratio>> : r \in points[o]} =
      {<<q[1], q[2], RatioIn(tables, q[1], q[2])>> :
         q \in {q \in AllCases(tables) \X SplitNames :
                  /\ q[1].output = o /\ q[2] \in SplitsOf(tables, q[1])
                  /\ HasPlace([case |-> q[1], split |-> q[2]])}}

(* What a script has made is true of the tables it read.                   *)
TrueOfTables(m) ==
  /\ m.script \in {"summarize", "core", "phase"} /\ m.files # {} =>
       BestIsBest(m.shown.best, m.tables) /\ NoneLeftOut(m)
  /\ m.script = "crossover" /\ ~ m.raised => LinesAreWhole(m.shown.lines, m.tables)
  /\ m.script = "space" /\ ~ m.raised => PointsAreTrue(m.shown.points, m.tables)
  /\ m.script = "summarize" /\ ~ m.raised =>
       m.shown.all = [cases |-> SumOfCases(m.shown.bySplit),
                      wins  |-> SumOfWins(m.shown.bySplit)]
  /\ m.script = "assets" /\ "report_summary" \in m.files =>
       /\ m.shown.pairs = SumOfCases(m.shown.byBandwidth)
       /\ m.shown.metrics["e2e"] = [cases |-> SumOfCases(m.shown.byOutputRate),
                                    wins  |-> SumOfWins(m.shown.byOutputRate)]
       /\ m.shown.metrics["handoff"].cases \in 1 .. m.shown.pairs
       /\ \A c \in DOMAIN m.shown.robustness :
            m.shown.robustness[c].wins <= m.shown.robustness[c].seeds
       /\ BestIsBest(m.shown.best, <<m.tables[2]>>)

(* Whatever cases are missing in whichever table, the figures and tables   *)
(* that scripts leave, also before they raise, show of every case with     *)
(* results the best of its splits and of every line all its points, and    *)
(* the numbers of the report agree with each other.                        *)
ReportsAreTrue == TrueOfTables(made)
=============================================================================
