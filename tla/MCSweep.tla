------------------------------- MODULE MCSweep -------------------------------
(* Values for model checking Sweep. *)
EXTENDS Sweep

SmallSkus == [a100 |-> 2, h100 |-> 3]

SmallPredictors == {<<"a100", 2>>, <<"h100", 2>>}

(* Longer for more tokens; the extrapolation to one token is negative on   *)
(* the second kind of server.                                              *)
PromptTimes == [key \in SmallPredictors \X (1 .. 2) |->
                  IF key[1][1] = "a100" THEN 3 * key[2] ELSE 2 * key[2] - 3]
TokenTimes == [key \in SmallPredictors \X (1 .. 2) |->
                 IF key[1][1] = "a100" THEN key[2] ELSE key[2] + 3]

OneWorkload == <<"p128">>

TwoBandwidths == <<"25", "12_5">>

BothOrPD == {{"baseline", "pd"}, {"pd"}}

SmallSplits == {<<1, 2>>, <<2, 1>>, <<2, 2>>}

SmallRepository ==
  (<<"token_jsq">>      :> [kind |-> "plain"]) @@
  (<<"mixed_pool", "25">> :> [kind |-> "mixed", named |-> FALSE]) @@
  (<<"mixed_pool", "12_5">> :> [kind |-> "mixed", named |-> FALSE]) @@
  (<<"kv">>             :> [kind |-> "kv", named |-> TRUE,
                            prompts |-> {"h100"}, tokens |-> {"a100"}]) @@
  (<<"kv_h100">>        :> [kind |-> "kv", named |-> TRUE,
                            prompts |-> {"h100"}, tokens |-> {}])

TwoRates == 1 :> "rr_code_1" @@ 2 :> "rr_code_2"

RateGaps == 1 :> {2, 3} @@ 2 :> {1}

(* Of these only poisson and randint may yield a gap of 0.                 *)
Distributions ==
  {[name |-> "constant", values |-> {1}], [name |-> "exponential", values |-> {1, 3}],
   [name |-> "poisson", values |-> {0, 1}], [name |-> "gamma", values |-> {1}]}

(* Tables of splits that overlap in a case and together have every prompt  *)
(* with every output; the last case is outside the scope of the crossover, *)
(* and with it there are more rates than the phase diagram has rows.       *)
Case(p, o, r) == [prompt |-> p, output |-> o, rate |-> r]
FirstCases == {Case(128, 64, 10), Case(512, 128, 20)}
SecondCases ==
  {Case(512, 128, 20), Case(128, 128, 50), Case(512, 64, 50), Case(256, 64, 70)}

OneCase == {Case(128, 64, 10)}

TwoSplits == {"2:6", "4:4"}

Pair(p, rate, bw) == [prompt |-> p, output |-> 64, rate |-> rate, bandwidth |-> bw]
ThreePairs == {Pair(128, 20, 50), Pair(128, 20, 25), Pair(512, 50, 50)}
OnePair == {Pair(128, 20, 50)}

(* Robustness files of one workload under several seeds, one of them of a  *)
(* simulation without details.                                             *)
SeedRow(e2e, handoff) ==
  [case |-> Pair(128, 20, 50), e2e |-> e2e, handoff |-> handoff, status |-> "ok"]
Seed(n, traced, rows) == [seed |-> n, traced |-> traced, rows |-> rows]
SomeSeeds ==
  {{}, {Seed(1, FALSE, {SeedRow(80, 120)})},
   {Seed(1, TRUE, {SeedRow(80, 120)}), Seed(2, TRUE, {SeedRow(120, 120)}),
    Seed(3, FALSE, {SeedRow(80, Missing)})},
   {Seed(2, TRUE, {SeedRow(80, Missing)})}}

(* run.py by hand, on a server of each kind.                               *)
Split ==
  [trace |-> "hand",
   servers |-> <<[sku |-> "a100", count |-> 1], [sku |-> "h100", count |-> 1]>>,
   state |-> "heterogeneous", tp |-> 2, prompts |-> 0, tokens |-> 0,
   promptSkus |-> {"h100"}, tokenSkus |-> {"a100"},
   itype |-> "splitwise", model |-> "llama2-70b",
   scheduler |-> <<"mixed_pool", "25">>,
   performance |-> "database", early |-> TRUE, batches |-> Batches]

Uniform == [Split EXCEPT !.state = "uniform", !.scheduler = <<"token_jsq">>,
                         !.early = FALSE]

Named == [Uniform EXCEPT !.scheduler = <<"kv">>]

ByHand ==
  {Split, Uniform, Named,
   [Split EXCEPT !.trace = "rr_code_1"],
   [Uniform EXCEPT !.trace = "rr_code_2"],
   [Split EXCEPT !.model = "llama2-7b"],
   [Split EXCEPT !.servers = <<[sku |-> "a100", count |-> 1], [sku |-> "b200", count |-> 1]>>],
   [Split EXCEPT !.tokenSkus = {}],
   [Split EXCEPT !.state = "unknown"],
   [Split EXCEPT !.performance = "constant"],
   [Named EXCEPT !.scheduler = <<"kv_h100">>],
   [Named EXCEPT !.scheduler = <<"mixed_pool", "25">>],
   [Uniform EXCEPT !.state = "unallocated"],
   [Uniform EXCEPT !.itype = "default", !.performance = "constant", !.early = TRUE]}
=============================================================================
