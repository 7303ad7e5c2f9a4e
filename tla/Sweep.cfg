SPECIFICATION StudySpec

CONSTANTS
  Skus <- SmallSkus
  Models = {"llama2-70b"}
  SchedulerConfigs <- SmallRepository
  Predictors <- SmallPredictors
  MaxTokens = 2
  PromptTime <- PromptTimes
  TokenTime <- TokenTimes
  Workloads <- OneWorkload
  Bandwidths <- TwoBandwidths
  WholeBandwidths = {"25"}
  SystemChoices <- BothOrPD
  Splits <- SmallSplits
  TotalA100 = 3
  Gaps = {1, 3}
  Duration = 3
  RateTraces <- TwoRates
  GapsAt <- RateGaps
  HandTrace = "hand"
  HandDistributions <- Distributions
  MaxRequests = 2
  Cases1 <- FirstCases
  Cases2 <- SecondCases
  SplitNames <- TwoSplits
  Ratios1 = {80, 120}
  Ratios2 = {100}
  PairCases <- ThreePairs
  PairRatios = {80, 120}
  ReportCases <- OneCase
  Cases512 <- OnePair
  SeedCases <- SomeSeeds
  Plots = {"main_e2e_ratio_lines"}
  HandConfigs <- ByHand
  MaxSweeps = 2
  MaxKills = 1
  MaxAggregations = 1

INVARIANTS
  DurationIsFresh
  ProcessorsUnshared
  SplitAsNamed
  RunlogIsTrue
  ResultsAreWhole
  ReportCoversPairs
  ReportsAreTrue

CHECK_DEADLOCK FALSE
