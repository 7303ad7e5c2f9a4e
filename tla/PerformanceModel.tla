--------------------------- MODULE PerformanceModel ---------------------------
(***************************************************************************)
(* DatabasePerformanceModel.get_iteration_duration (performance_model.py): *)
(* the duration of an iteration of a batch, predicted from the number of   *)
(* its tokens and cached under them.  The predictors, interpolations of    *)
(* measured times, are constants; an extrapolated time may be negative.    *)
(***************************************************************************)
EXTENDS Integers

CONSTANTS Predictors,   \* the (hardware, tensor_parallel) of the database
          MaxTokens,    \* bound: tokens in a batch
          PromptTime,   \* predicted by prompt_time_predictors
          TokenTime     \* predicted by token_time_predictors

Keys == Predictors \X (1 .. MaxTokens)

ASSUME PredictorAssumption ==
  /\ MaxTokens \in Nat
  /\ PromptTime \in [Keys -> Int]
  /\ TokenTime \in [Keys -> Int]

(* A batch: the tokens of its prompt tasks and the number of token tasks.  *)
Batches == {b \in [prompt : 0 .. MaxTokens, token : 0 .. MaxTokens] :
              b.prompt + b.token \in 1 .. MaxTokens}

VARIABLES promptCache,  \* prompt_time_cache
          tokenCache,   \* token_time_cache
          answer        \* the last call and its result, in tenths

perfvars == <<promptCache, tokenCache, answer>>

EmptyCache == [key \in {} |-> 0]

NoAnswer == [kind |-> "none", key |-> <<>>, time |-> 0]

PerfInit ==
  /\ promptCache = EmptyCache
  /\ tokenCache = EmptyCache
  /\ answer = NoAnswer
-----------------------------------------------------------------------------
Kind(batch) ==
  CASE batch.token = 0  -> "prompt"
    [] batch.prompt = 0 -> "token"
    [] OTHER            -> "mixed"

Key(predictor, batch) == <<predictor, batch.prompt + batch.token>>

Lookup(cache, key, predicted) ==
  IF key \in DOMAIN cache THEN cache[key] ELSE predicted[key]

(* Faulty: the key of the cache is the number of tokens alone.             *)
StoredBySize(cache, key, value) ==
  [k \in DOMAIN cache \cup {other \in Keys : other[2] = key[2]} |->
     IF k[2] = key[2] THEN value ELSE cache[k]]

Stored(cache, key, value) ==
  [k \in DOMAIN cache \cup {key} |-> IF k = key THEN value ELSE cache[k]]

(* A batch with tasks of both kinds takes a tenth longer than its prompts. *)
Scale(kind) == IF kind = "mixed" THEN 11 ELSE 10

(* get_iteration_duration.                                                 *)
IterationDuration(predictor, batch) ==
  LET kind == Kind(batch)
      key  == Key(predictor, batch)
  IN  IF kind = "token"
      THEN LET time == Lookup(tokenCache, key, TokenTime)
           IN  /\ tokenCache' = Stored(tokenCache, key, time)
               /\ answer' = [kind |-> kind, key |-> key, time |-> Scale(kind) * time]
               /\ UNCHANGED promptCache
      ELSE LET time == Lookup(promptCache, key, PromptTime)
           IN  /\ promptCache' = Stored(promptCache, key, time)
               /\ answer' = [kind |-> kind, key |-> key, time |-> Scale(kind) * time]
               /\ UNCHANGED tokenCache

PerfNext ==
  \E predictor \in Predictors, batch \in Batches : IterationDuration(predictor, batch)

PerfSpec == PerfInit /\ [][PerfNext]_perfvars
-----------------------------------------------------------------------------
(* What the predictors say of a batch, whatever was asked before.          *)
Predicted(kind, key) ==
  Scale(kind) * (IF kind = "token" THEN TokenTime[key] ELSE PromptTime[key])

(* The duration of an iteration depends on its batch and its instance and  *)
(* not on the batches that ran before: pure and mixed batches of the same  *)
(* size share a cache entry without disturbing each other.                 *)
DurationIsFresh ==
  answer.kind # "none" => answer.time = Predicted(answer.kind, answer.key)
=============================================================================
