----------------------------- MODULE Schedulers -----------------------------
(***************************************************************************)
(* The schedulers with a fixed role for every instance (scheduler.py):     *)
(* Random, RoundRobin, JSQ and TokenJSQ chain the token task of a request  *)
(* to its prompt task on one instance; the KV schedulers put them on a     *)
(* prompt and a token instance with a KV-cache flow between them.          *)
(* MixedPool.tla has the scheduler whose instances change roles.           *)
(*                                                                         *)
(* As in MixedPool.tla, an iteration completes any non-empty set of the    *)
(* tasks present.  sched_memory is left out: these schedulers never read   *)
(* it.                                                                     *)
(***************************************************************************)
EXTENDS Tasks, SequencesExt

CONSTANTS PromptInstances,   \* lists of instances, in the order in which
          TokenInstances,    \* they were added
          Policies,          \* the schedulers to choose from
          NoInstance         \* Python's None

Chained == {"Random", "RoundRobin", "JSQ", "TokenJSQ"}
Shipping == {"KVRoundRobin", "KVJSQ", "KVTokenJSQ"}

AllInstances == PromptInstances \o TokenInstances
Instances == ToSet(AllInstances)

ASSUME SchedulersAssumption ==
  /\ PromptInstances \in Seq(Instances) /\ TokenInstances \in Seq(Instances)
  /\ PromptInstances # <<>> /\ TokenInstances # <<>>
  /\ IsInjective(AllInstances)
  /\ NoInstance \notin Instances
  /\ Policies \subseteq Chained \cup Shipping

VARIABLES policy,
          promptIndex,   \* prompt_instance_index, or instance_index
          tokenIndex,    \* token_instance_index
          schedTokens,   \* instance.sched_pending_tokens
          promptOn, tokenOn, phase

svars == <<trace, policy, promptIndex, tokenIndex, schedTokens, promptOn, tokenOn, phase>>

(* pending_requests: the requests with a task in the pool of i.  A token   *)
(* task is not there before its flow completes.                            *)
Pool(i) ==
  {r \in Requests : \/ promptOn[r] = i /\ phase[r] = "prompt"
                    \/ tokenOn[r] = i /\ phase[r] = "token"}
-----------------------------------------------------------------------------
SchedInit ==
  /\ trace \in [Requests -> Shapes]
  /\ policy \in Policies
  /\ promptIndex = 0 /\ tokenIndex = 0
  /\ schedTokens = [i \in Instances |-> 0]
  /\ promptOn = [r \in Requests |-> NoInstance]
  /\ tokenOn = [r \in Requests |-> NoInstance]
  /\ phase = [r \in Requests |-> "new"]

(* min() over a list: the first of the least.                              *)
FirstLeast(list, load) ==
  list[CHOOSE k \in DOMAIN list :
         /\ \A m \in DOMAIN list : load[list[k]] <= load[list[m]]
         /\ \A m \in 1 .. k - 1 : load[list[k]] < load[list[m]]]

ShortestQueue(list) == FirstLeast(list, [i \in Instances |-> Cardinality(Pool(i))])
FewestTokens(list)  == FirstLeast(list, schedTokens)

Both(i) == <<i, i>>

(* schedule(): the instances of the two tasks.                             *)
Placements ==
  CASE policy = "Random"       -> {Both(i) : i \in Instances}
    [] policy = "RoundRobin"   -> {Both(AllInstances[promptIndex + 1])}
    [] policy = "JSQ"          -> {Both(ShortestQueue(AllInstances))}
    [] policy = "TokenJSQ"     -> {Both(FewestTokens(AllInstances))}
    [] policy = "KVRoundRobin" ->
         {<<PromptInstances[promptIndex + 1], TokenInstances[tokenIndex + 1]>>}
    [] policy = "KVJSQ" ->
         {<<ShortestQueue(PromptInstances), ShortestQueue(TokenInstances)>>}
    [] policy = "KVTokenJSQ" ->
         {<<FewestTokens(PromptInstances), FewestTokens(TokenInstances)>>}

FollowsInRole(index, list) == (index + 1) % Len(PromptInstances)

Follows(index, list) == (index + 1) % Len(list)

Advance ==
  CASE policy = "RoundRobin" ->
         promptIndex' = Follows(promptIndex, AllInstances) /\ UNCHANGED tokenIndex
    [] policy = "KVRoundRobin" ->
         /\ promptIndex' = Follows(promptIndex, PromptInstances)
         /\ tokenIndex' = Follows(tokenIndex, TokenInstances)
    [] OTHER -> UNCHANGED <<promptIndex, tokenIndex>>

CountedPrompt(r) == IF policy = "TokenJSQ" THEN trace[r].prompt ELSE 0

(* The tokens counted for r when it is placed; TokenJSQ alone counts.      *)
Counted(r) == IF policy = "TokenJSQ" THEN trace[r].prompt + 1 ELSE 0

Schedule(r) ==
  /\ phase[r] = "new"
  /\ \E d \in Placements :
       /\ promptOn' = [promptOn EXCEPT ![r] = d[1]]
       /\ tokenOn' = [tokenOn EXCEPT ![r] = d[2]]
       /\ schedTokens' = [schedTokens EXCEPT ![d[1]] = @ + Counted(r)]
  /\ Advance
  /\ phase' = [phase EXCEPT ![r] = "prompt"]
  /\ UNCHANGED <<trace, policy>>

(* Task.complete takes off the tokens of the task, whether they have been  *)
(* counted or not.                                                         *)
TokensOf(r) == IF phase[r] = "prompt" THEN trace[r].prompt ELSE 1

CompleteIteration(i, D) ==
  /\ D # {} /\ D \subseteq Pool(i)
  /\ schedTokens' = [schedTokens EXCEPT ![i] = @ - SumFunction([r \in D |-> TokensOf(r)])]
  /\ phase' = [r \in Requests |->
       IF r \notin D THEN phase[r]
       ELSE IF phase[r] = "token" THEN "done"
       ELSE IF promptOn[r] = tokenOn[r] THEN "token" ELSE "flow"]
  /\ UNCHANGED <<trace, policy, promptIndex, tokenIndex, promptOn, tokenOn>>

FlowCompletion(r) ==
  /\ phase[r] = "flow"
  /\ phase' = [phase EXCEPT ![r] = "token"]
  /\ UNCHANGED <<trace, policy, promptIndex, tokenIndex, schedTokens, promptOn, tokenOn>>

Served == (\A r \in Requests : phase[r] = "done") /\ UNCHANGED svars

SchedNext ==
  \/ \E r \in Requests : Schedule(r) \/ FlowCompletion(r)
  \/ \E i \in Instances, D \in SUBSET Requests : CompleteIteration(i, D)
  \/ Served

SchedSpec == SchedInit /\ [][SchedNext]_svars
-----------------------------------------------------------------------------
Placed(on, i) == Cardinality({r \in Requests : on[r] = i})

EvenlySpread(on, list) ==
  \A i, j \in ToSet(list) : Placed(on, i) <= Placed(on, j) + 1

(* "in a round-robin fashion": whatever has completed meanwhile, no        *)
(* instance has been given two requests more than another of its role.     *)
RoundRobinIsEven ==
  /\ policy = "RoundRobin" => EvenlySpread(promptOn, AllInstances)
  /\ policy = "KVRoundRobin" => /\ EvenlySpread(promptOn, PromptInstances)
                                /\ EvenlySpread(tokenOn, TokenInstances)

(* The tokens of the tasks at i or on their way there.                     *)
TokensAt(i, r) ==
  (IF promptOn[r] = i /\ phase[r] = "prompt" THEN trace[r].prompt ELSE 0)
  + (IF tokenOn[r] = i /\ phase[r] # "done" THEN 1 ELSE 0)

PendingTokens(i) == SumFunction([r \in Requests |-> TokensAt(i, r)])

(* "schedules Requests to the Instance with smallest pending tokens queue": *)
(* the instance of the prompt task has, when the request is placed, the     *)
(* fewest tokens still to process.                                          *)
JoinsSmallest(candidates) ==
  \A r \in Requests, i \in ToSet(candidates) :
    phase[r] = "new" /\ phase'[r] # "new"
      => PendingTokens(promptOn'[r]) <= PendingTokens(i)

(* TokenJSQ keeps the promise, whatever has completed meanwhile.           *)
TokenJSQJoinsSmallest ==
  [][policy = "TokenJSQ" => JoinsSmallest(AllInstances)]_svars

(* KVTokenJSQ makes the same promise.                                      *)
KVTokenJSQJoinsSmallest ==
  [][policy = "KVTokenJSQ" => JoinsSmallest(PromptInstances)]_svars
=============================================================================
