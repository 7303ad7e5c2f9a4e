---------------------------- MODULE MixedCluster ----------------------------
(***************************************************************************)
(* The cluster under MixedPoolScheduler: the pools and the bookkeeping of  *)
(* MixedPool together with the batching of SplitwiseInstance.  It is shown *)
(* to implement MixedPool, where the batches are arbitrary.                *)
(***************************************************************************)
EXTENDS Cluster

CONSTANTS PromptTagged, TokenTagged, PromptMaxPending

ASSUME InstancesAssumption == Instances = PromptTagged \cup TokenTagged

(* A restriction of this module: a run for a request of one token takes no *)
(* time and completes within the handler that starts it, where the         *)
(* scheduler gets its load back too.  Cluster_one_token is about such runs.*)
ASSUME TwoTokensAssumption == \A shape \in Shapes : shape.token >= 2

VARIABLES promptPool, mixedPool, tokenPool, schedTag, schedMemory, schedTokens

poolVars == <<promptPool, mixedPool, tokenPool, schedTag, schedMemory, schedTokens>>
mvars == <<cvars, poolVars>>

(* The node of the request that is outstanding, as the scheduler counts.   *)
PhaseOf(r) ==
  IF node[Prompt(r)] = "NONE" THEN "new"
  ELSE IF node[Prompt(r)] # "COMPLETED" THEN "prompt"
  ELSE IF node[Token(r)] = "NONE" THEN "flow"
  ELSE IF node[Token(r)] # "COMPLETED" THEN "token"
  ELSE "done"

Pool == INSTANCE MixedPool WITH phase <- [r \in Requests |-> PhaseOf(r)]

(* The tasks that complete in the step, and what they return to the        *)
(* scheduler's accounts: PromptTask.complete, TokenTask.complete and       *)
(* Instance.free_memory.                                                   *)
NewlyCompleted ==
  {t \in TaskNodes : node[t] # "COMPLETED" /\ node'[t] = "COMPLETED"}

ReturnLoad(i) ==
  /\ schedTokens' = [schedTokens EXCEPT ![i] =
       @ - SumFunction([t \in NewlyCompleted |-> TokensPerIteration(t)])]
  /\ schedMemory' = [schedMemory EXCEPT ![i] =
       @ - SumFunction([t \in NewlyCompleted |-> IF IsPrompt(t) THEN 0 ELSE memory[t.req]])]
-----------------------------------------------------------------------------
MixedInit ==
  /\ ClusterInit
  /\ promptPool = PromptTagged
  /\ mixedPool = {}
  /\ tokenPool = TokenTagged
  /\ schedTag = [i \in Instances |-> "none"]
  /\ schedMemory = [i \in Instances |-> ModelSize]
  /\ schedTokens = [i \in Instances |-> 0]

(* schedule(), and then the executor submits the tasks.                    *)
MixedArrival(r) ==
  /\ ~crashed /\ IsNext(r)
  /\ Pool!Place(r, {i \in Instances : inst[i].pending # <<>>})
  /\ Becomes(Submit(State, r, promptOn'[r], tokenOn'[r], tokenOn'))
  /\ UNCHANGED trace

(* Faulty: the instance is reported free when its batch is empty.          *)
MixedCompletionIdle(i) ==
  /\ IterationCompletion(i)
  /\ ReturnLoad(i)
  /\ IF inst'[i].batch = <<>> THEN Pool!NotifyFree(i)
     ELSE UNCHANGED <<promptPool, mixedPool, tokenPool, schedTag>>

(* start_iteration, at the end of the handler, reports a free instance.    *)
MixedCompletion(i) ==
  /\ IterationCompletion(i)
  /\ ReturnLoad(i)
  /\ IF inst'[i].pool = <<>> THEN Pool!NotifyFree(i)
     ELSE UNCHANGED <<promptPool, mixedPool, tokenPool, schedTag>>

(* Faulty: frees the reservation of the destination.                       *)
MixedFlowCompletionAtDest(r) ==
  /\ FlowCompletion(r)
  /\ schedMemory' = [schedMemory EXCEPT ![tokenOn[r]] = @ - memory[r]]
  /\ UNCHANGED <<promptPool, mixedPool, tokenPool, schedTag, schedTokens>>

MixedFlowCompletion(r) ==
  /\ FlowCompletion(r)
  /\ schedMemory' = [schedMemory EXCEPT ![promptOn[r]] = @ - memory[r]]
  /\ UNCHANGED <<promptPool, mixedPool, tokenPool, schedTag, schedTokens>>

MixedNext ==
  \/ \E r \in Requests : MixedArrival(r) \/ MixedFlowCompletion(r)
  \/ \E r \in Requests : RetryFlow(r) /\ UNCHANGED poolVars
  \/ \E i \in Instances : MixedCompletion(i)
  \/ \E i \in Instances : IterationOver(i) /\ UNCHANGED poolVars
  \/ Finished /\ UNCHANGED poolVars

MixedSpec == MixedInit /\ [][MixedNext]_mvars
-----------------------------------------------------------------------------
ImplementsMixedPool == Pool!Spec

(* What the scheduler has reserved on an instance covers what is in use    *)
(* there, at every moment of prompts, transfers and answers.               *)
ReservedCoversUsed ==
  \A i \in Instances : UsedMemory(State, i) <= schedMemory[i]
=============================================================================
