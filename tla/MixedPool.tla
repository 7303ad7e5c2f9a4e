------------------------------ MODULE MixedPool ------------------------------
(***************************************************************************)
(* MixedPoolScheduler (scheduler.py) and the per-instance bookkeeping it   *)
(* reads (instance.py, task.py, flow.py).                                  *)
(*                                                                         *)
(* Instances sit in one of three pools.  A request is split into a prompt  *)
(* task and a token task; when no suitable prompt (token) instance exists  *)
(* one is borrowed from the other pool and becomes "mixed" until it has    *)
(* nothing left to run.  The scheduler reserves memory (sched_memory) and  *)
(* load (sched_pending_tokens) when it places a request and relies on the  *)
(* completions of tasks and KV-cache flows to give them back.              *)
(*                                                                         *)
(* The batching policy of the instances is left open here: an iteration    *)
(* completes any non-empty set of the tasks present.  Cluster.tla has the  *)
(* real policy.                                                            *)
(***************************************************************************)
EXTENDS Tasks, Functions

CONSTANTS PromptTagged,     \* instances whose tag is "prompt"
          TokenTagged,      \* instances whose tag is "token"
          NoInstance,       \* Python's None
          ModelSize,        \* memory taken by the weights
          MaxMemory,        \* memory of the processors of an instance
          PromptMaxPending  \* prompt_max_pending_batch_tokens

PoolInstances == PromptTagged \cup TokenTagged

ASSUME PoolsAssumption ==
  /\ PromptTagged # {} /\ TokenTagged # {}
  /\ PromptTagged \cap TokenTagged = {}
  /\ NoInstance \notin PoolInstances

ASSUME LimitsAssumption ==
  ModelSize \in Nat /\ MaxMemory \in Nat /\ PromptMaxPending \in Nat

VARIABLES promptPool, mixedPool, tokenPool,
          schedTag,      \* instance.sched_tag
          schedMemory,   \* instance.sched_memory
          schedTokens,   \* instance.sched_pending_tokens
          promptOn,      \* instance of the prompt task, NoInstance before
          tokenOn,       \* instance of the token task, NoInstance before
          phase          \* which node of the request DAG is outstanding

pools == <<promptPool, mixedPool, tokenPool, schedTag>>
vars == <<trace, pools, schedMemory, schedTokens, promptOn, tokenOn, phase>>

Colocated(r) == promptOn[r] = tokenOn[r]

(* The requests with a task in the request pool of i.  The tasks of a     *)
(* colocated request arrive together, as a chain.                         *)
Present(i) ==
  {r \in Requests : \/ promptOn[r] = i /\ phase[r] = "prompt"
                    \/ tokenOn[r] = i /\ phase[r] = "token"}

(* Work of i that is not finished, whether or not it has reached i yet.   *)
Owed(i) ==
  {r \in Requests : \/ promptOn[r] = i /\ phase[r] = "prompt"
                    \/ tokenOn[r] = i /\ phase[r] \in {"prompt", "flow", "token"}}
-----------------------------------------------------------------------------
Init ==
  /\ trace \in [Requests -> Shapes]
  /\ promptPool = PromptTagged
  /\ mixedPool = {}
  /\ tokenPool = TokenTagged
  /\ schedTag = [i \in PoolInstances |-> "none"]
  /\ schedMemory = [i \in PoolInstances |-> ModelSize]
  /\ schedTokens = [i \in PoolInstances |-> 0]
  /\ promptOn = [r \in Requests |-> NoInstance]
  /\ tokenOn = [r \in Requests |-> NoInstance]
  /\ phase = [r \in Requests |-> "new"]
-----------------------------------------------------------------------------
(***************************************************************************)
(* The searches of schedule().  min() over a Python list returns one of   *)
(* the least elements; the order of the list is not modelled, so any of   *)
(* them may be returned.  waiting is the set of instances whose           *)
(* pending_queue is not empty.                                            *)
(***************************************************************************)
Least(pool, load) == {i \in pool : \A j \in pool : load[i] <= load[j]}

IsQueueLong(i, r, waiting) ==
  i \in waiting /\ schedTokens[i] + trace[r].prompt > PromptMaxPending

IsMemoryLoaded(i, r) == schedMemory[i] + TotalMemory(r) >= MaxMemory

FindBestPrompt(pool, r, waiting) ==
  IF pool = {} THEN {NoInstance}
  ELSE {IF IsQueueLong(i, r, waiting) THEN NoInstance ELSE i :
          i \in Least(pool, schedTokens)}

FindBestToken(pool, r) ==
  IF pool = {} THEN {NoInstance}
  ELSE {IF IsMemoryLoaded(i, r) THEN NoInstance ELSE i :
          i \in Least(pool, schedMemory)}

(* The loop over two pools keeps the first answer that is not None.       *)
FirstFound(first, second) ==
  (first \ {NoInstance}) \cup (IF NoInstance \in first THEN second ELSE {})

PromptOffers(r, waiting) ==
  FirstFound(FindBestPrompt(promptPool, r, waiting),
             FindBestPrompt(mixedPool, r, waiting))

TokenOffers(r) ==
  FirstFound(FindBestToken(tokenPool, r), FindBestToken(mixedPool, r))

(* What may be taken from the other pool when the search found nothing.   *)
Borrowed(found, pool, load) ==
  IF found = NoInstance /\ pool # {} THEN Least(pool, load) ELSE {NoInstance}

(* Where the two tasks go: the instances found or borrowed or, if one is  *)
(* still missing, both on an instance with the least pending tokens.      *)
Pairings(prompt, token) ==
  IF prompt = NoInstance \/ token = NoInstance
  THEN {<<i, i>> : i \in Least(promptPool \cup mixedPool \cup tokenPool,
                               schedTokens)}
  ELSE {<<prompt, token>>}

NoInstancesAvailable ==
  (promptPool = {} \/ tokenPool = {}) /\ mixedPool = {}

(* Reservations made for r once its instances are known.                  *)
Reserve(r, p, t) ==
  /\ schedMemory' = [i \in PoolInstances |->
       schedMemory[i]
         + (IF i = p /\ p # t THEN PromptMemory(r) ELSE 0)
         + (IF i = t THEN TotalMemory(r) ELSE 0)]
  /\ schedTokens' = [i \in PoolInstances |->
       schedTokens[i] + (IF i = p THEN trace[r].prompt ELSE 0)
                      + (IF i = t THEN 1 ELSE 0)]
  /\ promptOn' = [promptOn EXCEPT ![r] = p]
  /\ tokenOn' = [tokenOn EXCEPT ![r] = t]

(* schedule() itself: the pools, the reservations and the instances of r.  *)
Place(r, waiting) ==
  /\ ~NoInstancesAvailable
  /\ \E p \in PromptOffers(r, waiting), t \in TokenOffers(r) :
     \E bp \in Borrowed(p, tokenPool, schedTokens),
        bt \in Borrowed(t, promptPool, schedMemory) :
       /\ tokenPool' = tokenPool \ {bp}
       /\ promptPool' = promptPool \ {bt}
       /\ mixedPool' = mixedPool \cup ({bp, bt} \ {NoInstance})
       /\ schedTag' = [i \in PoolInstances |->
                         IF i \in {bp, bt} THEN "mixed" ELSE schedTag[i]]
       /\ \E d \in Pairings(IF p = NoInstance THEN bp ELSE p,
                              IF t = NoInstance THEN bt ELSE t) :
            Reserve(r, d[1], d[2])

(* request_arrival: the request is placed and its prompt task submitted.   *)
Schedule(r, waiting) ==
  /\ phase[r] = "new"
  /\ Place(r, waiting)
  /\ phase' = [phase EXCEPT ![r] = "prompt"]
  /\ UNCHANGED trace
-----------------------------------------------------------------------------
(* Faulty forms of NotifyFree: the instance stays in mixed_instances, its  *)
(* sched_tag is not reset, or it is not put back in the pool of its tag.   *)
NotifyFreeStaysMixed(i) ==
  /\ schedTag' = [schedTag EXCEPT ![i] = "none"]
  /\ promptPool' = promptPool \cup ({i} \cap PromptTagged)
  /\ tokenPool' = tokenPool \cup ({i} \cap TokenTagged)
  /\ UNCHANGED mixedPool

NotifyFreeKeepsTag(i) ==
  /\ mixedPool' = mixedPool \ {i}
  /\ promptPool' = promptPool \cup ({i} \cap PromptTagged)
  /\ tokenPool' = tokenPool \cup ({i} \cap TokenTagged)
  /\ UNCHANGED schedTag

NotifyFreeLosesInstance(i) ==
  IF schedTag[i] = "mixed"
  THEN /\ schedTag' = [schedTag EXCEPT ![i] = "none"]
       /\ mixedPool' = mixedPool \ {i}
       /\ UNCHANGED <<promptPool, tokenPool>>
  ELSE UNCHANGED <<promptPool, mixedPool, tokenPool, schedTag>>

(* MixedPoolScheduler.notify_free_instance.                                *)
NotifyFree(i) ==
  IF schedTag[i] = "mixed"
  THEN /\ schedTag' = [schedTag EXCEPT ![i] = "none"]
       /\ mixedPool' = mixedPool \ {i}
       /\ promptPool' = promptPool \cup ({i} \cap PromptTagged)
       /\ tokenPool' = tokenPool \cup ({i} \cap TokenTagged)
  ELSE UNCHANGED <<promptPool, mixedPool, tokenPool, schedTag>>

(***************************************************************************)
(* An iteration of i ends and the tasks of the requests in D complete: a  *)
(* prompt task returns its pending tokens and is followed by the KV-cache *)
(* flow, or by the token task beside it; a token task returns its pending *)
(* token and all the memory of its request.  The start of the next        *)
(* iteration reports a free instance when no task is left in its pool.    *)
(***************************************************************************)
PendingTokensOfToken(r) == 1   \* faulty: as if the task were a token task
PendingTokensOf(r) == IF phase[r] = "prompt" THEN trace[r].prompt ELSE 1
MemoryFreedByTask(r) == TaskMemory(Token(r))   \* faulty: its own memory only
MemoryFreedBy(r)   == IF phase[r] = "prompt" THEN 0 ELSE TotalMemory(r)

(* Faulty: looks for tasks left in the pool before it removes those of D.  *)
CompleteIterationChecksEarly(i, D) ==
  /\ D # {} /\ D \subseteq Present(i)
  /\ schedTokens' = [schedTokens EXCEPT ![i] = @ - SumFunction([r \in D |-> PendingTokensOf(r)])]
  /\ schedMemory' = [schedMemory EXCEPT ![i] = @ - SumFunction([r \in D |-> MemoryFreedBy(r)])]
  /\ phase' = [r \in Requests |->
       IF r \notin D THEN phase[r]
       ELSE IF phase[r] = "token" THEN "done"
       ELSE IF Colocated(r) THEN "token" ELSE "flow"]
  /\ UNCHANGED <<trace, promptOn, tokenOn>>
  /\ IF Present(i) = {} THEN NotifyFree(i) ELSE UNCHANGED pools

CompleteIteration(i, D) ==
  /\ D # {} /\ D \subseteq Present(i)
  /\ schedTokens' = [schedTokens EXCEPT ![i] = @ - SumFunction([r \in D |-> PendingTokensOf(r)])]
  /\ schedMemory' = [schedMemory EXCEPT ![i] = @ - SumFunction([r \in D |-> MemoryFreedBy(r)])]
  /\ phase' = [r \in Requests |->
       IF r \notin D THEN phase[r]
       ELSE IF phase[r] = "token" THEN "done"
       ELSE IF Colocated(r) THEN "token" ELSE "flow"]
  /\ UNCHANGED <<trace, promptOn, tokenOn>>
  /\ IF Present(i)' = {} THEN NotifyFree(i) ELSE UNCHANGED pools

(* Flow.complete: the source gives back the memory of the prompt.  The    *)
(* token task then arrives at its instance.                               *)
FlowCompletion(r) ==
  /\ phase[r] = "flow"
  /\ phase' = [phase EXCEPT ![r] = "token"]
  /\ schedMemory' = [schedMemory EXCEPT ![promptOn[r]] = @ - PromptMemory(r)]
  /\ UNCHANGED <<trace, pools, schedTokens, promptOn, tokenOn>>
-----------------------------------------------------------------------------
(* Every request of the trace is served.                                  *)
Finished == (\A r \in Requests : phase[r] = "done") /\ UNCHANGED vars

Next ==
  \/ \E r \in Requests, waiting \in SUBSET {i \in PoolInstances : Present(i) # {}} :
       Schedule(r, waiting)
  \/ \E i \in PoolInstances, D \in SUBSET Requests : CompleteIteration(i, D)
  \/ \E r \in Requests : FlowCompletion(r)
  \/ Finished

Spec == Init /\ [][Next]_vars
-----------------------------------------------------------------------------
(* Every instance is in exactly one pool: borrowing and returning neither *)
(* loses an instance nor lists it twice, so both searches see all of them. *)
PoolsPartition ==
  /\ promptPool \cup mixedPool \cup tokenPool = PoolInstances
  /\ promptPool \cap tokenPool = {}
  /\ mixedPool \cap (promptPool \cup tokenPool) = {}

(* sched_tag is "mixed" exactly for the members of mixed_instances, and    *)
(* an instance that is not mixed is in the pool its own tag names: this is *)
(* what lets notify_free_instance find the way back.                       *)
TagsAgree ==
  /\ \A i \in PoolInstances : schedTag[i] = "mixed" <=> i \in mixedPool
  /\ promptPool \subseteq PromptTagged
  /\ tokenPool \subseteq TokenTagged

(* The error "No instances available" of schedule() is never raised.       *)
AlwaysAnInstance == ~NoInstancesAvailable

(* What the tasks of a request that i owes bring to its load.              *)
Load(i, r) == (IF promptOn[r] = i /\ phase[r] = "prompt" THEN trace[r].prompt ELSE 0)
              + (IF tokenOn[r] = i THEN 1 ELSE 0)

(* sched_pending_tokens of an instance is the load of the tasks placed on  *)
(* it and not finished: the searches never act on a drifting counter.      *)
LoadIsAccurate ==
  \A i \in PoolInstances :
    schedTokens[i] = SumFunction([r \in Owed(i) |-> Load(i, r)])

(* Memory of i that the request r has reserved and not given back.         *)
Reservation(i, r) ==
  IF tokenOn[r] = i /\ phase[r] # "done" THEN TotalMemory(r)
  ELSE IF promptOn[r] = i /\ phase[r] \in {"prompt", "flow"} THEN PromptMemory(r)
  ELSE 0

(* sched_memory of an instance is the model and the reservations of the    *)
(* unfinished requests on it, through the transfer that frees one side     *)
(* first and whichever path (flow or token task) gives the memory back.    *)
MemoryIsAccurate ==
  \A i \in PoolInstances :
    schedMemory[i] = ModelSize + SumFunction([r \in Requests |-> Reservation(i, r)])

(* An instance is mixed only while it owes work: it becomes mixed for a    *)
(* task, and returns in the step in which its work runs out.  There is one *)
(* exception.  When no memory is left for a request and every prompt       *)
(* instance is mixed already, a token instance is borrowed for its prompt, *)
(* and then both tasks go to whichever instance has the least to do.  The  *)
(* instance borrowed in vain stays mixed until it is given work.           *)
BorrowedInVain(i) ==
  /\ i \in tokenPool /\ promptPool = {}
  /\ \E r \in Requests : phase[r] = "new" /\ phase'[r] # "new" /\ IsMemoryLoaded(i, r)

MixedForWork ==
  [][\A i \in mixedPool' : \/ Owed(i)' # {}
                           \/ i \in mixedPool /\ Owed(i) = {}
                           \/ BorrowedInVain(i)]_vars
=============================================================================
