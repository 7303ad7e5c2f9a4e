------------------------------- MODULE Cluster -------------------------------
(***************************************************************************)
(* The simulated cluster: requests arrive, are placed by a scheduler, run  *)
(* their prompt task, ship the KV-cache if the token task is elsewhere,    *)
(* run their token task and complete.  Every action is one event of the    *)
(* simulator with all the handlers it calls (router, scheduler, executor,  *)
(* instances and links call each other with zero delay).                   *)
(*                                                                         *)
(* The scheduler is any that respects Placements: the pairs <i, i> are the *)
(* choices of Random, RoundRobin, JSQ and TokenJSQ, the pairs of different *)
(* instances those of the KV schedulers; MixedCluster has MixedPool.       *)
(***************************************************************************)
EXTENDS SplitwiseInstance

CONSTANTS NoInstance,    \* Python's None
          Placements,    \* pairs of prompt and token instance
          LateEvents     \* may an event be handled at the very time at
                         \* which a run ends, before its completion?

ASSUME PlacementAssumption ==
  /\ Placements \subseteq Instances \X Instances
  /\ NoInstance \notin Instances
  /\ LateEvents \in BOOLEAN

VARIABLES inst, node, generated, preempted, alloc, memory, crashed,
          promptOn, tokenOn   \* instances of the tasks, NoInstance before

cvars == <<trace, inst, node, generated, preempted, alloc, memory, crashed,
           promptOn, tokenOn>>

State == [inst |-> inst, node |-> node, generated |-> generated,
          preempted |-> preempted, alloc |-> alloc, memory |-> memory,
          free |-> {}, crashed |-> crashed]

Becomes(s) ==
  /\ inst' = s.inst
  /\ node' = s.node
  /\ generated' = s.generated
  /\ preempted' = s.preempted
  /\ alloc' = s.alloc
  /\ memory' = s.memory
  /\ crashed' = s.crashed

Completed(r) == node[Token(r)] = "COMPLETED"

(* The tasks that have arrived at i and are not complete.                  *)
TasksAt(i) ==
  {t \in TaskNodes : /\ node[t] \in {"QUEUED", "RUNNING", "BLOCKED"}
                     /\ i = IF IsPrompt(t) THEN promptOn[t.req] ELSE tokenOn[t.req]}
-----------------------------------------------------------------------------
ClusterInit ==
  /\ trace \in [Requests -> Shapes]
  /\ inst = [i \in Instances |-> IdleInstance]
  /\ node = [n \in Nodes |-> "NONE"]
  /\ generated = [t \in TaskNodes |-> 0]
  /\ preempted = [t \in TaskNodes |-> 0]
  /\ alloc = [i \in Instances |-> [r \in Requests |-> 0]]
  /\ memory = [r \in Requests |-> 0]
  /\ crashed = FALSE
  /\ promptOn = [r \in Requests |-> NoInstance]
  /\ tokenOn = [r \in Requests |-> NoInstance]

(* The next request of the trace reaches the router and is placed; its     *)
(* prompt task arrives at p and, when it is chained, the token task too.   *)
SubmitBoth(s, r, p, t, dest) ==   \* faulty: chained even when apart
  TaskArrival(TaskArrival(s, p, Prompt(r), dest), t, Token(r), dest)

SubmitChain(s, r, p, t, dest) ==
  IF p = t THEN TaskArrival(s, t, Token(r), dest) ELSE s

Submit(s, r, p, t, dest) ==
  SubmitChain(TaskArrival(s, p, Prompt(r), dest), r, p, t, dest)

IsNext(r) ==
  promptOn[r] = NoInstance /\ \A q \in Requests : q < r => promptOn[q] # NoInstance

RequestArrival(r, p, t) ==
  /\ ~crashed /\ IsNext(r)
  /\ promptOn' = [promptOn EXCEPT ![r] = p]
  /\ tokenOn' = [tokenOn EXCEPT ![r] = t]
  /\ Becomes(Submit(State, r, p, t, tokenOn'))
  /\ UNCHANGED trace

(* Time passes: one more iteration of the run of i is over.  Another event *)
(* can be handled after the last one only before the completion event of   *)
(* the same time.                                                          *)
IterationOver(i) ==
  /\ ~crashed /\ inst[i].batch # <<>>
  /\ inst[i].elapsed < inst[i].iterations - (IF LateEvents THEN 0 ELSE 1)
  /\ inst' = [inst EXCEPT ![i].elapsed = @ + 1]
  /\ UNCHANGED <<trace, node, generated, preempted, alloc, memory, crashed,
                 promptOn, tokenOn>>

(* The completion event of the run of i.                                   *)
IterationCompletion(i) ==
  /\ ~crashed /\ inst[i].batch # <<>>
  /\ inst[i].elapsed >= inst[i].iterations - 1
  /\ Becomes(CompleteIteration(State, i, tokenOn))
  /\ UNCHANGED <<trace, promptOn, tokenOn>>

(* flow_completion: the source frees the cache, the token task arrives at  *)
(* its instance, and then the source is notified.                          *)
FlowCompletion(r) ==
  /\ ~crashed /\ node[Flow(r)] = "RUNNING"
  /\ Becomes(NotifyFlowCompletion(
               TaskArrival([State EXCEPT !.node[Flow(r)] = "COMPLETED",
                                         !.alloc[promptOn[r]][r] = @ - memory[r]],
                           tokenOn[r], Token(r), tokenOn),
               promptOn[r], tokenOn))
  /\ UNCHANGED <<trace, promptOn, tokenOn>>

(* retry_flow, when it succeeds; otherwise it only schedules itself again. *)
RetryFlow(r) ==
  /\ ~crashed /\ node[Flow(r)] = "QUEUED"
  /\ Fits(State, tokenOn[r], memory[r])
  /\ Becomes(RunFlow(State, r, tokenOn[r]))
  /\ UNCHANGED <<trace, promptOn, tokenOn>>

(* Every request of the trace is served.                                   *)
Finished == (\A r \in Requests : Completed(r)) /\ UNCHANGED cvars

ClusterNext ==
  \/ \E r \in Requests, d \in Placements : RequestArrival(r, d[1], d[2])
  \/ \E i \in Instances : IterationOver(i) \/ IterationCompletion(i)
  \/ \E r \in Requests : FlowCompletion(r) \/ RetryFlow(r)
  \/ Finished

ClusterSpec == ClusterInit /\ [][ClusterNext]_cvars

(* The simulator has an event that will change the state: an arrival, the  *)
(* completion of a run or of a flow, or a retry that succeeds.             *)
EventPending ==
  /\ ~crashed
  /\ \/ \E r \in Requests : promptOn[r] = NoInstance
     \/ \E i \in Instances : inst[i].batch # <<>>
     \/ \E r \in Requests :
          \/ node[Flow(r)] = "RUNNING"
          \/ node[Flow(r)] = "QUEUED" /\ Fits(State, tokenOn[r], memory[r])

(* The run loop handles events as long as there are any.  EventPending is  *)
(* ENABLED <<ClusterNext>>_cvars, so this is WF_cvars(ClusterNext), in a   *)
(* form that does not evaluate the handlers again.                         *)
ClusterFairness == []<>(~EventPending) \/ []<><<TRUE>>_cvars

FairClusterSpec == ClusterSpec /\ ClusterFairness
-----------------------------------------------------------------------------
(* The four queues, the batch and the node states tell one story: a task   *)
(* at an instance waits or runs, once; blocked_queue has the preempted     *)
(* tasks and pending_prompt_queue the prompts among those that wait; the   *)
(* request pool has the requests of all of them in order of arrival.       *)
QueuesAgree ==
  \A i \in Instances :
    LET q == inst[i]
        waiting == ToSet(q.pending)
        running == ToSet(q.batch)
    IN /\ \A seq \in {q.pending, q.prompts, q.blocked, q.batch} : IsInjective(seq)
       /\ waiting \cup running = TasksAt(i)
       /\ running = {t \in TasksAt(i) : node[t] = "RUNNING"}
       /\ ToSet(q.blocked) = {t \in TasksAt(i) : node[t] = "BLOCKED"}
       /\ ToSet(q.prompts) = {t \in waiting : IsPrompt(t)}
       /\ ToSet(q.pool) = {t.req : t \in TasksAt(i)}
       /\ \A j, k \in DOMAIN q.pool : j < k => q.pool[j] < q.pool[k]

(* A running batch respects its limits: size, one task of a request and,   *)
(* of a Splitwise instance, tokens unless it is a single task;             *)
(* batch_tokens is what it says.                                           *)
BatchWithinLimits ==
  \A i \in Instances :
    LET q == inst[i]
    IN q.batch # <<>> =>
         /\ Len(q.batch) <= MaxBatchSize
         /\ Cardinality({t.req : t \in ToSet(q.batch)}) = Len(q.batch)
         /\ i \notin Orca =>
              /\ q.batchTokens =
                   FoldLeft(LAMBDA a, t : a + TokensPerIteration(t), 0, q.batch)
              /\ q.batchTokens <= MaxBatchTokens \/ Len(q.batch) = 1

(* "Iteration-level FCFS scheduling": a task that joins the batch of an     *)
(* ORCA instance overtakes no older request, although token tasks arrive   *)
(* there in the order in which their transfers end.                        *)
OrcaIsFirstCome ==
  [][\A i \in Orca :
       \A t \in ToSet(inst'[i].batch) \ ToSet(inst[i].batch),
          r \in ToSet(inst'[i].pool) :
         r < t.req => \E u \in ToSet(inst'[i].batch) : u.req = r]_cvars

(* No run of iterations overshoots a task of its batch, however it is cut  *)
(* short by arrivals: prompts run for one iteration, token tasks for at    *)
(* most the tokens they still lack.                                        *)
RunsAreExact ==
  \A i \in Instances : \A t \in ToSet(inst[i].batch) :
    /\ inst[i].iterations >= 1
    /\ generated[t] + inst[i].iterations <= TokensToGenerate(t)

(* Admission, KV transfers and growth together never exceed the memory of  *)
(* an instance.                                                            *)
MemoryFits == \A i \in Instances : UsedMemory(State, i) <= MaxMemory

(* An idle instance where tasks wait has no memory for some of them: no    *)
(* order of arrivals, completions and transfers loses a wake-up and leaves *)
(* it idle with room for all that waits.                                   *)
IdleIsShort ==
  \A i \in Instances :
    inst[i].batch = <<>> /\ inst[i].pending # <<>> =>
      \E t \in ToSet(inst[i].pending) : ~Fits(State, i, TaskMemory(t))

(* "if instance is blocked due to memory constraints, do nothing": when    *)
(* requests wait at an idle instance, the oldest, with which a batch would *)
(* begin, does not fit.                                                    *)
OldestIsBlocked ==
  \A i \in Instances :
    LET q == inst[i]
    IN q.batch = <<>> /\ q.pool # <<>> =>
         ~Fits(State, i, TaskMemory(HeadTask(State, Head(q.pool))))

(* The setter of processed_tokens rejects more tokens than prompt_size +   *)
(* token_size.                                                             *)
ProcessedWithinLimit ==
  \A r \in Requests : generated[Token(r)] <= trace[r].token

(* completion_events, "needed to implement pause", has the event of the    *)
(* run whenever a run is to be paused.                                     *)
PauseFindsEvent == ~crashed

(* With memory for all of them, every request of the trace is served,      *)
(* whatever the preemptions and the order of transfers.                    *)
EveryRequestServed == <>(\A r \in Requests : Completed(r))

(* Each request sees its nodes run in order and its cache follow it.       *)
HeldBy(i, r) == IF i = NoInstance THEN 0 ELSE alloc[i][r]

Path(r) == INSTANCE RequestPath WITH
  size <- trace[r],
  placed <- IF promptOn[r] = NoInstance THEN "no"
            ELSE IF promptOn[r] = tokenOn[r] THEN "same" ELSE "apart",
  prompt <- node[Prompt(r)],
  flow <- node[Flow(r)],
  token <- node[Token(r)],
  generated <- generated[Token(r)],
  memory <- memory[r],
  heldSrc <- HeldBy(promptOn[r], r),
  heldDest <- IF promptOn[r] = tokenOn[r] THEN 0 ELSE HeldBy(tokenOn[r], r)

FollowsRequestPath ==
  /\ \A r \in Requests : Path(r)!Init
  /\ [][\A r \in Requests : [Path(r)!Next]_(Path(r)!pvars)]_cvars
=============================================================================
