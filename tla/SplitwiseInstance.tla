-------------------------- MODULE SplitwiseInstance --------------------------
(***************************************************************************)
(* SplitwiseInstance and its base ORCAInstance (instance.py): scheduling   *)
(* of prompt and token tasks in batches, iteration by iteration.  ORCA     *)
(* takes requests first come first served; Splitwise prefers prompts and   *)
(* preempts token tasks.  All handlers but the ones that differ are shared.*)
(*                                                                         *)
(* A handler of the simulator runs to its end before another event, and    *)
(* it may reach several instances.  A handler is therefore an operator     *)
(* from a state of the cluster to the next; the state s is a record with   *)
(*   s.inst[i]       the queues and the batch of instance i,               *)
(*   s.node[n]       the NodeState of a task or flow,                      *)
(*   s.generated[t]  task.generated_tokens,                                *)
(*   s.preempted[t]  task.num_preemptions,                                 *)
(*   s.alloc[i][r]   instance.memory_allocs[request],                      *)
(*   s.memory[r]     request.memory,                                       *)
(*   s.free          instances reported free by this handler,              *)
(*   s.crashed       whether a handler raised an exception.                *)
(* Cluster.tla has these fields as variables.                              *)
(*                                                                         *)
(* Time is counted in iterations of the running batch: inst[i].elapsed is  *)
(* (clock() - iteration_start) // iteration_duration.  A batch is running, *)
(* with a completion event in the simulator, iff it is not empty.          *)
(*                                                                         *)
(* Requests are numbers in the order of their arrival, which stand for     *)
(* their (distinct) arrival timestamps.                                    *)
(***************************************************************************)
EXTENDS Tasks, SequencesExt

CONSTANTS Instances,
          Orca,             \* those of type ORCA; the others are Splitwise
          ModelSize,        \* memory taken by the weights
          MaxMemory,        \* memory of the processors of an instance
          MaxBatchSize,
          MaxBatchTokens,
          MaxPreemptions

ASSUME InstanceAssumption ==
  /\ Requests \subseteq Nat
  /\ Orca \subseteq Instances
  /\ ModelSize \in Nat /\ MaxMemory \in Nat
  /\ MaxBatchSize \in Nat \ {0} /\ MaxBatchTokens \in Nat
  /\ MaxPreemptions \in Nat \ {0}

IdleInstance ==
  [pending |-> <<>>,       \* pending_queue
   prompts |-> <<>>,       \* pending_prompt_queue
   blocked |-> <<>>,       \* blocked_queue
   pool    |-> <<>>,       \* pending_requests
   batch   |-> <<>>,
   batchTokens |-> 0,
   iterations  |-> 0,      \* num_contiguous_iterations
   elapsed     |-> 0,      \* iterations of these that are over
   pausing     |-> FALSE,  \* pause_next_iteration
   handle      |-> FALSE]  \* completion_events["iteration"] is an event

(* instance.memory: the model and what memory_allocs records per request.  *)
UsedMemory(s, i) == ModelSize + FoldFunction(+, 0, s.alloc[i])

Fits(s, i, amount) == UsedMemory(s, i) + amount <= MaxMemory

(* request_tasks[request][0]: the tasks of a request reach an instance in  *)
(* the order of the DAG.                                                   *)
HeadTask(s, r) ==
  IF s.node[Prompt(r)] \in {"QUEUED", "RUNNING", "BLOCKED"} THEN Prompt(r) ELSE Token(r)

CountPrompts(batch) == Cardinality({k \in DOMAIN batch : IsPrompt(batch[k])})

RunsPrompt(q) == CountPrompts(q.batch) > 0
-----------------------------------------------------------------------------
(***************************************************************************)
(* bisect.insort: binary search for the position right of the last element *)
(* that is not greater, by keys read at the time of the insertion.  The    *)
(* keys of queued tasks change, so the queue need not be sorted.  As many  *)
(* halvings as the queue is long are enough: the last ones change nothing. *)
(***************************************************************************)
Halve(greater, b) ==
  LET mid == (b.lo + b.hi) \div 2
  IN IF b.lo >= b.hi THEN b
     ELSE IF mid + 1 \in greater THEN [b EXCEPT !.hi = mid]
     ELSE [b EXCEPT !.lo = mid + 1]

Bisect(seq, greater) ==
  FoldLeft(LAMBDA b, x : Halve(greater, b), [lo |-> 0, hi |-> Len(seq)], seq).lo

InsertByKey(seq, x, Less(_, _)) ==
  InsertAt(seq, Bisect(seq, {k \in DOMAIN seq : Less(x, seq[k])}) + 1, x)

(* add_pending_task: order by preemptions, then by arrival.  ORCA appends. *)
AddPending(s, i, t) ==
  LET before(a, b) == \/ s.preempted[a] < s.preempted[b]
                      \/ s.preempted[a] = s.preempted[b] /\ a.req < b.req
  IN [s EXCEPT
        !.inst[i].pending = IF i \in Orca THEN Append(@, t)
                            ELSE InsertByKey(@, t, before),
        !.inst[i].prompts = IF IsPrompt(t) THEN Append(@, t) ELSE @]

(* Faulty: a resumed task is left in blocked_queue.                        *)
RemovePendingKeepsBlocked(s, i, t) ==
  [s EXCEPT !.inst[i].pending = RemoveFirst(@, t),
            !.inst[i].prompts = RemoveFirst(@, t)]

RemovePending(s, i, t) ==
  [s EXCEPT !.inst[i].pending = RemoveFirst(@, t),
            !.inst[i].blocked = RemoveFirst(@, t),
            !.inst[i].prompts = RemoveFirst(@, t)]

(* Faulty: in the order of their arrival at this instance.                 *)
AddToPoolLast(s, i, t) ==
  [s EXCEPT !.inst[i].pool = IF Contains(@, t.req) THEN @ ELSE Append(@, t.req)]

(* add_to_pool: order by the arrival of the request at the router.         *)
AddToPool(s, i, t) ==
  IF Contains(s.inst[i].pool, t.req) THEN s
  ELSE LET before(a, b) == a < b
       IN [s EXCEPT !.inst[i].pool = InsertByKey(@, t.req, before)]

(* Faulty: the request leaves with its prompt, its token task waiting.     *)
RemoveFromPoolEarly(s, i, t) == [s EXCEPT !.inst[i].pool = RemoveFirst(@, t.req)]

(* remove_from_pool: the request leaves when no task of it is left.        *)
RemoveFromPool(s, i, t) ==
  IF IsPrompt(t) /\ s.node[Token(t.req)] = "QUEUED" THEN s   \* a chain
  ELSE [s EXCEPT !.inst[i].pool = RemoveFirst(@, t.req)]
-----------------------------------------------------------------------------
(***************************************************************************)
(* select_batch: five scans over candidate tasks, each of which may end    *)
(* early.  A scan carries the batch chosen so far, its tokens, the memory  *)
(* in use and whether the scan is still open.                              *)
(***************************************************************************)
Take(c, t, amount) ==
  [c EXCEPT !.batch = Append(@, t),
            !.tokens = @ + TokensPerIteration(t),
            !.used = @ + amount]

Stop(c) == [c EXCEPT !.open = FALSE]

SizeExceeded(c) == Len(c.batch) > MaxBatchSize   \* faulty: one too many
SizeReached(c) == Len(c.batch) = MaxBatchSize

(* The first task of a batch may exceed the token limit on its own.        *)
TokensReached(c, t) ==
  c.batch # <<>> /\ c.tokens + TokensPerIteration(t) > MaxBatchTokens

HasRequest(c, r) == \E k \in DOMAIN c.batch : c.batch[k].req = r

(* A resident task has its memory already.  A task without room either is *)
(* skipped or ends the scan.                                               *)
Consider(c, t, resident, noRoom) ==
  IF HasRequest(c, t.req) THEN c
  ELSE IF resident THEN Take(c, t, 0)
  ELSE IF c.used + TaskMemory(t) <= MaxMemory THEN Take(c, t, TaskMemory(t))
  ELSE noRoom

Scan(c, candidates, Visit(_, _)) ==
  FoldLeft(LAMBDA a, t : IF a.open THEN Visit(a, t) ELSE a,
           [c EXCEPT !.open = TRUE], candidates)

VisitOverPreempted(s, a, t) ==
  IF s.preempted[t] < MaxPreemptions \/ SizeReached(a) \/ TokensReached(a, t)
  THEN Stop(a)
  ELSE Consider(a, t, s.node[t] = "BLOCKED", a)

VisitPrompt(a, t) ==
  IF SizeReached(a) \/ TokensReached(a, t) THEN Stop(a)
  ELSE Consider(a, t, FALSE, Stop(a))

VisitResident(a, t) ==
  IF SizeReached(a) \/ TokensReached(a, t) THEN Stop(a)
  ELSE Consider(a, t, TRUE, a)

VisitNext(s, a, t) ==
  IF SizeReached(a) THEN Stop(a)
  ELSE IF HasRequest(a, t.req) THEN a
  ELSE IF TokensReached(a, t) THEN Stop(a)
  ELSE Consider(a, t, s.node[t] = "BLOCKED", Stop(a))

VisitFirstCome(s, a, t) ==
  IF SizeReached(a) THEN Stop(a)
  ELSE Consider(a, t, s.node[t] = "BLOCKED", Stop(a))

NextTasks(s, i) ==
  [k \in DOMAIN s.inst[i].pool |-> HeadTask(s, s.inst[i].pool[k])]

ScanOverPreempted(s, i, c) ==
  Scan(c, s.inst[i].pending, LAMBDA a, t : VisitOverPreempted(s, a, t))

ScanPrompts(s, i, c) == Scan(c, s.inst[i].prompts, VisitPrompt)

ScanResident(c, tasks) == Scan(c, tasks, VisitResident)

ScanPool(s, i, c) == Scan(c, NextTasks(s, i), LAMBDA a, t : VisitNext(s, a, t))

(* Tasks preempted too often, prompts, blocked tasks, the tasks that run,   *)
(* and then the next task of every request in order of arrival.            *)
NoBatch(s, i) ==
  [batch |-> <<>>, tokens |-> 0, used |-> UsedMemory(s, i), open |-> TRUE]

SelectByPriority(s, i) ==
  ScanPool(s, i,
    ScanResident(
      ScanResident(
        ScanPrompts(s, i, ScanOverPreempted(s, i, NoBatch(s, i))),
        s.inst[i].blocked),
      s.inst[i].batch))

(* ORCA keeps its batch and adds to it in order of arrival.  It does not   *)
(* count tokens: batch_tokens stays zero.                                  *)
SelectFirstCome(s, i) ==
  [Scan([NoBatch(s, i) EXCEPT !.batch = s.inst[i].batch],
        NextTasks(s, i), LAMBDA a, t : VisitFirstCome(s, a, t))
     EXCEPT !.tokens = 0]

SelectBatch(s, i) ==
  IF i \in Orca THEN SelectFirstCome(s, i) ELSE SelectByPriority(s, i)
-----------------------------------------------------------------------------
AddToBatch(s, i, t) == [s EXCEPT !.inst[i].batch = Append(@, t)]

RemoveFromBatch(s, i, t) == [s EXCEPT !.inst[i].batch = RemoveFirst(@, t)]

(* preempt_task: the task keeps its memory and waits in two queues.        *)
PreemptTask(s, i, t) ==
  [AddPending(RemoveFromBatch([s EXCEPT !.node[t] = "BLOCKED"], i, t), i, t)
     EXCEPT !.inst[i].blocked = Append(@, t)]

AdmitTask(s, i, t) == AddToBatch(RemovePending(s, i, t), i, t)

(* Task.run and run_after_preempt, of every task of the batch: a task that *)
(* runs for the first time allocates its memory.                           *)
FirstRuns(s, i) == {t \in ToSet(s.inst[i].batch) : s.node[t] = "QUEUED"}

MemoryTaken(s, i, r) ==
  (IF Prompt(r) \in FirstRuns(s, i) THEN PromptMemory(r) ELSE 0)
    + (IF Token(r) \in FirstRuns(s, i) THEN TokenMemory(r) ELSE 0)

RunTasks(s, i) ==
  [s EXCEPT !.node = [n \in DOMAIN @ |->
                        IF n \in ToSet(s.inst[i].batch) THEN "RUNNING" ELSE @[n]],
            !.alloc[i] = [r \in DOMAIN @ |-> @[r] + MemoryTaken(s, i, r)],
            !.memory = [r \in DOMAIN @ |-> @[r] + MemoryTaken(s, i, r)]]

(* Every request of the pool whose next task is not in the batch counts a  *)
(* preemption, preempted or not.                                           *)
CountPreemptions(s, i) ==
  LET q == s.inst[i]
      passedOver == {HeadTask(s, q.pool[k]) : k \in DOMAIN q.pool} \ ToSet(q.batch)
  IN [s EXCEPT !.preempted =
        [t \in DOMAIN @ |-> @[t] + (IF t \in passedOver THEN 1 ELSE 0)]]

(* get_num_contiguous_iterations, of a batch that is not empty.            *)
ContiguousIterations(s, batch) ==
  IF CountPrompts(batch) > 0 THEN 1
  ELSE LET left == {TokensToGenerate(t) - s.generated[t] : t \in ToSet(batch)}
       IN CHOOSE n \in left : \A m \in left : n <= m

(***************************************************************************)
(* A completed prompt task is followed by the KV-cache flow (flow_arrival, *)
(* run_flow), which takes the memory of the request at the destination if  *)
(* there is room and is retried otherwise.                                 *)
(***************************************************************************)
RunFlow(s, r, dest) ==
  [s EXCEPT !.node[Flow(r)] = "RUNNING",
            !.alloc[dest][r] = @ + s.memory[r]]

FlowArrivalUnchecked(s, r, dest) == RunFlow(s, r, dest)   \* faulty: "OOM"

FlowArrival(s, r, dest) ==
  IF Fits(s, dest, s.memory[r]) THEN RunFlow(s, r, dest)
  ELSE [s EXCEPT !.node[Flow(r)] = "QUEUED"]

(* task_completion and, through Executor.finish_task, what follows it.     *)
(* The token task of a chain has been submitted with its prompt.           *)
FreeMemory(s, i, t) ==
  IF IsPrompt(t) THEN s
  ELSE [s EXCEPT !.alloc[i][t.req] = @ - s.memory[t.req],
                 !.memory[t.req] = 0]

FinishTask(s, i, t, dest) ==
  IF IsPrompt(t) /\ dest[t.req] # i THEN FlowArrival(s, t.req, dest[t.req]) ELSE s

TaskCompletion(s, i, t, dest) ==
  FinishTask(
    RemoveFromPool(
      RemoveFromBatch(FreeMemory([s EXCEPT !.node[t] = "COMPLETED"], i, t), i, t),
      i, t),
    i, t, dest)

(* The tasks of the old batch that are not in the new one are preempted,   *)
(* the others of the new one are admitted.                                 *)
PreemptOthers(s, i, chosen) ==
  FoldLeft(LAMBDA a, t : IF Contains(chosen, t) THEN a ELSE PreemptTask(a, i, t),
           s, s.inst[i].batch)

AdmitOthers(s, i, chosen, old) ==
  FoldLeft(LAMBDA a, t : IF Contains(old, t) THEN a ELSE AdmitTask(a, i, t), s, chosen)

ChangeBatch(s, i, c) ==
  AdmitOthers(
    PreemptOthers([s EXCEPT !.inst[i].batchTokens = c.tokens], i, c.batch),
    i, c.batch, s.inst[i].batch)

Generate(s, i) ==
  [s EXCEPT !.generated =
     [t \in DOMAIN @ |->
        @[t] + (IF Contains(s.inst[i].batch, t) THEN s.inst[i].iterations ELSE 0)]]

CompleteTasks(s, i, dest) ==
  FoldLeft(LAMBDA a, t : IF s.generated[t] = TokensToGenerate(t)
                         THEN TaskCompletion(a, i, t, dest) ELSE a,
           s, s.inst[i].batch)

(* complete_iteration, up to the next iteration.                           *)
EndRun(s, i, dest) ==
  [CompleteTasks(Generate(s, i), i, dest) EXCEPT !.inst[i].pausing = FALSE]

(* start_iteration, without the completion event.                          *)
RunBatch(s, i) ==
  IF s.inst[i].batch = <<>>
  THEN [s EXCEPT !.free = IF s.inst[i].pool = <<>> THEN @ \cup {i} ELSE @]
  ELSE [RunTasks(s, i)
          EXCEPT !.inst[i].iterations = ContiguousIterations(s, s.inst[i].batch),
                 !.inst[i].elapsed = 0]

BeginRun(s, i) ==
  RunBatch(CountPreemptions(ChangeBatch(s, i, SelectBatch(s, i)), i), i)

(***************************************************************************)
(* start_iteration and complete_iteration.  The completion of a run of     *)
(* zero iterations has delay zero: schedule() runs it inside               *)
(* start_iteration and returns no event, and that None is then stored as   *)
(* the completion event of the run which the nested call has started.      *)
(* Each such run completes the token task of a request, so there are no    *)
(* more of them than requests.                                             *)
(***************************************************************************)
ZeroRun(s, i) == s.inst[i].batch # <<>> /\ s.inst[i].iterations = 0

NestedRun(s, i, dest) ==
  IF ZeroRun(s, i) THEN BeginRun(EndRun(s, i, dest), i) ELSE s

NestedRuns(s, i, dest) ==
  FoldLeft(LAMBDA a, k : NestedRun(a, i, dest), s,
           [k \in 1 .. Cardinality(Requests) |-> k])

ScheduleCompletion(s, i, dest) ==
  IF s.inst[i].batch = <<>> THEN s
  ELSE [NestedRuns(s, i, dest) EXCEPT !.inst[i].handle = ~ZeroRun(s, i)]

StartIteration(s, i, dest) == ScheduleCompletion(BeginRun(s, i), i, dest)

CompleteIteration(s, i, dest) == StartIteration(EndRun(s, i, dest), i, dest)

(* Faulty: one iteration too many.                                         *)
PauseIterationLate(s, i) ==
  LET q == s.inst[i]
  IN IF q.pausing \/ RunsPrompt(q) THEN s
     ELSE [s EXCEPT !.inst[i].pausing = TRUE,
                    !.inst[i].iterations = q.elapsed + 2]

(* pause_iteration: the run ends with the iteration that is under way.     *)
PauseIteration(s, i) ==
  LET q == s.inst[i]
  IN IF q.pausing \/ RunsPrompt(q) THEN s
     ELSE IF ~q.handle THEN [s EXCEPT !.crashed = TRUE]
     ELSE [s EXCEPT !.inst[i].pausing = TRUE,
                    !.inst[i].iterations = q.elapsed + 1]
-----------------------------------------------------------------------------
(* task_arrival: start at once, or end the run early for the new task, or  *)
(* end it early so that a prompt can preempt token tasks.                  *)
MayJoin(i, q, t) ==
  /\ Len(q.batch) < MaxBatchSize
  /\ i \in Orca \/ q.batchTokens + TokensPerIteration(t) <= MaxBatchTokens

MayPreempt(i, q, t) ==
  /\ i \notin Orca
  /\ IsPrompt(t)
  /\ CountPrompts(q.batch) < Len(q.batch)
  /\ q.batchTokens - (Len(q.batch) - CountPrompts(q.batch))
       + TokensPerIteration(t) <= MaxBatchTokens

Notice(s, i, t, dest) ==
  LET q == s.inst[i]
  IN IF q.batch = <<>>
     THEN IF Fits(s, i, TaskMemory(t)) THEN StartIteration(s, i, dest) ELSE s
     ELSE IF MayJoin(i, q, t) \/ MayPreempt(i, q, t) THEN PauseIteration(s, i) ELSE s

TaskArrival(s, i, t, dest) ==
  Notice(AddPending(AddToPool([s EXCEPT !.node[t] = "QUEUED"], i, t), i, t), i, t, dest)

(* Faulty: the handler of the base class, which does nothing.              *)
NotifyFlowCompletionIgnored(s, i, dest) == s

(* notify_flow_completion, on the source of the flow.                      *)
NotifyFlowCompletion(s, i, dest) ==
  LET q == s.inst[i]
  IN IF q.pending = <<>> THEN s
     ELSE IF q.batch = <<>>
     THEN IF Fits(s, i, TaskMemory(Head(q.pending)))
          THEN StartIteration(s, i, dest) ELSE s
     ELSE IF /\ Len(q.batch) < MaxBatchSize
             /\ i \in Orca \/ q.batchTokens < MaxBatchTokens
     THEN PauseIteration(s, i)
     ELSE s
=============================================================================
