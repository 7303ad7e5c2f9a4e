------------------------------- MODULE StartUp -------------------------------
(***************************************************************************)
(* One simulation, a process running run.py: it builds the cluster and the *)
(* application from its configuration (run.py, initialize.py), loads the   *)
(* trace, spins up the instances of the start state (start_state.py,       *)
(* allocator.py), runs, and saves its results (simulator.py).              *)
(*                                                                         *)
(* Any step may raise, which ends the process without the files it has not *)
(* yet written.  Of the run itself, the subject of Serving and Cluster,    *)
(* only the calls of the performance model and the number of requests      *)
(* completed matter here.                                                  *)
(***************************************************************************)
EXTENDS PerformanceModel, Sequences, FiniteSets, SequencesExt

CONSTANTS Skus,         \* hardware_repo: sku name -> processors of such a server
          Models,       \* model_repo: the names
          SchedulerConfigs  \* orchestrator_repo: name -> the configuration of a scheduler

VARIABLES phase,        \* the step that comes next, or how the process ended
          config,       \* the configuration of the process
          requests,     \* arrival times of the trace
          todo,         \* instances of the start state not spun up yet
          instances,    \* application.instances
          prompts, tokens,  \* prompt_instances and token_instances
          share,        \* processor -> instances its weights are divided over
          completed,    \* len(scheduler.completed_queue)
          written       \* result files this process has written

procvars == <<phase, config, requests, todo, instances, prompts, tokens, share,
              completed, written>>

Alive == phase \notin {"idle", "done", "failed", "killed"}

NoTrace == <<-1>>       \* there is no such file

(* Cluster.from_config: the servers, sku by sku.                           *)
Servers(c) ==
  FlattenSeq([k \in DOMAIN c.servers |->
                [n \in 1 .. c.servers[k].count |-> c.servers[k].sku]])

Processors(c) ==
  UNION {{<<s, j>> : j \in 1 .. Skus[Servers(c)[s]]} : s \in DOMAIN Servers(c)}
-----------------------------------------------------------------------------
(* The start state, as the instances to spin up in order.                  *)

Planned(tag, sku, processors) ==
  [tag |-> tag, name |-> sku, processors |-> processors]

Unsupported == Planned("unsupported", "", {})

Whole(c, s) ==
  Planned("none", Servers(c)[s], {<<s, j>> : j \in 1 .. Skus[Servers(c)[s]]})

(* Faulty: a slice ends with the first processor of the next one.          *)
SlicesTooLong(c, s, tag) ==
  LET n == Skus[Servers(c)[s]]
  IN  [k \in 1 .. (n + c.tp - 1) \div c.tp |->
         Planned(tag, Servers(c)[s],
                 {<<s, j>> : j \in {i \in 1 .. n : (k - 1) * c.tp < i /\ i <= k * c.tp + 1}})]

(* server.processors[proc_id : proc_id + tensor_parallelism]: the last     *)
(* slice is shorter if the server does not divide.                         *)
Slices(c, s, tag) ==
  LET n == Skus[Servers(c)[s]]
  IN  [k \in 1 .. (n + c.tp - 1) \div c.tp |->
         Planned(tag, Servers(c)[s],
                 {<<s, j>> : j \in {i \in 1 .. n : (k - 1) * c.tp < i /\ i <= k * c.tp}})]

(* all_servers[:n_prompts] and all_servers[n_prompts:n_prompts+n_tokens]   *)
Homogeneous(c) ==
  FlattenSeq([s \in 1 .. Len(Servers(c)) |->
    CASE s <= c.prompts                             -> Slices(c, s, "prompt")
      [] s > c.prompts /\ s <= c.prompts + c.tokens -> Slices(c, s, "token")
      [] OTHER                                      -> <<>>])

Heterogeneous(c) ==
  FlattenSeq([s \in 1 .. Len(Servers(c)) |->
    CASE Servers(c)[s] \in c.promptSkus                    -> Slices(c, s, "prompt")
      [] Servers(c)[s] \in c.tokenSkus \ c.promptSkus      -> Slices(c, s, "token")
      [] OTHER                                             -> <<Unsupported>>])

StartState(c) ==
  CASE c.state = "unallocated"   -> <<>>
    [] c.state = "uniform"       -> [s \in 1 .. Len(Servers(c)) |-> Whole(c, s)]
    [] c.state = "homogeneous"   -> Homogeneous(c)
    [] c.state = "heterogeneous" -> Heterogeneous(c)
    [] OTHER                     -> <<Unsupported>>
-----------------------------------------------------------------------------
Scheduler == SchedulerConfigs[config.scheduler]

(* schedule() raises "No instances available".                             *)
NoInstances ==
  IF Scheduler.kind = "plain" THEN instances = <<>>
                                ELSE prompts = {} \/ tokens = {}

(* ORCA and Splitwise ask for the duration of an iteration, which only the *)
(* database predicts.                                                      *)
IterationPredicted == config.performance = "database"

(* The default instance asks for that of a task.  The database looks it up *)
(* by, among others, the batch itself, a column it does not have.          *)
TaskPredicted == config.performance = "constant"

Predictable ==
  IF config.itype = "default" THEN TaskPredicted ELSE IterationPredicted

NotLaunched ==
  /\ phase = "idle"
  /\ config = <<>> /\ requests = <<>> /\ todo = <<>> /\ instances = <<>>
  /\ prompts = {} /\ tokens = {} /\ share = <<>>
  /\ completed = 0 /\ written = {}
  /\ PerfInit

(* A new process, with nothing left of the one before.                     *)
Launch(c) ==
  /\ ~ Alive
  /\ phase' = "build"
  /\ config' = c
  /\ requests' = <<>> /\ todo' = <<>> /\ instances' = <<>>
  /\ prompts' = {} /\ tokens' = {} /\ share' = <<>>
  /\ completed' = 0 /\ written' = {}
  /\ promptCache' = EmptyCache /\ tokenCache' = EmptyCache /\ answer' = NoAnswer

Raise ==
  /\ phase' = "failed"
  /\ UNCHANGED <<config, requests, todo, instances, prompts, tokens, share,
                 completed, written, perfvars>>

(* Only for the servers there are, a sku is looked up.                     *)
FoundSkus ==
  \A k \in DOMAIN config.servers :
    config.servers[k].count > 0 => config.servers[k].sku \in DOMAIN Skus

FoundModel == config.model \in Models

FoundScheduler == config.scheduler \in DOMAIN SchedulerConfigs

FoundTrace(trace) == trace # NoTrace

(* The names that are looked up in the repositories and on the disk.       *)
Found(trace) == FoundSkus /\ FoundModel /\ FoundScheduler /\ FoundTrace(trace)

(* The repositories, the cluster, the application with its scheduler, and  *)
(* the trace.                                                              *)
Build(trace) ==
  /\ phase = "build"
  /\ IF ~ Found(trace) THEN Raise ELSE
     /\ phase' = "load"
     /\ requests' = trace
     /\ share' = [p \in Processors(config) |-> 0]
     /\ UNCHANGED <<config, todo, instances, prompts, tokens, completed, written,
                    perfvars>>

(* TraceSimulator.load_trace: a request of time 0 is routed at once, when  *)
(* the schedulers have no instances yet.                                   *)
LoadTrace ==
  /\ phase = "load"
  /\ IF \E k \in DOMAIN requests : requests[k] = 0 THEN Raise ELSE
     /\ phase' = "allocate"
     /\ todo' = StartState(config)
     /\ UNCHANGED <<config, requests, instances, prompts, tokens, share, completed,
                    written, perfvars>>

RoleByName(name) ==
  CASE name \in Scheduler.prompts                     -> "prompt"
    [] name \in Scheduler.tokens \ Scheduler.prompts  -> "token"
    [] OTHER                                          -> "unsupported"

(* Where KVScheduler.add_instance puts an instance: by its tag or, for a   *)
(* list of processor names, by its name; "unsupported" raises.             *)
RoleOf(planned) ==
  LET plain  == Scheduler.kind = "plain"
      tagged == planned.tag \in {"prompt", "token"}
  IN  CASE ~ plain /\ tagged                      -> planned.tag
        [] ~ plain /\ ~ tagged /\ Scheduler.named -> RoleByName(planned.name)
        [] OTHER                                  -> "none"

AddInstance(planned, role) ==
  LET id == Len(instances) + 1
  IN  /\ instances' = Append(instances, planned)
      /\ prompts' = IF role = "prompt" THEN prompts \cup {id} ELSE prompts
      /\ tokens' = IF role = "token" THEN tokens \cup {id} ELSE tokens

(* Setting the memory of a new instance divides it over its processors.    *)
SharedOver(processors) ==
  [p \in DOMAIN share |->
     IF p \in processors THEN Cardinality(processors) ELSE share[p]]

(* start_spin_up_instance with pre_start: the new instance holds its       *)
(* weights and is added to the scheduler.                                  *)
SpinUpInstance ==
  /\ phase = "allocate" /\ todo # <<>>
  /\ LET planned == Head(todo)
         role    == RoleOf(planned)
     IN  IF planned = Unsupported \/ role = "unsupported" THEN Raise ELSE
         /\ AddInstance(planned, role)
         /\ share' = SharedOver(planned.processors)
         /\ todo' = Tail(todo)
         /\ UNCHANGED <<phase, config, requests, completed, written, perfvars>>

StartRun ==
  /\ phase = "allocate" /\ todo = <<>>
  /\ phase' = "run"
  /\ UNCHANGED <<config, requests, todo, instances, prompts, tokens, share,
                 completed, written, perfvars>>

(* The first request arrives and there is no instance for it.              *)
ScheduleRaises ==
  /\ phase = "run" /\ requests # <<>> /\ NoInstances
  /\ Raise

(* An instance asks for the duration of its next iteration.                *)
Iterate(i, batch) ==
  /\ phase = "run" /\ requests # <<>> /\ ~ NoInstances
  /\ batch \in config.batches
  /\ config.itype # "default" \/ ~ Predictable
  /\ LET predictor == <<instances[i].name, config.tp>>
     IN  IF ~ Predictable \/ predictor \notin Predictors THEN Raise ELSE
         /\ IterationDuration(predictor, batch)
         /\ phase' = IF answer'.time > 0 THEN "run" ELSE "failed"
         /\ UNCHANGED <<config, requests, todo, instances, prompts, tokens, share,
                        completed, written>>

(* The default instance runs a task whole.  At the end of the first one    *)
(* PromptTask.complete asserts that the prompt has been processed, which   *)
(* only iterations record.                                                 *)
FinishTask ==
  /\ phase = "run" /\ requests # <<>> /\ ~ NoInstances
  /\ config.itype = "default" /\ Predictable
  /\ Raise

HasIterated == answer # NoAnswer \/ (config.itype = "default" /\ Predictable)

(* The event queue is empty or the end time has come.                      *)
EndRun(n) ==
  /\ phase = "run"
  /\ n \in 0 .. Len(requests)
  /\ requests # <<>> => HasIterated /\ ~ NoInstances
  /\ config.itype = "default" => n = 0
  /\ config.early \/ n = Len(requests)
  /\ completed' = n
  /\ phase' = "results"
  /\ UNCHANGED <<config, requests, todo, instances, prompts, tokens, share, written,
                 perfvars>>

Save(file, next) ==
  /\ written' = written \cup {file}
  /\ phase' = next
  /\ UNCHANGED <<config, requests, todo, instances, prompts, tokens, share,
                 completed, perfvars>>

(* Allocator.get_results divides by the time each instance was up.         *)
NoTimePassed == requests = <<>> /\ instances # <<>>

(* Application.get_results: the utilisations of the instances, then        *)
(* request_nodes.csv.                                                      *)
SaveNodes ==
  /\ phase = "results"
  /\ IF NoTimePassed THEN Raise ELSE Save("nodes", "summary")

(* get_statistics: an empty list has no minimum.                           *)
NoStatistics == completed = 0

(* Faulty: opens summary.csv before the statistics are computed.           *)
SaveSummaryFirst ==
  phase = "summary" /\ Save("summary", IF NoStatistics THEN "failed" ELSE "detailed")

SaveSummary ==
  /\ phase = "summary"
  /\ IF NoStatistics THEN Raise ELSE Save("summary", "detailed")

SaveDetailed == phase = "detailed" /\ Save("detailed", "allocations")

SaveAllocations == phase = "allocations" /\ Save("allocations", "done")

(* The process is killed from outside, whatever it is doing.               *)
Kill ==
  /\ Alive
  /\ phase' = "killed"
  /\ UNCHANGED <<config, requests, todo, instances, prompts, tokens, share,
                 completed, written, perfvars>>
-----------------------------------------------------------------------------
(* No processor is shared by two instances and each holds its part of the  *)
(* weights of its own, also where the tensor parallelism does not divide   *)
(* the server: Processor.memory_used is overwritten, not added to.         *)
ProcessorsUnshared ==
  \A i \in DOMAIN instances :
    LET own == instances[i].processors
    IN  /\ own # {}
        /\ \A p \in own : share[p] = Cardinality(own)
        /\ \A j \in DOMAIN instances \ {i} : own \cap instances[j].processors = {}
=============================================================================
