------------------------------- MODULE Serving -------------------------------
(***************************************************************************)
(* The path of requests through the tiers: Router (router.py), Scheduler   *)
(* (scheduler.py) and the Executor of each request (executor.py), with the *)
(* configured overheads between them.                                      *)
(*                                                                         *)
(* A call with an overhead of zero runs at once, within the event that     *)
(* makes it; with another it is an event of its own (simulator.py).  The   *)
(* configuration says which overheads are not zero.  Events are compared   *)
(* by time only, and heapq keeps no order among those of one time: calls   *)
(* that wait may be let through in any order.  All list.remove and assert  *)
(* statements on the way are checks that may raise.                        *)
(*                                                                         *)
(* Instances and links are reduced to what the executor sees of them: a    *)
(* node runs some time after it arrives, of the tasks of one request the   *)
(* first to arrive runs first, and completes later.                        *)
(***************************************************************************)
EXTENDS Naturals, FiniteSets, SequencesExt

CONSTANT Requests

Overheads == {"routing_delay", "submit_task", "submit_flow", "finish_request"}

Kinds == {"prompt", "flow", "token"}
Node(kind, r) == [kind |-> kind, req |-> r]
Nodes == [kind : Kinds, req : Requests]

VARIABLES delayed,     \* the overheads that are not zero
          state,       \* RequestState
          placed,      \* "no", or "same" or "apart": instances of the tasks
          node,        \* NodeState
          present,     \* request_tasks: tasks of a request in order of arrival
          router,      \* the three queues of the router,
          scheduler,   \* and those of the scheduler
          submitted,   \* the executor's list
          events,      \* calls that wait for their overhead
          raised       \* whether a handler raised an exception

servingVars == <<delayed, state, placed, node, present, router, scheduler, submitted,
                 events, raised>>

State == [state |-> state, placed |-> placed, node |-> node,
          present |-> present, router |-> router, scheduler |-> scheduler,
          submitted |-> submitted, events |-> events, raised |-> raised]

Becomes(s) ==
  /\ state' = s.state
  /\ placed' = s.placed
  /\ node' = s.node
  /\ present' = s.present
  /\ router' = s.router
  /\ scheduler' = s.scheduler
  /\ submitted' = s.submitted
  /\ events' = s.events
  /\ raised' = s.raised
  /\ UNCHANGED delayed
-----------------------------------------------------------------------------
(* assert: the rest of the program does not run after an exception.        *)
Check(s, condition) == [s EXCEPT !.raised = @ \/ ~condition]

(* Request and Node move between states by asserted transitions.           *)
Transition(s, r, from, to) ==
  [Check(s, s.state[r] = from) EXCEPT !.state[r] = to]

NodeTransition(s, n, from, to) ==
  [Check(s, s.node[n] = from) EXCEPT !.node[n] = to]

(* queue.remove raises when there is nothing to remove.                    *)
Moved(queues, r, from, to) ==
  [q \in DOMAIN queues |-> IF q = from THEN queues[q] \ {r}
                          ELSE IF q = to THEN queues[q] \cup {r} ELSE queues[q]]

RouterMove(s, r, from, to) ==
  [Check(s, r \in s.router[from]) EXCEPT !.router = Moved(@, r, from, to)]

SchedulerMove(s, r, from, to) ==
  [Check(s, r \in s.scheduler[from]) EXCEPT !.scheduler = Moved(@, r, from, to)]

Later(s, call, n) == [s EXCEPT !.events = @ \cup {[call |-> call, on |-> n]}]
-----------------------------------------------------------------------------
(* Instance.task_arrival and Link.flow_arrival, as the executor sees them. *)
TaskArrival(s, t) ==
  [NodeTransition(s, t, "NONE", "QUEUED") EXCEPT
     !.present[t.req] = Append(@, t.kind)]

FlowArrival(s, f) == NodeTransition(s, f, "NONE", "QUEUED")

SubmitOne(s, t) ==
  LET s1 == [s EXCEPT !.submitted[t.req] = @ \cup {t.kind}]
  IN IF "submit_task" \in delayed THEN Later(s1, "task_arrival", t)
     ELSE TaskArrival(s1, t)

(* Faulty: the chain is submitted even where a flow comes between.         *)
SubmitTaskAlways(s, t) ==
  LET s1 == SubmitOne(s, t)
  IN IF t.kind = "prompt" THEN SubmitOne(s1, Node("token", t.req)) ELSE s1

(* submit_task, then submit_chain: the token task follows at once when it  *)
(* is in the chain of its prompt.                                          *)
SubmitTask(s, t) ==
  LET s1 == SubmitOne(s, t)
  IN IF t.kind = "prompt" /\ s.placed[t.req] = "same"
     THEN SubmitOne(s1, Node("token", t.req)) ELSE s1

SubmitFlow(s, f) ==
  LET s1 == [s EXCEPT !.submitted[f.req] = @ \cup {"flow"}]
  IN IF "submit_flow" \in delayed THEN Later(s1, "flow_arrival", f)
     ELSE FlowArrival(s1, f)

(* Faulty: executing_queue does not get the request.                       *)
RunRequestForgets(s, r, where) ==
  LET s1 == Transition(s, r, "QUEUED_AT_SCHEDULER", "RUNNING_ON_EXECUTOR")
      s2 == SubmitTask([s1 EXCEPT !.placed[r] = where], Node("prompt", r))
  IN [s2 EXCEPT !.scheduler.pending = @ \ {r}]

(* run_request: schedule() places the tasks and an executor is spawned.    *)
RunRequest(s, r, where) ==
  LET s1 == Transition(s, r, "QUEUED_AT_SCHEDULER", "RUNNING_ON_EXECUTOR")
      s2 == SubmitTask([s1 EXCEPT !.placed[r] = where], Node("prompt", r))
  IN SchedulerMove(s2, r, "pending", "executing")


(* Scheduler.request_arrival: a request that finds another one pending is  *)
(* left there.                                                             *)
SchedulerArrival(s, r, where) ==
  LET s1 == [Transition(s, r, "QUEUED_AT_ROUTER", "QUEUED_AT_SCHEDULER") EXCEPT
               !.scheduler.pending = @ \cup {r}]
  IN IF Cardinality(s1.scheduler.pending) = 1 THEN RunRequest(s1, r, where) ELSE s1

(* Router.request_arrival and route_request.                               *)
RouterArrival(s, r, where) ==
  LET s1 == [Transition(s, r, "NONE", "QUEUED_AT_ROUTER") EXCEPT
               !.router.pending = @ \cup {r}]
      s2 == IF "routing_delay" \in delayed
            THEN Later(s1, "request_arrival", Node("prompt", r))
            ELSE SchedulerArrival(s1, r, where)
  IN RouterMove(s2, r, "pending", "executing")

(* Faulty: the router is not told.                                         *)
RequestCompletionUntold(s, r) ==
  LET s1 == Transition(s, r, "RUNNING_ON_EXECUTOR", "COMPLETED_AT_SCHEDULER")
  IN SchedulerMove(s1, r, "executing", "completed")

(* request_completion of the scheduler and of the router.                  *)
RequestCompletion(s, r) ==
  LET s1 == Transition(s, r, "RUNNING_ON_EXECUTOR", "COMPLETED_AT_SCHEDULER")
      s2 == SchedulerMove(s1, r, "executing", "completed")
      s3 == Transition(s2, r, "COMPLETED_AT_SCHEDULER", "COMPLETED_AT_ROUTER")
  IN RouterMove(s3, r, "executing", "completed")

FinishRequest(s, r) ==
  IF "finish_request" \in delayed
  THEN Later(s, "request_completion", Node("token", r))
  ELSE RequestCompletion(s, r)

Successor(s, n) ==
  IF n.kind = "prompt" /\ s.placed[n.req] = "apart" THEN Node("flow", n.req)
  ELSE Node("token", n.req)

(* Faulty: submitted keeps the node.                                       *)
FinishNodeKeeps(s, n) ==
  LET s1 == Check(s, n.kind \in s.submitted[n.req])
      next == Successor(s, n)
  IN IF n.kind = "token" THEN FinishRequest(s1, n.req)
     ELSE IF s.node[next] # "NONE" THEN s1
     ELSE IF next.kind = "flow" THEN SubmitFlow(s1, next)
     ELSE SubmitTask(s1, next)

(* finish_task and finish_flow: the successors that have not been          *)
(* submitted yet are, if all their predecessors are complete.              *)
FinishNode(s, n) ==
  LET s1 == [Check(s, n.kind \in s.submitted[n.req]) EXCEPT
               !.submitted[n.req] = @ \ {n.kind}]
      next == Successor(s, n)
  IN IF n.kind = "token" THEN FinishRequest(s1, n.req)
     ELSE IF s.node[next] # "NONE" THEN s1
     ELSE IF next.kind = "flow" THEN SubmitFlow(s1, next)
     ELSE SubmitTask(s1, next)
-----------------------------------------------------------------------------
ServingInit ==
  /\ delayed \in SUBSET Overheads
  /\ state = [r \in Requests |-> "NONE"]
  /\ placed = [r \in Requests |-> "no"]
  /\ node = [n \in Nodes |-> "NONE"]
  /\ present = [r \in Requests |-> <<>>]
  /\ router = [q \in {"pending", "executing", "completed"} |-> {}]
  /\ scheduler = [q \in {"pending", "executing", "completed"} |-> {}]
  /\ submitted = [r \in Requests |-> {}]
  /\ events = {}
  /\ raised = FALSE

(* A request of the trace arrives.                                         *)
Arrive(r) ==
  /\ ~raised /\ state[r] = "NONE"
  /\ \E where \in {"same", "apart"} : Becomes(RouterArrival(State, r, where))

(* A call whose overhead is over.  The two arrivals of a chain are due at  *)
(* the same time, in which either may be first.                            *)
Call(e) ==
  /\ ~raised
  /\ LET s == [State EXCEPT !.events = @ \ {e}]
         r == e.on.req
     IN \/ /\ e.call = "request_arrival"
           /\ \E where \in {"same", "apart"} : Becomes(SchedulerArrival(s, r, where))
        \/ e.call = "task_arrival" /\ Becomes(TaskArrival(s, e.on))
        \/ e.call = "flow_arrival" /\ Becomes(FlowArrival(s, e.on))
        \/ e.call = "request_completion" /\ Becomes(RequestCompletion(s, r))

(* The node starts to run.  Of two tasks of a request at one instance the  *)
(* first to arrive goes first.                                             *)
Run(n) ==
  /\ ~raised /\ node[n] = "QUEUED"
  /\ n.kind # "flow" /\ placed[n.req] = "same" => Head(present[n.req]) = n.kind
  /\ Becomes(NodeTransition(State, n, "QUEUED", "RUNNING"))

(* The node completes.  Running takes time, so the arrivals that were due  *)
(* with its own have been handled.                                         *)
Complete(n) ==
  /\ ~raised /\ node[n] = "RUNNING"
  /\ \A e \in events : e.call = "task_arrival" => e.on.req # n.req
  /\ LET s1 == NodeTransition(State, n, "RUNNING", "COMPLETED")
         s2 == IF n.kind = "flow" THEN s1
               ELSE [s1 EXCEPT !.present[n.req] = RemoveFirst(@, n.kind)]
     IN Becomes(FinishNode(s2, n))

AllAnswered ==
  (\A r \in Requests : state[r] = "COMPLETED_AT_ROUTER") /\ UNCHANGED servingVars

ServingNext ==
  \/ \E r \in Requests : Arrive(r)
  \/ \E e \in events : Call(e)
  \/ \E n \in Nodes : Run(n) \/ Complete(n)
  \/ AllAnswered

ServingSpec == ServingInit /\ [][ServingNext]_servingVars

(* The run loop handles every event, and whatever runs completes.          *)
FairServingSpec == ServingSpec /\ WF_servingVars(ServingNext)
-----------------------------------------------------------------------------
(* No assertion of a state transition fails, no queue is asked to remove   *)
(* what it does not have, in whatever order the overheads let calls pass.  *)
NeverRaises == ~raised

(* Between events every request is in exactly one queue of the router and  *)
(* of the scheduler, the ones its state says.  In particular no request is *)
(* ever left in the scheduler's pending_queue, where nobody would look for *)
(* it again.                                                               *)
TiersAgree ==
  \A r \in Requests :
    /\ {q \in DOMAIN router : r \in router[q]} =
         CASE state[r] = "NONE" -> {}
           [] state[r] = "COMPLETED_AT_ROUTER" -> {"completed"}
           [] OTHER -> {"executing"}
    /\ {q \in DOMAIN scheduler : r \in scheduler[q]} =
         CASE state[r] \in {"NONE", "QUEUED_AT_ROUTER"} -> {}
           [] state[r] = "COMPLETED_AT_ROUTER" -> {"completed"}
           [] OTHER -> {"executing"}
    /\ state[r] \notin {"QUEUED_AT_SCHEDULER", "COMPLETED_AT_SCHEDULER"}

(* The executor has submitted exactly the nodes on their way to a runner   *)
(* or at it: none twice, none forgotten, nothing once the request is over. *)
SubmittedInFlight ==
  \A r \in Requests :
    submitted[r] = {k \in Kinds : \/ node[Node(k, r)] \in {"QUEUED", "RUNNING"}
                                  \/ \E e \in events :
                                       /\ e.call \in {"task_arrival", "flow_arrival"}
                                       /\ e.on = Node(k, r)}

(* "chain of nodes that must be executed back-to-back": the token task of  *)
(* a request runs after its prompt task, if their calls have no overhead,  *)
(* as every configuration of a scheduler has it, or if there is a transfer *)
(* between them, whatever the overheads.  With an overhead on submit_task  *)
(* the two arrivals of a chain are events of one time, and heapq may swap  *)
(* them.                                                                   *)
PromptRunsFirst ==
  \A r \in Requests :
    /\ "submit_task" \notin delayed \/ placed[r] = "apart"
    /\ node[Node("token", r)] \in {"RUNNING", "COMPLETED"}
    => node[Node("prompt", r)] = "COMPLETED"

=============================================================================
