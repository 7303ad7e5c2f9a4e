------------------------------ MODULE Metrics ------------------------------
(***************************************************************************)
(* What is measured of one request (metrics.py): the timestamps of its     *)
(* stages at the router, scheduler and executor (request.py) and the times *)
(* its nodes are queued, in service and blocked (node.py, task.py).        *)
(*                                                                         *)
(* The nodes take the steps of RequestPath while the request runs on its   *)
(* executor.  Any time may pass between two events: each stage's overhead  *)
(* and each iteration's duration is left open.                             *)
(***************************************************************************)
EXTENDS RequestPath

CONSTANT MaxTime      \* bound: the clock stops here

ASSUME TimeAssumption == MaxTime \in Nat

VARIABLES now,        \* clock()
          stage,      \* request.state
          tiers,      \* request.metrics: router, scheduler and executor
          measured    \* node.metrics of each node, and the request's TTFT

mvars == <<now, stage, tiers, measured>>

Nodes == {"prompt", "flow", "token"}

StateOf == [prompt |-> prompt, flow |-> flow, token |-> token]

NodeMetrics == [arrival : Nat, start : Nat, run : Nat, preempt : Nat,
                completion : Nat, queue : Int, service : Int, blocked : Int,
                response : Int]

Unmeasured == [arrival |-> 0, start |-> 0, run |-> 0, preempt |-> 0,
               completion |-> 0, queue |-> 0, service |-> 0, blocked |-> 0,
               response |-> 0]

MetricsInit ==
  /\ Init
  /\ now = 0
  /\ stage = "NONE"
  /\ tiers = [routerArrival |-> 0, schedulerArrival |-> 0, executorStart |-> 0,
              schedulerCompletion |-> 0, routerQueue |-> 0, schedulerQueue |-> 0,
              queue |-> 0, service |-> 0, ttft |-> 0, routerResponse |-> 0]
  /\ measured = [n \in Nodes |-> Unmeasured]
-----------------------------------------------------------------------------
Arrived(m) == [m EXCEPT !.arrival = now]

Started(m) == [m EXCEPT !.run = now, !.start = now, !.queue = @ + now - m.arrival]

Preempted(m) == [m EXCEPT !.preempt = now, !.service = @ + now - m.run]

(* Faulty: a preempted task still counts from when it first ran.           *)
ResumedFromStart(m) == [m EXCEPT !.blocked = @ + now - m.preempt]

Resumed(m) == [m EXCEPT !.run = now, !.blocked = @ + now - m.preempt]

Completed(m) == [m EXCEPT !.completion = now, !.service = @ + now - m.run,
                          !.response = now - m.arrival]

(* The methods of Node that one event calls; a node submitted to an idle   *)
(* instance arrives and runs in the same event.                            *)
Measure(m, old, new) ==
  CASE old = "NONE" /\ new = "QUEUED"        -> Arrived(m)
    [] old = "NONE" /\ new = "RUNNING"       -> Started(Arrived(m))
    [] old = "QUEUED" /\ new = "RUNNING"     -> Started(m)
    [] old = "RUNNING" /\ new = "BLOCKED"    -> Preempted(m)
    [] old = "BLOCKED" /\ new = "RUNNING"    -> Resumed(m)
    [] old = "RUNNING" /\ new = "COMPLETED"  -> Completed(m)
    [] OTHER                                 -> m

(* Faulty: the time to first token is set when the prompt task starts.     *)
MarkFirstTokenAtStart ==
  [tiers EXCEPT
     !.queue = IF prompt # "RUNNING" /\ prompt' = "RUNNING"
                 THEN now - tiers.routerArrival ELSE @,
     !.ttft  = IF prompt # "RUNNING" /\ prompt' = "RUNNING"
                 THEN now - tiers.routerArrival ELSE @]

(* The root node's start sets the request's queue_time, the prompt task's  *)
(* completion its TTFT.                                                    *)
MarkFirstToken ==
  [tiers EXCEPT
     !.queue = IF prompt # "RUNNING" /\ prompt' = "RUNNING"
                 THEN now - tiers.routerArrival ELSE @,
     !.ttft  = IF prompt # "COMPLETED" /\ prompt' = "COMPLETED"
                 THEN now - tiers.routerArrival ELSE @]
-----------------------------------------------------------------------------
ArriveAtRouter ==
  /\ stage = "NONE"
  /\ stage' = "QUEUED_AT_ROUTER"
  /\ tiers' = [tiers EXCEPT !.routerArrival = now]
  /\ UNCHANGED <<pvars, now, measured>>

ArriveAtScheduler ==
  /\ stage = "QUEUED_AT_ROUTER"
  /\ stage' = "QUEUED_AT_SCHEDULER"
  /\ tiers' = [tiers EXCEPT !.schedulerArrival = now,
                            !.routerQueue = now - tiers.routerArrival]
  /\ UNCHANGED <<pvars, now, measured>>

RunOnExecutor ==
  /\ stage = "QUEUED_AT_SCHEDULER"
  /\ stage' = "RUNNING_ON_EXECUTOR"
  /\ tiers' = [tiers EXCEPT !.executorStart = now,
                            !.schedulerQueue = now - tiers.schedulerArrival]
  /\ UNCHANGED <<pvars, now, measured>>

(* An event of an instance, a link or the executor.                        *)
NodesStep ==
  /\ stage = "RUNNING_ON_EXECUTOR"
  /\ Next
  /\ measured' = [n \in Nodes |-> Measure(measured[n], StateOf[n], StateOf'[n])]
  /\ tiers' = MarkFirstToken
  /\ UNCHANGED <<now, stage>>

(* The scheduler and, at once, the router take note of the completion.     *)
CompleteRequest ==
  /\ stage = "RUNNING_ON_EXECUTOR"
  /\ token = "COMPLETED"
  /\ stage' = "COMPLETED_AT_ROUTER"
  /\ tiers' = [tiers EXCEPT !.schedulerCompletion = now,
                            !.service = @ + now - tiers.executorStart,
                            !.routerResponse = now - tiers.routerArrival]
  /\ UNCHANGED <<pvars, now, measured>>

Tick ==
  /\ now < MaxTime
  /\ now' = now + 1
  /\ UNCHANGED <<pvars, stage, tiers, measured>>

Finished == stage = "COMPLETED_AT_ROUTER" /\ UNCHANGED <<pvars, mvars>>

MetricsNext ==
  \/ ArriveAtRouter \/ ArriveAtScheduler \/ RunOnExecutor
  \/ NodesStep
  \/ CompleteRequest
  \/ Tick
  \/ Finished

MetricsSpec == MetricsInit /\ [][MetricsNext]_<<pvars, mvars>>
-----------------------------------------------------------------------------
(* GenerativeLLMRequest.get_nth_token_overhead                             *)
NthTokenOverhead == measured["token"].start - measured["prompt"].completion

(* Scheduler.get_results: the columns of detailed/0.csv.  A request's       *)
(* tbt_time is the time given here divided by its token_size.              *)
Results ==
  [response_times      |-> tiers.routerResponse,
   queue_times         |-> tiers.queue,
   ttft_times          |-> tiers.ttft,
   decode_times        |-> tiers.routerResponse - tiers.ttft,
   nth_token_overheads |-> NthTokenOverhead]

(* Request.get_node_metrics: the row of a node in request_nodes.csv.       *)
NodeRow(n) ==
  [start_timestamp      |-> measured[n].start,
   completion_timestamp |-> measured[n].completion]

(* However often a node is preempted, the times counted for it are the     *)
(* whole of its life up to its last event, none lost and none twice: this  *)
(* is what its response time is made of (node.py).                         *)
TimesAddUp ==
  \A n \in Nodes :
    LET m     == measured[n]
        total == m.queue + m.service + m.blocked
    IN  /\ StateOf[n] = "RUNNING"   => total = m.run - m.arrival
        /\ StateOf[n] = "BLOCKED"   => total = m.preempt - m.arrival
        /\ StateOf[n] = "COMPLETED" => total = m.response

(* The response time in the results (scheduler.py, get_results) is the     *)
(* time to the first token and the time decoding, which is the overhead to *)
(* the second token, the token task's service, the times it was blocked    *)
(* and the completion's overhead; the overhead covers the transfer, and    *)
(* the request's queue time all its queues.  The rows of request_nodes.csv *)
(* are in the order of the DAG.                                            *)
ResponseDecomposes ==
  stage = "COMPLETED_AT_ROUTER" =>
    LET last == measured["token"]
    IN  /\ Results.response_times
             = tiers.routerQueue + tiers.schedulerQueue + tiers.service
        /\ Results.decode_times
             = Results.nth_token_overheads + last.service + last.blocked
                 + (tiers.schedulerCompletion - last.completion)
        /\ Results.nth_token_overheads >= measured["flow"].response
        /\ Results.queue_times >= tiers.routerQueue + tiers.schedulerQueue
                                    + measured["prompt"].queue
        /\ Results.ttft_times >= Results.queue_times + measured["prompt"].service
        /\ \A n \in Nodes : StateOf[n] = "COMPLETED" =>
             /\ n # "prompt" => NodeRow("prompt").completion_timestamp
                                  <= NodeRow(n).start_timestamp
             /\ n # "token"  => NodeRow(n).completion_timestamp
                                  <= NodeRow("token").start_timestamp
=============================================================================
