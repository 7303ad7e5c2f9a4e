------------------------------ MODULE Simulator ------------------------------
(***************************************************************************)
(* The event loop (simulator.py) with the one component that takes events  *)
(* back: an instance, whose run of iterations has a completion event that  *)
(* pause_iteration (instance.py) cancels and schedules again.              *)
(*                                                                         *)
(* Time is a natural number.  Events are compared by time only, so that    *)
(* heappop may return any event of the least time.  cancel() leaves the    *)
(* event in the heap; run() drops it when it comes up.                     *)
(*                                                                         *)
(* An instance is reduced to its run; Cluster.tla has its queues, and      *)
(* counts time in iterations as this module justifies.                     *)
(***************************************************************************)
EXTENDS Integers, FiniteSets

CONSTANTS Instances,
          NumArrivals,     \* requests of the trace
          Durations,       \* how long an iteration or a flow may take
          MaxIterations,   \* bound on num_contiguous_iterations
          RetryDelay,      \* retry_delay of the links
          EndTime

ASSUME SimulatorAssumption ==
  /\ NumArrivals \in Nat
  /\ Durations \subseteq Nat \ {0}
  /\ MaxIterations \in Nat \ {0}
  /\ RetryDelay \in Nat \ {0}
  /\ EndTime \in Nat \ {0}

VARIABLES time,
          events,     \* the heap
          deleted,    \* deleted_events
          created,    \* number of events ever scheduled: their identities
          run,        \* the run of every instance
          queued,     \* prompt tasks that have arrived at it and not run
          waiting     \* flows from an instance in a pending_queue of a link

simVars == <<time, events, deleted, created, run, queued, waiting>>

Event(id, at, kind, i) == [id |-> id, time |-> at, kind |-> kind, inst |-> i]

NoEvent == Event(0, 0, "none", CHOOSE i \in Instances : TRUE)

Idle == [handle     |-> NoEvent,   \* completion_events["iteration"]
         prompts    |-> 0,         \* prompt tasks in the batch
         duration   |-> 1,         \* iteration_duration
         planned    |-> 0,         \* num_contiguous_iterations at the start
         iterations |-> 0,         \* num_contiguous_iterations
         pausing    |-> FALSE,     \* pause_next_iteration
         pausedAt   |-> 0]         \* when it was set

Running(r) == r.handle # NoEvent

(* iteration_start, as pause_iteration computes it from the event.         *)
Start(r) == r.handle.time - r.duration * r.iterations
-----------------------------------------------------------------------------
(* load_trace: every arrival is an event before the loop starts.           *)
SimInit ==
  /\ time = 0
  /\ \E at \in [1 .. NumArrivals -> 1 .. EndTime] :
       events = {Event(k, at[k], "arrival", NoEvent.inst) : k \in 1 .. NumArrivals}
  /\ deleted = {}
  /\ created = NumArrivals
  /\ run = [i \in Instances |-> Idle]
  /\ queued = [i \in Instances |-> 0]
  /\ waiting = [i \in Instances |-> 0]

LoopRuns == events # {} /\ time < EndTime

Pops(e) == LoopRuns /\ e \in events /\ \A f \in events : e.time <= f.time

(* Faulty: deleted_events keeps the event, or the event is not popped.     *)
DropKeepsDeleted(e) ==
  /\ Pops(e) /\ e \in deleted
  /\ events' = events \ {e}
  /\ UNCHANGED <<time, deleted, created, run, queued, waiting>>

DropPeeks(e) == Pops(e) /\ e \in deleted /\ UNCHANGED simVars

(* A cancelled event comes up: it leaves both lists, and the clock stays.  *)
DropCancelled(e) ==
  /\ Pops(e) /\ e \in deleted
  /\ events' = events \ {e}
  /\ deleted' = deleted \ {e}
  /\ UNCHANGED <<time, created, run, queued, waiting>>

(***************************************************************************)
(* The action of an event, as an operator from a state of the simulator    *)
(* to the set of states in which it may leave it: what the queues of the   *)
(* instances make it do is left open.                                      *)
(***************************************************************************)
Handling(e) == [events |-> events \ {e}, deleted |-> deleted,
                created |-> created, run |-> run, queued |-> queued,
                waiting |-> waiting]

Becomes(s) ==
  /\ events' = s.events
  /\ deleted' = s.deleted
  /\ created' = s.created
  /\ run' = s.run
  /\ queued' = s.queued
  /\ waiting' = s.waiting

Schedule(s, at, kind, i) ==
  [events |-> s.events \cup {Event(s.created + 1, at, kind, i)},
   deleted |-> s.deleted, created |-> s.created + 1, run |-> s.run,
   queued |-> s.queued, waiting |-> s.waiting]

CancelNothing(s, event) == s   \* faulty: the event stays valid
Cancel(s, event) == [s EXCEPT !.deleted = @ \cup {event}]

(* start_iteration at i: a run of n iterations of duration d, a single one *)
(* with some of the prompt tasks queued.                                   *)
RunStarted(s, clock, i, d, n, prompts) ==
  LET at == clock + d * n
  IN [Schedule(s, at, "completion", i) EXCEPT
        !.run[i] = [handle |-> Event(s.created + 1, at, "completion", i),
                    prompts |-> prompts, duration |-> d,
                    planned |-> n, iterations |-> n,
                    pausing |-> FALSE, pausedAt |-> 0],
        !.queued[i] = @ - prompts]

Starts(s, clock, i) ==
  UNION {{RunStarted(s, clock, i, d, 1, p) : p \in 1 .. s.queued[i]}
           \cup {RunStarted(s, clock, i, d, n, 0) : n \in 1 .. MaxIterations}
         : d \in Durations}

(* Faulty: the iteration under way is cut off, or one is added to it.      *)
IterationsCutOff(r, elapsed) == elapsed \div r.duration
IterationsAndOne(r, elapsed) == elapsed \div r.duration + 2

IterationsAtPause(r, elapsed) == elapsed \div r.duration + 1

WholeTime(r, n, elapsed) == r.duration * n   \* faulty: counted from the pause
RemainingTime(r, n, elapsed) == r.duration * n - elapsed

(* pause_iteration at i: the completion event is rescheduled to the end of *)
(* the iteration under way.                                                *)
Paused(s, clock, i) ==
  LET r == s.run[i]
      elapsed == clock - Start(r)
      n == IterationsAtPause(r, elapsed)
      at == clock + RemainingTime(r, n, elapsed)
  IN IF r.pausing \/ r.prompts > 0 THEN s
     ELSE [Schedule(Cancel(s, r.handle), at, "completion", i) EXCEPT
             !.run[i] = [handle |-> Event(s.created + 1, at, "completion", i),
                         prompts |-> r.prompts, duration |-> r.duration,
                         planned |-> r.planned, iterations |-> n,
                         pausing |-> TRUE, pausedAt |-> clock]]

(* task_arrival or notify_flow_completion at i: an idle instance starts a  *)
(* run unless memory is short, a running one is paused if the task may     *)
(* join its batch or preempt it.                                           *)
Notified(s, clock, i) ==
  {s} \cup (IF Running(s.run[i]) THEN {Paused(s, clock, i)} ELSE Starts(s, clock, i))

(* Link.run_flow, or an attempt after retry_delay.                         *)
LinkEvents == ({"flow"} \X Durations) \cup {<<"retry", RetryDelay>>}

(* flow_arrival of the flows of a batch: those of f have an event, and of  *)
(* the others some wait at a link that has no room for one more.           *)
Blocked(f) == Cardinality({k \in DOMAIN f : f[k][1] = "retry"})

FlowsArrive(s, clock, i, f, more) ==
  [s EXCEPT !.events = @ \cup {Event(s.created + k, clock + f[k][2], f[k][1], i) :
                                 k \in DOMAIN f},
            !.created = @ + Cardinality(DOMAIN f),
            !.waiting[i] = @ + Blocked(f) + more]

(* complete_iteration: a flow for every prompt task of the batch, if its   *)
(* token task is at another instance, and the next run starts or nothing   *)
(* is left to run.                                                         *)
Shipped(s, clock, i) ==
  LET p == s.run[i].prompts
  IN UNION {{FlowsArrive(s, clock, i, f, more) :
               f \in [1 .. n -> LinkEvents], more \in 0 .. p - n} : n \in 0 .. p}

RunCompleted(s, clock, i) ==
  UNION {{[s1 EXCEPT !.run[i] = Idle]} \cup Starts(s1, clock, i) :
           s1 \in Shipped(s, clock, i)}

(* A flow that waits is run, or tried again later.  The event of a retry   *)
(* may outlive the wait of its flow.                                       *)
NextFlow(s, clock, i) ==
  IF s.waiting[i] = 0 THEN {s}
  ELSE {s, Schedule(s, clock + RetryDelay, "retry", i)}
         \cup {Schedule([s EXCEPT !.waiting[i] = @ - 1], clock + d, "flow", i) :
                  d \in Durations}

Handles(e, kind) ==
  /\ Pops(e) /\ e \notin deleted /\ e.kind = kind
  /\ time' = e.time

Arrival(e) ==
  /\ Handles(e, "arrival")
  /\ \E i \in Instances :
       \E s \in Notified([Handling(e) EXCEPT !.queued[i] = @ + 1], e.time, i) :
         Becomes(s)

Completion(e) ==
  /\ Handles(e, "completion")
  /\ \E s \in RunCompleted(Handling(e), e.time, e.inst) : Becomes(s)

(* The token task arrives at another instance, then the source is          *)
(* notified, and the link looks for its next flow.                         *)
FlowCompletion(e) ==
  /\ Handles(e, "flow")
  /\ \E dest \in Instances \ {e.inst} :
       \E s \in Notified(Handling(e), e.time, dest) :
         \E s2 \in Notified(s, e.time, e.inst) :
           \E s3 \in NextFlow(s2, e.time, e.inst) : Becomes(s3)

(* retry_flow: nothing happens when the flow no longer waits.              *)
RetryFlow(e) ==
  /\ Handles(e, "retry")
  /\ \E s \in NextFlow(Handling(e), e.time, e.inst) : Becomes(s)

LoopEnds == ~LoopRuns /\ UNCHANGED simVars

SimNext ==
  \/ \E e \in events :
       \/ DropCancelled(e) \/ Arrival(e) \/ Completion(e)
       \/ FlowCompletion(e) \/ RetryFlow(e)
  \/ LoopEnds

SimSpec == SimInit /\ [][SimNext]_simVars /\ WF_simVars(SimNext)
-----------------------------------------------------------------------------
(* No event in the heap is overdue, whatever was scheduled and rescheduled *)
(* meanwhile: the clock never goes back.                                   *)
NothingOverdue == \A e \in events : time <= e.time

(* A run has exactly one completion event that is still to happen, the one *)
(* the instance holds; an idle instance has none.  A second one would end  *)
(* the next run early, none would leave the instance busy forever.         *)
OneCompletion ==
  \A i \in Instances :
    {e \in events \ deleted : e.kind = "completion" /\ e.inst = i}
      = {run[i].handle} \ {NoEvent}

(* Only events still in the heap are listed as deleted: cancelling never   *)
(* comes too late, and the list does not grow without bound.               *)
CancelledArePending == deleted \subseteq events

(* "Pause contiguous iterations at an iteration boundary": a paused run    *)
(* ends a whole number of iterations after its start, with the iteration   *)
(* that was under way at the pause.                                        *)
PauseAtBoundary ==
  \A i \in Instances :
    LET r == run[i]
    IN Running(r) /\ r.pausing =>
         /\ Start(r) + r.duration * (r.iterations - 1) <= r.pausedAt
         /\ r.pausedAt < r.handle.time
         /\ r.handle.time <= r.pausedAt + r.duration

(* A pause makes a run longer in one case only, when it comes at the very  *)
(* time of the completion event and before it.                             *)
PauseNeverExtends ==
  \A i \in Instances :
    LET r == run[i]
    IN r.iterations > r.planned =>
         /\ r.iterations = r.planned + 1
         /\ r.pausedAt = Start(r) + r.duration * r.planned

(* The loop comes to its end.                                              *)
LoopTerminates == <>~LoopRuns
=============================================================================
