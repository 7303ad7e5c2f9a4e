--------------------------- MODULE Serving_proofs ---------------------------
(***************************************************************************)
(* Router, scheduler and executors agree on every request: for every set   *)
(* of requests, any number of them under way at once, and every choice of  *)
(* the overheads that are not zero.                                        *)
(***************************************************************************)
EXTENDS Serving, FiniteSetTheorems, SequenceTheorems,
        WellFoundedInduction, TLAPS

Queues == {"pending", "executing", "completed"}

RequestStates == {"NONE", "QUEUED_AT_ROUTER", "QUEUED_AT_SCHEDULER",
                  "RUNNING_ON_EXECUTOR", "COMPLETED_AT_SCHEDULER",
                  "COMPLETED_AT_ROUTER"}

NodeStates == {"NONE", "QUEUED", "RUNNING", "COMPLETED"}

Event(call, kind, r) == [call |-> call, on |-> Node(kind, r)]

(* The calls there are, and the nodes they are about.                      *)
Waiting == {<<"request_arrival", "prompt">>, <<"task_arrival", "prompt">>,
            <<"task_arrival", "token">>, <<"flow_arrival", "flow">>,
            <<"request_completion", "token">>}

Calls == UNION {{Event(w[1], w[2], r) : w \in Waiting} : r \in Requests}

StateType == [state : [Requests -> RequestStates],
              placed : [Requests -> {"no", "same", "apart"}],
              node : [Nodes -> NodeStates],
              present : [Requests -> Seq(Kinds)],
              router : [Queues -> SUBSET Requests],
              scheduler : [Queues -> SUBSET Requests],
              submitted : [Requests -> SUBSET Kinds],
              events : SUBSET Calls,
              raised : BOOLEAN]
-----------------------------------------------------------------------------
At(s, kind, r) == s.node[Node(kind, r)]

Waits(s, call, kind, r) == Event(call, kind, r) \in s.events

OnItsWay(s, kind, r) ==
  Waits(s, IF kind = "flow" THEN "flow_arrival" ELSE "task_arrival", kind, r)

Begun(s, kind, r) == At(s, kind, r) # "NONE" \/ OnItsWay(s, kind, r)

RouterQueue(st) ==
  CASE st = "NONE" -> "none"
    [] st = "COMPLETED_AT_ROUTER" -> "completed"
    [] OTHER -> "executing"

SchedulerQueue(st) ==
  CASE st \in {"NONE", "QUEUED_AT_ROUTER"} -> "none"
    [] st = "COMPLETED_AT_ROUTER" -> "completed"
    [] OTHER -> "executing"

OnlyIn(queues, r, queue) == \A q \in Queues : r \in queues[q] <=> q = queue

(* A request between events: where it is, and the call it waits for, if    *)
(* one of its overheads is running.                                        *)
RequestInv(s, r) ==
  /\ s.state[r] \in {"NONE", "QUEUED_AT_ROUTER", "RUNNING_ON_EXECUTOR",
                     "COMPLETED_AT_ROUTER"}
  /\ OnlyIn(s.scheduler, r, SchedulerQueue(s.state[r]))
  /\ Waits(s, "request_arrival", "prompt", r) <=> s.state[r] = "QUEUED_AT_ROUTER"
  /\ Waits(s, "request_completion", "token", r) <=>
       s.state[r] = "RUNNING_ON_EXECUTOR" /\ At(s, "token", r) = "COMPLETED"
  /\ s.state[r] = "COMPLETED_AT_ROUTER" => At(s, "token", r) = "COMPLETED"
  /\ s.placed[r] = "no" <=> s.state[r] \in {"NONE", "QUEUED_AT_ROUTER"}

(* Its nodes: submitted are those that are on their way or at a runner.  A *)
(* chain has been submitted as a whole; where a flow comes between, a node *)
(* is submitted when the one before it is complete, and not earlier.       *)
NodesInv(s, r) ==
  /\ \A k \in Kinds :
       /\ OnItsWay(s, k, r) => At(s, k, r) = "NONE"
       /\ k \in s.submitted[r] <=>
            OnItsWay(s, k, r) \/ At(s, k, r) \in {"QUEUED", "RUNNING"}
       /\ s.placed[r] = "no" => ~Begun(s, k, r)
  /\ s.placed[r] = "same" =>
       Begun(s, "prompt", r) /\ Begun(s, "token", r) /\ ~Begun(s, "flow", r)
  /\ s.placed[r] = "apart" =>
       /\ Begun(s, "prompt", r)
       /\ Begun(s, "flow", r) <=> At(s, "prompt", r) = "COMPLETED"
       /\ Begun(s, "token", r) <=> At(s, "flow", r) = "COMPLETED"

(* Without an overhead on submit_task no arrival of a task waits, the tasks *)
(* of a chain arrive in order, and the instance has them in that order.    *)
InOrder == "submit_task" \notin delayed

Here(s, kind, r) ==
  IF At(s, kind, r) \in {"QUEUED", "RUNNING"} THEN <<kind>> ELSE <<>>

ChainInv(s, r) ==
  /\ ~OnItsWay(s, "prompt", r) /\ ~OnItsWay(s, "token", r)
  /\ s.placed[r] = "no" => s.present[r] = <<>>
  /\ s.placed[r] = "same" =>
       /\ At(s, "token", r) \in {"RUNNING", "COMPLETED"} =>
            At(s, "prompt", r) = "COMPLETED"
       /\ s.present[r] = Here(s, "prompt", r) \o Here(s, "token", r)

TiersInv(s, r) ==
  /\ OnlyIn(s.router, r, RouterQueue(s.state[r]))
  /\ RequestInv(s, r) /\ NodesInv(s, r)
  /\ InOrder => ChainInv(s, r)

ServingInv ==
  /\ State \in StateType /\ ~raised
  /\ \A r \in Requests : TiersInv(State, r)

(* What holds of a record holds of the state a step makes of it: the       *)
(* overheads are those of before.                                          *)
LEMMA InvCarries ==
  ASSUME NEW t \in StateType, \A r \in Requests : TiersInv(t, r), ~t.raised,
         Becomes(t)
  PROVE  ServingInv'
<1>1. State' = t /\ raised' = t.raised /\ delayed' = delayed
  BY DEF State, Becomes, StateType
<1>2. ASSUME NEW r \in Requests
      PROVE  TiersInv(State, r)'
  BY <1>1 DEF TiersInv, InOrder
<1> QED
  BY <1>1, <1>2 DEF ServingInv
-----------------------------------------------------------------------------
(* Nodes and the calls about them are told apart by kind and request.      *)
LEMMA NodesApart ==
  /\ \A k \in Kinds, r \in Requests :
       Node(k, r) \in Nodes /\ Node(k, r).kind = k /\ Node(k, r).req = r
  /\ \A n \in Nodes :
       n.kind \in Kinds /\ n.req \in Requests /\ n = Node(n.kind, n.req)
  /\ \A k, l, r, x : Node(k, r) = Node(l, x) <=> k = l /\ r = x
  BY DEF Node, Nodes

(* The same of the calls that wait for an overhead.                        *)
LEMMA EventsApart ==
  /\ \A c, d, k, l, r, x :
       Event(c, k, r) = Event(d, l, x) <=> c = d /\ k = l /\ r = x
  /\ \A c, k, r : Event(c, k, r).call = c /\ Event(c, k, r).on = Node(k, r)
  BY NodesApart DEF Event

(* Each call about a node of the right kind may wait, and no other.        *)
LEMMA CallsAre ==
  /\ \A r \in Requests :
       /\ Event("request_arrival", "prompt", r) \in Calls
       /\ Event("task_arrival", "prompt", r) \in Calls
       /\ Event("task_arrival", "token", r) \in Calls
       /\ Event("flow_arrival", "flow", r) \in Calls
       /\ Event("request_completion", "token", r) \in Calls
  /\ \A e \in Calls :
       /\ e.on \in Nodes
       /\ e = Event(e.call, e.on.kind, e.on.req)
       /\ <<e.call, e.on.kind>> \in Waiting
<1>1. ASSUME NEW r \in Requests, NEW w \in Waiting
      PROVE  Event(w[1], w[2], r) \in Calls
  BY DEF Calls
<1>2. ASSUME NEW e \in Calls
      PROVE  /\ e.on \in Nodes
             /\ e = Event(e.call, e.on.kind, e.on.req)
             /\ <<e.call, e.on.kind>> \in Waiting
  <2>1. PICK r \in Requests, w \in Waiting : e = Event(w[1], w[2], r)
    BY DEF Calls
  <2>2. w = <<w[1], w[2]>> /\ w[2] \in Kinds
    BY DEF Waiting, Kinds
  <2> QED
    BY <2>1, <2>2, NodesApart, EventsApart
<1>3. /\ <<"request_arrival", "prompt">> \in Waiting
      /\ <<"task_arrival", "prompt">> \in Waiting
      /\ <<"task_arrival", "token">> \in Waiting
      /\ <<"flow_arrival", "flow">> \in Waiting
      /\ <<"request_completion", "token">> \in Waiting
  BY DEF Waiting
<1> QED
  BY <1>1, <1>2, <1>3
-----------------------------------------------------------------------------
(* A check that holds changes nothing.                                     *)
LEMMA CheckHolds ==
  ASSUME NEW s \in StateType, NEW c, c = TRUE
  PROVE  Check(s, c) = s
  BY DEF Check, StateType

(* A transition whose assertion holds changes one state and nothing else.  *)
LEMMA TransitionDoes ==
  ASSUME NEW s \in StateType, NEW r \in Requests, NEW from, NEW to \in RequestStates,
         s.state[r] = from,
         NEW t, t = Transition(s, r, from, to)
  PROVE  /\ t \in StateType
         /\ t.state = [s.state EXCEPT ![r] = to]
         /\ t.placed = s.placed /\ t.node = s.node /\ t.present = s.present
         /\ t.router = s.router /\ t.scheduler = s.scheduler
         /\ t.submitted = s.submitted /\ t.events = s.events
         /\ t.raised = s.raised
<1>1. Check(s, s.state[r] = from) = s
  BY CheckHolds
<1>2. t = [s EXCEPT !.state[r] = to]
  BY <1>1 DEF Transition
<1>3. [s.state EXCEPT ![r] = to] \in [Requests -> RequestStates]
  BY DEF StateType
<1> QED
  BY <1>2, <1>3 DEF StateType

(* The same of a node.                                                     *)
LEMMA NodeTransitionDoes ==
  ASSUME NEW s \in StateType, NEW n \in Nodes, NEW from, NEW to \in NodeStates,
         s.node[n] = from,
         NEW t, t = NodeTransition(s, n, from, to)
  PROVE  /\ t \in StateType
         /\ t.node = [s.node EXCEPT ![n] = to]
         /\ t.state = s.state /\ t.placed = s.placed /\ t.present = s.present
         /\ t.router = s.router /\ t.scheduler = s.scheduler
         /\ t.submitted = s.submitted /\ t.events = s.events
         /\ t.raised = s.raised
<1>1. Check(s, s.node[n] = from) = s
  BY CheckHolds
<1>2. t = [s EXCEPT !.node[n] = to]
  BY <1>1 DEF NodeTransition
<1>3. [s.node EXCEPT ![n] = to] \in [Nodes -> NodeStates]
  BY DEF StateType
<1> QED
  BY <1>2, <1>3 DEF StateType

(* A request moved from one queue to another is in the second only, the    *)
(* other requests are where they were.                                     *)
LEMMA MovedDoes ==
  ASSUME NEW queues \in [Queues -> SUBSET Requests], NEW r \in Requests,
         NEW from \in Queues, NEW to \in Queues, from # to
  PROVE  /\ Moved(queues, r, from, to) \in [Queues -> SUBSET Requests]
         /\ \A x \in Requests, q \in Queues :
              x \in Moved(queues, r, from, to)[q] <=>
                IF x # r THEN x \in queues[q]
                ELSE q = to \/ (q # from /\ x \in queues[q])
  BY DEF Moved

(* A request is found in the router's queue that it is removed from.       *)
LEMMA RouterMoveDoes ==
  ASSUME NEW s \in StateType, NEW r \in Requests,
         NEW from \in Queues, NEW to \in Queues, from # to,
         r \in s.router[from],
         NEW t, t = RouterMove(s, r, from, to)
  PROVE  /\ t \in StateType
         /\ t.router = Moved(s.router, r, from, to)
         /\ t.state = s.state /\ t.placed = s.placed /\ t.node = s.node
         /\ t.present = s.present /\ t.scheduler = s.scheduler
         /\ t.submitted = s.submitted /\ t.events = s.events
         /\ t.raised = s.raised
<1>1. Check(s, r \in s.router[from]) = s
  BY CheckHolds
<1>2. t = [s EXCEPT !.router = Moved(s.router, r, from, to)]
  BY <1>1 DEF RouterMove
<1>3. Moved(s.router, r, from, to) \in [Queues -> SUBSET Requests]
  BY MovedDoes DEF StateType
<1> QED
  BY <1>2, <1>3 DEF StateType

(* The same of the scheduler's queues.                                     *)
LEMMA SchedulerMoveDoes ==
  ASSUME NEW s \in StateType, NEW r \in Requests,
         NEW from \in Queues, NEW to \in Queues, from # to,
         r \in s.scheduler[from],
         NEW t, t = SchedulerMove(s, r, from, to)
  PROVE  /\ t \in StateType
         /\ t.scheduler = Moved(s.scheduler, r, from, to)
         /\ t.state = s.state /\ t.placed = s.placed /\ t.node = s.node
         /\ t.present = s.present /\ t.router = s.router
         /\ t.submitted = s.submitted /\ t.events = s.events
         /\ t.raised = s.raised
<1>1. Check(s, r \in s.scheduler[from]) = s
  BY CheckHolds
<1>2. t = [s EXCEPT !.scheduler = Moved(s.scheduler, r, from, to)]
  BY <1>1 DEF SchedulerMove
<1>3. Moved(s.scheduler, r, from, to) \in [Queues -> SUBSET Requests]
  BY MovedDoes DEF StateType
<1> QED
  BY <1>2, <1>3 DEF StateType

(* A call put off is one more event and nothing else.                      *)
LEMMA LaterDoes ==
  ASSUME NEW s \in StateType, NEW r \in Requests, NEW c, NEW k,
         Event(c, k, r) \in Calls,
         NEW t, t = Later(s, c, Node(k, r))
  PROVE  /\ t \in StateType
         /\ t.events = s.events \cup {Event(c, k, r)}
         /\ t.state = s.state /\ t.placed = s.placed /\ t.node = s.node
         /\ t.present = s.present /\ t.router = s.router
         /\ t.scheduler = s.scheduler /\ t.submitted = s.submitted
         /\ t.raised = s.raised
<1>1. t = [s EXCEPT !.events = s.events \cup {Event(c, k, r)}]
  BY DEF Later, Event
<1>2. s.events \cup {Event(c, k, r)} \in SUBSET Calls
  BY DEF StateType
<1> QED
  BY <1>1, <1>2 DEF StateType
-----------------------------------------------------------------------------
(* What submitting the node of kind k does: it is on its way, or it has    *)
(* arrived.                                                                *)
Overhead(k) == IF k = "flow" THEN "submit_flow" ELSE "submit_task"

Submits(s, t, k, r) ==
  /\ t \in StateType
  /\ t.state = s.state /\ t.placed = s.placed
  /\ t.router = s.router /\ t.scheduler = s.scheduler /\ t.raised = s.raised
  /\ t.submitted = [s.submitted EXCEPT ![r] = @ \cup {k}]
  /\ IF Overhead(k) \in delayed
     THEN /\ t.events = s.events \cup
                {Event(IF k = "flow" THEN "flow_arrival" ELSE "task_arrival", k, r)}
          /\ t.node = s.node /\ t.present = s.present
     ELSE /\ t.events = s.events
          /\ t.node = [s.node EXCEPT ![Node(k, r)] = "QUEUED"]
          /\ t.present = IF k = "flow" THEN s.present
                         ELSE [s.present EXCEPT ![r] = Append(@, k)]

(* A task that arrives is queued, and the last of its instance's tasks.    *)
LEMMA TaskArrivalDoes ==
  ASSUME NEW s \in StateType, NEW r \in Requests, NEW k \in Kinds,
         At(s, k, r) = "NONE",
         NEW t, t = TaskArrival(s, Node(k, r))
  PROVE  /\ t \in StateType
         /\ t.node = [s.node EXCEPT ![Node(k, r)] = "QUEUED"]
         /\ t.present = [s.present EXCEPT ![r] = Append(@, k)]
         /\ t.state = s.state /\ t.placed = s.placed
         /\ t.router = s.router /\ t.scheduler = s.scheduler
         /\ t.submitted = s.submitted /\ t.events = s.events
         /\ t.raised = s.raised
<1> DEFINE n == Node(k, r)
           u == NodeTransition(s, n, "NONE", "QUEUED")
<1>1. n \in Nodes /\ n.req = r /\ n.kind = k
  BY NodesApart
<1>2. /\ u \in StateType
      /\ u.node = [s.node EXCEPT ![n] = "QUEUED"]
      /\ u.state = s.state /\ u.placed = s.placed /\ u.present = s.present
      /\ u.router = s.router /\ u.scheduler = s.scheduler
      /\ u.submitted = s.submitted /\ u.events = s.events
      /\ u.raised = s.raised
  <2>1. s.node[n] = "NONE" /\ "QUEUED" \in NodeStates
    BY DEF At, NodeStates
  <2> QED
    BY <1>1, <2>1, NodeTransitionDoes
<1>3. t = [u EXCEPT !.present[r] = Append(u.present[r], k)]
  BY <1>1 DEF TaskArrival
<1> HIDE DEF u, n
<1>4. [u.present EXCEPT ![r] = Append(u.present[r], k)] \in [Requests -> Seq(Kinds)]
  BY <1>2 DEF StateType
<1> QED
  BY <1>2, <1>3, <1>4 DEF StateType, n

(* submit_task and submit_flow, of a node that was not submitted before.   *)
LEMMA SubmitOneDoes ==
  ASSUME NEW s \in StateType, NEW r \in Requests, NEW k \in {"prompt", "token"},
         At(s, k, r) = "NONE"
  PROVE  Submits(s, SubmitOne(s, Node(k, r)), k, r)
<1> DEFINE u == [s EXCEPT !.submitted[r] = s.submitted[r] \cup {k}]
           t == SubmitOne(s, Node(k, r))
<1>1. /\ k \in Kinds /\ k # "flow"
      /\ Node(k, r).req = r /\ Node(k, r).kind = k
  BY NodesApart DEF Kinds
<1>2. /\ u \in StateType
      /\ u.submitted = [s.submitted EXCEPT ![r] = @ \cup {k}]
      /\ u.state = s.state /\ u.placed = s.placed /\ u.node = s.node
      /\ u.present = s.present /\ u.router = s.router
      /\ u.scheduler = s.scheduler /\ u.events = s.events /\ u.raised = s.raised
  BY <1>1 DEF StateType
<1>3. t = IF "submit_task" \in delayed THEN Later(u, "task_arrival", Node(k, r))
          ELSE TaskArrival(u, Node(k, r))
  BY <1>1 DEF SubmitOne
<1> HIDE DEF u, t
<1>4. CASE "submit_task" \in delayed
  <2>1. Event("task_arrival", k, r) \in Calls
    BY CallsAre
  <2>2. t = Later(u, "task_arrival", Node(k, r))
    BY <1>3, <1>4
  <2> QED
    BY <1>1, <1>2, <1>4, <2>1, <2>2, LaterDoes DEF Submits, Overhead, t
<1>5. CASE "submit_task" \notin delayed
  <2>1. At(u, k, r) = "NONE" /\ t = TaskArrival(u, Node(k, r))
    BY <1>2, <1>3, <1>5 DEF At
  <2> QED
    BY <1>1, <1>2, <1>5, <2>1, TaskArrivalDoes DEF Submits, Overhead, t
<1> QED
  BY <1>4, <1>5

(* The same of the flow.                                                   *)
LEMMA SubmitFlowDoes ==
  ASSUME NEW s \in StateType, NEW r \in Requests, At(s, "flow", r) = "NONE"
  PROVE  Submits(s, SubmitFlow(s, Node("flow", r)), "flow", r)
<1> DEFINE f == Node("flow", r)
           u == [s EXCEPT !.submitted[r] = s.submitted[r] \cup {"flow"}]
           t == SubmitFlow(s, f)
<1>1. f \in Nodes /\ f.req = r /\ "flow" \in Kinds /\ "QUEUED" \in NodeStates
  BY NodesApart DEF Kinds, NodeStates
<1>2. /\ u \in StateType
      /\ u.submitted = [s.submitted EXCEPT ![r] = @ \cup {"flow"}]
      /\ u.state = s.state /\ u.placed = s.placed /\ u.node = s.node
      /\ u.present = s.present /\ u.router = s.router
      /\ u.scheduler = s.scheduler /\ u.events = s.events /\ u.raised = s.raised
  BY <1>1 DEF StateType
<1>3. t = IF "submit_flow" \in delayed THEN Later(u, "flow_arrival", f)
          ELSE NodeTransition(u, f, "NONE", "QUEUED")
  BY <1>1 DEF SubmitFlow, FlowArrival
<1> HIDE DEF u, t
<1>4. CASE "submit_flow" \in delayed
  <2>1. Event("flow_arrival", "flow", r) \in Calls
    BY CallsAre
  <2>2. t = Later(u, "flow_arrival", Node("flow", r))
    BY <1>3, <1>4
  <2> QED
    BY <1>2, <1>4, <2>1, <2>2, LaterDoes DEF Submits, Overhead, t
<1>5. CASE "submit_flow" \notin delayed
  <2>1. u.node[f] = "NONE" /\ t = NodeTransition(u, f, "NONE", "QUEUED")
    BY <1>2, <1>3, <1>5 DEF At
  <2> QED
    BY <1>1, <1>2, <1>5, <2>1, NodeTransitionDoes DEF Submits, Overhead, t
<1> QED
  BY <1>4, <1>5
-----------------------------------------------------------------------------
(* The tasks of a request at an instance are two at most.                  *)
LEMMA AtMostTwo ==
  /\ <<>> \o <<>> = <<>> /\ Append(<<>>, "prompt") = <<"prompt">>
  /\ <<"prompt">> \o <<>> = <<"prompt">> /\ <<>> \o <<"token">> = <<"token">>
  /\ Append(<<>>, "token") = <<"token">>
  /\ Append(<<"prompt">>, "token") = <<"prompt">> \o <<"token">>
<1>1. <<>> \o <<>> = <<>>
  OBVIOUS
<1>2. <<"prompt">> \o <<>> = <<"prompt">>
  OBVIOUS
<1>3. <<>> \o <<"token">> = <<"token">>
  OBVIOUS
<1>4. Append(<<>>, "prompt") = <<"prompt">> /\ Append(<<>>, "token") = <<"token">>
  OBVIOUS
<1>5. Append(<<"prompt">>, "token") = <<"prompt">> \o <<"token">>
  <2>1. <<"prompt">> \in Seq({"prompt", "token"}) /\ "token" \in {"prompt", "token"}
    OBVIOUS
  <2> QED
    BY <2>1, AppendIsConcat
<1> QED
  BY <1>1, <1>2, <1>3, <1>4, <1>5

(* list.remove on the tasks of a request.                                  *)
LEMMA MinIn ==
  ASSUME NEW S \in SUBSET Nat, S # {}
  PROVE  Min(S) \in S /\ \A y \in S : Min(S) <= y
<1>1. PICK x \in S : \A y \in S : ~ (<<y, x>> \in OpToRel(<, Nat))
  BY NatLessThanWellFounded, WFMin
<1>2. ASSUME NEW y \in S PROVE x <= y
  <2>1. ~ (y < x)
    <3>1. x \in Nat /\ y \in Nat
      OBVIOUS
    <3> QED
      BY <1>1, <3>1, Zenon DEF OpToRel
  <2> QED
    BY <2>1
<1> QED
  BY <1>2 DEF Min

(* It removes the first task of a kind, and the other one remains.         *)
LEMMA RemoveFirstDoes ==
  /\ \A q \in Seq(Kinds) : \A k : RemoveFirst(q, k) \in Seq(Kinds)
  /\ \A j, k \in Kinds : /\ RemoveFirst(<<k>>, k) = <<>>
                         /\ j # k => RemoveFirst(<<k>> \o <<j>>, k) = <<j>>
<1> DEFINE Places(q, k) == {i \in 1 .. Len(q) : q[i] = k}
<1>1. ASSUME NEW q \in Seq(Kinds), NEW k, Places(q, k) # {}
      PROVE  /\ Min(Places(q, k)) \in Places(q, k)
             /\ RemoveFirst(q, k) = SubSeq(q, 1, Min(Places(q, k)) - 1)
                                      \o SubSeq(q, Min(Places(q, k)) + 1, Len(q))
  <2>1. Places(q, k) \in SUBSET Nat
    OBVIOUS
  <2>2. Min(Places(q, k)) \in Places(q, k)
    BY <1>1, <2>1, MinIn
  <2> QED
    BY <1>1, <2>2 DEF RemoveFirst, RemoveAt, SelectInSeq
<1>2. ASSUME NEW q \in Seq(Kinds), NEW k
      PROVE  RemoveFirst(q, k) \in Seq(Kinds)
  <2>1. CASE Places(q, k) = {}
    BY <2>1 DEF RemoveFirst
  <2>2. CASE Places(q, k) # {}
    <3> DEFINE m == Min(Places(q, k))
    <3>1. m \in 1 .. Len(q)
      BY <1>1, <2>2
    <3> HIDE DEF m
    <3>2. /\ SubSeq(q, 1, m - 1) \in Seq(Kinds)
          /\ SubSeq(q, m + 1, Len(q)) \in Seq(Kinds)
      BY <3>1
    <3>3. SubSeq(q, 1, m - 1) \o SubSeq(q, m + 1, Len(q)) \in Seq(Kinds)
      BY <3>2
    <3> QED
      BY <1>1, <2>2, <3>3 DEF m
  <2> QED
    BY <2>1, <2>2
<1>3. ASSUME NEW k \in Kinds
      PROVE  RemoveFirst(<<k>>, k) = <<>>
  <2>1. <<k>> \in Seq(Kinds) /\ Places(<<k>>, k) = {1}
    OBVIOUS
  <2>2. Min(Places(<<k>>, k)) = 1
    BY <1>1, <2>1
  <2> HIDE DEF Places
  <2> DEFINE q == <<k>>
             m == Min(Places(q, k))
  <2>3. q \in Seq(Kinds) /\ Places(q, k) # {} /\ Len(q) = 1
    BY <2>1
  <2>4. m - 1 = 0 /\ m + 1 = 2
    BY <2>2
  <2>5. SubSeq(q, 1, 0) = <<>> /\ SubSeq(q, 2, 1) = <<>> /\ <<>> \o <<>> = <<>>
    OBVIOUS
  <2> HIDE DEF q
  <2>6. RemoveFirst(q, k) = SubSeq(q, 1, m - 1) \o SubSeq(q, m + 1, Len(q))
    BY <1>1, <2>3, Zenon
  <2> HIDE DEF m
  <2>7. RemoveFirst(q, k) = <<>>
    BY <2>3, <2>4, <2>5, <2>6, Zenon
  <2> QED
    BY <2>7 DEF q
<1>4. ASSUME NEW j \in Kinds, NEW k \in Kinds, j # k
      PROVE  RemoveFirst(<<k>> \o <<j>>, k) = <<j>>
  <2> DEFINE q == <<k>> \o <<j>>
             m == Min(Places(q, k))
  <2>1. q \in Seq(Kinds) /\ Len(q) = 2 /\ q[1] = k /\ q[2] = j
    OBVIOUS
  <2> HIDE DEF q
  <2>2. Places(q, k) = {1}
    BY <1>4, <2>1
  <2> HIDE DEF Places
  <2>3. Places(q, k) # {}
    BY <2>2
  <2>4. /\ m \in Places(q, k)
        /\ RemoveFirst(q, k) = SubSeq(q, 1, m - 1) \o SubSeq(q, m + 1, Len(q))
    BY <1>1, <2>1, <2>3, Zenon
  <2> HIDE DEF m
  <2>9. m - 1 = 0 /\ m + 1 = 2
    <3>1. m = 1
      BY <2>2, <2>4
    <3> QED
      BY <3>1
  <2>5. SubSeq(q, 1, 0) = <<>>
    BY <2>1
  <2>6. SubSeq(q, 2, 2) = <<j>>
    <3> DEFINE w == SubSeq(q, 2, 2)
    <3>1. w \in Seq(Kinds) /\ Len(w) = 1 /\ w[1] = j
      BY <2>1
    <3> HIDE DEF w
    <3>2. w = <<j>>
      BY <3>1
    <3> QED
      BY <3>2 DEF w
  <2>7. RemoveFirst(q, k) = <<>> \o <<j>>
    BY <2>1, <2>4, <2>5, <2>6, <2>9, Zenon
  <2>8. <<>> \o <<j>> = <<j>>
    OBVIOUS
  <2> QED
    BY <2>7, <2>8 DEF q
<1> QED
  BY <1>2, <1>3, <1>4
-----------------------------------------------------------------------------
(* A handler of request r leaves the other requests as they are.           *)
Others(s, t, r) ==
  \A x \in Requests \ {r} :
    /\ t.state[x] = s.state[x] /\ t.placed[x] = s.placed[x]
    /\ t.present[x] = s.present[x] /\ t.submitted[x] = s.submitted[x]
    /\ \A k \in Kinds : At(t, k, x) = At(s, k, x)
    /\ \A c, k : Waits(t, c, k, x) <=> Waits(s, c, k, x)
    /\ \A q \in Queues : /\ x \in t.router[q] <=> x \in s.router[q]
                         /\ x \in t.scheduler[q] <=> x \in s.scheduler[q]

(* Two calls about the same request leave the others alone together.       *)
LEMMA OthersCompose ==
  ASSUME NEW r, NEW s, NEW t, NEW u, Others(s, t, r), Others(t, u, r)
  PROVE  Others(s, u, r)
  BY DEF Others

(* What holds of a request left alone still holds of it.                   *)
LEMMA OthersKeep ==
  ASSUME NEW s, NEW t, NEW r \in Requests, NEW x \in Requests, x # r,
         Others(s, t, r), TiersInv(s, x)
  PROVE  TiersInv(t, x)
<1>1. /\ t.state[x] = s.state[x] /\ t.placed[x] = s.placed[x]
      /\ t.present[x] = s.present[x] /\ t.submitted[x] = s.submitted[x]
      /\ \A k \in Kinds : At(t, k, x) = At(s, k, x)
      /\ \A c, k : Waits(t, c, k, x) <=> Waits(s, c, k, x)
      /\ \A q \in Queues : /\ x \in t.router[q] <=> x \in s.router[q]
                           /\ x \in t.scheduler[q] <=> x \in s.scheduler[q]
  BY DEF Others
<1>2. /\ "prompt" \in Kinds /\ "flow" \in Kinds /\ "token" \in Kinds
      /\ \A k \in Kinds : OnItsWay(t, k, x) <=> OnItsWay(s, k, x)
  BY <1>1 DEF OnItsWay, Kinds
<1>3. \A k \in Kinds : Begun(t, k, x) <=> Begun(s, k, x)
  BY <1>1, <1>2 DEF Begun
<1>4. OnlyIn(t.router, x, RouterQueue(t.state[x]))
  BY <1>1 DEF TiersInv, OnlyIn
<1>5. RequestInv(t, x)
  BY <1>1, <1>2 DEF TiersInv, RequestInv, OnlyIn
<1>6. NodesInv(t, x)
  BY <1>1, <1>2, <1>3 DEF TiersInv, NodesInv
<1>7. InOrder => ChainInv(t, x)
  BY <1>1, <1>2 DEF TiersInv, ChainInv, Here
<1> QED
  BY <1>4, <1>5, <1>6, <1>7 DEF TiersInv

(* The same, as seen by the nodes of r.                                    *)
ViewOf(s, t, k, r) ==
  /\ \A l \in Kinds \ {k} :
       /\ At(t, l, r) = At(s, l, r)
       /\ OnItsWay(t, l, r) <=> OnItsWay(s, l, r)
  /\ \A l \in Kinds : l \in t.submitted[r] <=> l = k \/ l \in s.submitted[r]
  /\ \A c \in {"request_arrival", "request_completion"} : \A l :
       Waits(t, c, l, r) <=> Waits(s, c, l, r)
  /\ Overhead(k) \in delayed =>
       /\ OnItsWay(t, k, r) /\ At(t, k, r) = At(s, k, r)
       /\ t.present[r] = s.present[r]
  /\ Overhead(k) \notin delayed =>
       /\ OnItsWay(t, k, r) <=> OnItsWay(s, k, r)
       /\ At(t, k, r) = "QUEUED"
       /\ k # "flow" => t.present[r] = Append(s.present[r], k)
       /\ k = "flow" => t.present[r] = s.present[r]

(* What a submission does, seen from the request: the others are left      *)
(* alone, and of its own nodes only the one submitted changes.             *)
LEMMA SubmitsView ==
  ASSUME NEW s \in StateType, NEW t, NEW k \in Kinds, NEW r \in Requests,
         Submits(s, t, k, r)
  PROVE  Others(s, t, r) /\ ViewOf(s, t, k, r)
<1>1. /\ DOMAIN s.node = Nodes /\ DOMAIN s.present = Requests
      /\ DOMAIN s.submitted = Requests
  BY DEF StateType
<1>2. \A l \in Kinds, x \in Requests :
        /\ Node(l, x) \in Nodes
        /\ Node(l, x) = Node(k, r) <=> l = k /\ x = r
  BY NodesApart
<1>3. \A l \in Kinds, x \in Requests :
        At(t, l, x) = IF Overhead(k) \notin delayed /\ l = k /\ x = r
                      THEN "QUEUED" ELSE At(s, l, x)
  BY <1>1, <1>2 DEF Submits, At
<1>4. \A c, l, x :
        Waits(t, c, l, x) <=>
          \/ Waits(s, c, l, x)
          \/ /\ Overhead(k) \in delayed
             /\ c = (IF k = "flow" THEN "flow_arrival" ELSE "task_arrival")
             /\ l = k /\ x = r
  BY EventsApart DEF Submits, Waits
<1>5. /\ \A x \in Requests \ {r} : /\ t.present[x] = s.present[x]
                                   /\ t.submitted[x] = s.submitted[x]
      /\ t.submitted[r] = s.submitted[r] \cup {k}
      /\ t.present[r] = IF Overhead(k) \in delayed \/ k = "flow" THEN s.present[r]
                        ELSE Append(s.present[r], k)
  BY <1>1 DEF Submits
<1>6. Others(s, t, r)
  BY <1>3, <1>4, <1>5 DEF Submits, Others
<1>7. \A l \in Kinds : OnItsWay(t, l, r) <=>
        OnItsWay(s, l, r) \/ (Overhead(k) \in delayed /\ l = k)
  BY <1>4 DEF OnItsWay
<1>8. \A c \in {"request_arrival", "request_completion"} : \A l :
        Waits(t, c, l, r) <=> Waits(s, c, l, r)
  BY <1>4
<1> QED
  BY <1>3, <1>5, <1>6, <1>7, <1>8 DEF ViewOf
-----------------------------------------------------------------------------
(* A request none of whose nodes has been submitted.                       *)
Fresh(s, r) ==
  /\ s.placed[r] = "no" /\ s.submitted[r] = {}
  /\ \A k \in Kinds : ~Begun(s, k, r)
  /\ ~Waits(s, "request_arrival", "prompt", r)
  /\ ~Waits(s, "request_completion", "token", r)
  /\ InOrder => s.present[r] = <<>>

(* Once it has run, its request is on its executor and its nodes are       *)
(* submitted as far as the placement allows.                               *)
LEMMA RunRequestDoes ==
  ASSUME NEW s \in StateType, NEW r \in Requests, NEW where \in {"same", "apart"},
         s.state[r] = "QUEUED_AT_SCHEDULER",
         OnlyIn(s.scheduler, r, "pending"), Fresh(s, r),
         NEW t, t = RunRequest(s, r, where)
  PROVE  /\ t \in StateType /\ t.raised = s.raised
         /\ Others(s, t, r)
         /\ t.router = s.router /\ t.state[r] = "RUNNING_ON_EXECUTOR"
         /\ RequestInv(t, r) /\ NodesInv(t, r)
         /\ InOrder => ChainInv(t, r)
<1> DEFINE s1 == Transition(s, r, "QUEUED_AT_SCHEDULER", "RUNNING_ON_EXECUTOR")
           s2 == [s1 EXCEPT !.placed[r] = where]
           s3 == SubmitOne(s2, Node("prompt", r))
           s4 == SubmitTask(s2, Node("prompt", r))
<1>1. /\ s1 \in StateType
      /\ s1.state = [s.state EXCEPT ![r] = "RUNNING_ON_EXECUTOR"]
      /\ s1.placed = s.placed /\ s1.node = s.node /\ s1.present = s.present
      /\ s1.router = s.router /\ s1.scheduler = s.scheduler
      /\ s1.submitted = s.submitted /\ s1.events = s.events
      /\ s1.raised = s.raised
  <2>1. "RUNNING_ON_EXECUTOR" \in RequestStates
    BY DEF RequestStates
  <2> QED
    BY <2>1, TransitionDoes
<1>2. t = SchedulerMove(s4, r, "pending", "executing")
  BY DEF RunRequest
<1> HIDE DEF s1
<1>3. /\ s2 \in StateType
      /\ s2.state = s1.state
      /\ s2.placed = [s.placed EXCEPT ![r] = where]
      /\ s2.node = s.node /\ s2.present = s.present
      /\ s2.router = s.router /\ s2.scheduler = s.scheduler
      /\ s2.submitted = s.submitted /\ s2.events = s.events
      /\ s2.raised = s.raised
  <2>1. [s1.placed EXCEPT ![r] = where] \in [Requests -> {"no", "same", "apart"}]
    BY <1>1 DEF StateType
  <2> QED
    BY <1>1, <2>1 DEF StateType
<1> HIDE DEF s2
<1>4. /\ Others(s, s2, r) /\ Fresh(s, r)
      /\ s2.state[r] = "RUNNING_ON_EXECUTOR" /\ s2.placed[r] = where
      /\ \A k \in Kinds : At(s2, k, r) = "NONE" /\ ~OnItsWay(s2, k, r)
      /\ ~Waits(s2, "request_arrival", "prompt", r)
      /\ ~Waits(s2, "request_completion", "token", r)
      /\ s2.submitted[r] = {}
      /\ InOrder => s2.present[r] = <<>>
  <2>1. DOMAIN s.state = Requests /\ DOMAIN s.placed = Requests
    BY DEF StateType
  <2>2. Others(s, s2, r)
    BY <1>1, <1>3, <2>1 DEF Others, At, Waits
  <2>3. /\ \A k \in Kinds : /\ At(s2, k, r) = At(s, k, r)
                            /\ OnItsWay(s2, k, r) <=> OnItsWay(s, k, r)
        /\ \A c, k : Waits(s2, c, k, r) <=> Waits(s, c, k, r)
    BY <1>1, <1>3 DEF At, OnItsWay, Waits
  <2>4. s2.state[r] = "RUNNING_ON_EXECUTOR" /\ s2.placed[r] = where
    BY <1>1, <1>3, <2>1
  <2> QED
    BY <1>3, <2>2, <2>3, <2>4 DEF Fresh, Begun
<1>5. /\ "prompt" \in Kinds /\ "flow" \in Kinds /\ "token" \in Kinds
      /\ Kinds = {"prompt", "flow", "token"}
      /\ Overhead("prompt") = "submit_task" /\ Overhead("token") = "submit_task"
      /\ Node("prompt", r).kind = "prompt" /\ Node("prompt", r).req = r
  BY NodesApart DEF Kinds, Overhead
<1>6. Submits(s2, s3, "prompt", r)
  BY <1>3, <1>4, <1>5, SubmitOneDoes
<1>7. s4 = IF where = "same" THEN SubmitOne(s3, Node("token", r)) ELSE s3
  BY <1>4, <1>5 DEF SubmitTask
<1> HIDE DEF s3, s4
<1>8. s3 \in StateType
  BY <1>6 DEF Submits
<1>9. /\ s4 \in StateType /\ s4.raised = s.raised /\ Others(s2, s4, r)
      /\ s4.state = s2.state /\ s4.placed = s2.placed
      /\ s4.router = s.router /\ s4.scheduler = s.scheduler
      /\ NodesInv(s4, r)
      /\ At(s4, "token", r) \in {"NONE", "QUEUED"}
      /\ ~Waits(s4, "request_arrival", "prompt", r)
      /\ ~Waits(s4, "request_completion", "token", r)
      /\ InOrder => ChainInv(s4, r)
  <2>1. /\ Others(s2, s3, r)
        /\ s3.state = s2.state /\ s3.placed = s2.placed
        /\ s3.router = s2.router /\ s3.scheduler = s2.scheduler
        /\ s3.raised = s2.raised
    BY <1>3, <1>5, <1>6, SubmitsView DEF Submits
  <2>2. /\ \A l \in {"flow", "token"} :
             At(s3, l, r) = "NONE" /\ ~OnItsWay(s3, l, r) /\ l \notin s3.submitted[r]
        /\ "prompt" \in s3.submitted[r]
        /\ ~Waits(s3, "request_arrival", "prompt", r)
        /\ ~Waits(s3, "request_completion", "token", r)
        /\ IF "submit_task" \in delayed
           THEN /\ OnItsWay(s3, "prompt", r) /\ At(s3, "prompt", r) = "NONE"
                /\ s3.present[r] = s2.present[r]
           ELSE /\ ~OnItsWay(s3, "prompt", r) /\ At(s3, "prompt", r) = "QUEUED"
                /\ s3.present[r] = Append(s2.present[r], "prompt")
    <3>1. ViewOf(s2, s3, "prompt", r)
      BY <1>3, <1>5, <1>6, SubmitsView
    <3> QED
      BY <1>4, <1>5, <3>1 DEF ViewOf
  <2>3. CASE where = "apart"
    <3>1. s4 = s3 /\ s4.placed[r] = "apart"
      BY <1>4, <1>7, <2>1, <2>3
    <3>2. NodesInv(s4, r)
      BY <1>5, <2>2, <3>1 DEF NodesInv, Begun
    <3>3. InOrder => ChainInv(s4, r)
      BY <1>4, <2>2, <3>1 DEF ChainInv, InOrder
    <3> QED
      BY <1>3, <1>8, <2>1, <2>2, <3>1, <3>2, <3>3
  <2>4. CASE where = "same"
    <3>1. Submits(s3, s4, "token", r)
      BY <1>5, <1>7, <1>8, <2>2, <2>4, SubmitOneDoes
    <3>2. /\ Others(s3, s4, r) /\ s4 \in StateType
          /\ s4.state = s3.state /\ s4.placed = s3.placed
          /\ s4.router = s3.router /\ s4.scheduler = s3.scheduler
          /\ s4.raised = s3.raised
      BY <1>5, <1>8, <3>1, SubmitsView DEF Submits
    <3>3. /\ At(s4, "flow", r) = "NONE" /\ ~OnItsWay(s4, "flow", r)
          /\ At(s4, "prompt", r) = At(s3, "prompt", r)
          /\ OnItsWay(s4, "prompt", r) <=> OnItsWay(s3, "prompt", r)
          /\ "flow" \notin s4.submitted[r]
          /\ "prompt" \in s4.submitted[r] /\ "token" \in s4.submitted[r]
          /\ ~Waits(s4, "request_arrival", "prompt", r)
          /\ ~Waits(s4, "request_completion", "token", r)
          /\ IF "submit_task" \in delayed
             THEN /\ OnItsWay(s4, "token", r) /\ At(s4, "token", r) = "NONE"
                  /\ s4.present[r] = s3.present[r]
             ELSE /\ ~OnItsWay(s4, "token", r) /\ At(s4, "token", r) = "QUEUED"
                  /\ s4.present[r] = Append(s3.present[r], "token")
      <4>1. ViewOf(s3, s4, "token", r)
        BY <1>5, <1>8, <3>1, SubmitsView
      <4> QED
        BY <1>5, <2>2, <4>1 DEF ViewOf
    <3>4. s4.placed[r] = "same"
      BY <1>4, <2>1, <2>4, <3>2
    <3>5. NodesInv(s4, r)
      BY <1>5, <2>2, <3>3, <3>4 DEF NodesInv, Begun
    <3>6. ASSUME InOrder PROVE ChainInv(s4, r)
      <4>1. s2.present[r] = <<>>
        BY <1>4, <3>6
      <4>2. "submit_task" \notin delayed
        BY <3>6 DEF InOrder
      <4>3. s4.present[r] = <<"prompt">> \o <<"token">>
        BY <2>2, <3>3, <4>1, <4>2, AtMostTwo
      <4>4. Here(s4, "prompt", r) = <<"prompt">> /\ Here(s4, "token", r) = <<"token">>
        BY <2>2, <3>3, <4>2 DEF Here
      <4> QED
        BY <2>2, <3>3, <3>4, <4>2, <4>3, <4>4 DEF ChainInv
    <3> QED
      BY <1>3, <2>1, <3>2, <3>3, <3>5, <3>6, OthersCompose
  <2> QED
    BY <2>3, <2>4
<1>10. /\ t \in StateType /\ t.scheduler = Moved(s.scheduler, r, "pending", "executing")
       /\ t.state = s4.state /\ t.placed = s4.placed /\ t.node = s4.node
       /\ t.present = s4.present /\ t.router = s.router
       /\ t.submitted = s4.submitted /\ t.events = s4.events
       /\ t.raised = s.raised
  <2>1. r \in s4.scheduler["pending"] /\ "pending" \in Queues /\ "executing" \in Queues
    BY <1>9 DEF OnlyIn, Queues
  <2> QED
    BY <1>2, <1>9, <2>1, SchedulerMoveDoes
<1>11. \A x \in Requests, q \in Queues :
         x \in t.scheduler[q] <=> IF x # r THEN x \in s.scheduler[q]
                                  ELSE q = "executing"
  <2>1. s.scheduler \in [Queues -> SUBSET Requests]
        /\ "pending" \in Queues /\ "executing" \in Queues
    BY DEF StateType, Queues
  <2> QED
    BY <1>10, <2>1, MovedDoes DEF OnlyIn
<1>12. Others(s, t, r)
  <2>1. Others(s4, t, r)
    BY <1>9, <1>10, <1>11 DEF Others, At, Waits
  <2> QED
    BY <1>4, <1>9, <2>1, OthersCompose
<1>13. /\ \A k : At(t, k, r) = At(s4, k, r) /\ (OnItsWay(t, k, r) <=> OnItsWay(s4, k, r))
       /\ \A c, k : Waits(t, c, k, r) <=> Waits(s4, c, k, r)
  BY <1>10 DEF At, OnItsWay, Waits
<1>14. NodesInv(t, r) /\ (InOrder => ChainInv(t, r))
  BY <1>9, <1>10, <1>13 DEF NodesInv, ChainInv, Begun, Here
<1>15. t.state[r] = "RUNNING_ON_EXECUTOR" /\ t.placed[r] = where
  BY <1>4, <1>9, <1>10
<1>16. OnlyIn(t.scheduler, r, SchedulerQueue(t.state[r]))
  BY <1>11, <1>15 DEF OnlyIn, SchedulerQueue
<1>17. RequestInv(t, r)
  BY <1>9, <1>13, <1>15, <1>16 DEF RequestInv
<1> QED
  BY <1>10, <1>12, <1>14, <1>15, <1>17
-----------------------------------------------------------------------------
(* pending_queue is empty between events, so that a request is alone in it *)
(* when it arrives, and runs at once.                                      *)
LEMMA SchedulerArrivalDoes ==
  ASSUME NEW s \in StateType, NEW r \in Requests, NEW where \in {"same", "apart"},
         s.state[r] = "QUEUED_AT_ROUTER", s.scheduler["pending"] = {},
         OnlyIn(s.scheduler, r, "none"), Fresh(s, r),
         NEW t, t = SchedulerArrival(s, r, where)
  PROVE  /\ t \in StateType /\ t.raised = s.raised
         /\ Others(s, t, r)
         /\ t.router = s.router /\ t.state[r] = "RUNNING_ON_EXECUTOR"
         /\ RequestInv(t, r) /\ NodesInv(t, r)
         /\ InOrder => ChainInv(t, r)
<1> DEFINE s1 == Transition(s, r, "QUEUED_AT_ROUTER", "QUEUED_AT_SCHEDULER")
           s2 == [s1 EXCEPT !.scheduler["pending"] = s1.scheduler["pending"] \cup {r}]
<1>1. /\ s1 \in StateType
      /\ s1.state = [s.state EXCEPT ![r] = "QUEUED_AT_SCHEDULER"]
      /\ s1.placed = s.placed /\ s1.node = s.node /\ s1.present = s.present
      /\ s1.router = s.router /\ s1.scheduler = s.scheduler
      /\ s1.submitted = s.submitted /\ s1.events = s.events
      /\ s1.raised = s.raised
  <2>1. "QUEUED_AT_SCHEDULER" \in RequestStates
    BY DEF RequestStates
  <2> QED
    BY <2>1, TransitionDoes
<1>2. t = IF Cardinality(s2.scheduler["pending"]) = 1 THEN RunRequest(s2, r, where)
          ELSE s2
  BY DEF SchedulerArrival
<1> HIDE DEF s1
<1>3. /\ s2 \in StateType
      /\ s2.scheduler = [s.scheduler EXCEPT !["pending"] = {r}]
      /\ s2.state = s1.state /\ s2.placed = s.placed
      /\ s2.node = s.node /\ s2.present = s.present /\ s2.router = s.router
      /\ s2.submitted = s.submitted /\ s2.events = s.events
      /\ s2.raised = s.raised
  <2>1. s1.scheduler["pending"] \cup {r} = {r}
    BY <1>1
  <2>2. [s1.scheduler EXCEPT !["pending"] = {r}] \in [Queues -> SUBSET Requests]
    <3>1. s1.scheduler \in [Queues -> SUBSET Requests] /\ {r} \in SUBSET Requests
      BY <1>1 DEF StateType
    <3> QED
      BY <3>1
  <2>3. s2 = [s1 EXCEPT !.scheduler = [s1.scheduler EXCEPT !["pending"] = {r}]]
    BY <2>1
  <2> HIDE DEF s2
  <2> QED
    BY <1>1, <2>2, <2>3 DEF StateType
<1> HIDE DEF s2
<1>4. s.scheduler \in [Queues -> SUBSET Requests] /\ "pending" \in Queues
  BY DEF StateType, Queues
<1>5. s2.scheduler["pending"] = {r} /\ Cardinality({r}) = 1
  BY <1>3, <1>4, FS_Singleton
<1>6. t = RunRequest(s2, r, where)
  BY <1>2, <1>5
<1>7. OnlyIn(s2.scheduler, r, "pending")
  BY <1>3, <1>4 DEF OnlyIn, Queues
<1>8. s2.state[r] = "QUEUED_AT_SCHEDULER"
  BY <1>1, <1>3 DEF StateType
<1>9. Fresh(s2, r)
  BY <1>3 DEF Fresh, Begun, At, OnItsWay, Waits
<1>10. Others(s, s2, r)
  <2>1. \A x \in Requests \ {r} : s2.state[x] = s.state[x]
    BY <1>1, <1>3 DEF StateType
  <2>2. \A x \in Requests \ {r}, q \in Queues :
          x \in s2.scheduler[q] <=> x \in s.scheduler[q]
    BY <1>3, <1>4
  <2> QED
    BY <1>3, <2>1, <2>2 DEF Others, At, Waits
<1>11. /\ t \in StateType /\ t.raised = s2.raised
       /\ Others(s2, t, r)
       /\ t.router = s2.router /\ t.state[r] = "RUNNING_ON_EXECUTOR"
       /\ RequestInv(t, r) /\ NodesInv(t, r)
       /\ InOrder => ChainInv(t, r)
  BY <1>3, <1>6, <1>7, <1>8, <1>9, RunRequestDoes
<1> QED
  BY <1>3, <1>10, <1>11, OthersCompose

(* Router.request_arrival takes a request from nowhere to where its state  *)
(* says: delayed at the router, or on its executor.                        *)
LEMMA RouterArrivalDoes ==
  ASSUME NEW s \in StateType, NEW r \in Requests, NEW where \in {"same", "apart"},
         s.state[r] = "NONE", TiersInv(s, r), s.scheduler["pending"] = {},
         NEW t, t = RouterArrival(s, r, where)
  PROVE  /\ t \in StateType /\ t.raised = s.raised
         /\ Others(s, t, r) /\ TiersInv(t, r)
<1> DEFINE s1 == Transition(s, r, "NONE", "QUEUED_AT_ROUTER")
           s2 == [s1 EXCEPT !.router["pending"] = s1.router["pending"] \cup {r}]
           s3 == IF "routing_delay" \in delayed
                 THEN Later(s2, "request_arrival", Node("prompt", r))
                 ELSE SchedulerArrival(s2, r, where)
<1>1. /\ s1 \in StateType
      /\ s1.state = [s.state EXCEPT ![r] = "QUEUED_AT_ROUTER"]
      /\ s1.placed = s.placed /\ s1.node = s.node /\ s1.present = s.present
      /\ s1.router = s.router /\ s1.scheduler = s.scheduler
      /\ s1.submitted = s.submitted /\ s1.events = s.events
      /\ s1.raised = s.raised
  <2>1. "QUEUED_AT_ROUTER" \in RequestStates
    BY DEF RequestStates
  <2> QED
    BY <2>1, TransitionDoes
<1>2. t = RouterMove(s3, r, "pending", "executing")
  BY DEF RouterArrival
<1> HIDE DEF s1
<1>3. s.router \in [Queues -> SUBSET Requests]
      /\ "pending" \in Queues /\ "executing" \in Queues
  BY DEF StateType, Queues
<1>4. /\ s2 \in StateType
      /\ s2.router = [s.router EXCEPT !["pending"] = s.router["pending"] \cup {r}]
      /\ s2.state = s1.state /\ s2.placed = s.placed
      /\ s2.node = s.node /\ s2.present = s.present /\ s2.scheduler = s.scheduler
      /\ s2.submitted = s.submitted /\ s2.events = s.events
      /\ s2.raised = s.raised
  <2>1. [s1.router EXCEPT !["pending"] = s1.router["pending"] \cup {r}]
          \in [Queues -> SUBSET Requests]
    BY <1>1, <1>3
  <2> QED
    BY <1>1, <2>1 DEF StateType
<1> HIDE DEF s2
<1>5. /\ OnlyIn(s.router, r, "none") /\ OnlyIn(s.scheduler, r, "none")
      /\ RequestInv(s, r) /\ NodesInv(s, r) /\ s.placed[r] = "no"
      /\ InOrder => s.present[r] = <<>>
  BY DEF TiersInv, RequestInv, ChainInv, RouterQueue, SchedulerQueue
<1>6. s2.state[r] = "QUEUED_AT_ROUTER"
  BY <1>1, <1>4 DEF StateType
<1>7. Fresh(s2, r)
  <2>1. \A k \in Kinds : ~Begun(s, k, r)
    BY <1>5 DEF NodesInv
  <2>2. \A k \in Kinds : k \notin s.submitted[r]
    BY <1>5, <2>1 DEF NodesInv, Begun
  <2>3. s.submitted[r] = {}
    BY <2>2 DEF StateType
  <2>4. /\ ~Waits(s, "request_arrival", "prompt", r)
        /\ ~Waits(s, "request_completion", "token", r)
    BY <1>5 DEF RequestInv
  <2> QED
    BY <1>4, <1>5, <2>1, <2>3, <2>4 DEF Fresh, Begun, At, OnItsWay, Waits
<1>8. Others(s, s2, r)
  <2>1. \A x \in Requests \ {r} : s2.state[x] = s.state[x]
    BY <1>1, <1>4 DEF StateType
  <2>2. \A x \in Requests \ {r}, q \in Queues :
          x \in s2.router[q] <=> x \in s.router[q]
    BY <1>3, <1>4
  <2> QED
    BY <1>4, <2>1, <2>2 DEF Others, At, Waits
<1>9. /\ s3 \in StateType /\ s3.raised = s.raised /\ Others(s2, s3, r)
      /\ s3.router = s2.router
      /\ RouterQueue(s3.state[r]) = "executing"
      /\ RequestInv(s3, r) /\ NodesInv(s3, r)
      /\ InOrder => ChainInv(s3, r)
  <2>1. CASE "routing_delay" \in delayed
    <3>1. Event("request_arrival", "prompt", r) \in Calls
      BY CallsAre
    <3>2. s3 = Later(s2, "request_arrival", Node("prompt", r))
      BY <2>1
    <3> HIDE DEF s3
    <3>3. /\ s3 \in StateType
          /\ s3.events = s2.events \cup {Event("request_arrival", "prompt", r)}
          /\ s3.state = s2.state /\ s3.placed = s2.placed /\ s3.node = s2.node
          /\ s3.present = s2.present /\ s3.router = s2.router
          /\ s3.scheduler = s2.scheduler /\ s3.submitted = s2.submitted
          /\ s3.raised = s2.raised
      BY <1>4, <3>1, <3>2, LaterDoes
    <3>4. \A c, k, x : Waits(s3, c, k, x) <=>
            Waits(s2, c, k, x) \/ (c = "request_arrival" /\ k = "prompt" /\ x = r)
      BY <3>3, EventsApart DEF Waits
    <3>5. /\ \A k \in Kinds, x \in Requests : At(s3, k, x) = At(s2, k, x)
          /\ \A k \in Kinds : OnItsWay(s3, k, r) <=> OnItsWay(s2, k, r)
      BY <3>3, <3>4 DEF At, OnItsWay
    <3>6. Others(s2, s3, r)
      BY <3>3, <3>4, <3>5 DEF Others
    <3>7. OnlyIn(s3.scheduler, r, SchedulerQueue(s3.state[r]))
      BY <1>4, <1>5, <1>6, <3>3 DEF SchedulerQueue
    <3>8. RequestInv(s3, r)
      BY <1>6, <1>7, <3>3, <3>4, <3>7 DEF RequestInv, Fresh
    <3>9. NodesInv(s3, r)
      BY <1>7, <3>3, <3>5 DEF NodesInv, Fresh, Begun
    <3>10. InOrder => ChainInv(s3, r)
      BY <1>7, <3>3, <3>5 DEF ChainInv, Fresh, Begun, Kinds
    <3> QED
      BY <1>4, <1>6, <3>3, <3>6, <3>8, <3>9, <3>10 DEF RouterQueue
  <2>2. CASE "routing_delay" \notin delayed
    <3>1. s3 = SchedulerArrival(s2, r, where)
      BY <2>2
    <3> HIDE DEF s3
    <3>2. s2.scheduler["pending"] = {} /\ OnlyIn(s2.scheduler, r, "none")
      BY <1>4, <1>5
    <3>3. /\ s3 \in StateType /\ s3.raised = s2.raised
          /\ Others(s2, s3, r)
          /\ s3.router = s2.router /\ s3.state[r] = "RUNNING_ON_EXECUTOR"
          /\ RequestInv(s3, r) /\ NodesInv(s3, r)
          /\ InOrder => ChainInv(s3, r)
      BY <1>4, <1>6, <1>7, <3>1, <3>2, SchedulerArrivalDoes
    <3> QED
      BY <1>4, <3>3 DEF RouterQueue
  <2> QED
    BY <2>1, <2>2
<1> HIDE DEF s3
<1>10. /\ t \in StateType /\ t.router = Moved(s3.router, r, "pending", "executing")
       /\ t.state = s3.state /\ t.placed = s3.placed /\ t.node = s3.node
       /\ t.present = s3.present /\ t.scheduler = s3.scheduler
       /\ t.submitted = s3.submitted /\ t.events = s3.events
       /\ t.raised = s3.raised
  <2>1. r \in s3.router["pending"]
    BY <1>3, <1>4, <1>9
  <2> QED
    BY <1>2, <1>3, <1>9, <2>1, RouterMoveDoes
<1>11. \A x \in Requests, q \in Queues :
         x \in t.router[q] <=> IF x # r THEN x \in s3.router[q] ELSE q = "executing"
  <2>1. s3.router \in [Queues -> SUBSET Requests]
    BY <1>9 DEF StateType
  <2>2. \A q \in Queues : r \in s3.router[q] <=> q = "pending"
    BY <1>3, <1>4, <1>5, <1>9 DEF OnlyIn, Queues
  <2> QED
    BY <1>3, <1>10, <2>1, <2>2, MovedDoes
<1>12. Others(s3, t, r)
  BY <1>10, <1>11 DEF Others, At, Waits
<1>13. OnlyIn(t.router, r, RouterQueue(t.state[r]))
  BY <1>9, <1>10, <1>11 DEF OnlyIn
<1>14. RequestInv(t, r)
  BY <1>9, <1>10 DEF RequestInv, At, Waits
<1>15. NodesInv(t, r) /\ (InOrder => ChainInv(t, r))
  BY <1>9, <1>10 DEF NodesInv, ChainInv, Begun, At, OnItsWay, Waits, Here
<1>16. Others(s, t, r)
  BY <1>8, <1>9, <1>12, OthersCompose
<1> QED
  BY <1>9, <1>10, <1>13, <1>14, <1>15, <1>16 DEF TiersInv
-----------------------------------------------------------------------------
(* A request whose token task is complete, and the router not yet told.    *)
Finishing(s, r) ==
  /\ s.state[r] = "RUNNING_ON_EXECUTOR" /\ s.placed[r] # "no"
  /\ OnlyIn(s.router, r, "executing") /\ OnlyIn(s.scheduler, r, "executing")
  /\ At(s, "token", r) = "COMPLETED"
  /\ ~Waits(s, "request_arrival", "prompt", r)
  /\ ~Waits(s, "request_completion", "token", r)
  /\ NodesInv(s, r)
  /\ InOrder => ChainInv(s, r)

(* request_completion of scheduler and router takes it from their          *)
(* executing queues to the completed ones.                                 *)
LEMMA RequestCompletionDoes ==
  ASSUME NEW s \in StateType, NEW r \in Requests, Finishing(s, r),
         NEW t, t = RequestCompletion(s, r)
  PROVE  /\ t \in StateType /\ t.raised = s.raised
         /\ Others(s, t, r) /\ TiersInv(t, r)
<1> DEFINE s1 == Transition(s, r, "RUNNING_ON_EXECUTOR", "COMPLETED_AT_SCHEDULER")
           s2 == SchedulerMove(s1, r, "executing", "completed")
           s3 == Transition(s2, r, "COMPLETED_AT_SCHEDULER", "COMPLETED_AT_ROUTER")
<1>1. /\ "COMPLETED_AT_SCHEDULER" \in RequestStates
      /\ "COMPLETED_AT_ROUTER" \in RequestStates
      /\ "executing" \in Queues /\ "completed" \in Queues
      /\ s.state \in [Requests -> RequestStates]
      /\ s.router \in [Queues -> SUBSET Requests]
      /\ s.scheduler \in [Queues -> SUBSET Requests]
  BY DEF RequestStates, Queues, StateType
<1>2. t = RouterMove(s3, r, "executing", "completed")
  BY DEF RequestCompletion
<1>3. /\ s1 \in StateType
      /\ s1.state = [s.state EXCEPT ![r] = "COMPLETED_AT_SCHEDULER"]
      /\ s1.placed = s.placed /\ s1.node = s.node /\ s1.present = s.present
      /\ s1.router = s.router /\ s1.scheduler = s.scheduler
      /\ s1.submitted = s.submitted /\ s1.events = s.events
      /\ s1.raised = s.raised
  <2>1. s.state[r] = "RUNNING_ON_EXECUTOR"
    BY DEF Finishing
  <2> QED
    BY <1>1, <2>1, TransitionDoes
<1> HIDE DEF s1
<1>4. /\ s2 \in StateType
      /\ s2.scheduler = Moved(s1.scheduler, r, "executing", "completed")
      /\ s2.state = s1.state /\ s2.placed = s1.placed /\ s2.node = s1.node
      /\ s2.present = s1.present /\ s2.router = s1.router
      /\ s2.submitted = s1.submitted /\ s2.events = s1.events
      /\ s2.raised = s1.raised
  <2>1. r \in s1.scheduler["executing"]
    BY <1>1, <1>3 DEF Finishing, OnlyIn
  <2> QED
    BY <1>1, <1>3, <2>1, SchedulerMoveDoes
<1> HIDE DEF s2
<1>5. /\ s3 \in StateType
      /\ s3.state = [s2.state EXCEPT ![r] = "COMPLETED_AT_ROUTER"]
      /\ s3.placed = s2.placed /\ s3.node = s2.node /\ s3.present = s2.present
      /\ s3.router = s2.router /\ s3.scheduler = s2.scheduler
      /\ s3.submitted = s2.submitted /\ s3.events = s2.events
      /\ s3.raised = s2.raised
  <2>1. s2.state[r] = "COMPLETED_AT_SCHEDULER"
    BY <1>1, <1>3, <1>4
  <2> QED
    BY <1>1, <1>4, <2>1, TransitionDoes
<1> HIDE DEF s3
<1>6. /\ t \in StateType
      /\ t.router = Moved(s3.router, r, "executing", "completed")
      /\ t.state = s3.state /\ t.placed = s3.placed /\ t.node = s3.node
      /\ t.present = s3.present /\ t.scheduler = s3.scheduler
      /\ t.submitted = s3.submitted /\ t.events = s3.events
      /\ t.raised = s3.raised
  <2>1. r \in s3.router["executing"]
    BY <1>1, <1>3, <1>4, <1>5 DEF Finishing, OnlyIn
  <2> QED
    BY <1>1, <1>2, <1>5, <2>1, RouterMoveDoes
<1>7. /\ t.router = Moved(s.router, r, "executing", "completed")
      /\ t.scheduler = Moved(s.scheduler, r, "executing", "completed")
      /\ t.placed = s.placed /\ t.node = s.node /\ t.present = s.present
      /\ t.submitted = s.submitted /\ t.events = s.events /\ t.raised = s.raised
      /\ t.state[r] = "COMPLETED_AT_ROUTER"
      /\ \A x \in Requests \ {r} : t.state[x] = s.state[x]
  BY <1>1, <1>3, <1>4, <1>5, <1>6
<1>8. \A x \in Requests, q \in Queues :
        /\ x \in t.router[q] <=> IF x # r THEN x \in s.router[q] ELSE q = "completed"
        /\ x \in t.scheduler[q] <=>
             IF x # r THEN x \in s.scheduler[q] ELSE q = "completed"
  <2>1. \A q \in Queues : /\ r \in s.router[q] <=> q = "executing"
                          /\ r \in s.scheduler[q] <=> q = "executing"
    BY DEF Finishing, OnlyIn
  <2>2. \A x \in Requests, q \in Queues :
          x \in t.router[q] <=> IF x # r THEN x \in s.router[q] ELSE q = "completed"
    <3>1. t.router = Moved(s.router, r, "executing", "completed")
      BY <1>7
    <3>2. s.router \in [Queues -> SUBSET Requests]
      BY <1>1
    <3>3. \A x \in Requests, q \in Queues :
            x \in Moved(s.router, r, "executing", "completed")[q] <=>
              IF x # r THEN x \in s.router[q]
              ELSE q = "completed" \/ (q # "executing" /\ x \in s.router[q])
      BY <1>1, <3>2, MovedDoes, SMTT(30)
    <3> QED
      BY <2>1, <3>1, <3>3
  <2>3. \A x \in Requests, q \in Queues :
          x \in t.scheduler[q] <=>
            IF x # r THEN x \in s.scheduler[q] ELSE q = "completed"
    <3>1. t.scheduler = Moved(s.scheduler, r, "executing", "completed")
      BY <1>7
    <3>2. s.scheduler \in [Queues -> SUBSET Requests]
      BY <1>1
    <3>3. \A x \in Requests, q \in Queues :
            x \in Moved(s.scheduler, r, "executing", "completed")[q] <=>
              IF x # r THEN x \in s.scheduler[q]
              ELSE q = "completed" \/ (q # "executing" /\ x \in s.scheduler[q])
      BY <1>1, <3>2, MovedDoes, SMTT(30)
    <3> QED
      BY <2>1, <3>1, <3>3
  <2> QED
    BY <2>2, <2>3
<1>9. Others(s, t, r)
  BY <1>7, <1>8 DEF Others, At, Waits
<1>10. /\ \A k : At(t, k, r) = At(s, k, r) /\ (OnItsWay(t, k, r) <=> OnItsWay(s, k, r))
       /\ \A c, k : Waits(t, c, k, r) <=> Waits(s, c, k, r)
  BY <1>7 DEF At, OnItsWay, Waits
<1>11. NodesInv(t, r) /\ (InOrder => ChainInv(t, r))
  BY <1>7, <1>10 DEF Finishing, NodesInv, ChainInv, Begun, Here
<1>12. /\ OnlyIn(t.router, r, RouterQueue(t.state[r]))
       /\ OnlyIn(t.scheduler, r, SchedulerQueue(t.state[r]))
  BY <1>7, <1>8 DEF OnlyIn, RouterQueue, SchedulerQueue
<1>13. RequestInv(t, r)
  BY <1>7, <1>10, <1>12 DEF Finishing, RequestInv
<1> QED
  BY <1>6, <1>7, <1>9, <1>11, <1>12, <1>13 DEF TiersInv

(* So it does where the executor's overhead comes first.                   *)
LEMMA FinishRequestDoes ==
  ASSUME NEW s \in StateType, NEW r \in Requests, Finishing(s, r),
         NEW t, t = FinishRequest(s, r)
  PROVE  /\ t \in StateType /\ t.raised = s.raised
         /\ Others(s, t, r) /\ TiersInv(t, r)
<1>1. CASE "finish_request" \in delayed
  <2>1. Event("request_completion", "token", r) \in Calls
    BY CallsAre
  <2>2. t = Later(s, "request_completion", Node("token", r))
    BY <1>1 DEF FinishRequest
  <2>3. /\ t \in StateType
        /\ t.events = s.events \cup {Event("request_completion", "token", r)}
        /\ t.state = s.state /\ t.placed = s.placed /\ t.node = s.node
        /\ t.present = s.present /\ t.router = s.router
        /\ t.scheduler = s.scheduler /\ t.submitted = s.submitted
        /\ t.raised = s.raised
    BY <2>1, <2>2, LaterDoes
  <2>4. \A c, k, x : Waits(t, c, k, x) <=>
          Waits(s, c, k, x) \/ (c = "request_completion" /\ k = "token" /\ x = r)
    BY <2>3, EventsApart DEF Waits
  <2>5. /\ \A k, x : At(t, k, x) = At(s, k, x)
        /\ \A k : OnItsWay(t, k, r) <=> OnItsWay(s, k, r)
    BY <2>3, <2>4 DEF At, OnItsWay
  <2>6. Others(s, t, r)
    BY <2>3, <2>4, <2>5 DEF Others
  <2>7. NodesInv(t, r) /\ (InOrder => ChainInv(t, r))
    BY <2>3, <2>5 DEF Finishing, NodesInv, ChainInv, Begun, Here
  <2>8. /\ OnlyIn(t.router, r, RouterQueue(t.state[r]))
        /\ OnlyIn(t.scheduler, r, SchedulerQueue(t.state[r]))
    BY <2>3 DEF Finishing, RouterQueue, SchedulerQueue
  <2>9. RequestInv(t, r)
    BY <2>3, <2>4, <2>5, <2>8 DEF Finishing, RequestInv
  <2> QED
    BY <2>3, <2>6, <2>7, <2>8, <2>9 DEF TiersInv
<1>2. CASE "finish_request" \notin delayed
  <2>1. t = RequestCompletion(s, r)
    BY <1>2 DEF FinishRequest
  <2> QED
    BY <2>1, RequestCompletionDoes
<1> QED
  BY <1>1, <1>2
-----------------------------------------------------------------------------
(* A handler of request r that leaves the others as they are and r where   *)
(* its state says preserves the invariant.                                 *)
LEMMA HandlerPreserves ==
  ASSUME NEW s \in StateType, NEW t \in StateType, NEW r \in Requests,
         Others(s, t, r), TiersInv(t, r),
         \A x \in Requests : TiersInv(s, x)
  PROVE  \A x \in Requests : TiersInv(t, x)
<1> SUFFICES ASSUME NEW x \in Requests PROVE TiersInv(t, x)
  OBVIOUS
<1>1. CASE x = r
  BY <1>1
<1>2. CASE x # r
  BY <1>2, OthersKeep
<1> QED
  BY <1>1, <1>2

(* Nobody is in the scheduler's pending_queue.                             *)
LEMMA NobodyPending ==
  ASSUME NEW s \in StateType, \A x \in Requests : TiersInv(s, x)
  PROVE  s.scheduler["pending"] = {}
<1>1. "pending" \in Queues /\ s.scheduler["pending"] \in SUBSET Requests
  BY DEF StateType, Queues
<1>2. ASSUME NEW x \in Requests PROVE x \notin s.scheduler["pending"]
  <2>1. OnlyIn(s.scheduler, x, SchedulerQueue(s.state[x]))
    BY DEF TiersInv, RequestInv
  <2>2. SchedulerQueue(s.state[x]) # "pending"
    BY DEF SchedulerQueue
  <2> QED
    BY <1>1, <2>1, <2>2 DEF OnlyIn
<1> QED
  BY <1>1, <1>2

(* The arrival of a request preserves the invariant.                       *)
LEMMA ArrivePreserves ==
  ASSUME ServingInv, NEW r \in Requests, Arrive(r)
  PROVE  ServingInv'
<1> DEFINE s == State
<1>1. PICK where \in {"same", "apart"} : Becomes(RouterArrival(s, r, where))
  BY DEF Arrive
<1> DEFINE t == RouterArrival(s, r, where)
<1>2. s \in StateType /\ s.state[r] = "NONE" /\ s.raised = raised
  BY DEF ServingInv, Arrive, State
<1>3. s.scheduler["pending"] = {} /\ TiersInv(s, r)
  BY <1>2, NobodyPending DEF ServingInv
<1> HIDE DEF s
<1>4. /\ t \in StateType /\ t.raised = s.raised
      /\ Others(s, t, r) /\ TiersInv(t, r)
  BY <1>2, <1>3, RouterArrivalDoes
<1>5. \A x \in Requests : TiersInv(t, x)
  BY <1>2, <1>4, HandlerPreserves DEF ServingInv, s
<1>6. Becomes(t) /\ ~t.raised
  BY <1>1, <1>2, <1>4 DEF ServingInv, s
<1> HIDE DEF t
<1> QED
  BY <1>4, <1>5, <1>6, InvCarries

(* A node that moves up to a state other than COMPLETED leaves its request *)
(* where it is; NONE to QUEUED takes the call that brought it.             *)
LEMMA NodeMoves ==
  ASSUME NEW s \in StateType, NEW t \in StateType,
         NEW k \in Kinds, NEW r \in Requests, TiersInv(s, r),
         At(s, k, r) \in {"NONE", "QUEUED"},
         At(s, k, r) = "NONE" => OnItsWay(s, k, r),
         NEW to, to = IF At(s, k, r) = "NONE" THEN "QUEUED" ELSE "RUNNING",
         t.node = [s.node EXCEPT ![Node(k, r)] = to],
         t.events = s.events \ {Event(IF k = "flow" THEN "flow_arrival"
                                      ELSE "task_arrival", k, r)},
         t.state = s.state, t.placed = s.placed, t.submitted = s.submitted,
         t.router = s.router, t.scheduler = s.scheduler,
         \A x \in Requests \ {r} : t.present[x] = s.present[x],
         InOrder => ChainInv(t, r)
  PROVE  Others(s, t, r) /\ TiersInv(t, r)
<1>1. \A l \in Kinds, x \in Requests :
        /\ Node(l, x) \in Nodes
        /\ Node(l, x) = Node(k, r) <=> l = k /\ x = r
  BY NodesApart
<1>2. \A l \in Kinds, x \in Requests :
        At(t, l, x) = IF l = k /\ x = r THEN to ELSE At(s, l, x)
  BY <1>1 DEF At, StateType
<1>3. \A c, l, x :
        Waits(t, c, l, x) <=>
          /\ Waits(s, c, l, x)
          /\ ~ /\ c = (IF k = "flow" THEN "flow_arrival" ELSE "task_arrival")
               /\ l = k /\ x = r
  BY EventsApart DEF Waits
<1>4. Others(s, t, r)
  BY <1>2, <1>3 DEF Others
<1>5. \A l \in Kinds : OnItsWay(t, l, r) <=> OnItsWay(s, l, r) /\ l # k
  BY <1>3 DEF OnItsWay
<1>6. /\ RequestInv(s, r) /\ NodesInv(s, r)
      /\ OnlyIn(s.router, r, RouterQueue(s.state[r]))
  BY DEF TiersInv
<1>7. /\ "prompt" \in Kinds /\ "flow" \in Kinds /\ "token" \in Kinds
      /\ to \in {"QUEUED", "RUNNING"}
  BY DEF Kinds
<1>8. \A l \in Kinds : /\ Begun(t, l, r) <=> Begun(s, l, r)
                       /\ At(t, l, r) = "COMPLETED" <=> At(s, l, r) = "COMPLETED"
  BY <1>2, <1>5, <1>7 DEF Begun
<1>9. RequestInv(t, r)
  <2>1. /\ Waits(t, "request_arrival", "prompt", r) <=>
             Waits(s, "request_arrival", "prompt", r)
        /\ Waits(t, "request_completion", "token", r) <=>
             Waits(s, "request_completion", "token", r)
    BY <1>3
  <2> QED
    BY <1>6, <1>7, <1>8, <2>1 DEF RequestInv
<1>10. NodesInv(t, r)
  <2>1. ASSUME NEW l \in Kinds
        PROVE  /\ OnItsWay(t, l, r) => At(t, l, r) = "NONE"
               /\ l \in t.submitted[r] <=>
                    OnItsWay(t, l, r) \/ At(t, l, r) \in {"QUEUED", "RUNNING"}
               /\ t.placed[r] = "no" => ~Begun(t, l, r)
    BY <1>2, <1>5, <1>6, <1>7, <1>8 DEF NodesInv
  <2> QED
    BY <1>6, <1>7, <1>8, <2>1 DEF NodesInv
<1> QED
  BY <1>4, <1>6, <1>9, <1>10 DEF TiersInv

(* A node that starts to run preserves it; it needs that tasks of one      *)
(* instance run in the order of their arrival.                             *)
LEMMA RunPreserves ==
  ASSUME ServingInv, NEW n \in Nodes, Run(n)
  PROVE  ServingInv'
<1> DEFINE s == State
           k == n.kind
           r == n.req
           t == NodeTransition(s, n, "QUEUED", "RUNNING")
<1>1. k \in Kinds /\ r \in Requests /\ n = Node(k, r) /\ n \in Nodes
  BY NodesApart
<1>2. /\ s \in StateType /\ s.node[n] = "QUEUED" /\ s.raised = raised
      /\ Becomes(t) /\ ~raised
      /\ \A x \in Requests : TiersInv(s, x)
      /\ k # "flow" /\ s.placed[r] = "same" => Head(s.present[r]) = k
  BY DEF ServingInv, Run, State
<1> HIDE DEF s, k, r
<1>3. /\ t \in StateType
      /\ t.node = [s.node EXCEPT ![n] = "RUNNING"]
      /\ t.state = s.state /\ t.placed = s.placed /\ t.present = s.present
      /\ t.router = s.router /\ t.scheduler = s.scheduler
      /\ t.submitted = s.submitted /\ t.events = s.events
      /\ t.raised = s.raised
  <2>1. "RUNNING" \in NodeStates
    BY DEF NodeStates
  <2> QED
    BY <1>2, <2>1, NodeTransitionDoes
<1> HIDE DEF t
<1>4. At(s, k, r) = "QUEUED" /\ TiersInv(s, r) /\ ~OnItsWay(s, k, r)
  BY <1>1, <1>2 DEF At, TiersInv, NodesInv
<1>5. /\ \A l \in Kinds : At(t, l, r) = IF l = k THEN "RUNNING" ELSE At(s, l, r)
      /\ "prompt" \in Kinds /\ "flow" \in Kinds /\ "token" \in Kinds
  BY <1>1, <1>2, <1>3, NodesApart DEF At, StateType, Kinds
<1>6. ASSUME InOrder PROVE ChainInv(t, r)
  <2>1. ChainInv(s, r)
    BY <1>4, <1>6 DEF TiersInv
  <2>2. /\ Here(t, "prompt", r) = Here(s, "prompt", r)
        /\ Here(t, "token", r) = Here(s, "token", r)
    BY <1>4, <1>5 DEF Here
  <2>3. ASSUME k = "token", s.placed[r] = "same"
        PROVE  At(s, "prompt", r) = "COMPLETED"
    <3>1. CASE At(s, "prompt", r) \in {"QUEUED", "RUNNING"}
      <4>1. /\ Here(s, "prompt", r) = <<"prompt">>
            /\ Here(s, "token", r) = <<"token">>
        BY <1>4, <2>3, <3>1 DEF Here
      <4>2. s.present[r] = <<"prompt">> \o <<"token">>
        BY <2>1, <2>3, <4>1 DEF ChainInv
      <4>3. Head(s.present[r]) = "prompt"
        BY <4>2
      <4> QED
        BY <1>2, <2>3, <4>3
    <3>2. At(s, "prompt", r) # "NONE"
      BY <1>4, <2>1, <2>3 DEF ChainInv, TiersInv, NodesInv, Begun
    <3>3. At(s, "prompt", r) \in NodeStates
      BY <1>1, <1>2, <1>5, NodesApart DEF At, StateType
    <3> QED
      BY <3>1, <3>2, <3>3 DEF NodeStates
  <2>4. \A l : OnItsWay(t, l, r) <=> OnItsWay(s, l, r)
    BY <1>3 DEF OnItsWay, Waits
  <2> QED
    BY <1>3, <1>4, <1>5, <2>1, <2>2, <2>3, <2>4 DEF ChainInv
<1>7. t.events = s.events \ {Event(IF k = "flow" THEN "flow_arrival"
                                   ELSE "task_arrival", k, r)}
  BY <1>3, <1>4 DEF OnItsWay, Waits
<1>8. Others(s, t, r) /\ TiersInv(t, r)
  BY <1>1, <1>2, <1>3, <1>4, <1>6, <1>7, NodeMoves
<1>9. \A x \in Requests : TiersInv(t, x)
  BY <1>1, <1>2, <1>3, <1>8, HandlerPreserves
<1> QED
  BY <1>2, <1>3, <1>9, InvCarries

(* The event handled is out of the heap when its handler runs.             *)
Handled(s, e) == [s EXCEPT !.events = s.events \ {e}]

(* Taking an event out of the heap changes nothing else.                   *)
LEMMA HandledDoes ==
  ASSUME NEW s \in StateType, NEW e \in Calls,
         NEW u, u = Handled(s, e)
  PROVE  /\ u \in StateType
         /\ u.events = s.events \ {e}
         /\ u.state = s.state /\ u.placed = s.placed /\ u.node = s.node
         /\ u.present = s.present /\ u.router = s.router
         /\ u.scheduler = s.scheduler /\ u.submitted = s.submitted
         /\ u.raised = s.raised
         /\ \A c, k, x : Waits(u, c, k, x) <=>
              Waits(s, c, k, x) /\ Event(c, k, x) # e
         /\ \A k, x : At(u, k, x) = At(s, k, x)
         /\ Others(s, u, e.on.req)
<1>1. s.events \ {e} \in SUBSET Calls
  BY DEF StateType
<1>2. /\ u \in StateType
      /\ u.events = s.events \ {e}
      /\ u.state = s.state /\ u.placed = s.placed /\ u.node = s.node
      /\ u.present = s.present /\ u.router = s.router
      /\ u.scheduler = s.scheduler /\ u.submitted = s.submitted
      /\ u.raised = s.raised
  BY <1>1 DEF Handled, StateType
<1>3. /\ \A c, k, x : Waits(u, c, k, x) <=>
           Waits(s, c, k, x) /\ Event(c, k, x) # e
      /\ \A k, x : At(u, k, x) = At(s, k, x)
  BY <1>2 DEF Waits, At
<1>4. \A c, k : \A x \in Requests \ {e.on.req} : Event(c, k, x) # e
  <2>1. e = Event(e.call, e.on.kind, e.on.req)
    BY CallsAre
  <2> QED
    BY <2>1, EventsApart
<1>5. Others(s, u, e.on.req)
  BY <1>2, <1>3, <1>4 DEF Others
<1> QED
  BY <1>2, <1>3, <1>5

(* The four calls that may have waited.  request_arrival of the scheduler: *)
(* the request was held by the router, and nobody is pending.              *)
LEMMA RequestArrivalCalled ==
  ASSUME NEW s \in StateType, \A x \in Requests : TiersInv(s, x),
         NEW e \in s.events, e.call = "request_arrival",
         NEW where \in {"same", "apart"},
         NEW t, t = SchedulerArrival(Handled(s, e), e.on.req, where)
  PROVE  /\ t \in StateType /\ t.raised = s.raised
         /\ Others(s, t, e.on.req) /\ TiersInv(t, e.on.req)
<1> DEFINE r == e.on.req
           u == Handled(s, e)
<1>1. /\ e \in Calls /\ r \in Requests
      /\ e = Event("request_arrival", "prompt", r)
  <2>1. e \in Calls
    BY DEF StateType
  <2>2. /\ e.on \in Nodes /\ e = Event(e.call, e.on.kind, r)
        /\ <<e.call, e.on.kind>> \in Waiting
    BY <2>1, CallsAre
  <2>3. e.on.kind = "prompt"
    BY <2>2 DEF Waiting
  <2> QED
    BY <2>1, <2>2, <2>3, NodesApart
<1>2. /\ u \in StateType
      /\ u.state = s.state /\ u.placed = s.placed
      /\ u.present = s.present /\ u.router = s.router
      /\ u.scheduler = s.scheduler /\ u.submitted = s.submitted
      /\ u.raised = s.raised
      /\ \A c, k, x : Waits(u, c, k, x) <=> Waits(s, c, k, x) /\ Event(c, k, x) # e
      /\ \A k, x : At(u, k, x) = At(s, k, x)
      /\ Others(s, u, r)
  BY <1>1, HandledDoes
<1> HIDE DEF r, u
<1>3. /\ RequestInv(s, r) /\ NodesInv(s, r) /\ (InOrder => ChainInv(s, r))
      /\ OnlyIn(s.router, r, RouterQueue(s.state[r]))
  BY <1>1 DEF TiersInv
<1>4. s.state[r] = "QUEUED_AT_ROUTER" /\ s.placed[r] = "no"
  BY <1>1, <1>3 DEF RequestInv, Waits
<1>5. Fresh(u, r)
  <2>1. \A k \in Kinds : ~Begun(s, k, r)
    BY <1>3, <1>4 DEF NodesInv
  <2>2. \A k \in Kinds : k \notin s.submitted[r]
    BY <1>3, <2>1 DEF NodesInv, Begun
  <2>3. s.submitted[r] = {}
    BY <1>1, <2>2 DEF StateType
  <2>4. \A k \in Kinds : ~Begun(u, k, r)
    BY <1>2, <2>1 DEF Begun, OnItsWay
  <2>5. ~Waits(u, "request_arrival", "prompt", r)
    BY <1>1, <1>2
  <2>6. ~Waits(u, "request_completion", "token", r)
    BY <1>2, <1>3, <1>4 DEF RequestInv
  <2>7. InOrder => u.present[r] = <<>>
    BY <1>2, <1>3, <1>4 DEF ChainInv
  <2> QED
    BY <1>2, <1>4, <2>3, <2>4, <2>5, <2>6, <2>7 DEF Fresh
<1>6. u.scheduler["pending"] = {} /\ OnlyIn(u.scheduler, r, "none")
  BY <1>2, <1>3, <1>4, NobodyPending DEF RequestInv, SchedulerQueue
<1>7. /\ t \in StateType /\ t.raised = u.raised
      /\ Others(u, t, r)
      /\ t.router = u.router /\ t.state[r] = "RUNNING_ON_EXECUTOR"
      /\ RequestInv(t, r) /\ NodesInv(t, r)
      /\ InOrder => ChainInv(t, r)
  <2>1. t = SchedulerArrival(u, r, where) /\ u.state[r] = "QUEUED_AT_ROUTER"
    BY <1>2, <1>4 DEF u, r
  <2> QED
    BY <1>1, <1>2, <1>5, <1>6, <2>1, SchedulerArrivalDoes
<1>8. OnlyIn(t.router, r, RouterQueue(t.state[r]))
  BY <1>2, <1>3, <1>4, <1>7 DEF RouterQueue
<1>9. Others(s, t, r)
  BY <1>2, <1>7, OthersCompose
<1> QED
  BY <1>2, <1>7, <1>8, <1>9 DEF TiersInv, r

(* task_arrival: it waited, so that submit_task has an overhead, and the   *)
(* tasks of a chain may arrive in either order.                            *)
LEMMA TaskArrivalCalled ==
  ASSUME NEW s \in StateType, \A x \in Requests : TiersInv(s, x),
         NEW e \in s.events, e.call = "task_arrival",
         NEW t, t = TaskArrival(Handled(s, e), e.on)
  PROVE  /\ t \in StateType /\ t.raised = s.raised
         /\ Others(s, t, e.on.req) /\ TiersInv(t, e.on.req)
<1> DEFINE r == e.on.req
           k == e.on.kind
           u == Handled(s, e)
<1>1. /\ e \in Calls /\ r \in Requests /\ k \in {"prompt", "token"}
      /\ e = Event("task_arrival", k, r) /\ e.on = Node(k, r)
      /\ k \in Kinds /\ "prompt" \in Kinds /\ "token" \in Kinds
  <2>1. e \in Calls
    BY DEF StateType
  <2>2. /\ e.on \in Nodes /\ e = Event(e.call, k, r)
        /\ <<e.call, k>> \in Waiting
    BY <2>1, CallsAre
  <2>3. k \in {"prompt", "token"}
    BY <2>2 DEF Waiting
  <2> QED
    BY <2>1, <2>2, <2>3, NodesApart DEF Kinds
<1>2. /\ u \in StateType
      /\ u.events = s.events \ {e}
      /\ u.state = s.state /\ u.placed = s.placed /\ u.node = s.node
      /\ u.present = s.present /\ u.router = s.router
      /\ u.scheduler = s.scheduler /\ u.submitted = s.submitted
      /\ u.raised = s.raised
      /\ \A l, x : At(u, l, x) = At(s, l, x)
  BY <1>1, HandledDoes
<1> HIDE DEF u
<1>3. t = TaskArrival(u, Node(k, r))
  BY <1>1 DEF u
<1> HIDE DEF r, k
<1>4. TiersInv(s, r) /\ OnItsWay(s, k, r) /\ At(s, k, r) = "NONE"
  BY <1>1 DEF TiersInv, NodesInv, OnItsWay, Waits
<1>5. /\ t \in StateType
      /\ t.node = [u.node EXCEPT ![Node(k, r)] = "QUEUED"]
      /\ t.present = [u.present EXCEPT ![r] = Append(@, k)]
      /\ t.state = u.state /\ t.placed = u.placed
      /\ t.router = u.router /\ t.scheduler = u.scheduler
      /\ t.submitted = u.submitted /\ t.events = u.events
      /\ t.raised = u.raised
  <2>1. At(u, k, r) = "NONE" /\ u \in StateType
    BY <1>1, <1>2, <1>4
  <2> QED
    BY <1>1, <1>3, <2>1, TaskArrivalDoes
<1>6. \A l \in Kinds : At(t, l, r) = IF l = k THEN "QUEUED" ELSE At(s, l, r)
  BY <1>1, <1>2, <1>5, NodesApart DEF At, StateType
<1>7. /\ t.present[r] = Append(s.present[r], k)
      /\ \A x \in Requests \ {r} : t.present[x] = s.present[x]
  BY <1>1, <1>2, <1>5 DEF StateType
<1>8. InOrder => ChainInv(t, r)
  BY <1>1, <1>4 DEF TiersInv, ChainInv
<1>9. t.events = s.events \ {Event(IF k = "flow" THEN "flow_arrival"
                                   ELSE "task_arrival", k, r)}
  BY <1>1, <1>2, <1>5
<1>10. Others(s, t, r) /\ TiersInv(t, r)
  <2>1. /\ t.node = [s.node EXCEPT ![Node(k, r)] = "QUEUED"]
        /\ t.state = s.state /\ t.placed = s.placed /\ t.submitted = s.submitted
        /\ t.router = s.router /\ t.scheduler = s.scheduler
    BY <1>2, <1>5
  <2> QED
    BY <1>1, <1>4, <1>5, <1>7, <1>8, <1>9, <2>1, NodeMoves
<1> QED
  BY <1>2, <1>5, <1>10 DEF r

(* flow_arrival: the flow has not arrived yet.                             *)
LEMMA FlowArrivalCalled ==
  ASSUME NEW s \in StateType, \A x \in Requests : TiersInv(s, x),
         NEW e \in s.events, e.call = "flow_arrival",
         NEW t, t = FlowArrival(Handled(s, e), e.on)
  PROVE  /\ t \in StateType /\ t.raised = s.raised
         /\ Others(s, t, e.on.req) /\ TiersInv(t, e.on.req)
<1> DEFINE r == e.on.req
           u == Handled(s, e)
<1>1. /\ e \in Calls /\ r \in Requests /\ e.on \in Nodes
      /\ e = Event("flow_arrival", "flow", r) /\ e.on = Node("flow", r)
      /\ "flow" \in Kinds /\ "prompt" \in Kinds /\ "token" \in Kinds
  <2>1. e \in Calls
    BY DEF StateType
  <2>2. /\ e.on \in Nodes /\ e = Event(e.call, e.on.kind, r)
        /\ <<e.call, e.on.kind>> \in Waiting
    BY <2>1, CallsAre
  <2>3. e.on.kind = "flow"
    BY <2>2 DEF Waiting
  <2> QED
    BY <2>1, <2>2, <2>3, NodesApart DEF Kinds
<1>2. /\ u \in StateType
      /\ u.events = s.events \ {e}
      /\ u.state = s.state /\ u.placed = s.placed /\ u.node = s.node
      /\ u.present = s.present /\ u.router = s.router
      /\ u.scheduler = s.scheduler /\ u.submitted = s.submitted
      /\ u.raised = s.raised
  BY <1>1, HandledDoes
<1> HIDE DEF u
<1>3. t = NodeTransition(u, e.on, "NONE", "QUEUED")
  BY DEF u, FlowArrival
<1> HIDE DEF r
<1>4. TiersInv(s, r) /\ OnItsWay(s, "flow", r) /\ At(s, "flow", r) = "NONE"
  BY <1>1 DEF TiersInv, NodesInv, OnItsWay, Waits
<1>5. /\ t \in StateType
      /\ t.node = [u.node EXCEPT ![e.on] = "QUEUED"]
      /\ t.state = u.state /\ t.placed = u.placed /\ t.present = u.present
      /\ t.router = u.router /\ t.scheduler = u.scheduler
      /\ t.submitted = u.submitted /\ t.events = u.events
      /\ t.raised = u.raised
  <2>1. u.node[e.on] = "NONE" /\ "QUEUED" \in NodeStates
    BY <1>1, <1>2, <1>4 DEF At, NodeStates
  <2> QED
    BY <1>1, <1>2, <1>3, <2>1, NodeTransitionDoes
<1>6. /\ At(t, "prompt", r) = At(s, "prompt", r)
      /\ At(t, "token", r) = At(s, "token", r)
  BY <1>1, <1>2, <1>5, NodesApart DEF At, StateType
<1>7. InOrder => ChainInv(t, r)
  <2>1. \A l : OnItsWay(t, l, r) => OnItsWay(s, l, r)
    BY <1>2, <1>5 DEF OnItsWay, Waits
  <2> QED
    BY <1>2, <1>4, <1>5, <1>6, <2>1 DEF TiersInv, ChainInv, Here
<1>8. Others(s, t, r) /\ TiersInv(t, r)
  <2>1. /\ t.node = [s.node EXCEPT ![Node("flow", r)] = "QUEUED"]
        /\ t.state = s.state /\ t.placed = s.placed /\ t.submitted = s.submitted
        /\ t.router = s.router /\ t.scheduler = s.scheduler
        /\ \A x \in Requests \ {r} : t.present[x] = s.present[x]
        /\ t.events = s.events \ {Event("flow_arrival", "flow", r)}
    BY <1>1, <1>2, <1>5
  <2> QED
    BY <1>1, <1>4, <1>5, <1>7, <2>1, NodeMoves
<1> QED
  BY <1>2, <1>5, <1>8 DEF r

(* request_completion: the token task is complete.                         *)
LEMMA RequestCompletionCalled ==
  ASSUME NEW s \in StateType, \A x \in Requests : TiersInv(s, x),
         NEW e \in s.events, e.call = "request_completion",
         NEW t, t = RequestCompletion(Handled(s, e), e.on.req)
  PROVE  /\ t \in StateType /\ t.raised = s.raised
         /\ Others(s, t, e.on.req) /\ TiersInv(t, e.on.req)
<1> DEFINE r == e.on.req
           u == Handled(s, e)
<1>1. /\ e \in Calls /\ r \in Requests
      /\ e = Event("request_completion", "token", r)
  <2>1. e \in Calls
    BY DEF StateType
  <2>2. /\ e.on \in Nodes /\ e = Event(e.call, e.on.kind, r)
        /\ <<e.call, e.on.kind>> \in Waiting
    BY <2>1, CallsAre
  <2>3. e.on.kind = "token"
    BY <2>2 DEF Waiting
  <2> QED
    BY <2>1, <2>2, <2>3, NodesApart
<1>2. /\ u \in StateType
      /\ u.state = s.state /\ u.placed = s.placed
      /\ u.present = s.present /\ u.router = s.router
      /\ u.scheduler = s.scheduler /\ u.submitted = s.submitted
      /\ u.raised = s.raised
      /\ \A c, k, x : Waits(u, c, k, x) <=> Waits(s, c, k, x) /\ Event(c, k, x) # e
      /\ \A k, x : At(u, k, x) = At(s, k, x)
      /\ Others(s, u, r)
  BY <1>1, HandledDoes
<1>3. t = RequestCompletion(u, r)
  OBVIOUS
<1> HIDE DEF r, u
<1>4. /\ RequestInv(s, r) /\ NodesInv(s, r) /\ (InOrder => ChainInv(s, r))
      /\ OnlyIn(s.router, r, RouterQueue(s.state[r]))
  BY <1>1 DEF TiersInv
<1>5. /\ s.state[r] = "RUNNING_ON_EXECUTOR" /\ At(s, "token", r) = "COMPLETED"
      /\ s.placed[r] # "no" /\ ~Waits(s, "request_arrival", "prompt", r)
  BY <1>1, <1>4 DEF RequestInv, Waits
<1>6. Finishing(u, r)
  <2>1. /\ OnlyIn(u.router, r, "executing") /\ OnlyIn(u.scheduler, r, "executing")
    BY <1>2, <1>4, <1>5 DEF RequestInv, RouterQueue, SchedulerQueue
  <2>2. /\ ~Waits(u, "request_arrival", "prompt", r)
        /\ ~Waits(u, "request_completion", "token", r)
    BY <1>1, <1>2, <1>5
  <2>3. \A k : OnItsWay(u, k, r) <=> OnItsWay(s, k, r)
    BY <1>1, <1>2, EventsApart DEF OnItsWay
  <2>4. NodesInv(u, r) /\ (InOrder => ChainInv(u, r))
    BY <1>2, <1>4, <2>3 DEF NodesInv, ChainInv, Begun, Here
  <2> QED
    BY <1>2, <1>5, <2>1, <2>2, <2>4 DEF Finishing
<1>7. /\ t \in StateType /\ t.raised = u.raised
      /\ Others(u, t, r) /\ TiersInv(t, r)
  BY <1>1, <1>2, <1>3, <1>6, RequestCompletionDoes
<1>8. Others(s, t, r)
  BY <1>2, <1>7, OthersCompose
<1> QED
  BY <1>2, <1>7, <1>8 DEF r

(* The call of an event preserves the invariant.                           *)
LEMMA CallPreserves ==
  ASSUME ServingInv, NEW e \in events, Call(e)
  PROVE  ServingInv'
<1> DEFINE s == State
           r == e.on.req
<1>1. /\ s \in StateType /\ ~s.raised /\ e \in s.events
      /\ \A x \in Requests : TiersInv(s, x)
      /\ e \in Calls
  BY DEF ServingInv, Call, State, StateType
<1>2. r \in Requests /\ e.on = Node(e.on.kind, r) /\ e = Event(e.call, e.on.kind, r)
  BY <1>1, CallsAre, NodesApart
<1>3. \E t : /\ Becomes(t) /\ t \in StateType /\ t.raised = s.raised
             /\ Others(s, t, r) /\ TiersInv(t, r)
  <2> DEFINE u == Handled(s, e)
  <2>1. u = [State EXCEPT !.events = @ \ {e}]
    BY DEF Handled
  <2>2. CASE e.call = "request_arrival"
    <3>1. PICK where \in {"same", "apart"} : Becomes(SchedulerArrival(u, r, where))
      BY <2>1, <2>2 DEF Call
    <3> QED
      BY <1>1, <2>2, <3>1, RequestArrivalCalled
  <2>3. CASE e.call = "task_arrival"
    <3>1. Becomes(TaskArrival(u, e.on))
      BY <2>1, <2>3 DEF Call
    <3> QED
      BY <1>1, <2>3, <3>1, TaskArrivalCalled
  <2>4. CASE e.call = "flow_arrival"
    <3>1. Becomes(FlowArrival(u, e.on))
      BY <2>1, <2>4 DEF Call
    <3> QED
      BY <1>1, <2>4, <3>1, FlowArrivalCalled
  <2>5. CASE e.call = "request_completion"
    <3>1. Becomes(RequestCompletion(u, r))
      BY <2>1, <2>5 DEF Call
    <3> QED
      BY <1>1, <2>5, <3>1, RequestCompletionCalled
  <2> QED
    BY <2>2, <2>3, <2>4, <2>5 DEF Call
<1>4. PICK t : /\ Becomes(t) /\ t \in StateType /\ t.raised = s.raised
               /\ Others(s, t, r) /\ TiersInv(t, r)
  BY <1>3
<1>5. \A x \in Requests : TiersInv(t, x)
  BY <1>1, <1>2, <1>4, HandlerPreserves
<1> QED
  BY <1>1, <1>4, <1>5, InvCarries
-----------------------------------------------------------------------------
(* What the completion of a node leaves, before its successor is looked    *)
(* for: the node is complete and no longer submitted, its instance has     *)
(* let go of it, and all the rest is as it was.                            *)
Left(s, t, k, r) ==
  /\ t \in StateType
  /\ t.state = s.state /\ t.placed = s.placed
  /\ t.router = s.router /\ t.scheduler = s.scheduler
  /\ t.events = s.events /\ t.raised = s.raised
  /\ t.node = [s.node EXCEPT ![Node(k, r)] = "COMPLETED"]
  /\ t.submitted = [s.submitted EXCEPT ![r] = @ \ {k}]
  /\ t.present = IF k = "flow" THEN s.present
                 ELSE [s.present EXCEPT ![r] = RemoveFirst(@, k)]

(* The two steps on the way: the instance lets go of a task, and the       *)
(* executor takes the node off its list.                                   *)
Released(s, n) ==
  IF n.kind = "flow" THEN s
  ELSE [s EXCEPT !.present[n.req] = RemoveFirst(@, n.kind)]

Withdrawn(s, n) ==
  [Check(s, n.kind \in s.submitted[n.req]) EXCEPT !.submitted[n.req] = @ \ {n.kind}]

(* The instance lets go of the task that completes.                        *)
LEMMA ReleasedDoes ==
  ASSUME NEW s \in StateType, NEW n \in Nodes, NEW t, t = Released(s, n)
  PROVE  /\ t \in StateType
         /\ t.present = IF n.kind = "flow" THEN s.present
                        ELSE [s.present EXCEPT ![n.req] = RemoveFirst(@, n.kind)]
         /\ t.state = s.state /\ t.placed = s.placed /\ t.node = s.node
         /\ t.router = s.router /\ t.scheduler = s.scheduler
         /\ t.submitted = s.submitted /\ t.events = s.events
         /\ t.raised = s.raised
<1>1. CASE n.kind = "flow"
  BY <1>1 DEF Released
<1>2. CASE n.kind # "flow"
  <2> DEFINE q == [s.present EXCEPT ![n.req] = RemoveFirst(s.present[n.req], n.kind)]
  <2>1. s.present \in [Requests -> Seq(Kinds)] /\ n.req \in Requests
    BY NodesApart DEF StateType
  <2>2. RemoveFirst(s.present[n.req], n.kind) \in Seq(Kinds)
    BY <2>1, RemoveFirstDoes
  <2>3. q \in [Requests -> Seq(Kinds)]
    BY <2>1, <2>2
  <2>4. t = [s EXCEPT !.present = q]
    BY <1>2 DEF Released
  <2> HIDE DEF q
  <2>5. /\ t \in StateType /\ t.present = q
        /\ t.state = s.state /\ t.placed = s.placed /\ t.node = s.node
        /\ t.router = s.router /\ t.scheduler = s.scheduler
        /\ t.submitted = s.submitted /\ t.events = s.events
        /\ t.raised = s.raised
    BY <2>3, <2>4 DEF StateType
  <2> QED
    BY <1>2, <2>5 DEF q
<1> QED
  BY <1>1, <1>2

(* The executor finds the node on its list and removes it.                 *)
LEMMA WithdrawnDoes ==
  ASSUME NEW s \in StateType, NEW n \in Nodes, n.kind \in s.submitted[n.req],
         NEW t, t = Withdrawn(s, n)
  PROVE  /\ t \in StateType
         /\ t.submitted = [s.submitted EXCEPT ![n.req] = @ \ {n.kind}]
         /\ t.state = s.state /\ t.placed = s.placed /\ t.node = s.node
         /\ t.router = s.router /\ t.scheduler = s.scheduler
         /\ t.present = s.present /\ t.events = s.events
         /\ t.raised = s.raised
<1> DEFINE q == [s.submitted EXCEPT ![n.req] = s.submitted[n.req] \ {n.kind}]
<1>1. Check(s, n.kind \in s.submitted[n.req]) = s
  BY CheckHolds
<1>2. t = [s EXCEPT !.submitted = q]
  BY <1>1 DEF Withdrawn
<1>3. q \in [Requests -> SUBSET Kinds]
  <2>1. s.submitted \in [Requests -> SUBSET Kinds] /\ n.req \in Requests
    BY NodesApart DEF StateType
  <2>2. s.submitted[n.req] \ {n.kind} \in SUBSET Kinds
    BY <2>1
  <2> QED
    BY <2>1, <2>2
<1> HIDE DEF q
<1>4. /\ t \in StateType /\ t.submitted = q
      /\ t.state = s.state /\ t.placed = s.placed /\ t.node = s.node
      /\ t.router = s.router /\ t.scheduler = s.scheduler
      /\ t.present = s.present /\ t.events = s.events
      /\ t.raised = s.raised
  BY <1>2, <1>3 DEF StateType
<1> QED
  BY <1>4 DEF q

(* Both, after the node's own transition.                                  *)
LEMMA CompleteLeaves ==
  ASSUME NEW s \in StateType, NEW n \in Nodes,
         s.node[n] = "RUNNING", n.kind \in s.submitted[n.req],
         NEW s1, s1 = NodeTransition(s, n, "RUNNING", "COMPLETED"),
         NEW s2, s2 = Released(s1, n),
         NEW s3, s3 = Withdrawn(s2, n)
  PROVE  Left(s, s3, n.kind, n.req) /\ s2.placed = s.placed /\ s2.node = s3.node
<1>1. "COMPLETED" \in NodeStates /\ n = Node(n.kind, n.req)
  BY NodesApart DEF NodeStates
<1>2. /\ s1 \in StateType
      /\ s1.node = [s.node EXCEPT ![n] = "COMPLETED"]
      /\ s1.state = s.state /\ s1.placed = s.placed /\ s1.present = s.present
      /\ s1.router = s.router /\ s1.scheduler = s.scheduler
      /\ s1.submitted = s.submitted /\ s1.events = s.events
      /\ s1.raised = s.raised
  BY <1>1, NodeTransitionDoes
<1>3. /\ s2 \in StateType
      /\ s2.present = IF n.kind = "flow" THEN s1.present
                      ELSE [s1.present EXCEPT ![n.req] = RemoveFirst(@, n.kind)]
      /\ s2.state = s1.state /\ s2.placed = s1.placed /\ s2.node = s1.node
      /\ s2.router = s1.router /\ s2.scheduler = s1.scheduler
      /\ s2.submitted = s1.submitted /\ s2.events = s1.events
      /\ s2.raised = s1.raised
  BY <1>2, ReleasedDoes
<1>4. /\ s3 \in StateType
      /\ s3.submitted = [s2.submitted EXCEPT ![n.req] = @ \ {n.kind}]
      /\ s3.state = s2.state /\ s3.placed = s2.placed /\ s3.node = s2.node
      /\ s3.router = s2.router /\ s3.scheduler = s2.scheduler
      /\ s3.present = s2.present /\ s3.events = s2.events
      /\ s3.raised = s2.raised
  BY <1>2, <1>3, WithdrawnDoes
<1>5. /\ s3.state = s.state /\ s3.placed = s.placed
      /\ s3.router = s.router /\ s3.scheduler = s.scheduler
      /\ s3.events = s.events /\ s3.raised = s.raised
  BY <1>2, <1>3, <1>4
<1>6. s3.node = [s.node EXCEPT ![Node(n.kind, n.req)] = "COMPLETED"]
  <2>1. s3.node = s1.node
    BY <1>3, <1>4
  <2> QED
    BY <2>1, <1>1, <1>2
<1>7. s3.submitted = [s.submitted EXCEPT ![n.req] = @ \ {n.kind}]
  <2>1. s2.submitted = s.submitted
    BY <1>2, <1>3
  <2> QED
    BY <2>1, <1>4
<1>8. s3.present = IF n.kind = "flow" THEN s.present
                   ELSE [s.present EXCEPT ![n.req] = RemoveFirst(@, n.kind)]
  <2>1. s1.present = s.present /\ s3.present = s2.present
    BY <1>2, <1>4
  <2> QED
    BY <2>1, <1>3
<1>9. s2.placed = s.placed /\ s2.node = s3.node
  BY <1>2, <1>3, <1>4
<1> QED
  BY <1>4, <1>5, <1>6, <1>7, <1>8, <1>9 DEF Left

(* What that does, seen from the request of the node.                      *)
LEMMA LeftView ==
  ASSUME NEW s \in StateType, NEW t, NEW k \in Kinds, NEW r \in Requests,
         Left(s, t, k, r)
  PROVE  /\ Others(s, t, r)
         /\ \A l \in Kinds : At(t, l, r) = IF l = k THEN "COMPLETED" ELSE At(s, l, r)
         /\ \A l \in Kinds : OnItsWay(t, l, r) <=> OnItsWay(s, l, r)
         /\ \A l \in Kinds : l \in t.submitted[r] <=> l \in s.submitted[r] /\ l # k
         /\ \A c, l : Waits(t, c, l, r) <=> Waits(s, c, l, r)
         /\ k # "flow" => t.present[r] = RemoveFirst(s.present[r], k)
<1>1. /\ DOMAIN s.node = Nodes /\ DOMAIN s.present = Requests
      /\ DOMAIN s.submitted = Requests
  BY DEF StateType
<1>2. \A l \in Kinds, x \in Requests :
        /\ Node(l, x) \in Nodes
        /\ Node(l, x) = Node(k, r) <=> l = k /\ x = r
  BY NodesApart
<1>3. \A l \in Kinds, x \in Requests :
        At(t, l, x) = IF l = k /\ x = r THEN "COMPLETED" ELSE At(s, l, x)
  BY <1>1, <1>2 DEF Left, At
<1>4. \A c, l, x : Waits(t, c, l, x) <=> Waits(s, c, l, x)
  BY DEF Left, Waits
<1>5. /\ \A x \in Requests \ {r} : /\ t.present[x] = s.present[x]
                                   /\ t.submitted[x] = s.submitted[x]
      /\ t.submitted[r] = s.submitted[r] \ {k}
      /\ k # "flow" => t.present[r] = RemoveFirst(s.present[r], k)
  BY <1>1 DEF Left
<1>6. Others(s, t, r)
  BY <1>3, <1>4, <1>5 DEF Left, Others
<1>7. \A l \in Kinds : OnItsWay(t, l, r) <=> OnItsWay(s, l, r)
  BY <1>4 DEF OnItsWay
<1> QED
  BY <1>3, <1>4, <1>5, <1>6, <1>7

NodesKept(s, t, r) ==
  \A l \in Kinds :
    /\ OnItsWay(t, l, r) => At(t, l, r) = "NONE"
    /\ l \in t.submitted[r] <=>
         OnItsWay(t, l, r) \/ At(t, l, r) \in {"QUEUED", "RUNNING"}
    /\ Begun(t, l, r) <=> Begun(s, l, r)

(* A completion keeps the list of submitted nodes true, the tasks present  *)
(* in order, and the request, unless its token task is complete, where it  *)
(* is.                                                                     *)
LEMMA LeftInv ==
  ASSUME NEW s \in StateType, NEW t, NEW k \in Kinds, NEW r \in Requests,
         Left(s, t, k, r), TiersInv(s, r), At(s, k, r) = "RUNNING"
  PROVE  /\ t.placed[r] = s.placed[r] /\ t.placed[r] \in {"same", "apart"}
         /\ NodesKept(s, t, r)
         /\ OnlyIn(t.router, r, RouterQueue(t.state[r]))
         /\ k # "token" => RequestInv(t, r)
         /\ InOrder => ChainInv(t, r)
<1>1. /\ \A l \in Kinds : At(t, l, r) = IF l = k THEN "COMPLETED" ELSE At(s, l, r)
      /\ \A l \in Kinds : OnItsWay(t, l, r) <=> OnItsWay(s, l, r)
      /\ \A l \in Kinds : l \in t.submitted[r] <=> l \in s.submitted[r] /\ l # k
      /\ \A c, l : Waits(t, c, l, r) <=> Waits(s, c, l, r)
      /\ k # "flow" => t.present[r] = RemoveFirst(s.present[r], k)
  BY LeftView
<1>2. /\ t.state = s.state /\ t.placed = s.placed
      /\ t.router = s.router /\ t.scheduler = s.scheduler
  BY DEF Left
<1>3. /\ RequestInv(s, r) /\ NodesInv(s, r)
      /\ OnlyIn(s.router, r, RouterQueue(s.state[r]))
      /\ "prompt" \in Kinds /\ "flow" \in Kinds /\ "token" \in Kinds
  BY DEF TiersInv, Kinds
<1>4. ASSUME NEW l \in Kinds
      PROVE  /\ OnItsWay(t, l, r) => At(t, l, r) = "NONE"
             /\ l \in t.submitted[r] <=>
                  OnItsWay(t, l, r) \/ At(t, l, r) \in {"QUEUED", "RUNNING"}
             /\ Begun(t, l, r) <=> Begun(s, l, r)
  <2>1. /\ OnItsWay(s, l, r) => At(s, l, r) = "NONE"
        /\ l \in s.submitted[r] <=>
             OnItsWay(s, l, r) \/ At(s, l, r) \in {"QUEUED", "RUNNING"}
    BY <1>3 DEF NodesInv
  <2> QED
    BY <1>1, <2>1 DEF Begun
<1>5. t.placed[r] = s.placed[r] /\ t.placed[r] \in {"same", "apart"}
  <2>1. s.placed[r] \in {"no", "same", "apart"}
    BY DEF StateType
  <2> QED
    BY <1>2, <1>3, <2>1 DEF NodesInv, Begun
<1>6. k # "token" => RequestInv(t, r)
  BY <1>1, <1>2, <1>3 DEF RequestInv
<1>7. ASSUME InOrder PROVE ChainInv(t, r)
  <2>1. ChainInv(s, r) /\ ~OnItsWay(t, "prompt", r) /\ ~OnItsWay(t, "token", r)
    BY <1>1, <1>3, <1>7 DEF TiersInv, ChainInv
  <2>2. CASE t.placed[r] = "apart"
    BY <2>1, <2>2 DEF ChainInv
  <2>3. CASE t.placed[r] = "same" /\ k = "prompt"
    <3>1. /\ Here(s, "prompt", r) = <<"prompt">> /\ Here(t, "prompt", r) = <<>>
          /\ Here(t, "token", r) = Here(s, "token", r)
          /\ Here(s, "token", r) \in {<<>>, <<"token">>}
          /\ At(t, "prompt", r) = "COMPLETED"
      BY <1>1, <1>3, <2>3 DEF Here
    <3>2. s.present[r] = <<"prompt">> \o Here(s, "token", r)
      BY <1>5, <2>1, <2>3, <3>1 DEF ChainInv
    <3>3. t.present[r] = RemoveFirst(s.present[r], "prompt")
      BY <1>1, <2>3
    <3>4. t.present[r] = <<>> \o Here(t, "token", r)
      <4>1. CASE Here(s, "token", r) = <<>>
        <5>1. s.present[r] = <<"prompt">>
          BY <3>2, <4>1, AtMostTwo
        <5>2. RemoveFirst(<<"prompt">>, "prompt") = <<>>
          BY <1>3, RemoveFirstDoes
        <5>3. t.present[r] = <<>>
          BY <3>3, <5>1, <5>2, Zenon
        <5> QED
          BY <3>1, <4>1, <5>3, AtMostTwo
      <4>2. CASE Here(s, "token", r) = <<"token">>
        <5>1. s.present[r] = <<"prompt">> \o <<"token">>
          BY <3>2, <4>2
        <5>2. RemoveFirst(<<"prompt">> \o <<"token">>, "prompt") = <<"token">>
          BY <1>3, RemoveFirstDoes
        <5>3. t.present[r] = <<"token">>
          BY <3>3, <5>1, <5>2, Zenon
        <5> QED
          BY <3>1, <4>2, <5>3, AtMostTwo
      <4> QED
        BY <3>1, <4>1, <4>2
    <3> QED
      BY <2>1, <2>3, <3>1, <3>4 DEF ChainInv
  <2>4. CASE t.placed[r] = "same" /\ k = "token"
    <3>1. At(s, "prompt", r) = "COMPLETED" /\ At(t, "prompt", r) = "COMPLETED"
      BY <1>1, <1>3, <1>5, <2>1, <2>4 DEF ChainInv
    <3>2. /\ Here(s, "prompt", r) = <<>> /\ Here(s, "token", r) = <<"token">>
          /\ Here(t, "prompt", r) = <<>> /\ Here(t, "token", r) = <<>>
      BY <1>1, <1>3, <2>4, <3>1 DEF Here
    <3>3. s.present[r] = <<"token">>
      <4>1. s.present[r] = Here(s, "prompt", r) \o Here(s, "token", r)
        BY <1>5, <2>1, <2>4 DEF ChainInv
      <4> QED
        BY <3>2, <4>1, AtMostTwo
    <3>4. t.present[r] = <<>>
      <4>1. RemoveFirst(<<"token">>, "token") = <<>>
        BY <1>3, RemoveFirstDoes
      <4>2. t.present[r] = RemoveFirst(s.present[r], "token")
        BY <1>1, <2>4
      <4> QED
        BY <3>3, <4>1, <4>2, Zenon
    <3>5. t.present[r] = Here(t, "prompt", r) \o Here(t, "token", r)
      BY <3>2, <3>4, AtMostTwo
    <3> QED
      BY <2>1, <2>4, <3>1, <3>5 DEF ChainInv
  <2>5. CASE t.placed[r] = "same" /\ k = "flow"
    BY <1>3, <1>5, <2>5 DEF NodesInv, Begun
  <2> QED
    BY <1>5, <2>2, <2>3, <2>4, <2>5 DEF Kinds
<1>8. NodesKept(s, t, r)
  BY <1>4 DEF NodesKept
<1> QED
  BY <1>2, <1>3, <1>5, <1>6, <1>7, <1>8

(* Which node follows a node, and what becomes of it: the last node        *)
(* finishes the request, a node under way is left alone, any other is      *)
(* submitted.                                                              *)
FollowUp(l, k, r) ==
  LET next == Successor(l, Node(k, r))
  IN IF k = "token" THEN FinishRequest(l, r)
     ELSE IF l.node[next] # "NONE" THEN l
     ELSE IF next.kind = "flow" THEN SubmitFlow(l, next)
     ELSE SubmitTask(l, next)

(* The last node: nothing else of its request is under way.                *)
LEMMA TokenCompletes ==
  ASSUME NEW s \in StateType, NEW l, NEW r \in Requests,
         Left(s, l, "token", r), TiersInv(s, r), At(s, "token", r) = "RUNNING",
         NEW t, t = FollowUp(l, "token", r)
  PROVE  /\ t \in StateType /\ t.raised = l.raised
         /\ Others(l, t, r) /\ TiersInv(t, r)
<1>1. /\ "prompt" \in Kinds /\ "flow" \in Kinds /\ "token" \in Kinds
      /\ l \in StateType /\ l.state = s.state /\ l.scheduler = s.scheduler
  BY DEF Kinds, Left
<1>2. /\ \A m \in Kinds : At(l, m, r) = IF m = "token" THEN "COMPLETED"
                                        ELSE At(s, m, r)
      /\ \A c, m : Waits(l, c, m, r) <=> Waits(s, c, m, r)
  <2> DEFINE k == "token"
  <2>1. k \in Kinds /\ Left(s, l, k, r)
    BY <1>1
  <2> HIDE DEF k
  <2>2. \A m \in Kinds : At(l, m, r) = IF m = k THEN "COMPLETED" ELSE At(s, m, r)
    BY <2>1, LeftView
  <2>3. \A c, m : Waits(l, c, m, r) <=> Waits(s, c, m, r)
    BY <2>1, LeftView
  <2> QED
    BY <2>2, <2>3 DEF k
<1>3. /\ l.placed[r] = s.placed[r] /\ l.placed[r] \in {"same", "apart"}
      /\ \A m \in Kinds :
           /\ OnItsWay(l, m, r) => At(l, m, r) = "NONE"
           /\ m \in l.submitted[r] <=>
                OnItsWay(l, m, r) \/ At(l, m, r) \in {"QUEUED", "RUNNING"}
           /\ Begun(l, m, r) <=> Begun(s, m, r)
      /\ OnlyIn(l.router, r, RouterQueue(l.state[r]))
      /\ InOrder => ChainInv(l, r)
  <2>1. /\ l.placed[r] = s.placed[r] /\ l.placed[r] \in {"same", "apart"}
        /\ NodesKept(s, l, r) /\ OnlyIn(l.router, r, RouterQueue(l.state[r]))
        /\ InOrder => ChainInv(l, r)
    BY <1>1, LeftInv, SMTT(30)
  <2>2. \A m \in Kinds :
          /\ OnItsWay(l, m, r) => At(l, m, r) = "NONE"
          /\ m \in l.submitted[r] <=>
               OnItsWay(l, m, r) \/ At(l, m, r) \in {"QUEUED", "RUNNING"}
          /\ Begun(l, m, r) <=> Begun(s, m, r)
    BY <2>1, Zenon DEF NodesKept
  <2> QED
    BY <2>1, <2>2
<1>4. RequestInv(s, r) /\ NodesInv(s, r)
  BY DEF TiersInv
<1>5. NodesInv(l, r)
  BY <1>1, <1>2, <1>3, <1>4 DEF NodesInv
<1>6. /\ l.state[r] = "RUNNING_ON_EXECUTOR"
      /\ ~Waits(l, "request_arrival", "prompt", r)
      /\ ~Waits(l, "request_completion", "token", r)
      /\ OnlyIn(l.scheduler, r, "executing")
  BY <1>1, <1>2, <1>3, <1>4 DEF RequestInv, SchedulerQueue
<1>7. OnlyIn(l.router, r, "executing")
  BY <1>3, <1>6 DEF RouterQueue
<1>8. Finishing(l, r)
  BY <1>1, <1>2, <1>3, <1>5, <1>6, <1>7 DEF Finishing
<1>9. t = FinishRequest(l, r)
  BY DEF FollowUp
<1> QED
  BY <1>1, <1>8, <1>9, FinishRequestDoes

(* Submitting the node that is next, where the tasks are apart.            *)
LEMMA SubmittedNext ==
  ASSUME NEW l \in StateType, NEW t, NEW k \in {"flow", "token"},
         NEW r \in Requests, Submits(l, t, k, r),
         l.placed[r] = "apart", ~Begun(l, k, r),
         \A m \in Kinds :
           /\ OnItsWay(l, m, r) => At(l, m, r) = "NONE"
           /\ m \in l.submitted[r] <=>
                OnItsWay(l, m, r) \/ At(l, m, r) \in {"QUEUED", "RUNNING"},
         At(l, "prompt", r) = "COMPLETED",
         k = "flow" => ~Begun(l, "token", r),
         k = "token" => At(l, "flow", r) = "COMPLETED",
         OnlyIn(l.router, r, RouterQueue(l.state[r])), RequestInv(l, r),
         InOrder => ChainInv(l, r)
  PROVE  /\ t \in StateType /\ t.raised = l.raised
         /\ Others(l, t, r) /\ TiersInv(t, r)
<1>1. /\ k \in Kinds /\ "prompt" \in Kinds /\ "flow" \in Kinds /\ "token" \in Kinds
      /\ t \in StateType /\ t.state = l.state /\ t.placed = l.placed
      /\ t.router = l.router /\ t.scheduler = l.scheduler /\ t.raised = l.raised
  BY DEF Kinds, Submits
<1>2. Others(l, t, r) /\ ViewOf(l, t, k, r)
  BY <1>1, SubmitsView
<1>3. /\ \A m \in Kinds \ {k} :
           /\ At(t, m, r) = At(l, m, r)
           /\ OnItsWay(t, m, r) <=> OnItsWay(l, m, r)
      /\ \A m \in Kinds : m \in t.submitted[r] <=> m = k \/ m \in l.submitted[r]
      /\ At(t, k, r) \in {"NONE", "QUEUED"}
      /\ Begun(t, k, r)
      /\ OnItsWay(t, k, r) <=> At(t, k, r) = "NONE"
      /\ \A c \in {"request_arrival", "request_completion"} : \A m :
           Waits(t, c, m, r) <=> Waits(l, c, m, r)
  BY <1>1, <1>2 DEF ViewOf, Begun
<1>4. \A m \in Kinds :
        /\ OnItsWay(t, m, r) => At(t, m, r) = "NONE"
        /\ m \in t.submitted[r] <=>
             OnItsWay(t, m, r) \/ At(t, m, r) \in {"QUEUED", "RUNNING"}
  BY <1>3
<1>5. At(l, k, r) = "NONE"
  BY DEF Begun
<1>6. NodesInv(t, r)
  BY <1>1, <1>3, <1>4, <1>5 DEF NodesInv, Begun
<1>7. RequestInv(t, r)
  BY <1>1, <1>3, <1>5 DEF RequestInv
<1>8. InOrder => ChainInv(t, r)
  <2>1. InOrder /\ k = "token" => ~OnItsWay(t, k, r)
    BY <1>2 DEF ViewOf, Overhead, InOrder, ChainInv
  <2> QED
    BY <1>1, <1>3, <2>1 DEF ChainInv
<1> QED
  BY <1>1, <1>2, <1>6, <1>7, <1>8 DEF TiersInv

(* A node that is not the last: its successor is under way or submitted.   *)
LEMMA OthersComplete ==
  ASSUME NEW s \in StateType, NEW l, NEW k \in {"prompt", "flow"},
         NEW r \in Requests,
         Left(s, l, k, r), TiersInv(s, r), At(s, k, r) = "RUNNING",
         \A m : ~Waits(s, "task_arrival", m, r),
         NEW t, t = FollowUp(l, k, r)
  PROVE  /\ t \in StateType /\ t.raised = l.raised
         /\ Others(l, t, r) /\ TiersInv(t, r)
<1>1. /\ "prompt" \in Kinds /\ "flow" \in Kinds /\ "token" \in Kinds
      /\ k \in Kinds /\ k # "token"
      /\ l \in StateType /\ l.state = s.state /\ l.scheduler = s.scheduler
  BY DEF Kinds, Left
<1>2. /\ \A m \in Kinds : At(l, m, r) = IF m = k THEN "COMPLETED"
                                        ELSE At(s, m, r)
      /\ \A c, m : Waits(l, c, m, r) <=> Waits(s, c, m, r)
      /\ \A m \in Kinds : OnItsWay(l, m, r) <=> OnItsWay(s, m, r)
  <2> DEFINE n == k
  <2>1. n \in Kinds /\ Left(s, l, n, r)
    BY <1>1
  <2> HIDE DEF n
  <2>2. \A m \in Kinds : At(l, m, r) = IF m = n THEN "COMPLETED" ELSE At(s, m, r)
    BY <2>1, LeftView
  <2>3. \A c, m : Waits(l, c, m, r) <=> Waits(s, c, m, r)
    BY <2>1, LeftView
  <2>4. \A m \in Kinds : OnItsWay(l, m, r) <=> OnItsWay(s, m, r)
    BY <2>1, LeftView
  <2> QED
    BY <2>2, <2>3, <2>4 DEF n
<1>3. /\ l.placed[r] = s.placed[r] /\ l.placed[r] \in {"same", "apart"}
      /\ \A m \in Kinds :
           /\ OnItsWay(l, m, r) => At(l, m, r) = "NONE"
           /\ m \in l.submitted[r] <=>
                OnItsWay(l, m, r) \/ At(l, m, r) \in {"QUEUED", "RUNNING"}
           /\ Begun(l, m, r) <=> Begun(s, m, r)
      /\ OnlyIn(l.router, r, RouterQueue(l.state[r]))
      /\ RequestInv(l, r)
      /\ InOrder => ChainInv(l, r)
  <2>1. /\ l.placed[r] = s.placed[r] /\ l.placed[r] \in {"same", "apart"}
        /\ NodesKept(s, l, r) /\ OnlyIn(l.router, r, RouterQueue(l.state[r]))
        /\ RequestInv(l, r) /\ (InOrder => ChainInv(l, r))
    BY <1>1, LeftInv, SMTT(30)
  <2> QED
    BY <2>1 DEF NodesKept
<1>4. RequestInv(s, r) /\ NodesInv(s, r)
  BY DEF TiersInv
<1>5. \A m \in Kinds, x \in Requests : Node(m, x).kind = m /\ Node(m, x).req = x
  BY NodesApart
<1>6. CASE l.placed[r] = "same"
  <2>1. k = "prompt" /\ At(l, "token", r) # "NONE"
    BY <1>1, <1>2, <1>3, <1>4, <1>6 DEF NodesInv, Begun, OnItsWay
  <2>2. Successor(l, Node(k, r)) = Node("token", r)
    BY <1>1, <1>5, <1>6 DEF Successor
  <2>3. t = l
    BY <1>1, <2>1, <2>2 DEF FollowUp, At
  <2>4. NodesInv(l, r)
    BY <1>1, <1>2, <1>3, <1>4, <1>6 DEF NodesInv
  <2>5. Others(l, l, r)
    BY DEF Others
  <2> QED
    BY <1>1, <1>3, <2>3, <2>4, <2>5 DEF TiersInv
<1>7. CASE l.placed[r] = "apart" /\ k = "prompt"
  <2>1. At(l, "flow", r) = "NONE" /\ ~Begun(l, "flow", r) /\ ~Begun(l, "token", r)
        /\ At(l, "prompt", r) = "COMPLETED"
    BY <1>1, <1>2, <1>3, <1>4, <1>7 DEF NodesInv, Begun
  <2>2. Successor(l, Node(k, r)) = Node("flow", r)
    BY <1>1, <1>5, <1>7 DEF Successor
  <2>3. t = SubmitFlow(l, Node("flow", r))
    BY <1>1, <1>5, <2>1, <2>2 DEF FollowUp, At
  <2>4. Submits(l, t, "flow", r)
    BY <1>1, <2>1, <2>3, SubmitFlowDoes
  <2> QED
    BY <1>1, <1>3, <1>7, <2>1, <2>4, SubmittedNext
<1>8. CASE l.placed[r] = "apart" /\ k = "flow"
  <2>1. /\ At(l, "token", r) = "NONE" /\ ~Begun(l, "token", r)
        /\ At(l, "flow", r) = "COMPLETED" /\ At(l, "prompt", r) = "COMPLETED"
        /\ Begun(l, "prompt", r) /\ Begun(l, "flow", r)
    BY <1>1, <1>2, <1>3, <1>4, <1>8 DEF NodesInv, Begun
  <2>2. Successor(l, Node(k, r)) = Node("token", r)
    BY <1>1, <1>5, <1>8 DEF Successor
  <2>3. t = SubmitOne(l, Node("token", r))
    BY <1>1, <1>5, <2>1, <2>2 DEF FollowUp, SubmitTask, At
  <2>4. Submits(l, t, "token", r)
    BY <1>1, <2>1, <2>3, SubmitOneDoes
  <2> QED
    BY <1>1, <1>3, <1>8, <2>1, <2>4, SubmittedNext
<1> QED
  BY <1>1, <1>3, <1>6, <1>7, <1>8

(* finish_task and finish_flow are the removal and what follows.           *)
LEMMA FinishNodeDoes ==
  ASSUME NEW s, NEW n \in Nodes,
         NEW l, l = Withdrawn(s, n), l.placed = s.placed, l.node = s.node
  PROVE  FinishNode(s, n) = FollowUp(l, n.kind, n.req)
<1>1. n = Node(n.kind, n.req)
  BY NodesApart
<1>2. Successor(s, n) = Successor(l, n)
  BY DEF Successor
<1>3. FinishNode(s, n) =
        IF n.kind = "token" THEN FinishRequest(l, n.req)
        ELSE IF s.node[Successor(s, n)] # "NONE" THEN l
        ELSE IF Successor(s, n).kind = "flow" THEN SubmitFlow(l, Successor(s, n))
        ELSE SubmitTask(l, Successor(s, n))
  BY Zenon DEF FinishNode, Withdrawn
<1>4. FollowUp(l, n.kind, n.req) =
        IF n.kind = "token" THEN FinishRequest(l, n.req)
        ELSE IF l.node[Successor(l, n)] # "NONE" THEN l
        ELSE IF Successor(l, n).kind = "flow" THEN SubmitFlow(l, Successor(l, n))
        ELSE SubmitTask(l, Successor(l, n))
  BY <1>1, Zenon DEF FollowUp
<1> QED
  BY <1>2, <1>3, <1>4, Zenon

(* The completion of a node preserves the invariant.                       *)
LEMMA CompletePreserves ==
  ASSUME ServingInv, NEW n \in Nodes, Complete(n)
  PROVE  ServingInv'
<1> DEFINE s == State
           k == n.kind
           r == n.req
           s1 == NodeTransition(s, n, "RUNNING", "COMPLETED")
           s2 == Released(s1, n)
           l == Withdrawn(s2, n)
           t == FollowUp(l, k, r)
<1>1. k \in Kinds /\ r \in Requests /\ n = Node(k, r)
  BY NodesApart
<1>2. /\ s \in StateType /\ s.node[n] = "RUNNING" /\ ~s.raised
      /\ \A x \in Requests : TiersInv(s, x)
      /\ Becomes(FinishNode(s2, n))
      /\ \A e \in s.events : e.call = "task_arrival" => e.on.req # r
  BY DEF ServingInv, Complete, State, Released
<1> HIDE DEF s
<1>3. At(s, k, r) = "RUNNING" /\ TiersInv(s, r) /\ n.kind \in s.submitted[n.req]
  BY <1>1, <1>2 DEF At, TiersInv, NodesInv
<1>4. \A m : ~Waits(s, "task_arrival", m, r)
  BY <1>2, EventsApart, NodesApart DEF Waits, Node, Event
<1>5. Left(s, l, k, r) /\ s2.placed = s.placed /\ s2.node = l.node
  BY <1>2, <1>3, CompleteLeaves
<1> HIDE DEF s1, s2
<1>6. FinishNode(s2, n) = t
  BY <1>5, FinishNodeDoes DEF Left
<1> HIDE DEF l
<1>7. /\ t \in StateType /\ t.raised = l.raised
      /\ Others(l, t, r) /\ TiersInv(t, r)
  <2>1. CASE k = "token"
    <3>1. Left(s, l, "token", r) /\ At(s, "token", r) = "RUNNING"
          /\ t = FollowUp(l, "token", r)
      BY <1>3, <1>5, <2>1
    <3> HIDE DEF t, k, r
    <3> QED
      BY <1>1, <1>2, <1>3, <3>1, TokenCompletes
  <2>2. CASE k # "token"
    <3>1. k \in {"prompt", "flow"}
      BY <1>1, <2>2 DEF Kinds
    <3>2. t = FollowUp(l, k, r)
      OBVIOUS
    <3> HIDE DEF t, k, r
    <3> QED
      BY <1>1, <1>2, <1>3, <1>4, <1>5, <3>1, <3>2, OthersComplete
  <2> QED
    BY <2>1, <2>2
<1> HIDE DEF t, k, r
<1>8. Others(s, t, r)
  BY <1>1, <1>2, <1>5, <1>7, LeftView, OthersCompose
<1>9. \A x \in Requests : TiersInv(t, x)
  BY <1>1, <1>2, <1>7, <1>8, HandlerPreserves
<1>10. ~t.raised
  BY <1>2, <1>5, <1>7 DEF Left
<1> QED
  BY <1>2, <1>6, <1>7, <1>9, <1>10, InvCarries
-----------------------------------------------------------------------------
(* Before the first arrival nothing is anywhere.                           *)
LEMMA ServingStarts ==
  ASSUME ServingInit
  PROVE  ServingInv
<1> DEFINE s == State
<1>1. /\ s.state = [r \in Requests |-> "NONE"]
      /\ s.placed = [r \in Requests |-> "no"]
      /\ s.node = [n \in Nodes |-> "NONE"]
      /\ s.present = [r \in Requests |-> <<>>]
      /\ s.router = [q \in Queues |-> {}]
      /\ s.scheduler = [q \in Queues |-> {}]
      /\ s.submitted = [r \in Requests |-> {}]
      /\ s.events = {} /\ s.raised = FALSE
      /\ ~raised
  BY DEF ServingInit, State, Queues
<1>2. s \in StateType
  <2>1. <<>> \in Seq(Kinds) /\ "NONE" \in RequestStates /\ "NONE" \in NodeStates
    BY DEF RequestStates, NodeStates
  <2>2. /\ s.state \in [Requests -> RequestStates]
        /\ s.placed \in [Requests -> {"no", "same", "apart"}]
        /\ s.node \in [Nodes -> NodeStates]
        /\ s.present \in [Requests -> Seq(Kinds)]
        /\ s.router \in [Queues -> SUBSET Requests]
        /\ s.scheduler \in [Queues -> SUBSET Requests]
        /\ s.submitted \in [Requests -> SUBSET Kinds]
        /\ s.events \in SUBSET Calls /\ s.raised \in BOOLEAN
    <3>1. s.state \in [Requests -> RequestStates]
      BY <1>1, <2>1
    <3>2. s.placed \in [Requests -> {"no", "same", "apart"}]
      BY <1>1
    <3>3. s.node \in [Nodes -> NodeStates]
      BY <1>1, <2>1
    <3>4. s.present \in [Requests -> Seq(Kinds)]
      BY <1>1, <2>1
    <3>5. /\ s.router \in [Queues -> SUBSET Requests]
          /\ s.scheduler \in [Queues -> SUBSET Requests]
      BY <1>1
    <3>6. s.submitted \in [Requests -> SUBSET Kinds]
      BY <1>1
    <3>7. s.events \in SUBSET Calls /\ s.raised \in BOOLEAN
      BY <1>1
    <3> QED
      BY <3>1, <3>2, <3>3, <3>4, <3>5, <3>6, <3>7
  <2> QED
    BY <2>2 DEF State, StateType
<1> HIDE DEF s
<1>3. ASSUME NEW r \in Requests PROVE TiersInv(s, r)
  <2>1. /\ s.state[r] = "NONE" /\ s.placed[r] = "no" /\ s.present[r] = <<>>
        /\ s.submitted[r] = {}
        /\ \A k \in Kinds : At(s, k, r) = "NONE"
        /\ \A c, k : ~Waits(s, c, k, r)
        /\ "token" \in Kinds
    BY <1>1, NodesApart DEF At, Waits, Kinds
  <2>2. /\ OnlyIn(s.router, r, RouterQueue(s.state[r]))
        /\ OnlyIn(s.scheduler, r, SchedulerQueue(s.state[r]))
    BY <1>1, <2>1 DEF OnlyIn, RouterQueue, SchedulerQueue, Queues
  <2>3. \A k \in Kinds : ~OnItsWay(s, k, r)
    BY <2>1 DEF OnItsWay
  <2>4. RequestInv(s, r)
    BY <2>1, <2>2 DEF RequestInv
  <2>5. NodesInv(s, r)
    BY <2>1, <2>3 DEF NodesInv, Begun
  <2>6. ChainInv(s, r)
    BY <2>1, <2>3 DEF ChainInv, Kinds
  <2> QED
    BY <2>2, <2>4, <2>5, <2>6 DEF TiersInv
<1> QED
  BY <1>1, <1>2, <1>3 DEF ServingInv, s

(* Every step of the tiers preserves the invariant.                        *)
LEMMA ServingStep ==
  ASSUME ServingInv, [ServingNext]_servingVars
  PROVE  ServingInv'
<1>1. CASE \E r \in Requests : Arrive(r)
  BY <1>1, ArrivePreserves
<1>2. CASE \E e \in events : Call(e)
  BY <1>2, CallPreserves
<1>3. CASE \E n \in Nodes : Run(n) \/ Complete(n)
  BY <1>3, RunPreserves, CompletePreserves
<1>4. CASE UNCHANGED servingVars
  <2>1. Becomes(State)
    BY <1>4 DEF servingVars, State, Becomes
  <2>2. ~State.raised
    BY DEF ServingInv, State
  <2> QED
    BY <2>1, <2>2, InvCarries DEF ServingInv
<1> QED
  BY <1>1, <1>2, <1>3, <1>4 DEF ServingNext, AllAnswered

(* The invariant holds throughout.                                         *)
THEOREM ServingAlways == ServingSpec => []ServingInv
<1>1. ServingInit => ServingInv
  BY ServingStarts
<1>2. ServingInv /\ [ServingNext]_servingVars => ServingInv'
  BY ServingStep
<1> QED
  BY <1>1, <1>2, PTL DEF ServingSpec
-----------------------------------------------------------------------------
(* None of the assertions and list.remove calls on the way of a request    *)
(* fails (router.py, scheduler.py, executor.py, request.py), whichever     *)
(* overheads are zero and in whatever order the calls that wait for one    *)
(* are let through.                                                        *)
THEOREM NoAssertionFails == ServingSpec => []NeverRaises
<1>1. ServingInv => NeverRaises
  BY DEF ServingInv, NeverRaises
<1> QED
  BY <1>1, ServingAlways, PTL

(* Between events the queues of router and scheduler say of each request   *)
(* what its state says, however many are under way: in particular nobody   *)
(* is ever left in the scheduler's pending_queue.                          *)
THEOREM TiersAlwaysAgree == ServingSpec => []TiersAgree
<1>1. ASSUME ServingInv PROVE TiersAgree
  <2> SUFFICES ASSUME NEW r \in Requests
               PROVE  /\ {q \in DOMAIN router : r \in router[q]} =
                           CASE state[r] = "NONE" -> {}
                             [] state[r] = "COMPLETED_AT_ROUTER" -> {"completed"}
                             [] OTHER -> {"executing"}
                      /\ {q \in DOMAIN scheduler : r \in scheduler[q]} =
                           CASE state[r] \in {"NONE", "QUEUED_AT_ROUTER"} -> {}
                             [] state[r] = "COMPLETED_AT_ROUTER" -> {"completed"}
                             [] OTHER -> {"executing"}
                      /\ state[r] \notin {"QUEUED_AT_SCHEDULER",
                                          "COMPLETED_AT_SCHEDULER"}
    BY DEF TiersAgree
  <2>1. /\ DOMAIN router = Queues /\ DOMAIN scheduler = Queues
        /\ OnlyIn(router, r, RouterQueue(state[r]))
        /\ OnlyIn(scheduler, r, SchedulerQueue(state[r]))
        /\ state[r] \in {"NONE", "QUEUED_AT_ROUTER", "RUNNING_ON_EXECUTOR",
                         "COMPLETED_AT_ROUTER"}
    <3>1. /\ State.router = router /\ State.scheduler = scheduler
          /\ State.state = state
      BY DEF State
    <3>2. State \in StateType /\ TiersInv(State, r)
      BY <1>1 DEF ServingInv
    <3>3. /\ State.router \in [Queues -> SUBSET Requests]
          /\ State.scheduler \in [Queues -> SUBSET Requests]
      BY <3>2 DEF StateType
    <3> QED
      BY <3>1, <3>2, <3>3 DEF TiersInv, RequestInv
  <2>2. \A queue : {q \in Queues : q = queue} =
          IF queue \in Queues THEN {queue} ELSE {}
    OBVIOUS
  <2>3. /\ {q \in DOMAIN router : r \in router[q]} =
             {q \in Queues : q = RouterQueue(state[r])}
        /\ {q \in DOMAIN scheduler : r \in scheduler[q]} =
             {q \in Queues : q = SchedulerQueue(state[r])}
    BY <2>1 DEF OnlyIn
  <2> QED
    BY <2>1, <2>2, <2>3 DEF RouterQueue, SchedulerQueue, Queues
<1> QED
  BY <1>1, ServingAlways, PTL

(* The executor's list has exactly the nodes on their way to a runner or   *)
(* at it: finish_task and finish_flow find what they remove, and nothing   *)
(* is left on it when the request is over.                                 *)
THEOREM SubmittedAreInFlight == ServingSpec => []SubmittedInFlight
<1>1. ASSUME ServingInv PROVE SubmittedInFlight
  <2> SUFFICES ASSUME NEW r \in Requests
               PROVE  submitted[r] =
                        {k \in Kinds : \/ node[Node(k, r)] \in {"QUEUED", "RUNNING"}
                                       \/ \E e \in events :
                                            /\ e.call \in {"task_arrival", "flow_arrival"}
                                            /\ e.on = Node(k, r)}
    BY DEF SubmittedInFlight
  <2>1. /\ State.events = events /\ State.node = node
        /\ State.submitted = submitted
    BY DEF State
  <2>2. State \in StateType /\ NodesInv(State, r)
    BY <1>1 DEF ServingInv, TiersInv
  <2>3. submitted[r] \in SUBSET Kinds /\ events \in SUBSET Calls
    BY <2>1, <2>2 DEF StateType
  <2>4. ASSUME NEW k \in Kinds
        PROVE  OnItsWay(State, k, r) <=>
                 \E e \in events : /\ e.call \in {"task_arrival", "flow_arrival"}
                                   /\ e.on = Node(k, r)
    <3>1. ASSUME NEW e \in events, e.call \in {"task_arrival", "flow_arrival"},
                 e.on = Node(k, r)
          PROVE  OnItsWay(State, k, r)
      <4>1. e = Event(e.call, k, r) /\ <<e.call, k>> \in Waiting
        BY <2>3, <3>1, CallsAre, NodesApart
      <4>2. e.call = IF k = "flow" THEN "flow_arrival" ELSE "task_arrival"
        BY <3>1, <4>1 DEF Waiting
      <4> QED
        BY <2>1, <4>1, <4>2 DEF OnItsWay, Waits
    <3>2. ASSUME OnItsWay(State, k, r)
          PROVE  \E e \in events : /\ e.call \in {"task_arrival", "flow_arrival"}
                                   /\ e.on = Node(k, r)
      BY <2>1, <3>2, EventsApart DEF OnItsWay, Waits
    <3> QED
      BY <3>1, <3>2
  <2>5. \A k \in Kinds : k \in submitted[r] <=>
          OnItsWay(State, k, r) \/ node[Node(k, r)] \in {"QUEUED", "RUNNING"}
    BY <2>1, <2>2 DEF NodesInv, At
  <2> QED
    BY <2>3, <2>4, <2>5
<1> QED
  BY <1>1, ServingAlways, PTL

(* The chain of a request is executed back-to-back (node.py:30): with no   *)
(* overhead on submit_task its token task does not run before its prompt   *)
(* task is complete.  Where a flow is between them it never does, whatever *)
(* the overheads and the order of the calls that wait.                     *)
THEOREM ChainsRunInOrder == ServingSpec => []PromptRunsFirst
<1>1. ASSUME ServingInv PROVE PromptRunsFirst
  <2> SUFFICES ASSUME NEW r \in Requests,
                      InOrder \/ State.placed[r] = "apart",
                      At(State, "token", r) \in {"RUNNING", "COMPLETED"}
               PROVE  At(State, "prompt", r) = "COMPLETED"
    BY DEF PromptRunsFirst, InOrder, At, State
  <2>1. /\ State \in StateType /\ NodesInv(State, r)
        /\ InOrder => ChainInv(State, r)
        /\ "token" \in Kinds /\ "flow" \in Kinds /\ "prompt" \in Kinds
    BY <1>1 DEF ServingInv, TiersInv, Kinds
  <2>2. State.placed[r] \in {"no", "same", "apart"}
    BY <2>1 DEF StateType
  <2>3. Begun(State, "token", r) /\ State.placed[r] # "no"
    BY <2>1 DEF NodesInv, Begun
  <2>4. CASE State.placed[r] = "same"
    BY <2>1, <2>4 DEF ChainInv
  <2>5. CASE State.placed[r] = "apart"
    BY <2>1, <2>3, <2>5 DEF NodesInv, Begun
  <2> QED
    BY <2>2, <2>3, <2>4, <2>5
<1> QED
  BY <1>1, ServingAlways, PTL
=============================================================================
