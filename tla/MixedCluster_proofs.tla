------------------------- MODULE MixedCluster_proofs -------------------------
(***************************************************************************)
(* What the cluster implements, for every set of instances, all limits,    *)
(* requests, sizes and placements.                                         *)
(*                                                                         *)
(* First RequestPath, for every request:                                   *)
(*  - Moves and their kin: what a handler does to one request, by the side *)
(*    of all that it does to the others, through preemption, the runs it   *)
(*    starts and completes, and the arrivals and transfers it ends;        *)
(*  - each move is an action of RequestPath or leaves the request alone;   *)
(*  - PathInv: what the moves need beside ClusterInv.                      *)
(*                                                                         *)
(* Then MixedPool, when the mixed-pool scheduler places the requests:      *)
(*  - a run that completes ends some prompt tasks and some token tasks,    *)
(*    which are the sets of one iteration of the scheduler's model; the    *)
(*    amounts it is told of are those the tasks had;                       *)
(*  - MixedInv: PathInv, and the types of the scheduler's variables.       *)
(* After that the scheduler's accounts against the instances' own:         *)
(* MemoryBooked says which requests an account is made of, and they        *)
(* include all that hold memory there.                                     *)
(*                                                                         *)
(* Last, the mixed cluster is a cluster whose placements are made with     *)
(* care: if any two instances may be a placement (AllPairs), the theorems  *)
(* of Cluster_proofs are its theorems too.                                 *)
(***************************************************************************)
EXTENDS MixedCluster, Cluster_proofs

(* What an event does to one request: its memory grows by m at instance i; *)
(* nothing changes; its prompt or its token task starts at i.              *)
Grows(s, a, r, i, m) ==
  /\ a.memory[r] = s.memory[r] + m
  /\ \A j \in Instances : a.alloc[j][r] = s.alloc[j][r] + (IF j = i THEN m ELSE 0)

Rests(s, a, r) ==
  /\ a.node[Prompt(r)] = s.node[Prompt(r)] /\ a.node[Token(r)] = s.node[Token(r)]
  /\ a.generated[Token(r)] = s.generated[Token(r)]
  /\ SameCache(s, a, r)

PromptStarts(s, a, r, i) ==
  /\ s.node[Prompt(r)] = "QUEUED" /\ a.node[Prompt(r)] = "RUNNING"
  /\ a.node[Token(r)] = s.node[Token(r)] /\ a.node[Flow(r)] = s.node[Flow(r)]
  /\ a.generated[Token(r)] = s.generated[Token(r)]
  /\ Grows(s, a, r, i, PromptMemory(r))

TokenStarts(s, a, r, i) ==
  /\ s.node[Token(r)] \in {"QUEUED", "BLOCKED"} /\ a.node[Token(r)] = "RUNNING"
  /\ s.node[Prompt(r)] = "COMPLETED" /\ a.node[Prompt(r)] = "COMPLETED"
  /\ a.node[Flow(r)] = s.node[Flow(r)]
  /\ a.generated[Token(r)] = s.generated[Token(r)]
  /\ Grows(s, a, r, i, IF s.node[Token(r)] = "QUEUED" THEN TokenMemory(r) ELSE 0)

Starts(s, a, r, i, P, D) ==
  \/ Rests(s, a, r)
  \/ P[r] = i /\ PromptStarts(s, a, r, i)
  \/ D[r] = i /\ TokenStarts(s, a, r, i)

(* The running token task of r is retained or preempted.                   *)
Stays(s, a, r) ==
  /\ a.node[Prompt(r)] = s.node[Prompt(r)] /\ a.node[Token(r)] \in {"RUNNING", "BLOCKED"}
  /\ a.generated[Token(r)] = s.generated[Token(r)]
  /\ SameCache(s, a, r)

(* Prompts are never preempted, and have not generated anything before     *)
(* they are complete.                                                      *)
Lean(s) ==
  /\ \A r \in Requests :
       /\ s.node[Prompt(r)] # "BLOCKED"
       /\ s.node[Prompt(r)] # "COMPLETED" => s.generated[Prompt(r)] = 0
  /\ \A t \in TaskNodes : s.generated[t] >= 0

NoPrompts(q) == \A t \in ToSet(q.batch) : ~ IsPrompt(t)

(* The batch that start_iteration begins: where no prompt is in the old    *)
(* one, tasks start, stay or rest.                                         *)
LEMMA BegunMoves ==
  ASSUME trace \in [Requests -> Shapes], NEW P, NEW D, Placed(P, D), NEW s, Good(s, P, D),
         Lean(s), NEW i \in Instances, NoPrompts(s.inst[i]), NEW a, NEW c,
         Chosen(s, i, At(s.node, P, D, i), c), Begun(s, a, i, At(s.node, P, D, i), c)
  PROVE  /\ Lean(a)
         /\ \A r \in Requests : IF Token(r) \in ToSet(s.inst[i].batch) THEN Stays(s, a, r)
                                ELSE Starts(s, a, r, i, P, D)
<1> DEFINE at == At(s.node, P, D, i)
           C == ToSet(c.batch)
           old == ToSet(s.inst[i].batch)
<1>1. /\ s \in StateType /\ a \in StateType
      /\ Sound(s.inst[i], s.node, at) /\ Running(s.inst[i], s.node)
      /\ \A r \in Requests : Stage(s, r, P, D)
  BY DEF Good, Begun
<1>2. C \subseteq Eligible(s.node, at) /\ old \subseteq at
  BY <1>1 DEF Chosen, Choice, Sound
<1>3. /\ s.memory \in [Requests -> Nat] /\ s.alloc \in [Instances -> [Requests -> Int]]
      /\ s.node \in [Nodes -> NodeStates]
  BY <1>1 DEF StateType
<1>4. /\ a.node = [n \in Nodes |-> IF n \in C THEN "RUNNING"
                                   ELSE IF n \in old THEN "BLOCKED" ELSE s.node[n]]
      /\ a.generated = s.generated
      /\ a.alloc = [s.alloc EXCEPT ![i] = [r \in Requests |-> @[r] + Taken(s.node, C, r)]]
      /\ a.memory = [r \in Requests |-> s.memory[r] + Taken(s.node, C, r)]
  BY DEF Begun
<1>5. \A t \in C : t \in TaskNodes /\ s.node[t] \in Live /\ Where(P, D, t) = i
        /\ (IsPrompt(t) \/ s.node[Prompt(t.req)] = "COMPLETED")
  BY <1>2 DEF Eligible, At
<1>6. \A t \in old : t \in TaskNodes /\ s.node[t] = "RUNNING" /\ ~ IsPrompt(t)
        /\ Where(P, D, t) = i
  BY <1>1, <1>2 DEF Running, NoPrompts, At
<1>7. \A t \in TaskNodes : s.node[t] = "RUNNING" /\ Where(P, D, t) = i => t \in old
  BY <1>1 DEF Sound, At, Live
<1> HIDE DEF C, old, at
<1>8. ASSUME NEW r \in Requests
      PROVE  \A j \in Instances :
               a.alloc[j][r] = s.alloc[j][r] + (IF j = i THEN Taken(s.node, C, r) ELSE 0)
  <2>1. Taken(s.node, C, r) \in Nat
    BY TakenIsNumber
  <2>2. \A j \in Instances : s.alloc[j][r] \in Int
    BY <1>3
  <2> QED
    BY <1>3, <1>4, <2>1, <2>2
<1>9. ASSUME NEW r \in Requests
      PROVE  Grows(s, a, r, i, Taken(s.node, C, r))
  BY <1>4, <1>8 DEF Grows
<1>10. ASSUME NEW r \in Requests, Taken(s.node, C, r) = 0,
              a.node[Flow(r)] = s.node[Flow(r)]
       PROVE  SameCache(s, a, r)
  BY <1>3, <1>9, <1>10 DEF SameCache, Grows
<1>11. ASSUME NEW r \in Requests
       PROVE  IF Token(r) \in old THEN Stays(s, a, r)
              ELSE IF Prompt(r) \in C \/ Token(r) \in C THEN Starts(s, a, r, i, P, D)
              ELSE Rests(s, a, r)
  <2>1. /\ Prompt(r) \in TaskNodes /\ Token(r) \in TaskNodes
        /\ Prompt(r) \in Nodes /\ Token(r) \in Nodes /\ Flow(r) \in Nodes
        /\ Flow(r) \notin TaskNodes
        /\ Prompt(r) # Token(r) /\ IsPrompt(Prompt(r)) /\ ~ IsPrompt(Token(r))
        /\ Prompt(r).req = r /\ Token(r).req = r
    BY NodesOfRequests
  <2>2. a.node[Flow(r)] = s.node[Flow(r)]
    BY <1>4, <1>5, <1>6, <2>1
  <2>3. Prompt(r) \notin old
    BY <1>6, <2>1
  <2>4. Token(r) \in C => s.node[Prompt(r)] = "COMPLETED" /\ Prompt(r) \notin C
    BY <1>5, <2>1 DEF Live
  <2>5. CASE Token(r) \in old
    <3>1. s.node[Token(r)] = "RUNNING"
      BY <1>6, <2>5
    <3>2. Prompt(r) \notin C
      <4>1. s.node[Prompt(r)] # "COMPLETED" => s.node[Token(r)] \in {"NONE", "QUEUED"}
        BY <1>1 DEF Stage
      <4> QED
        BY <1>5, <3>1, <4>1 DEF Live
    <3>3. Taken(s.node, C, r) = 0
      BY <3>1, <3>2 DEF Taken
    <3>4. SameCache(s, a, r)
      BY <1>10, <2>2, <3>3
    <3> QED
      BY <1>4, <2>1, <2>3, <2>5, <3>2, <3>4 DEF Stays
  <2>6. CASE Token(r) \notin old /\ Prompt(r) \in C
    <3>1. Token(r) \notin C
      BY <2>4, <2>6
    <3>2. s.node[Prompt(r)] = "QUEUED"
      <4>1. s.node[Prompt(r)] \in Live /\ s.node[Prompt(r)] # "BLOCKED" /\ Where(P, D, Prompt(r)) = i
        BY <1>5, <2>6 DEF Lean
      <4> QED
        BY <1>7, <2>1, <2>3, <4>1 DEF Live
    <3>3. Taken(s.node, C, r) = PromptMemory(r)
      <4>1. PromptMemory(r) \in Int
        BY <2>1, SizesAreNumbers DEF PromptMemory
      <4> QED
        BY <2>6, <3>1, <3>2, <4>1 DEF Taken
    <3>4. P[r] = i
      BY <1>5, <2>1, <2>6 DEF Where
    <3>5. /\ a.node[Prompt(r)] = "RUNNING" /\ a.node[Token(r)] = s.node[Token(r)]
      BY <1>4, <2>1, <2>6, <3>1
    <3>6. PromptStarts(s, a, r, i)
      BY <1>4, <1>9, <2>2, <3>2, <3>3, <3>5 DEF PromptStarts
    <3> QED
      BY <2>6, <3>4, <3>6 DEF Starts
  <2>7. CASE Token(r) \notin old /\ Token(r) \in C
    <3>1. s.node[Prompt(r)] = "COMPLETED" /\ Prompt(r) \notin C
      BY <2>4, <2>7
    <3>2. s.node[Token(r)] \in {"QUEUED", "BLOCKED"} /\ D[r] = i
      <4>1. s.node[Token(r)] \in Live /\ Where(P, D, Token(r)) = i
        BY <1>5, <2>7
      <4>2. s.node[Token(r)] # "RUNNING"
        BY <1>7, <2>1, <2>7, <4>1
      <4> QED
        BY <2>1, <4>1, <4>2 DEF Live, Where
    <3>3. Taken(s.node, C, r) = IF s.node[Token(r)] = "QUEUED" THEN TokenMemory(r) ELSE 0
      <4>1. TokenMemory(r) \in Int
        BY <2>1, SizesAreNumbers DEF TokenMemory
      <4> QED
        BY <2>7, <3>1, <4>1 DEF Taken
    <3>4. a.node[Prompt(r)] = "COMPLETED" /\ a.node[Token(r)] = "RUNNING"
      BY <1>4, <2>1, <2>3, <2>7, <3>1
    <3>5. TokenStarts(s, a, r, i)
      BY <1>4, <1>9, <2>2, <3>1, <3>2, <3>3, <3>4 DEF TokenStarts
    <3> QED
      BY <2>7, <3>2, <3>5 DEF Starts
  <2>8. CASE Token(r) \notin old /\ Token(r) \notin C /\ Prompt(r) \notin C
    <3>1. Taken(s.node, C, r) = 0
      BY <2>8 DEF Taken
    <3>2. SameCache(s, a, r)
      BY <1>10, <2>2, <3>1
    <3> QED
      BY <1>4, <2>1, <2>3, <2>8, <3>2 DEF Rests
  <2> QED
    BY <2>5, <2>6, <2>7, <2>8
<1>12. Lean(a)
  <2>1. ASSUME NEW r \in Requests
        PROVE  a.node[Prompt(r)] # "BLOCKED"
               /\ (a.node[Prompt(r)] # "COMPLETED" => a.generated[Prompt(r)] = 0)
    <3>1. Prompt(r) \in Nodes /\ Prompt(r) \notin old
      BY <1>6, NodesOfRequests
    <3>2. Prompt(r) \in C => s.node[Prompt(r)] # "COMPLETED"
      BY <1>5 DEF Live
    <3>3. s.node[Prompt(r)] # "BLOCKED"
          /\ (s.node[Prompt(r)] # "COMPLETED" => s.generated[Prompt(r)] = 0)
      BY DEF Lean
    <3> QED
      BY <1>4, <3>1, <3>2, <3>3
  <2> QED
    BY <1>4, <2>1 DEF Lean
<1>13. ASSUME NEW r \in Requests
       PROVE  IF Token(r) \in old THEN Stays(s, a, r) ELSE Starts(s, a, r, i, P, D)
  BY <1>11 DEF Starts
<1> QED
  BY <1>12, <1>13 DEF C, old

(* What start_iteration changes besides the handle is done by the          *)
(* beginning of the run: without runs of zero iterations there is no other.*)
LEMMA OneRun ==
  ASSUME trace \in [Requests -> Shapes], NEW P, NEW D, Placed(P, D), NEW B, NEW N,
         NEW i \in Instances, NEW s, Punctual,
         Regular(s, P, D, B, N, Instances \ {i}, Instances \ {i})
  PROVE  LET a == StartIteration(s, i, D)
             b == BeginRun(s, i)
         IN /\ b \in StateType /\ a.node = b.node /\ Beside(b, a, i)
            /\ SameQueues(b.inst[i], a.inst[i])
<1> DEFINE b == BeginRun(s, i)
           K == {a \in StateType : /\ a.node = b.node /\ Beside(b, a, i)
                                   /\ SameQueues(b.inst[i], a.inst[i])}
<1>1. Regular(b, P, D, B, N, Instances, Instances \ {i})
  BY BegunRegular
<1> HIDE DEF b
<1>2. b \in StateType /\ Course(b, i)
  BY <1>1 DEF Regular, Good
<1>3. ~ ZeroRun(b, i)
  <2>1. CASE b.inst[i].batch # <<>>
    <3>1. b.inst[i].batch \in Seq(TaskNodes)
      BY <1>2, QueueFields
    <3>2. b.inst[i].batch[1] \in ToSet(b.inst[i].batch)
      BY <2>1, <3>1 DEF ToSet
    <3>3. b.inst[i].iterations >= 1
      BY <1>2, <3>2 DEF Course
    <3> QED
      BY <3>3 DEF ZeroRun
  <2> QED
    BY <2>1 DEF ZeroRun
<1>4. b \in K
  BY <1>2 DEF Beside, SameQueues
<1>5. ASSUME NEW x \in BOOLEAN
      PROVE  [b EXCEPT !.inst[i].handle = x] \in K
  <2> DEFINE a == [b EXCEPT !.inst[i].handle = x]
  <2>1. /\ a \in StateType /\ a.node = b.node /\ Beside(b, a, i)
        /\ SameQueues(b.inst[i], a.inst[i])
    BY <1>2, HandleLaw DEF SameQueues
  <2> HIDE DEF a
  <2>2. a \in K
    BY <2>1
  <2> QED
    BY <2>2 DEF a
<1> HIDE DEF K
<1> DEFINE G == {s}
           H == {b}
<1>6. \A a \in G : BeginRun(a, i) \in H
  BY DEF b
<1>7. \A a \in H : ZeroRun(a, i) => EndRun(a, i, D) \in G
  BY <1>3
<1>8. \A a \in H : a.inst[i].batch = <<>> => a \in K
  BY <1>4
<1>9. \A a \in H, y \in H : [a EXCEPT !.inst[i].handle = ~ ZeroRun(y, i)] \in K
  <2>1. (~ ZeroRun(b, i)) \in BOOLEAN
    BY DEF ZeroRun
  <2> QED
    BY <1>5, <2>1
<1>10. s \in G
  OBVIOUS
<1> HIDE DEF G, H
<1>11. StartIteration(s, i, D) \in K
  BY <1>6, <1>7, <1>8, <1>9, <1>10, StartIterationLaw
<1> QED
  BY <1>2, <1>11 DEF K, b

(* What is said of a state or of a step to it depends on these parts.      *)
LEMMA SameMoves ==
  ASSUME NEW s, NEW b, NEW a, a.node = b.node, a.generated = b.generated,
         a.alloc = b.alloc, a.memory = b.memory
  PROVE  /\ Lean(b) => Lean(a)
         /\ \A r : /\ Rests(s, b, r) => Rests(s, a, r)
                   /\ Stays(s, b, r) => Stays(s, a, r)
                   /\ \A i, P, D : Starts(s, b, r, i, P, D) => Starts(s, a, r, i, P, D)
  BY DEF Lean, Rests, Stays, Starts, SameCache, PromptStarts, TokenStarts, Grows

(* start_iteration, when no prompt is under way.                           *)
LEMMA StartMoves ==
  ASSUME trace \in [Requests -> Shapes], NEW P, NEW D, Placed(P, D), NEW B, NEW N,
         NEW i \in Instances, NEW s, Punctual,
         Regular(s, P, D, B, N, Instances \ {i}, Instances \ {i}),
         Lean(s), NoPrompts(s.inst[i])
  PROVE  LET a == StartIteration(s, i, D)
         IN /\ Lean(a)
            /\ \A r \in Requests : IF Token(r) \in ToSet(s.inst[i].batch) THEN Stays(s, a, r)
                                   ELSE Starts(s, a, r, i, P, D)
<1> DEFINE a == StartIteration(s, i, D)
           b == BeginRun(s, i)
           at == At(s.node, P, D, i)
<1>1. s \in StateType /\ Good(s, P, D)
  BY DEF Regular, Good
<1>2. /\ at \in SUBSET TaskNodes /\ Sound(s.inst[i], s.node, at)
      /\ Ready(s.node, s.preempted, at) /\ Running(s.inst[i], s.node)
      /\ Len(s.inst[i].batch) <= MaxBatchSize
  BY <1>1, GoodFacts
<1>3. PICK c \in ChoiceType : Chosen(s, i, at, c) /\ Begun(s, b, i, at, c)
  <2> HIDE DEF at, b
  <2>1. \E c \in ChoiceType : Chosen(s, i, at, c) /\ Begun(s, BeginRun(s, i), i, at, c)
    BY <1>1, <1>2, BeginRunLaw
  <2> QED
    BY <2>1 DEF b
<1>4. /\ b \in StateType /\ a.node = b.node /\ Beside(b, a, i)
      /\ SameQueues(b.inst[i], a.inst[i])
  BY OneRun
<1> HIDE DEF a, b
<1>5. /\ Lean(b)
      /\ \A r \in Requests : IF Token(r) \in ToSet(s.inst[i].batch) THEN Stays(s, b, r)
                             ELSE Starts(s, b, r, i, P, D)
  BY <1>1, <1>3, BegunMoves
<1>6. a.node = b.node /\ a.generated = b.generated /\ a.alloc = b.alloc /\ a.memory = b.memory
  BY <1>4 DEF Beside
<1>7. Lean(a)
  BY <1>5, <1>6, SameMoves
<1>8. \A r \in Requests : IF Token(r) \in ToSet(s.inst[i].batch) THEN Stays(s, a, r)
                             ELSE Starts(s, a, r, i, P, D)
  BY <1>5, <1>6, SameMoves
<1> QED
  BY <1>7, <1>8 DEF a

(* The prompt task of r completes, and the flow or the token task follows; *)
(* its token task completes, or generates tokens and has more to go.       *)
PromptEnds(s, a, r, P, D) ==
  /\ s.node[Prompt(r)] = "RUNNING" /\ a.node[Prompt(r)] = "COMPLETED"
  /\ a.generated[Token(r)] = s.generated[Token(r)]
  /\ IF P[r] # D[r]
     THEN a.node[Token(r)] = s.node[Token(r)] /\ HandedOver(s, a, r, D[r])
     ELSE /\ a.node[Flow(r)] = s.node[Flow(r)]
          /\ \/ a.node[Token(r)] = "QUEUED" /\ Grows(s, a, r, P[r], 0)
             \/ a.node[Token(r)] = "RUNNING" /\ Grows(s, a, r, P[r], TokenMemory(r))

TokenEnds(s, a, r, D) ==
  /\ s.node[Token(r)] = "RUNNING" /\ a.node[Token(r)] = "COMPLETED"
  /\ a.node[Prompt(r)] = s.node[Prompt(r)]
  /\ a.generated[Token(r)] = TokensToGenerate(Token(r))
  /\ Freed(s, a, D[r], r)

TokenGoesOn(s, a, r) ==
  /\ s.node[Token(r)] = "RUNNING" /\ a.node[Token(r)] \in {"RUNNING", "BLOCKED"}
  /\ a.node[Prompt(r)] = s.node[Prompt(r)]
  /\ s.generated[Token(r)] >= 0 /\ a.generated[Token(r)] > s.generated[Token(r)]
  /\ a.generated[Token(r)] < TokensToGenerate(Token(r))
  /\ SameCache(s, a, r)

Chains(s, P, D) ==
  \A r \in Requests :
    P[r] = D[r] /\ P[r] # NoInstance => s.node[Token(r)] # "NONE"

(* The end of a run at i, for a request without a task in it, with its     *)
(* prompt task, with its token task.                                       *)
HalfWay(s, m, r, i, D) ==
  LET old == ToSet(s.inst[i].batch)
  IN IF Prompt(r) \in old
     THEN /\ m.node[Prompt(r)] = "COMPLETED" /\ m.node[Token(r)] = s.node[Token(r)]
          /\ m.generated[Token(r)] = s.generated[Token(r)]
          /\ IF D[r] = i THEN SameCache(s, m, r) ELSE HandedOver(s, m, r, D[r])
          /\ Token(r) \notin ToSet(m.inst[i].batch)
     ELSE IF Token(r) \notin old
     THEN Rests(s, m, r) /\ Token(r) \notin ToSet(m.inst[i].batch)
     ELSE /\ m.node[Prompt(r)] = s.node[Prompt(r)]
          /\ \/ TokenEnds(s, m, r, D) /\ Token(r) \notin ToSet(m.inst[i].batch)
             \/ TokenGoesOn(s, m, r) /\ Token(r) \in ToSet(m.inst[i].batch)

(* A run of iterations is over: prompts complete, and token tasks complete *)
(* or go on.                                                               *)
LEMMA EndedMoves ==
  ASSUME trace \in [Requests -> Shapes], NEW P, NEW D, Placed(P, D), NEW s, Good(s, P, D),
         Lean(s), NEW i \in Instances, Punctual, Course(s, i), NEW m,
         Ended(s, m, i, At(s.node, P, D, i), D)
  PROVE  /\ Lean(m) /\ NoPrompts(m.inst[i])
         /\ \A r \in Requests : HalfWay(s, m, r, i, D)
<1> DEFINE at == At(s.node, P, D, i)
           q == s.inst[i]
           old == ToSet(q.batch)
           done == EndingNow(s, i)
           n == q.iterations
           new == ToSet(m.inst[i].batch)
<1>1. /\ s \in StateType /\ m \in StateType
      /\ Sound(q, s.node, at) /\ Running(q, s.node) /\ Ready(s.node, s.preempted, at)
      /\ \A r \in Requests : Stage(s, r, P, D)
  BY GoodFacts DEF Good, Ended
<1>2. /\ new = old \ done
      /\ \A t \in TaskNodes : m.node[t] = IF t \in done THEN "COMPLETED" ELSE s.node[t]
      /\ \A r \in Requests : Settled(s, m, i, r, D, done)
      /\ m.generated = [t \in TaskNodes |-> s.generated[t] + (IF t \in old THEN n ELSE 0)]
  BY DEF Ended
<1>3. s.generated \in [TaskNodes -> Int] /\ n \in Int
  BY <1>1, QueueFields DEF StateType
<1>4. \A t \in old : t \in TaskNodes /\ t \in at /\ s.node[t] = "RUNNING"
  BY <1>1 DEF Sound, Running, At
<1>5. \A t \in old : /\ IsPrompt(t) => n = 1
                     /\ n >= 1 /\ s.generated[t] + n <= TokensToGenerate(t)
  BY DEF Course
<1>6. done = {t \in old : s.generated[t] + n = TokensToGenerate(t)}
  BY DEF EndingNow
<1>7. \A t \in old : Where(P, D, t) = i
  BY <1>4 DEF At
<1> HIDE DEF at, old, done, n, q, new
<1>8. \A r \in Requests :
        /\ Prompt(r) \in TaskNodes /\ Token(r) \in TaskNodes
        /\ Prompt(r) # Token(r) /\ IsPrompt(Prompt(r)) /\ ~ IsPrompt(Token(r))
        /\ Prompt(r).req = r /\ Token(r).req = r
  BY NodesOfRequests
<1>9. ASSUME NEW r \in Requests, Prompt(r) \in old
      PROVE  Prompt(r) \in done /\ n = 1 /\ Token(r) \notin old
  <2>1. s.generated[Prompt(r)] = 0
    BY <1>4, <1>9 DEF Lean
  <2>2. TokensToGenerate(Prompt(r)) = 1
    BY <1>8 DEF TokensToGenerate
  <2>3. n = 1
    BY <1>5, <1>8, <1>9
  <2>4. Token(r) \notin old
    BY <1>1, <1>4, <1>9 DEF Stage
  <2> QED
    BY <1>6, <1>9, <2>1, <2>2, <2>3, <2>4
<1>10. ASSUME NEW t \in TaskNodes
       PROVE  m.generated[t] >= 0
  <2>1. s.generated[t] \in Int /\ s.generated[t] >= 0
    BY <1>3 DEF Lean
  <2>2. t \in old => n >= 1
    BY <1>5
  <2> QED
    BY <1>2, <1>3, <2>1, <2>2
<1>11. ASSUME NEW r \in Requests
       PROVE  /\ m.node[Prompt(r)] # "BLOCKED"
              /\ m.node[Prompt(r)] # "COMPLETED" => m.generated[Prompt(r)] = 0
  <2>1. CASE Prompt(r) \in old
    BY <1>2, <1>8, <1>9, <2>1
  <2>2. CASE Prompt(r) \notin old
    <3>1. Prompt(r) \notin done
      BY <1>6, <2>2
    <3>2. m.node[Prompt(r)] = s.node[Prompt(r)]
      BY <1>2, <1>8, <3>1
    <3>3. m.generated[Prompt(r)] = s.generated[Prompt(r)]
      BY <1>2, <1>3, <1>8, <2>2
    <3> QED
      BY <3>2, <3>3 DEF Lean
  <2> QED
    BY <2>1, <2>2
<1>12. NoPrompts(m.inst[i])
  <2>1. ASSUME NEW t \in new
        PROVE  ~ IsPrompt(t)
    <3>1. t \in old /\ t \notin done /\ t \in TaskNodes
      BY <1>2, <1>4
    <3>2. t = Prompt(t.req) => t \in done
      BY <1>9, <3>1, TaskParts
    <3> QED
      BY <3>1, <3>2, TaskParts
  <2> QED
    BY <2>1 DEF NoPrompts, new
<1>13. ASSUME NEW r \in Requests
       PROVE  HalfWay(s, m, r, i, D)
  <2>1. CASE Prompt(r) \in old
    <3>1. Prompt(r) \in done /\ Token(r) \notin old /\ Token(r) \notin done
      BY <1>6, <1>9, <2>1
    <3>2. m.node[Prompt(r)] = "COMPLETED" /\ m.node[Token(r)] = s.node[Token(r)]
      BY <1>2, <1>8, <3>1
    <3>3. m.generated[Token(r)] = s.generated[Token(r)]
      BY <1>2, <1>3, <1>8, <3>1
    <3>4. IF D[r] = i THEN SameCache(s, m, r) ELSE HandedOver(s, m, r, D[r])
      BY <1>2, <3>1 DEF Settled
    <3>5. Token(r) \notin new
      BY <1>2, <3>1
    <3> QED
      BY <2>1, <3>2, <3>3, <3>4, <3>5 DEF HalfWay, old, q, new
  <2>2. CASE Prompt(r) \notin old /\ Token(r) \notin old
    <3>1. Prompt(r) \notin done /\ Token(r) \notin done
      BY <1>6, <2>2
    <3>2. m.node[Prompt(r)] = s.node[Prompt(r)] /\ m.node[Token(r)] = s.node[Token(r)]
      BY <1>2, <1>8, <3>1
    <3>3. m.generated[Token(r)] = s.generated[Token(r)]
      BY <1>2, <1>3, <1>8, <2>2
    <3>4. SameCache(s, m, r)
      BY <1>2, <3>1 DEF Settled
    <3>5. Token(r) \notin new
      BY <1>2, <2>2
    <3> QED
      BY <2>2, <3>2, <3>3, <3>4, <3>5 DEF HalfWay, Rests, old, q, new
  <2>3. CASE Prompt(r) \notin old /\ Token(r) \in old
    <3>1. /\ s.node[Token(r)] = "RUNNING" /\ D[r] = i
          /\ n >= 1 /\ s.generated[Token(r)] + n <= TokensToGenerate(Token(r))
          /\ m.generated[Token(r)] = s.generated[Token(r)] + n
      BY <1>2, <1>4, <1>5, <1>7, <1>8, <2>3 DEF Where
    <3>2. Prompt(r) \notin done
      BY <1>6, <2>3
    <3>3. m.node[Prompt(r)] = s.node[Prompt(r)]
      BY <1>2, <1>8, <3>2
    <3>4. s.generated[Token(r)] \in Int /\ s.generated[Token(r)] >= 0
      BY <1>3, <1>8 DEF Lean
    <3>5. CASE Token(r) \in done
      <4>1. m.node[Token(r)] = "COMPLETED" /\ Token(r) \notin new
        BY <1>2, <1>8, <3>5
      <4>2. Freed(s, m, D[r], r)
        BY <1>2, <3>1, <3>2, <3>5 DEF Settled
      <4>3. m.generated[Token(r)] = TokensToGenerate(Token(r))
        BY <1>6, <3>1, <3>5
      <4>4. TokenEnds(s, m, r, D)
        BY <3>1, <3>3, <4>1, <4>2, <4>3 DEF TokenEnds
      <4> QED
        BY <2>3, <3>3, <4>1, <4>4 DEF HalfWay, old, q, new
    <3>6. CASE Token(r) \notin done
      <4>1. m.node[Token(r)] = "RUNNING" /\ Token(r) \in new
        BY <1>2, <1>8, <2>3, <3>1, <3>6
      <4>2. SameCache(s, m, r)
        BY <1>2, <3>2, <3>6 DEF Settled
      <4>3. s.generated[Token(r)] + n # TokensToGenerate(Token(r))
        BY <1>6, <2>3, <3>6
      <4>4. TokensToGenerate(Token(r)) \in Int
        BY <1>8, SizesAreNumbers
      <4>5. /\ m.generated[Token(r)] > s.generated[Token(r)]
            /\ m.generated[Token(r)] < TokensToGenerate(Token(r))
        BY <1>3, <3>1, <3>4, <4>3, <4>4
      <4>6. TokenGoesOn(s, m, r)
        BY <3>1, <3>3, <3>4, <4>1, <4>2, <4>5 DEF TokenGoesOn
      <4> QED
        BY <2>3, <3>3, <4>1, <4>6 DEF HalfWay, old, q, new
    <3> QED
      BY <3>5, <3>6
  <2> QED
    BY <2>1, <2>2, <2>3
<1> QED
  BY <1>10, <1>11, <1>12, <1>13 DEF Lean

(* complete_iteration: what it does to each request.                       *)
Moves(s, a, r, i, P, D) ==
  \/ Starts(s, a, r, i, P, D)
  \/ P[r] = i /\ PromptEnds(s, a, r, P, D)
  \/ D[r] = i /\ TokenEnds(s, a, r, D)
  \/ TokenGoesOn(s, a, r)

(* What the end of a run leaves half way, the start of the next one makes  *)
(* a move.                                                                 *)
LEMMA ThenStarts ==
  ASSUME NEW P, NEW D, NEW s \in StateType, NEW m \in StateType, NEW a, NEW i \in Instances,
         NEW r \in Requests, Stage(s, r, P, D), Chains(s, P, D),
         \A t \in ToSet(s.inst[i].batch) : s.node[t] = "RUNNING" /\ Where(P, D, t) = i,
         HalfWay(s, m, r, i, D), P[r] = i => P[r] # NoInstance,
         IF Token(r) \in ToSet(m.inst[i].batch) THEN Stays(m, a, r)
         ELSE Starts(m, a, r, i, P, D)
  PROVE  Moves(s, a, r, i, P, D)
<1> DEFINE old == ToSet(s.inst[i].batch)
           new == ToSet(m.inst[i].batch)
<1>0. /\ \A k \in Instances : s.alloc[k][r] \in Int /\ m.alloc[k][r] \in Int
      /\ s.memory[r] \in Int /\ m.memory[r] \in Int
  BY DEF StateType
<1>1. /\ IsPrompt(Prompt(r)) /\ ~ IsPrompt(Token(r)) /\ Prompt(r).req = r /\ Token(r).req = r
  BY NodesOfRequests
<1>2. CASE Prompt(r) \in old
  <2>1. /\ s.node[Prompt(r)] = "RUNNING" /\ P[r] = i
        /\ m.node[Prompt(r)] = "COMPLETED" /\ m.node[Token(r)] = s.node[Token(r)]
        /\ m.generated[Token(r)] = s.generated[Token(r)]
        /\ IF D[r] = i THEN SameCache(s, m, r) ELSE HandedOver(s, m, r, D[r])
        /\ Starts(m, a, r, i, P, D)
    BY <1>1, <1>2 DEF HalfWay, Where
  <2>2. Rests(m, a, r) \/ (D[r] = i /\ TokenStarts(m, a, r, i))
    BY <2>1 DEF Starts, PromptStarts
  <2>3. CASE D[r] # i
    <3>1. Rests(m, a, r) /\ HandedOver(s, m, r, D[r])
      BY <2>1, <2>2, <2>3
    <3>2. HandedOver(s, a, r, D[r])
      BY <3>1 DEF HandedOver, Rests, SameCache
    <3>3. PromptEnds(s, a, r, P, D)
      BY <2>1, <2>3, <3>1, <3>2 DEF PromptEnds, Rests
    <3> QED
      BY <2>1, <3>3 DEF Moves
  <2>4. CASE D[r] = i
    <3>1. s.node[Token(r)] = "QUEUED"
      BY <2>1, <2>4 DEF Stage, Chains
    <3>2. CASE Rests(m, a, r)
      <4>1. a.node[Token(r)] = "QUEUED" /\ Grows(s, a, r, P[r], 0)
        BY <1>0, <2>1, <2>4, <3>1, <3>2 DEF Rests, SameCache, Grows
      <4>2. PromptEnds(s, a, r, P, D)
        BY <2>1, <2>4, <3>2, <4>1 DEF PromptEnds, Rests, SameCache
      <4> QED
        BY <2>1, <4>2 DEF Moves
    <3>3. CASE TokenStarts(m, a, r, i)
      <4>1. a.node[Token(r)] = "RUNNING" /\ Grows(s, a, r, P[r], TokenMemory(r))
        BY <2>1, <2>4, <3>1, <3>3 DEF TokenStarts, SameCache, Grows
      <4>2. PromptEnds(s, a, r, P, D)
        BY <2>1, <2>4, <3>3, <4>1 DEF PromptEnds, TokenStarts, SameCache
      <4> QED
        BY <2>1, <4>2 DEF Moves
    <3> QED
      BY <2>2, <3>2, <3>3
  <2> QED
    BY <2>3, <2>4
<1>3. CASE Prompt(r) \notin old /\ Token(r) \notin old
  <2>1. Rests(s, m, r) /\ Starts(m, a, r, i, P, D)
    BY <1>3 DEF HalfWay
  <2>2. Starts(s, a, r, i, P, D)
    BY <2>1 DEF Starts, Rests, PromptStarts, TokenStarts, SameCache, Grows
  <2> QED
    BY <2>2 DEF Moves
<1>4. CASE Prompt(r) \notin old /\ Token(r) \in old
  <2>0. s.node[Prompt(r)] = "COMPLETED" /\ m.node[Prompt(r)] = "COMPLETED"
    BY <1>4 DEF Stage, HalfWay
  <2>1. CASE TokenEnds(s, m, r, D) /\ Token(r) \notin new
    <3>1. Starts(m, a, r, i, P, D)
      BY <2>1
    <3>2. Rests(m, a, r)
      BY <2>0, <2>1, <3>1 DEF Starts, PromptStarts, TokenStarts, TokenEnds
    <3>3. TokenEnds(s, a, r, D)
      BY <2>1, <3>2 DEF TokenEnds, Rests, Freed, SameCache
    <3>4. D[r] = i
      BY <1>1, <1>4 DEF Where
    <3> QED
      BY <3>3, <3>4 DEF Moves
  <2>2. CASE TokenGoesOn(s, m, r) /\ Token(r) \in new
    <3>1. Stays(m, a, r)
      BY <2>2
    <3>2. TokenGoesOn(s, a, r)
      BY <2>2, <3>1 DEF TokenGoesOn, Stays, SameCache
    <3> QED
      BY <3>2 DEF Moves
  <2> QED
    BY <1>4, <2>1, <2>2 DEF HalfWay
<1> QED
  BY <1>2, <1>3, <1>4

(* complete_iteration.                                                     *)
LEMMA CompleteMoves ==
  ASSUME trace \in [Requests -> Shapes], NEW P, NEW D, Placed(P, D), NEW B, NEW N,
         NEW i \in Instances, NEW s, Punctual,
         Regular(s, P, D, B, N, Instances, Instances),
         i \in Orca => ToSet(s.inst[i].batch) \subseteq B[i],
         Lean(s), Chains(s, P, D)
  PROVE  LET a == CompleteIteration(s, i, D)
         IN Lean(a) /\ \A r \in Requests : Moves(s, a, r, i, P, D)
<1> DEFINE m == EndRun(s, i, D)
           a == StartIteration(m, i, D)
<1>1. s \in StateType /\ Good(s, P, D) /\ Course(s, i)
  BY DEF Regular, Good
<1>2. Regular(s, P, D, B, N, Instances, Instances \ {i})
  BY RegularWeaker
<1>3. Regular(m, P, D, B, N, Instances \ {i}, Instances \ {i})
  BY <1>2, EndedRegular
<1>4. Ended(s, m, i, At(s.node, P, D, i), D)
  BY <1>1, GoodFacts, EndRunLaw
<1>5. Lean(m) /\ NoPrompts(m.inst[i]) /\ \A r \in Requests : HalfWay(s, m, r, i, D)
  <2> HIDE DEF m
  <2> QED
    BY <1>1, <1>4, EndedMoves
<1> HIDE DEF m
<1>6. /\ Lean(a)
      /\ \A r \in Requests : IF Token(r) \in ToSet(m.inst[i].batch) THEN Stays(m, a, r)
                             ELSE Starts(m, a, r, i, P, D)
  BY <1>3, <1>5, StartMoves
<1> HIDE DEF a
<1>7. ASSUME NEW r \in Requests
      PROVE  Moves(s, a, r, i, P, D)
  <2>1. Stage(s, r, P, D) /\ m \in StateType
    BY <1>1, <1>4 DEF Good, Ended
  <2>2. \A t \in ToSet(s.inst[i].batch) : s.node[t] = "RUNNING" /\ Where(P, D, t) = i
    BY <1>1 DEF Good, Running, Sound, At
  <2>3. P[r] = i => P[r] # NoInstance
    BY PlacementAssumption
  <2>4. HalfWay(s, m, r, i, D)
    BY <1>5
  <2>5. IF Token(r) \in ToSet(m.inst[i].batch) THEN Stays(m, a, r) ELSE Starts(m, a, r, i, P, D)
    BY <1>6
  <2> QED
    BY ONLY <1>1, <2>1, <2>2, <2>3, <2>4, <2>5, Chains(s, P, D), i \in Instances,
            r \in Requests, ThenStarts
<1> QED
  BY <1>6, <1>7 DEF CompleteIteration, a, m

(* pause_iteration changes nothing but the course of the run.              *)
LEMMA PauseRests ==
  ASSUME NEW s \in StateType, NEW i \in Instances
  PROVE  LET a == PauseIteration(s, i)
         IN a.node = s.node /\ a.generated = s.generated /\ a.alloc = s.alloc
            /\ a.memory = s.memory
  BY DEF PauseIteration, StateType

(* Where no run is under way, tasks start.                                 *)
LEMMA IdleStartMoves ==
  ASSUME trace \in [Requests -> Shapes], NEW P, NEW D, Placed(P, D), NEW B, NEW N,
         NEW i \in Instances, NEW s, Punctual,
         Regular(s, P, D, B, N, Instances, Instances), Lean(s),
         s.inst[i].batch = <<>>
  PROVE  LET a == StartIteration(s, i, D)
         IN Lean(a) /\ \A r \in Requests : Starts(s, a, r, i, P, D)
<1> DEFINE a == StartIteration(s, i, D)
<1>1. ToSet(s.inst[i].batch) = {}
  <2>1. ToSet(<<>>) = {}
    BY DEF ToSet
  <2> QED
    BY <2>1
<1>2. NoPrompts(s.inst[i])
  BY <1>1 DEF NoPrompts
<1>3. Regular(s, P, D, B, N, Instances \ {i}, Instances \ {i})
  BY RegularWeaker
<1>4. /\ Lean(a)
      /\ \A r \in Requests : IF Token(r) \in ToSet(s.inst[i].batch) THEN Stays(s, a, r)
                             ELSE Starts(s, a, r, i, P, D)
  BY <1>2, <1>3, StartMoves
<1> HIDE DEF a
<1> QED
  BY <1>1, <1>4 DEF a

(* A handler that changes no node, no count of tokens and no memory.       *)
LEMMA NothingMoves ==
  ASSUME NEW s, Lean(s), NEW a, a.node = s.node, a.generated = s.generated,
         a.alloc = s.alloc, a.memory = s.memory
  PROVE  Lean(a) /\ \A r, i, P, D : Starts(s, a, r, i, P, D)
  BY DEF Lean, Starts, Rests, SameCache

(* An instance learns of a task that has arrived.                          *)
LEMMA NoticeMoves ==
  ASSUME trace \in [Requests -> Shapes], NEW P, NEW D, Placed(P, D), NEW B, NEW N,
         NEW i \in Instances, NEW s, Punctual,
         Regular(s, P, D, B, N, Instances, Instances), Lean(s), NEW t
  PROVE  LET a == Notice(s, i, t, D)
         IN Lean(a) /\ \A r \in Requests : Starts(s, a, r, i, P, D)
<1>1. s \in StateType
  BY DEF Regular, Good
<1>2. CASE s.inst[i].batch = <<>> /\ Fits(s, i, TaskMemory(t))
  <2>1. Notice(s, i, t, D) = StartIteration(s, i, D)
    BY <1>2 DEF Notice
  <2> QED
    BY <1>2, <2>1, IdleStartMoves
<1>3. CASE s.inst[i].batch # <<>> /\ (MayJoin(i, s.inst[i], t) \/ MayPreempt(i, s.inst[i], t))
  <2>1. Notice(s, i, t, D) = PauseIteration(s, i)
    BY <1>3 DEF Notice
  <2> QED
    BY <1>1, <2>1, PauseRests, NothingMoves
<1>4. CASE ~ (s.inst[i].batch = <<>> /\ Fits(s, i, TaskMemory(t)))
           /\ ~ (s.inst[i].batch # <<>> /\ (MayJoin(i, s.inst[i], t) \/ MayPreempt(i, s.inst[i], t)))
  <2>1. Notice(s, i, t, D) = s
    BY <1>4 DEF Notice
  <2> QED
    BY <2>1, NothingMoves
<1> QED
  BY <1>2, <1>3, <1>4

(* notify_flow_completion.                                                 *)
LEMMA NotifyMoves ==
  ASSUME trace \in [Requests -> Shapes], NEW P, NEW D, Placed(P, D), NEW B, NEW N,
         NEW i \in Instances, NEW s, Punctual,
         Regular(s, P, D, B, N, Instances, Instances), Lean(s)
  PROVE  LET a == NotifyFlowCompletion(s, i, D)
         IN Lean(a) /\ \A r \in Requests : Starts(s, a, r, i, P, D)
<1> DEFINE q == s.inst[i]
           starts == /\ q.pending # <<>> /\ q.batch = <<>>
                     /\ Fits(s, i, TaskMemory(Head(q.pending)))
           pauses == /\ q.pending # <<>> /\ q.batch # <<>>
                     /\ Len(q.batch) < MaxBatchSize
                     /\ i \in Orca \/ q.batchTokens < MaxBatchTokens
<1>1. s \in StateType
  BY DEF Regular, Good
<1>2. CASE starts
  <2>1. NotifyFlowCompletion(s, i, D) = StartIteration(s, i, D)
    BY <1>2 DEF NotifyFlowCompletion
  <2> QED
    BY <1>2, <2>1, IdleStartMoves
<1>3. CASE pauses
  <2>1. NotifyFlowCompletion(s, i, D) = PauseIteration(s, i)
    BY <1>3 DEF NotifyFlowCompletion
  <2> QED
    BY <1>1, <2>1, PauseRests, NothingMoves
<1>4. CASE ~ starts /\ ~ pauses
  <2>1. NotifyFlowCompletion(s, i, D) = s
    BY <1>4 DEF NotifyFlowCompletion
  <2> QED
    BY <2>1, NothingMoves
<1> QED
  BY <1>2, <1>3, <1>4

(* One move after another.                                                 *)
LEMMA RestsTwice ==
  ASSUME NEW s, NEW m, NEW a, NEW r, Rests(s, m, r)
  PROVE  /\ Rests(m, a, r) => Rests(s, a, r)
         /\ \A i, P, D : Starts(m, a, r, i, P, D) => Starts(s, a, r, i, P, D)
  BY DEF Rests, Starts, PromptStarts, TokenStarts, SameCache, Grows

(* A request that has started something rests.                             *)
LEMMA StartsThenRests ==
  ASSUME NEW s, NEW m, NEW a, NEW r, Rests(m, a, r)
  PROVE  \A i, P, D : Starts(s, m, r, i, P, D) => Starts(s, a, r, i, P, D)
  BY DEF Rests, Starts, PromptStarts, TokenStarts, SameCache, Grows

(* A request starts one thing at most in two handlers of one event.        *)
LEMMA StartsTwice ==
  ASSUME NEW s, NEW m, NEW a, NEW r, NEW P, NEW D, NEW i, NEW j,
         Starts(s, m, r, i, P, D), Starts(m, a, r, j, P, D)
  PROVE  Starts(s, a, r, i, P, D) \/ Starts(s, a, r, j, P, D)
<1>1. CASE Rests(s, m, r)
  BY <1>1, RestsTwice
<1>2. CASE Rests(m, a, r)
  BY <1>2, StartsThenRests
<1>3. CASE ~ Rests(s, m, r) /\ ~ Rests(m, a, r)
  <2>1. m.node[Prompt(r)] = "RUNNING" \/ (m.node[Token(r)] = "RUNNING" /\ m.node[Prompt(r)] = "COMPLETED")
    BY <1>3 DEF Starts, PromptStarts, TokenStarts
  <2>2. m.node[Prompt(r)] = "QUEUED" \/ (m.node[Token(r)] \in {"QUEUED", "BLOCKED"} /\ m.node[Prompt(r)] = "COMPLETED")
    BY <1>3 DEF Starts, PromptStarts, TokenStarts
  <2> QED
    BY <2>1, <2>2
<1> QED
  BY <1>1, <1>2, <1>3

(* A task is queued, and nothing else.                                     *)
Queues(s, a, i, t) ==
  /\ a.node = [s.node EXCEPT ![t] = "QUEUED"]
  /\ a.generated = s.generated /\ a.alloc = s.alloc /\ a.memory = s.memory
  /\ a.inst[i].batch = s.inst[i].batch

(* The arrival of a task moves no other request.                           *)
LEMMA QueuesLaw ==
  ASSUME NEW s, s.node \in [Nodes -> NodeStates], NEW a, NEW i, NEW t \in TaskNodes,
         Queues(s, a, i, t)
  PROVE  /\ \A r \in Requests : r # t.req => Rests(s, a, r)
         /\ a.node[t] = "QUEUED" /\ \A n \in Nodes : n # t => a.node[n] = s.node[n]
         /\ s.node[t] = "NONE" /\ Lean(s) => Lean(a)
<1>1. a.node[t] = "QUEUED" /\ \A n \in Nodes : n # t => a.node[n] = s.node[n]
  BY DEF Queues, Nodes
<1>2. ASSUME NEW r \in Requests, r # t.req
      PROVE  Rests(s, a, r)
  <2>1. /\ Prompt(r) # t /\ Token(r) # t /\ Flow(r) # t
        /\ Prompt(r) \in Nodes /\ Token(r) \in Nodes /\ Flow(r) \in Nodes
    BY <1>2, NodesOfRequests
  <2>2. /\ a.node[Prompt(r)] = s.node[Prompt(r)] /\ a.node[Token(r)] = s.node[Token(r)]
        /\ a.node[Flow(r)] = s.node[Flow(r)]
    BY <1>1, <2>1
  <2> QED
    BY <2>2 DEF Queues, Rests, SameCache
<1>3. ASSUME s.node[t] = "NONE", Lean(s)
      PROVE  Lean(a)
  <2>1. ASSUME NEW r \in Requests
        PROVE  /\ a.node[Prompt(r)] # "BLOCKED"
               /\ a.node[Prompt(r)] # "COMPLETED" => a.generated[Prompt(r)] = 0
    <3>1. Prompt(r) \in Nodes
      BY NodesOfRequests
    <3>2. /\ s.node[Prompt(r)] # "BLOCKED"
          /\ s.node[Prompt(r)] # "COMPLETED" => s.generated[Prompt(r)] = 0
      BY <1>3 DEF Lean
    <3>3. CASE Prompt(r) = t
      BY <1>1, <1>3, <3>2, <3>3 DEF Queues
    <3>4. CASE Prompt(r) # t
      BY <1>1, <3>1, <3>2, <3>4 DEF Queues
    <3> QED
      BY <3>3, <3>4
  <2>2. \A u \in TaskNodes : a.generated[u] >= 0
    BY <1>3 DEF Lean, Queues
  <2> QED
    BY <2>1, <2>2 DEF Lean
<1> QED
  BY <1>1, <1>2, <1>3

(* task_arrival.                                                           *)
LEMMA ArrivalMoves ==
  ASSUME trace \in [Requests -> Shapes], NEW P, NEW D, Placed(P, D), NEW B, NEW N,
         NEW i \in Instances, NEW s, Punctual,
         Regular(s, P, D, B, N, Instances, Instances), Lean(s),
         NEW t \in TaskNodes, MayArrive(s, t, P, D), Where(P, D, t) = i,
         i \in Orca => \/ ToSet(s.inst[i].batch) \subseteq B[i]
                       \/ \A r \in Requests : t.req < r => P[r] = NoInstance
  PROVE  LET b == Arrived(s, i, t)
             a == TaskArrival(s, i, t, D)
         IN Queues(s, b, i, t) /\ Lean(a) /\ \A r \in Requests : Starts(b, a, r, i, P, D)
<1> DEFINE b == Arrived(s, i, t)
<1>1. Regular(b, P, D, B, N \ {t}, Instances, Instances)
  BY ArrivedRegular
<1>2. Good(s, P, D) /\ s.node \in [Nodes -> NodeStates] /\ s.node[t] = "NONE"
  BY DEF Regular, Good, MayArrive, StateType
<1>3. Beside(s, b, i) /\ b.node = [s.node EXCEPT ![t] = "QUEUED"]
      /\ b.inst[i].batch = s.inst[i].batch
  BY <1>2, ArrivedGood
<1> HIDE DEF b
<1>4. Queues(s, b, i, t)
  BY <1>3 DEF Queues, Beside
<1>5. Lean(b)
  BY <1>2, <1>4, QueuesLaw
<1>6. Lean(Notice(b, i, t, D))
      /\ \A r \in Requests : Starts(b, Notice(b, i, t, D), r, i, P, D)
  BY <1>1, <1>5, NoticeMoves
<1>7. TaskArrival(s, i, t, D) = Notice(b, i, t, D)
  BY DEF TaskArrival, b, Arrived
<1> QED
  BY <1>4, <1>6, <1>7 DEF b

(* Request r is placed: its prompt task is queued or has started at p, and *)
(* its token task is in state x.                                           *)
Comes(s, a, r, p, x) ==
  /\ s.node[Prompt(r)] = "NONE" /\ s.node[Token(r)] = "NONE" /\ s.node[Flow(r)] = "NONE"
  /\ a.node[Flow(r)] = "NONE" /\ a.node[Token(r)] = x
  /\ a.generated[Token(r)] = s.generated[Token(r)]
  /\ \/ a.node[Prompt(r)] = "QUEUED" /\ Grows(s, a, r, p, 0)
     \/ a.node[Prompt(r)] = "RUNNING" /\ Grows(s, a, r, p, PromptMemory(r))

(* A request that comes may start at once.                                 *)
LEMMA ComesThenStarts ==
  ASSUME NEW s \in StateType, NEW m \in StateType, NEW a, NEW r \in Requests,
         NEW P, NEW D, NEW p \in Instances, NEW x, P[r] = p,
         Comes(s, m, r, p, x), Starts(m, a, r, p, P, D)
  PROVE  Comes(s, a, r, p, x)
<1>0. /\ \A k \in Instances : s.alloc[k][r] \in Int /\ m.alloc[k][r] \in Int
      /\ s.memory[r] \in Int /\ m.memory[r] \in Int
  BY DEF StateType
<1>1. ~ TokenStarts(m, a, r, p)
  BY DEF Comes, TokenStarts
<1>2. CASE Rests(m, a, r)
  BY <1>2 DEF Comes, Rests, SameCache, Grows
<1>3. CASE PromptStarts(m, a, r, p)
  <2>1. Grows(s, m, r, p, 0) /\ Grows(m, a, r, p, PromptMemory(r))
    BY <1>3 DEF Comes, PromptStarts
  <2>2. Grows(s, a, r, p, PromptMemory(r))
    BY <1>0, <2>1 DEF Grows
  <2> QED
    BY <1>3, <2>2 DEF Comes, PromptStarts
<1> QED
  BY <1>1, <1>2, <1>3 DEF Starts

(* The request that is submitted comes; others start at its instance, or   *)
(* rest.                                                                   *)
LEMMA SubmitMoves ==
  ASSUME trace \in [Requests -> Shapes], NEW P, NEW D, Placed(P, D), NEW B, NEW N, NEW s,
         Punctual, Regular(s, P, D, B, N, Instances, Instances), Lean(s),
         NEW r \in Requests, P[r] = NoInstance,
         \A q \in Requests : r < q => P[q] = NoInstance,
         NEW p \in Instances, NEW d \in Instances
  PROVE  LET P2 == [P EXCEPT ![r] = p]
             D2 == [D EXCEPT ![r] = d]
             a == Submit(s, r, p, d, D2)
         IN /\ Lean(a)
            /\ Comes(s, a, r, p, IF p = d THEN "QUEUED" ELSE "NONE")
            /\ \A q \in Requests \ {r} : Starts(s, a, q, p, P2, D2)
<1> DEFINE P2 == [P EXCEPT ![r] = p]
           D2 == [D EXCEPT ![r] = d]
           b == Arrived(s, p, Prompt(r))
           a == TaskArrival(s, p, Prompt(r), D2)
           M == N \ {Prompt(r)}
           e == Arrived(a, p, Token(r))
           z == TaskArrival(a, p, Token(r), D2)
<1>1. Placed(P2, D2) /\ Regular(s, P2, D2, B, N, Instances, Instances)
  BY PlacedRegular
<1>2. /\ P2[r] = p /\ D2[r] = d /\ \A q \in Requests : q # r => P2[q] = P[q]
  BY DEF Placed, Placing
<1> HIDE DEF P2, D2
<1>3. \A q \in Requests : r < q => P2[q] = NoInstance
  BY <1>2, InstanceAssumption
<1>4. /\ Prompt(r) \in TaskNodes /\ Token(r) \in TaskNodes /\ Prompt(r) # Token(r)
      /\ Prompt(r) \in Nodes /\ Token(r) \in Nodes /\ Flow(r) \in Nodes
      /\ Prompt(r).req = r /\ Token(r).req = r
      /\ Prompt(r) # Flow(r) /\ Token(r) # Flow(r)
      /\ IsPrompt(Prompt(r)) /\ ~ IsPrompt(Token(r))
  BY NodesOfRequests
<1>5. /\ s \in StateType
      /\ s.node[Prompt(r)] = "NONE" /\ s.node[Token(r)] = "NONE" /\ s.node[Flow(r)] = "NONE"
  BY DEF Regular, Good, Stage
<1>6. /\ MayArrive(s, Prompt(r), P2, D2) /\ Where(P2, D2, Prompt(r)) = p
      /\ \A q \in Requests : Prompt(r).req < q => P2[q] = NoInstance
  BY <1>2, <1>3, <1>4, <1>5 DEF MayArrive, Where
<1>7. Regular(a, P2, D2, B, M, Instances, Instances)
  BY <1>1, <1>4, <1>6, TaskArrivalRegular
<1>8. /\ Queues(s, b, p, Prompt(r)) /\ Lean(a)
      /\ \A q \in Requests : Starts(b, a, q, p, P2, D2)
  BY <1>1, <1>4, <1>6, ArrivalMoves
<1>9. a \in StateType /\ Token(r) \in M /\ Prompt(r) \notin M /\ Idle(a) = M
  BY <1>4, <1>5, <1>7 DEF Regular, Good, Idle
<1>10. b \in StateType
  <2>1. Regular(b, P2, D2, B, M, Instances, Instances)
    BY <1>1, <1>4, <1>6, ArrivedRegular
  <2> HIDE DEF b
  <2> QED
    BY <2>1 DEF Regular, Good
<1> HIDE DEF a, b, M
<1>11. s.node \in [Nodes -> NodeStates] /\ a.node \in [Nodes -> NodeStates]
  BY <1>5, <1>9 DEF StateType
<1>12. \A q \in Requests \ {r} : Starts(s, a, q, p, P2, D2)
  <2>1. \A q \in Requests \ {r} : Rests(s, b, q)
    BY <1>4, <1>8, <1>11, QueuesLaw
  <2> QED
    BY <1>8, <2>1, RestsTwice
<1>13. Comes(s, a, r, p, "NONE")
  <2>1. b.node[Prompt(r)] = "QUEUED" /\ b.node[Token(r)] = "NONE" /\ b.node[Flow(r)] = "NONE"
    BY <1>4, <1>5, <1>8, <1>11, QueuesLaw
  <2>2. Grows(s, b, r, p, 0)
    <3>1. b.alloc = s.alloc /\ b.memory = s.memory
      BY <1>8 DEF Queues
    <3>2. s.memory[r] \in Int /\ \A j \in Instances : s.alloc[j][r] \in Int
      BY <1>5 DEF StateType
    <3> QED
      BY <3>1, <3>2 DEF Grows
  <2>3. Comes(s, b, r, p, "NONE")
    BY <1>5, <1>8, <2>1, <2>2 DEF Comes, Queues
  <2>4. Starts(b, a, r, p, P2, D2)
    BY <1>8
  <2> QED
    BY ONLY <1>2, <1>5, <1>10, <2>3, <2>4, r \in Requests, p \in Instances,
       ComesThenStarts
<1>14. CASE p # d
  <2>1. Submit(s, r, p, d, D2) = a
    BY <1>14 DEF Submit, SubmitChain, a
  <2> QED
    BY <1>8, <1>12, <1>13, <1>14, <2>1 DEF P2, D2
<1>15. CASE p = d
  <2>1. /\ MayArrive(a, Token(r), P2, D2) /\ Where(P2, D2, Token(r)) = p
        /\ \A q \in Requests : Token(r).req < q => P2[q] = NoInstance
    <3>1. a.node[Token(r)] = "NONE" /\ a.node[Prompt(r)] # "NONE"
      BY <1>4, <1>9 DEF Idle
    <3> QED
      BY <1>2, <1>3, <1>4, <1>15, <3>1 DEF MayArrive, Where
  <2>2. /\ Queues(a, e, p, Token(r)) /\ Lean(z)
        /\ \A q \in Requests : Starts(e, z, q, p, P2, D2)
    BY <1>1, <1>4, <1>7, <1>8, <2>1, ArrivalMoves
  <2>3. e \in StateType
    <3>1. Regular(e, P2, D2, B, M \ {Token(r)}, Instances, Instances)
      BY <1>1, <1>4, <1>7, <2>1, ArrivedRegular
    <3> HIDE DEF e
    <3> QED
      BY <3>1 DEF Regular, Good
  <2> HIDE DEF e, z
  <2>4. \A q \in Requests \ {r} : Starts(s, z, q, p, P2, D2)
    <3>1. \A q \in Requests \ {r} : Rests(a, e, q)
      BY <1>4, <1>11, <2>2, QueuesLaw
    <3>2. \A q \in Requests \ {r} : Starts(s, e, q, p, P2, D2)
      BY <1>12, <3>1, StartsThenRests
    <3> QED
      BY <2>2, <3>2, StartsTwice
  <2>5. Comes(s, z, r, p, "QUEUED")
    <3>1. /\ e.node[Token(r)] = "QUEUED" /\ e.node[Prompt(r)] = a.node[Prompt(r)]
          /\ e.node[Flow(r)] = a.node[Flow(r)]
      BY <1>4, <1>11, <2>2, QueuesLaw
    <3>2. e.alloc = a.alloc /\ e.memory = a.memory /\ e.generated = a.generated
      BY <2>2 DEF Queues
    <3>3. Comes(s, e, r, p, "QUEUED")
      BY <1>13, <3>1, <3>2 DEF Comes, Grows
    <3>4. Starts(e, z, r, p, P2, D2)
      BY <2>2
    <3> QED
      BY ONLY <1>2, <1>5, <2>3, <3>3, <3>4, r \in Requests, p \in Instances,
         ComesThenStarts
  <2>6. Submit(s, r, p, d, D2) = z
    BY <1>15 DEF Submit, SubmitChain, a, z
  <2> QED
    BY <1>15, <2>2, <2>4, <2>5, <2>6 DEF P2, D2
<1> QED
  BY <1>14, <1>15

(* The flow of r is over: the source has freed the cache, and the token    *)
(* task is queued or has started at the destination.                       *)
Ships(s, a, r, P, D, m) ==
  /\ a.memory[r] = s.memory[r] + m
  /\ \A j \in Instances :
       a.alloc[j][r] = (s.alloc[j][r] - (IF j = P[r] THEN s.memory[r] ELSE 0))
                         + (IF j = D[r] THEN m ELSE 0)

FlowEnds(s, a, r, P, D) ==
  /\ P[r] \in Instances /\ D[r] \in Instances /\ P[r] # D[r]
  /\ s.node[Flow(r)] = "RUNNING" /\ a.node[Flow(r)] = "COMPLETED"
  /\ s.node[Prompt(r)] = "COMPLETED" /\ a.node[Prompt(r)] = "COMPLETED"
  /\ s.node[Token(r)] = "NONE" /\ a.generated[Token(r)] = s.generated[Token(r)]
  /\ \/ a.node[Token(r)] = "QUEUED" /\ Ships(s, a, r, P, D, 0)
     \/ a.node[Token(r)] = "RUNNING" /\ Ships(s, a, r, P, D, TokenMemory(r))

(* A token task whose flow has ended may start at once.                    *)
LEMMA FlowEndsThenStarts ==
  ASSUME trace \in [Requests -> Shapes], NEW s \in StateType, NEW m \in StateType, NEW a,
         NEW r \in Requests, NEW P, NEW D, NEW i,
         FlowEnds(s, m, r, P, D), Starts(m, a, r, i, P, D)
  PROVE  FlowEnds(s, a, r, P, D)
<1>0. /\ \A k \in Instances : s.alloc[k][r] \in Int /\ m.alloc[k][r] \in Int
      /\ s.memory[r] \in Int /\ m.memory[r] \in Int /\ TokenMemory(r) \in Int
  <2>1. TokenMemory(r) \in Int
    <3>1. Token(r) \in TaskNodes /\ Token(r).req = r
      BY NodesOfRequests
    <3> QED
      BY <3>1, SizesAreNumbers DEF TokenMemory
  <2> QED
    BY <2>1 DEF StateType
<1>1. ~ PromptStarts(m, a, r, i)
  BY DEF FlowEnds, PromptStarts
<1>2. CASE Rests(m, a, r)
  BY <1>2 DEF FlowEnds, Rests, SameCache, Ships
<1>3. CASE D[r] = i /\ TokenStarts(m, a, r, i)
  <2>1. m.node[Token(r)] = "QUEUED" /\ Ships(s, m, r, P, D, 0) /\ Grows(m, a, r, D[r], TokenMemory(r))
    BY <1>3 DEF FlowEnds, TokenStarts
  <2>2. Ships(s, a, r, P, D, TokenMemory(r))
    BY <1>0, <2>1 DEF Grows, Ships
  <2> QED
    BY <1>3, <2>2 DEF FlowEnds, TokenStarts
<1> QED
  BY <1>1, <1>2, <1>3 DEF Starts

(* flow_completion.                                                        *)
LEMMA FlowMoves ==
  ASSUME trace \in [Requests -> Shapes], NEW P, NEW D, Placed(P, D), NEW B, NEW N, NEW s,
         Punctual, Regular(s, P, D, B, N, Instances, Instances), Lean(s),
         \A i \in Instances : ToSet(s.inst[i].batch) \subseteq B[i],
         NEW r \in Requests, s.node[Flow(r)] = "RUNNING",
         NEW s0, s0 = Delivered(s, r, P)
  PROVE  LET a == NotifyFlowCompletion(TaskArrival(s0, D[r], Token(r), D), P[r], D)
         IN /\ Lean(a) /\ FlowEnds(s, a, r, P, D)
            /\ \A q \in Requests \ {r} : \E i \in Instances : Starts(s, a, q, i, P, D)
<1>1. Regular(s0, P, D, B, N, Instances, Instances) /\ FlowOver(s, s0, r, P, D)
  BY ONLY Placed(P, D), Regular(s, P, D, B, N, Instances, Instances), r \in Requests,
          s.node[Flow(r)] = "RUNNING", s0 = Delivered(s, r, P), FlowEndedRegular
<1>2. /\ Prompt(r) \in TaskNodes /\ Token(r) \in TaskNodes /\ Token(r).req = r
      /\ Prompt(r) \in Nodes /\ Token(r) \in Nodes /\ Flow(r) \in Nodes
      /\ ~ IsPrompt(Token(r)) /\ Flow(r) # Prompt(r) /\ Flow(r) # Token(r)
      /\ Prompt(r) # Token(r)
  BY NodesOfRequests
<1>3. /\ P[r] \in Instances /\ D[r] \in Instances /\ P[r] # D[r]
      /\ s.node[Prompt(r)] = "COMPLETED" /\ s.node[Token(r)] = "NONE"
      /\ s0.alloc = [s.alloc EXCEPT ![P[r]][r] = @ - s.memory[r]]
      /\ s0.node[Flow(r)] = "COMPLETED"
      /\ \A n \in Nodes : n # Flow(r) => s0.node[n] = s.node[n]
      /\ s0.inst = s.inst /\ s0.generated = s.generated /\ s0.memory = s.memory
  BY <1>1 DEF FlowOver
<1>4. /\ s \in StateType /\ s0 \in StateType
      /\ s.memory \in [Requests -> Nat] /\ s.alloc \in [Instances -> [Requests -> Int]]
      /\ s0.node \in [Nodes -> NodeStates]
  BY <1>1 DEF Regular, Good, StateType
<1>5. /\ \A q \in Requests \ {r}, j \in Instances : s0.alloc[j][q] = s.alloc[j][q]
      /\ \A j \in Instances :
           s0.alloc[j][r] = s.alloc[j][r] - (IF j = P[r] THEN s.memory[r] ELSE 0)
  <2>1. \A j \in Instances : s.alloc[j][r] \in Int
    BY <1>4
  <2> QED
    BY <1>3, <1>4, <2>1
<1>6. \A q \in Requests \ {r} : Rests(s, s0, q)
  <2>1. ASSUME NEW q \in Requests \ {r}
        PROVE  Rests(s, s0, q)
    <3>1. /\ Prompt(q) \in Nodes /\ Token(q) \in Nodes /\ Flow(q) \in Nodes
          /\ Prompt(q) # Flow(r) /\ Token(q) # Flow(r) /\ Flow(q) # Flow(r)
      BY NodesOfRequests DEF Prompt, Token, Flow
    <3> QED
      BY <1>3, <1>5, <3>1 DEF Rests, SameCache
  <2> QED
    BY <2>1
<1>7. Lean(s0)
  <2>1. \A q \in Requests : Prompt(q) \in Nodes /\ Prompt(q) # Flow(r)
    BY NodesOfRequests DEF Prompt, Flow
  <2> QED
    BY <1>3, <2>1 DEF Lean
<1> DEFINE d == D[r]
           b == Arrived(s0, d, Token(r))
           a == TaskArrival(s0, d, Token(r), D)
           M == N \ {Token(r)}
           z == NotifyFlowCompletion(a, P[r], D)
<1>8. /\ MayArrive(s0, Token(r), P, D) /\ Where(P, D, Token(r)) = d
      /\ ToSet(s0.inst[d].batch) \subseteq B[d] /\ d \in Instances
  BY <1>2, <1>3 DEF MayArrive, Where
<1> HIDE DEF d
<1>9. Regular(a, P, D, B, M, Instances, Instances)
  BY <1>1, <1>2, <1>8, TaskArrivalRegular
<1>10. /\ Queues(s0, b, d, Token(r)) /\ Lean(a)
       /\ \A q \in Requests : Starts(b, a, q, d, P, D)
  BY <1>1, <1>2, <1>7, <1>8, ArrivalMoves
<1>11. b \in StateType
  <2>1. Regular(b, P, D, B, M, Instances, Instances)
    BY <1>1, <1>2, <1>8, ArrivedRegular
  <2> HIDE DEF b
  <2> QED
    BY <2>1 DEF Regular, Good
<1>12. a \in StateType
  <2> HIDE DEF a
  <2> QED
    BY <1>9 DEF Regular, Good
<1> HIDE DEF a, b, M
<1>13. Lean(z) /\ \A q \in Requests : Starts(a, z, q, P[r], P, D)
  BY <1>3, <1>9, <1>10, NotifyMoves
<1> HIDE DEF z
<1>14. FlowEnds(s, z, r, P, D)
  <2>1. /\ b.node[Token(r)] = "QUEUED" /\ b.node[Prompt(r)] = s.node[Prompt(r)]
        /\ b.node[Flow(r)] = "COMPLETED"
    BY <1>2, <1>3, <1>4, <1>10, QueuesLaw
  <2>2. b.alloc = s0.alloc /\ b.memory = s.memory /\ b.generated = s.generated
    BY <1>3, <1>10 DEF Queues
  <2>3. Ships(s, b, r, P, D, 0)
    <3>1. s.memory[r] \in Int /\ \A j \in Instances : s.alloc[j][r] \in Int
      BY <1>4
    <3> QED
      BY <1>5, <2>2, <3>1 DEF Ships
  <2>4. FlowEnds(s, b, r, P, D)
    BY <1>3, <2>1, <2>2, <2>3 DEF FlowEnds
  <2>5. Starts(b, a, r, d, P, D) /\ Starts(a, z, r, P[r], P, D)
    BY <1>10, <1>13
  <2>6. FlowEnds(s, a, r, P, D)
    BY ONLY trace \in [Requests -> Shapes], <1>4, <1>11, <2>4, <2>5, r \in Requests,
            FlowEndsThenStarts
  <2> QED
    BY ONLY trace \in [Requests -> Shapes], <1>4, <1>12, <2>5, <2>6, r \in Requests,
            FlowEndsThenStarts
<1>15. ASSUME NEW q \in Requests \ {r}
       PROVE  \E i \in Instances : Starts(s, z, q, i, P, D)
  <2>1. Rests(s0, b, q)
    BY <1>2, <1>4, <1>10, QueuesLaw
  <2>2. Rests(s, b, q)
    BY <1>6, <2>1, RestsTwice
  <2>3. Starts(s, a, q, d, P, D)
    BY <1>10, <2>2, RestsTwice
  <2>4. Starts(s, z, q, d, P, D) \/ Starts(s, z, q, P[r], P, D)
    BY <1>13, <2>3, StartsTwice
  <2> QED
    BY <1>3, <1>8, <2>4
<1> QED
  BY <1>13, <1>14, <1>15 DEF z, a, d

(* retry_flow.                                                             *)
FlowStarts(s, a, r, P, D) ==
  /\ P[r] \in Instances /\ D[r] \in Instances /\ P[r] # D[r]
  /\ s.node[Flow(r)] = "QUEUED" /\ a.node[Flow(r)] = "RUNNING"
  /\ a.node[Prompt(r)] = s.node[Prompt(r)] /\ a.node[Token(r)] = s.node[Token(r)]
  /\ a.generated[Token(r)] = s.generated[Token(r)]
  /\ HandedOver(s, a, r, D[r])

(* retry_flow: the flow starts, and all other requests rest.               *)
LEMMA RetryMoves ==
  ASSUME NEW P, NEW D, Placed(P, D), NEW s, Good(s, P, D), Lean(s),
         NEW r \in Requests, s.node[Flow(r)] = "QUEUED"
  PROVE  LET a == RunFlow(s, r, D[r])
         IN /\ Lean(a) /\ FlowStarts(s, a, r, P, D)
            /\ \A q \in Requests \ {r} : Rests(s, a, q)
<1> DEFINE a == RunFlow(s, r, D[r])
<1>1. P[r] # D[r] /\ P[r] \in Instances /\ D[r] \in Instances /\ s \in StateType
  <2>1. Stage(s, r, P, D) /\ s \in StateType
    BY DEF Good
  <2> QED
    BY <2>1 DEF Stage, Placed, Placing
<1>2. /\ a.node = [s.node EXCEPT ![Flow(r)] = "RUNNING"]
      /\ a.generated = s.generated /\ HandedOver(s, a, r, D[r])
      /\ \A q \in Requests \ {r} : SameCache(s, a, q)
  BY <1>1, RunFlowLaw
<1> HIDE DEF a
<1>3. s.node \in [Nodes -> NodeStates]
  BY <1>1 DEF StateType
<1>4. /\ a.node[Flow(r)] = "RUNNING"
      /\ \A q \in Requests : /\ a.node[Prompt(q)] = s.node[Prompt(q)]
                              /\ a.node[Token(q)] = s.node[Token(q)]
  <2>1. ASSUME NEW q \in Requests
        PROVE  Flow(r) \in Nodes /\ Prompt(q) \in Nodes /\ Token(q) \in Nodes
               /\ Flow(r) # Prompt(q) /\ Flow(r) # Token(q)
    BY NodesOfRequests DEF Prompt, Token, Flow
  <2>2. Flow(r) \in Nodes
    BY NodesOfRequests
  <2> QED
    BY <1>2, <1>3, <2>1, <2>2
<1>5. FlowStarts(s, a, r, P, D)
  BY <1>1, <1>2, <1>4 DEF FlowStarts
<1>6. Lean(a) /\ \A q \in Requests \ {r} : Rests(s, a, q)
  BY <1>2, <1>4 DEF Lean, Rests
<1> QED
  BY <1>5, <1>6 DEF a

(* What a step does to one request that it does not place is a step of its *)
(* path.                                                                   *)
Follows(a, r) ==
  /\ Becomes(a) /\ trace' = trace
  /\ promptOn'[r] = promptOn[r] /\ tokenOn'[r] = tokenOn[r]

(* A request that rests stays where it is on its path.                     *)
LEMMA RestsOnPath ==
  ASSUME Placed(promptOn, tokenOn), NEW r \in Requests, NEW a, Follows(a, r), Rests(State, a, r)
  PROVE  UNCHANGED Path(r)!pvars
<1>1. /\ node'[Prompt(r)] = node[Prompt(r)] /\ node'[Token(r)] = node[Token(r)]
      /\ node'[Flow(r)] = node[Flow(r)] /\ generated'[Token(r)] = generated[Token(r)]
      /\ memory'[r] = memory[r] /\ \A j \in Instances : alloc'[j][r] = alloc[j][r]
  BY DEF Follows, Becomes, Rests, SameCache, State
<1>2. /\ promptOn[r] \in Instances \cup {NoInstance} /\ tokenOn[r] \in Instances \cup {NoInstance}
  BY DEF Placed, Placing
<1> QED
  BY <1>1, <1>2 DEF Path!pvars, HeldBy, Follows

(* The prompt task starts.                                                 *)
LEMMA PromptStartsOnPath ==
  ASSUME Placed(promptOn, tokenOn), NEW r \in Requests, NEW a, Follows(a, r),
         promptOn[r] \in Instances, PromptStarts(State, a, r, promptOn[r]),
         State \in StateType
  PROVE  Path(r)!RunPrompt
<1>1. /\ node[Prompt(r)] = "QUEUED" /\ node'[Prompt(r)] = "RUNNING" /\ node'[Token(r)] = node[Token(r)]
      /\ node'[Flow(r)] = node[Flow(r)] /\ generated'[Token(r)] = generated[Token(r)]
      /\ memory'[r] = memory[r] + PromptMemory(r)
      /\ \A j \in Instances : alloc'[j][r] = alloc[j][r] + (IF j = promptOn[r] THEN PromptMemory(r) ELSE 0)
  BY DEF Follows, Becomes, PromptStarts, Grows, State
<1>2. /\ tokenOn[r] \in Instances \cup {NoInstance}
      /\ \A j \in Instances : alloc[j][r] \in Int
  BY DEF Placed, Placing, StateType, State
<1>3. /\ alloc'[promptOn[r]][r] = alloc[promptOn[r]][r] + PromptMemory(r)
      /\ tokenOn[r] \in Instances /\ tokenOn[r] # promptOn[r] => alloc'[tokenOn[r]][r] = alloc[tokenOn[r]][r]
  BY <1>1, <1>2
<1> QED
  BY <1>1, <1>2, <1>3, PlacementAssumption DEF Path!RunPrompt, HeldBy, Follows,
     PromptMemory, Path!PromptCache

(* The token task starts for the first time, or again.                     *)
LEMMA TokenStartsOnPath ==
  ASSUME Placed(promptOn, tokenOn), NEW r \in Requests, NEW a, Follows(a, r),
         promptOn[r] \in Instances, tokenOn[r] \in Instances,
         TokenStarts(State, a, r, tokenOn[r]), State \in StateType,
         trace[r].token \in Nat
  PROVE  Path(r)!RunToken \/ Path(r)!Resume
<1> DEFINE m == IF node[Token(r)] = "QUEUED" THEN TokenMemory(r) ELSE 0
<1>1. /\ node[Token(r)] \in {"QUEUED", "BLOCKED"} /\ node'[Token(r)] = "RUNNING"
      /\ node[Prompt(r)] = "COMPLETED" /\ node'[Prompt(r)] = node[Prompt(r)]
      /\ node'[Flow(r)] = node[Flow(r)] /\ generated'[Token(r)] = generated[Token(r)]
      /\ memory'[r] = memory[r] + m
      /\ \A j \in Instances : alloc'[j][r] = alloc[j][r] + (IF j = tokenOn[r] THEN m ELSE 0)
  BY DEF Follows, Becomes, TokenStarts, Grows, State
<1>2. /\ \A j \in Instances : alloc[j][r] \in Int
      /\ memory[r] \in Int
  BY DEF StateType, State
<1>3. CASE node[Token(r)] = "QUEUED"
  <2>1. m = trace[r].token - 1
    BY <1>3 DEF TokenMemory
  <2> HIDE DEF m
  <2>2. /\ alloc'[tokenOn[r]][r] = alloc[tokenOn[r]][r] + m
        /\ tokenOn[r] # promptOn[r] => alloc'[promptOn[r]][r] = alloc[promptOn[r]][r] + 0
    BY <1>1, <1>2
  <2>3. tokenOn[r] # promptOn[r] => alloc'[promptOn[r]][r] = alloc[promptOn[r]][r]
    BY <1>2, <2>2
  <2>4. Path(r)!RunToken
    BY <1>1, <1>2, <1>3, <2>1, <2>2, <2>3, PlacementAssumption
       DEF Path!RunToken, HeldBy, Follows, Path!TokenCache
  <2> QED
    BY <2>4
<1>4. CASE node[Token(r)] = "BLOCKED"
  <2>1. m = 0
    BY <1>4
  <2>2. /\ memory'[r] = memory[r] /\ \A j \in Instances : alloc'[j][r] = alloc[j][r]
    BY <1>1, <1>2, <2>1
  <2>3. Path(r)!Resume
    BY <1>1, <1>4, <2>2, PlacementAssumption DEF Path!Resume, HeldBy, Follows
  <2> QED
    BY <2>3
<1> QED
  BY <1>1, <1>3, <1>4

(* The prompt task completes.                                              *)
LEMMA PromptEndsOnPath ==
  ASSUME Placed(promptOn, tokenOn), NEW r \in Requests, NEW a, Follows(a, r),
         promptOn[r] \in Instances, tokenOn[r] \in Instances,
         PromptEnds(State, a, r, promptOn, tokenOn), State \in StateType,
         trace[r].token \in Nat
  PROVE  \E runs \in BOOLEAN : Path(r)!FinishPrompt(runs)
<1>1. /\ \A j \in Instances : alloc[j][r] \in Int
      /\ memory[r] \in Int
  BY DEF StateType, State
<1>2. /\ node[Prompt(r)] = "RUNNING" /\ node'[Prompt(r)] = "COMPLETED"
      /\ generated'[Token(r)] = generated[Token(r)]
  BY DEF Follows, Becomes, PromptEnds, State
<1>3. CASE promptOn[r] # tokenOn[r]
  <2>1. node'[Token(r)] = node[Token(r)] /\ memory'[r] = memory[r]
    BY <1>3 DEF Follows, Becomes, PromptEnds, HandedOver, State
  <2>2. \/ node'[Flow(r)] = "QUEUED" /\ \A j \in Instances : alloc'[j][r] = alloc[j][r]
        \/ /\ node'[Flow(r)] = "RUNNING"
           /\ \A j \in Instances :
                alloc'[j][r] = alloc[j][r] + (IF j = tokenOn[r] THEN memory[r] ELSE 0)
    BY <1>3 DEF Follows, Becomes, PromptEnds, HandedOver, State
  <2>3. alloc'[promptOn[r]][r] = alloc[promptOn[r]][r]
    BY <1>1, <1>3, <2>2
  <2>4. CASE node'[Flow(r)] = "QUEUED"
    <3>1. alloc'[tokenOn[r]][r] = alloc[tokenOn[r]][r] + 0
      BY <1>1, <2>2, <2>4
    <3>2. Path(r)!FinishPrompt(FALSE)
      BY <1>1, <1>2, <1>3, <2>1, <2>3, <2>4, <3>1, PlacementAssumption
         DEF Path!FinishPrompt, Path!Submitted, Path!Amount, HeldBy, Follows
    <3> QED
      BY <3>2
  <2>5. CASE node'[Flow(r)] = "RUNNING"
    <3>1. alloc'[tokenOn[r]][r] = alloc[tokenOn[r]][r] + memory[r]
      BY <1>1, <2>2, <2>5
    <3>2. Path(r)!FinishPrompt(TRUE)
      BY <1>1, <1>2, <1>3, <2>1, <2>3, <2>5, <3>1, PlacementAssumption
         DEF Path!FinishPrompt, Path!Submitted, Path!Amount, HeldBy, Follows
    <3> QED
      BY <3>2
  <2> QED
    BY <2>2, <2>4, <2>5
<1>4. CASE promptOn[r] = tokenOn[r]
  <2>1. node'[Flow(r)] = node[Flow(r)]
    BY <1>4 DEF Follows, Becomes, PromptEnds, State
  <2>2. \/ /\ node'[Token(r)] = "QUEUED" /\ memory'[r] = memory[r] + 0
           /\ \A j \in Instances :
                alloc'[j][r] = alloc[j][r] + (IF j = promptOn[r] THEN 0 ELSE 0)
        \/ /\ node'[Token(r)] = "RUNNING" /\ memory'[r] = memory[r] + (trace[r].token - 1)
           /\ \A j \in Instances :
                alloc'[j][r] = alloc[j][r]
                  + (IF j = promptOn[r] THEN trace[r].token - 1 ELSE 0)
    BY <1>4 DEF Follows, Becomes, PromptEnds, Grows, State, TokenMemory
  <2>3. CASE node'[Token(r)] = "QUEUED"
    <3>1. alloc'[promptOn[r]][r] = alloc[promptOn[r]][r] + 0 /\ memory'[r] = memory[r] + 0
      BY <2>2, <2>3
    <3>2. Path(r)!FinishPrompt(FALSE)
      BY <1>1, <1>2, <1>4, <2>1, <2>3, <3>1, PlacementAssumption
         DEF Path!FinishPrompt, Path!Submitted, Path!Amount, HeldBy, Follows
    <3> QED
      BY <3>2
  <2>4. CASE node'[Token(r)] = "RUNNING"
    <3>1. /\ alloc'[promptOn[r]][r] = alloc[promptOn[r]][r] + (trace[r].token - 1)
          /\ memory'[r] = memory[r] + (trace[r].token - 1)
      BY <2>2, <2>4
    <3>2. Path(r)!FinishPrompt(TRUE)
      BY <1>1, <1>2, <1>4, <2>1, <2>4, <3>1, PlacementAssumption
         DEF Path!FinishPrompt, Path!Submitted, Path!Amount, Path!TokenCache, HeldBy, Follows
    <3> QED
      BY <3>2
  <2> QED
    BY <2>2, <2>3, <2>4
<1> QED
  BY <1>3, <1>4

(* The token task completes.                                               *)
LEMMA TokenEndsOnPath ==
  ASSUME Placed(promptOn, tokenOn), NEW r \in Requests, NEW a, Follows(a, r),
         promptOn[r] \in Instances, tokenOn[r] \in Instances,
         TokenEnds(State, a, r, tokenOn), State \in StateType
  PROVE  Path(r)!FinishToken
<1>1. /\ \A j \in Instances : alloc[j][r] \in Int
      /\ memory[r] \in Int
  BY DEF StateType, State
<1>2. /\ node[Token(r)] = "RUNNING" /\ node'[Token(r)] = "COMPLETED"
      /\ node'[Prompt(r)] = node[Prompt(r)] /\ node'[Flow(r)] = node[Flow(r)]
      /\ generated'[Token(r)] = TokensToGenerate(Token(r)) /\ memory'[r] = 0
      /\ \A j \in Instances :
           alloc'[j][r] = alloc[j][r] - (IF j = tokenOn[r] THEN memory[r] ELSE 0)
  BY DEF Follows, Becomes, TokenEnds, Freed, State
<1>3. TokensToGenerate(Token(r)) = trace[r].token - 1
  BY NodesOfRequests DEF TokensToGenerate
<1>4. /\ alloc'[tokenOn[r]][r] = alloc[tokenOn[r]][r] - memory[r]
      /\ promptOn[r] # tokenOn[r] => alloc'[promptOn[r]][r] = alloc[promptOn[r]][r] - 0
  BY <1>2
<1> QED
  BY <1>1, <1>2, <1>3, <1>4, PlacementAssumption
     DEF Path!FinishToken, Path!TokenCache, HeldBy, Follows

(* The token task generates tokens and has more to generate.               *)
LEMMA TokenGoesOnOnPath ==
  ASSUME Placed(promptOn, tokenOn), NEW r \in Requests, NEW a, Follows(a, r),
         promptOn[r] \in Instances, tokenOn[r] \in Instances,
         TokenGoesOn(State, a, r), State \in StateType, a \in StateType,
         trace[r].token \in Nat
  PROVE  \E n \in 1 .. Path(r)!TokenCache, preempts \in BOOLEAN : Path(r)!Generate(n, preempts)
<1> DEFINE n == generated'[Token(r)] - generated[Token(r)]
           p == node'[Token(r)] = "BLOCKED"
<1>1. /\ node[Token(r)] = "RUNNING" /\ node'[Token(r)] \in {"RUNNING", "BLOCKED"}
      /\ node'[Prompt(r)] = node[Prompt(r)] /\ node'[Flow(r)] = node[Flow(r)]
      /\ generated[Token(r)] >= 0 /\ generated'[Token(r)] > generated[Token(r)]
      /\ generated'[Token(r)] < TokensToGenerate(Token(r))
      /\ memory'[r] = memory[r] /\ \A j \in Instances : alloc'[j][r] = alloc[j][r]
  BY DEF Follows, Becomes, TokenGoesOn, SameCache, State
<1>2. generated[Token(r)] \in Int /\ generated'[Token(r)] \in Int
  <2>1. Token(r) \in TaskNodes
    BY NodesOfRequests
  <2> QED
    BY <2>1 DEF StateType, State, Follows, Becomes
<1>3. TokensToGenerate(Token(r)) = trace[r].token - 1
  BY NodesOfRequests DEF TokensToGenerate
<1>4. /\ n \in 1 .. trace[r].token - 1
      /\ generated'[Token(r)] = generated[Token(r)] + n
      /\ generated[Token(r)] + n < trace[r].token - 1
  BY <1>1, <1>2, <1>3
<1> HIDE DEF n
<1>5. n \in 1 .. Path(r)!TokenCache /\ p \in BOOLEAN
  BY <1>4 DEF Path!TokenCache
<1>6. node'[Token(r)] = IF p THEN "BLOCKED" ELSE "RUNNING"
  BY <1>1
<1> HIDE DEF p
<1>7. Path(r)!Generate(n, p)
  BY <1>1, <1>4, <1>6, PlacementAssumption DEF Path!Generate, Path!TokenCache, HeldBy,
     Follows
<1> QED
  BY <1>5, <1>7

(* The flow starts.                                                        *)
LEMMA FlowStartsOnPath ==
  ASSUME Placed(promptOn, tokenOn), NEW r \in Requests, NEW a, Follows(a, r),
         FlowStarts(State, a, r, promptOn, tokenOn), State \in StateType
  PROVE  Path(r)!RunFlow
<1>1. /\ \A j \in Instances : alloc[j][r] \in Int
      /\ memory[r] \in Int
  BY DEF StateType, State
<1>2. /\ promptOn[r] \in Instances /\ tokenOn[r] \in Instances /\ promptOn[r] # tokenOn[r]
      /\ node[Flow(r)] = "QUEUED" /\ node'[Flow(r)] = "RUNNING"
      /\ node'[Prompt(r)] = node[Prompt(r)] /\ node'[Token(r)] = node[Token(r)]
      /\ generated'[Token(r)] = generated[Token(r)] /\ memory'[r] = memory[r]
      /\ \A j \in Instances :
           alloc'[j][r] = alloc[j][r] + (IF j = tokenOn[r] THEN memory[r] ELSE 0)
  BY DEF Follows, Becomes, FlowStarts, HandedOver, State
<1>3. /\ alloc'[tokenOn[r]][r] = alloc[tokenOn[r]][r] + memory[r]
      /\ alloc'[promptOn[r]][r] = alloc[promptOn[r]][r]
  BY <1>1, <1>2
<1> QED
  BY <1>1, <1>2, <1>3, PlacementAssumption DEF Path!RunFlow, HeldBy, Follows

(* The flow is over, and the token task is queued or starts.               *)
LEMMA FlowEndsOnPath ==
  ASSUME Placed(promptOn, tokenOn), NEW r \in Requests, NEW a, Follows(a, r),
         FlowEnds(State, a, r, promptOn, tokenOn), State \in StateType,
         trace[r].token \in Nat
  PROVE  \E runs \in BOOLEAN : Path(r)!FinishFlow(runs)
<1>1. /\ \A j \in Instances : alloc[j][r] \in Int
      /\ memory[r] \in Int
  BY DEF StateType, State
<1>2. /\ promptOn[r] \in Instances /\ tokenOn[r] \in Instances /\ promptOn[r] # tokenOn[r]
      /\ node[Flow(r)] = "RUNNING" /\ node'[Flow(r)] = "COMPLETED"
      /\ node'[Prompt(r)] = node[Prompt(r)]
      /\ generated'[Token(r)] = generated[Token(r)]
  BY DEF Follows, Becomes, FlowEnds, State
<1> DEFINE Shipped(m) ==
      /\ memory'[r] = memory[r] + m
      /\ alloc'[promptOn[r]][r] = alloc[promptOn[r]][r] - memory[r]
      /\ alloc'[tokenOn[r]][r] = alloc[tokenOn[r]][r] + m
<1>3. ASSUME NEW m \in Int, Ships(State, a, r, promptOn, tokenOn, m)
      PROVE  Shipped(m)
  <2>1. /\ memory'[r] = memory[r] + m
        /\ \A j \in Instances :
             alloc'[j][r] = (alloc[j][r] - (IF j = promptOn[r] THEN memory[r] ELSE 0))
                              + (IF j = tokenOn[r] THEN m ELSE 0)
    BY <1>3 DEF Follows, Becomes, Ships, State
  <2> QED
    BY <1>1, <1>2, <2>1
<1>4. \/ node'[Token(r)] = "QUEUED" /\ Shipped(0)
      \/ node'[Token(r)] = "RUNNING" /\ Shipped(trace[r].token - 1)
  <2>1. \/ a.node[Token(r)] = "QUEUED" /\ Ships(State, a, r, promptOn, tokenOn, 0)
        \/ /\ a.node[Token(r)] = "RUNNING"
           /\ Ships(State, a, r, promptOn, tokenOn, trace[r].token - 1)
    BY DEF FlowEnds, TokenMemory
  <2>2. node' = a.node
    BY DEF Follows, Becomes
  <2> QED
    BY <1>3, <2>1, <2>2
<1>5. CASE node'[Token(r)] = "QUEUED" /\ Shipped(0)
  <2>1. Path(r)!FinishFlow(FALSE)
    BY <1>1, <1>2, <1>5, PlacementAssumption
       DEF Path!FinishFlow, Path!Submitted, Path!Amount, HeldBy, Follows
  <2> QED
    BY <2>1
<1>6. CASE node'[Token(r)] = "RUNNING" /\ Shipped(trace[r].token - 1)
  <2>1. Path(r)!FinishFlow(TRUE)
    BY <1>1, <1>2, <1>6, PlacementAssumption
       DEF Path!FinishFlow, Path!Submitted, Path!Amount, Path!TokenCache, HeldBy, Follows
  <2> QED
    BY <2>1
<1> QED
  BY <1>4, <1>5, <1>6

(* The request arrives; no instance has held anything of it before.        *)
LEMMA ComesOnPath ==
  ASSUME NEW a, Becomes(a), trace' = trace, NEW r \in Requests, State \in StateType,
         promptOn \in Placing, tokenOn \in Placing,
         promptOn[r] = NoInstance, tokenOn[r] = NoInstance,
         NEW p \in Instances, NEW d \in Instances,
         promptOn' = [promptOn EXCEPT ![r] = p], tokenOn' = [tokenOn EXCEPT ![r] = d],
         Comes(State, a, r, p, IF p = d THEN "QUEUED" ELSE "NONE"),
         \A j \in Instances : alloc[j][r] = 0
  PROVE  \E where \in {"same", "apart"}, runs \in BOOLEAN : Path(r)!Arrive(where, runs)
<1>1. memory[r] \in Int /\ p # NoInstance /\ d # NoInstance
  BY PlacementAssumption DEF StateType, State
<1>2. promptOn'[r] = p /\ tokenOn'[r] = d
  BY DEF Placing
<1>3. /\ node'[Flow(r)] = node[Flow(r)]
      /\ node'[Token(r)] = IF p = d THEN "QUEUED" ELSE "NONE"
      /\ generated'[Token(r)] = generated[Token(r)]
  BY DEF Becomes, Comes, State
<1> DEFINE Taking(m) == memory'[r] = memory[r] + m /\ alloc'[p][r] = 0 + m
                        /\ (p # d => alloc'[d][r] = 0)
           n == trace[r].prompt + 1
<1>4. \/ node'[Prompt(r)] = "QUEUED" /\ Taking(0)
      \/ node'[Prompt(r)] = "RUNNING" /\ Taking(n)
  <2>1. /\ node' = a.node /\ alloc' = a.alloc /\ memory' = a.memory
        /\ State.alloc = alloc /\ State.memory = memory
    BY DEF Becomes, State
  <2>2. \/ a.node[Prompt(r)] = "QUEUED" /\ Grows(State, a, r, p, 0)
        \/ a.node[Prompt(r)] = "RUNNING" /\ Grows(State, a, r, p, n)
    BY DEF Comes, PromptMemory
  <2> HIDE DEF n
  <2>3. \A m : Grows(State, a, r, p, m) => Taking(m)
    BY <2>1 DEF Grows
  <2> QED
    BY <2>1, <2>2, <2>3
<1> DEFINE where == IF p = d THEN "same" ELSE "apart"
<1>5. where \in {"same", "apart"}
  OBVIOUS
<1>6. CASE node'[Prompt(r)] = "QUEUED" /\ Taking(0)
  <2>1. Path(r)!Arrive(where, FALSE)
    BY <1>1, <1>2, <1>3, <1>6 DEF Path!Arrive, Path!Submitted, Path!Amount, HeldBy
  <2> QED
    BY <1>5, <2>1
<1>7. CASE node'[Prompt(r)] = "RUNNING" /\ Taking(n)
  <2>1. Path(r)!Arrive(where, TRUE)
    BY <1>1, <1>2, <1>3, <1>7
       DEF Path!Arrive, Path!Submitted, Path!Amount, Path!PromptCache, HeldBy
  <2> QED
    BY <1>5, <2>1
<1> QED
  BY <1>4, <1>6, <1>7

(* The memory of a request: its prompt's share from the start of the       *)
(* prompt task on, the token's from the start of the token task on, and    *)
(* nothing at the end.                                                     *)
MemoryNow(s, r) ==
  IF s.node[Prompt(r)] \in {"NONE", "QUEUED"} \/ s.node[Token(r)] = "COMPLETED" THEN 0
  ELSE IF s.node[Token(r)] \in {"RUNNING", "BLOCKED"} THEN PromptMemory(r) + TokenMemory(r)
  ELSE PromptMemory(r)

(* The instances that hold it: the source until the flow is complete, the  *)
(* destination once the flow has started; and each holds all of it.        *)
Holds(s, r, P, D, j) ==
  \/ j = P[r] /\ s.node[Flow(r)] # "COMPLETED"
  \/ j = D[r] /\ s.node[Flow(r)] \in {"RUNNING", "COMPLETED"}

Held(s, r, P, D) ==
  /\ s.memory[r] = MemoryNow(s, r)
  /\ \A j \in Instances :
       s.alloc[j][r] = IF Holds(s, r, P, D, j) THEN s.memory[r] ELSE 0

(* The sizes that the memory of a request is made of.                      *)
LEMMA SharesAreNumbers ==
  ASSUME trace \in [Requests -> Shapes], NEW r \in Requests
  PROVE  PromptMemory(r) \in Nat /\ TokenMemory(r) \in Nat /\ PromptMemory(r) >= 2
<1>1. trace[r].prompt \in Nat \ {0} /\ trace[r].token \in Nat \ {0}
  BY ShapesAssumption
<1> QED
  BY <1>1 DEF PromptMemory, TokenMemory

(* A task of r starts.                                                     *)
LEMMA StartsHeld ==
  ASSUME trace \in [Requests -> Shapes], NEW r \in Requests, NEW P, NEW D,
         NEW s \in StateType, Stage(s, r, P, D), Held(s, r, P, D), NEW a, NEW i \in Instances,
         Starts(s, a, r, i, P, D)
  PROVE  Held(a, r, P, D)
<1>1. /\ PromptMemory(r) \in Nat /\ TokenMemory(r) \in Nat
  BY SharesAreNumbers
<1>2. CASE Rests(s, a, r)
  BY <1>2 DEF Held, Holds, MemoryNow, Rests, SameCache
<1>3. CASE P[r] = i /\ PromptStarts(s, a, r, i)
  <2>1. /\ s.node[Token(r)] \in {"NONE", "QUEUED"} /\ s.node[Flow(r)] = "NONE"
        /\ s.memory[r] = 0
    BY <1>3 DEF PromptStarts, Stage, Held, MemoryNow
  <2>2. /\ a.node[Prompt(r)] = "RUNNING" /\ a.node[Token(r)] = s.node[Token(r)]
        /\ a.node[Flow(r)] = "NONE" /\ a.memory[r] = PromptMemory(r)
        /\ \A j \in Instances :
             a.alloc[j][r] = s.alloc[j][r] + (IF j = i THEN PromptMemory(r) ELSE 0)
    BY <1>1, <1>3, <2>1 DEF PromptStarts, Grows
  <2>3. \A j \in Instances : s.alloc[j][r] = 0
    BY <2>1 DEF Held
  <2>4. \A j \in Instances : a.alloc[j][r] = IF j = P[r] THEN PromptMemory(r) ELSE 0
    BY <1>1, <1>3, <2>2, <2>3
  <2> QED
    BY <2>1, <2>2, <2>4 DEF Held, Holds, MemoryNow
<1>4. CASE D[r] = i /\ TokenStarts(s, a, r, i)
  <2> DEFINE m == IF s.node[Token(r)] = "QUEUED" THEN TokenMemory(r) ELSE 0
  <2>1. /\ s.node[Token(r)] \in {"QUEUED", "BLOCKED"} /\ s.node[Prompt(r)] = "COMPLETED"
        /\ a.node[Token(r)] = "RUNNING" /\ a.node[Prompt(r)] = "COMPLETED"
        /\ a.node[Flow(r)] = s.node[Flow(r)] /\ a.memory[r] = s.memory[r] + m
        /\ \A j \in Instances : a.alloc[j][r] = s.alloc[j][r] + (IF j = i THEN m ELSE 0)
    BY <1>4 DEF TokenStarts, Grows
  <2>2. m \in Nat
    BY <1>1
  <2>3. s.memory[r] + m = PromptMemory(r) + TokenMemory(r) /\ s.memory[r] \in Nat
    BY <1>1, <2>1 DEF Held, MemoryNow
  <2> HIDE DEF m
  <2>4. \A j \in Instances : Holds(s, r, P, D, j) <=> j = i
    BY <1>4, <2>1 DEF Holds, Stage
  <2>5. \A j \in Instances : Holds(a, r, P, D, j) <=> j = i
    BY <2>1, <2>4 DEF Holds
  <2>6. \A j \in Instances : s.alloc[j][r] = IF j = i THEN s.memory[r] ELSE 0
    BY <2>4 DEF Held
  <2>7. \A j \in Instances : a.alloc[j][r] = IF j = i THEN s.memory[r] + m ELSE 0
    BY <2>1, <2>2, <2>3, <2>6
  <2>8. a.memory[r] = MemoryNow(a, r)
    BY <2>1, <2>3 DEF MemoryNow
  <2> QED
    BY <2>1, <2>5, <2>7, <2>8 DEF Held
<1> QED
  BY <1>2, <1>3, <1>4 DEF Starts

(* A run at i is over.                                                     *)
LEMMA MovesHeld ==
  ASSUME trace \in [Requests -> Shapes], NEW r \in Requests, NEW P, NEW D,
         NEW s \in StateType, Stage(s, r, P, D), Held(s, r, P, D), NEW a, NEW i \in Instances,
         Moves(s, a, r, i, P, D)
  PROVE  Held(a, r, P, D)
<1>1. /\ PromptMemory(r) \in Nat /\ TokenMemory(r) \in Nat
  BY SharesAreNumbers
<1>2. CASE PromptEnds(s, a, r, P, D) /\ P[r] = i
  <2>1. /\ s.node[Prompt(r)] = "RUNNING" /\ a.node[Prompt(r)] = "COMPLETED"
        /\ s.node[Token(r)] \in {"NONE", "QUEUED"} /\ s.node[Flow(r)] = "NONE"
        /\ s.memory[r] = PromptMemory(r)
    BY <1>2 DEF PromptEnds, Stage, Held, MemoryNow
  <2>2. \A j \in Instances : s.alloc[j][r] = IF j = i THEN PromptMemory(r) ELSE 0
    BY <1>2, <2>1 DEF Held, Holds
  <2>3. CASE P[r] # D[r]
    <3>1. /\ a.node[Token(r)] = "NONE" /\ HandedOver(s, a, r, D[r])
      BY <1>2, <2>1, <2>3 DEF PromptEnds, Stage
    <3>2. a.memory[r] = PromptMemory(r)
      BY <2>1, <3>1 DEF HandedOver
    <3>3. CASE a.node[Flow(r)] = "QUEUED"
      BY <1>2, <2>1, <2>2, <3>1, <3>2, <3>3 DEF HandedOver, Held, Holds, MemoryNow
    <3>4. CASE a.node[Flow(r)] = "RUNNING"
      <4>1. \A j \in Instances :
              a.alloc[j][r] = s.alloc[j][r] + (IF j = D[r] THEN PromptMemory(r) ELSE 0)
        BY <2>1, <3>1, <3>4 DEF HandedOver
      <4>2. \A j \in Instances :
              a.alloc[j][r] = IF j = P[r] \/ j = D[r] THEN PromptMemory(r) ELSE 0
        BY <1>1, <1>2, <2>2, <2>3, <4>1
      <4> QED
        BY <2>1, <3>1, <3>2, <3>4, <4>2 DEF Held, Holds, MemoryNow
    <3> QED
      BY <3>1, <3>3, <3>4 DEF HandedOver
  <2>4. CASE P[r] = D[r]
    <3> DEFINE m == IF a.node[Token(r)] = "RUNNING" THEN TokenMemory(r) ELSE 0
    <3>1. /\ a.node[Flow(r)] = "NONE" /\ a.node[Token(r)] \in {"QUEUED", "RUNNING"}
          /\ Grows(s, a, r, P[r], m)
      BY <1>2, <2>1, <2>4 DEF PromptEnds
    <3>2. m \in Nat
      BY <1>1
    <3>3. PromptMemory(r) + m = MemoryNow(a, r)
      BY <1>1, <2>1, <3>1 DEF MemoryNow
    <3> HIDE DEF m
    <3>4. /\ a.memory[r] = PromptMemory(r) + m
          /\ \A j \in Instances : a.alloc[j][r] = IF j = i THEN PromptMemory(r) + m ELSE 0
      BY <1>1, <1>2, <2>1, <2>2, <3>1, <3>2 DEF Grows
    <3>5. \A j \in Instances : Holds(a, r, P, D, j) <=> j = i
      BY <1>2, <3>1 DEF Holds
    <3> QED
      BY <3>3, <3>4, <3>5 DEF Held
  <2> QED
    BY <2>3, <2>4
<1>3. CASE TokenEnds(s, a, r, D)
  <2>1. /\ s.node[Token(r)] = "RUNNING" /\ a.node[Token(r)] = "COMPLETED"
        /\ a.node[Flow(r)] = s.node[Flow(r)] /\ a.memory[r] = 0
        /\ \A j \in Instances :
             a.alloc[j][r] = s.alloc[j][r] - (IF j = D[r] THEN s.memory[r] ELSE 0)
    BY <1>3 DEF TokenEnds, Freed
  <2>2. \A j \in Instances : Holds(s, r, P, D, j) <=> j = D[r]
    BY <2>1 DEF Holds, Stage
  <2>3. \A j \in Instances : s.alloc[j][r] = IF j = D[r] THEN s.memory[r] ELSE 0
    BY <2>2 DEF Held
  <2>4. s.memory[r] \in Int
    BY DEF StateType
  <2>5. \A j \in Instances : a.alloc[j][r] = 0
    BY <2>1, <2>3, <2>4
  <2> QED
    BY <2>1, <2>5 DEF Held, MemoryNow
<1>4. CASE TokenGoesOn(s, a, r)
  <2>1. s.node[Prompt(r)] = "COMPLETED"
    BY <1>4 DEF TokenGoesOn, Stage
  <2> QED
    BY <1>4, <2>1 DEF TokenGoesOn, SameCache, Held, Holds, MemoryNow
<1> QED
  BY <1>2, <1>3, <1>4, StartsHeld DEF Moves

(* The flow of r starts or ends.                                           *)
LEMMA FlowsHeld ==
  ASSUME trace \in [Requests -> Shapes], NEW r \in Requests, NEW P, NEW D,
         NEW s \in StateType, Stage(s, r, P, D), Held(s, r, P, D), NEW a,
         FlowStarts(s, a, r, P, D) \/ FlowEnds(s, a, r, P, D)
  PROVE  Held(a, r, P, D)
<1>1. /\ PromptMemory(r) \in Nat /\ TokenMemory(r) \in Nat /\ s.memory[r] \in Int
      /\ P[r] # D[r]
  BY SharesAreNumbers DEF StateType, FlowStarts, FlowEnds
<1>2. CASE FlowStarts(s, a, r, P, D)
  <2>1. /\ s.node[Flow(r)] = "QUEUED" /\ a.node[Flow(r)] = "RUNNING"
        /\ a.node[Prompt(r)] = s.node[Prompt(r)] /\ a.node[Token(r)] = s.node[Token(r)]
        /\ a.memory[r] = s.memory[r]
        /\ \A j \in Instances :
             a.alloc[j][r] = s.alloc[j][r] + (IF j = D[r] THEN s.memory[r] ELSE 0)
    BY <1>2 DEF FlowStarts, HandedOver
  <2>2. \A j \in Instances : s.alloc[j][r] = IF j = P[r] THEN s.memory[r] ELSE 0
    BY <2>1 DEF Held, Holds
  <2>3. \A j \in Instances :
          a.alloc[j][r] = IF j = P[r] \/ j = D[r] THEN s.memory[r] ELSE 0
    BY <1>1, <2>1, <2>2
  <2> QED
    BY <2>1, <2>3 DEF Held, Holds, MemoryNow
<1>3. CASE FlowEnds(s, a, r, P, D)
  <2> DEFINE m == IF a.node[Token(r)] = "RUNNING" THEN TokenMemory(r) ELSE 0
  <2>1. /\ s.node[Flow(r)] = "RUNNING" /\ a.node[Flow(r)] = "COMPLETED"
        /\ s.node[Prompt(r)] = "COMPLETED" /\ a.node[Prompt(r)] = "COMPLETED"
        /\ s.node[Token(r)] = "NONE" /\ a.node[Token(r)] \in {"QUEUED", "RUNNING"}
        /\ Ships(s, a, r, P, D, m)
    BY <1>3 DEF FlowEnds
  <2>2. m \in Nat
    BY <1>1
  <2>3. PromptMemory(r) + m = MemoryNow(a, r) /\ s.memory[r] = PromptMemory(r)
    BY <1>1, <2>1 DEF Held, MemoryNow
  <2> HIDE DEF m
  <2>4. \A j \in Instances :
          s.alloc[j][r] = IF j = P[r] \/ j = D[r] THEN s.memory[r] ELSE 0
    BY <2>1 DEF Held, Holds
  <2>5. /\ a.memory[r] = s.memory[r] + m
        /\ \A j \in Instances :
             a.alloc[j][r] = (s.alloc[j][r] - (IF j = P[r] THEN s.memory[r] ELSE 0))
                               + (IF j = D[r] THEN m ELSE 0)
    BY <2>1 DEF Ships
  <2>6. \A j \in Instances : a.alloc[j][r] = IF j = D[r] THEN s.memory[r] + m ELSE 0
    BY <1>1, <2>2, <2>4, <2>5
  <2>7. \A j \in Instances : Holds(a, r, P, D, j) <=> j = D[r]
    BY <2>1 DEF Holds
  <2> QED
    BY <2>3, <2>5, <2>6, <2>7 DEF Held
<1> QED
  BY <1>2, <1>3

(* The request comes.                                                      *)
LEMMA ComesHeld ==
  ASSUME trace \in [Requests -> Shapes], NEW r \in Requests, NEW P, NEW D,
         NEW s, \A j \in Instances : s.alloc[j][r] = 0, s.memory[r] = 0, NEW a, NEW x,
         x \in {"NONE", "QUEUED"}, Comes(s, a, r, P[r], x)
  PROVE  Held(a, r, P, D)
<1>1. PromptMemory(r) \in Nat
  BY SharesAreNumbers
<1> DEFINE m == IF a.node[Prompt(r)] = "RUNNING" THEN PromptMemory(r) ELSE 0
<1>2. /\ a.node[Flow(r)] = "NONE" /\ a.node[Token(r)] = x
      /\ a.node[Prompt(r)] \in {"QUEUED", "RUNNING"} /\ Grows(s, a, r, P[r], m)
  BY DEF Comes
<1>3. m \in Nat /\ m = MemoryNow(a, r)
  BY <1>1, <1>2 DEF MemoryNow
<1> HIDE DEF m
<1>4. a.memory[r] = m /\ \A j \in Instances : a.alloc[j][r] = IF j = P[r] THEN m ELSE 0
  BY <1>2, <1>3 DEF Grows
<1>5. \A j \in Instances : Holds(a, r, P, D, j) <=> j = P[r]
  BY <1>2 DEF Holds
<1> QED
  BY <1>3, <1>4, <1>5 DEF Held

(* Every request has its memory where it is.                               *)
AllHeld(s, P, D) == \A r \in Requests : Held(s, r, P, D)

(* The inductive invariant of the paths.                                   *)
PathInv ==
  /\ ClusterInv
  /\ Lean(State) /\ Chains(State, promptOn, tokenOn)
  /\ AllHeld(State, promptOn, tokenOn)

OnPath(r) == [Path(r)!Next]_(Path(r)!pvars)

(* What a step to the state a has to show of one request.                  *)
Keeps(a, r) ==
  /\ OnPath(r)
  /\ promptOn'[r] = tokenOn'[r] /\ promptOn'[r] # NoInstance => a.node[Token(r)] # "NONE"
  /\ Held(a, r, promptOn', tokenOn')

(* The nodes of a request that is not placed are idle.                     *)
LEMMA UnplacedIsIdle ==
  ASSUME PathInv, NEW r \in Requests
  PROVE  /\ \/ promptOn[r] \in Instances /\ tokenOn[r] \in Instances
            \/ /\ promptOn[r] = NoInstance /\ tokenOn[r] = NoInstance
               /\ State.node[Prompt(r)] = "NONE" /\ State.node[Token(r)] = "NONE"
               /\ State.node[Flow(r)] = "NONE"
         /\ Placed(promptOn, tokenOn) /\ State \in StateType /\ trace[r].token \in Nat
         /\ trace \in [Requests -> Shapes] /\ Stage(State, r, promptOn, tokenOn)
         /\ Held(State, r, promptOn, tokenOn)
<1>1. /\ Placed(promptOn, tokenOn) /\ State \in StateType
      /\ trace \in [Requests -> Shapes] /\ Stage(State, r, promptOn, tokenOn)
      /\ Held(State, r, promptOn, tokenOn)
  BY DEF PathInv, AllHeld, ClusterInv, Regular, Good
<1>2. trace[r].token \in Nat
  BY <1>1, ShapesAssumption
<1> QED
  BY <1>1, <1>2 DEF Placed, Placing, Stage

(* A step that rests, starts or completes a task of r is on its path.      *)
LEMMA MovesOnPath ==
  ASSUME PathInv, NEW r \in Requests, NEW a \in StateType, Follows(a, r), NEW i \in Instances,
         Moves(State, a, r, i, promptOn, tokenOn)
  PROVE  Keeps(a, r)
<1>0. promptOn'[r] = promptOn[r] /\ tokenOn'[r] = tokenOn[r]
  BY DEF Follows
<1>1. /\ \/ promptOn[r] \in Instances /\ tokenOn[r] \in Instances
         \/ /\ promptOn[r] = NoInstance /\ tokenOn[r] = NoInstance
            /\ State.node[Prompt(r)] = "NONE" /\ State.node[Token(r)] = "NONE"
            /\ State.node[Flow(r)] = "NONE"
      /\ Placed(promptOn, tokenOn) /\ State \in StateType /\ trace[r].token \in Nat
  BY UnplacedIsIdle
<1>2. Chains(State, promptOn, tokenOn)
  BY DEF PathInv
<1>10. Held(a, r, promptOn', tokenOn')
  <2>1. Held(a, r, promptOn, tokenOn)
    BY UnplacedIsIdle, MovesHeld
  <2> QED
    BY <1>0, <1>10, <2>1 DEF Held, Holds
<1>3. i # NoInstance
  BY PlacementAssumption
<1>4. CASE Rests(State, a, r)
  <2>1. OnPath(r)
    BY <1>1, <1>4, RestsOnPath DEF OnPath
  <2> QED
    BY <1>0, <1>10, <1>2, <1>4, <2>1 DEF Keeps, Rests, Chains
<1>5. CASE promptOn[r] = i /\ PromptStarts(State, a, r, i)
  <2>1. promptOn[r] \in Instances /\ promptOn[r] # NoInstance
    BY <1>3, <1>5
  <2>2. Path(r)!RunPrompt
    BY <1>1, <1>5, <2>1, PromptStartsOnPath
  <2>3. OnPath(r)
    BY <2>2 DEF OnPath, Path!Next
  <2> QED
    BY <1>0, <1>10, <1>2, <1>5, <2>1, <2>3 DEF Keeps, PromptStarts, Chains
<1>6. CASE tokenOn[r] = i /\ TokenStarts(State, a, r, i)
  <2>1. promptOn[r] \in Instances /\ promptOn[r] # NoInstance
    BY <1>1, <1>3, <1>6, PlacementAssumption
  <2>2. Path(r)!RunToken \/ Path(r)!Resume
    BY <1>1, <1>6, <2>1, TokenStartsOnPath
  <2>3. OnPath(r)
    BY <2>2 DEF OnPath, Path!Next
  <2> QED
    BY <1>0, <1>10, <1>6, <2>1, <2>3 DEF Keeps, TokenStarts
<1>7. CASE PromptEnds(State, a, r, promptOn, tokenOn)
  <2>1. /\ promptOn[r] \in Instances /\ tokenOn[r] \in Instances
        /\ promptOn[r] # NoInstance
    BY <1>1, <1>7, PlacementAssumption DEF PromptEnds
  <2>2. \E runs \in BOOLEAN : Path(r)!FinishPrompt(runs)
    BY <1>1, <1>7, <2>1, PromptEndsOnPath
  <2>3. OnPath(r)
    BY <2>2 DEF OnPath, Path!Next
  <2> QED
    BY <1>0, <1>10, <1>7, <2>1, <2>3 DEF Keeps, PromptEnds
<1>8. CASE TokenEnds(State, a, r, tokenOn)
  <2>1. /\ promptOn[r] \in Instances /\ tokenOn[r] \in Instances
        /\ promptOn[r] # NoInstance
    BY <1>1, <1>8, PlacementAssumption DEF TokenEnds
  <2>2. Path(r)!FinishToken
    BY <1>1, <1>8, <2>1, TokenEndsOnPath
  <2>3. OnPath(r)
    BY <2>2 DEF OnPath, Path!Next
  <2> QED
    BY <1>0, <1>10, <1>8, <2>1, <2>3 DEF Keeps, TokenEnds
<1>9. CASE TokenGoesOn(State, a, r)
  <2>1. /\ promptOn[r] \in Instances /\ tokenOn[r] \in Instances
        /\ promptOn[r] # NoInstance
    BY <1>1, <1>9, PlacementAssumption DEF TokenGoesOn
  <2>2. \E n \in 1 .. Path(r)!TokenCache, preempts \in BOOLEAN : Path(r)!Generate(n, preempts)
    BY <1>1, <1>9, <2>1, TokenGoesOnOnPath
  <2>3. OnPath(r)
    BY <2>2 DEF OnPath, Path!Next
  <2> QED
    BY <1>0, <1>10, <1>9, <2>1, <2>3 DEF Keeps, TokenGoesOn
<1> QED
  BY <1>4, <1>5, <1>6, <1>7, <1>8, <1>9 DEF Moves, Starts

(* So is one that starts or ends its flow.                                 *)
LEMMA FlowsOnPath ==
  ASSUME PathInv, NEW r \in Requests, NEW a \in StateType, Follows(a, r),
         FlowStarts(State, a, r, promptOn, tokenOn) \/ FlowEnds(State, a, r, promptOn, tokenOn)
  PROVE  Keeps(a, r)
<1>1. Placed(promptOn, tokenOn) /\ State \in StateType /\ trace[r].token \in Nat
  BY UnplacedIsIdle
<1>2. promptOn'[r] # NoInstance /\ promptOn'[r] # tokenOn'[r]
  BY PlacementAssumption DEF Follows, FlowStarts, FlowEnds
<1>3. Path(r)!RunFlow \/ \E runs \in BOOLEAN : Path(r)!FinishFlow(runs)
  BY <1>1, FlowStartsOnPath, FlowEndsOnPath
<1>4. OnPath(r)
  BY <1>3 DEF OnPath, Path!Next
<1>5. Held(a, r, promptOn, tokenOn)
  BY UnplacedIsIdle, FlowsHeld
<1>6. Held(a, r, promptOn', tokenOn')
  BY <1>5 DEF Held, Holds, Follows
<1> QED
  BY <1>2, <1>4, <1>6 DEF Keeps

(* Together, the requests keep the invariant.                              *)
LEMMA AllKeep ==
  ASSUME NEW a, Becomes(a), trace' = trace, Lean(a), \A r \in Requests : Keeps(a, r), ClusterInv'
  PROVE  PathInv' /\ \A r \in Requests : OnPath(r)
<1>1. /\ node' = a.node /\ alloc' = a.alloc /\ generated' = a.generated
      /\ memory' = a.memory /\ trace' = trace
  BY DEF Becomes
<1>2. Lean(State)'
  BY <1>1 DEF Lean, State
<1>3. Chains(State, promptOn, tokenOn)'
  BY <1>1 DEF Chains, State, Keeps
<1>4. AllHeld(State, promptOn, tokenOn)'
  <2>1. \A r \in Requests : Held(a, r, promptOn', tokenOn')
    BY DEF Keeps
  <2> QED
    BY <1>1, <2>1
       DEF AllHeld, Held, Holds, MemoryNow, PromptMemory, TokenMemory, State
<1> QED
  BY <1>2, <1>3, <1>4 DEF PathInv, Keeps

(* A request arrives: it comes to p, and others may start there.           *)
LEMMA ArrivalComes ==
  ASSUME PathInv, Punctual, NEW r \in Requests, NEW p \in Instances, NEW x \in Instances,
         RequestArrival(r, p, x)
  PROVE  \E a \in StateType :
           /\ Becomes(a) /\ Lean(a)
           /\ Comes(State, a, r, p, IF p = x THEN "QUEUED" ELSE "NONE")
           /\ \A q \in Requests \ {r} : Starts(State, a, q, p, promptOn, tokenOn)
<1> DEFINE P2 == [promptOn EXCEPT ![r] = p]
           D2 == [tokenOn EXCEPT ![r] = x]
           a == Submit(State, r, p, x, D2)
<1>1. /\ promptOn[r] = NoInstance /\ \A q \in Requests : q < r => promptOn[q] # NoInstance
      /\ promptOn' = P2 /\ tokenOn' = D2 /\ Becomes(a)
  BY DEF RequestArrival, IsNext
<1> HIDE DEF a
<1>2. /\ trace \in [Requests -> Shapes] /\ Placed(promptOn, tokenOn) /\ InOrder
      /\ Regular(State, promptOn, tokenOn, Batches(State), Idle(State), Instances, Instances)
      /\ Lean(State)
  BY DEF PathInv, ClusterInv
<1>3. \A q \in Requests : r < q => promptOn[q] = NoInstance
  BY <1>1, <1>2 DEF InOrder
<1>4. /\ Lean(a) /\ Comes(State, a, r, p, IF p = x THEN "QUEUED" ELSE "NONE")
      /\ \A q \in Requests \ {r} : Starts(State, a, q, p, P2, D2)
  BY <1>1, <1>2, <1>3, SubmitMoves DEF a
<1>5. a \in StateType
  <2>1. \E N : Regular(a, P2, D2, Batches(State), N, Instances, Instances)
    BY <1>1, <1>2, <1>3, SubmitRegular DEF a
  <2> QED
    BY <2>1 DEF Regular, Good
<1>6. ASSUME NEW q \in Requests \ {r}
      PROVE  Starts(State, a, q, p, promptOn, tokenOn)
  <2>1. P2[q] = promptOn[q] /\ D2[q] = tokenOn[q]
    BY <1>2 DEF Placed, Placing
  <2> QED
    BY <1>4, <2>1 DEF Starts
<1> QED
  BY <1>1, <1>4, <1>5, <1>6

(* The run of an instance is over.                                         *)
LEMMA CompletionMoves ==
  ASSUME PathInv, Punctual, NEW i \in Instances, IterationCompletion(i)
  PROVE  \E a \in StateType :
           /\ Becomes(a) /\ Lean(a)
           /\ \A r \in Requests : Moves(State, a, r, i, promptOn, tokenOn)
<1> DEFINE a == CompleteIteration(State, i, tokenOn)
           B == Batches(State)
           N == Idle(State)
<1>1. Becomes(a)
  BY DEF IterationCompletion
<1> HIDE DEF a
<1>2. /\ trace \in [Requests -> Shapes] /\ Placed(promptOn, tokenOn)
      /\ Regular(State, promptOn, tokenOn, B, N, Instances, Instances)
      /\ Lean(State) /\ Chains(State, promptOn, tokenOn)
  BY DEF PathInv, ClusterInv
<1>3. ToSet(State.inst[i].batch) \subseteq B[i]
  BY DEF Batches
<1> HIDE DEF B, N
<1>4. Lean(a) /\ \A r \in Requests : Moves(State, a, r, i, promptOn, tokenOn)
  BY <1>2, <1>3, CompleteMoves DEF a
<1>5. a \in StateType
  <2>1. Regular(a, promptOn, tokenOn, B, N, Instances, Instances)
    BY <1>2, <1>3, CompleteIterationRegular DEF a
  <2> QED
    BY <2>1 DEF Regular, Good
<1> QED
  BY <1>1, <1>4, <1>5

(* A flow is over.                                                         *)
LEMMA FlowCompletionMoves ==
  ASSUME PathInv, Punctual, NEW r \in Requests, FlowCompletion(r)
  PROVE  \E a \in StateType :
           /\ Becomes(a) /\ Lean(a) /\ FlowEnds(State, a, r, promptOn, tokenOn)
           /\ \A q \in Requests \ {r} :
                \E i \in Instances : Starts(State, a, q, i, promptOn, tokenOn)
<1> DEFINE s0 == Delivered(State, r, promptOn)
           a == NotifyFlowCompletion(TaskArrival(s0, tokenOn[r], Token(r), tokenOn),
                                     promptOn[r], tokenOn)
           B == Batches(State)
           N == Idle(State)
<1>1. Becomes(a) /\ State.node[Flow(r)] = "RUNNING"
  <2>1. State.memory = memory /\ State.node = node
    BY DEF State
  <2> QED
    BY <2>1 DEF FlowCompletion, Delivered
<1>2. /\ trace \in [Requests -> Shapes] /\ Placed(promptOn, tokenOn)
      /\ Regular(State, promptOn, tokenOn, B, N, Instances, Instances) /\ Lean(State)
  BY DEF PathInv, ClusterInv
<1>3. \A i \in Instances : ToSet(State.inst[i].batch) \subseteq B[i]
  BY DEF Batches
<1> HIDE DEF s0, B, N
<1>4. s0 = Delivered(State, r, promptOn)
  BY DEF s0
<1>5. a \in StateType
  <2>1. \E M : Regular(a, promptOn, tokenOn, B, M, Instances, Instances)
    BY <1>1, <1>2, <1>3, <1>4, FlowCompletionRegular
  <2> QED
    BY <2>1 DEF Regular, Good
<1>6. /\ Lean(a) /\ FlowEnds(State, a, r, promptOn, tokenOn)
      /\ \A q \in Requests \ {r} :
           \E i \in Instances : Starts(State, a, q, i, promptOn, tokenOn)
  BY <1>1, <1>2, <1>3, <1>4, FlowMoves
<1> HIDE DEF a
<1> QED
  BY <1>1, <1>5, <1>6

(* A flow is retried.                                                      *)
LEMMA RetryFlowMoves ==
  ASSUME PathInv, NEW r \in Requests, RetryFlow(r)
  PROVE  \E a \in StateType :
           /\ Becomes(a) /\ Lean(a) /\ FlowStarts(State, a, r, promptOn, tokenOn)
           /\ \A q \in Requests \ {r} : Rests(State, a, q)
<1> DEFINE a == RunFlow(State, r, tokenOn[r])
<1>1. /\ Becomes(a)
      /\ State.node[Flow(r)] = "QUEUED" /\ Fits(State, tokenOn[r], State.memory[r])
  <2>1. State.memory = memory /\ State.node = node
    BY DEF State
  <2> QED
    BY <2>1 DEF RetryFlow
<1>2. /\ Placed(promptOn, tokenOn) /\ Good(State, promptOn, tokenOn) /\ Lean(State)
      /\ Regular(State, promptOn, tokenOn, Batches(State), Idle(State), Instances, Instances)
  BY DEF PathInv, ClusterInv, Regular
<1>3. a \in StateType
  <2>1. Regular(a, promptOn, tokenOn, Batches(State), Idle(State), Instances, Instances)
    BY <1>1, <1>2, RetryRegular
  <2> QED
    BY <2>1 DEF Regular, Good
<1>4. /\ Lean(a) /\ FlowStarts(State, a, r, promptOn, tokenOn)
      /\ \A q \in Requests \ {r} : Rests(State, a, q)
  BY <1>1, <1>2, RetryMoves
<1> QED
  BY <1>1, <1>3, <1>4
-----------------------------------------------------------------------------
(* Where nothing is placed, every request follows the state a.             *)
LEMMA AllFollow ==
  ASSUME NEW a, Becomes(a), UNCHANGED <<trace, promptOn, tokenOn>>
  PROVE  \A r : Follows(a, r)
  BY DEF Follows

(* A request arrives.                                                      *)
LEMMA RequestArrivalPath ==
  ASSUME PathInv, Punctual, NEW r \in Requests, NEW p \in Instances, NEW x \in Instances,
         RequestArrival(r, p, x)
  PROVE  PathInv' /\ \A q \in Requests : OnPath(q)
<1>1. PICK a \in StateType :
        /\ Becomes(a) /\ Lean(a)
        /\ Comes(State, a, r, p, IF p = x THEN "QUEUED" ELSE "NONE")
        /\ \A q \in Requests \ {r} : Starts(State, a, q, p, promptOn, tokenOn)
  BY ArrivalComes
<1>2. /\ promptOn[r] = NoInstance /\ trace' = trace
      /\ promptOn' = [promptOn EXCEPT ![r] = p] /\ tokenOn' = [tokenOn EXCEPT ![r] = x]
  BY DEF RequestArrival, IsNext
<1>3. /\ promptOn \in Placing /\ tokenOn \in Placing /\ tokenOn[r] = NoInstance
      /\ trace \in [Requests -> Shapes] /\ State \in StateType /\ ClusterInv
      /\ Held(State, r, promptOn, tokenOn)
  BY <1>2 DEF PathInv, AllHeld, ClusterInv, Placed, Placing, Regular, Good
<1>4. /\ promptOn'[r] = p /\ tokenOn'[r] = x
      /\ \A q \in Requests \ {r} : promptOn'[q] = promptOn[q] /\ tokenOn'[q] = tokenOn[q]
  BY <1>2, <1>3 DEF Placing
<1>5. State.memory[r] = 0 /\ \A j \in Instances : State.alloc[j][r] = 0
  BY <1>1, <1>3 DEF Held, MemoryNow, Comes
<1>6. OnPath(r)
  <2>1. \A j \in Instances : alloc[j][r] = 0
    BY <1>5 DEF State
  <2>2. \E where \in {"same", "apart"}, runs \in BOOLEAN : Path(r)!Arrive(where, runs)
    BY <1>1, <1>2, <1>3, <2>1, ComesOnPath
  <2> QED
    BY <2>2 DEF OnPath, Path!Next
<1>7. Keeps(a, r)
  <2>1. p # NoInstance
    BY PlacementAssumption
  <2>2. Comes(State, a, r, promptOn'[r], IF p = x THEN "QUEUED" ELSE "NONE")
    BY <1>1, <1>4
  <2>3. Held(a, r, promptOn', tokenOn')
    BY <1>3, <1>5, <2>2, ComesHeld
  <2> QED
    BY <1>1, <1>4, <1>6, <2>1, <2>3 DEF Keeps, Comes
<1>8. ASSUME NEW q \in Requests \ {r}
      PROVE  Keeps(a, q)
  <2>1. Moves(State, a, q, p, promptOn, tokenOn) /\ Follows(a, q)
    BY <1>1, <1>2, <1>4 DEF Moves, Follows
  <2> QED
    BY <2>1, MovesOnPath
<1>9. ClusterInv'
  BY <1>3, RequestArrivalInv
<1> QED
  BY <1>1, <1>2, <1>7, <1>8, <1>9, AllKeep

(* The run of an instance is over.                                         *)
LEMMA IterationCompletionPath ==
  ASSUME PathInv, Punctual, NEW i \in Instances, IterationCompletion(i)
  PROVE  PathInv' /\ \A r \in Requests : OnPath(r)
<1>1. PICK a \in StateType :
        /\ Becomes(a) /\ Lean(a)
        /\ \A r \in Requests : Moves(State, a, r, i, promptOn, tokenOn)
  BY CompletionMoves
<1>2. UNCHANGED <<trace, promptOn, tokenOn>> /\ ClusterInv
  BY DEF IterationCompletion, PathInv
<1>3. \A r \in Requests : Keeps(a, r)
  BY <1>1, <1>2, AllFollow, MovesOnPath
<1>4. ClusterInv'
  BY <1>2, IterationCompletionInv
<1> QED
  BY <1>1, <1>2, <1>3, <1>4, AllKeep

(* A flow is over.                                                         *)
LEMMA FlowCompletionPath ==
  ASSUME PathInv, Punctual, NEW r \in Requests, FlowCompletion(r)
  PROVE  PathInv' /\ \A q \in Requests : OnPath(q)
<1>1. PICK a \in StateType :
        /\ Becomes(a) /\ Lean(a) /\ FlowEnds(State, a, r, promptOn, tokenOn)
        /\ \A q \in Requests \ {r} :
             \E i \in Instances : Starts(State, a, q, i, promptOn, tokenOn)
  BY FlowCompletionMoves
<1>2. UNCHANGED <<trace, promptOn, tokenOn>> /\ ClusterInv
  BY DEF FlowCompletion, PathInv
<1>3. Keeps(a, r)
  BY <1>1, <1>2, AllFollow, FlowsOnPath
<1>4. \A q \in Requests \ {r} : Keeps(a, q)
  BY <1>1, <1>2, AllFollow, MovesOnPath DEF Moves
<1>5. ClusterInv'
  BY <1>2, FlowCompletionInv
<1> QED
  BY <1>1, <1>2, <1>3, <1>4, <1>5, AllKeep

(* A flow is retried.                                                      *)
LEMMA RetryFlowPath ==
  ASSUME PathInv, NEW r \in Requests, RetryFlow(r)
  PROVE  PathInv' /\ \A q \in Requests : OnPath(q)
<1>1. PICK a \in StateType :
        /\ Becomes(a) /\ Lean(a) /\ FlowStarts(State, a, r, promptOn, tokenOn)
        /\ \A q \in Requests \ {r} : Rests(State, a, q)
  BY RetryFlowMoves
<1>2. UNCHANGED <<trace, promptOn, tokenOn>> /\ ClusterInv
  BY DEF RetryFlow, PathInv
<1>3. Keeps(a, r)
  BY <1>1, <1>2, AllFollow, FlowsOnPath
<1>4. ASSUME NEW q \in Requests \ {r}
      PROVE  Keeps(a, q)
  <2>1. \E i : i \in Instances
    BY <1>1 DEF FlowStarts
  <2>2. \A i : Moves(State, a, q, i, promptOn, tokenOn)
    BY <1>1 DEF Moves, Starts
  <2> QED
    BY <1>1, <1>2, <2>1, <2>2, AllFollow, MovesOnPath
<1>5. ClusterInv'
  BY <1>2, RetryFlowInv
<1> QED
  BY <1>1, <1>2, <1>3, <1>4, <1>5, AllKeep

(* A step that changes no node, no count of tokens and no memory.          *)
LEMMA QuietPath ==
  ASSUME PathInv, ClusterInv',
         UNCHANGED <<trace, node, generated, alloc, memory, promptOn, tokenOn>>
  PROVE  PathInv' /\ \A r \in Requests : OnPath(r)
<1>1. ASSUME NEW r \in Requests
      PROVE  OnPath(r)
  <2>1. UNCHANGED Path(r)!pvars
    BY DEF Path!pvars, HeldBy
  <2> QED
    BY <2>1 DEF OnPath
<1>2. Lean(State)'
  BY DEF PathInv, Lean, State
<1>3. Chains(State, promptOn, tokenOn)'
  BY DEF PathInv, Chains, State
<1>4. AllHeld(State, promptOn, tokenOn)'
  <2>1. ASSUME NEW r \in Requests
        PROVE  Held(State, r, promptOn, tokenOn)'
    <3>1. Held(State, r, promptOn, tokenOn)
      BY DEF PathInv, AllHeld
    <3> QED
      BY <3>1 DEF Held, Holds, MemoryNow, PromptMemory, TokenMemory, State
  <2> QED
    BY <2>1 DEF AllHeld
<1> QED
  BY <1>1, <1>2, <1>3, <1>4 DEF PathInv

(* Every action keeps the invariant, and is a step of every path.          *)
LEMMA NextPath ==
  ASSUME PathInv, Punctual, [ClusterNext]_cvars
  PROVE  PathInv' /\ \A r \in Requests : OnPath(r)
<1>0. ClusterInv
  BY DEF PathInv
<1>1. CASE UNCHANGED cvars
  <2>1. ClusterInv'
    BY <1>0, <1>1, StutterInv
  <2> QED
    BY <1>1, <2>1, QuietPath DEF cvars
<1>2. CASE Finished
  <2>1. UNCHANGED cvars
    BY <1>2 DEF Finished
  <2> QED
    BY <1>1, <2>1
<1>3. CASE \E r \in Requests, d \in Placements : RequestArrival(r, d[1], d[2])
  <2>1. \A d \in Placements : d[1] \in Instances /\ d[2] \in Instances
    BY PlacementAssumption
  <2> QED
    BY <1>3, <2>1, RequestArrivalPath
<1>4. ASSUME NEW i \in Instances, IterationOver(i)
      PROVE  PathInv' /\ \A r \in Requests : OnPath(r)
  <2>1. ClusterInv'
    BY <1>0, <1>4, IterationOverInv
  <2> QED
    BY <1>4, <2>1, QuietPath DEF IterationOver
<1>5. CASE \E i \in Instances : IterationOver(i) \/ IterationCompletion(i)
  BY <1>4, <1>5, IterationCompletionPath
<1>6. CASE \E r \in Requests : FlowCompletion(r) \/ RetryFlow(r)
  BY <1>6, FlowCompletionPath, RetryFlowPath
<1> QED
  BY <1>1, <1>2, <1>3, <1>5, <1>6 DEF ClusterNext

(* Initially.                                                              *)
LEMMA InitPath ==
  ASSUME ClusterInit
  PROVE  PathInv /\ \A r \in Requests : Path(r)!Init
<1>1. ClusterInv
  BY InitInv
<1>2. /\ node = [n \in Nodes |-> "NONE"] /\ generated = [t \in TaskNodes |-> 0]
      /\ alloc = [i \in Instances |-> [r \in Requests |-> 0]]
      /\ memory = [r \in Requests |-> 0]
      /\ promptOn = [r \in Requests |-> NoInstance] /\ tokenOn = [r \in Requests |-> NoInstance]
      /\ trace \in [Requests -> Shapes]
  BY DEF ClusterInit
<1>3. \A r \in Requests :
        /\ Prompt(r) \in TaskNodes /\ Token(r) \in TaskNodes
        /\ Prompt(r) \in Nodes /\ Token(r) \in Nodes /\ Flow(r) \in Nodes
  BY NodesOfRequests
<1>4. Lean(State)
  BY <1>2, <1>3 DEF Lean, State
<1>5. Chains(State, promptOn, tokenOn) /\ AllHeld(State, promptOn, tokenOn)
  BY <1>2, <1>3 DEF Chains, AllHeld, Held, MemoryNow, State
<1>6. ASSUME NEW r \in Requests
      PROVE  Path(r)!Init
  <2>1. /\ node[Prompt(r)] = "NONE" /\ node[Flow(r)] = "NONE" /\ node[Token(r)] = "NONE"
        /\ generated[Token(r)] = 0 /\ memory[r] = 0
        /\ promptOn[r] = NoInstance /\ tokenOn[r] = NoInstance /\ trace[r] \in Shapes
    BY <1>2, <1>3
  <2> QED
    BY <2>1 DEF Path!Init, HeldBy
<1> QED
  BY <1>1, <1>4, <1>5, <1>6 DEF PathInv

(* The cluster implements RequestPath for every request: its nodes run in  *)
(* their order and its cache is held where it is, whatever else the        *)
(* instances do; under the conditions under which runs are exact.          *)
THEOREM RequestsFollowPaths ==
  (~ LateEvents /\ \A x \in Shapes : x.token >= 2) => (ClusterSpec => FollowsRequestPath)
<1> SUFFICES ASSUME ~ LateEvents /\ \A x \in Shapes : x.token >= 2
             PROVE  ClusterSpec => FollowsRequestPath
  OBVIOUS
<1>1. Punctual
  BY DEF Punctual
<1>2. ClusterInit => PathInv /\ \A r \in Requests : Path(r)!Init
  BY InitPath
<1>3. PathInv /\ [ClusterNext]_cvars => PathInv'
  BY <1>1, NextPath
<1> DEFINE A == \A r \in Requests : [Path(r)!Next]_(Path(r)!pvars)
<1>4. PathInv /\ [ClusterNext]_cvars => A
  BY <1>1, NextPath DEF OnPath
<1>5. ClusterSpec => [][A]_cvars
  <2> HIDE DEF A
  <2> QED
    BY <1>2, <1>3, <1>4, PTL DEF ClusterSpec
<1>6. ClusterSpec => \A r \in Requests : Path(r)!Init
  BY <1>2 DEF ClusterSpec
<1> QED
  BY <1>5, <1>6 DEF FollowsRequestPath

-----------------------------------------------------------------------------
(* The phase of a request in the state s, and the requests with a task in  *)
(* the request pool of i.                                                  *)
PhaseIn(s, r) ==
  IF s.node[Prompt(r)] = "NONE" THEN "new"
  ELSE IF s.node[Prompt(r)] # "COMPLETED" THEN "prompt"
  ELSE IF s.node[Token(r)] = "NONE" THEN "flow"
  ELSE IF s.node[Token(r)] # "COMPLETED" THEN "token"
  ELSE "done"

Owing(s, P, D, i) ==
  {r \in Requests : \/ P[r] = i /\ PhaseIn(s, r) = "prompt"
                    \/ D[r] = i /\ PhaseIn(s, r) = "token"}

(* They are the requests of the tasks that are at i: the token task of a   *)
(* colocated request arrives with its prompt task.                         *)
LEMMA OwingIsAt ==
  ASSUME NEW P, NEW D, NEW s, Good(s, P, D), NEW i \in Instances
  PROVE  Owing(s, P, D, i) = {t.req : t \in At(s.node, P, D, i)}
<1> DEFINE at == At(s.node, P, D, i)
<1>1. s.node \in [Nodes -> NodeStates]
  BY DEF Good, StateType
<1>2. ASSUME NEW r \in Requests
      PROVE  /\ Prompt(r) \in TaskNodes /\ Token(r) \in TaskNodes
             /\ s.node[Prompt(r)] \in Live \cup {"NONE", "COMPLETED"}
             /\ s.node[Token(r)] \in Live \cup {"NONE", "COMPLETED"}
             /\ Prompt(r) \in at <=> s.node[Prompt(r)] \in Live /\ P[r] = i
             /\ Token(r) \in at <=> s.node[Token(r)] \in Live /\ D[r] = i
             /\ Prompt(r).req = r /\ Token(r).req = r /\ Stage(s, r, P, D)
  BY <1>1, NodesOfRequests DEF At, Where, Live, NodeStates, Good
<1>3. ASSUME NEW r \in Requests
      PROVE  r \in Owing(s, P, D, i) <=> (Prompt(r) \in at \/ Token(r) \in at)
  <2>1. PhaseIn(s, r) = "prompt" <=> s.node[Prompt(r)] \in Live
    BY <1>2 DEF PhaseIn, Live
  <2>2. PhaseIn(s, r) = "token" <=> s.node[Prompt(r)] = "COMPLETED" /\ s.node[Token(r)] \in Live
    BY <1>2 DEF PhaseIn, Live
  <2>3. s.node[Token(r)] \in Live /\ s.node[Prompt(r)] # "COMPLETED" =>
          P[r] = D[r] /\ s.node[Prompt(r)] \in Live
    BY <1>2 DEF Stage, Live
  <2> QED
    BY <1>2, <2>1, <2>2, <2>3 DEF Owing
<1>4. \A t \in at : t.req \in Requests /\ (t = Prompt(t.req) \/ t = Token(t.req))
  BY NodesOfRequests DEF At, TaskNodes
<1>5. \A r \in Owing(s, P, D, i) : r \in Requests
  BY DEF Owing
<1> HIDE DEF at
<1>6. Owing(s, P, D, i) = {t.req : t \in at}
  <2>1. \A r \in Owing(s, P, D, i) : \E t \in at : t.req = r
    BY <1>2, <1>3, <1>5
  <2>2. \A t \in at : t.req \in Owing(s, P, D, i)
    BY <1>3, <1>4
  <2> QED
    BY <2>1, <2>2
<1> QED
  BY <1>6 DEF at

(* A request pool is empty when no request has a task in it; a task that   *)
(* waits or runs is of such a request.                                     *)
LEMMA PoolIsOwing ==
  ASSUME NEW P, NEW D, NEW s, Good(s, P, D), NEW i \in Instances
  PROVE  /\ s.inst[i].pool = <<>> <=> Owing(s, P, D, i) = {}
         /\ s.inst[i].pending # <<>> => Owing(s, P, D, i) # {}
         /\ s.inst[i].batch # <<>> => Owing(s, P, D, i) # {}
<1>1. /\ s.inst[i] \in QueueType /\ Sound(s.inst[i], s.node, At(s.node, P, D, i))
      /\ Owing(s, P, D, i) = {t.req : t \in At(s.node, P, D, i)}
  BY OwingIsAt DEF Good, StateType
<1> DEFINE at == At(s.node, P, D, i)
           q == s.inst[i]
<1>2. /\ ToSet(q.pool) = {t.req : t \in at}
      /\ ToSet(q.pending) \subseteq at /\ ToSet(q.batch) \subseteq at
  BY <1>1 DEF Sound
<1>3. q.pool \in Seq(Requests) /\ q.pending \in Seq(TaskNodes) /\ q.batch \in Seq(TaskNodes)
  BY <1>1 DEF QueueType
<1> HIDE DEF q, at
<1>0. \A T : \A seq \in Seq(T) : seq # <<>> => ToSet(seq) # {}
  <2> SUFFICES ASSUME NEW T, NEW seq \in Seq(T), seq # <<>>
               PROVE  ToSet(seq) # {}
    OBVIOUS
  <2>1. 1 \in DOMAIN seq
    OBVIOUS
  <2> QED
    BY <2>1 DEF ToSet
<1>4. q.pool = <<>> <=> ToSet(q.pool) = {}
  <2>1. ToSet(<<>>) = {}
    BY DEF ToSet
  <2> QED
    BY <1>0, <1>3, <2>1
<1>5. /\ q.pending # <<>> => ToSet(q.pending) # {}
      /\ q.batch # <<>> => ToSet(q.batch) # {}
  BY <1>0, <1>3
<1>6. Owing(s, P, D, i) = {t.req : t \in at}
  BY <1>1 DEF at
<1>7. Owing(s, P, D, i) = ToSet(q.pool)
  BY <1>2, <1>6
<1>8. /\ q.pending # <<>> => Owing(s, P, D, i) # {}
      /\ q.batch # <<>> => Owing(s, P, D, i) # {}
  BY <1>2, <1>5, <1>6
<1> QED
  BY <1>4, <1>7, <1>8 DEF q

(* What a step to the state a completes of one request: nothing, and its   *)
(* phase stays; its prompt task, at i; its token task, at i.               *)
EndsNothing(s, a, r) ==
  /\ PhaseIn(a, r) = PhaseIn(s, r)
  /\ a.node[Prompt(r)] = "COMPLETED" <=> s.node[Prompt(r)] = "COMPLETED"
  /\ a.node[Token(r)] = "COMPLETED" <=> s.node[Token(r)] = "COMPLETED"

EndsPrompt(s, a, r, i, P, D) ==
  /\ PhaseIn(s, r) = "prompt" /\ P[r] = i
  /\ PhaseIn(a, r) = IF P[r] = D[r] THEN "token" ELSE "flow"
  /\ s.node[Prompt(r)] # "COMPLETED" /\ a.node[Prompt(r)] = "COMPLETED"
  /\ a.node[Token(r)] # "COMPLETED" /\ s.node[Token(r)] # "COMPLETED"

EndsToken(s, a, r, i, D) ==
  /\ PhaseIn(s, r) = "token" /\ D[r] = i
  /\ PhaseIn(a, r) = "done"
  /\ s.node[Prompt(r)] = "COMPLETED" /\ a.node[Prompt(r)] = "COMPLETED"
  /\ s.node[Token(r)] # "COMPLETED" /\ a.node[Token(r)] = "COMPLETED"
  /\ s.memory[r] = TotalMemory(r)

(* A task that starts ends nothing.                                        *)
LEMMA StartsEndNothing ==
  ASSUME NEW r, NEW P, NEW D, NEW s, Stage(s, r, P, D), NEW a, NEW i, Starts(s, a, r, i, P, D)
  PROVE  EndsNothing(s, a, r)
<1>1. CASE Rests(s, a, r)
  BY <1>1 DEF Rests, EndsNothing, PhaseIn
<1>2. CASE PromptStarts(s, a, r, i)
  BY <1>2 DEF PromptStarts, EndsNothing, PhaseIn
<1>3. CASE TokenStarts(s, a, r, i)
  BY <1>3 DEF TokenStarts, EndsNothing, PhaseIn
<1> QED
  BY <1>1, <1>2, <1>3 DEF Starts

(* Of what a completed run does to a request, two moves end a task.        *)
LEMMA MovesEnd ==
  ASSUME NEW r \in Requests, NEW P, NEW D, NEW s, Stage(s, r, P, D),
         Held(s, r, P, D), NEW a, NEW i, Moves(s, a, r, i, P, D)
  PROVE  \/ EndsNothing(s, a, r)
         \/ EndsPrompt(s, a, r, i, P, D)
         \/ EndsToken(s, a, r, i, D)
<1>1. CASE Starts(s, a, r, i, P, D)
  BY <1>1, StartsEndNothing
<1>2. CASE P[r] = i /\ PromptEnds(s, a, r, P, D)
  <2>1. /\ s.node[Prompt(r)] = "RUNNING" /\ a.node[Prompt(r)] = "COMPLETED"
        /\ P[r] # D[r] => a.node[Token(r)] = s.node[Token(r)]
        /\ P[r] = D[r] => a.node[Token(r)] \in {"QUEUED", "RUNNING"}
    BY <1>2 DEF PromptEnds
  <2>2. /\ s.node[Token(r)] \in {"NONE", "QUEUED"}
        /\ P[r] # D[r] => s.node[Token(r)] = "NONE"
    BY <2>1 DEF Stage
  <2> QED
    BY <1>2, <2>1, <2>2 DEF EndsPrompt, PhaseIn
<1>3. CASE D[r] = i /\ TokenEnds(s, a, r, D)
  <2>1. /\ s.node[Token(r)] = "RUNNING" /\ a.node[Token(r)] = "COMPLETED"
        /\ a.node[Prompt(r)] = s.node[Prompt(r)]
    BY <1>3 DEF TokenEnds
  <2>2. s.node[Prompt(r)] = "COMPLETED"
    BY <2>1 DEF Stage
  <2>3. s.memory[r] = PromptMemory(r) + TokenMemory(r)
    BY <2>1, <2>2 DEF Held, MemoryNow
  <2> QED
    BY <1>3, <2>1, <2>2, <2>3 DEF EndsToken, PhaseIn, TotalMemory
<1>4. CASE TokenGoesOn(s, a, r)
  BY <1>4 DEF TokenGoesOn, EndsNothing, PhaseIn
<1> QED
  BY <1>1, <1>2, <1>3, <1>4 DEF Moves

(* The phases of a request that arrives, and of one whose flow is over or  *)
(* is retried.                                                             *)
LEMMA ComesBegins ==
  ASSUME NEW s, NEW a, NEW r, NEW p, NEW x, Comes(s, a, r, p, x)
  PROVE  PhaseIn(s, r) = "new" /\ PhaseIn(a, r) = "prompt"
  BY DEF Comes, PhaseIn

(* The flow of a request carries the memory of its prompt.                 *)
LEMMA FlowEndsMemory ==
  ASSUME NEW s, NEW a, NEW r, NEW P, NEW D, FlowEnds(s, a, r, P, D), Held(s, r, P, D)
  PROVE  /\ PhaseIn(s, r) = "flow" /\ PhaseIn(a, r) = "token"
         /\ s.memory[r] = PromptMemory(r)
  BY DEF FlowEnds, PhaseIn, Held, MemoryNow

(* A flow that starts changes no phase.                                    *)
LEMMA FlowStartsRests ==
  ASSUME NEW s, NEW a, NEW r, NEW P, NEW D, FlowStarts(s, a, r, P, D)
  PROVE  PhaseIn(a, r) = PhaseIn(s, r)
  BY DEF FlowStarts, PhaseIn

(* The pools hold instances, and the accounts of the scheduler are numbers.*)
PoolType ==
  /\ promptPool \subseteq Instances /\ mixedPool \subseteq Instances
  /\ tokenPool \subseteq Instances

AccountType == schedMemory \in [Instances -> Int] /\ schedTokens \in [Instances -> Int]

MixedInv == PathInv /\ PoolType /\ AccountType

(* The instances of the pools are those of the cluster.                    *)
LEMMA PoolInstancesAre == Pool!PoolInstances = Instances
  BY InstancesAssumption DEF Pool!PoolInstances

(* schedule() places both tasks on instances.                              *)
LEMMA PlaceReserves ==
  ASSUME PoolType, NEW r \in Requests, NEW W, Pool!Place(r, W)
  PROVE  PoolType' /\ \E p \in Instances, x \in Instances : Pool!Reserve(r, p, x)
<1>1. PICK p \in Pool!PromptOffers(r, W), t \in Pool!TokenOffers(r) :
        \E bp \in Pool!Borrowed(p, tokenPool, schedTokens),
           bt \in Pool!Borrowed(t, promptPool, schedMemory) :
          /\ tokenPool' = tokenPool \ {bp}
          /\ promptPool' = promptPool \ {bt}
          /\ mixedPool' = mixedPool \cup ({bp, bt} \ {NoInstance})
          /\ \E d \in Pool!Pairings(IF p = NoInstance THEN bp ELSE p,
                                    IF t = NoInstance THEN bt ELSE t) :
               Pool!Reserve(r, d[1], d[2])
  BY DEF Pool!Place
<1>2. PICK bp \in Pool!Borrowed(p, tokenPool, schedTokens),
           bt \in Pool!Borrowed(t, promptPool, schedMemory) :
          /\ tokenPool' = tokenPool \ {bp}
          /\ promptPool' = promptPool \ {bt}
          /\ mixedPool' = mixedPool \cup ({bp, bt} \ {NoInstance})
          /\ \E d \in Pool!Pairings(IF p = NoInstance THEN bp ELSE p,
                                    IF t = NoInstance THEN bt ELSE t) :
               Pool!Reserve(r, d[1], d[2])
  BY <1>1
<1> DEFINE q == IF p = NoInstance THEN bp ELSE p
           u == IF t = NoInstance THEN bt ELSE t
<1>3. p \in Instances \cup {NoInstance}
  BY DEF Pool!PromptOffers, Pool!FirstFound, Pool!FindBestPrompt, Pool!Least, PoolType
<1>4. t \in Instances \cup {NoInstance}
  BY DEF Pool!TokenOffers, Pool!FirstFound, Pool!FindBestToken, Pool!Least, PoolType
<1>5. bp \in tokenPool \cup {NoInstance} /\ bt \in promptPool \cup {NoInstance}
  BY DEF Pool!Borrowed, Pool!Least
<1>6. q \in Instances \cup {NoInstance} /\ u \in Instances \cup {NoInstance}
  BY <1>3, <1>4, <1>5 DEF PoolType
<1> HIDE DEF q, u
<1>7. PICK d \in Pool!Pairings(q, u) : Pool!Reserve(r, d[1], d[2])
  BY <1>2 DEF q, u
<1>8. d[1] \in Instances /\ d[2] \in Instances
  BY <1>6 DEF Pool!Pairings, Pool!Least, PoolType
<1>9. PoolType'
  BY <1>2, <1>5 DEF PoolType
<1> QED
  BY <1>7, <1>8, <1>9

(* The request arrives at the cluster on the instances the scheduler chose.*)
LEMMA MixedArrivalArrives ==
  ASSUME PoolType, AccountType, trace \in [Requests -> Shapes],
         Placed(promptOn, tokenOn), NEW r \in Requests, MixedArrival(r)
  PROVE  /\ PoolType' /\ AccountType'
         /\ \E p \in Instances, x \in Instances : Pool!Reserve(r, p, x) /\ RequestArrival(r, p, x)
<1> DEFINE W == {i \in Instances : inst[i].pending # <<>>}
<1>1. Pool!Place(r, W)
  BY DEF MixedArrival
<1> HIDE DEF W
<1>2. PICK p \in Instances, x \in Instances : Pool!Reserve(r, p, x)
  BY <1>1, PlaceReserves
<1>3. PoolType'
  BY <1>1, PlaceReserves
<1>4. /\ promptOn' = [promptOn EXCEPT ![r] = p] /\ tokenOn' = [tokenOn EXCEPT ![r] = x]
      /\ schedMemory' = [i \in Instances |->
           schedMemory[i] + (IF i = p /\ p # x THEN PromptMemory(r) ELSE 0)
                          + (IF i = x THEN TotalMemory(r) ELSE 0)]
      /\ schedTokens' = [i \in Instances |->
           schedTokens[i] + (IF i = p THEN trace[r].prompt ELSE 0) + (IF i = x THEN 1 ELSE 0)]
  BY <1>2, PoolInstancesAre DEF Pool!Reserve, Pool!PromptMemory, Pool!TotalMemory,
     Pool!TokenMemory,
     PromptMemory, TotalMemory, TokenMemory
<1>5. trace[r].prompt \in Int /\ PromptMemory(r) \in Int /\ TotalMemory(r) \in Int
  BY SharesAreNumbers, ShapesAssumption DEF TotalMemory
<1>6. AccountType'
  BY <1>4, <1>5 DEF AccountType
<1>7. promptOn'[r] = p /\ tokenOn'[r] = x
  BY <1>4 DEF Placed, Placing
<1>8. RequestArrival(r, p, x)
  BY <1>4, <1>7 DEF MixedArrival, RequestArrival
<1> QED
  BY <1>2, <1>3, <1>6, <1>8

(* The phases MixedPool counts with, before and after a step to a.         *)
LEMMA PhasesAre ==
  ASSUME NEW a, Becomes(a), NEW r
  PROVE  PhaseOf(r) = PhaseIn(State, r) /\ PhaseOf(r)' = PhaseIn(a, r)
  BY DEF PhaseOf, PhaseIn, State, Becomes, Prompt, Token

(* An instance with waiting tasks has work in MixedPool's eyes too.        *)
LEMMA WaitingArePresent ==
  ASSUME ClusterInv
  PROVE  {i \in Instances : inst[i].pending # <<>>}
           \in SUBSET {i \in Pool!PoolInstances : Pool!Present(i) # {}}
<1>1. Good(State, promptOn, tokenOn)
  BY DEF ClusterInv, Regular
<1>2. ASSUME NEW i \in Instances, inst[i].pending # <<>>
      PROVE  Pool!Present(i) # {}
  <2>1. Owing(State, promptOn, tokenOn, i) # {}
    <3>1. State.inst[i].pending # <<>>
      BY <1>2 DEF State
    <3> QED
      BY <1>1, <3>1, PoolIsOwing
  <2>2. \A r \in Requests : PhaseOf(r) = PhaseIn(State, r)
    BY DEF PhaseOf, PhaseIn, State
  <2> QED
    BY <2>1, <2>2 DEF Pool!Present, Owing
<1> QED
  BY <1>2, PoolInstancesAre

(* A request arrives: the scheduler of MixedPool schedules it.             *)
LEMMA ArrivalSchedules ==
  ASSUME MixedInv, Punctual, NEW r \in Requests, MixedArrival(r)
  PROVE  Pool!Next
<1> DEFINE W == {i \in Instances : inst[i].pending # <<>>}
<1>1. /\ trace \in [Requests -> Shapes] /\ Placed(promptOn, tokenOn) /\ ClusterInv /\ PathInv
      /\ PoolType /\ AccountType
  BY DEF MixedInv, PathInv, ClusterInv
<1>2. PICK p \in Instances, x \in Instances : RequestArrival(r, p, x)
  BY <1>1, MixedArrivalArrives
<1>3. PICK a \in StateType :
        /\ Becomes(a)
        /\ Comes(State, a, r, p, IF p = x THEN "QUEUED" ELSE "NONE")
        /\ \A q \in Requests \ {r} : Starts(State, a, q, p, promptOn, tokenOn)
  BY <1>1, <1>2, ArrivalComes
<1>4. \A q \in Requests \ {r} : Stage(State, q, promptOn, tokenOn)
  BY <1>1 DEF ClusterInv, Regular, Good
<1>5. PhaseOf(r) = "new" /\ PhaseOf(r)' = "prompt"
  BY <1>3, PhasesAre, ComesBegins
<1>6. \A q \in Requests \ {r} : PhaseOf(q)' = PhaseOf(q)
  BY <1>3, <1>4, PhasesAre, StartsEndNothing DEF EndsNothing
<1>7. Pool!Schedule(r, W)
  <2>1. Pool!Place(r, W) /\ UNCHANGED trace
    BY DEF MixedArrival
  <2> HIDE DEF W
  <2> QED
    BY <1>5, <1>6, <2>1 DEF Pool!Schedule
<1>8. W \in SUBSET {i \in Pool!PoolInstances : Pool!Present(i) # {}}
  BY <1>1, WaitingArePresent
<1> HIDE DEF W
<1> QED
  BY <1>7, <1>8 DEF Pool!Next

(* A flow is over: its source gives back the memory of the prompt.         *)
LEMMA FlowCompletionReturns ==
  ASSUME MixedInv, Punctual, NEW r \in Requests, MixedFlowCompletion(r)
  PROVE  Pool!Next /\ AccountType'
<1>1. /\ trace \in [Requests -> Shapes] /\ ClusterInv /\ PathInv /\ AccountType
      /\ FlowCompletion(r) /\ UNCHANGED <<trace, promptOn, tokenOn>>
  BY DEF MixedInv, PathInv, ClusterInv, MixedFlowCompletion, FlowCompletion
<1>2. PICK a \in StateType :
        /\ Becomes(a) /\ FlowEnds(State, a, r, promptOn, tokenOn)
        /\ \A q \in Requests \ {r} :
             \E i \in Instances : Starts(State, a, q, i, promptOn, tokenOn)
  BY <1>1, FlowCompletionMoves
<1>3. \A q \in Requests : Stage(State, q, promptOn, tokenOn)
  BY <1>1 DEF ClusterInv, Regular, Good
<1>4. Held(State, r, promptOn, tokenOn)
  BY <1>1 DEF PathInv, AllHeld
<1>5. /\ PhaseOf(r) = "flow" /\ PhaseOf(r)' = "token" /\ State.memory[r] = PromptMemory(r)
  BY <1>2, <1>4, PhasesAre, FlowEndsMemory
<1>6. \A q \in Requests \ {r} : PhaseOf(q)' = PhaseOf(q)
  BY <1>2, <1>3, PhasesAre, StartsEndNothing DEF EndsNothing
<1>7. memory[r] = PromptMemory(r) /\ PromptMemory(r) \in Int
  BY <1>1, <1>5, SharesAreNumbers DEF State
<1>8. schedMemory' = [schedMemory EXCEPT ![promptOn[r]] = @ - PromptMemory(r)]
  BY <1>7 DEF MixedFlowCompletion
<1>9. AccountType'
  <2>1. promptOn[r] \in Instances
    BY <1>2 DEF FlowEnds
  <2> QED
    BY <1>1, <1>7, <1>8, <2>1 DEF AccountType, MixedFlowCompletion
<1>10. Pool!FlowCompletion(r)
  <2>1. Pool!PromptMemory(r) = PromptMemory(r)
    BY DEF Pool!PromptMemory, PromptMemory
  <2> QED
    BY <1>1, <1>5, <1>6, <1>8, <2>1
       DEF Pool!FlowCompletion, MixedFlowCompletion, Pool!pools
<1> QED
  BY <1>9, <1>10 DEF Pool!Next

(* A flow is retried, and nothing of this is counted.                      *)
LEMMA RetryIsQuiet ==
  ASSUME MixedInv, NEW r \in Requests, RetryFlow(r), UNCHANGED poolVars
  PROVE  UNCHANGED Pool!vars
<1>1. PathInv /\ ClusterInv /\ UNCHANGED <<trace, promptOn, tokenOn>>
  BY DEF MixedInv, PathInv, RetryFlow
<1>2. PICK a \in StateType :
        /\ Becomes(a) /\ FlowStarts(State, a, r, promptOn, tokenOn)
        /\ \A q \in Requests \ {r} : Rests(State, a, q)
  BY <1>1, RetryFlowMoves
<1>3. \A q \in Requests : PhaseIn(a, q) = PhaseIn(State, q)
  BY <1>2, FlowStartsRests DEF Rests, PhaseIn
<1>4. \A q \in Requests : PhaseOf(q)' = PhaseOf(q)
  BY <1>2, <1>3, PhasesAre
<1> QED
  BY <1>1, <1>4 DEF Pool!vars, Pool!pools, poolVars

(* The requests with a task that completes at i in a step to a, and their  *)
(* tasks, under the names of MixedPool and of the cluster.                 *)
EndedAt(a, i) ==
  {r \in Requests : \/ EndsPrompt(State, a, r, i, promptOn, tokenOn)
                    \/ EndsToken(State, a, r, i, tokenOn)}

TaskOf == [r \in Requests |-> IF PhaseOf(r) = "prompt" THEN Prompt(r) ELSE Token(r)]

(* They are the tasks that Node.complete ends in the step.                 *)
LEMMA CompletedAreEnded ==
  ASSUME NEW a, Becomes(a), NEW i,
         \A r \in Requests : EndsNothing(State, a, r) \/ r \in EndedAt(a, i)
  PROVE  NewlyCompleted = {TaskOf[r] : r \in EndedAt(a, i)}
<1>1. /\ State.node = node /\ node' = a.node
      /\ \A r \in Requests : PhaseOf(r) = PhaseIn(State, r)
  BY PhasesAre DEF State, Becomes
<1>2. ASSUME NEW r \in Requests
      PROVE  /\ Prompt(r) \in TaskNodes /\ Token(r) \in TaskNodes
             /\ Prompt(r) \in NewlyCompleted <=> r \in EndedAt(a, i) /\ TaskOf[r] = Prompt(r)
             /\ Token(r) \in NewlyCompleted <=> r \in EndedAt(a, i) /\ TaskOf[r] = Token(r)
  <2>1. Prompt(r) \in TaskNodes /\ Token(r) \in TaskNodes /\ Prompt(r) # Token(r)
    BY NodesOfRequests DEF Prompt, Token
  <2>2. CASE EndsNothing(State, a, r) /\ r \notin EndedAt(a, i)
    BY <1>1, <2>1, <2>2 DEF EndsNothing, NewlyCompleted
  <2>3. CASE EndsPrompt(State, a, r, i, promptOn, tokenOn)
    BY <1>1, <2>1, <2>3 DEF EndsPrompt, NewlyCompleted, EndedAt, TaskOf
  <2>4. CASE EndsToken(State, a, r, i, tokenOn)
    BY <1>1, <2>1, <2>4 DEF EndsToken, NewlyCompleted, EndedAt, TaskOf
  <2> QED
    BY <2>2, <2>3, <2>4 DEF EndedAt
<1>3. \A t \in NewlyCompleted : \E r \in Requests : t = Prompt(r) \/ t = Token(r)
  BY DEF NewlyCompleted, TaskNodes
<1>4. \A r \in EndedAt(a, i) : r \in Requests /\ (TaskOf[r] = Prompt(r) \/ TaskOf[r] = Token(r))
  BY DEF EndedAt, TaskOf
<1>5. \A t \in NewlyCompleted : \E r \in EndedAt(a, i) : t = TaskOf[r]
  BY <1>2, <1>3
<1>6. \A r \in EndedAt(a, i) : TaskOf[r] \in NewlyCompleted
  BY <1>2, <1>4
<1> QED
  BY <1>5, <1>6

(* What the tasks return is what MixedPool subtracts: load.                *)
LEMMA TokensReturned ==
  ASSUME trace \in [Requests -> Shapes], NEW a, Becomes(a), NEW i,
         NewlyCompleted = {TaskOf[r] : r \in EndedAt(a, i)}
  PROVE  /\ SumFunction([t \in NewlyCompleted |-> TokensPerIteration(t)])
              = SumFunction([r \in EndedAt(a, i) |-> Pool!PendingTokensOf(r)])
         /\ SumFunction([r \in EndedAt(a, i) |-> Pool!PendingTokensOf(r)]) \in Int
<1> DEFINE D == EndedAt(a, i)
           f == [r \in D |-> Pool!PendingTokensOf(r)]
           g == [t \in NewlyCompleted |-> TokensPerIteration(t)]
<1>1. D \subseteq Requests /\ IsFiniteSet(D)
  BY TraceAssumption, FS_Subset DEF EndedAt
<1>2. \A r \in Requests : trace[r].prompt \in Int
  BY ShapesAssumption
<1>3. ASSUME NEW r \in D
      PROVE  f[r] \in Int /\ g[TaskOf[r]] = f[r] /\ TaskOf[r].req = r
  <2>1. TaskOf[r] \in NewlyCompleted /\ r \in Requests
    BY <1>1
  <2>2. TaskOf[r].req = r /\ (IsPrompt(TaskOf[r]) <=> PhaseOf(r) = "prompt")
    BY <2>1 DEF TaskOf, Prompt, Token, IsPrompt
  <2>3. f[r] = IF PhaseOf(r) = "prompt" THEN trace[r].prompt ELSE 1
    BY <2>1 DEF Pool!PendingTokensOf
  <2>4. g[TaskOf[r]] = IF IsPrompt(TaskOf[r]) THEN trace[TaskOf[r].req].prompt ELSE 1
    BY <2>1 DEF TokensPerIteration
  <2> QED
    BY <1>2, <2>1, <2>2, <2>3, <2>4
<1> HIDE DEF D
<1>4. NewlyCompleted = {TaskOf[r] : r \in D}
  BY DEF D
<1>5. DOMAIN f = D /\ DOMAIN g = NewlyCompleted
  OBVIOUS
<1> HIDE DEF f, g
<1>6. \A r, q \in D : TaskOf[r] = TaskOf[q] => r = q
  BY <1>3
<1>7. SumFunctionOnSet(g, {TaskOf[r] : r \in D}) = SumFunctionOnSet(f, D)
  BY <1>1, <1>3, <1>6, SumRenamed
<1>8. SumFunctionOnSet(f, D) \in Int
  BY <1>1, <1>3, SumType
<1>9. SumFunction(g) = SumFunction(f) /\ SumFunction(f) \in Int
  BY <1>4, <1>5, <1>7, <1>8 DEF SumFunction
<1> QED
  BY <1>9 DEF f, g, D

(* And memory.                                                             *)
LEMMA MemoryReturned ==
  ASSUME trace \in [Requests -> Shapes], NEW a, Becomes(a), NEW i,
         NewlyCompleted = {TaskOf[r] : r \in EndedAt(a, i)}
  PROVE  /\ SumFunction([t \in NewlyCompleted |-> IF IsPrompt(t) THEN 0 ELSE memory[t.req]])
              = SumFunction([r \in EndedAt(a, i) |-> Pool!MemoryFreedBy(r)])
         /\ SumFunction([r \in EndedAt(a, i) |-> Pool!MemoryFreedBy(r)]) \in Int
<1> DEFINE D == EndedAt(a, i)
           f == [r \in D |-> Pool!MemoryFreedBy(r)]
           g == [t \in NewlyCompleted |-> IF IsPrompt(t) THEN 0 ELSE memory[t.req]]
<1>1. D \subseteq Requests /\ IsFiniteSet(D)
  BY TraceAssumption, FS_Subset DEF EndedAt
<1>2. \A r \in Requests : TotalMemory(r) \in Int /\ Pool!TotalMemory(r) = TotalMemory(r)
  BY SharesAreNumbers DEF TotalMemory, Pool!TotalMemory, Pool!PromptMemory,
     Pool!TokenMemory,
     PromptMemory, TokenMemory
<1>3. \A r \in D : PhaseOf(r) = "prompt" \/ memory[r] = TotalMemory(r)
  <2>1. \A r \in Requests : PhaseOf(r) = PhaseIn(State, r) /\ State.memory = memory
    BY PhasesAre DEF State
  <2> QED
    BY <1>1, <2>1 DEF EndedAt, EndsPrompt, EndsToken
<1>4. ASSUME NEW r \in D
      PROVE  f[r] \in Int /\ g[TaskOf[r]] = f[r] /\ TaskOf[r].req = r
  <2>1. TaskOf[r] \in NewlyCompleted /\ r \in Requests
    BY <1>1
  <2>2. TaskOf[r].req = r /\ (IsPrompt(TaskOf[r]) <=> PhaseOf(r) = "prompt")
    BY <2>1 DEF TaskOf, Prompt, Token, IsPrompt
  <2>3. f[r] = IF PhaseOf(r) = "prompt" THEN 0 ELSE TotalMemory(r)
    BY <1>2, <2>1 DEF Pool!MemoryFreedBy
  <2> QED
    BY <1>2, <1>3, <2>1, <2>2, <2>3
<1> HIDE DEF D
<1>5. NewlyCompleted = {TaskOf[r] : r \in D}
  BY DEF D
<1>6. DOMAIN f = D /\ DOMAIN g = NewlyCompleted
  OBVIOUS
<1> HIDE DEF f, g
<1>7. \A r, q \in D : TaskOf[r] = TaskOf[q] => r = q
  BY <1>4
<1>8. SumFunctionOnSet(g, {TaskOf[r] : r \in D}) = SumFunctionOnSet(f, D)
  BY <1>1, <1>4, <1>7, SumRenamed
<1>9. SumFunctionOnSet(f, D) \in Int
  BY <1>1, <1>4, SumType
<1>10. SumFunction(g) = SumFunction(f) /\ SumFunction(f) \in Int
  BY <1>5, <1>6, <1>8, <1>9 DEF SumFunction
<1> QED
  BY <1>10 DEF f, g, D

(* MixedPool adds as the cluster does.                                     *)
LEMMA SumsAgree ==
  ASSUME NEW f
  PROVE  Pool!SumFunction(f) = SumFunction(f)
  BY DEF Pool!SumFunction, SumFunction, Pool!SumFunctionOnSet, SumFunctionOnSet,
     Pool!FoldFunctionOnSet, FoldFunctionOnSet, Pool!MapThenFoldSet, MapThenFoldSet

(* What MixedPool sees at an instance after a step.                        *)
LEMMA PresentAfter ==
  ASSUME ClusterInv', NEW i \in Instances
  PROVE  inst'[i].pool = <<>> <=> Pool!Present(i)' = {}
<1> DEFINE a == State'
           P == promptOn'
           D == tokenOn'
<1>1. Good(a, P, D) /\ a.inst[i] = inst'[i]
  BY DEF ClusterInv, Regular, State
<1>2. ASSUME NEW r \in Requests
      PROVE  PhaseOf(r)' = PhaseIn(a, r)
  BY DEF PhaseOf, PhaseIn, State, Prompt, Token
<1>3. Pool!Present(i)' = Owing(a, P, D, i)
  BY <1>2 DEF Pool!Present, Owing
<1> HIDE DEF a, P, D
<1>4. a.inst[i].pool = <<>> <=> Owing(a, P, D, i) = {}
  BY <1>1, PoolIsOwing
<1> QED
  BY <1>1, <1>3, <1>4

(* The run of an instance is over: an iteration of MixedPool, in which the *)
(* tasks complete that have generated what they had to; or nothing that    *)
(* the scheduler counts.                                                   *)
LEMMA CompletionEnds ==
  ASSUME MixedInv, Punctual, NEW i \in Instances, IterationCompletion(i)
  PROVE  \E a \in StateType :
           Becomes(a) /\ \A r \in Requests : EndsNothing(State, a, r) \/ r \in EndedAt(a, i)
<1>1. PICK a \in StateType :
        Becomes(a) /\ \A r \in Requests : Moves(State, a, r, i, promptOn, tokenOn)
  BY CompletionMoves DEF MixedInv
<1>2. \A r \in Requests :
        Stage(State, r, promptOn, tokenOn) /\ Held(State, r, promptOn, tokenOn)
  BY DEF MixedInv, PathInv, AllHeld, ClusterInv, Regular, Good
<1>3. \A r \in Requests : EndsNothing(State, a, r) \/ r \in EndedAt(a, i)
  BY <1>1, <1>2, MovesEnd DEF EndedAt
<1> QED
  BY <1>1, <1>3

(* It is an iteration of MixedPool, or a step that MixedPool does not see. *)
LEMMA CompletionCompletes ==
  ASSUME MixedInv, Punctual, NEW i \in Instances, MixedCompletion(i)
  PROVE  [Pool!Next]_(Pool!vars) /\ PoolType' /\ AccountType'
<1>1. /\ trace \in [Requests -> Shapes] /\ ClusterInv /\ PoolType /\ AccountType
      /\ IterationCompletion(i) /\ UNCHANGED <<trace, promptOn, tokenOn>>
  BY DEF MixedInv, PathInv, ClusterInv, MixedCompletion, IterationCompletion
<1>2. PICK a \in StateType :
        Becomes(a) /\ \A r \in Requests : EndsNothing(State, a, r) \/ r \in EndedAt(a, i)
  BY <1>1, CompletionEnds
<1> DEFINE D == EndedAt(a, i)
           tokens == SumFunction([r \in D |-> Pool!PendingTokensOf(r)])
           freed == SumFunction([r \in D |-> Pool!MemoryFreedBy(r)])
<1>3. /\ schedTokens' = [schedTokens EXCEPT ![i] = @ - tokens] /\ tokens \in Int
      /\ schedMemory' = [schedMemory EXCEPT ![i] = @ - freed] /\ freed \in Int
  <2>1. NewlyCompleted = {TaskOf[r] : r \in D}
    BY <1>2, CompletedAreEnded
  <2>2. /\ SumFunction([t \in NewlyCompleted |-> TokensPerIteration(t)]) = tokens
        /\ tokens \in Int
    BY <1>1, <1>2, <2>1, TokensReturned
  <2>3. /\ SumFunction([t \in NewlyCompleted |-> IF IsPrompt(t) THEN 0 ELSE memory[t.req]])
             = freed
        /\ freed \in Int
    BY <1>1, <1>2, <2>1, MemoryReturned
  <2> HIDE DEF tokens, freed
  <2> QED
    BY <2>2, <2>3 DEF MixedCompletion, ReturnLoad
<1>4. AccountType'
  <2> HIDE DEF tokens, freed
  <2> QED
    BY <1>1, <1>3 DEF AccountType
<1>5. IF inst'[i].pool = <<>> THEN Pool!NotifyFree(i)
      ELSE UNCHANGED <<promptPool, mixedPool, tokenPool, schedTag>>
  BY DEF MixedCompletion
<1>6. PoolType'
  BY <1>1, <1>5 DEF PoolType, Pool!NotifyFree
<1>7. inst'[i].pool = <<>> <=> Pool!Present(i)' = {}
  BY <1>1, IterationCompletionInv, PresentAfter
<1>8. \A r \in Requests : PhaseOf(r) = PhaseIn(State, r) /\ PhaseOf(r)' = PhaseIn(a, r)
  BY <1>2, PhasesAre
<1>9. CASE D # {}
  <2>1. D \subseteq Pool!Present(i)
    BY <1>8 DEF EndedAt, EndsPrompt, EndsToken, Pool!Present
  <2>2. \A r \in Requests :
          PhaseOf(r)' = IF r \notin D THEN PhaseOf(r)
                        ELSE IF PhaseOf(r) = "token" THEN "done"
                        ELSE IF promptOn[r] = tokenOn[r] THEN "token" ELSE "flow"
    BY <1>2, <1>8 DEF EndedAt, EndsPrompt, EndsToken, EndsNothing
  <2>3. \A r \in Requests : Pool!Colocated(r) <=> promptOn[r] = tokenOn[r]
    BY DEF Pool!Colocated
  <2>4. D \in SUBSET Requests
    BY DEF EndedAt
  <2> HIDE DEF D
  <2>5. Pool!CompleteIteration(i, D)
    <3> DEFINE before == [r \in Requests |-> PhaseOf(r)]
               after == [r \in Requests |->
                           IF r \notin D THEN before[r]
                           ELSE IF before[r] = "token" THEN "done"
                           ELSE IF Pool!Colocated(r) THEN "token" ELSE "flow"]
    <3>1. [r \in Requests |-> PhaseOf(r)]' = after
      BY <2>2, <2>3
    <3>2. IF Pool!Present(i)' = {} THEN Pool!NotifyFree(i) ELSE UNCHANGED Pool!pools
      BY <1>5, <1>7 DEF Pool!pools
    <3>4. /\ tokens = Pool!SumFunction([r \in D |-> Pool!PendingTokensOf(r)])
          /\ freed = Pool!SumFunction([r \in D |-> Pool!MemoryFreedBy(r)])
      BY SumsAgree
    <3> HIDE DEF after, tokens, freed
    <3>3. /\ D # {} /\ D \subseteq Pool!Present(i)
          /\ schedTokens' = [schedTokens EXCEPT ![i] = @ - tokens]
          /\ schedMemory' = [schedMemory EXCEPT ![i] = @ - freed]
          /\ UNCHANGED <<trace, promptOn, tokenOn>>
      BY <1>1, <1>3, <1>9, <2>1
    <3> QED
      BY <3>1, <3>2, <3>3, <3>4 DEF Pool!CompleteIteration, after
  <2> QED
    BY <1>4, <1>6, <2>4, <2>5, PoolInstancesAre DEF Pool!Next
<1>10. CASE D = {}
  <2>1. tokens = 0 /\ freed = 0
    <3>1. ASSUME NEW f, DOMAIN f = {}
          PROVE  SumFunction(f) = 0
      BY <3>1, SumEmpty DEF SumFunction
    <3> HIDE DEF D
    <3>2. /\ DOMAIN [r \in D |-> Pool!PendingTokensOf(r)] = {}
          /\ DOMAIN [r \in D |-> Pool!MemoryFreedBy(r)] = {}
      BY <1>10
    <3> QED
      BY <3>1, <3>2
  <2>2. \A r \in Requests : PhaseOf(r)' = PhaseOf(r)
    BY <1>2, <1>8, <1>10 DEF EndsNothing
  <2>3. UNCHANGED <<schedTokens, schedMemory>>
    <3> HIDE DEF tokens, freed
    <3> QED
      BY <1>1, <1>3, <2>1 DEF AccountType
  <2>4. Pool!Present(i)' = Pool!Present(i)
    BY <1>1, <2>2 DEF Pool!Present
  <2>5. Pool!Present(i) # {}
    <3>1. Owing(State, promptOn, tokenOn, i) # {}
      <4>1. Good(State, promptOn, tokenOn) /\ State.inst[i].batch # <<>>
        BY <1>1 DEF ClusterInv, Regular, State, IterationCompletion
      <4> QED
        BY <4>1, PoolIsOwing
    <3> QED
      BY <1>8, <3>1 DEF Pool!Present, Owing
  <2>6. UNCHANGED <<promptPool, mixedPool, tokenPool, schedTag>>
    BY <1>5, <1>7, <2>4, <2>5
  <2>7. UNCHANGED Pool!vars
    BY <1>1, <2>2, <2>3, <2>6 DEF Pool!vars, Pool!pools
  <2> QED
    BY <1>4, <1>6, <2>7
<1> QED
  BY <1>9, <1>10

(* A step that the scheduler does not see.                                 *)
LEMMA UnseenStep ==
  ASSUME MixedInv, UNCHANGED poolVars, UNCHANGED <<trace, node, promptOn, tokenOn>>
  PROVE  PoolType' /\ AccountType' /\ UNCHANGED Pool!vars
<1>1. PoolType' /\ AccountType'
  BY DEF MixedInv, PoolType, AccountType, poolVars
<1>2. \A r \in Requests : PhaseOf(r)' = PhaseOf(r)
  BY DEF PhaseOf, Prompt, Token
<1> QED
  BY <1>1, <1>2 DEF Pool!vars, Pool!pools, poolVars

(* Every step of the cluster under the scheduler keeps the invariant, and  *)
(* is a step of MixedPool or one it does not see.                          *)
MixedGoesOn == MixedInv' /\ [Pool!Next]_(Pool!vars)

(* By cases on the action.                                                 *)
LEMMA MixedStep ==
  ASSUME MixedInv, Punctual, [MixedNext]_mvars
  PROVE  MixedGoesOn
<1>0. /\ PathInv /\ ClusterInv /\ PoolType /\ AccountType
      /\ trace \in [Requests -> Shapes] /\ Placed(promptOn, tokenOn)
  BY DEF MixedInv, PathInv, ClusterInv
<1>1. ASSUME UNCHANGED mvars
      PROVE  MixedGoesOn
  <2>1. UNCHANGED cvars /\ UNCHANGED poolVars
    BY <1>1 DEF mvars
  <2>2. UNCHANGED <<trace, node, generated, alloc, memory, promptOn, tokenOn>>
    BY <2>1 DEF cvars
  <2>3. PathInv'
    BY <1>0, <2>1, <2>2, StutterInv, QuietPath
  <2> QED
    BY <2>1, <2>2, <2>3, UnseenStep DEF MixedInv, MixedGoesOn
<1>2. ASSUME NEW r \in Requests, MixedArrival(r)
      PROVE  MixedGoesOn
  <2>1. PICK p \in Instances, x \in Instances : RequestArrival(r, p, x)
    BY <1>0, <1>2, MixedArrivalArrives
  <2>2. PathInv'
    BY <1>0, <2>1, RequestArrivalPath
  <2> QED
    BY <1>0, <1>2, <2>2, MixedArrivalArrives, ArrivalSchedules DEF MixedInv, MixedGoesOn
<1>3. ASSUME NEW r \in Requests, MixedFlowCompletion(r)
      PROVE  MixedGoesOn
  <2>1. PathInv'
    BY <1>0, <1>3, FlowCompletionPath DEF MixedFlowCompletion
  <2>2. PoolType'
    BY <1>0, <1>3 DEF MixedFlowCompletion, PoolType
  <2> QED
    BY <1>3, <2>1, <2>2, FlowCompletionReturns DEF MixedInv, MixedGoesOn
<1>4. ASSUME NEW r \in Requests, RetryFlow(r), UNCHANGED poolVars
      PROVE  MixedGoesOn
  <2>1. PathInv'
    BY <1>0, <1>4, RetryFlowPath
  <2>2. PoolType' /\ AccountType'
    BY <1>0, <1>4 DEF PoolType, AccountType, poolVars
  <2> QED
    BY <1>4, <2>1, <2>2, RetryIsQuiet DEF MixedInv, MixedGoesOn
<1>5. ASSUME NEW i \in Instances, MixedCompletion(i)
      PROVE  MixedGoesOn
  <2>1. PathInv'
    BY <1>0, <1>5, IterationCompletionPath DEF MixedCompletion
  <2> QED
    BY <1>5, <2>1, CompletionCompletes DEF MixedInv, MixedGoesOn
<1>6. ASSUME NEW i \in Instances, IterationOver(i), UNCHANGED poolVars
      PROVE  MixedGoesOn
  <2>1. UNCHANGED <<trace, node, generated, alloc, memory, promptOn, tokenOn>>
    BY <1>6 DEF IterationOver
  <2>2. PathInv'
    BY <1>0, <1>6, <2>1, IterationOverInv, QuietPath
  <2> QED
    BY <1>6, <2>1, <2>2, UnseenStep DEF MixedInv, MixedGoesOn
<1>7. ASSUME Finished, UNCHANGED poolVars
      PROVE  MixedGoesOn
  BY <1>1, <1>7 DEF Finished, mvars
<1> QED
  BY <1>1, <1>2, <1>3, <1>4, <1>5, <1>6, <1>7 DEF MixedNext

(* Initially.                                                              *)
LEMMA MixedStarts ==
  ASSUME MixedInit
  PROVE  MixedInv /\ Pool!Init
<1>1. PathInv
  BY InitPath DEF MixedInit
<1>2. PoolType /\ AccountType
  BY InstancesAssumption, InstanceAssumption DEF MixedInit, PoolType, AccountType
<1>3. \A r \in Requests : PhaseOf(r) = "new"
  BY NodesOfRequests DEF MixedInit, ClusterInit, PhaseOf
<1>4. Pool!Init
  BY <1>3, PoolInstancesAre DEF Pool!Init, MixedInit, ClusterInit
<1> QED
  BY <1>1, <1>2, <1>4 DEF MixedInv

(* The cluster with its real batching, transfers and preemptions           *)
(* implements MixedPool, where an iteration completes any tasks at all.    *)
THEOREM ClusterImplementsMixedPool ==
  (~ LateEvents /\ \A x \in Shapes : x.token >= 2) => (MixedSpec => ImplementsMixedPool)
<1> SUFFICES ASSUME ~ LateEvents /\ \A x \in Shapes : x.token >= 2
             PROVE  MixedSpec => ImplementsMixedPool
  OBVIOUS
<1>1. Punctual
  BY DEF Punctual
<1>2. MixedInit => MixedInv /\ Pool!Init
  BY MixedStarts
<1>3. MixedInv /\ [MixedNext]_mvars => MixedInv' /\ [Pool!Next]_(Pool!vars)
  BY <1>1, MixedStep DEF MixedGoesOn
<1> QED
  BY <1>2, <1>3, PTL DEF MixedSpec, ImplementsMixedPool, Pool!Spec

(* The scheduler's account of the memory of an instance is the model and   *)
(* what MixedPool says the requests have reserved there.                   *)
ReservedOn(i) == [r \in Requests |-> Pool!Reservation(i, r)]

Booked(i) == schedMemory[i] = ModelSize + SumFunctionOnSet(ReservedOn(i), Requests)

MemoryBooked == \A i \in Instances : Booked(i)

(* MixedPool counts the memory of a request as the cluster does.           *)
LEMMA TotalsAre ==
  ASSUME trace \in [Requests -> Shapes], NEW r \in Requests
  PROVE  /\ PromptMemory(r) \in Nat /\ TokenMemory(r) \in Nat /\ TotalMemory(r) \in Nat
         /\ TotalMemory(r) = PromptMemory(r) + TokenMemory(r)
         /\ Pool!TotalMemory(r) = TotalMemory(r) /\ Pool!PromptMemory(r) = PromptMemory(r)
  BY SharesAreNumbers
  DEF TotalMemory, Pool!TotalMemory, Pool!PromptMemory, Pool!TokenMemory, PromptMemory, TokenMemory

(* What the request r has reserved at i.                                   *)
LEMMA ReservationIs ==
  ASSUME trace \in [Requests -> Shapes], NEW r \in Requests, NEW i
  PROVE  /\ ReservedOn(i)[r] =
              IF tokenOn[r] = i /\ PhaseOf(r) # "done" THEN TotalMemory(r)
              ELSE IF promptOn[r] = i /\ PhaseOf(r) \in {"prompt", "flow"} THEN PromptMemory(r)
              ELSE 0
         /\ ReservedOn(i)[r] \in Nat
<1>1. ReservedOn(i)[r] =
              IF tokenOn[r] = i /\ PhaseOf(r) # "done" THEN TotalMemory(r)
              ELSE IF promptOn[r] = i /\ PhaseOf(r) \in {"prompt", "flow"} THEN PromptMemory(r)
              ELSE 0
  BY TotalsAre DEF ReservedOn, Pool!Reservation
<1> QED
  BY <1>1, TotalsAre

(* And after a step.                                                       *)
LEMMA ReservationIsAfter ==
  ASSUME trace \in [Requests -> Shapes], trace' = trace, NEW r \in Requests, NEW i
  PROVE  /\ ReservedOn(i)'[r] =
              IF tokenOn'[r] = i /\ PhaseOf(r)' # "done" THEN TotalMemory(r)
              ELSE IF promptOn'[r] = i /\ PhaseOf(r)' \in {"prompt", "flow"} THEN PromptMemory(r)
              ELSE 0
         /\ ReservedOn(i)'[r] \in Nat
<1>1. Pool!TotalMemory(r)' = TotalMemory(r) /\ Pool!PromptMemory(r)' = PromptMemory(r)
  BY DEF Pool!TotalMemory, Pool!PromptMemory, Pool!TokenMemory, TotalMemory,
     PromptMemory,
     TokenMemory
<1>2. ReservedOn(i)'[r] =
              IF tokenOn'[r] = i /\ PhaseOf(r)' # "done" THEN TotalMemory(r)
              ELSE IF promptOn'[r] = i /\ PhaseOf(r)' \in {"prompt", "flow"} THEN PromptMemory(r)
              ELSE 0
  BY <1>1 DEF ReservedOn, Pool!Reservation
<1> QED
  BY <1>2, TotalsAre

(* A step that changes the reservation of one request keeps the accounts   *)
(* if it changes the account in the same way.                              *)
LEMMA OneReservation ==
  ASSUME trace \in [Requests -> Shapes], trace' = trace, AccountType, NEW r \in Requests,
         NEW i \in Instances, Booked(i), NEW d \in Int,
         schedMemory'[i] = schedMemory[i] + d,
         ReservedOn(i)'[r] = ReservedOn(i)[r] + d,
         \A q \in Requests \ {r} : ReservedOn(i)'[q] = ReservedOn(i)[q]
  PROVE  Booked(i)'
<1> DEFINE f == ReservedOn(i)
           g == ReservedOn(i)'
           sum == SumFunctionOnSet(f, Requests)
<1>1. \A q \in Requests : f[q] \in Int /\ g[q] \in Int
  BY ReservationIs, ReservationIsAfter
<1>2. schedMemory[i] = ModelSize + sum /\ schedMemory[i] \in Int /\ ModelSize \in Nat
  BY InstanceAssumption DEF Booked, AccountType
<1>3. g[r] = f[r] + d /\ \A q \in Requests \ {r} : f[q] = g[q]
  OBVIOUS
<1> HIDE DEF f, g
<1>4. SumFunctionOnSet(g, Requests) = sum + (g[r] - f[r])
  BY <1>1, <1>3, TraceAssumption, SumChange
<1>5. sum \in Int
  BY <1>1, TraceAssumption, SumType
<1> HIDE DEF sum
<1>6. schedMemory'[i] = ModelSize + SumFunctionOnSet(g, Requests)
  BY <1>1, <1>2, <1>3, <1>4, <1>5
<1> QED
  BY <1>6 DEF Booked, g

(* A request is placed: what the scheduler adds to the accounts.           *)
LEMMA ArrivalBooks ==
  ASSUME MixedInv, MemoryBooked, Punctual, NEW r \in Requests, MixedArrival(r)
  PROVE  MemoryBooked'
<1>1. /\ trace \in [Requests -> Shapes] /\ Placed(promptOn, tokenOn) /\ ClusterInv /\ PathInv
      /\ PoolType /\ AccountType
  BY DEF MixedInv, PathInv, ClusterInv
<1>2. PICK p \in Instances, x \in Instances : Pool!Reserve(r, p, x) /\ RequestArrival(r, p, x)
  BY <1>1, MixedArrivalArrives
<1>3. PICK a \in StateType :
        /\ Becomes(a)
        /\ Comes(State, a, r, p, IF p = x THEN "QUEUED" ELSE "NONE")
        /\ \A q \in Requests \ {r} : Starts(State, a, q, p, promptOn, tokenOn)
  BY <1>1, <1>2, ArrivalComes
<1>4. \A q \in Requests \ {r} : Stage(State, q, promptOn, tokenOn)
  BY <1>1 DEF ClusterInv, Regular, Good
<1>5. PhaseOf(r) = "new" /\ PhaseOf(r)' = "prompt"
  BY <1>3, PhasesAre, ComesBegins
<1>6. \A q \in Requests \ {r} : PhaseOf(q)' = PhaseOf(q)
  BY <1>3, <1>4, PhasesAre, StartsEndNothing DEF EndsNothing
<1>7. /\ promptOn[r] = NoInstance /\ tokenOn[r] = NoInstance /\ trace' = trace
      /\ promptOn' = [promptOn EXCEPT ![r] = p] /\ tokenOn' = [tokenOn EXCEPT ![r] = x]
  BY <1>1, <1>2 DEF RequestArrival, IsNext, Placed
<1>8. /\ promptOn'[r] = p /\ tokenOn'[r] = x
      /\ \A q \in Requests \ {r} : promptOn'[q] = promptOn[q] /\ tokenOn'[q] = tokenOn[q]
  BY <1>1, <1>7 DEF Placed, Placing
<1>9. ASSUME NEW i \in Instances
      PROVE  Booked(i)'
  <2> DEFINE d == (IF i = p /\ p # x THEN PromptMemory(r) ELSE 0)
                    + (IF i = x THEN TotalMemory(r) ELSE 0)
  <2>1. d \in Int
    BY <1>1, TotalsAre
  <2>2. schedMemory'[i] = schedMemory[i] + d
    <3>1. schedMemory'[i] = schedMemory[i]
            + (IF i = p /\ p # x THEN Pool!PromptMemory(r) ELSE 0)
            + (IF i = x THEN Pool!TotalMemory(r) ELSE 0)
      BY <1>2, PoolInstancesAre DEF Pool!Reserve
    <3>2. schedMemory[i] \in Int
      BY <1>1 DEF AccountType
    <3> QED
      BY <1>1, <3>1, <3>2, TotalsAre
  <2>3. ReservedOn(i)'[r] = ReservedOn(i)[r] + d
    <3>1. i # NoInstance
      BY PlacementAssumption
    <3>2. ReservedOn(i)[r] = 0
      BY <1>1, <1>7, <3>1, ReservationIs
    <3>3. ReservedOn(i)'[r] = IF x = i THEN TotalMemory(r) ELSE IF p = i THEN PromptMemory(r) ELSE 0
      BY <1>1, <1>5, <1>7, <1>8, ReservationIsAfter
    <3> QED
      BY <1>1, <3>2, <3>3, TotalsAre
  <2>4. \A q \in Requests \ {r} : ReservedOn(i)'[q] = ReservedOn(i)[q]
    BY <1>1, <1>6, <1>7, <1>8, ReservationIs, ReservationIsAfter
  <2> HIDE DEF d
  <2>5. Booked(i)
    BY DEF MemoryBooked
  <2> QED
    BY <1>1, <1>7, <2>1, <2>2, <2>3, <2>4, <2>5, OneReservation
<1> QED
  BY <1>9 DEF MemoryBooked

(* A flow is over: its source gives back the memory of the prompt.         *)
LEMMA FlowBooks ==
  ASSUME MixedInv, MemoryBooked, Punctual, NEW r \in Requests, MixedFlowCompletion(r)
  PROVE  MemoryBooked'
<1>1. /\ trace \in [Requests -> Shapes] /\ ClusterInv /\ PathInv /\ AccountType
      /\ FlowCompletion(r) /\ UNCHANGED <<trace, promptOn, tokenOn>>
  BY DEF MixedInv, PathInv, ClusterInv, MixedFlowCompletion, FlowCompletion
<1>2. PICK a \in StateType :
        /\ Becomes(a) /\ FlowEnds(State, a, r, promptOn, tokenOn)
        /\ \A q \in Requests \ {r} :
             \E i \in Instances : Starts(State, a, q, i, promptOn, tokenOn)
  BY <1>1, FlowCompletionMoves
<1>3. \A q \in Requests : Stage(State, q, promptOn, tokenOn)
  BY <1>1 DEF ClusterInv, Regular, Good
<1>4. Held(State, r, promptOn, tokenOn)
  BY <1>1 DEF PathInv, AllHeld
<1>5. PhaseOf(r) = "flow" /\ PhaseOf(r)' = "token" /\ State.memory[r] = PromptMemory(r)
  BY <1>2, <1>4, PhasesAre, FlowEndsMemory
<1>6. \A q \in Requests \ {r} : PhaseOf(q)' = PhaseOf(q)
  BY <1>2, <1>3, PhasesAre, StartsEndNothing DEF EndsNothing
<1>7. memory[r] = PromptMemory(r) /\ PromptMemory(r) \in Int
  BY <1>1, <1>5, SharesAreNumbers DEF State
<1>8. schedMemory' = [schedMemory EXCEPT ![promptOn[r]] = @ - PromptMemory(r)]
  BY <1>7 DEF MixedFlowCompletion
<1>9. promptOn[r] \in Instances /\ promptOn[r] # tokenOn[r]
  BY <1>2 DEF FlowEnds
<1>10. ASSUME NEW i \in Instances
       PROVE  Booked(i)'
  <2> DEFINE d == IF i = promptOn[r] THEN - PromptMemory(r) ELSE 0
  <2>1. d \in Int
    BY <1>7
  <2>2. schedMemory'[i] = schedMemory[i] + d
    BY <1>1, <1>7, <1>8, <1>9 DEF AccountType
  <2>3. ReservedOn(i)'[r] = ReservedOn(i)[r] + d
    <3>1. ReservedOn(i)[r] = IF tokenOn[r] = i THEN TotalMemory(r)
                             ELSE IF promptOn[r] = i THEN PromptMemory(r) ELSE 0
      BY <1>1, <1>5, ReservationIs
    <3>2. ReservedOn(i)'[r] = IF tokenOn[r] = i THEN TotalMemory(r) ELSE 0
      BY <1>1, <1>5, ReservationIsAfter
    <3> QED
      BY <1>1, <1>9, <3>1, <3>2, TotalsAre
  <2>4. \A q \in Requests \ {r} : ReservedOn(i)'[q] = ReservedOn(i)[q]
    BY <1>1, <1>6, ReservationIs, ReservationIsAfter
  <2> HIDE DEF d
  <2>5. Booked(i)
    BY DEF MemoryBooked
  <2> QED
    BY <1>1, <2>1, <2>2, <2>3, <2>4, <2>5, OneReservation
<1> QED
  BY <1>10 DEF MemoryBooked

(* A step that the scheduler does not see.                                 *)
LEMMA UnseenBooks ==
  ASSUME trace \in [Requests -> Shapes], MemoryBooked, UNCHANGED Pool!vars
  PROVE  MemoryBooked'
<1>1. /\ UNCHANGED <<trace, promptOn, tokenOn, schedMemory>>
      /\ [r \in Requests |-> PhaseOf(r)]' = [r \in Requests |-> PhaseOf(r)]
  BY DEF Pool!vars
<1>2. \A r \in Requests : PhaseOf(r)' = PhaseOf(r)
  BY <1>1
<1>3. ASSUME NEW i \in Instances
      PROVE  Booked(i)'
  <2>1. \A r \in Requests : ReservedOn(i)'[r] = ReservedOn(i)[r]
    BY <1>1, <1>2, ReservationIs, ReservationIsAfter
  <2>2. ReservedOn(i)' = ReservedOn(i)
    BY <2>1 DEF ReservedOn
  <2>3. Booked(i)
    BY DEF MemoryBooked
  <2> QED
    BY <1>1, <2>2, <2>3 DEF Booked
<1> QED
  BY <1>3 DEF MemoryBooked

(* The tasks that complete at j give back the reservations of the requests *)
(* that are served with it; a prompt task gives back nothing.              *)
GivenBack(j, i, D) ==
  [r \in Requests |-> IF i = j /\ r \in D /\ PhaseOf(r) = "token" THEN TotalMemory(r) ELSE 0]

(* The reservation of a request before a completed run is what it is       *)
(* afterwards and what was given back.                                     *)
LEMMA EndedReserve ==
  ASSUME trace \in [Requests -> Shapes], UNCHANGED <<trace, promptOn, tokenOn>>,
         NEW a, Becomes(a), NEW i, NEW j, NEW r \in Requests,
         EndsNothing(State, a, r) \/ r \in EndedAt(a, j)
  PROVE  ReservedOn(i)[r] = ReservedOn(i)'[r] + GivenBack(j, i, EndedAt(a, j))[r]
<1>1. PhaseOf(r) = PhaseIn(State, r) /\ PhaseOf(r)' = PhaseIn(a, r)
  BY PhasesAre
<1> DEFINE D == EndedAt(a, j)
           back == GivenBack(j, i, D)[r]
<1> SUFFICES ReservedOn(i)[r] = ReservedOn(i)'[r] + back
  OBVIOUS
<1>2. back = IF i = j /\ r \in D /\ PhaseOf(r) = "token" THEN TotalMemory(r) ELSE 0
  BY DEF GivenBack
<1>3. TotalMemory(r) \in Int /\ PromptMemory(r) \in Int
  BY TotalsAre
<1>4. CASE EndsNothing(State, a, r) /\ r \notin D
  <2>1. PhaseOf(r)' = PhaseOf(r) /\ back = 0
    BY <1>1, <1>2, <1>4 DEF EndsNothing
  <2>2. ReservedOn(i)'[r] = ReservedOn(i)[r] /\ ReservedOn(i)[r] \in Int
    BY <2>1, ReservationIs, ReservationIsAfter
  <2> HIDE DEF back
  <2> QED
    BY <2>1, <2>2
<1>5. CASE EndsPrompt(State, a, r, j, promptOn, tokenOn)
  <2>1. /\ PhaseOf(r) = "prompt" /\ back = 0
        /\ PhaseOf(r)' = IF promptOn[r] = tokenOn[r] THEN "token" ELSE "flow"
    BY <1>1, <1>2, <1>5 DEF EndsPrompt
  <2>2. ReservedOn(i)[r] = IF tokenOn[r] = i THEN TotalMemory(r)
                           ELSE IF promptOn[r] = i THEN PromptMemory(r) ELSE 0
    BY <2>1, ReservationIs
  <2>3. ReservedOn(i)'[r] = IF tokenOn[r] = i THEN TotalMemory(r)
                            ELSE IF promptOn[r] = i THEN PromptMemory(r) ELSE 0
    BY <2>1, ReservationIsAfter
  <2> HIDE DEF back
  <2> QED
    BY <1>3, <2>1, <2>2, <2>3
<1>6. CASE EndsToken(State, a, r, j, tokenOn)
  <2>1. /\ PhaseOf(r) = "token" /\ tokenOn[r] = j /\ PhaseOf(r)' = "done"
        /\ back = IF i = j THEN TotalMemory(r) ELSE 0
    BY <1>1, <1>2, <1>6 DEF EndsToken, EndedAt
  <2>2. ReservedOn(i)[r] = IF tokenOn[r] = i THEN TotalMemory(r) ELSE 0
    BY <2>1, ReservationIs
  <2>3. ReservedOn(i)'[r] = 0
    BY <2>1, ReservationIsAfter
  <2> HIDE DEF back
  <2> QED
    BY <1>3, <2>1, <2>2, <2>3
<1> HIDE DEF back
<1> QED
  BY <1>4, <1>5, <1>6 DEF EndedAt

(* The run of an instance is over.                                         *)
LEMMA CompletionBooks ==
  ASSUME MixedInv, MemoryBooked, Punctual, NEW j \in Instances, MixedCompletion(j)
  PROVE  MemoryBooked'
<1>1. /\ trace \in [Requests -> Shapes] /\ ClusterInv /\ PoolType /\ AccountType
      /\ IterationCompletion(j) /\ UNCHANGED <<trace, promptOn, tokenOn>>
  BY DEF MixedInv, PathInv, ClusterInv, MixedCompletion, IterationCompletion
<1>2. PICK a \in StateType :
        Becomes(a) /\ \A r \in Requests : EndsNothing(State, a, r) \/ r \in EndedAt(a, j)
  BY <1>1, CompletionEnds
<1> DEFINE D == EndedAt(a, j)
           freed == SumFunction([r \in D |-> Pool!MemoryFreedBy(r)])
<1>3. schedMemory' = [schedMemory EXCEPT ![j] = @ - freed] /\ freed \in Int
  <2>1. NewlyCompleted = {TaskOf[r] : r \in D}
    BY <1>2, CompletedAreEnded
  <2>2. /\ SumFunction([t \in NewlyCompleted |-> IF IsPrompt(t) THEN 0 ELSE memory[t.req]])
             = freed
        /\ freed \in Int
    BY <1>1, <1>2, <2>1, MemoryReturned
  <2> HIDE DEF freed
  <2> QED
    BY <2>2 DEF MixedCompletion, ReturnLoad
<1>4. \A r \in D : r \in Requests /\ PhaseOf(r) \in {"prompt", "token"}
  <2>1. \A r \in Requests : PhaseOf(r) = PhaseIn(State, r)
    BY <1>2, PhasesAre
  <2> QED
    BY <2>1 DEF EndedAt, EndsPrompt, EndsToken
<1>5. freed = SumFunctionOnSet(GivenBack(j, j, D), Requests)
  <2> DEFINE p == [r \in D |-> Pool!MemoryFreedBy(r)]
             all == [r \in Requests |-> IF r \in DOMAIN p THEN p[r] ELSE 0]
  <2>1. \A r \in D : p[r] = IF PhaseOf(r) = "prompt" THEN 0 ELSE TotalMemory(r)
    BY <1>1, <1>4, TotalsAre DEF Pool!MemoryFreedBy
  <2>2. D \subseteq Requests /\ DOMAIN p = D
    BY <1>4
  <2> HIDE DEF D
  <2>3. \A r \in D : p[r] \in Int
    BY <1>1, <2>1, <2>2, TotalsAre
  <2>4. all = GivenBack(j, j, D)
    BY <1>4, <2>1, <2>2 DEF GivenBack
  <2> HIDE DEF p
  <2>5. SumFunction(p) = SumFunctionOnSet(all, Requests)
    BY <2>2, <2>3, TraceAssumption, SumExtend
  <2> HIDE DEF all
  <2> QED
    BY <2>4, <2>5 DEF p
<1>6. ASSUME NEW i \in Instances
      PROVE  Booked(i)'
  <2> DEFINE f == ReservedOn(i)
             g == ReservedOn(i)'
             h == GivenBack(j, i, D)
  <2>1. \A r \in Requests : f[r] = g[r] + h[r]
    BY <1>1, <1>2, EndedReserve
  <2>2. \A r \in Requests : g[r] \in Int /\ h[r] \in Int
    <3>1. \A r \in Requests : g[r] \in Int
      BY <1>1, ReservationIsAfter
    <3>2. \A r \in Requests : h[r] \in Int
      BY <1>1, TotalsAre DEF GivenBack
    <3> QED
      BY <3>1, <3>2
  <2>3. schedMemory[i] = ModelSize + SumFunctionOnSet(f, Requests)
    BY DEF MemoryBooked, Booked
  <2>4. i = j => SumFunctionOnSet(h, Requests) = freed
    BY <1>5
  <2>5. i # j => \A r \in Requests : h[r] = 0
    BY DEF GivenBack
  <2>6. schedMemory'[i] = schedMemory[i] - (IF i = j THEN freed ELSE 0) /\ schedMemory[i] \in Int
    <3> HIDE DEF freed
    <3> QED
      BY <1>1, <1>3 DEF AccountType
  <2> HIDE DEF f, g, h, freed, D
  <2>7. i # j => SumFunctionOnSet(h, Requests) = 0
    BY <2>5, TraceAssumption, SumZero
  <2>8. SumFunctionOnSet(f, Requests) = SumFunctionOnSet(g, Requests) + SumFunctionOnSet(h, Requests)
    BY <2>1, <2>2, TraceAssumption, SumPlus
  <2>9. SumFunctionOnSet(g, Requests) \in Int /\ SumFunctionOnSet(h, Requests) \in Int
    BY <2>2, TraceAssumption, SumType
  <2>10. schedMemory'[i] = ModelSize + SumFunctionOnSet(g, Requests)
    BY <2>3, <2>4, <2>6, <2>7, <2>8, <2>9, InstanceAssumption
  <2> QED
    BY <2>10 DEF Booked, g
<1> QED
  BY <1>6 DEF MemoryBooked

(* What a request holds at i it has reserved there.                        *)
LEMMA HeldIsReserved ==
  ASSUME trace \in [Requests -> Shapes], NEW r \in Requests, NEW i \in Instances,
         Stage(State, r, promptOn, tokenOn), Held(State, r, promptOn, tokenOn)
  PROVE  alloc[i][r] \in Nat /\ alloc[i][r] <= ReservedOn(i)[r]
<1> DEFINE s == State
           P == promptOn
           D == tokenOn
           m == MemoryNow(s, r)
<1>1. /\ alloc[i][r] = IF Holds(s, r, P, D, i) THEN m ELSE 0
      /\ PhaseOf(r) = PhaseIn(s, r)
  BY DEF Held, PhaseOf, PhaseIn, State
<1>2. /\ m \in Nat /\ m <= TotalMemory(r)
      /\ s.node[Token(r)] = "NONE" => m <= PromptMemory(r)
      /\ m # 0 => s.node[Prompt(r)] \notin {"NONE", "QUEUED"} /\ s.node[Token(r)] # "COMPLETED"
  BY TotalsAre DEF MemoryNow
<1>3. /\ D[r] = i /\ PhaseIn(s, r) # "done" => ReservedOn(i)[r] = TotalMemory(r)
      /\ D[r] # i /\ P[r] = i /\ PhaseIn(s, r) \in {"prompt", "flow"} =>
           ReservedOn(i)[r] = PromptMemory(r)
      /\ ReservedOn(i)[r] \in Nat
  BY <1>1, ReservationIs
<1>4. CASE ~ Holds(s, r, P, D, i) \/ m = 0
  BY <1>1, <1>3, <1>4
<1>5. CASE m # 0 /\ D[r] = i
  <2>1. PhaseIn(s, r) # "done"
    BY <1>2, <1>5 DEF PhaseIn
  <2> HIDE DEF m, s
  <2> QED
    BY <1>1, <1>2, <1>3, <1>5, <2>1
<1>6. CASE m # 0 /\ D[r] # i /\ Holds(s, r, P, D, i)
  <2>1. P[r] = i /\ s.node[Flow(r)] # "COMPLETED"
    BY <1>6 DEF Holds
  <2>2. s.node[Token(r)] = "NONE"
    BY <1>6, <2>1 DEF Stage
  <2>3. PhaseIn(s, r) \in {"prompt", "flow"}
    BY <1>2, <1>6, <2>2 DEF PhaseIn
  <2> HIDE DEF m, s
  <2> QED
    BY <1>1, <1>2, <1>3, <1>6, <2>1, <2>2, <2>3
<1> QED
  BY <1>4, <1>5, <1>6

(* So an account that is exact covers the memory in use.                   *)
LEMMA BookedCovers ==
  ASSUME MixedInv, MemoryBooked
  PROVE  ReservedCoversUsed
<1>1. /\ trace \in [Requests -> Shapes] /\ State \in StateType
      /\ \A r \in Requests :
           Stage(State, r, promptOn, tokenOn) /\ Held(State, r, promptOn, tokenOn)
  BY DEF MixedInv, PathInv, AllHeld, ClusterInv, Regular, Good
<1>2. ASSUME NEW i \in Instances
      PROVE  UsedMemory(State, i) <= schedMemory[i]
  <2> DEFINE f == ReservedOn(i)
             g == alloc[i]
             h == [r \in Requests |-> f[r] - g[r]]
  <2>1. \A r \in Requests : g[r] \in Nat /\ f[r] \in Nat /\ g[r] <= f[r]
    BY <1>1, HeldIsReserved, ReservationIs
  <2>2. DOMAIN g = Requests /\ State.alloc[i] = g
    BY <1>1 DEF StateType, State
  <2>3. UsedMemory(State, i) = ModelSize + SumFunctionOnSet(g, Requests)
    BY <2>2 DEF UsedMemory, FoldFunction, SumFunctionOnSet
  <2>4. schedMemory[i] = ModelSize + SumFunctionOnSet(f, Requests)
    BY DEF MemoryBooked, Booked
  <2> HIDE DEF f, g
  <2>5. \A r \in Requests : h[r] \in Nat /\ f[r] = g[r] + h[r]
    BY <2>1
  <2> HIDE DEF h
  <2>6. SumFunctionOnSet(f, Requests) = SumFunctionOnSet(g, Requests) + SumFunctionOnSet(h, Requests)
    BY <2>1, <2>5, TraceAssumption, SumPlus
  <2>7. SumFunctionOnSet(h, Requests) \in Nat
    BY <2>5, TraceAssumption, SumType
  <2>8. SumFunctionOnSet(g, Requests) \in Int
    BY <2>1, TraceAssumption, SumType
  <2> QED
    BY <2>3, <2>4, <2>6, <2>7, <2>8, InstanceAssumption
<1> QED
  BY <1>2 DEF ReservedCoversUsed

(* The accounts of the scheduler are exact through every step.             *)
LEMMA MixedBooks ==
  ASSUME MixedInv, MemoryBooked, Punctual, [MixedNext]_mvars
  PROVE  MemoryBooked'
<1>1. trace \in [Requests -> Shapes]
  BY DEF MixedInv, PathInv, ClusterInv
<1>2. CASE \E r \in Requests : MixedArrival(r) \/ MixedFlowCompletion(r)
  BY <1>2, ArrivalBooks, FlowBooks
<1>3. CASE \E i \in Instances : MixedCompletion(i)
  BY <1>3, CompletionBooks
<1>4. CASE \E r \in Requests : RetryFlow(r) /\ UNCHANGED poolVars
  BY <1>1, <1>4, RetryIsQuiet, UnseenBooks
<1>5. CASE \E i \in Instances : IterationOver(i) /\ UNCHANGED poolVars
  <2>1. UNCHANGED <<trace, node, promptOn, tokenOn>> /\ UNCHANGED poolVars
    BY <1>5 DEF IterationOver
  <2> QED
    BY <1>1, <2>1, UnseenStep, UnseenBooks
<1>6. CASE UNCHANGED mvars \/ (Finished /\ UNCHANGED poolVars)
  <2>1. UNCHANGED <<trace, node, promptOn, tokenOn>> /\ UNCHANGED poolVars
    BY <1>6 DEF mvars, cvars, Finished
  <2> QED
    BY <1>1, <2>1, UnseenStep, UnseenBooks
<1> QED
  BY <1>2, <1>3, <1>4, <1>5, <1>6 DEF MixedNext

(* Initially nothing is reserved.                                          *)
LEMMA MixedInitBooks ==
  ASSUME MixedInit
  PROVE  MemoryBooked
<1>1. trace \in [Requests -> Shapes] /\ schedMemory = [i \in Instances |-> ModelSize]
  BY DEF MixedInit, ClusterInit
<1>2. \A r \in Requests : tokenOn[r] = NoInstance /\ promptOn[r] = NoInstance
  BY DEF MixedInit, ClusterInit
<1>3. ASSUME NEW i \in Instances
      PROVE  Booked(i)
  <2> DEFINE f == ReservedOn(i)
  <2>1. \A r \in Requests : f[r] = 0
    BY <1>1, <1>2, PlacementAssumption, ReservationIs
  <2> HIDE DEF f
  <2>2. SumFunctionOnSet(f, Requests) = 0
    BY <2>1, TraceAssumption, SumZero
  <2> QED
    BY <1>1, <2>2, InstanceAssumption DEF Booked, f
<1> QED
  BY <1>3 DEF MemoryBooked

(* What MixedPoolScheduler has reserved on an instance covers what is in   *)
(* use there, through prompts, transfers, preemptions and answers.         *)
THEOREM ReservationsSuffice ==
  (~ LateEvents /\ \A x \in Shapes : x.token >= 2) => (MixedSpec => []ReservedCoversUsed)
<1> SUFFICES ASSUME ~ LateEvents /\ \A x \in Shapes : x.token >= 2
             PROVE  MixedSpec => []ReservedCoversUsed
  OBVIOUS
<1>1. Punctual
  BY DEF Punctual
<1>2. MixedInit => MixedInv /\ MemoryBooked
  BY MixedStarts, MixedInitBooks
<1>3. MixedInv /\ MemoryBooked /\ [MixedNext]_mvars => MixedInv' /\ MemoryBooked'
  BY <1>1, MixedStep, MixedBooks DEF MixedGoesOn
<1>4. MixedInv /\ MemoryBooked => ReservedCoversUsed
  BY BookedCovers
<1> QED
  BY <1>2, <1>3, <1>4, PTL DEF MixedSpec

AllPairs == Placements = Instances \X Instances

(* A request that the mixed-pool scheduler places arrives at two           *)
(* instances, like any other of the cluster.                               *)
LEMMA ArrivalIsArrival ==
  ASSUME PoolType, Placed(promptOn, tokenOn), NEW r \in Requests, MixedArrival(r)
  PROVE  PoolType' /\ \E p \in Instances, x \in Instances : RequestArrival(r, p, x)
<1>1. PICK W : Pool!Place(r, W)
  BY DEF MixedArrival
<1>2. PICK p \in Instances, x \in Instances : Pool!Reserve(r, p, x)
  BY <1>1, PlaceReserves
<1>3. promptOn' = [promptOn EXCEPT ![r] = p] /\ tokenOn' = [tokenOn EXCEPT ![r] = x]
  BY <1>2 DEF Pool!Reserve
<1>4. promptOn'[r] = p /\ tokenOn'[r] = x
  BY <1>3 DEF Placed, Placing
<1>5. RequestArrival(r, p, x)
  BY <1>3, <1>4 DEF MixedArrival, RequestArrival
<1> QED
  BY <1>1, <1>5, PlaceReserves

(* Every step of the mixed cluster is a step of the cluster.               *)
LEMMA MixedStepIsStep ==
  ASSUME AllPairs, ClusterInv, PoolType, [MixedNext]_mvars
  PROVE  [ClusterNext]_cvars /\ PoolType'
<1>1. ASSUME UNCHANGED poolVars
      PROVE  PoolType'
  BY <1>1 DEF PoolType, poolVars
<1>2. ASSUME NEW r \in Requests, MixedArrival(r)
      PROVE  ClusterNext /\ PoolType'
  <2>1. Placed(promptOn, tokenOn)
    BY DEF ClusterInv
  <2>2. PICK p \in Instances, x \in Instances : RequestArrival(r, p, x)
    BY <1>2, <2>1, ArrivalIsArrival
  <2>3. <<p, x>> \in Placements /\ <<p, x>>[1] = p /\ <<p, x>>[2] = x
    BY DEF AllPairs
  <2>4. ClusterNext
    <3>1. \E d \in Placements : RequestArrival(r, d[1], d[2])
      BY <2>2, <2>3
    <3> QED
      BY <3>1 DEF ClusterNext
  <2> QED
    BY <1>2, <2>1, <2>4, ArrivalIsArrival
<1>3. ASSUME NEW i \in Instances, MixedCompletion(i)
      PROVE  ClusterNext /\ PoolType'
  <2>1. ClusterNext
    BY <1>3 DEF MixedCompletion, ClusterNext
  <2>2. PoolType'
    BY <1>3 DEF MixedCompletion, PoolType, Pool!NotifyFree
  <2> QED
    BY <2>1, <2>2
<1>4. ASSUME NEW r \in Requests, MixedFlowCompletion(r)
      PROVE  ClusterNext /\ PoolType'
  BY <1>4 DEF MixedFlowCompletion, ClusterNext, PoolType
<1>5. ASSUME NEW r \in Requests, RetryFlow(r)
      PROVE  ClusterNext
  BY <1>5 DEF ClusterNext
<1>6. ASSUME NEW i \in Instances, IterationOver(i)
      PROVE  ClusterNext
  BY <1>6 DEF ClusterNext
<1>7. CASE UNCHANGED mvars
  BY <1>1, <1>7 DEF mvars
<1>8. CASE MixedNext
  BY <1>1, <1>2, <1>3, <1>4, <1>5, <1>6, <1>8 DEF MixedNext, ClusterNext
<1> QED
  BY <1>7, <1>8

(* The cluster whose requests the mixed-pool scheduler places is a         *)
(* cluster: what is proved of all placements holds for those that the      *)
(* accounts of the scheduler make.                                         *)
THEOREM MixedPoolRunsACluster == AllPairs => (MixedSpec => ClusterSpec)
<1> SUFFICES ASSUME AllPairs
             PROVE  MixedSpec => ClusterSpec
  OBVIOUS
<1>1. MixedInit => ClusterInit /\ ClusterInv /\ PoolType
  BY InitInv, InstancesAssumption DEF MixedInit, PoolType
<1>2. ClusterInv /\ PoolType /\ [MixedNext]_mvars
        => [ClusterNext]_cvars /\ ClusterInv' /\ PoolType'
  <2> SUFFICES ASSUME ClusterInv, PoolType, [MixedNext]_mvars
               PROVE  [ClusterNext]_cvars /\ ClusterInv' /\ PoolType'
    OBVIOUS
  <2>1. [ClusterNext]_cvars /\ PoolType'
    BY MixedStepIsStep
  <2> QED
    BY <2>1, NextInv, StutterInv
<1> QED
  BY <1>1, <1>2, PTL DEF MixedSpec, ClusterSpec

(* MemoryFits, of the mixed cluster: the sizes that the scheduler looks at *)
(* do not lead an instance over its memory.                                *)
THEOREM MixedPoolFits ==
  AllPairs /\ ModelSize <= MaxMemory => (MixedSpec => []MemoryFits)
<1> SUFFICES ASSUME AllPairs, ModelSize <= MaxMemory
             PROVE  MixedSpec => []MemoryFits
  OBVIOUS
<1>1. MixedSpec => ClusterSpec
  BY MixedPoolRunsACluster
<1>2. ClusterSpec => []MemoryFits
  BY MemorySuffices
<1> QED
  BY <1>1, <1>2

(* IdleIsShort, of the mixed cluster: wherever the scheduler puts tasks    *)
(* and caches, the instance that idles has no room for something that      *)
(* waits there.                                                            *)
THEOREM MixedPoolLosesNoWakeUp == AllPairs => (MixedSpec => []IdleIsShort)
<1> SUFFICES ASSUME AllPairs
             PROVE  MixedSpec => []IdleIsShort
  OBVIOUS
<1>1. MixedSpec => ClusterSpec
  BY MixedPoolRunsACluster
<1>2. ClusterSpec => []IdleIsShort
  BY IdleOnlyWhenShort
<1> QED
  BY <1>1, <1>2
=============================================================================
