-------------------------- MODULE Schedulers_proofs --------------------------
(***************************************************************************)
(* What the fixed-role schedulers promise of the placement of requests,    *)
(* for every number of instances and requests and every order in which     *)
(* tasks complete in between.                                              *)
(***************************************************************************)
EXTENDS Schedulers, FoldLaws

Phases == {"new", "prompt", "flow", "token", "done"}

(* A round of a round-robin list is under way: the first index instances   *)
(* have had their turn of it.                                              *)
RoundUnderWay(on, list, index) ==
  /\ index \in 0 .. Len(list) - 1
  /\ \E rounds \in Nat : \A k \in 1 .. Len(list) :
       Placed(on, list[k]) = IF k <= index THEN rounds + 1 ELSE rounds

SchedTypeOK ==
  /\ trace \in [Requests -> Shapes]
  /\ policy \in Policies
  /\ schedTokens \in [Instances -> Int]
  /\ promptOn \in [Requests -> Instances \cup {NoInstance}]
  /\ tokenOn \in [Requests -> Instances \cup {NoInstance}]
  /\ phase \in [Requests -> Phases]

PlacedInv ==
  /\ \A r \in Requests :
       phase[r] = "new" => promptOn[r] = NoInstance /\ tokenOn[r] = NoInstance
  /\ policy = "TokenJSQ" => /\ promptOn = tokenOn
                            /\ \A r \in Requests : phase[r] # "flow"

RoundsInv ==
  /\ policy = "RoundRobin" => RoundUnderWay(promptOn, AllInstances, promptIndex)
  /\ policy = "KVRoundRobin" =>
       /\ RoundUnderWay(promptOn, PromptInstances, promptIndex)
       /\ RoundUnderWay(tokenOn, TokenInstances, tokenIndex)

TokensOn(i) == [r \in Requests |-> TokensAt(i, r)]

(* TokenJSQ alone counts what it places.                                   *)
TokensInv ==
  policy = "TokenJSQ" =>
    \A i \in Instances : schedTokens[i] = SumFunctionOnSet(TokensOn(i), Requests)

SchedInv == SchedTypeOK /\ PlacedInv /\ RoundsInv /\ TokensInv
-----------------------------------------------------------------------------
(* The three lists of instances.                                           *)
LEMMA ListsOfInstances ==
  ASSUME NEW list \in {AllInstances, PromptInstances, TokenInstances}
  PROVE  /\ list \in Seq(Instances) /\ Len(list) \in Nat \ {0}
         /\ \A j, k \in 1 .. Len(list) : list[j] = list[k] => j = k
         /\ ToSet(list) = {list[k] : k \in 1 .. Len(list)}
         /\ ToSet(list) \subseteq Instances
<1>1. /\ AllInstances \in Seq(Instances)
      /\ PromptInstances \in Seq(Instances) /\ TokenInstances \in Seq(Instances)
      /\ PromptInstances # <<>> /\ TokenInstances # <<>>
  BY SchedulersAssumption DEF AllInstances
<1>2. list \in Seq(Instances)
  BY <1>1
<1>3. /\ Len(PromptInstances) \in Nat \ {0} /\ Len(TokenInstances) \in Nat \ {0}
      /\ Len(AllInstances) = Len(PromptInstances) + Len(TokenInstances)
  BY <1>1 DEF AllInstances
<1>4. /\ \A k \in 1 .. Len(PromptInstances) : AllInstances[k] = PromptInstances[k]
      /\ \A k \in 1 .. Len(TokenInstances) :
           AllInstances[Len(PromptInstances) + k] = TokenInstances[k]
  BY <1>1 DEF AllInstances
<1>5. \A j, k \in 1 .. Len(AllInstances) : AllInstances[j] = AllInstances[k] => j = k
  BY <1>1, SchedulersAssumption DEF IsInjective
<1>6. \A j, k \in 1 .. Len(PromptInstances) :
        PromptInstances[j] = PromptInstances[k] => j = k
  BY <1>3, <1>4, <1>5
<1>7. \A j, k \in 1 .. Len(TokenInstances) :
        TokenInstances[j] = TokenInstances[k] => j = k
  <2> SUFFICES ASSUME NEW j \in 1 .. Len(TokenInstances),
                      NEW k \in 1 .. Len(TokenInstances),
                      TokenInstances[j] = TokenInstances[k]
               PROVE  j = k
    OBVIOUS
  <2>1. /\ Len(PromptInstances) + j \in 1 .. Len(AllInstances)
        /\ Len(PromptInstances) + k \in 1 .. Len(AllInstances)
    BY <1>3
  <2>2. Len(PromptInstances) + j = Len(PromptInstances) + k
    BY <1>4, <1>5, <2>1
  <2> QED
    BY <1>3, <2>2
<1>8. DOMAIN list = 1 .. Len(list)
  BY <1>2
<1> QED
  BY <1>2, <1>3, <1>5, <1>6, <1>7, <1>8 DEF ToSet

(* The first of the least is there, and is what its name says.             *)
LEMMA FirstLeastIsLeast ==
  ASSUME NEW list \in {AllInstances, PromptInstances, TokenInstances},
         NEW load \in [Instances -> Int]
  PROVE  /\ FirstLeast(list, load) \in ToSet(list)
         /\ \A i \in ToSet(list) : load[FirstLeast(list, load)] <= load[i]
<1> DEFINE n == Len(list)
           Best(k, u) == /\ k \in 1 .. u
                         /\ \A m \in 1 .. u : load[list[k]] <= load[list[m]]
                         /\ \A m \in 1 .. k - 1 : load[list[k]] < load[list[m]]
           G == {u \in Nat : u \in 1 .. n => \E k \in 1 .. n : Best(k, u)}
<1>1. /\ n \in Nat \ {0} /\ DOMAIN list = 1 .. n
      /\ ToSet(list) = {list[k] : k \in 1 .. n}
      /\ \A k \in 1 .. n : load[list[k]] \in Int
  <2>1. /\ list \in Seq(Instances) /\ n \in Nat \ {0}
        /\ ToSet(list) = {list[k] : k \in 1 .. n}
    BY ListsOfInstances
  <2>2. \A k \in 1 .. n : list[k] \in Instances
    BY <2>1
  <2> QED
    BY <2>1, <2>2
<1> HIDE DEF n
<1>2. 0 \in G
  OBVIOUS
<1>3. ASSUME NEW u \in G PROVE u + 1 \in G
  <2> SUFFICES ASSUME u + 1 \in 1 .. n PROVE \E k \in 1 .. n : Best(k, u + 1)
    OBVIOUS
  <2>1. CASE u = 0
    <3>1. Best(1, 1) /\ 1 \in 1 .. n
      BY <1>1
    <3> QED
      BY <2>1, <3>1
  <2>2. CASE u # 0
    <3>1. u \in 1 .. n
      BY <1>1, <2>2
    <3>2. PICK k \in 1 .. n : Best(k, u)
      BY <3>1
    <3>3. \A m \in 1 .. u + 1 : m \in 1 .. u \/ m = u + 1
      OBVIOUS
    <3>4. CASE load[list[u + 1]] < load[list[k]]
      <4> DEFINE new == load[list[u + 1]]
      <4>1. \A m \in 1 .. u : load[list[m]] \in Int /\ m \in 1 .. n
        BY <1>1, <3>1
      <4>2. new \in Int /\ new < load[list[k]] /\ load[list[k]] \in Int
        BY <1>1, <3>4
      <4> HIDE DEF new
      <4>3. \A m \in 1 .. u : new < load[list[m]]
        BY <3>2, <4>1, <4>2
      <4>4. \A m \in 1 .. u + 1 : new <= load[list[m]]
        BY <3>3, <4>1, <4>2, <4>3 DEF new
      <4>5. (u + 1) - 1 = u /\ u + 1 \in 1 .. u + 1
        BY <3>1
      <4>6. Best(u + 1, u + 1)
        BY <4>3, <4>4, <4>5 DEF new
      <4> QED
        BY <4>6
    <3>5. CASE ~ (load[list[u + 1]] < load[list[k]])
      <4>1. Best(k, u + 1)
        BY <1>1, <3>1, <3>2, <3>3, <3>5
      <4> QED
        BY <4>1
    <3> QED
      BY <3>4, <3>5
  <2> QED
    BY <2>1, <2>2
<1> HIDE DEF G
<1>4. n \in G
  <2>1. G \in SUBSET Nat
    BY DEF G
  <2> QED
    BY <1>1, <1>2, <1>3, <2>1, NatSetInduction
<1>5. PICK k \in 1 .. n : Best(k, n)
  BY <1>1, <1>4 DEF G
<1> DEFINE P(x) == /\ \A m \in DOMAIN list : load[list[x]] <= load[list[m]]
                   /\ \A m \in 1 .. x - 1 : load[list[x]] < load[list[m]]
           c == CHOOSE x \in DOMAIN list : P(x)
<1>6. k \in DOMAIN list /\ P(k)
  BY <1>1, <1>5
<1>7. FirstLeast(list, load) = list[c]
  BY DEF FirstLeast
<1> HIDE DEF P, c
<1>8. c \in DOMAIN list /\ P(c)
  BY <1>6 DEF c
<1> QED
  BY <1>1, <1>7, <1>8 DEF P
-----------------------------------------------------------------------------
(* A turn of a round: the instance whose turn it is gets one request more. *)
LEMMA TurnTaken ==
  ASSUME NEW list \in {AllInstances, PromptInstances, TokenInstances},
         NEW index, NEW on \in [Requests -> Instances \cup {NoInstance}],
         RoundUnderWay(on, list, index),
         NEW r \in Requests, on[r] = NoInstance,
         NEW on2, on2 = [on EXCEPT ![r] = list[index + 1]]
  PROVE  /\ list[index + 1] \in ToSet(list)
         /\ RoundUnderWay(on2, list, Follows(index, list))
<1> DEFINE n == Len(list)
           turn == list[index + 1]
<1>1. /\ n \in Nat \ {0} /\ ToSet(list) = {list[k] : k \in 1 .. n}
      /\ \A k \in 1 .. n : list[k] \in Instances
      /\ \A j, k \in 1 .. n : list[j] = list[k] => j = k
  <2>1. list \in Seq(Instances)
    BY ListsOfInstances
  <2> QED
    BY <2>1, ListsOfInstances
<1>2. /\ index \in 0 .. n - 1 /\ index + 1 \in 1 .. n
  BY <1>1 DEF RoundUnderWay
<1>3. PICK rounds \in Nat : \A k \in 1 .. n :
        Placed(on, list[k]) = IF k <= index THEN rounds + 1 ELSE rounds
  BY DEF RoundUnderWay
<1> HIDE DEF n
<1>4. turn \in Instances /\ turn \in ToSet(list) /\ NoInstance \notin Instances
  BY <1>1, <1>2, SchedulersAssumption
<1>5. ASSUME NEW i \in Instances
      PROVE  Placed(on2, i) = IF i = turn THEN Placed(on, i) + 1 ELSE Placed(on, i)
  <2> DEFINE S == {x \in Requests : on[x] = i}
             T == {x \in Requests : on2[x] = i}
  <2>1. IsFiniteSet(S) /\ r \notin S
    BY <1>4, TraceAssumption, FS_Subset
  <2>2. T = IF i = turn THEN S \cup {r} ELSE S
    BY <1>4
  <2> HIDE DEF S, T
  <2>3. Cardinality(S \cup {r}) = Cardinality(S) + 1
    BY <2>1, FS_AddElement
  <2> QED
    BY <2>2, <2>3 DEF Placed, S, T
<1>6. \A k \in 1 .. n :
        Placed(on2, list[k]) = IF k <= index + 1 THEN rounds + 1 ELSE rounds
  <2> SUFFICES ASSUME NEW k \in 1 .. n
               PROVE  Placed(on2, list[k]) =
                        IF k <= index + 1 THEN rounds + 1 ELSE rounds
    OBVIOUS
  <2>1. list[k] = turn <=> k = index + 1
    BY <1>1, <1>2
  <2>2. k <= index + 1 <=> k <= index \/ k = index + 1
    BY <1>1, <1>2
  <2>3. k = index + 1 => ~ (k <= index)
    BY <1>1, <1>2
  <2> QED
    BY <1>1, <1>3, <1>5, <2>1, <2>2, <2>3
<1>7. CASE index + 1 = n
  <2>1. Follows(index, list) = 0
    BY <1>1, <1>7 DEF Follows, n
  <2>2. \A k \in 1 .. n : k <= index + 1 /\ ~ (k <= 0)
    BY <1>1, <1>7
  <2>3. \A k \in 1 .. n : Placed(on2, list[k]) =
                           IF k <= 0 THEN (rounds + 1) + 1 ELSE rounds + 1
    BY <1>6, <2>2, Zenon
  <2>4. rounds + 1 \in Nat /\ 0 \in 0 .. n - 1
    BY <1>1
  <2> QED
    BY <1>4, <2>1, <2>3, <2>4 DEF RoundUnderWay, n
<1>8. CASE index + 1 # n
  <2>1. Follows(index, list) = index + 1 /\ index + 1 \in 0 .. n - 1
    BY <1>1, <1>2, <1>8, SMTT(30) DEF Follows, n
  <2> QED
    BY <1>4, <1>6, <2>1 DEF RoundUnderWay, n
<1> QED
  BY <1>7, <1>8

(* The lengths of the queues are numbers that can be compared.             *)
LEMMA QueuesAreFinite ==
  [i \in Instances |-> Cardinality(Pool(i))] \in [Instances -> Int]
<1>1. ASSUME NEW i \in Instances PROVE Cardinality(Pool(i)) \in Int
  <2>1. Pool(i) \subseteq Requests
    BY DEF Pool
  <2> QED
    BY <2>1, TraceAssumption, FS_Subset, FS_CardinalityType
<1> QED
  BY <1>1

(* Every policy places both tasks on instances.                            *)
LEMMA PlacementsAreInstances ==
  ASSUME SchedTypeOK, RoundsInv, NEW d \in Placements
  PROVE  /\ d[1] \in Instances /\ d[2] \in Instances
         /\ policy \in Chained => d[1] = d[2]
         /\ policy = "TokenJSQ" => d[1] = FewestTokens(AllInstances)
         /\ policy = "RoundRobin" => d[1] = AllInstances[promptIndex + 1]
         /\ policy = "KVRoundRobin" => /\ d[1] = PromptInstances[promptIndex + 1]
                                       /\ d[2] = TokenInstances[tokenIndex + 1]
<1>1. \A list \in {AllInstances, PromptInstances, TokenInstances} :
        ToSet(list) \subseteq Instances
  BY ListsOfInstances
<1>2. \A list \in {AllInstances, PromptInstances, TokenInstances} :
        ShortestQueue(list) \in Instances /\ FewestTokens(list) \in Instances
  BY <1>1, FirstLeastIsLeast, QueuesAreFinite
  DEF SchedTypeOK, ShortestQueue, FewestTokens
<1>3. \A list \in {AllInstances, PromptInstances, TokenInstances} :
        \A on, index : RoundUnderWay(on, list, index) => list[index + 1] \in Instances
  <2> SUFFICES ASSUME NEW list \in {AllInstances, PromptInstances, TokenInstances},
                      NEW on, NEW index, RoundUnderWay(on, list, index)
               PROVE  list[index + 1] \in Instances
    OBVIOUS
  <2>1. list \in Seq(Instances) /\ Len(list) \in Nat
    BY ListsOfInstances
  <2>2. index + 1 \in 1 .. Len(list)
    BY <2>1 DEF RoundUnderWay
  <2> QED
    BY <2>1, <2>2
<1>4. policy \in Chained \cup Shipping
  BY SchedulersAssumption DEF SchedTypeOK
<1>5. CASE policy = "Random"
  BY <1>5 DEF Placements, Both, Chained
<1>6. CASE policy = "RoundRobin"
  BY <1>3, <1>6 DEF Placements, Both, Chained, RoundsInv
<1>7. CASE policy = "JSQ"
  BY <1>2, <1>7 DEF Placements, Both, Chained
<1>8. CASE policy = "TokenJSQ"
  BY <1>2, <1>8 DEF Placements, Both, Chained
<1>9. CASE policy = "KVRoundRobin"
  BY <1>3, <1>9 DEF Placements, Chained, RoundsInv
<1>10. CASE policy = "KVJSQ"
  BY <1>2, <1>10 DEF Placements, Chained
<1>11. CASE policy = "KVTokenJSQ"
  BY <1>2, <1>11 DEF Placements, Chained
<1> QED
  BY <1>4, <1>5, <1>6, <1>7, <1>8, <1>9, <1>10, <1>11 DEF Chained, Shipping
-----------------------------------------------------------------------------
(* What is pending of a request is a number of tokens.                     *)
LEMMA TokensAreNatural ==
  ASSUME SchedTypeOK
  PROVE  /\ \A r \in Requests : trace[r].prompt \in Nat \ {0}
         /\ \A i : \A r \in Requests : /\ TokensAt(i, r) \in Nat
                                       /\ TokensOn(i)[r] = TokensAt(i, r)
<1>1. \A r \in Requests : trace[r].prompt \in Nat \ {0}
  BY ShapesAssumption DEF SchedTypeOK
<1> QED
  BY <1>1 DEF TokensOn, TokensAt

(* Where nothing is placed the rounds stay as they are.                    *)
LEMMA RoundsKept ==
  ASSUME RoundsInv, policy' = policy,
         promptIndex' = promptIndex, tokenIndex' = tokenIndex,
         promptOn' = promptOn, tokenOn' = tokenOn
  PROVE  RoundsInv'
<1>1. /\ policy = "RoundRobin" => RoundUnderWay(promptOn', AllInstances, promptIndex')
      /\ policy = "KVRoundRobin" =>
           /\ RoundUnderWay(promptOn', PromptInstances, promptIndex')
           /\ RoundUnderWay(tokenOn', TokenInstances, tokenIndex')
  BY DEF RoundsInv
<1> QED
  BY <1>1 DEF RoundsInv, RoundUnderWay, Placed

(* schedule() places one request and counts it where it is placed.         *)
LEMMA ScheduleKeeps ==
  ASSUME SchedInv, NEW r \in Requests, Schedule(r)
  PROVE  SchedInv'
<1>1. PICK d \in Placements :
        /\ promptOn' = [promptOn EXCEPT ![r] = d[1]]
        /\ tokenOn' = [tokenOn EXCEPT ![r] = d[2]]
        /\ schedTokens' = [schedTokens EXCEPT ![d[1]] = @ + Counted(r)]
  BY DEF Schedule
<1>2. /\ phase[r] = "new" /\ Advance
      /\ phase' = [phase EXCEPT ![r] = "prompt"]
      /\ trace' = trace /\ policy' = policy
  BY DEF Schedule
<1>3. /\ d[1] \in Instances /\ d[2] \in Instances
      /\ policy \in Chained => d[1] = d[2]
      /\ policy = "RoundRobin" => d[1] = AllInstances[promptIndex + 1]
      /\ policy = "KVRoundRobin" => /\ d[1] = PromptInstances[promptIndex + 1]
                                    /\ d[2] = TokenInstances[tokenIndex + 1]
  BY PlacementsAreInstances DEF SchedInv
<1>4. promptOn[r] = NoInstance /\ tokenOn[r] = NoInstance
  BY <1>2 DEF SchedInv, PlacedInv
<1>5. trace[r].prompt \in Nat /\ Counted(r) \in Int
  BY TokensAreNatural DEF SchedInv, Counted
<1>6. SchedTypeOK'
  BY <1>1, <1>2, <1>3, <1>5 DEF SchedInv, SchedTypeOK, Phases
<1>7. PlacedInv'
  BY <1>1, <1>2, <1>3 DEF SchedInv, SchedTypeOK, PlacedInv, Chained
<1>8. RoundsInv'
  <2>1. /\ promptOn \in [Requests -> Instances \cup {NoInstance}]
        /\ tokenOn \in [Requests -> Instances \cup {NoInstance}]
    BY DEF SchedInv, SchedTypeOK
  <2>2. ASSUME policy = "RoundRobin"
        PROVE  RoundUnderWay(promptOn', AllInstances, promptIndex')
    <3>1. promptIndex' = Follows(promptIndex, AllInstances)
      BY <1>2, <2>2 DEF Advance
    <3>2. RoundUnderWay(promptOn, AllInstances, promptIndex)
      BY <2>2 DEF SchedInv, RoundsInv
    <3> QED
      BY <1>1, <1>3, <1>4, <2>1, <2>2, <3>1, <3>2, TurnTaken
  <2>3. ASSUME policy = "KVRoundRobin"
        PROVE  /\ RoundUnderWay(promptOn', PromptInstances, promptIndex')
               /\ RoundUnderWay(tokenOn', TokenInstances, tokenIndex')
    <3>1. /\ promptIndex' = Follows(promptIndex, PromptInstances)
          /\ tokenIndex' = Follows(tokenIndex, TokenInstances)
      BY <1>2, <2>3 DEF Advance
    <3>2. /\ RoundUnderWay(promptOn, PromptInstances, promptIndex)
          /\ RoundUnderWay(tokenOn, TokenInstances, tokenIndex)
      BY <2>3 DEF SchedInv, RoundsInv
    <3> QED
      BY <1>1, <1>3, <1>4, <2>1, <2>3, <3>1, <3>2, TurnTaken
  <2> QED
    BY <1>2, <2>2, <2>3 DEF RoundsInv, RoundUnderWay, Placed
<1>9. TokensInv'
  <2> SUFFICES ASSUME policy = "TokenJSQ", NEW i \in Instances
               PROVE  schedTokens'[i] = SumFunctionOnSet(TokensOn(i)', Requests)
    BY <1>2 DEF TokensInv
  <2> DEFINE f == TokensOn(i)
             g == TokensOn(i)'
             a == SumFunctionOnSet(f, Requests)
  <2>1. schedTokens[i] = a
    BY DEF SchedInv, TokensInv
  <2>2. /\ \A x \in Requests : f[x] \in Int
        /\ \A x \in Requests : g[x] \in Int
    <3>1. \A x \in Requests : TokensOn(i)[x] \in Int
      BY TokensAreNatural DEF SchedInv
    <3>2. \A x \in Requests : TokensAt(i, x)' \in Int
      <4>1. \A x \in Requests : trace'[x].prompt \in Int
        BY <1>2, TokensAreNatural DEF SchedInv
      <4> QED
        BY <4>1 DEF TokensAt
    <3> QED
      BY <3>1, <3>2 DEF TokensOn
  <2>3. \A x \in Requests \ {r} : f[x] = g[x]
    BY <1>1, <1>2 DEF SchedInv, SchedTypeOK, TokensOn, TokensAt
  <2>4. f[r] = 0
    BY <1>2, <1>4, SchedulersAssumption DEF TokensOn, TokensAt
  <2>5. g[r] = IF i = d[1] THEN Counted(r) ELSE 0
    <3>1. /\ promptOn'[r] = d[1] /\ tokenOn'[r] = d[1]
          /\ phase'[r] = "prompt" /\ trace' = trace
      BY <1>1, <1>2, <1>3 DEF SchedInv, SchedTypeOK, Chained
    <3>2. Counted(r) = trace[r].prompt + 1
      BY DEF Counted
    <3> QED
      BY <1>5, <3>1, <3>2 DEF TokensOn, TokensAt
  <2> HIDE DEF f, g
  <2>6. SumFunctionOnSet(g, Requests) = a + (g[r] - f[r])
    BY <2>2, <2>3, SumChange, TraceAssumption
  <2>7. a \in Int
    BY <2>2, SumType, TraceAssumption
  <2>8. schedTokens'[i] = IF i = d[1] THEN schedTokens[i] + Counted(r)
                          ELSE schedTokens[i]
    BY <1>1 DEF SchedInv, SchedTypeOK
  <2> HIDE DEF a
  <2> QED
    BY <1>5, <2>1, <2>4, <2>5, <2>6, <2>7, <2>8 DEF g
<1> QED
  BY <1>6, <1>7, <1>8, <1>9 DEF SchedInv

(* An iteration takes off what was counted for the tasks it completes.     *)
LEMMA CompleteIterationKeeps ==
  ASSUME SchedInv, NEW j \in Instances, NEW D \in SUBSET Requests,
         CompleteIteration(j, D)
  PROVE  SchedInv'
<1> DEFINE tokens == [r \in D |-> TokensOf(r)]
           tokensAll == [r \in Requests |-> IF r \in D THEN TokensOf(r) ELSE 0]
<1>1. /\ D \subseteq Pool(j)
      /\ schedTokens' = [schedTokens EXCEPT ![j] = @ - SumFunction(tokens)]
      /\ phase' = [r \in Requests |->
           IF r \notin D THEN phase[r]
           ELSE IF phase[r] = "token" THEN "done"
           ELSE IF promptOn[r] = tokenOn[r] THEN "token" ELSE "flow"]
      /\ trace' = trace /\ policy' = policy
      /\ promptIndex' = promptIndex /\ tokenIndex' = tokenIndex
      /\ promptOn' = promptOn /\ tokenOn' = tokenOn
  BY DEF CompleteIteration
<1>2. \A r \in D : \/ promptOn[r] = j /\ phase[r] = "prompt"
                   \/ tokenOn[r] = j /\ phase[r] = "token"
  BY <1>1 DEF Pool
<1>3. /\ \A r \in Requests : TokensOf(r) \in Int
      /\ \A r \in Requests : trace[r].prompt \in Int
  BY TokensAreNatural DEF SchedInv, TokensOf
<1>4. /\ SumFunction(tokens) = SumFunctionOnSet(tokensAll, Requests)
      /\ SumFunction(tokens) \in Int
  <2>1. DOMAIN tokens \subseteq Requests
    OBVIOUS
  <2>2. SumFunction(tokens) =
          SumFunctionOnSet([r \in Requests |-> IF r \in DOMAIN tokens THEN tokens[r]
                                               ELSE 0], Requests)
    BY <1>3, <2>1, SumExtend, TraceAssumption
  <2>3. [r \in Requests |-> IF r \in DOMAIN tokens THEN tokens[r] ELSE 0] = tokensAll
    OBVIOUS
  <2>4. \A r \in Requests : tokensAll[r] \in Int
    BY <1>3
  <2>5. SumFunctionOnSet(tokensAll, Requests) \in Int
    BY <2>4, SumType, TraceAssumption
  <2> QED
    BY <2>2, <2>3, <2>5
<1>5. SchedTypeOK'
  BY <1>1, <1>4 DEF SchedInv, SchedTypeOK, Phases
<1>6. PlacedInv'
  BY <1>1, <1>2 DEF SchedInv, SchedTypeOK, PlacedInv
<1>7. RoundsInv'
  BY <1>1, RoundsKept DEF SchedInv
<1>8. TokensInv'
  <2> SUFFICES ASSUME policy = "TokenJSQ", NEW i \in Instances
               PROVE  schedTokens'[i] = SumFunctionOnSet(TokensOn(i)', Requests)
    BY <1>1 DEF TokensInv
  <2> DEFINE f == TokensOn(i)
             g == TokensOn(i)'
             a == SumFunctionOnSet(g, Requests)
  <2>1. /\ schedTokens[i] = SumFunctionOnSet(f, Requests)
        /\ promptOn = tokenOn
    BY DEF SchedInv, TokensInv, PlacedInv
  <2>2. ASSUME NEW r \in Requests
        PROVE  /\ f[r] = g[r] + (IF i = j THEN tokensAll[r] ELSE 0)
               /\ f[r] \in Int /\ g[r] \in Int
    <3>1. CASE r \notin D
      BY <1>1, <1>3, <3>1 DEF TokensOn, TokensAt
    <3>2. CASE r \in D /\ promptOn[r] = j /\ phase[r] = "prompt"
      <4>1. phase'[r] = "token" /\ tokensAll[r] = trace[r].prompt
        BY <1>1, <2>1, <3>2 DEF TokensOf
      <4>2. /\ f[r] = IF i = j THEN trace[r].prompt + 1 ELSE 0
            /\ g[r] = IF i = j THEN 1 ELSE 0
        BY <1>1, <1>3, <2>1, <3>2, <4>1 DEF TokensOn, TokensAt
      <4> QED
        BY <1>3, <4>1, <4>2
    <3>3. CASE r \in D /\ tokenOn[r] = j /\ phase[r] = "token"
      <4>1. phase'[r] = "done" /\ tokensAll[r] = 1
        BY <1>1, <2>1, <3>3 DEF TokensOf
      <4>2. /\ f[r] = IF i = j THEN 1 ELSE 0
            /\ g[r] = 0
        BY <1>1, <1>3, <2>1, <3>3, <4>1 DEF TokensOn, TokensAt
      <4> QED
        BY <4>1, <4>2
    <3> QED
      BY <1>2, <3>1, <3>2, <3>3
  <2>3. \A r \in Requests : tokensAll[r] \in Int
    BY <1>3
  <2> HIDE DEF f, g, tokensAll, tokens
  <2>4. a \in Int
    BY <2>2, SumType, TraceAssumption
  <2>5. CASE i = j
    <3>1. SumFunctionOnSet(f, Requests) = a + SumFunctionOnSet(tokensAll, Requests)
      BY <2>2, <2>3, <2>5, SumPlus, TraceAssumption
    <3> HIDE DEF a
    <3>2. schedTokens'[i] = (a + SumFunction(tokens)) - SumFunction(tokens)
      BY <1>1, <1>4, <2>1, <2>5, <3>1 DEF SchedInv, SchedTypeOK
    <3>3. schedTokens'[i] = a
      BY <1>4, <2>4, <3>2
    <3> QED
      BY <3>3 DEF a, g
  <2>6. CASE i # j
    <3>1. \A r \in Requests : f[r] \in Int /\ f[r] = g[r]
      BY <2>2, <2>6
    <3>2. SumFunctionOnSet(f, Requests) = a
      BY <3>1, SumSame, TraceAssumption
    <3>3. schedTokens'[i] = schedTokens[i]
      BY <1>1, <2>6 DEF SchedInv, SchedTypeOK
    <3> QED
      BY <2>1, <3>2, <3>3 DEF g
  <2> QED
    BY <2>5, <2>6
<1> QED
  BY <1>5, <1>6, <1>7, <1>8 DEF SchedInv

(* A flow is none of TokenJSQ's.                                           *)
LEMMA FlowCompletionKeeps ==
  ASSUME SchedInv, NEW r \in Requests, FlowCompletion(r)
  PROVE  SchedInv'
<1>1. /\ phase[r] = "flow" /\ phase' = [phase EXCEPT ![r] = "token"]
      /\ trace' = trace /\ policy' = policy /\ schedTokens' = schedTokens
      /\ promptIndex' = promptIndex /\ tokenIndex' = tokenIndex
      /\ promptOn' = promptOn /\ tokenOn' = tokenOn
  BY DEF FlowCompletion
<1>2. policy # "TokenJSQ"
  BY <1>1 DEF SchedInv, PlacedInv
<1>3. SchedTypeOK'
  BY <1>1 DEF SchedInv, SchedTypeOK, Phases
<1>4. PlacedInv'
  BY <1>1, <1>2 DEF SchedInv, SchedTypeOK, PlacedInv
<1>5. RoundsInv' /\ TokensInv'
  BY <1>1, <1>2, RoundsKept DEF SchedInv, TokensInv
<1> QED
  BY <1>3, <1>4, <1>5 DEF SchedInv

(* Before the first request no instance has had a turn or counts a token.  *)
LEMMA SchedStarts ==
  ASSUME SchedInit
  PROVE  SchedInv
<1>1. SchedTypeOK /\ PlacedInv
  BY DEF SchedInit, SchedTypeOK, PlacedInv, Phases
<1>2. ASSUME NEW list \in {AllInstances, PromptInstances, TokenInstances}
      PROVE  /\ RoundUnderWay(promptOn, list, 0)
             /\ RoundUnderWay(tokenOn, list, 0)
  <2>1. list \in Seq(Instances) /\ Len(list) \in Nat \ {0}
    BY ListsOfInstances
  <2>2. \A i \in Instances : {r \in Requests : promptOn[r] = i} = {}
                             /\ {r \in Requests : tokenOn[r] = i} = {}
    BY SchedulersAssumption DEF SchedInit
  <2>3. \A k \in 1 .. Len(list) : /\ Placed(promptOn, list[k]) = 0
                                 /\ Placed(tokenOn, list[k]) = 0
    <3>1. \A k \in 1 .. Len(list) : list[k] \in Instances
      BY <2>1
    <3>2. \A i \in Instances : Placed(promptOn, i) = 0 /\ Placed(tokenOn, i) = 0
      BY <2>2, FS_EmptySet DEF Placed
    <3> QED
      BY <3>1, <3>2
  <2>4. \A k \in 1 .. Len(list) : ~ (k <= 0)
    OBVIOUS
  <2> QED
    BY <2>1, <2>3, <2>4 DEF RoundUnderWay
<1>3. RoundsInv
  BY <1>2 DEF RoundsInv, SchedInit
<1>4. TokensInv
  <2> SUFFICES ASSUME NEW i \in Instances
               PROVE  schedTokens[i] = SumFunctionOnSet(TokensOn(i), Requests)
    BY DEF TokensInv
  <2>1. \A r \in Requests : TokensOn(i)[r] = 0
    BY SchedulersAssumption DEF SchedInit, TokensOn, TokensAt
  <2>2. SumFunctionOnSet(TokensOn(i), Requests) = 0
    BY <2>1, SumZero, TraceAssumption
  <2> QED
    BY <2>2 DEF SchedInit
<1> QED
  BY <1>1, <1>3, <1>4 DEF SchedInv

(* Every step preserves the invariant.                                     *)
LEMMA SchedStep ==
  ASSUME SchedInv, [SchedNext]_svars
  PROVE  SchedInv'
<1>1. CASE UNCHANGED svars
  <2>1. SchedTypeOK' /\ PlacedInv'
    BY <1>1 DEF svars, SchedInv, SchedTypeOK, PlacedInv
  <2>2. RoundsInv'
    BY <1>1, RoundsKept DEF svars, SchedInv
  <2>3. \A i : TokensOn(i)' = TokensOn(i)
    BY <1>1 DEF svars, TokensOn, TokensAt
  <2>4. TokensInv'
    <3>1. policy' = policy /\ schedTokens' = schedTokens
      BY <1>1 DEF svars
    <3> QED
      BY <2>3, <3>1 DEF SchedInv, TokensInv
  <2> QED
    BY <2>1, <2>2, <2>4 DEF SchedInv
<1> QED
  BY <1>1, ScheduleKeeps, CompleteIterationKeeps, FlowCompletionKeeps
  DEF SchedNext, Served

(* The invariant holds throughout.                                         *)
LEMMA SchedAlways == SchedSpec => []SchedInv
  BY SchedStarts, SchedStep, PTL DEF SchedSpec
-----------------------------------------------------------------------------
(* RoundRobin over all instances and KVRoundRobin over those of each role  *)
(* (scheduler.py): whatever has completed meanwhile, no instance has been  *)
(* given two requests more than another.  With two lists of different      *)
(* lengths each index must wrap at the end of its own.                     *)
THEOREM RoundsAreEven == SchedSpec => []RoundRobinIsEven
<1>1. ASSUME NEW list \in {AllInstances, PromptInstances, TokenInstances},
             NEW on, NEW index, RoundUnderWay(on, list, index)
      PROVE  EvenlySpread(on, list)
  <2>1. PICK rounds \in Nat : \A k \in 1 .. Len(list) :
          Placed(on, list[k]) = IF k <= index THEN rounds + 1 ELSE rounds
    BY <1>1 DEF RoundUnderWay
  <2>2. ToSet(list) = {list[k] : k \in 1 .. Len(list)}
    BY ListsOfInstances
  <2>3. \A i \in ToSet(list) : Placed(on, i) \in {rounds, rounds + 1}
    BY <2>1, <2>2
  <2> QED
    BY <2>3 DEF EvenlySpread
<1>2. SchedInv => RoundRobinIsEven
  BY <1>1 DEF SchedInv, RoundsInv, RoundRobinIsEven
<1> QED
  BY <1>2, SchedAlways, PTL

(* TokenJSQ (scheduler.py): a request joins the instance whose tasks have  *)
(* the fewest tokens still to be processed.  Its counters are exact: what  *)
(* schedule() adds for a request is what the completions of its two tasks  *)
(* take off.                                                               *)
THEOREM TokenJSQKeepsItsPromise == SchedSpec => TokenJSQJoinsSmallest
<1>1. ASSUME SchedInv, [SchedNext]_svars, policy = "TokenJSQ"
      PROVE  JoinsSmallest(AllInstances)
  <2> SUFFICES ASSUME NEW r \in Requests, NEW i \in ToSet(AllInstances),
                      phase[r] = "new", phase'[r] # "new"
               PROVE  PendingTokens(promptOn'[r]) <= PendingTokens(i)
    BY DEF JoinsSmallest
  <2>1. PICK x \in Requests : Schedule(x)
    BY <1>1 DEF SchedNext, CompleteIteration, FlowCompletion, Served, svars, Pool,
                SchedInv, SchedTypeOK
  <2>2. PICK d \in Placements : promptOn' = [promptOn EXCEPT ![x] = d[1]]
    BY <2>1 DEF Schedule
  <2>3. x = r
    BY <1>1, <2>1 DEF Schedule, SchedInv, SchedTypeOK
  <2>4. d[1] = FewestTokens(AllInstances) /\ d[1] \in Instances
    BY <1>1, PlacementsAreInstances DEF SchedInv
  <2>5. promptOn'[r] = d[1]
    BY <1>1, <2>2, <2>3 DEF SchedInv, SchedTypeOK
  <2>6. schedTokens[d[1]] <= schedTokens[i] /\ i \in Instances
    BY <1>1, <2>4, FirstLeastIsLeast, ListsOfInstances
    DEF SchedInv, SchedTypeOK, FewestTokens
  <2>7. \A j \in Instances : schedTokens[j] = PendingTokens(j)
    BY <1>1 DEF SchedInv, TokensInv, TokensOn, PendingTokens, SumFunction
  <2> QED
    BY <2>4, <2>5, <2>6, <2>7
<1>2. SchedInv /\ [SchedNext]_svars =>
        [policy = "TokenJSQ" => JoinsSmallest(AllInstances)]_svars
  BY <1>1
<1> QED
  BY <1>2, SchedAlways, PTL DEF SchedSpec, TokenJSQJoinsSmallest
=============================================================================
