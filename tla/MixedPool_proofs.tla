-------------------------- MODULE MixedPool_proofs --------------------------
(***************************************************************************)
(* The pools of MixedPoolScheduler partition the instances, for every set  *)
(* of instances and requests and all sizes.                                *)
(***************************************************************************)
EXTENDS MixedPool, FoldLaws, TLAPS

(* What the proofs need to know of the types: the pools and tags only.     *)
PoolsTypeOK ==
  /\ promptPool \subseteq PoolInstances
  /\ mixedPool \subseteq PoolInstances
  /\ tokenPool \subseteq PoolInstances
  /\ schedTag \in [PoolInstances -> {"none", "mixed"}]

(* Returning an instance needs its tag and its membership to agree, and    *)
(* the partition needs the way back to be unambiguous: neither invariant   *)
(* is inductive without the other.                                         *)
PoolsInv == PoolsTypeOK /\ PoolsPartition /\ TagsAgree
-----------------------------------------------------------------------------
(* Borrowing takes a member of the pool it is given, or nothing.           *)
LEMMA BorrowedFromPool ==
  ASSUME NEW found, NEW pool, NEW load, NEW b \in Borrowed(found, pool, load)
  PROVE  b \in pool \/ b = NoInstance
  BY DEF Borrowed, Least

(* Scheduling a request moves at most one instance out of each tagged pool *)
(* and keeps the partition.                                                *)
LEMMA ScheduleKeepsPools ==
  ASSUME PoolsInv, NEW r \in Requests, NEW waiting, Schedule(r, waiting)
  PROVE  PoolsInv'
<1>1. PICK p \in PromptOffers(r, waiting), t \in TokenOffers(r) :
        \E bp \in Borrowed(p, tokenPool, schedTokens),
           bt \in Borrowed(t, promptPool, schedMemory) :
          /\ tokenPool' = tokenPool \ {bp}
          /\ promptPool' = promptPool \ {bt}
          /\ mixedPool' = mixedPool \cup ({bp, bt} \ {NoInstance})
          /\ schedTag' = [i \in PoolInstances |->
                            IF i \in {bp, bt} THEN "mixed" ELSE schedTag[i]]
  BY DEF Schedule, Place
<1>2. PICK bp \in Borrowed(p, tokenPool, schedTokens),
           bt \in Borrowed(t, promptPool, schedMemory) :
          /\ tokenPool' = tokenPool \ {bp}
          /\ promptPool' = promptPool \ {bt}
          /\ mixedPool' = mixedPool \cup ({bp, bt} \ {NoInstance})
          /\ schedTag' = [i \in PoolInstances |->
                            IF i \in {bp, bt} THEN "mixed" ELSE schedTag[i]]
  BY <1>1
<1>3. bp \in tokenPool \/ bp = NoInstance
  BY BorrowedFromPool
<1>4. bt \in promptPool \/ bt = NoInstance
  BY BorrowedFromPool
<1>5. NoInstance \notin PoolInstances
  BY PoolsAssumption
<1>6. PoolsTypeOK'
  BY <1>2, <1>3, <1>4 DEF PoolsInv, PoolsTypeOK
<1>7. PoolsPartition'
  BY <1>2, <1>3, <1>4, <1>5 DEF PoolsInv, PoolsTypeOK, PoolsPartition
<1>8. TagsAgree'
  BY <1>2, <1>3, <1>4, <1>5 DEF PoolsInv, PoolsTypeOK, TagsAgree
<1> QED
  BY <1>6, <1>7, <1>8 DEF PoolsInv

(* A returned instance goes to the one pool its tag names.                 *)
LEMMA NotifyFreeKeepsPools ==
  ASSUME PoolsInv, NEW i \in PoolInstances, NotifyFree(i)
  PROVE  PoolsInv'
<1>1. CASE schedTag[i] = "mixed"
  <2>1. i \in mixedPool
    BY <1>1 DEF PoolsInv, TagsAgree
  <2>2. \/ i \in PromptTagged /\ i \notin TokenTagged
        \/ i \in TokenTagged /\ i \notin PromptTagged
    BY PoolsAssumption DEF PoolInstances
  <2>3. /\ schedTag' = [schedTag EXCEPT ![i] = "none"]
        /\ mixedPool' = mixedPool \ {i}
        /\ promptPool' = promptPool \cup ({i} \cap PromptTagged)
        /\ tokenPool' = tokenPool \cup ({i} \cap TokenTagged)
    BY <1>1 DEF NotifyFree
  <2>4. PoolsTypeOK'
    BY <2>3 DEF PoolsInv, PoolsTypeOK, PoolInstances
  <2>5. PoolsPartition'
    BY <2>1, <2>2, <2>3 DEF PoolsInv, PoolsPartition
  <2>6. TagsAgree'
    BY <2>1, <2>3 DEF PoolsInv, PoolsTypeOK, TagsAgree
  <2> QED
    BY <2>4, <2>5, <2>6 DEF PoolsInv
<1>2. CASE schedTag[i] # "mixed"
  BY <1>2 DEF NotifyFree, pools, PoolsInv, PoolsTypeOK, PoolsPartition, TagsAgree
<1> QED
  BY <1>1, <1>2

(* The pools partition the instances whatever is borrowed or given back.   *)
LEMMA PoolsInvInductive ==
  /\ Init => PoolsInv
  /\ PoolsInv /\ [Next]_vars => PoolsInv'
<1>1. Init => PoolsInv
  BY PoolsAssumption
  DEF Init, PoolsInv, PoolsTypeOK, PoolsPartition, TagsAgree, PoolInstances
<1>2. ASSUME PoolsInv, [Next]_vars
      PROVE  PoolsInv'
  <2> USE <1>2
  <2>1. ASSUME UNCHANGED pools
        PROVE  PoolsInv'
    BY <2>1 DEF pools, PoolsInv, PoolsTypeOK, PoolsPartition, TagsAgree
  <2>2. ASSUME NEW r \in Requests,
               NEW waiting \in SUBSET {i \in PoolInstances : Present(i) # {}},
               Schedule(r, waiting)
        PROVE  PoolsInv'
    BY <2>2, ScheduleKeepsPools
  <2>3. ASSUME NEW i \in PoolInstances, NEW D \in SUBSET Requests,
               CompleteIteration(i, D)
        PROVE  PoolsInv'
    BY <2>1, <2>3, NotifyFreeKeepsPools DEF CompleteIteration
  <2>4. ASSUME NEW r \in Requests, FlowCompletion(r)
        PROVE  PoolsInv'
    BY <2>1, <2>4 DEF FlowCompletion
  <2>5. CASE Finished \/ UNCHANGED vars
    BY <2>1, <2>5 DEF Finished, vars
  <2> QED
    BY <2>2, <2>3, <2>4, <2>5 DEF Next
<1> QED
  BY <1>1, <1>2

(* Every instance is always in exactly one pool.                           *)
THEOREM InstancesPartitioned == Spec => []PoolsPartition
<1>1. PoolsInv => PoolsPartition
  BY DEF PoolsInv
<1> QED
  BY <1>1, PoolsInvInductive, PTL DEF Spec

(* The tag, the pool and the way back of an instance always agree.         *)
THEOREM TagsConsistent == Spec => []TagsAgree
<1>1. PoolsInv => TagsAgree
  BY DEF PoolsInv
<1> QED
  BY <1>1, PoolsInvInductive, PTL DEF Spec

(* schedule() never raises "No instances available": when a tagged pool is *)
(* empty its instances have been borrowed, so the mixed pool is not.       *)
THEOREM NeverOutOfInstances == Spec => []AlwaysAnInstance
<1>1. PoolsInv => AlwaysAnInstance
  BY PoolsAssumption
  DEF PoolsInv, PoolsPartition, TagsAgree, AlwaysAnInstance,
      NoInstancesAvailable, PoolInstances
<1> QED
  BY <1>1, PoolsInvInductive, PTL DEF Spec
-----------------------------------------------------------------------------
(***************************************************************************)
(* The accounts.  Load and reservations of an instance are sums over the   *)
(* requests, which every step changes by what it adds to the counters or   *)
(* takes from them; this needs to know which requests have instances.      *)
(***************************************************************************)
Phases == {"new", "prompt", "flow", "token", "done"}

AccountsTypeOK ==
  /\ trace \in [Requests -> Shapes]
  /\ phase \in [Requests -> Phases]
  /\ promptOn \in [Requests -> PoolInstances \cup {NoInstance}]
  /\ tokenOn \in [Requests -> PoolInstances \cup {NoInstance}]
  /\ schedTokens \in [PoolInstances -> Int]
  /\ schedMemory \in [PoolInstances -> Int]

(* A request has its instances from its arrival on, and a flow is under    *)
(* way between different ones only.                                        *)
PlacedInv ==
  \A r \in Requests :
    /\ phase[r] = "new" => promptOn[r] = NoInstance /\ tokenOn[r] = NoInstance
    /\ phase[r] # "new" => promptOn[r] \in PoolInstances /\ tokenOn[r] \in PoolInstances
    /\ phase[r] = "flow" => promptOn[r] # tokenOn[r]

(* Load and reservations at i, of every request.                           *)
LoadOn(i) == [r \in Requests |-> IF r \in Owed(i) THEN Load(i, r) ELSE 0]
ReservedOn(i) == [r \in Requests |-> Reservation(i, r)]

CountersInv ==
  \A i \in PoolInstances :
    /\ schedTokens[i] = SumFunctionOnSet(LoadOn(i), Requests)
    /\ schedMemory[i] = ModelSize + SumFunctionOnSet(ReservedOn(i), Requests)

AccountsInv == PoolsInv /\ AccountsTypeOK /\ PlacedInv /\ CountersInv
-----------------------------------------------------------------------------
(* What a request counts for, in tokens and in bytes, is positive: the     *)
(* counters it is in are positive while it is.                             *)
LEMMA SizesAreNatural ==
  ASSUME AccountsTypeOK, NEW r \in Requests
  PROVE  /\ trace[r].prompt \in Nat \ {0} /\ trace[r].token \in Nat \ {0}
         /\ PromptMemory(r) \in Nat \ {0} /\ TotalMemory(r) \in Nat \ {0}
  BY ShapesAssumption
  DEF AccountsTypeOK, PromptMemory, TotalMemory, TokenMemory

(* So the sums over the requests are sums of naturals.                     *)
LEMMA AmountsAreNatural ==
  ASSUME AccountsTypeOK, NEW i \in PoolInstances
  PROVE  \A r \in Requests : LoadOn(i)[r] \in Nat /\ ReservedOn(i)[r] \in Nat
  BY SizesAreNatural DEF LoadOn, Load, ReservedOn, Reservation

(* schedule() ends with the two tasks on instances, one or two of them.    *)
LEMMA PlaceReserves ==
  ASSUME PoolsInv, NEW r \in Requests, NEW waiting, Place(r, waiting)
  PROVE  \E p \in PoolInstances, t \in PoolInstances : Reserve(r, p, t)
<1>1. PICK p \in PromptOffers(r, waiting), t \in TokenOffers(r) :
        \E bp \in Borrowed(p, tokenPool, schedTokens),
           bt \in Borrowed(t, promptPool, schedMemory) :
          \E d \in Pairings(IF p = NoInstance THEN bp ELSE p,
                              IF t = NoInstance THEN bt ELSE t) :
            Reserve(r, d[1], d[2])
  BY DEF Place
<1>2. PICK bp \in Borrowed(p, tokenPool, schedTokens),
           bt \in Borrowed(t, promptPool, schedMemory) :
          \E d \in Pairings(IF p = NoInstance THEN bp ELSE p,
                              IF t = NoInstance THEN bt ELSE t) :
            Reserve(r, d[1], d[2])
  BY <1>1
<1> DEFINE q == IF p = NoInstance THEN bp ELSE p
           u == IF t = NoInstance THEN bt ELSE t
<1>3. p \in PoolInstances \cup {NoInstance}
  BY DEF PromptOffers, FirstFound, FindBestPrompt, Least, PoolsInv, PoolsTypeOK
<1>4. t \in PoolInstances \cup {NoInstance}
  BY DEF TokenOffers, FirstFound, FindBestToken, Least, PoolsInv, PoolsTypeOK
<1>5. q \in PoolInstances \cup {NoInstance} /\ u \in PoolInstances \cup {NoInstance}
  BY <1>3, <1>4, BorrowedFromPool DEF PoolsInv, PoolsTypeOK
<1> HIDE DEF q, u
<1>6. PICK d \in Pairings(q, u) : Reserve(r, d[1], d[2])
  BY <1>2 DEF q, u
<1>7. d[1] \in PoolInstances /\ d[2] \in PoolInstances
  BY <1>5 DEF Pairings, Least, PoolsInv, PoolsTypeOK
<1> QED
  BY <1>6, <1>7

(* A new request adds what schedule() adds to the counters.                *)
LEMMA ScheduleKeepsAccounts ==
  ASSUME AccountsInv, NEW r \in Requests, NEW waiting, Schedule(r, waiting)
  PROVE  (AccountsTypeOK /\ PlacedInv /\ CountersInv)'
<1>1. PICK p \in PoolInstances, t \in PoolInstances : Reserve(r, p, t)
  BY PlaceReserves DEF AccountsInv, Schedule
<1>2. /\ phase[r] = "new" /\ phase' = [phase EXCEPT ![r] = "prompt"]
      /\ trace' = trace
  BY DEF Schedule
<1>3. /\ promptOn' = [promptOn EXCEPT ![r] = p]
      /\ tokenOn' = [tokenOn EXCEPT ![r] = t]
      /\ schedMemory' = [i \in PoolInstances |->
           schedMemory[i]
             + (IF i = p /\ p # t THEN PromptMemory(r) ELSE 0)
             + (IF i = t THEN TotalMemory(r) ELSE 0)]
      /\ schedTokens' = [i \in PoolInstances |->
           schedTokens[i] + (IF i = p THEN trace[r].prompt ELSE 0)
                          + (IF i = t THEN 1 ELSE 0)]
  BY <1>1 DEF Reserve
<1>4. AccountsTypeOK'
  BY <1>2, <1>3, SizesAreNatural DEF AccountsInv, AccountsTypeOK, Phases
<1>5. PlacedInv'
  BY <1>2, <1>3 DEF AccountsInv, AccountsTypeOK, PlacedInv
<1>6. ASSUME NEW i \in PoolInstances
      PROVE  /\ schedTokens'[i] = SumFunctionOnSet(LoadOn(i)', Requests)
             /\ schedMemory'[i] = ModelSize + SumFunctionOnSet(ReservedOn(i)', Requests)
  <2>1. \A x \in Requests : LoadOn(i)[x] \in Int /\ ReservedOn(i)[x] \in Int
    BY AmountsAreNatural DEF AccountsInv
  <2>2. \A x \in Requests \ {r} : /\ LoadOn(i)'[x] = LoadOn(i)[x]
                                  /\ ReservedOn(i)'[x] = ReservedOn(i)[x]
    BY <1>2, <1>3
    DEF LoadOn, Load, Owed, ReservedOn, Reservation, PromptMemory, TotalMemory,
        TokenMemory, AccountsInv, AccountsTypeOK
  <2>3. LoadOn(i)[r] = 0 /\ ReservedOn(i)[r] = 0
    BY <1>2, PoolsAssumption
    DEF LoadOn, Owed, ReservedOn, Reservation, AccountsInv, PlacedInv
  <2>4. LoadOn(i)'[r] = (IF i = p THEN trace[r].prompt ELSE 0) + (IF i = t THEN 1 ELSE 0)
    BY <1>2, <1>3, SizesAreNatural
    DEF LoadOn, Load, Owed, AccountsInv, AccountsTypeOK
  <2>5. ReservedOn(i)'[r] = (IF i = p /\ p # t THEN PromptMemory(r) ELSE 0)
                            + (IF i = t THEN TotalMemory(r) ELSE 0)
    BY <1>2, <1>3, SizesAreNatural
    DEF ReservedOn, Reservation, PromptMemory, TotalMemory, TokenMemory,
        AccountsInv, AccountsTypeOK
  <2>6. LoadOn(i)'[r] \in Int /\ ReservedOn(i)'[r] \in Int
    BY <2>4, <2>5, SizesAreNatural DEF AccountsInv
  <2>7. /\ SumFunctionOnSet(LoadOn(i)', Requests)
             = SumFunctionOnSet(LoadOn(i), Requests) + (LoadOn(i)'[r] - LoadOn(i)[r])
        /\ SumFunctionOnSet(ReservedOn(i)', Requests)
             = SumFunctionOnSet(ReservedOn(i), Requests)
               + (ReservedOn(i)'[r] - ReservedOn(i)[r])
    <3> DEFINE f == LoadOn(i)
               g == LoadOn(i)'
               m == ReservedOn(i)
               n == ReservedOn(i)'
    <3>1. /\ \A x \in Requests : f[x] \in Int /\ g[x] \in Int
          /\ \A x \in Requests : m[x] \in Int /\ n[x] \in Int
          /\ \A x \in Requests \ {r} : f[x] = g[x]
          /\ \A x \in Requests \ {r} : m[x] = n[x]
      BY <2>1, <2>2, <2>6
    <3> HIDE DEF f, g, m, n
    <3>2. /\ SumFunctionOnSet(g, Requests) = SumFunctionOnSet(f, Requests) + (g[r] - f[r])
          /\ SumFunctionOnSet(n, Requests) = SumFunctionOnSet(m, Requests) + (n[r] - m[r])
      BY <3>1, SumChange, TraceAssumption
    <3> QED
      BY <3>2 DEF f, g, m, n
  <2>8. /\ SumFunctionOnSet(LoadOn(i), Requests) \in Int
        /\ SumFunctionOnSet(ReservedOn(i), Requests) \in Int
    BY <2>1, SumType, TraceAssumption
  <2>9. /\ schedTokens[i] = SumFunctionOnSet(LoadOn(i), Requests)
        /\ schedMemory[i] = ModelSize + SumFunctionOnSet(ReservedOn(i), Requests)
    BY DEF AccountsInv, CountersInv
  <2> DEFINE a == SumFunctionOnSet(LoadOn(i), Requests)
             b == SumFunctionOnSet(ReservedOn(i), Requests)
  <2> HIDE DEF a, b
  <2>10. schedTokens'[i] = a + LoadOn(i)'[r]
    BY <1>3, <2>4, <2>8, <2>9, SizesAreNatural DEF a, AccountsInv
  <2>11. schedMemory'[i] = (ModelSize + b) + ReservedOn(i)'[r]
    BY <1>3, <2>5, <2>8, <2>9, SizesAreNatural, LimitsAssumption DEF b, AccountsInv
  <2> QED
    BY <2>3, <2>6, <2>7, <2>8, <2>10, <2>11, LimitsAssumption DEF a, b
<1>7. CountersInv'
  BY <1>6 DEF CountersInv
<1> QED
  BY <1>4, <1>5, <1>7

(* An iteration takes from the counters of its instance what the requests  *)
(* of the tasks that complete no longer bring to the sums.                 *)
LEMMA CompleteIterationKeepsAccounts ==
  ASSUME AccountsInv, NEW j \in PoolInstances, NEW D \in SUBSET Requests,
         CompleteIteration(j, D)
  PROVE  (AccountsTypeOK /\ PlacedInv /\ CountersInv)'
<1> DEFINE tokens == [r \in D |-> PendingTokensOf(r)]
           freed == [r \in D |-> MemoryFreedBy(r)]
           tokensAll == [r \in Requests |-> IF r \in D THEN tokens[r] ELSE 0]
           freedAll == [r \in Requests |-> IF r \in D THEN freed[r] ELSE 0]
<1>1. /\ D \subseteq Present(j)
      /\ schedTokens' = [schedTokens EXCEPT ![j] = schedTokens[j] - SumFunction(tokens)]
      /\ schedMemory' = [schedMemory EXCEPT ![j] = schedMemory[j] - SumFunction(freed)]
      /\ phase' = [r \in Requests |->
           IF r \notin D THEN phase[r]
           ELSE IF phase[r] = "token" THEN "done"
           ELSE IF Colocated(r) THEN "token" ELSE "flow"]
      /\ trace' = trace /\ promptOn' = promptOn /\ tokenOn' = tokenOn
  BY DEF CompleteIteration
<1>2. \A r \in D : \/ promptOn[r] = j /\ phase[r] = "prompt"
                   \/ tokenOn[r] = j /\ phase[r] = "token"
  BY <1>1 DEF Present
<1>3. \A r \in D : tokens[r] \in Nat /\ freed[r] \in Nat
  BY SizesAreNatural DEF PendingTokensOf, MemoryFreedBy, AccountsInv
<1>4. /\ SumFunction(tokens) = SumFunctionOnSet(tokensAll, Requests)
      /\ SumFunction(freed) = SumFunctionOnSet(freedAll, Requests)
      /\ SumFunctionOnSet(tokensAll, Requests) \in Int
      /\ SumFunctionOnSet(freedAll, Requests) \in Int
      /\ \A r \in Requests : tokensAll[r] \in Int /\ freedAll[r] \in Int
  <2>1. DOMAIN tokens = D /\ DOMAIN freed = D
    OBVIOUS
  <2>2. \A r \in Requests : tokensAll[r] \in Int /\ freedAll[r] \in Int
    BY <1>3
  <2> HIDE DEF tokens, freed
  <2>3. /\ SumFunction(tokens) = SumFunctionOnSet(tokensAll, Requests)
        /\ SumFunction(freed) = SumFunctionOnSet(freedAll, Requests)
    BY <1>3, <2>1, SumExtend, TraceAssumption
  <2> HIDE DEF tokensAll, freedAll
  <2>4. /\ SumFunctionOnSet(tokensAll, Requests) \in Int
        /\ SumFunctionOnSet(freedAll, Requests) \in Int
    BY <2>2, SumType, TraceAssumption
  <2> QED
    BY <2>2, <2>3, <2>4
<1>5. AccountsTypeOK'
  <2>1. phase' \in [Requests -> Phases]
    BY <1>1 DEF AccountsInv, AccountsTypeOK, Phases
  <2> HIDE DEF tokens, freed
  <2>2. schedTokens' \in [PoolInstances -> Int] /\ schedMemory' \in [PoolInstances -> Int]
    BY <1>1, <1>4 DEF AccountsInv, AccountsTypeOK
  <2> QED
    BY <1>1, <2>1, <2>2 DEF AccountsInv, AccountsTypeOK
<1>6. PlacedInv'
  BY <1>1, <1>2 DEF AccountsInv, AccountsTypeOK, PlacedInv, Colocated, Phases
<1>7. ASSUME NEW i \in PoolInstances
      PROVE  \A r \in Requests :
               /\ LoadOn(i)[r] = LoadOn(i)'[r] + (IF i = j THEN tokensAll[r] ELSE 0)
               /\ ReservedOn(i)[r] = ReservedOn(i)'[r] + (IF i = j THEN freedAll[r] ELSE 0)
               /\ LoadOn(i)'[r] \in Int /\ ReservedOn(i)'[r] \in Int
  <2> SUFFICES ASSUME NEW r \in Requests
               PROVE /\ LoadOn(i)[r] = LoadOn(i)'[r] + (IF i = j THEN tokensAll[r] ELSE 0)
                     /\ ReservedOn(i)[r] = ReservedOn(i)'[r] + (IF i = j THEN freedAll[r] ELSE 0)
                     /\ LoadOn(i)'[r] \in Int /\ ReservedOn(i)'[r] \in Int
    OBVIOUS
  <2>1. /\ trace[r].prompt \in Nat /\ PromptMemory(r) \in Nat /\ TotalMemory(r) \in Nat
        /\ PromptMemory(r)' = PromptMemory(r) /\ TotalMemory(r)' = TotalMemory(r)
        /\ phase[r] \in Phases
    BY <1>1, SizesAreNatural
    DEF AccountsInv, AccountsTypeOK, PromptMemory, TotalMemory, TokenMemory
  <2>2. CASE r \notin D
    <3>1. phase'[r] = phase[r] /\ tokensAll[r] = 0 /\ freedAll[r] = 0
      BY <1>1, <2>2
    <3>2. LoadOn(i)'[r] = LoadOn(i)[r] /\ ReservedOn(i)'[r] = ReservedOn(i)[r]
      BY <1>1, <2>1, <3>1 DEF LoadOn, Load, Owed, ReservedOn, Reservation
    <3>3. LoadOn(i)[r] \in Int /\ ReservedOn(i)[r] \in Int
      BY AmountsAreNatural DEF AccountsInv
    <3> QED
      BY <3>1, <3>2, <3>3
  <2>3. CASE r \in D /\ promptOn[r] = j /\ phase[r] = "prompt"
    <3>1. /\ phase'[r] = IF tokenOn[r] = j THEN "token" ELSE "flow"
          /\ tokensAll[r] = trace[r].prompt /\ freedAll[r] = 0
      BY <1>1, <2>3 DEF Colocated, PendingTokensOf, MemoryFreedBy
    <3>2. /\ LoadOn(i)[r] = (IF i = j THEN trace[r].prompt ELSE 0)
                            + (IF tokenOn[r] = i THEN 1 ELSE 0)
          /\ LoadOn(i)'[r] = IF tokenOn[r] = i THEN 1 ELSE 0
      BY <1>1, <2>1, <2>3, <3>1 DEF LoadOn, Load, Owed
    <3>3. /\ ReservedOn(i)[r] \in Int
          /\ ReservedOn(i)'[r] = ReservedOn(i)[r]
      BY <1>1, <2>1, <2>3, <3>1 DEF ReservedOn, Reservation
    <3> QED
      BY <2>1, <3>1, <3>2, <3>3
  <2>4. CASE r \in D /\ tokenOn[r] = j /\ phase[r] = "token"
    <3>1. /\ phase'[r] = "done"
          /\ tokensAll[r] = 1 /\ freedAll[r] = TotalMemory(r)
      BY <1>1, <2>4 DEF PendingTokensOf, MemoryFreedBy
    <3>2. LoadOn(i)[r] = (IF i = j THEN 1 ELSE 0) /\ LoadOn(i)'[r] = 0
      BY <1>1, <2>1, <2>4, <3>1 DEF LoadOn, Load, Owed
    <3>3. /\ ReservedOn(i)[r] = (IF i = j THEN TotalMemory(r) ELSE 0)
          /\ ReservedOn(i)'[r] = 0
      BY <1>1, <2>1, <2>4, <3>1 DEF ReservedOn, Reservation
    <3> QED
      BY <2>1, <3>1, <3>2, <3>3
  <2> QED
    BY <1>2, <2>2, <2>3, <2>4
<1> HIDE DEF tokens, freed, tokensAll, freedAll
<1>8. ASSUME NEW i \in PoolInstances
      PROVE  /\ schedTokens'[i] = SumFunctionOnSet(LoadOn(i)', Requests)
             /\ schedMemory'[i] = ModelSize + SumFunctionOnSet(ReservedOn(i)', Requests)
  <2> DEFINE f == LoadOn(i)
             g == LoadOn(i)'
             m == ReservedOn(i)
             n == ReservedOn(i)'
             a == SumFunctionOnSet(g, Requests)
             b == SumFunctionOnSet(n, Requests)
  <2>1. /\ schedTokens[i] = SumFunctionOnSet(f, Requests)
        /\ schedMemory[i] = ModelSize + SumFunctionOnSet(m, Requests)
        /\ ModelSize \in Int
    BY LimitsAssumption DEF AccountsInv, CountersInv
  <2>2. \A r \in Requests : /\ f[r] = g[r] + (IF i = j THEN tokensAll[r] ELSE 0)
                            /\ m[r] = n[r] + (IF i = j THEN freedAll[r] ELSE 0)
                            /\ g[r] \in Int /\ n[r] \in Int
    BY <1>7
  <2> HIDE DEF f, g, m, n
  <2>3. a \in Int /\ b \in Int
    BY <2>2, SumType, TraceAssumption
  <2>4. CASE i = j
    <3>1. /\ SumFunctionOnSet(f, Requests) = a + SumFunctionOnSet(tokensAll, Requests)
          /\ SumFunctionOnSet(m, Requests) = b + SumFunctionOnSet(freedAll, Requests)
      BY <1>4, <2>2, <2>4, SumPlus, TraceAssumption
    <3> HIDE DEF a, b
    <3>2. /\ schedTokens'[i] = (a + SumFunction(tokens)) - SumFunction(tokens)
          /\ schedMemory'[i] = (ModelSize + (b + SumFunction(freed))) - SumFunction(freed)
      BY <1>1, <1>4, <2>1, <2>4, <3>1 DEF AccountsInv, AccountsTypeOK
    <3>3. SumFunction(tokens) \in Int /\ SumFunction(freed) \in Int
      BY <1>4
    <3>4. schedTokens'[i] = a /\ schedMemory'[i] = ModelSize + b
      BY <2>1, <2>3, <3>2, <3>3
    <3> QED
      BY <3>4 DEF a, b, g, n
  <2>5. CASE i # j
    <3>1. /\ \A r \in Requests : f[r] \in Int /\ f[r] = g[r]
          /\ \A r \in Requests : m[r] \in Int /\ m[r] = n[r]
      BY <2>2, <2>5
    <3>2. SumFunctionOnSet(f, Requests) = a /\ SumFunctionOnSet(m, Requests) = b
      BY <3>1, SumSame, TraceAssumption
    <3>3. schedTokens'[i] = schedTokens[i] /\ schedMemory'[i] = schedMemory[i]
      BY <1>1, <2>5 DEF AccountsInv, AccountsTypeOK
    <3> QED
      BY <2>1, <3>2, <3>3 DEF a, b, g, n
  <2> QED
    BY <2>4, <2>5
<1>9. CountersInv'
  BY <1>8 DEF CountersInv
<1> QED
  BY <1>5, <1>6, <1>9

(* A flow gives back the memory of the prompt at its source, which keeps   *)
(* no task of the request.                                                 *)
LEMMA FlowCompletionKeepsAccounts ==
  ASSUME AccountsInv, NEW e \in Requests, FlowCompletion(e)
  PROVE  (AccountsTypeOK /\ PlacedInv /\ CountersInv)'
<1> DEFINE j == promptOn[e]
<1>1. /\ phase[e] = "flow"
      /\ phase' = [phase EXCEPT ![e] = "token"]
      /\ schedMemory' = [schedMemory EXCEPT ![j] = schedMemory[j] - PromptMemory(e)]
      /\ schedTokens' = schedTokens
      /\ trace' = trace /\ promptOn' = promptOn /\ tokenOn' = tokenOn
  BY DEF FlowCompletion
<1>2. j \in PoolInstances /\ tokenOn[e] \in PoolInstances /\ tokenOn[e] # j
  BY <1>1 DEF AccountsInv, PlacedInv
<1>3. PromptMemory(e) \in Nat /\ TotalMemory(e) \in Nat
  BY SizesAreNatural DEF AccountsInv
<1>4. AccountsTypeOK'
  BY <1>1, <1>2, <1>3 DEF AccountsInv, AccountsTypeOK, Phases
<1>5. PlacedInv'
  BY <1>1 DEF AccountsInv, AccountsTypeOK, PlacedInv
<1>6. ASSUME NEW i \in PoolInstances
      PROVE  /\ schedTokens'[i] = SumFunctionOnSet(LoadOn(i)', Requests)
             /\ schedMemory'[i] = ModelSize + SumFunctionOnSet(ReservedOn(i)', Requests)
  <2> DEFINE f == LoadOn(i)
             g == LoadOn(i)'
             m == ReservedOn(i)
             n == ReservedOn(i)'
             b == SumFunctionOnSet(m, Requests)
  <2>1. /\ schedTokens[i] = SumFunctionOnSet(f, Requests)
        /\ schedMemory[i] = ModelSize + SumFunctionOnSet(m, Requests)
        /\ ModelSize \in Int
    BY LimitsAssumption DEF AccountsInv, CountersInv
  <2>2. \A x \in Requests : f[x] \in Int /\ m[x] \in Int
    BY AmountsAreNatural DEF AccountsInv
  <2>3. \A x \in Requests \ {e} : phase'[x] = phase[x]
    BY <1>1 DEF AccountsInv, AccountsTypeOK
  <2>4. phase'[e] = "token"
    BY <1>1 DEF AccountsInv, AccountsTypeOK
  <2>5. \A x \in Requests : f[x] = g[x]
    BY <1>1, <2>3, <2>4 DEF LoadOn, Load, Owed
  <2>6. \A x \in Requests \ {e} : m[x] = n[x]
    BY <1>1, <2>3
    DEF ReservedOn, Reservation, PromptMemory, TotalMemory, TokenMemory
  <2>7. n[e] = m[e] - (IF i = j THEN PromptMemory(e) ELSE 0)
    BY <1>1, <1>2, <1>3, <2>4
    DEF ReservedOn, Reservation, PromptMemory, TotalMemory, TokenMemory
  <2> HIDE DEF f, g, m, n
  <2>8. n[e] \in Int
    BY <1>3, <2>2, <2>7
  <2>9. SumFunctionOnSet(g, Requests) = SumFunctionOnSet(f, Requests)
    BY <2>2, <2>5, SumSame, TraceAssumption
  <2>10. SumFunctionOnSet(n, Requests) = b + (n[e] - m[e])
    <3>1. \A x \in Requests : m[x] \in Int /\ n[x] \in Int
      BY <2>2, <2>6, <2>8
    <3> QED
      BY <2>6, <3>1, SumChange, TraceAssumption
  <2>11. b \in Int
    BY <2>2, SumType, TraceAssumption
  <2>12. schedMemory'[i] = (ModelSize + b) - (IF i = j THEN PromptMemory(e) ELSE 0)
    BY <1>1, <1>3, <2>1, <2>11 DEF AccountsInv, AccountsTypeOK
  <2> HIDE DEF b
  <2>13. m[e] \in Int
    BY <2>2
  <2>14. schedMemory'[i] = ModelSize + (b + (n[e] - m[e]))
    BY <1>3, <2>1, <2>7, <2>11, <2>12, <2>13
  <2> QED
    BY <1>1, <2>1, <2>9, <2>10, <2>14 DEF g, n
<1>7. CountersInv'
  BY <1>6 DEF CountersInv
<1> QED
  BY <1>4, <1>5, <1>7

(* Nothing is placed, nothing is counted.                                  *)
LEMMA AccountsInitially ==
  ASSUME Init
  PROVE  AccountsInv
<1>1. PoolsInv
  BY PoolsInvInductive
<1>2. AccountsTypeOK /\ PlacedInv
  BY LimitsAssumption DEF Init, AccountsTypeOK, PlacedInv, Phases
<1>3. ASSUME NEW i \in PoolInstances
      PROVE  /\ SumFunctionOnSet(LoadOn(i), Requests) = 0
             /\ SumFunctionOnSet(ReservedOn(i), Requests) = 0
  <2>1. \A r \in Requests : LoadOn(i)[r] = 0 /\ ReservedOn(i)[r] = 0
    BY PoolsAssumption DEF Init, LoadOn, Owed, ReservedOn, Reservation
  <2> QED
    BY <2>1, SumZero, TraceAssumption
<1>4. CountersInv
  BY <1>3, LimitsAssumption DEF Init, CountersInv
<1> QED
  BY <1>1, <1>2, <1>4 DEF AccountsInv

(* Every step moves the counters by what it places or finishes.            *)
LEMMA AccountsStep ==
  ASSUME AccountsInv, [Next]_vars
  PROVE  AccountsInv'
<1>1. PoolsInv'
  BY PoolsInvInductive DEF AccountsInv
<1>2. ASSUME NEW r \in Requests,
             NEW waiting \in SUBSET {i \in PoolInstances : Present(i) # {}},
             Schedule(r, waiting)
      PROVE  (AccountsTypeOK /\ PlacedInv /\ CountersInv)'
  BY <1>2, ScheduleKeepsAccounts
<1>3. ASSUME NEW i \in PoolInstances, NEW D \in SUBSET Requests,
             CompleteIteration(i, D)
      PROVE  (AccountsTypeOK /\ PlacedInv /\ CountersInv)'
  BY <1>3, CompleteIterationKeepsAccounts
<1>4. ASSUME NEW r \in Requests, FlowCompletion(r)
      PROVE  (AccountsTypeOK /\ PlacedInv /\ CountersInv)'
  BY <1>4, FlowCompletionKeepsAccounts
<1>5. ASSUME UNCHANGED vars
      PROVE  (AccountsTypeOK /\ PlacedInv /\ CountersInv)'
  <2>1. /\ trace' = trace /\ phase' = phase
        /\ promptOn' = promptOn /\ tokenOn' = tokenOn
        /\ schedTokens' = schedTokens /\ schedMemory' = schedMemory
    BY <1>5 DEF vars
  <2>2. (AccountsTypeOK /\ PlacedInv)'
    BY <2>1 DEF AccountsInv, AccountsTypeOK, PlacedInv
  <2>3. \A i : LoadOn(i)' = LoadOn(i) /\ ReservedOn(i)' = ReservedOn(i)
    BY <2>1
    DEF LoadOn, Load, Owed, ReservedOn, Reservation,
        PromptMemory, TotalMemory, TokenMemory
  <2>4. CountersInv'
    BY <2>1, <2>3 DEF AccountsInv, CountersInv
  <2> QED
    BY <2>2, <2>4
<1> QED
  BY <1>1, <1>2, <1>3, <1>4, <1>5 DEF Next, Finished, AccountsInv

(* The accounts are right in every reachable state.                        *)
LEMMA AccountsAlways == Spec => []AccountsInv
  BY AccountsInitially, AccountsStep, PTL DEF Spec

(* The scheduler's count of the tokens of an instance is never off: it is  *)
(* the load of the tasks placed there and not finished.                    *)
THEOREM LoadNeverDrifts == Spec => []LoadIsAccurate
<1>1. ASSUME AccountsInv
      PROVE  LoadIsAccurate
  <2> SUFFICES ASSUME NEW i \in PoolInstances
               PROVE  schedTokens[i] = SumFunction([r \in Owed(i) |-> Load(i, r)])
    BY DEF LoadIsAccurate
  <2> DEFINE p == [r \in Owed(i) |-> Load(i, r)]
  <2>1. DOMAIN p \subseteq Requests /\ \A r \in DOMAIN p : p[r] \in Int
    BY <1>1, SizesAreNatural DEF AccountsInv, Load, Owed
  <2>2. LoadOn(i) = [r \in Requests |-> IF r \in DOMAIN p THEN p[r] ELSE 0]
    BY DEF LoadOn
  <2> HIDE DEF p
  <2>3. SumFunction(p) = SumFunctionOnSet(LoadOn(i), Requests)
    BY <2>1, <2>2, SumExtend, TraceAssumption
  <2> QED
    BY <1>1, <2>3 DEF AccountsInv, CountersInv, p
<1> QED
  BY <1>1, AccountsAlways, PTL

(* The memory reserved on an instance is the model and what its unfinished *)
(* requests have reserved, whichever of flow and token task gives it back. *)
THEOREM MemoryNeverDrifts == Spec => []MemoryIsAccurate
<1>1. ASSUME AccountsInv
      PROVE  MemoryIsAccurate
  <2> SUFFICES ASSUME NEW i \in PoolInstances
               PROVE  schedMemory[i] = ModelSize + SumFunction(ReservedOn(i))
    BY DEF MemoryIsAccurate, ReservedOn
  <2>1. DOMAIN ReservedOn(i) = Requests
    BY DEF ReservedOn
  <2> QED
    BY <1>1, <2>1 DEF AccountsInv, CountersInv, SumFunction
<1> QED
  BY <1>1, AccountsAlways, PTL
-----------------------------------------------------------------------------
(***************************************************************************)
(* Borrowing.  The step that matters is schedule(): an instance that joins *)
(* the mixed pool there is given one of the tasks, or has work already, or *)
(* is borrowed in vain as MixedForWork describes.                          *)
(***************************************************************************)

(* When a search of the prompt pools finds none, the least loaded prompt   *)
(* instance has a queue, so that all of them have work to do.              *)
LEMMA LongQueuesHaveWork ==
  ASSUME AccountsInv, NEW r \in Requests,
         NEW waiting \in SUBSET {i \in PoolInstances : Present(i) # {}},
         NoInstance \in PromptOffers(r, waiting),
         NEW i \in promptPool
  PROVE  Owed(i) # {}
<1>1. promptPool \subseteq PoolInstances /\ NoInstance \notin PoolInstances
  BY PoolsAssumption DEF AccountsInv, PoolsInv, PoolsTypeOK
<1>2. NoInstance \in FindBestPrompt(promptPool, r, waiting)
  BY DEF PromptOffers, FirstFound
<1>3. PICK m \in Least(promptPool, schedTokens) : IsQueueLong(m, r, waiting)
  BY <1>1, <1>2 DEF FindBestPrompt, Least
<1>4. m \in PoolInstances /\ Present(m) # {} /\ schedTokens[m] <= schedTokens[i]
  BY <1>1, <1>3 DEF IsQueueLong, Least
<1>5. PICK x \in Present(m) : TRUE
  BY <1>4
<1>6. x \in Requests /\ LoadOn(m)[x] > 0
  BY <1>5, SizesAreNatural DEF Present, LoadOn, Load, Owed, AccountsInv
<1>7. \A y \in Requests : LoadOn(m)[y] \in Nat
  BY <1>4, AmountsAreNatural DEF AccountsInv
<1>8. schedTokens[m] > 0
  <2>1. SumFunctionOnSet(LoadOn(m), Requests) > 0
    BY <1>6, <1>7, SumPositive, TraceAssumption
  <2> QED
    BY <1>4, <2>1 DEF AccountsInv, CountersInv
<1>9. ASSUME Owed(i) = {}
      PROVE  FALSE
  <2>1. \A y \in Requests : LoadOn(i)[y] = 0
    BY <1>9 DEF LoadOn
  <2>2. schedTokens[i] = 0
    BY <1>1, <2>1, SumZero, TraceAssumption DEF AccountsInv, CountersInv
  <2> QED
    BY <1>1, <1>4, <1>8, <2>2 DEF AccountsInv, AccountsTypeOK
<1> QED
  BY <1>9

(* When a search of the token pools finds none, no token instance has room.*)
LEMMA LoadedEverywhere ==
  ASSUME AccountsInv, NEW r \in Requests, NoInstance \in TokenOffers(r),
         NEW i \in tokenPool
  PROVE  IsMemoryLoaded(i, r)
<1>1. tokenPool \subseteq PoolInstances /\ NoInstance \notin PoolInstances
  BY PoolsAssumption DEF AccountsInv, PoolsInv, PoolsTypeOK
<1>2. NoInstance \in FindBestToken(tokenPool, r)
  BY DEF TokenOffers, FirstFound
<1>3. PICK m \in Least(tokenPool, schedMemory) : IsMemoryLoaded(m, r)
  BY <1>1, <1>2 DEF FindBestToken, Least
<1>4. schedMemory[m] <= schedMemory[i] /\ schedMemory[m] \in Int /\ schedMemory[i] \in Int
  BY <1>1, <1>3 DEF Least, AccountsInv, AccountsTypeOK
<1> QED
  BY <1>3, <1>4, SizesAreNatural, LimitsAssumption DEF IsMemoryLoaded, AccountsInv

(* An instance that is mixed after schedule() has work of the other kind,  *)
(* or was mixed and without such work before, or was borrowed for the      *)
(* request and in vain.                                                    *)
LEMMA ScheduleBorrowsForWork ==
  ASSUME AccountsInv, NEW r \in Requests,
         NEW waiting \in SUBSET {i \in PoolInstances : Present(i) # {}},
         Schedule(r, waiting), NEW i \in mixedPool'
  PROVE  \/ Owed(i)' # {}
         \/ i \in mixedPool /\ Owed(i) = {}
         \/ BorrowedInVain(i)
<1>1. PICK p \in PromptOffers(r, waiting), t \in TokenOffers(r) :
        \E bp \in Borrowed(p, tokenPool, schedTokens),
           bt \in Borrowed(t, promptPool, schedMemory) :
          /\ mixedPool' = mixedPool \cup ({bp, bt} \ {NoInstance})
          /\ \E d \in Pairings(IF p = NoInstance THEN bp ELSE p,
                                 IF t = NoInstance THEN bt ELSE t) :
               Reserve(r, d[1], d[2])
  BY DEF Schedule, Place
<1>2. PICK bp \in Borrowed(p, tokenPool, schedTokens),
           bt \in Borrowed(t, promptPool, schedMemory) :
          /\ mixedPool' = mixedPool \cup ({bp, bt} \ {NoInstance})
          /\ \E d \in Pairings(IF p = NoInstance THEN bp ELSE p,
                                 IF t = NoInstance THEN bt ELSE t) :
               Reserve(r, d[1], d[2])
  BY <1>1
<1> DEFINE q == IF p = NoInstance THEN bp ELSE p
           u == IF t = NoInstance THEN bt ELSE t
<1>3. PICK d \in Pairings(q, u) : Reserve(r, d[1], d[2])
  BY <1>2
<1>4. /\ phase[r] = "new" /\ phase' = [phase EXCEPT ![r] = "prompt"]
      /\ promptOn' = [promptOn EXCEPT ![r] = d[1]]
      /\ tokenOn' = [tokenOn EXCEPT ![r] = d[2]]
  BY <1>3 DEF Schedule, Reserve
<1>5. Owed(i) \subseteq Owed(i)'
  BY <1>4 DEF Owed, AccountsInv, AccountsTypeOK
<1>6. r \in Owed(d[1])' /\ r \in Owed(d[2])'
  BY <1>4 DEF Owed, AccountsInv, AccountsTypeOK
<1>7. NoInstance \notin tokenPool /\ NoInstance \notin promptPool
  BY PoolsAssumption DEF AccountsInv, PoolsInv, PoolsTypeOK
<1>8. CASE i \in mixedPool
  BY <1>5, <1>8
<1>9. CASE i = bp /\ bp # NoInstance
  <2>1. p = NoInstance /\ bp \in tokenPool /\ q = bp
    BY <1>9 DEF Borrowed, Least
  <2>2. CASE u # NoInstance
    <3>1. d = <<q, u>>
      BY <1>9, <2>1, <2>2 DEF Pairings
    <3> QED
      BY <1>6, <1>9, <2>1, <3>1
  <2>3. CASE u = NoInstance
    <3>1. t = NoInstance /\ bt = NoInstance
      BY <2>3
    <3>2. promptPool = {}
      BY <1>7, <3>1 DEF Borrowed, Least
    <3>3. IsMemoryLoaded(i, r)
      BY <1>9, <2>1, <3>1, LoadedEverywhere
    <3>4. phase'[r] # "new"
      BY <1>4 DEF AccountsInv, AccountsTypeOK
    <3> QED
      BY <1>4, <1>9, <2>1, <3>2, <3>3, <3>4 DEF BorrowedInVain
  <2> QED
    BY <2>2, <2>3
<1>10. CASE i = bt /\ bt # NoInstance
  <2>1. t = NoInstance /\ bt \in promptPool /\ u = bt
    BY <1>10 DEF Borrowed, Least
  <2>2. CASE q # NoInstance
    <3>1. d = <<q, u>>
      BY <1>10, <2>1, <2>2 DEF Pairings
    <3> QED
      BY <1>6, <1>10, <2>1, <3>1
  <2>3. CASE q = NoInstance
    <3>1. p = NoInstance
      BY <2>3
    <3>2. Owed(i) # {}
      BY <1>10, <2>1, <3>1, LongQueuesHaveWork
    <3> QED
      BY <1>5, <3>2
  <2> QED
    BY <2>2, <2>3
<1> QED
  BY <1>2, <1>8, <1>9, <1>10

(* An instance that stays mixed when its iteration ends still owes work.   *)
LEMMA CompleteIterationReturns ==
  ASSUME AccountsInv, NEW j \in PoolInstances, NEW D \in SUBSET Requests,
         CompleteIteration(j, D), NEW i \in mixedPool'
  PROVE  Owed(i)' # {} \/ (i \in mixedPool /\ Owed(i) = {})
<1>1. /\ D \subseteq Present(j)
      /\ phase' = [r \in Requests |->
           IF r \notin D THEN phase[r]
           ELSE IF phase[r] = "token" THEN "done"
           ELSE IF Colocated(r) THEN "token" ELSE "flow"]
      /\ promptOn' = promptOn /\ tokenOn' = tokenOn
      /\ IF Present(j)' = {} THEN NotifyFree(j) ELSE UNCHANGED pools
  BY DEF CompleteIteration
<1>2. i \in mixedPool /\ (i = j => Present(j)' # {})
  BY <1>1 DEF NotifyFree, pools, AccountsInv, PoolsInv, TagsAgree
<1>3. CASE i = j
  <2>1. Present(j)' \subseteq Owed(j)'
    BY DEF Present, Owed
  <2> QED
    BY <1>2, <1>3, <2>1
<1>4. CASE i # j
  <2>1. \A r \in D : \/ promptOn[r] = j /\ phase[r] = "prompt"
                     \/ tokenOn[r] = j /\ phase[r] = "token"
    BY <1>1 DEF Present
  <2>2. ASSUME NEW r \in Owed(i)
        PROVE  r \in Owed(i)'
    <3>1. CASE r \notin D
      BY <1>1, <3>1 DEF Owed
    <3>2. CASE r \in D
      <4>1. tokenOn[r] = i /\ phase[r] = "prompt"
        BY <1>4, <2>1, <3>2 DEF Owed
      <4>2. phase'[r] \in {"flow", "token"}
        BY <1>1, <3>2, <4>1
      <4> QED
        BY <1>1, <4>1, <4>2 DEF Owed
    <3> QED
      BY <3>1, <3>2
  <2> QED
    BY <1>2, <2>2
<1> QED
  BY <1>3, <1>4

(* An instance becomes mixed for work and stops being mixed with the last  *)
(* of it, but for the one way of being borrowed in vain.                   *)
THEOREM MixedOnlyForWork == Spec => MixedForWork
<1> DEFINE Step == \A i \in mixedPool' : \/ Owed(i)' # {}
                                         \/ i \in mixedPool /\ Owed(i) = {}
                                         \/ BorrowedInVain(i)
<1>1. ASSUME AccountsInv, [Next]_vars
      PROVE  [Step]_vars
  <2>1. ASSUME NEW r \in Requests,
               NEW waiting \in SUBSET {i \in PoolInstances : Present(i) # {}},
               Schedule(r, waiting)
        PROVE  Step
    BY <1>1, <2>1, ScheduleBorrowsForWork
  <2>2. ASSUME NEW j \in PoolInstances, NEW D \in SUBSET Requests,
               CompleteIteration(j, D)
        PROVE  Step
    BY <1>1, <2>2, CompleteIterationReturns
  <2>3. ASSUME NEW r \in Requests, FlowCompletion(r)
        PROVE  Step
    <3>1. /\ phase[r] = "flow" /\ phase' = [phase EXCEPT ![r] = "token"]
          /\ promptOn' = promptOn /\ tokenOn' = tokenOn /\ mixedPool' = mixedPool
      BY <2>3 DEF FlowCompletion, pools
    <3>2. \A i \in mixedPool' : Owed(i)' = Owed(i)
      BY <1>1, <3>1 DEF Owed, AccountsInv, AccountsTypeOK
    <3> QED
      BY <3>1, <3>2
  <2> HIDE DEF Step
  <2> QED
    BY <1>1, <2>1, <2>2, <2>3 DEF Next, Finished
<1> HIDE DEF Step
<1>2. Spec => [][Step]_vars
  BY <1>1, AccountsAlways, PTL DEF Spec
<1> QED
  BY <1>2 DEF MixedForWork, Step
=============================================================================
