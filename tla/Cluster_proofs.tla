--------------------------- MODULE Cluster_proofs ---------------------------
(***************************************************************************)
(* The handlers of the instances of a cluster, for every set of instances  *)
(* of either kind, all limits, requests, sizes and placements.             *)
(*                                                                         *)
(* A handler is an operator from a state to the next, so what is proved of *)
(* it is a law of the operator; an action makes one call of a handler.     *)
(* The laws go from the parts of a handler to the whole:                   *)
(*  - lists and bisection, then the queues of one instance: Sound says how *)
(*    queues, batch and pool go with the tasks that are at the instance    *)
(*    and with the states of these;                                        *)
(*  - the loops of start_iteration and complete_iteration: preemption,     *)
(*    admission, the scans that select a batch, completion.  Each is an    *)
(*    instance of LoopLaws: a set of states for every number of steps,     *)
(*    which a step leads from one to the next;                             *)
(*  - Good: the queues of all instances are Sound, and the nodes of every  *)
(*    request are at a Stage which the DAG allows;                         *)
(*  - Regular: beside that the runs are in Course, ORCA serves in order of *)
(*    arrival, and every instance has the memory for what is on it.  A     *)
(*    nested run of zero iterations starts where the Course of one         *)
(*    instance is open, hence the sets of instances I and J;               *)
(*  - ClusterInv: requests are placed once, in order, and the state is     *)
(*    Regular for all instances.                                           *)
(* Most theorems follow from ClusterInv, which every action preserves.     *)
(*                                                                         *)
(* The last part adds to it what is at stake when a handler decides not to *)
(* start an iteration.  An idle instance is Short if some task that waits  *)
(* has no room there.  A selection that begins from nothing comes back     *)
(* empty only if its first task has no room; a handler of one instance     *)
(* leaves the queues of the others, and frees none of their memory (Kept); *)
(* so no instance is ever idle beside work that fits.                      *)
(***************************************************************************)
EXTENDS Cluster, FoldLaws, FiniteSetTheorems, TLAPS

(* A set of positions that is not empty has a least one.                   *)
LEMMA LeastPosition ==
  ASSUME NEW I \in SUBSET Nat, I # {}
  PROVE  Min(I) \in I /\ \A k \in I : Min(I) <= k
<1> DEFINE R == OpToRel(<, Nat)
<1>1. PICK n \in I : \A m \in I : ~ (<<m, n>> \in R)
  BY NatLessThanWellFounded, WFMin
<1>2. ASSUME NEW m \in I
      PROVE  n <= m
  <2>1. ASSUME m < n
        PROVE  FALSE
    <3>1. <<m, n>> \in R
      BY <2>1 DEF OpToRel
    <3> QED
      BY <1>1, <3>1
  <2>2. m \in Nat /\ n \in Nat
    BY <1>1
  <2> QED
    BY <2>1, <2>2
<1> QED
  BY <1>2 DEF Min

(* A concatenation.                                                        *)
LEMMA ConcatLaw ==
  ASSUME NEW S, NEW s \in Seq(S), NEW t \in Seq(S)
  PROVE  /\ s \o t \in Seq(S) /\ Len(s \o t) = Len(s) + Len(t)
         /\ \A j \in 1 .. Len(s) + Len(t) :
              (s \o t)[j] = IF j <= Len(s) THEN s[j] ELSE t[j - Len(s)]
OBVIOUS

(* list.remove: the element at the first position where it stands goes.    *)
LEMMA RemoveFirstLaw ==
  ASSUME NEW T, NEW seq \in Seq(T), NEW e \in ToSet(seq)
  PROVE  \E k \in 1 .. Len(seq) :
           /\ seq[k] = e
           /\ RemoveFirst(seq, e) \in Seq(T)
           /\ Len(RemoveFirst(seq, e)) = Len(seq) - 1
           /\ \A j \in 1 .. Len(seq) - 1 :
                RemoveFirst(seq, e)[j] = IF j < k THEN seq[j] ELSE seq[j + 1]
<1> DEFINE I == {k \in 1 .. Len(seq) : seq[k] = e}
           k == Min(I)
<1>1. I # {} /\ I \in SUBSET Nat
  BY DEF ToSet
<1>2. k \in 1 .. Len(seq) /\ seq[k] = e
  BY <1>1, LeastPosition
<1>3. SelectInSeq(seq, LAMBDA v : v = e) = k
  BY <1>1 DEF SelectInSeq
<1>4. RemoveFirst(seq, e) = SubSeq(seq, 1, k - 1) \o SubSeq(seq, k + 1, Len(seq))
  BY <1>2, <1>3 DEF RemoveFirst, RemoveAt
<1> HIDE DEF k
<1> DEFINE a == SubSeq(seq, 1, k - 1)
           b == SubSeq(seq, k + 1, Len(seq))
<1>5. /\ a \in Seq(T) /\ Len(a) = k - 1
      /\ \A j \in 1 .. k - 1 : a[j] = seq[j]
  BY <1>2
<1>6. /\ b \in Seq(T) /\ Len(b) = Len(seq) - k
      /\ \A j \in 1 .. Len(seq) - k : b[j] = seq[j + k]
  BY <1>2
<1> HIDE DEF a, b
<1>7. /\ a \o b \in Seq(T) /\ Len(a \o b) = Len(seq) - 1
      /\ \A j \in 1 .. Len(seq) - 1 :
           (a \o b)[j] = IF j < k THEN seq[j] ELSE seq[j + 1]
  <2>1. a \o b \in Seq(T) /\ Len(a \o b) = Len(seq) - 1
    <3>1. a \o b \in Seq(T) /\ Len(a \o b) = Len(a) + Len(b)
      BY <1>5, <1>6, ConcatLaw
    <3> QED
      BY <1>2, <1>5, <1>6, <3>1
  <2>2. ASSUME NEW j \in 1 .. Len(seq) - 1
        PROVE  (a \o b)[j] = IF j < k THEN seq[j] ELSE seq[j + 1]
    <3>1. CASE j < k
      BY <1>2, <1>5, <1>6, <3>1
    <3>2. CASE ~ (j < k)
      <4>1. (a \o b)[j] = b[j - (k - 1)]
        BY <1>2, <1>5, <1>6, <3>2
      <4>2. j - (k - 1) \in 1 .. Len(seq) - k /\ (j - (k - 1)) + k = j + 1
        BY <1>2, <3>2
      <4> QED
        BY <1>6, <3>2, <4>1, <4>2
    <3> QED
      BY <3>1, <3>2
  <2> QED
    BY <2>1, <2>2
<1>8. RemoveFirst(seq, e) = a \o b
  BY <1>4 DEF a, b
<1> QED
  BY <1>2, <1>7, <1>8

(* list.remove of an element that is not there leaves the list.            *)
LEMMA RemoveFirstNothing ==
  ASSUME NEW T, NEW seq \in Seq(T), NEW e, e \notin ToSet(seq)
  PROVE  RemoveFirst(seq, e) = seq
<1>1. ~ \E k \in 1 .. Len(seq) : seq[k] = e
  BY DEF ToSet
<1> QED
  BY <1>1 DEF RemoveFirst

(* What remains of a list without repetitions.                             *)
LEMMA RemoveFirstSet ==
  ASSUME NEW T, NEW seq \in Seq(T), NEW e, IsInjective(seq)
  PROVE  /\ RemoveFirst(seq, e) \in Seq(T)
         /\ IsInjective(RemoveFirst(seq, e))
         /\ ToSet(RemoveFirst(seq, e)) = ToSet(seq) \ {e}
<1>1. CASE e \notin ToSet(seq)
  BY <1>1, RemoveFirstNothing
<1>2. CASE e \in ToSet(seq)
  <2> DEFINE r == RemoveFirst(seq, e)
  <2>1. PICK k \in 1 .. Len(seq) :
          /\ seq[k] = e /\ r \in Seq(T) /\ Len(r) = Len(seq) - 1
          /\ \A j \in 1 .. Len(seq) - 1 : r[j] = IF j < k THEN seq[j] ELSE seq[j + 1]
    BY <1>2, RemoveFirstLaw
  <2> HIDE DEF r
  <2> DEFINE to(j) == IF j < k THEN j ELSE j + 1
  <2>2. Len(seq) \in Nat /\ k \in Nat /\ DOMAIN seq = 1 .. Len(seq) /\ DOMAIN r = 1 .. Len(seq) - 1
    BY <2>1
  <2>3. \A j \in DOMAIN r : to(j) \in DOMAIN seq /\ to(j) # k /\ r[j] = seq[to(j)]
    BY <2>1, <2>2
  <2>4. \A j, m \in DOMAIN r : to(j) = to(m) => j = m
    BY <2>2
  <2>5. \A m \in DOMAIN seq : m # k => \E j \in DOMAIN r : to(j) = m
    <3>1. ASSUME NEW m \in DOMAIN seq, m # k
          PROVE  \E j \in DOMAIN r : to(j) = m
      <4>1. CASE m < k
        <5>1. m \in DOMAIN r /\ to(m) = m
          BY <2>1, <2>2, <4>1
        <5> QED
          BY <5>1
      <4>2. CASE m > k
        <5>1. m - 1 \in DOMAIN r /\ to(m - 1) = m
          BY <2>1, <2>2, <4>2
        <5> QED
          BY <5>1
      <4> QED
        BY <2>2, <3>1, <4>1, <4>2
    <3> QED
      BY <3>1
  <2>6. IsInjective(r)
    BY <2>3, <2>4 DEF IsInjective
  <2>7. ToSet(r) = ToSet(seq) \ {e}
    <3>1. ASSUME NEW j \in DOMAIN r
          PROVE  r[j] \in ToSet(seq) \ {e}
      <4>1. to(j) \in DOMAIN seq /\ to(j) # k /\ r[j] = seq[to(j)]
        BY <2>3
      <4>2. seq[to(j)] # seq[k]
        BY <2>2, <4>1 DEF IsInjective
      <4> QED
        BY <2>1, <4>1, <4>2 DEF ToSet
    <3>2. ASSUME NEW m \in DOMAIN seq, seq[m] # e
          PROVE  seq[m] \in ToSet(r)
      <4>1. PICK j \in DOMAIN r : to(j) = m
        BY <2>1, <2>5, <3>2
      <4> QED
        BY <2>3, <4>1 DEF ToSet
    <3> QED
      BY <3>1, <3>2 DEF ToSet
  <2> QED
    BY <2>1, <2>6, <2>7 DEF r
<1> QED
  BY <1>1, <1>2

(* A sorted list stays sorted.                                             *)
Sorted(seq) == \A j, k \in DOMAIN seq : j < k => seq[j] < seq[k]

(* A sorted list has no repetitions.                                       *)
LEMMA SortedIsInjective ==
  ASSUME NEW T \in SUBSET Nat, NEW seq \in Seq(T), Sorted(seq)
  PROVE  IsInjective(seq)
<1>1. ASSUME NEW j \in DOMAIN seq, NEW k \in DOMAIN seq, seq[j] = seq[k]
      PROVE  j = k
  <2>1. j \in Nat /\ k \in Nat /\ seq[j] \in Nat /\ seq[k] \in Nat
    <3>1. seq[j] \in T /\ seq[k] \in T /\ DOMAIN seq = 1 .. Len(seq) /\ Len(seq) \in Nat
      OBVIOUS
    <3>2. j \in Nat /\ k \in Nat
      BY <3>1
    <3>3. seq[j] \in Nat /\ seq[k] \in Nat
      BY <3>1, Zenon
    <3> QED
      BY <3>2, <3>3
  <2>2. ~ (j < k) /\ ~ (k < j)
    BY <1>1, <2>1 DEF Sorted
  <2> QED
    BY <2>1, <2>2
<1> QED
  BY <1>1 DEF IsInjective

(* list.remove keeps a list sorted.                                        *)
LEMMA RemoveFirstSorted ==
  ASSUME NEW T \in SUBSET Nat, NEW seq \in Seq(T), NEW e, Sorted(seq)
  PROVE  Sorted(RemoveFirst(seq, e))
<1>1. CASE e \notin ToSet(seq)
  BY <1>1, RemoveFirstNothing
<1>2. CASE e \in ToSet(seq)
  <2> DEFINE r == RemoveFirst(seq, e)
  <2>1. PICK k \in 1 .. Len(seq) :
          /\ seq[k] = e /\ r \in Seq(T) /\ Len(r) = Len(seq) - 1
          /\ \A j \in 1 .. Len(seq) - 1 : r[j] = IF j < k THEN seq[j] ELSE seq[j + 1]
    BY <1>2, RemoveFirstLaw
  <2> HIDE DEF r
  <2>2. Len(seq) \in Nat /\ DOMAIN seq = 1 .. Len(seq) /\ DOMAIN r = 1 .. Len(seq) - 1
    BY <2>1
  <2>3. ASSUME NEW j \in DOMAIN r, NEW m \in DOMAIN r, j < m
        PROVE  r[j] < r[m]
    <3> DEFINE to(x) == IF x < k THEN x ELSE x + 1
    <3>1. to(j) \in DOMAIN seq /\ to(m) \in DOMAIN seq /\ to(j) < to(m)
      BY <2>1, <2>2, <2>3
    <3>2. r[j] = seq[to(j)] /\ r[m] = seq[to(m)]
      BY <2>1, <2>2
    <3> QED
      BY <3>1, <3>2 DEF Sorted
  <2> QED
    BY <2>3 DEF Sorted, r
<1> QED
  BY <1>1, <1>2
-----------------------------------------------------------------------------
(* list.append of a new element.                                           *)
LEMMA AppendSet ==
  ASSUME NEW T, NEW seq \in Seq(T), NEW e \in T
  PROVE  /\ Append(seq, e) \in Seq(T)
         /\ ToSet(Append(seq, e)) = ToSet(seq) \cup {e}
         /\ IsInjective(seq) /\ e \notin ToSet(seq) => IsInjective(Append(seq, e))
<1> DEFINE r == Append(seq, e)
<1>1. /\ r \in Seq(T) /\ Len(r) = Len(seq) + 1 /\ Len(seq) \in Nat
      /\ \A j \in 1 .. Len(seq) : r[j] = seq[j]
      /\ r[Len(seq) + 1] = e
      /\ DOMAIN r = 1 .. Len(seq) + 1 /\ DOMAIN seq = 1 .. Len(seq)
  OBVIOUS
<1> HIDE DEF r
<1>2. \A j \in DOMAIN r : j \in DOMAIN seq \/ j = Len(seq) + 1
  BY <1>1
<1>3. ToSet(r) = ToSet(seq) \cup {e}
  <2>1. \A j \in DOMAIN r : r[j] \in ToSet(seq) \cup {e}
    BY <1>1, <1>2 DEF ToSet
  <2>2. \A j \in DOMAIN seq : j \in DOMAIN r /\ seq[j] = r[j]
    BY <1>1
  <2>3. Len(seq) + 1 \in DOMAIN r
    BY <1>1
  <2> QED
    BY <1>1, <2>1, <2>2, <2>3 DEF ToSet
<1>4. ASSUME IsInjective(seq), e \notin ToSet(seq)
      PROVE  IsInjective(r)
  <2>1. ASSUME NEW j \in DOMAIN r, NEW k \in DOMAIN r, r[j] = r[k]
        PROVE  j = k
    <3>1. CASE j \in DOMAIN seq /\ k \in DOMAIN seq
      BY <1>1, <1>4, <2>1, <3>1 DEF IsInjective
    <3>2. CASE j \in DOMAIN seq /\ k = Len(seq) + 1
      BY <1>1, <1>4, <2>1, <3>2 DEF ToSet
    <3>3. CASE k \in DOMAIN seq /\ j = Len(seq) + 1
      BY <1>1, <1>4, <2>1, <3>3 DEF ToSet
    <3> QED
      BY <1>2, <3>1, <3>2, <3>3
  <2> QED
    BY <2>1 DEF IsInjective
<1> QED
  BY <1>1, <1>3, <1>4 DEF r

(* list.insert after the first n elements.                                 *)
LEMMA InsertAtLaw ==
  ASSUME NEW T, NEW seq \in Seq(T), NEW e \in T, NEW n \in 0 .. Len(seq)
  PROVE  /\ InsertAt(seq, n + 1, e) \in Seq(T)
         /\ Len(InsertAt(seq, n + 1, e)) = Len(seq) + 1
         /\ \A j \in 1 .. Len(seq) + 1 :
              InsertAt(seq, n + 1, e)[j] =
                IF j <= n THEN seq[j] ELSE IF j = n + 1 THEN e ELSE seq[j - 1]
<1> DEFINE a == SubSeq(seq, 1, n)
           b == SubSeq(seq, n + 1, Len(seq))
<1>1. /\ a \in Seq(T) /\ Len(a) = n
      /\ \A j \in 1 .. n : a[j] = seq[j]
  OBVIOUS
<1>2. /\ b \in Seq(T) /\ Len(b) = Len(seq) - n
      /\ \A j \in 1 .. Len(seq) - n : b[j] = seq[j + n]
  OBVIOUS
<1>3. InsertAt(seq, n + 1, e) = (a \o <<e>>) \o b
  <2>1. (n + 1) - 1 = n
    OBVIOUS
  <2> QED
    BY <2>1 DEF InsertAt
<1> HIDE DEF a, b
<1> DEFINE c == a \o <<e>>
<1>4. /\ c \in Seq(T) /\ Len(c) = n + 1
      /\ \A j \in 1 .. n : c[j] = seq[j]
      /\ c[n + 1] = e
  BY <1>1
<1> HIDE DEF c
<1>5. c \o b \in Seq(T) /\ Len(c \o b) = Len(seq) + 1
  <2>1. c \o b \in Seq(T) /\ Len(c \o b) = Len(c) + Len(b)
    BY <1>2, <1>4, ConcatLaw
  <2> QED
    BY <1>2, <1>4, <2>1
<1>6. ASSUME NEW j \in 1 .. Len(seq) + 1
      PROVE  (c \o b)[j] = IF j <= n THEN seq[j] ELSE IF j = n + 1 THEN e ELSE seq[j - 1]
  <2>1. CASE j <= n + 1
    BY <1>2, <1>4, <2>1
  <2>2. CASE j > n + 1
    <3>0. j \in Nat /\ n \in Nat /\ Len(seq) \in Nat /\ j <= Len(seq) + 1
      OBVIOUS
    <3>1. (c \o b)[j] = b[j - (n + 1)]
      <4>1. j \in 1 .. Len(c) + Len(b) /\ ~ (j <= Len(c))
        BY <1>2, <1>4, <2>2, <3>0
      <4> QED
        BY <1>2, <1>4, <4>1, ConcatLaw
    <3>2. j - (n + 1) \in 1 .. Len(seq) - n /\ (j - (n + 1)) + n = j - 1
      BY <2>2, <3>0
    <3>3. b[j - (n + 1)] = seq[j - 1]
      BY <1>2, <3>2
    <3>4. ~ (j <= n) /\ j # n + 1
      BY <2>2, <3>0
    <3> QED
      BY <3>1, <3>3, <3>4
  <2>3. j \in Nat /\ n \in Nat
    OBVIOUS
  <2>4. j <= n + 1 \/ j > n + 1
    BY <2>3
  <2> HIDE DEF c
  <2> QED
    BY <2>1, <2>2, <2>4
<1>7. InsertAt(seq, n + 1, e) = c \o b
  BY <1>3 DEF c
<1> HIDE DEF c
<1>8. /\ c \o b \in Seq(T) /\ Len(c \o b) = Len(seq) + 1
      /\ \A j \in 1 .. Len(seq) + 1 :
           (c \o b)[j] = IF j <= n THEN seq[j] ELSE IF j = n + 1 THEN e ELSE seq[j - 1]
  BY <1>5, <1>6
<1> DEFINE r == InsertAt(seq, n + 1, e)
<1>9. r = c \o b
  BY <1>7
<1> HIDE DEF r
<1>10. /\ r \in Seq(T) /\ Len(r) = Len(seq) + 1
       /\ \A j \in 1 .. Len(seq) + 1 :
            r[j] = IF j <= n THEN seq[j] ELSE IF j = n + 1 THEN e ELSE seq[j - 1]
  BY <1>8, <1>9
<1> QED
  BY <1>10 DEF r

(* The list has one element more.                                          *)
LEMMA InsertAtSet ==
  ASSUME NEW T, NEW seq \in Seq(T), NEW e \in T, NEW n \in 0 .. Len(seq)
  PROVE  /\ InsertAt(seq, n + 1, e) \in Seq(T)
         /\ ToSet(InsertAt(seq, n + 1, e)) = ToSet(seq) \cup {e}
         /\ IsInjective(seq) /\ e \notin ToSet(seq) => IsInjective(InsertAt(seq, n + 1, e))
<1> DEFINE r == InsertAt(seq, n + 1, e)
           to(j) == IF j <= n THEN j ELSE j + 1
<1>1. /\ r \in Seq(T) /\ Len(r) = Len(seq) + 1
      /\ \A j \in 1 .. Len(seq) + 1 :
           r[j] = IF j <= n THEN seq[j] ELSE IF j = n + 1 THEN e ELSE seq[j - 1]
  BY InsertAtLaw
<1> HIDE DEF r
<1>2. /\ Len(seq) \in Nat /\ n \in Nat /\ n <= Len(seq)
      /\ DOMAIN r = 1 .. Len(seq) + 1 /\ DOMAIN seq = 1 .. Len(seq)
  BY <1>1
<1>3. \A j \in DOMAIN seq : to(j) \in DOMAIN r /\ r[to(j)] = seq[j]
  BY <1>1, <1>2
<1>4. n + 1 \in DOMAIN r /\ r[n + 1] = e
  BY <1>1, <1>2
<1>5. \A j \in DOMAIN r : j = n + 1 \/ \E k \in DOMAIN seq : j = to(k) /\ r[j] = seq[k]
  <2>1. ASSUME NEW j \in DOMAIN r, j # n + 1
        PROVE  \E k \in DOMAIN seq : j = to(k) /\ r[j] = seq[k]
    <3>1. CASE j <= n
      <4>1. j \in DOMAIN seq /\ j = to(j) /\ r[j] = seq[j]
        BY <1>1, <1>2, <3>1
      <4> QED
        BY <4>1
    <3>2. CASE j > n + 1
      <4>1. j - 1 \in DOMAIN seq /\ j = to(j - 1) /\ r[j] = seq[j - 1]
        BY <1>1, <1>2, <3>2
      <4> QED
        BY <4>1
    <3> QED
      BY <1>2, <2>1, <3>1, <3>2
  <2> QED
    BY <2>1
<1>6. ToSet(r) = ToSet(seq) \cup {e}
  <2>1. \A j \in DOMAIN r : r[j] \in ToSet(seq) \cup {e}
    BY <1>4, <1>5 DEF ToSet
  <2>2. \A j \in DOMAIN seq : seq[j] \in ToSet(r)
    BY <1>3 DEF ToSet
  <2>3. e \in ToSet(r)
    BY <1>4 DEF ToSet
  <2> QED
    BY <2>1, <2>2, <2>3 DEF ToSet
<1>7. ASSUME IsInjective(seq), e \notin ToSet(seq)
      PROVE  IsInjective(r)
  <2>1. ASSUME NEW j \in DOMAIN r, NEW m \in DOMAIN r, r[j] = r[m]
        PROVE  j = m
    <3>1. CASE j = n + 1 /\ m = n + 1
      BY <3>1
    <3>2. CASE j = n + 1 /\ m # n + 1
      BY <1>4, <1>5, <1>7, <2>1, <3>2 DEF ToSet
    <3>3. CASE j # n + 1 /\ m = n + 1
      BY <1>4, <1>5, <1>7, <2>1, <3>3 DEF ToSet
    <3>4. CASE j # n + 1 /\ m # n + 1
      <4>1. PICK a \in DOMAIN seq : j = to(a) /\ r[j] = seq[a]
        BY <1>5, <3>4
      <4>2. PICK b \in DOMAIN seq : m = to(b) /\ r[m] = seq[b]
        BY <1>5, <3>4
      <4>3. a = b
        BY <1>7, <2>1, <4>1, <4>2 DEF IsInjective
      <4> QED
        BY <4>1, <4>2, <4>3
    <3> QED
      BY <3>1, <3>2, <3>3, <3>4
  <2> QED
    BY <2>1 DEF IsInjective
<1> QED
  BY <1>1, <1>6, <1>7 DEF r

(* A list without repetitions is as long as the set of its elements.       *)
LEMMA LengthOfSet ==
  ASSUME NEW T, NEW seq \in Seq(T), IsInjective(seq)
  PROVE  IsFiniteSet(ToSet(seq)) /\ Cardinality(ToSet(seq)) = Len(seq)
<1>1. Len(seq) \in Nat /\ DOMAIN seq = 1 .. Len(seq)
  OBVIOUS
<1>2. seq \in Bijection(1 .. Len(seq), ToSet(seq))
  <2>1. seq \in [1 .. Len(seq) -> ToSet(seq)]
    BY <1>1 DEF ToSet
  <2>2. \A a, b \in 1 .. Len(seq) : seq[a] = seq[b] => a = b
    BY <1>1 DEF IsInjective
  <2>3. \A x \in ToSet(seq) : \E a \in 1 .. Len(seq) : seq[a] = x
    BY <1>1 DEF ToSet
  <2> QED
    BY <2>1, <2>2, <2>3 DEF Bijection, Injection, Surjection, IsInjective
<1> QED
  <2>1. ExistsBijection(1 .. Len(seq), ToSet(seq))
    BY <1>2 DEF ExistsBijection
  <2>2. IsFiniteSet(1 .. Len(seq)) /\ Cardinality(1 .. Len(seq)) = Len(seq)
    BY <1>1, FS_Interval
  <2> QED
    BY <2>1, <2>2, FS_Bijection

(* Induction on the natural numbers, the hypothesis of LoopInvariant.      *)
LEMMA Induction ==
  \A G \in SUBSET Nat : 0 \in G /\ (\A n \in G : n + 1 \in G) => G = Nat
  BY NatSetInduction

Halving == INSTANCE LoopLaws WITH Op <- LAMBDA greater, q, b, x : Halve(greater, b)

(* The binary search is a loop.                                            *)
LEMMA BisectIsLoop ==
  ASSUME NEW seq, NEW greater
  PROVE  Bisect(seq, greater)
           = Halving!Loop(greater, 0, [lo |-> 0, hi |-> Len(seq)], seq).lo
  BY DEF Bisect, FoldLeft, MapThenFoldSet, Max,
         Halving!Loop, Halving!MapThenFoldSet, Halving!Max

(* It ends inside the list and, when the greater elements are at the end,  *)
(* before the first of them.                                               *)
LEMMA BisectLaw ==
  ASSUME NEW T, NEW seq \in Seq(T), NEW greater,
         \A j, k \in 1 .. Len(seq) : j \in greater /\ j < k => k \in greater
  PROVE  /\ Bisect(seq, greater) \in 0 .. Len(seq)
         /\ \A j \in 1 .. Len(seq) : j \in greater <=> j > Bisect(seq, greater)
<1> DEFINE n == Len(seq)
           B == [lo : 0 .. n, hi : 0 .. n]
           Good(k, b) == /\ b.lo <= b.hi /\ b.hi - b.lo <= n - k
                         /\ \A j \in 1 .. n : j <= b.lo => j \notin greater
                         /\ \A j \in 1 .. n : j > b.hi => j \in greater
           J == [k \in 0 .. n |-> {b \in B : Good(k, b)}]
           base == [lo |-> 0, hi |-> n]
<1>1. n \in Nat
  OBVIOUS
<1>2. base \in J[0]
  BY <1>1
<1>3. ASSUME NEW k \in 1 .. n, NEW b \in J[k - 1]
      PROVE  Halve(greater, b) \in J[k]
  <2>1. k - 1 \in 0 .. n /\ k \in 0 .. n /\ k \in Nat
    BY <1>1
  <2>2. b \in B /\ Good(k - 1, b)
    BY <2>1
  <2>3. b.lo \in Nat /\ b.hi \in Nat /\ b.hi <= n
    BY <1>1, <2>2
  <2> DEFINE h == Halve(greater, b)
             mid == (b.lo + b.hi) \div 2
  <2>4. CASE b.lo >= b.hi
    <3>1. h = b
      BY <2>4 DEF Halve
    <3> QED
      BY <1>1, <2>1, <2>2, <2>3, <2>4, <3>1
  <2>5. CASE b.lo < b.hi
    <3>1. mid \in Nat /\ b.lo <= mid /\ mid < b.hi
      BY <2>3, <2>5
    <3>2. mid + 1 \in 1 .. n
      BY <1>1, <2>3, <3>1
    <3> HIDE DEF mid
    <3>3. CASE mid + 1 \in greater
      <4>1. h = [b EXCEPT !.hi = mid]
        BY <2>3, <2>5, <3>3 DEF Halve, mid
      <4>2. h \in B /\ h.lo = b.lo /\ h.hi = mid
        BY <1>1, <2>2, <2>3, <3>1, <4>1
      <4>3. \A j \in 1 .. n : j > mid => j \in greater
        <5>1. ASSUME NEW j \in 1 .. n, j > mid
              PROVE  j \in greater
          <6>1. j = mid + 1 \/ mid + 1 < j
            BY <1>1, <3>1, <5>1
          <6> QED
            BY <3>2, <3>3, <6>1
        <5> QED
          BY <5>1
      <4>4. Good(k, h)
        BY <1>1, <2>1, <2>2, <2>3, <3>1, <4>2, <4>3
      <4> HIDE DEF h, Good
      <4> QED
        BY <2>1, <4>2, <4>4 DEF h
    <3>4. CASE mid + 1 \notin greater
      <4>1. h = [b EXCEPT !.lo = mid + 1]
        BY <2>3, <2>5, <3>4 DEF Halve, mid
      <4>2. h \in B /\ h.hi = b.hi /\ h.lo = mid + 1
        BY <1>1, <2>2, <2>3, <3>1, <4>1
      <4>3. \A j \in 1 .. n : j <= mid + 1 => j \notin greater
        <5>1. ASSUME NEW j \in 1 .. n, j <= mid + 1
              PROVE  j \notin greater
          <6>1. j = mid + 1 \/ j < mid + 1
            BY <1>1, <3>1, <5>1
          <6> QED
            BY <3>2, <3>4, <6>1
        <5> QED
          BY <5>1
      <4>4. Good(k, h)
        BY <1>1, <2>1, <2>2, <2>3, <3>1, <4>2, <4>3
      <4> HIDE DEF h, Good
      <4> QED
        BY <2>1, <4>2, <4>4 DEF h
    <3> QED
      BY <3>3, <3>4
  <2> QED
    BY <2>3, <2>4, <2>5
<1> HIDE DEF J
<1>4. Halving!Loop(greater, 0, base, seq) \in J[n]
  BY <1>2, <1>3, Induction, Halving!LoopInvariant
<1> DEFINE e == Halving!Loop(greater, 0, base, seq)
<1> HIDE DEF e
<1>5. e \in B /\ Good(n, e)
  BY <1>1, <1>4 DEF J, e
<1>6. e.lo \in 0 .. n /\ e.lo = e.hi
  BY <1>1, <1>5
<1>7. Bisect(seq, greater) = e.lo
  BY BisectIsLoop DEF e
<1> QED
  BY <1>1, <1>5, <1>6, <1>7

(* In any list, sorted or not, it ends inside.                             *)
LEMMA BisectInside ==
  ASSUME NEW T, NEW seq \in Seq(T), NEW greater
  PROVE  Bisect(seq, greater) \in 0 .. Len(seq)
<1> DEFINE n == Len(seq)
           B == {b \in [lo : 0 .. n, hi : 0 .. n] : b.lo <= b.hi}
           J == [k \in 0 .. n |-> B]
           base == [lo |-> 0, hi |-> n]
<1>1. n \in Nat
  OBVIOUS
<1>2. base \in J[0]
  BY <1>1
<1>3. ASSUME NEW k \in 1 .. n, NEW b \in J[k - 1]
      PROVE  Halve(greater, b) \in J[k]
  <2>1. k - 1 \in 0 .. n /\ k \in 0 .. n /\ k \in Nat
    BY <1>1
  <2>2. b \in B
    BY <2>1
  <2>3. b.lo \in Nat /\ b.hi \in Nat /\ b.hi <= n
    BY <1>1, <2>2
  <2> DEFINE h == Halve(greater, b)
             mid == (b.lo + b.hi) \div 2
  <2>4. CASE b.lo >= b.hi
    <3>1. h = b
      BY <2>4 DEF Halve
    <3> QED
      BY <2>1, <2>2, <3>1
  <2>5. CASE b.lo < b.hi
    <3>1. mid \in Nat /\ b.lo <= mid /\ mid < b.hi
      BY <2>3, <2>5
    <3> HIDE DEF mid
    <3>2. h = [b EXCEPT !.hi = mid] \/ h = [b EXCEPT !.lo = mid + 1]
      BY <2>3, <2>5 DEF Halve, mid
    <3>3. CASE h = [b EXCEPT !.hi = mid]
      <4>1. h.lo = b.lo /\ h.hi = mid /\ h \in [lo : 0 .. n, hi : 0 .. n]
        BY <1>1, <2>2, <2>3, <3>1, <3>3
      <4> HIDE DEF h
      <4> QED
        BY <2>1, <3>1, <4>1 DEF h
    <3>4. CASE h = [b EXCEPT !.lo = mid + 1]
      <4>1. h.lo = mid + 1 /\ h.hi = b.hi /\ h \in [lo : 0 .. n, hi : 0 .. n]
        BY <1>1, <2>2, <2>3, <3>1, <3>4
      <4> HIDE DEF h
      <4> QED
        BY <1>1, <2>1, <2>3, <3>1, <4>1 DEF h
    <3> QED
      BY <3>2, <3>3, <3>4
  <2> QED
    BY <2>3, <2>4, <2>5
<1> HIDE DEF J
<1>4. Halving!Loop(greater, 0, base, seq) \in J[n]
  BY <1>2, <1>3, Induction, Halving!LoopInvariant
<1> DEFINE e == Halving!Loop(greater, 0, base, seq)
<1> HIDE DEF e
<1>5. e \in B
  BY <1>1, <1>4 DEF J, e
<1>6. Bisect(seq, greater) = e.lo
  BY BisectIsLoop DEF e
<1> QED
  BY <1>1, <1>5, <1>6

(* The types.                                                              *)
NodeStates == {"NONE", "QUEUED", "RUNNING", "BLOCKED", "COMPLETED"}

QueueType ==
  [pending : Seq(TaskNodes), prompts : Seq(TaskNodes), blocked : Seq(TaskNodes),
   pool : Seq(Requests), batch : Seq(TaskNodes), batchTokens : Int,
   iterations : Int, elapsed : Int, pausing : BOOLEAN, handle : BOOLEAN]

StateType ==
  [inst : [Instances -> QueueType], node : [Nodes -> NodeStates],
   generated : [TaskNodes -> Int], preempted : [TaskNodes -> Nat],
   alloc : [Instances -> [Requests -> Int]], memory : [Requests -> Nat],
   free : SUBSET Instances, crashed : BOOLEAN]

WithQueue(s, i, q) == [s EXCEPT !.inst[i] = q]

(* The state of a run, which the operations on queues leave alone.         *)
SameRun(q, u) ==
  /\ u.batchTokens = q.batchTokens /\ u.iterations = q.iterations
  /\ u.elapsed = q.elapsed /\ u.pausing = q.pausing /\ u.handle = q.handle

SameTasks(s, a) ==
  /\ a.node = s.node /\ a.generated = s.generated /\ a.preempted = s.preempted
  /\ a.alloc = s.alloc /\ a.memory = s.memory /\ a.crashed = s.crashed

(* The state of an instance is replaced.                                   *)
LEMMA WithQueueLaw ==
  ASSUME NEW s \in StateType, NEW i \in Instances, NEW q \in QueueType
  PROVE  /\ WithQueue(s, i, q) \in StateType
         /\ WithQueue(s, i, q).inst[i] = q
         /\ \A j \in Instances \ {i} : WithQueue(s, i, q).inst[j] = s.inst[j]
         /\ SameTasks(s, WithQueue(s, i, q))
         /\ WithQueue(s, i, q).free = s.free
  BY DEF WithQueue, StateType, SameTasks

(* Twice.                                                                  *)
LEMMA WithQueueTwice ==
  ASSUME NEW s \in StateType, NEW i \in Instances, NEW q \in QueueType, NEW u \in QueueType
  PROVE  WithQueue(WithQueue(s, i, q), i, u) = WithQueue(s, i, u)
  BY DEF WithQueue, StateType

(* The types of the queues of an instance.                                 *)
LEMMA QueueFields ==
  ASSUME NEW s \in StateType, NEW i \in Instances
  PROVE  /\ s.inst[i] \in QueueType
         /\ s.inst[i].pending \in Seq(TaskNodes) /\ s.inst[i].prompts \in Seq(TaskNodes)
         /\ s.inst[i].blocked \in Seq(TaskNodes) /\ s.inst[i].batch \in Seq(TaskNodes)
         /\ s.inst[i].pool \in Seq(Requests)
         /\ s.inst[i].batchTokens \in Int /\ s.inst[i].iterations \in Int
         /\ s.inst[i].elapsed \in Int
         /\ s.inst[i].pausing \in BOOLEAN /\ s.inst[i].handle \in BOOLEAN
  BY DEF StateType, QueueType

(* add_pending_task.                                                       *)
LEMMA AddPendingLaw ==
  ASSUME NEW s \in StateType, NEW i \in Instances, NEW t \in TaskNodes
  PROVE  \E u \in QueueType :
           /\ AddPending(s, i, t) = WithQueue(s, i, u)
           /\ ToSet(u.pending) = ToSet(s.inst[i].pending) \cup {t}
           /\ IsInjective(s.inst[i].pending) /\ t \notin ToSet(s.inst[i].pending)
                => IsInjective(u.pending)
           /\ u.prompts = IF IsPrompt(t) THEN Append(s.inst[i].prompts, t)
                          ELSE s.inst[i].prompts
           /\ u.blocked = s.inst[i].blocked /\ u.batch = s.inst[i].batch
           /\ u.pool = s.inst[i].pool /\ SameRun(s.inst[i], u)
<1> DEFINE q == s.inst[i]
           greater == {k \in DOMAIN q.pending :
                         \/ s.preempted[t] < s.preempted[q.pending[k]]
                         \/ /\ s.preempted[t] = s.preempted[q.pending[k]]
                            /\ t.req < q.pending[k].req}
           p == IF i \in Orca THEN Append(q.pending, t)
                ELSE InsertAt(q.pending, Bisect(q.pending, greater) + 1, t)
           r == IF IsPrompt(t) THEN Append(q.prompts, t) ELSE q.prompts
           u == [q EXCEPT !.pending = p, !.prompts = r]
<1>1. q \in QueueType /\ q.pending \in Seq(TaskNodes) /\ q.prompts \in Seq(TaskNodes)
  BY QueueFields
<1>2. Bisect(q.pending, greater) \in 0 .. Len(q.pending)
  <2> HIDE DEF greater, q
  <2> QED
    BY <1>1, BisectInside
<1>3. AddPending(s, i, t) = [s EXCEPT !.inst[i].pending = p, !.inst[i].prompts = r]
  BY DEF AddPending, InsertByKey, StateType
<1>4. /\ p \in Seq(TaskNodes)
      /\ ToSet(p) = ToSet(q.pending) \cup {t}
      /\ IsInjective(q.pending) /\ t \notin ToSet(q.pending) => IsInjective(p)
  <2> HIDE DEF greater, q
  <2> QED
    BY <1>1, <1>2, AppendSet, InsertAtSet
<1>5. r \in Seq(TaskNodes)
  BY <1>1
<1> HIDE DEF p, r
<1>6. u \in QueueType
  BY <1>1, <1>4, <1>5 DEF QueueType
<1>7. /\ u.pending = p /\ u.prompts = r
      /\ u.blocked = q.blocked /\ u.batch = q.batch /\ u.pool = q.pool /\ SameRun(q, u)
  BY <1>1 DEF QueueType, SameRun
<1>8. AddPending(s, i, t) = WithQueue(s, i, u)
  BY <1>3 DEF WithQueue, StateType
<1> HIDE DEF u
<1> QED
  BY <1>4, <1>6, <1>7, <1>8 DEF r

(* A task is the prompt or the token task of its request.                  *)
LEMMA TaskParts ==
  ASSUME NEW t \in TaskNodes
  PROVE  /\ t.req \in Requests /\ t \in Nodes
         /\ t = Prompt(t.req) \/ t = Token(t.req)
         /\ IsPrompt(t) <=> t = Prompt(t.req)
         /\ IsPrompt(t) \/ t = Token(t.req)
         /\ t # Flow(t.req)
  BY DEF TaskNodes, Nodes, Prompt, Token, Flow, IsPrompt

(* The three nodes of a request are different.                             *)
LEMMA NodesOfRequests ==
  ASSUME NEW r \in Requests
  PROVE  /\ Prompt(r) \in TaskNodes /\ Token(r) \in TaskNodes
         /\ Prompt(r) \in Nodes /\ Token(r) \in Nodes /\ Flow(r) \in Nodes
         /\ Flow(r) \notin TaskNodes
         /\ Prompt(r) # Token(r) /\ IsPrompt(Prompt(r)) /\ ~ IsPrompt(Token(r))
         /\ Prompt(r).req = r /\ Token(r).req = r /\ Flow(r).req = r
  BY DEF TaskNodes, Nodes, Prompt, Token, Flow, IsPrompt

(* preempt_task.                                                           *)
LEMMA PreemptTaskLaw ==
  ASSUME NEW s \in StateType, NEW i \in Instances, NEW t \in TaskNodes,
         IsInjective(s.inst[i].batch)
  PROVE  \E u \in QueueType :
           /\ PreemptTask(s, i, t) = WithQueue([s EXCEPT !.node[t] = "BLOCKED"], i, u)
           /\ ToSet(u.pending) = ToSet(s.inst[i].pending) \cup {t}
           /\ IsInjective(s.inst[i].pending) /\ t \notin ToSet(s.inst[i].pending)
                => IsInjective(u.pending)
           /\ u.prompts = IF IsPrompt(t) THEN Append(s.inst[i].prompts, t)
                          ELSE s.inst[i].prompts
           /\ u.blocked = Append(s.inst[i].blocked, t)
           /\ u.batch = RemoveFirst(s.inst[i].batch, t)
           /\ u.pool = s.inst[i].pool /\ SameRun(s.inst[i], u)
<1> DEFINE q == s.inst[i]
           a == [s EXCEPT !.node[t] = "BLOCKED"]
           v == [q EXCEPT !.batch = RemoveFirst(q.batch, t)]
           b == RemoveFromBatch(a, i, t)
<1>1. q \in QueueType /\ q.batch \in Seq(TaskNodes) /\ q.blocked \in Seq(TaskNodes)
  BY QueueFields
<1>2. a \in StateType /\ a.inst = s.inst
  BY TaskParts DEF StateType, NodeStates
<1>3. v \in QueueType
  <2>1. RemoveFirst(q.batch, t) \in Seq(TaskNodes)
    BY <1>1, RemoveFirstSet
  <2> HIDE DEF q
  <2> QED
    BY <1>1, <2>1 DEF QueueType
<1>4. b = WithQueue(a, i, v)
  <2> HIDE DEF a
  <2> QED
    BY <1>2 DEF RemoveFromBatch, WithQueue, StateType
<1> HIDE DEF a
<1>5. b \in StateType /\ b.inst[i] = v
  <2> HIDE DEF b, v
  <2> QED
    BY <1>2, <1>3, <1>4, WithQueueLaw
<1>6. PICK w \in QueueType :
        /\ AddPending(b, i, t) = WithQueue(b, i, w)
        /\ ToSet(w.pending) = ToSet(v.pending) \cup {t}
        /\ IsInjective(v.pending) /\ t \notin ToSet(v.pending) => IsInjective(w.pending)
        /\ w.prompts = IF IsPrompt(t) THEN Append(v.prompts, t) ELSE v.prompts
        /\ w.blocked = v.blocked /\ w.batch = v.batch
        /\ w.pool = v.pool /\ SameRun(v, w)
  <2> HIDE DEF b, v
  <2>1. \E w \in QueueType :
           /\ AddPending(b, i, t) = WithQueue(b, i, w)
           /\ ToSet(w.pending) = ToSet(b.inst[i].pending) \cup {t}
           /\ IsInjective(b.inst[i].pending) /\ t \notin ToSet(b.inst[i].pending)
                => IsInjective(w.pending)
           /\ w.prompts = IF IsPrompt(t) THEN Append(b.inst[i].prompts, t)
                          ELSE b.inst[i].prompts
           /\ w.blocked = b.inst[i].blocked /\ w.batch = b.inst[i].batch
           /\ w.pool = b.inst[i].pool /\ SameRun(b.inst[i], w)
    BY <1>5, AddPendingLaw
  <2> QED
    BY <1>5, <2>1
<1> DEFINE u == [w EXCEPT !.blocked = Append(q.blocked, t)]
<1>7. v.pending = q.pending /\ v.prompts = q.prompts /\ v.blocked = q.blocked
      /\ v.batch = RemoveFirst(q.batch, t) /\ v.pool = q.pool /\ SameRun(q, v)
  <2> HIDE DEF q
  <2> QED
    BY <1>1 DEF QueueType, SameRun
<1> HIDE DEF v
<1>8. /\ u \in QueueType
      /\ u.pending = w.pending /\ u.prompts = w.prompts /\ u.blocked = Append(q.blocked, t)
      /\ u.batch = w.batch /\ u.pool = w.pool /\ SameRun(w, u)
  <2>1. Append(q.blocked, t) \in Seq(TaskNodes)
    BY <1>1
  <2> DEFINE y == Append(q.blocked, t)
  <2> HIDE DEF q, y
  <2>2. u = [w EXCEPT !.blocked = y]
    BY DEF y
  <2> HIDE DEF u
  <2>3. /\ u \in QueueType
        /\ u.pending = w.pending /\ u.prompts = w.prompts /\ u.blocked = y
        /\ u.batch = w.batch /\ u.pool = w.pool /\ SameRun(w, u)
    BY <1>6, <2>1, <2>2 DEF QueueType, SameRun, y
  <2> QED
    BY <2>3 DEF y
<1>9. PreemptTask(s, i, t) = WithQueue(a, i, u)
  <2>1. PreemptTask(s, i, t)
          = [AddPending(b, i, t) EXCEPT !.inst[i].blocked = Append(@, t)]
    BY DEF PreemptTask, a
  <2> HIDE DEF b
  <2>2. AddPending(b, i, t) = [b EXCEPT !.inst[i] = w]
    BY <1>6 DEF WithQueue
  <2>3. w.blocked = q.blocked
    BY <1>6, <1>7
  <2>4. PreemptTask(s, i, t) = [b EXCEPT !.inst[i] = u]
    <3> HIDE DEF q
    <3> QED
      BY <1>5, <2>1, <2>2, <2>3 DEF StateType
  <2>5. b = [a EXCEPT !.inst[i] = v]
    BY <1>4 DEF WithQueue
  <2> HIDE DEF u, q
  <2> QED
    BY <1>2, <2>4, <2>5 DEF WithQueue, StateType
<1> QED
  <2> HIDE DEF u
  <2>1. SameRun(q, u)
    BY <1>6, <1>7, <1>8 DEF SameRun
  <2> QED
    BY <1>6, <1>7, <1>8, <1>9, <2>1 DEF a

(* remove_pending_task and add_to_batch.                                   *)
LEMMA AdmitTaskLaw ==
  ASSUME NEW s \in StateType, NEW i \in Instances, NEW t \in TaskNodes,
         IsInjective(s.inst[i].pending), IsInjective(s.inst[i].prompts),
         IsInjective(s.inst[i].blocked)
  PROVE  \E u \in QueueType :
           /\ AdmitTask(s, i, t) = WithQueue(s, i, u)
           /\ u.pending = RemoveFirst(s.inst[i].pending, t)
           /\ u.prompts = RemoveFirst(s.inst[i].prompts, t)
           /\ u.blocked = RemoveFirst(s.inst[i].blocked, t)
           /\ u.batch = Append(s.inst[i].batch, t)
           /\ u.pool = s.inst[i].pool /\ SameRun(s.inst[i], u)
<1> DEFINE q == s.inst[i]
           p == RemoveFirst(q.pending, t)
           b == RemoveFirst(q.blocked, t)
           r == RemoveFirst(q.prompts, t)
           n == Append(q.batch, t)
           v == [q EXCEPT !.pending = p, !.blocked = b, !.prompts = r]
           u == [v EXCEPT !.batch = n]
<1>1. /\ q \in QueueType /\ q.pending \in Seq(TaskNodes) /\ q.prompts \in Seq(TaskNodes)
      /\ q.blocked \in Seq(TaskNodes) /\ q.batch \in Seq(TaskNodes)
  BY QueueFields
<1>2. /\ p \in Seq(TaskNodes) /\ b \in Seq(TaskNodes) /\ r \in Seq(TaskNodes)
      /\ n \in Seq(TaskNodes)
  BY <1>1, RemoveFirstSet
<1>3. RemovePending(s, i, t) = WithQueue(s, i, v)
  BY DEF RemovePending, WithQueue, StateType
<1> HIDE DEF p, b, r, n
<1>4. v \in QueueType /\ u \in QueueType
  <2> HIDE DEF q
  <2>1. v \in QueueType
    BY <1>1, <1>2 DEF QueueType
  <2> HIDE DEF v
  <2>2. u \in QueueType
    BY <1>2, <2>1 DEF QueueType
  <2> QED
    BY <2>1, <2>2
<1>5. /\ u.pending = p /\ u.prompts = r /\ u.blocked = b /\ u.batch = n
      /\ u.pool = q.pool /\ SameRun(q, u) /\ v.batch = q.batch
  <2> HIDE DEF q
  <2> QED
    BY <1>1 DEF QueueType, SameRun
<1>6. AdmitTask(s, i, t) = WithQueue(s, i, u)
  <2>1. WithQueue(s, i, v).inst[i].batch = q.batch /\ WithQueue(s, i, v) \in StateType
        /\ WithQueue(s, i, v).inst[i] = v
    <3> HIDE DEF v, q
    <3> QED
      BY <1>4, <1>5, WithQueueLaw
  <2>2. AddToBatch(WithQueue(s, i, v), i, t) = WithQueue(WithQueue(s, i, v), i, u)
    <3> DEFINE z == WithQueue(s, i, v)
    <3>1. z \in StateType /\ z.inst[i] = v
      BY <2>1
    <3>2. AddToBatch(z, i, t)
            = WithQueue(z, i, [z.inst[i] EXCEPT !.batch = Append(z.inst[i].batch, t)])
      <4> HIDE DEF z
      <4> QED
        BY <3>1 DEF AddToBatch, WithQueue, StateType
    <3>3. [z.inst[i] EXCEPT !.batch = Append(z.inst[i].batch, t)] = u
      <4> HIDE DEF z, v
      <4> QED
        BY <1>5, <3>1 DEF n
    <3> HIDE DEF z, u
    <3> QED
      BY <3>2, <3>3 DEF z
  <2> HIDE DEF u, v
  <2>3. WithQueue(WithQueue(s, i, v), i, u) = WithQueue(s, i, u)
    BY <1>4, WithQueueTwice
  <2> QED
    BY <1>3, <2>2, <2>3 DEF AdmitTask
<1> HIDE DEF u
<1> QED
  BY <1>4, <1>5, <1>6 DEF p, b, r, n

(* add_to_pool.                                                            *)
LEMMA AddToPoolLaw ==
  ASSUME NEW s \in StateType, NEW i \in Instances, NEW t \in TaskNodes,
         Sorted(s.inst[i].pool)
  PROVE  \E u \in QueueType :
           /\ AddToPool(s, i, t) = WithQueue(s, i, u)
           /\ ToSet(u.pool) = ToSet(s.inst[i].pool) \cup {t.req}
           /\ Sorted(u.pool)
           /\ u.pending = s.inst[i].pending /\ u.prompts = s.inst[i].prompts
           /\ u.blocked = s.inst[i].blocked /\ u.batch = s.inst[i].batch
           /\ SameRun(s.inst[i], u)
<1> DEFINE q == s.inst[i]
<1>1. q \in QueueType /\ q.pool \in Seq(Requests) /\ t.req \in Requests
      /\ Requests \subseteq Nat
  BY QueueFields, TaskParts, InstanceAssumption
<1>2. DOMAIN q.pool = 1 .. Len(q.pool) /\ Len(q.pool) \in Nat
  BY <1>1
<1>3. CASE Contains(q.pool, t.req)
  <2>1. AddToPool(s, i, t) = s
    BY <1>3 DEF AddToPool
  <2>2. s = WithQueue(s, i, q)
    BY DEF WithQueue, StateType
  <2>3. t.req \in ToSet(q.pool)
    BY <1>2, <1>3 DEF Contains, ToSet
  <2>4. ToSet(q.pool) = ToSet(q.pool) \cup {t.req}
    BY <2>3
  <2>5. SameRun(q, q)
    BY DEF SameRun
  <2> HIDE DEF q
  <2>6. q \in QueueType /\ AddToPool(s, i, t) = WithQueue(s, i, q) /\ Sorted(q.pool)
    BY <1>1, <2>1, <2>2 DEF q
  <2> QED
    BY <2>4, <2>5, <2>6 DEF q
<1>4. CASE ~ Contains(q.pool, t.req)
  <2> DEFINE greater == {k \in DOMAIN q.pool : t.req < q.pool[k]}
             n == Bisect(q.pool, greater)
             p == InsertAt(q.pool, n + 1, t.req)
             u == [q EXCEPT !.pool = p]
  <2>1. \A j, k \in 1 .. Len(q.pool) : j \in greater /\ j < k => k \in greater
    <3>1. ASSUME NEW j \in 1 .. Len(q.pool), NEW k \in 1 .. Len(q.pool), j \in greater, j < k
          PROVE  k \in greater
      <4>1. q.pool[j] \in Nat /\ q.pool[k] \in Nat /\ t.req \in Nat
        <5>1. q.pool[j] \in Requests /\ q.pool[k] \in Requests
          BY <1>1
        <5> QED
          BY <1>1, <5>1, Zenon
      <4>2. q.pool[j] < q.pool[k]
        BY <1>2, <3>1 DEF Sorted
      <4> QED
        BY <1>2, <3>1, <4>1, <4>2
    <3> QED
      BY <3>1
  <2>2. n \in 0 .. Len(q.pool) /\ \A j \in 1 .. Len(q.pool) : j \in greater <=> j > n
    <3> HIDE DEF greater, q
    <3> QED
      BY <1>1, <2>1, BisectLaw
  <2>3. AddToPool(s, i, t) = [s EXCEPT !.inst[i].pool = p]
    BY <1>4 DEF AddToPool, InsertByKey, StateType
  <2> HIDE DEF n
  <2>4. /\ p \in Seq(Requests)
        /\ ToSet(p) = ToSet(q.pool) \cup {t.req}
        /\ Len(p) = Len(q.pool) + 1
        /\ \A j \in 1 .. Len(q.pool) + 1 :
             p[j] = IF j <= n THEN q.pool[j] ELSE IF j = n + 1 THEN t.req ELSE q.pool[j - 1]
    <3> DEFINE sq == q.pool
               e == t.req
    <3>0. sq \in Seq(Requests) /\ e \in Requests /\ n \in 0 .. Len(sq)
          /\ p = InsertAt(sq, n + 1, e)
      BY <1>1, <2>2
    <3> HIDE DEF sq, e, p
    <3>1. /\ p \in Seq(Requests)
          /\ ToSet(p) = ToSet(sq) \cup {e}
      <4>1. \A x \in Requests : \A m \in 0 .. Len(sq) :
              /\ InsertAt(sq, m + 1, x) \in Seq(Requests)
              /\ ToSet(InsertAt(sq, m + 1, x)) = ToSet(sq) \cup {x}
        BY <3>0, InsertAtSet
      <4> QED
        BY <3>0, <4>1
    <3>2. /\ Len(p) = Len(sq) + 1
          /\ \A j \in 1 .. Len(sq) + 1 :
             p[j] = IF j <= n THEN sq[j] ELSE IF j = n + 1 THEN e ELSE sq[j - 1]
      <4>1. \A x \in Requests : \A m \in 0 .. Len(sq) :
              /\ Len(InsertAt(sq, m + 1, x)) = Len(sq) + 1
              /\ \A j \in 1 .. Len(sq) + 1 :
                   InsertAt(sq, m + 1, x)[j] =
                     IF j <= m THEN sq[j] ELSE IF j = m + 1 THEN x ELSE sq[j - 1]
        BY <3>0, InsertAtLaw
      <4> QED
        BY <3>0, <4>1
    <3> USE DEF sq, e
    <3> QED
      BY <3>1, <3>2
  <2>5. Sorted(p)
    <3>0. \A j \in 1 .. Len(q.pool) :
            /\ q.pool[j] \in Nat
            /\ (j <= n => q.pool[j] < t.req) /\ (j > n => t.req < q.pool[j])
      <4>1. ASSUME NEW j \in 1 .. Len(q.pool)
            PROVE  /\ q.pool[j] \in Nat
                   /\ (j <= n => q.pool[j] < t.req) /\ (j > n => t.req < q.pool[j])
        <5>1. q.pool[j] \in Requests
          BY <1>1
        <5>2. q.pool[j] \in Nat /\ t.req \in Nat
          BY <1>1, <5>1, Zenon
        <5>3. q.pool[j] # t.req
          BY <1>4 DEF Contains
        <5>4. j > n => t.req < q.pool[j]
          BY <2>2
        <5>5. j <= n => ~ (t.req < q.pool[j])
          BY <1>2, <2>2
        <5> QED
          BY <5>2, <5>3, <5>4, <5>5
      <4> QED
        BY <4>1
    <3>1. ASSUME NEW j \in 1 .. Len(q.pool) + 1, NEW k \in 1 .. Len(q.pool) + 1, j < k
          PROVE  p[j] < p[k]
      <4>0. n \in Nat /\ n <= Len(q.pool)
        BY <1>2, <2>2
      <4>1. CASE k <= n
        <5>1. j \in 1 .. Len(q.pool) /\ k \in 1 .. Len(q.pool) /\ p[j] = q.pool[j] /\ p[k] = q.pool[k]
          BY <1>2, <2>4, <3>1, <4>0, <4>1
        <5> QED
          BY <1>2, <3>1, <5>1 DEF Sorted
      <4>2. CASE k = n + 1
        <5>1. j \in 1 .. Len(q.pool) /\ j <= n /\ p[j] = q.pool[j] /\ p[k] = t.req
          BY <1>2, <2>4, <3>1, <4>0, <4>2
        <5> QED
          BY <3>0, <5>1
      <4>3. CASE k > n + 1 /\ j <= n
        <5>1. /\ j \in 1 .. Len(q.pool) /\ k - 1 \in 1 .. Len(q.pool)
              /\ p[j] = q.pool[j] /\ p[k] = q.pool[k - 1] /\ j < k - 1
          BY <1>2, <2>4, <3>1, <4>0, <4>3
        <5> QED
          BY <1>2, <5>1 DEF Sorted
      <4>4. CASE k > n + 1 /\ j = n + 1
        <5>1. k - 1 \in 1 .. Len(q.pool) /\ p[j] = t.req /\ p[k] = q.pool[k - 1] /\ k - 1 > n
          BY <1>2, <2>4, <3>1, <4>0, <4>4
        <5> QED
          BY <3>0, <5>1
      <4>5. CASE k > n + 1 /\ j > n + 1
        <5>1. /\ j - 1 \in 1 .. Len(q.pool) /\ k - 1 \in 1 .. Len(q.pool)
              /\ j - 1 < k - 1
          BY <1>2, <2>4, <3>1, <4>0, <4>5
        <5>2. p[j] = q.pool[j - 1] /\ p[k] = q.pool[k - 1]
          BY <1>2, <2>4, <3>1, <4>0, <4>5
        <5> QED
          BY <1>2, <5>1, <5>2 DEF Sorted
      <4> QED
        BY <1>2, <3>1, <4>0, <4>1, <4>2, <4>3, <4>4, <4>5
    <3>2. DOMAIN p = 1 .. Len(q.pool) + 1
      BY <2>4
    <3> HIDE DEF p
    <3> QED
      BY <3>1, <3>2 DEF Sorted
  <2> HIDE DEF p
  <2>6. /\ u \in QueueType /\ u.pool = p
        /\ u.pending = q.pending /\ u.prompts = q.prompts
        /\ u.blocked = q.blocked /\ u.batch = q.batch /\ SameRun(q, u)
    <3> HIDE DEF q
    <3> QED
      BY <1>1, <2>4 DEF QueueType, SameRun
  <2>7. AddToPool(s, i, t) = WithQueue(s, i, u)
    BY <2>3 DEF WithQueue, StateType
  <2> HIDE DEF u, q
  <2> QED
    BY <2>4, <2>5, <2>6, <2>7 DEF q
<1> QED
  BY <1>3, <1>4

(* The queue without a request in its pool.                                *)
LEMMA LeavePoolLaw ==
  ASSUME NEW s \in StateType, NEW i \in Instances, NEW r,
         Sorted(s.inst[i].pool)
  PROVE  \E u \in QueueType :
           /\ [s EXCEPT !.inst[i].pool = RemoveFirst(@, r)] = WithQueue(s, i, u)
           /\ ToSet(u.pool) = ToSet(s.inst[i].pool) \ {r}
           /\ Sorted(u.pool)
           /\ u.pending = s.inst[i].pending /\ u.prompts = s.inst[i].prompts
           /\ u.blocked = s.inst[i].blocked /\ u.batch = s.inst[i].batch
           /\ SameRun(s.inst[i], u)
<1> DEFINE q == s.inst[i]
           p == RemoveFirst(q.pool, r)
           u == [q EXCEPT !.pool = p]
<1>1. q \in QueueType /\ q.pool \in Seq(Requests) /\ Requests \in SUBSET Nat
  BY QueueFields, InstanceAssumption
<1>2. IsInjective(q.pool)
  BY <1>1, SortedIsInjective
<1>3. /\ p \in Seq(Requests) /\ ToSet(p) = ToSet(q.pool) \ {r} /\ Sorted(p)
  <2> HIDE DEF q
  <2>1. p \in Seq(Requests) /\ ToSet(p) = ToSet(q.pool) \ {r}
    BY <1>1, <1>2, RemoveFirstSet
  <2>2. Sorted(q.pool)
    BY DEF q
  <2> QED
    BY <1>1, <2>1, <2>2, RemoveFirstSorted
<1>4. [s EXCEPT !.inst[i].pool = RemoveFirst(@, r)] = WithQueue(s, i, u)
  BY DEF WithQueue, StateType
<1> HIDE DEF p
<1>5. /\ u \in QueueType /\ u.pool = p
      /\ u.pending = q.pending /\ u.prompts = q.prompts
      /\ u.blocked = q.blocked /\ u.batch = q.batch /\ SameRun(q, u)
  <2> HIDE DEF q
  <2> QED
    BY <1>1, <1>3 DEF QueueType, SameRun
<1> HIDE DEF u
<1> QED
  BY <1>3, <1>4, <1>5

(* The queues q of an instance with the tasks at, some of which run.       *)
Sound(q, nd, at) ==
  /\ IsInjective(q.pending) /\ IsInjective(q.prompts)
  /\ IsInjective(q.blocked) /\ IsInjective(q.batch) /\ Sorted(q.pool)
  /\ ToSet(q.pending) = at \ ToSet(q.batch) /\ ToSet(q.batch) \subseteq at
  /\ \A t \in ToSet(q.pending) : nd[t] \in {"QUEUED", "BLOCKED"}
  /\ ToSet(q.blocked) = {t \in ToSet(q.pending) : nd[t] = "BLOCKED"}
  /\ ToSet(q.prompts) = {t \in ToSet(q.pending) : IsPrompt(t)}
  /\ ToSet(q.pool) = {t.req : t \in at}

(* What an operation on the queues of i and on node states leaves alone.   *)
Beside(s, a, i) ==
  /\ \A j \in Instances \ {i} : a.inst[j] = s.inst[j]
  /\ a.generated = s.generated /\ a.preempted = s.preempted
  /\ a.alloc = s.alloc /\ a.memory = s.memory /\ a.crashed = s.crashed
  /\ a.free = s.free

(* The state of an instance is replaced, and that of one node.             *)
LEMMA WithQueueAndNode ==
  ASSUME NEW s \in StateType, NEW i \in Instances, NEW q \in QueueType,
         NEW t \in Nodes, NEW x \in NodeStates
  PROVE  LET a == WithQueue([s EXCEPT !.node[t] = x], i, q)
         IN /\ a \in StateType /\ a.inst[i] = q /\ a.node = [s.node EXCEPT ![t] = x]
            /\ Beside(s, a, i)
  BY DEF WithQueue, StateType, Beside

(* When the state of an instance is replaced, all else stays.              *)
LEMMA BesideWithQueue ==
  ASSUME NEW s \in StateType, NEW i \in Instances, NEW q \in QueueType
  PROVE  LET a == WithQueue(s, i, q)
         IN /\ a \in StateType /\ a.inst[i] = q /\ a.node = s.node
            /\ Beside(s, a, i)
  BY DEF WithQueue, StateType, Beside

(* The elements of a list are of the type of the list.                     *)
LEMMA ElementsAreTasks ==
  ASSUME NEW T, NEW seq \in Seq(T)
  PROVE  ToSet(seq) \subseteq T
  BY DEF ToSet

(* A running task is preempted.                                            *)
LEMMA PreemptSound ==
  ASSUME NEW q \in QueueType, NEW nd \in [Nodes -> NodeStates],
         NEW at \in SUBSET TaskNodes, Sound(q, nd, at),
         NEW t \in ToSet(q.batch), NEW u \in QueueType,
         /\ ToSet(u.pending) = ToSet(q.pending) \cup {t}
         /\ IsInjective(q.pending) /\ t \notin ToSet(q.pending) => IsInjective(u.pending)
         /\ u.prompts = IF IsPrompt(t) THEN Append(q.prompts, t) ELSE q.prompts
         /\ u.blocked = Append(q.blocked, t)
         /\ u.batch = RemoveFirst(q.batch, t)
         /\ u.pool = q.pool
  PROVE  /\ Sound(u, [nd EXCEPT ![t] = "BLOCKED"], at)
         /\ ToSet(u.batch) = ToSet(q.batch) \ {t}
<1>1. /\ q.prompts \in Seq(TaskNodes) /\ q.blocked \in Seq(TaskNodes)
      /\ q.batch \in Seq(TaskNodes)
  BY DEF QueueType
<1>2. t \in TaskNodes /\ t \in at /\ t \notin ToSet(q.pending) /\ t \in Nodes
  <2>1. t \in TaskNodes
    BY <1>1, ElementsAreTasks
  <2> QED
    BY <2>1, TaskParts DEF Sound
<1>3. t \notin ToSet(q.prompts) /\ t \notin ToSet(q.blocked)
  BY <1>2 DEF Sound
<1>4. IsInjective(u.pending) /\ ToSet(u.pending) = ToSet(q.pending) \cup {t}
  BY <1>2 DEF Sound
<1>5. /\ IsInjective(u.prompts)
      /\ ToSet(u.prompts) = IF IsPrompt(t) THEN ToSet(q.prompts) \cup {t} ELSE ToSet(q.prompts)
  <2>1. IsInjective(q.prompts)
    BY DEF Sound
  <2>2. /\ IsInjective(Append(q.prompts, t))
        /\ ToSet(Append(q.prompts, t)) = ToSet(q.prompts) \cup {t}
    BY <1>1, <1>2, <1>3, <2>1, AppendSet
  <2> QED
    BY <2>1, <2>2
<1>6. IsInjective(u.blocked) /\ ToSet(u.blocked) = ToSet(q.blocked) \cup {t}
  <2>1. IsInjective(q.blocked)
    BY DEF Sound
  <2>2. /\ IsInjective(Append(q.blocked, t))
        /\ ToSet(Append(q.blocked, t)) = ToSet(q.blocked) \cup {t}
    BY <1>1, <1>2, <1>3, <2>1, AppendSet
  <2> QED
    BY <2>2
<1>7. IsInjective(u.batch) /\ ToSet(u.batch) = ToSet(q.batch) \ {t}
  <2>1. IsInjective(q.batch)
    BY DEF Sound
  <2> QED
    BY <1>1, <2>1, RemoveFirstSet
<1> DEFINE nf == [nd EXCEPT ![t] = "BLOCKED"]
<1>8. nf[t] = "BLOCKED" /\ \A x \in TaskNodes : x # t => nf[x] = nd[x]
  BY <1>2 DEF Nodes
<1>9. ToSet(q.pending) \subseteq TaskNodes
  BY DEF Sound
<1> HIDE DEF nf
<1>10. Sound(u, nf, at)
  <2>1. Sorted(u.pool) /\ ToSet(u.pool) = {x.req : x \in at}
    BY DEF Sound
  <2>2. ToSet(u.pending) = at \ ToSet(u.batch) /\ ToSet(u.batch) \subseteq at
    BY <1>2, <1>4, <1>7 DEF Sound
  <2>3. \A x \in ToSet(u.pending) : nf[x] \in {"QUEUED", "BLOCKED"}
    BY <1>2, <1>4, <1>8, <1>9 DEF Sound
  <2>4. ToSet(u.blocked) = {x \in ToSet(u.pending) : nf[x] = "BLOCKED"}
    <3>1. ToSet(q.blocked) = {x \in ToSet(q.pending) : nd[x] = "BLOCKED"}
      BY DEF Sound
    <3> QED
      BY <1>2, <1>4, <1>6, <1>8, <1>9, <3>1
  <2>5. ToSet(u.prompts) = {x \in ToSet(u.pending) : IsPrompt(x)}
    <3>1. ToSet(q.prompts) = {x \in ToSet(q.pending) : IsPrompt(x)}
      BY DEF Sound
    <3> QED
      BY <1>4, <1>5, <3>1
  <2> QED
    BY <1>4, <1>5, <1>6, <1>7, <2>1, <2>2, <2>3, <2>4, <2>5 DEF Sound
<1> QED
  BY <1>7, <1>10 DEF nf

(* A waiting task is admitted.                                             *)
LEMMA AdmitSound ==
  ASSUME NEW q \in QueueType, NEW nd \in [Nodes -> NodeStates],
         NEW at \in SUBSET TaskNodes, Sound(q, nd, at),
         NEW t \in ToSet(q.pending), NEW u \in QueueType,
         /\ u.pending = RemoveFirst(q.pending, t)
         /\ u.prompts = RemoveFirst(q.prompts, t)
         /\ u.blocked = RemoveFirst(q.blocked, t)
         /\ u.batch = Append(q.batch, t)
         /\ u.pool = q.pool
  PROVE  /\ Sound(u, nd, at)
         /\ ToSet(u.batch) = ToSet(q.batch) \cup {t}
<1>1. /\ q.prompts \in Seq(TaskNodes) /\ q.blocked \in Seq(TaskNodes)
      /\ q.batch \in Seq(TaskNodes) /\ q.pending \in Seq(TaskNodes)
  BY DEF QueueType
<1>2. t \in TaskNodes /\ t \in at /\ t \notin ToSet(q.batch)
  <2>1. t \in TaskNodes
    BY <1>1, ElementsAreTasks
  <2> QED
    BY <2>1 DEF Sound
<1>3. /\ IsInjective(q.pending) /\ IsInjective(q.prompts)
      /\ IsInjective(q.blocked) /\ IsInjective(q.batch)
  BY DEF Sound
<1>4. IsInjective(u.pending) /\ ToSet(u.pending) = ToSet(q.pending) \ {t}
  BY <1>1, <1>3, RemoveFirstSet
<1>5. IsInjective(u.prompts) /\ ToSet(u.prompts) = ToSet(q.prompts) \ {t}
  BY <1>1, <1>3, RemoveFirstSet
<1>6. IsInjective(u.blocked) /\ ToSet(u.blocked) = ToSet(q.blocked) \ {t}
  BY <1>1, <1>3, RemoveFirstSet
<1>7. IsInjective(u.batch) /\ ToSet(u.batch) = ToSet(q.batch) \cup {t}
  BY <1>1, <1>2, <1>3, AppendSet
<1>8. Sound(u, nd, at)
  <2>1. Sorted(u.pool) /\ ToSet(u.pool) = {x.req : x \in at}
    BY DEF Sound
  <2>2. ToSet(u.pending) = at \ ToSet(u.batch) /\ ToSet(u.batch) \subseteq at
    BY <1>2, <1>4, <1>7 DEF Sound
  <2>3. \A x \in ToSet(u.pending) : nd[x] \in {"QUEUED", "BLOCKED"}
    BY <1>4 DEF Sound
  <2>4. ToSet(u.blocked) = {x \in ToSet(u.pending) : nd[x] = "BLOCKED"}
    BY <1>4, <1>6 DEF Sound
  <2>5. ToSet(u.prompts) = {x \in ToSet(u.pending) : IsPrompt(x)}
    BY <1>4, <1>5 DEF Sound
  <2> QED
    BY <1>4, <1>5, <1>6, <1>7, <2>1, <2>2, <2>3, <2>4, <2>5 DEF Sound
<1> QED
  BY <1>7, <1>8

(* What two operations in turn leave alone.                                *)
LEMMA BesideTwice ==
  ASSUME NEW s, NEW a, NEW b, NEW i, Beside(s, a, i), Beside(a, b, i)
  PROVE  Beside(s, b, i)
  BY DEF Beside

(* The test of membership in a list.                                       *)
LEMMA ContainsLaw ==
  ASSUME NEW T, NEW seq \in Seq(T), NEW e
  PROVE  Contains(seq, e) <=> e \in ToSet(seq)
  BY DEF Contains, ToSet

(* The elements at the first k positions.                                  *)
FirstOf(seq, k) == {seq[j] : j \in 1 .. k}

(* One position more has one element more, a new one in a list without     *)
(* repetitions.                                                            *)
LEMMA FirstOfLaw ==
  ASSUME NEW T, NEW seq \in Seq(T)
  PROVE  /\ FirstOf(seq, 0) = {} /\ FirstOf(seq, Len(seq)) = ToSet(seq)
         /\ \A k \in 1 .. Len(seq) :
              /\ k - 1 \in 0 .. Len(seq) /\ k \in 0 .. Len(seq)
              /\ FirstOf(seq, k) = FirstOf(seq, k - 1) \cup {seq[k]}
              /\ seq[k] \in ToSet(seq) /\ seq[k] \in T
              /\ FirstOf(seq, k) \subseteq ToSet(seq)
              /\ IsInjective(seq) => seq[k] \notin FirstOf(seq, k - 1)
<1>1. Len(seq) \in Nat /\ DOMAIN seq = 1 .. Len(seq)
  OBVIOUS
<1>2. 1 .. 0 = {}
  OBVIOUS
<1>3. FirstOf(seq, 0) = {} /\ FirstOf(seq, Len(seq)) = ToSet(seq)
  BY <1>1, <1>2 DEF FirstOf, ToSet
<1>4. ASSUME NEW k \in 1 .. Len(seq)
      PROVE  /\ k - 1 \in 0 .. Len(seq) /\ k \in 0 .. Len(seq)
             /\ FirstOf(seq, k) = FirstOf(seq, k - 1) \cup {seq[k]}
             /\ seq[k] \in ToSet(seq) /\ seq[k] \in T
             /\ FirstOf(seq, k) \subseteq ToSet(seq)
             /\ IsInjective(seq) => seq[k] \notin FirstOf(seq, k - 1)
  <2>1. k - 1 \in 0 .. Len(seq) /\ k \in 0 .. Len(seq)
    BY <1>1
  <2>2. 1 .. k = (1 .. k - 1) \cup {k}
    BY <1>1
  <2>3. FirstOf(seq, k) = FirstOf(seq, k - 1) \cup {seq[k]}
    BY <2>2 DEF FirstOf
  <2>4. seq[k] \in ToSet(seq) /\ seq[k] \in T
    BY <1>1 DEF ToSet
  <2>5. \A j \in 1 .. k : j \in DOMAIN seq
    BY <1>1
  <2>6. FirstOf(seq, k) \subseteq ToSet(seq)
    BY <2>5 DEF FirstOf, ToSet
  <2>7. ASSUME IsInjective(seq)
        PROVE  seq[k] \notin FirstOf(seq, k - 1)
    <3>1. \A j \in 1 .. k - 1 : j \in DOMAIN seq /\ k \in DOMAIN seq /\ j # k
      BY <1>1
    <3> QED
      BY <2>7, <3>1 DEF FirstOf, IsInjective
  <2> QED
    BY <2>1, <2>3, <2>4, <2>6, <2>7
<1> QED
  BY <1>3, <1>4

Preempting == INSTANCE LoopLaws WITH
  Op <- LAMBDA i, chosen, a, t : IF Contains(chosen, t) THEN a ELSE PreemptTask(a, i, t)

(* The preemption of the tasks of the old batch is a loop.                 *)
LEMMA PreemptIsLoop ==
  ASSUME NEW s, NEW i, NEW chosen
  PROVE  PreemptOthers(s, i, chosen) = Preempting!Loop(i, chosen, s, s.inst[i].batch)
  BY DEF PreemptOthers, FoldLeft, MapThenFoldSet, Max, Preempting!Loop,
         Preempting!MapThenFoldSet, Preempting!Max

Blocks(nd, gone) == [n \in Nodes |-> IF n \in gone THEN "BLOCKED" ELSE nd[n]]

(* The tasks of the old batch that are not chosen.                         *)
LEMMA PreemptOthersLaw ==
  ASSUME NEW s \in StateType, NEW i \in Instances, NEW at \in SUBSET TaskNodes,
         NEW chosen \in Seq(TaskNodes), Sound(s.inst[i], s.node, at)
  PROVE  LET a == PreemptOthers(s, i, chosen)
             gone == ToSet(s.inst[i].batch) \ ToSet(chosen)
         IN /\ a \in StateType /\ Beside(s, a, i)
            /\ a.node = Blocks(s.node, gone)
            /\ Sound(a.inst[i], a.node, at)
            /\ ToSet(a.inst[i].batch) = ToSet(s.inst[i].batch) \ gone
            /\ a.inst[i].pool = s.inst[i].pool /\ SameRun(s.inst[i], a.inst[i])
<1> DEFINE b == s.inst[i].batch
           out(k) == FirstOf(b, k) \ ToSet(chosen)
           Inv(a, gone) == /\ Beside(s, a, i)
                           /\ a.node = Blocks(s.node, gone)
                           /\ Sound(a.inst[i], a.node, at)
                           /\ ToSet(a.inst[i].batch) = ToSet(b) \ gone
                           /\ a.inst[i].pool = s.inst[i].pool
                           /\ SameRun(s.inst[i], a.inst[i])
           J == [k \in 0 .. Len(b) |-> {a \in StateType : Inv(a, out(k))}]
<1>1. b \in Seq(TaskNodes) /\ IsInjective(b) /\ Len(b) \in Nat
  <2>1. b \in Seq(TaskNodes)
    BY QueueFields
  <2> QED
    BY <2>1 DEF Sound
<1>2. s \in J[0]
  <2>1. out(0) = {} /\ 0 \in 0 .. Len(b)
    BY <1>1, FirstOfLaw
  <2>2. s.node = Blocks(s.node, {})
    BY DEF StateType, Blocks
  <2>3. Beside(s, s, i) /\ SameRun(s.inst[i], s.inst[i])
    BY DEF Beside, SameRun
  <2>4. Inv(s, {})
    BY <2>2, <2>3
  <2> HIDE DEF Inv, out
  <2> QED
    BY <2>1, <2>4
<1>3. ASSUME NEW k \in 1 .. Len(b), NEW a \in J[k - 1]
      PROVE  (IF Contains(chosen, b[k]) THEN a ELSE PreemptTask(a, i, b[k])) \in J[k]
  <2> DEFINE t == b[k]
             g == out(k - 1)
  <2>1. /\ k - 1 \in 0 .. Len(b) /\ k \in 0 .. Len(b)
        /\ out(k) = (g \cup {t}) \ ToSet(chosen)
        /\ g \cap ToSet(chosen) = {}
        /\ t \in ToSet(b) /\ t \in TaskNodes /\ t \notin g
    <3>1. /\ FirstOf(b, k) = FirstOf(b, k - 1) \cup {b[k]}
          /\ k - 1 \in 0 .. Len(b) /\ k \in 0 .. Len(b)
          /\ b[k] \in ToSet(b) /\ b[k] \in TaskNodes /\ b[k] \notin FirstOf(b, k - 1)
      <4> HIDE DEF b
      <4> QED
        BY <1>1, FirstOfLaw
    <3> QED
      BY <3>1
  <2>2. a \in StateType /\ Inv(a, g)
    <3> HIDE DEF Inv, out
    <3> QED
      BY <2>1
  <2>3. CASE Contains(chosen, t)
    <3>1. out(k) = g
      BY <2>1, <2>3, ContainsLaw
    <3> HIDE DEF Inv, out
    <3> QED
      BY <2>1, <2>2, <2>3, <3>1
  <2>4. CASE ~ Contains(chosen, t)
    <3>1. out(k) = g \cup {t}
      BY <2>1, <2>4, ContainsLaw
    <3> HIDE DEF b, g, out
    <3>2. IsInjective(a.inst[i].batch) /\ a.inst[i] \in QueueType /\ t \in ToSet(a.inst[i].batch)
      BY <2>1, <2>2, QueueFields DEF Sound
    <3>3. PICK u \in QueueType :
            /\ PreemptTask(a, i, t) = WithQueue([a EXCEPT !.node[t] = "BLOCKED"], i, u)
            /\ ToSet(u.pending) = ToSet(a.inst[i].pending) \cup {t}
            /\ IsInjective(a.inst[i].pending) /\ t \notin ToSet(a.inst[i].pending)
                 => IsInjective(u.pending)
            /\ u.prompts = IF IsPrompt(t) THEN Append(a.inst[i].prompts, t)
                           ELSE a.inst[i].prompts
            /\ u.blocked = Append(a.inst[i].blocked, t)
            /\ u.batch = RemoveFirst(a.inst[i].batch, t)
            /\ u.pool = a.inst[i].pool /\ SameRun(a.inst[i], u)
      BY <2>1, <2>2, <3>2, PreemptTaskLaw
    <3> DEFINE c == PreemptTask(a, i, t)
    <3>4. /\ c \in StateType /\ c.inst[i] = u
          /\ c.node = [a.node EXCEPT ![t] = "BLOCKED"] /\ Beside(a, c, i)
      <4>1. t \in Nodes /\ "BLOCKED" \in NodeStates
        BY <2>1, TaskParts DEF NodeStates
      <4> DEFINE z == WithQueue([a EXCEPT !.node[t] = "BLOCKED"], i, u)
      <4>2. /\ z \in StateType /\ z.inst[i] = u
            /\ z.node = [a.node EXCEPT ![t] = "BLOCKED"] /\ Beside(a, z, i)
        <5>1. a \in StateType
          BY <2>2
        <5> HIDE DEF Inv, J, t
        <5> QED
          BY <4>1, <5>1 DEF WithQueue, StateType, Beside
      <4>3. c = z
        BY <3>3
      <4> HIDE DEF c, z
      <4> QED
        BY <4>2, <4>3
    <3>5. /\ Sound(u, [a.node EXCEPT ![t] = "BLOCKED"], at)
          /\ ToSet(u.batch) = ToSet(a.inst[i].batch) \ {t}
      <4>1. a.node \in [Nodes -> NodeStates] /\ Sound(a.inst[i], a.node, at)
        BY <2>2 DEF StateType
      <4> DEFINE q == a.inst[i]
                 nd == a.node
      <4>2. /\ q \in QueueType /\ nd \in [Nodes -> NodeStates] /\ Sound(q, nd, at)
            /\ t \in ToSet(q.batch)
            /\ ToSet(u.pending) = ToSet(q.pending) \cup {t}
            /\ IsInjective(q.pending) /\ t \notin ToSet(q.pending) => IsInjective(u.pending)
            /\ u.prompts = IF IsPrompt(t) THEN Append(q.prompts, t) ELSE q.prompts
            /\ u.blocked = Append(q.blocked, t)
            /\ u.batch = RemoveFirst(q.batch, t)
            /\ u.pool = q.pool
        BY <3>2, <3>3, <4>1
      <4> HIDE DEF q, nd
      <4>3. /\ Sound(u, [nd EXCEPT ![t] = "BLOCKED"], at)
            /\ ToSet(u.batch) = ToSet(q.batch) \ {t}
        BY <4>2, PreemptSound
      <4> QED
        BY <4>3 DEF q, nd
    <3>6. [a.node EXCEPT ![t] = "BLOCKED"] = Blocks(s.node, g \cup {t})
      BY <2>2 DEF Blocks
    <3>7. Beside(s, c, i)
      BY <2>2, <3>4, BesideTwice
    <3>8. SameRun(s.inst[i], u)
      BY <2>2, <3>3 DEF SameRun
    <3>9. Inv(c, g \cup {t})
      <4> HIDE DEF c
      <4> QED
        BY <2>2, <3>3, <3>4, <3>5, <3>6, <3>7, <3>8
    <3> HIDE DEF Inv, c
    <3>10. c \in J[k]
      BY <2>1, <3>1, <3>4, <3>9
    <3> QED
      BY <2>4, <3>10 DEF c
  <2> QED
    BY <2>3, <2>4
<1> HIDE DEF J
<1>4. Preempting!Loop(i, chosen, s, b) \in J[Len(b)]
  BY <1>1, <1>2, <1>3, Induction, Preempting!LoopInvariant
<1>5. PreemptOthers(s, i, chosen) \in J[Len(b)]
  BY <1>4, PreemptIsLoop
<1>6. out(Len(b)) = ToSet(b) \ ToSet(chosen)
  BY <1>1, FirstOfLaw
<1> DEFINE e == PreemptOthers(s, i, chosen)
<1> HIDE DEF e, out, Inv
<1>7. e \in StateType /\ Inv(e, out(Len(b)))
  BY <1>1, <1>5 DEF J, e
<1> QED
  BY <1>6, <1>7 DEF Inv, e

Admitting == INSTANCE LoopLaws WITH
  Op <- LAMBDA i, old, a, t : IF Contains(old, t) THEN a ELSE AdmitTask(a, i, t)

(* The admission of the tasks of the new batch is a loop.                  *)
LEMMA AdmitIsLoop ==
  ASSUME NEW s, NEW i, NEW chosen, NEW old
  PROVE  AdmitOthers(s, i, chosen, old) = Admitting!Loop(i, old, s, chosen)
  BY DEF AdmitOthers, FoldLeft, MapThenFoldSet, Max, Admitting!Loop,
         Admitting!MapThenFoldSet, Admitting!Max

(* The chosen tasks that are not in the old batch.                         *)
LEMMA AdmitOthersLaw ==
  ASSUME NEW s \in StateType, NEW i \in Instances, NEW at \in SUBSET TaskNodes,
         NEW chosen \in Seq(TaskNodes), IsInjective(chosen), ToSet(chosen) \subseteq at,
         NEW old \in Seq(TaskNodes), Sound(s.inst[i], s.node, at),
         ToSet(s.inst[i].batch) = ToSet(old) \cap ToSet(chosen)
  PROVE  LET a == AdmitOthers(s, i, chosen, old)
         IN /\ a \in StateType /\ Beside(s, a, i) /\ a.node = s.node
            /\ Sound(a.inst[i], a.node, at)
            /\ ToSet(a.inst[i].batch) = ToSet(chosen)
            /\ a.inst[i].pool = s.inst[i].pool /\ SameRun(s.inst[i], a.inst[i])
<1> DEFINE b == s.inst[i].batch
           new(k) == FirstOf(chosen, k) \ ToSet(old)
           Inv(a, n) == /\ Beside(s, a, i) /\ a.node = s.node
                        /\ Sound(a.inst[i], a.node, at)
                        /\ ToSet(a.inst[i].batch) = ToSet(b) \cup n
                        /\ a.inst[i].pool = s.inst[i].pool
                        /\ SameRun(s.inst[i], a.inst[i])
           J == [k \in 0 .. Len(chosen) |-> {a \in StateType : Inv(a, new(k))}]
<1>1. Len(chosen) \in Nat
  OBVIOUS
<1>2. s \in J[0]
  <2>1. new(0) = {} /\ 0 \in 0 .. Len(chosen)
    BY <1>1, FirstOfLaw
  <2>2. Beside(s, s, i) /\ SameRun(s.inst[i], s.inst[i])
    BY DEF Beside, SameRun
  <2>3. Inv(s, {})
    BY <2>2
  <2> HIDE DEF Inv, new
  <2> QED
    BY <2>1, <2>3
<1>3. ASSUME NEW k \in 1 .. Len(chosen), NEW a \in J[k - 1]
      PROVE  (IF Contains(old, chosen[k]) THEN a ELSE AdmitTask(a, i, chosen[k])) \in J[k]
  <2> DEFINE t == chosen[k]
             g == new(k - 1)
  <2>1. /\ k - 1 \in 0 .. Len(chosen) /\ k \in 0 .. Len(chosen)
        /\ new(k) = (g \cup {t}) \ ToSet(old)
        /\ g \cap ToSet(old) = {}
        /\ t \in ToSet(chosen) /\ t \in TaskNodes /\ t \notin g
    <3>1. /\ FirstOf(chosen, k) = FirstOf(chosen, k - 1) \cup {chosen[k]}
          /\ k - 1 \in 0 .. Len(chosen) /\ k \in 0 .. Len(chosen)
          /\ chosen[k] \in ToSet(chosen) /\ chosen[k] \in TaskNodes
          /\ chosen[k] \notin FirstOf(chosen, k - 1)
      BY FirstOfLaw
    <3> QED
      BY <3>1
  <2>2. a \in StateType /\ Inv(a, g)
    <3> HIDE DEF Inv, new
    <3> QED
      BY <2>1
  <2>3. CASE Contains(old, t)
    <3>1. new(k) = g
      BY <2>1, <2>3, ContainsLaw
    <3> HIDE DEF Inv, new
    <3> QED
      BY <2>1, <2>2, <2>3, <3>1
  <2>4. CASE ~ Contains(old, t)
    <3>0. t \notin ToSet(old)
      BY <2>4, ContainsLaw
    <3>1. new(k) = g \cup {t}
      BY <2>1, <3>0
    <3>2. t \notin ToSet(b)
      BY <3>0
    <3> HIDE DEF b, g, new
    <3> DEFINE q == a.inst[i]
               nd == a.node
    <3>3. /\ q \in QueueType /\ nd \in [Nodes -> NodeStates] /\ Sound(q, nd, at)
          /\ t \in ToSet(q.pending)
      <4>1. q \in QueueType /\ nd \in [Nodes -> NodeStates] /\ Sound(q, nd, at)
        BY <2>2, QueueFields DEF StateType
      <4>2. t \in at \ ToSet(q.batch)
        BY <2>1, <2>2, <3>2
      <4> QED
        BY <4>1, <4>2 DEF Sound
    <3>4. PICK u \in QueueType :
            /\ AdmitTask(a, i, t) = WithQueue(a, i, u)
            /\ u.pending = RemoveFirst(q.pending, t)
            /\ u.prompts = RemoveFirst(q.prompts, t)
            /\ u.blocked = RemoveFirst(q.blocked, t)
            /\ u.batch = Append(q.batch, t)
            /\ u.pool = q.pool /\ SameRun(q, u)
      <4>1. IsInjective(q.pending) /\ IsInjective(q.prompts) /\ IsInjective(q.blocked)
        BY <3>3 DEF Sound
      <4> QED
        BY <2>1, <2>2, <4>1, AdmitTaskLaw
    <3> DEFINE c == AdmitTask(a, i, t)
    <3>5. c \in StateType /\ c.inst[i] = u /\ c.node = a.node /\ Beside(a, c, i)
      <4>1. a \in StateType
        BY <2>2
      <4> DEFINE z == WithQueue(a, i, u)
      <4>2. /\ z \in StateType /\ z.inst[i] = u
            /\ z.node = a.node /\ Beside(a, z, i)
        BY <4>1, BesideWithQueue
      <4>3. c = z
        BY <3>4
      <4> HIDE DEF c, z
      <4> QED
        BY <4>2, <4>3
    <3>6. Sound(u, nd, at) /\ ToSet(u.batch) = ToSet(q.batch) \cup {t}
      <4> HIDE DEF q, nd
      <4>1. /\ q \in QueueType /\ nd \in [Nodes -> NodeStates] /\ Sound(q, nd, at)
            /\ t \in ToSet(q.pending) /\ u \in QueueType
            /\ u.pending = RemoveFirst(q.pending, t)
            /\ u.prompts = RemoveFirst(q.prompts, t)
            /\ u.blocked = RemoveFirst(q.blocked, t)
            /\ u.batch = Append(q.batch, t)
            /\ u.pool = q.pool
        BY <3>3, <3>4
      <4> HIDE DEF t, Inv, J, c
      <4>2. Sound(u, nd, at)
        BY <4>1, AdmitSound
      <4>3. ToSet(u.batch) = ToSet(q.batch) \cup {t}
        BY <4>1, AdmitSound
      <4> QED
        BY <4>2, <4>3
    <3>7. Beside(s, c, i)
      BY <2>2, <3>5, BesideTwice
    <3>8. SameRun(s.inst[i], u)
      BY <2>2, <3>4 DEF SameRun
    <3>9. Inv(c, g \cup {t})
      <4> HIDE DEF c
      <4> QED
        BY <2>2, <3>4, <3>5, <3>6, <3>7, <3>8
    <3> HIDE DEF Inv, c
    <3>10. c \in J[k]
      BY <2>1, <3>1, <3>5, <3>9
    <3> QED
      BY <2>4, <3>10 DEF c
  <2> QED
    BY <2>3, <2>4
<1> HIDE DEF J
<1>4. Admitting!Loop(i, old, s, chosen) \in J[Len(chosen)]
  BY <1>1, <1>2, <1>3, Induction, Admitting!LoopInvariant
<1>5. AdmitOthers(s, i, chosen, old) \in J[Len(chosen)]
  BY <1>4, AdmitIsLoop
<1>6. new(Len(chosen)) = ToSet(chosen) \ ToSet(old)
  BY <1>1, FirstOfLaw
<1> DEFINE e == AdmitOthers(s, i, chosen, old)
<1> HIDE DEF e, new, Inv
<1>7. e \in StateType /\ Inv(e, new(Len(chosen)))
  BY <1>1, <1>5 DEF J, e
<1>8. ToSet(e.inst[i].batch) = ToSet(chosen)
  BY <1>6, <1>7 DEF Inv
<1> QED
  BY <1>7, <1>8 DEF Inv, e
-----------------------------------------------------------------------------
(* The batch becomes the chosen one.                                       *)
LEMMA ChangeBatchLaw ==
  ASSUME NEW s \in StateType, NEW i \in Instances, NEW at \in SUBSET TaskNodes,
         Sound(s.inst[i], s.node, at), NEW c, c.batch \in Seq(TaskNodes),
         IsInjective(c.batch), ToSet(c.batch) \subseteq at, c.tokens \in Int
  PROVE  LET a == ChangeBatch(s, i, c)
             q == s.inst[i]
             u == a.inst[i]
         IN /\ a \in StateType /\ Beside(s, a, i)
            /\ a.node = Blocks(s.node, ToSet(q.batch) \ ToSet(c.batch))
            /\ Sound(u, a.node, at)
            /\ ToSet(u.batch) = ToSet(c.batch)
            /\ u.pool = q.pool /\ u.batchTokens = c.tokens
            /\ u.iterations = q.iterations /\ u.elapsed = q.elapsed
            /\ u.pausing = q.pausing /\ u.handle = q.handle
<1> DEFINE q == s.inst[i]
           v == [q EXCEPT !.batchTokens = c.tokens]
           z == WithQueue(s, i, v)
           p == PreemptOthers(z, i, c.batch)
           e == AdmitOthers(p, i, c.batch, q.batch)
           gone == ToSet(q.batch) \ ToSet(c.batch)
<1>1. q \in QueueType /\ q.batch \in Seq(TaskNodes)
  BY QueueFields
<1>2. /\ v \in QueueType /\ v.pending = q.pending /\ v.prompts = q.prompts
      /\ v.blocked = q.blocked /\ v.batch = q.batch /\ v.pool = q.pool
      /\ v.batchTokens = c.tokens /\ v.iterations = q.iterations
      /\ v.elapsed = q.elapsed /\ v.pausing = q.pausing /\ v.handle = q.handle
  <2> HIDE DEF q
  <2> QED
    BY <1>1 DEF QueueType
<1>3. ChangeBatch(s, i, c) = e
  BY DEF ChangeBatch, WithQueue, StateType
<1> HIDE DEF v
<1>4. z \in StateType /\ z.inst[i] = v /\ z.node = s.node /\ Beside(s, z, i)
  BY <1>2, BesideWithQueue
<1>5. Sound(v, s.node, at)
  BY <1>2 DEF Sound
<1> HIDE DEF z
<1>6. /\ p \in StateType /\ Beside(z, p, i)
      /\ p.node = Blocks(z.node, ToSet(v.batch) \ ToSet(c.batch))
      /\ Sound(p.inst[i], p.node, at)
      /\ ToSet(p.inst[i].batch) = ToSet(v.batch) \ (ToSet(v.batch) \ ToSet(c.batch))
      /\ p.inst[i].pool = v.pool /\ SameRun(v, p.inst[i])
  <2>1. Sound(z.inst[i], z.node, at)
    BY <1>4, <1>5
  <2>2. /\ p \in StateType /\ Beside(z, p, i)
      /\ p.node = Blocks(z.node, ToSet(z.inst[i].batch) \ ToSet(c.batch))
      /\ Sound(p.inst[i], p.node, at)
      /\ ToSet(p.inst[i].batch) = ToSet(z.inst[i].batch) \ (ToSet(z.inst[i].batch) \ ToSet(c.batch))
      /\ p.inst[i].pool = z.inst[i].pool /\ SameRun(z.inst[i], p.inst[i])
    <3> DEFINE chosen == c.batch
    <3>1. chosen \in Seq(TaskNodes) /\ p = PreemptOthers(z, i, chosen)
      OBVIOUS
    <3> HIDE DEF chosen, q
    <3>2. /\ p \in StateType /\ Beside(z, p, i)
          /\ p.node = Blocks(z.node, ToSet(z.inst[i].batch) \ ToSet(chosen))
          /\ Sound(p.inst[i], p.node, at)
          /\ ToSet(p.inst[i].batch) = ToSet(z.inst[i].batch) \ (ToSet(z.inst[i].batch) \ ToSet(chosen))
          /\ p.inst[i].pool = z.inst[i].pool /\ SameRun(z.inst[i], p.inst[i])
      <4>1. z \in StateType /\ Sound(z.inst[i], z.node, at) /\ chosen \in Seq(TaskNodes)
        BY <1>4, <2>1, <3>1
      <4>2. LET a == PreemptOthers(z, i, chosen)
                left == ToSet(z.inst[i].batch) \ ToSet(chosen)
            IN /\ a \in StateType /\ Beside(z, a, i)
               /\ a.node = Blocks(z.node, left)
               /\ Sound(a.inst[i], a.node, at)
               /\ ToSet(a.inst[i].batch) = ToSet(z.inst[i].batch) \ left
               /\ a.inst[i].pool = z.inst[i].pool /\ SameRun(z.inst[i], a.inst[i])
        BY <4>1, PreemptOthersLaw
      <4> QED
        BY <3>1, <4>2
    <3> QED
      BY <3>2 DEF chosen
  <2> QED
    BY <1>4, <2>2
<1> HIDE DEF p
<1>7. /\ e \in StateType /\ Beside(p, e, i) /\ e.node = p.node
      /\ Sound(e.inst[i], e.node, at)
      /\ ToSet(e.inst[i].batch) = ToSet(c.batch)
      /\ e.inst[i].pool = p.inst[i].pool /\ SameRun(p.inst[i], e.inst[i])
  <2>1. ToSet(p.inst[i].batch) = ToSet(q.batch) \cap ToSet(c.batch)
    BY <1>2, <1>6
  <2> HIDE DEF q
  <2> QED
    BY <1>1, <1>6, <2>1, AdmitOthersLaw
<1> HIDE DEF e
<1>8. Beside(s, e, i)
  BY <1>4, <1>6, <1>7, BesideTwice
<1>9. e.node = Blocks(s.node, gone)
  BY <1>2, <1>4, <1>6, <1>7
<1> QED
  BY <1>2, <1>3, <1>6, <1>7, <1>8, <1>9 DEF SameRun

TokensOf == [t \in TaskNodes |-> TokensPerIteration(t)]

NewMemory(nd) == [t \in TaskNodes |-> IF nd[t] = "QUEUED" THEN TaskMemory(t) ELSE 0]

(* The sizes of a task are natural numbers.                                *)
LEMMA SizesAreNumbers ==
  ASSUME trace \in [Requests -> Shapes], NEW t \in TaskNodes
  PROVE  /\ TokensPerIteration(t) \in Nat \ {0} /\ TaskMemory(t) \in Nat
         /\ TokensToGenerate(t) \in Nat
         /\ trace[t.req].token \in Nat \ {0} /\ trace[t.req].prompt \in Nat \ {0}
<1>1. t.req \in Requests
  BY TaskParts
<1>2. trace[t.req] \in [prompt : Nat \ {0}, token : Nat \ {0}]
  BY <1>1, ShapesAssumption
<1>3. trace[t.req].prompt \in Nat \ {0} /\ trace[t.req].token \in Nat \ {0}
  BY <1>2
<1> QED
  BY <1>3 DEF TokensPerIteration, TaskMemory, TokensToGenerate, PromptMemory,
     TokenMemory

(* So are their sums over the tasks of a batch.                            *)
LEMMA SumsAreNumbers ==
  ASSUME trace \in [Requests -> Shapes], NEW nd, NEW S \in SUBSET TaskNodes, IsFiniteSet(S)
  PROVE  /\ SumFunctionOnSet(TokensOf, S) \in Nat
         /\ SumFunctionOnSet(NewMemory(nd), S) \in Nat
<1>1. \A t \in S : TokensOf[t] \in Nat /\ NewMemory(nd)[t] \in Nat
  BY SizesAreNumbers DEF TokensOf, NewMemory
<1> DEFINE f == TokensOf
           g == NewMemory(nd)
<1>2. \A t \in S : f[t] \in Nat /\ g[t] \in Nat
  BY <1>1
<1> HIDE DEF f, g
<1>3. SumFunctionOnSet(f, S) \in Nat /\ SumFunctionOnSet(g, S) \in Nat
  BY <1>2, SumType
<1> QED
  BY <1>3 DEF f, g

(* A task more.                                                            *)
LEMMA SumsOfOneMore ==
  ASSUME trace \in [Requests -> Shapes], NEW nd, NEW S \in SUBSET TaskNodes, IsFiniteSet(S),
         NEW t \in TaskNodes, t \notin S
  PROVE  /\ SumFunctionOnSet(TokensOf, S \cup {t})
              = SumFunctionOnSet(TokensOf, S) + TokensPerIteration(t)
         /\ SumFunctionOnSet(NewMemory(nd), S \cup {t})
              = SumFunctionOnSet(NewMemory(nd), S)
                  + (IF nd[t] = "QUEUED" THEN TaskMemory(t) ELSE 0)
<1> DEFINE f == TokensOf
           g == NewMemory(nd)
           m == IF nd[t] = "QUEUED" THEN TaskMemory(t) ELSE 0
<1>1. \A x \in S \cup {t} : f[x] \in Int /\ g[x] \in Int
  <2>1. \A x \in TaskNodes : f[x] \in Int /\ g[x] \in Int
    BY SizesAreNumbers DEF TokensOf, NewMemory
  <2> HIDE DEF f, g
  <2> QED
    BY <2>1
<1>2. f[t] = TokensPerIteration(t) /\ g[t] = m
  BY DEF TokensOf, NewMemory
<1>3. SumFunctionOnSet(f, S) \in Int /\ SumFunctionOnSet(g, S) \in Int
  BY SumsAreNumbers
<1>4. f[t] \in Int /\ g[t] \in Int
  <2> HIDE DEF f, g
  <2> QED
    BY <1>1
<1> HIDE DEF f, g, m
<1>5. /\ SumFunctionOnSet(f, S \cup {t}) = f[t] + SumFunctionOnSet(f, S)
      /\ SumFunctionOnSet(g, S \cup {t}) = g[t] + SumFunctionOnSet(g, S)
  BY <1>1, SumAdd
<1>6. /\ SumFunctionOnSet(f, S \cup {t}) = SumFunctionOnSet(f, S) + f[t]
      /\ SumFunctionOnSet(g, S \cup {t}) = SumFunctionOnSet(g, S) + g[t]
  BY <1>3, <1>4, <1>5
<1> QED
  BY <1>2, <1>6 DEF f, g, m
-----------------------------------------------------------------------------
ChoiceType == [batch : Seq(TaskNodes), tokens : Int, used : Int, open : BOOLEAN]

(* A batch chosen from the tasks e of an instance, of which the memory     *)
(* base is in use; the tokens count if full.                               *)
Choice(e, nd, base, full, c) ==
  /\ c \in ChoiceType
  /\ IsInjective(c.batch) /\ ToSet(c.batch) \subseteq e
  /\ Len(c.batch) <= MaxBatchSize
  /\ full => /\ c.tokens = SumFunctionOnSet(TokensOf, ToSet(c.batch))
             /\ c.tokens <= MaxBatchTokens \/ Len(c.batch) <= 1
  /\ c.used >= base + SumFunctionOnSet(NewMemory(nd), ToSet(c.batch))
  /\ c.used = base \/ c.used <= MaxMemory
  /\ c.batch = <<>> => c.used = base

(* What a visit does with the choice a: leave it, end the scan, or take t. *)
Visited(e, nd, a, b, t, full) ==
  \/ b = a
  \/ b = Stop(a)
  \/ /\ t \in e /\ ~ HasRequest(a, t.req) /\ ~ SizeReached(a)
     /\ full => ~ TokensReached(a, t)
     /\ \/ nd[t] # "QUEUED" /\ b = Take(a, t, 0)
        \/ a.used + TaskMemory(t) <= MaxMemory /\ b = Take(a, t, TaskMemory(t))

(* A scan that is opened or stopped leaves the choice.                     *)
LEMMA StopLaw ==
  ASSUME NEW c \in ChoiceType, NEW x \in BOOLEAN
  PROVE  LET b == [c EXCEPT !.open = x]
         IN /\ b \in ChoiceType /\ b.batch = c.batch /\ b.tokens = c.tokens
            /\ b.used = c.used /\ b.open = x
  BY DEF ChoiceType

(* A task is taken into the batch.                                         *)
LEMMA TakeLaw ==
  ASSUME NEW c \in ChoiceType, NEW t \in TaskNodes, NEW m \in Int,
         TokensPerIteration(t) \in Int
  PROVE  LET b == Take(c, t, m)
         IN /\ b \in ChoiceType /\ b.batch = Append(c.batch, t)
            /\ b.tokens = c.tokens + TokensPerIteration(t)
            /\ b.used = c.used + m /\ b.open = c.open
<1> DEFINE k == TokensPerIteration(t)
           y == Append(c.batch, t)
           b == [c EXCEPT !.batch = y, !.tokens = c.tokens + k, !.used = c.used + m]
<1>1. Take(c, t, m) = b
  BY DEF Take, ChoiceType
<1>2. y \in Seq(TaskNodes) /\ c.tokens + k \in Int /\ c.used + m \in Int
  BY DEF ChoiceType
<1> HIDE DEF k, y
<1>3. /\ b \in ChoiceType /\ b.batch = y
      /\ b.tokens = c.tokens + k /\ b.used = c.used + m /\ b.open = c.open
  BY <1>2 DEF ChoiceType
<1> QED
  BY <1>1, <1>3 DEF k, y

(* A scan that is opened or stopped stays within the limits.               *)
LEMMA OpenChoice ==
  ASSUME NEW e, NEW nd, NEW base, NEW full, NEW c, NEW x \in BOOLEAN,
         Choice(e, nd, base, full, c)
  PROVE  Choice(e, nd, base, full, [c EXCEPT !.open = x])
<1> DEFINE b == [c EXCEPT !.open = x]
<1>1. /\ b \in ChoiceType /\ b.batch = c.batch /\ b.tokens = c.tokens /\ b.used = c.used
  BY StopLaw DEF Choice
<1> HIDE DEF b
<1>2. Choice(e, nd, base, full, b)
  BY <1>1 DEF Choice
<1> QED
  BY <1>2 DEF b

(* A visit keeps the choice within its limits.                             *)
LEMMA VisitedLaw ==
  ASSUME trace \in [Requests -> Shapes],
         NEW e \in SUBSET TaskNodes, NEW nd, NEW base \in Int, NEW full \in BOOLEAN,
         NEW a, NEW b, NEW t, Choice(e, nd, base, full, a),
         Visited(e, nd, a, b, t, full)
  PROVE  Choice(e, nd, base, full, b)
<1>1. CASE b = a
  BY <1>1
<1>2. CASE b = Stop(a)
  BY <1>2, OpenChoice DEF Stop
<1>3. ASSUME t \in e, ~ HasRequest(a, t.req), ~ SizeReached(a), full => ~ TokensReached(a, t),
             NEW m \in Int, b = Take(a, t, m),
             \/ nd[t] # "QUEUED" /\ m = 0
             \/ a.used + TaskMemory(t) <= MaxMemory /\ m = TaskMemory(t)
      PROVE  Choice(e, nd, base, full, b)
  <2> DEFINE S == ToSet(a.batch)
             tok == SumFunctionOnSet(TokensOf, S)
             mem == SumFunctionOnSet(NewMemory(nd), S)
             k == TokensPerIteration(t)
             fresh == IF nd[t] = "QUEUED" THEN TaskMemory(t) ELSE 0
  <2>1. /\ t \in TaskNodes /\ k \in Nat \ {0} /\ TaskMemory(t) \in Nat
        /\ fresh \in Nat /\ fresh <= m
    <3>1. t \in TaskNodes /\ k \in Nat \ {0} /\ TaskMemory(t) \in Nat
      BY <1>3, SizesAreNumbers
    <3> QED
      BY <1>3, <3>1
  <2>2. /\ a \in ChoiceType /\ a.batch \in Seq(TaskNodes) /\ a.tokens \in Int /\ a.used \in Int
        /\ Len(a.batch) \in Nat
    BY DEF Choice, ChoiceType
  <2>3. /\ b \in ChoiceType /\ b.batch = Append(a.batch, t)
        /\ b.tokens = a.tokens + k /\ b.used = a.used + m
    <3>1. k \in Int
      BY <2>1
    <3> QED
      BY <1>3, <2>1, <2>2, <3>1, TakeLaw
  <2>4. t \notin S
    BY <1>3 DEF HasRequest, ToSet
  <2>5. /\ IsInjective(b.batch) /\ ToSet(b.batch) = S \cup {t} /\ Len(b.batch) = Len(a.batch) + 1
    <3>1. IsInjective(a.batch)
      BY DEF Choice
    <3>2. Len(b.batch) = Len(a.batch) + 1
      BY <2>2, <2>3
    <3>3. IsInjective(Append(a.batch, t)) /\ ToSet(Append(a.batch, t)) = S \cup {t}
      BY <2>1, <2>2, <2>4, <3>1, AppendSet
    <3> QED
      BY <2>3, <3>2, <3>3
  <2>6. S \in SUBSET TaskNodes /\ IsFiniteSet(S) /\ S \subseteq e
    BY <2>2, LengthOfSet DEF Choice
  <2>7. /\ SumFunctionOnSet(TokensOf, S \cup {t}) = tok + k
        /\ SumFunctionOnSet(NewMemory(nd), S \cup {t}) = mem + fresh
        /\ tok \in Nat /\ mem \in Nat
    <3>1. tok \in Nat /\ mem \in Nat
      BY <2>6, SumsAreNumbers
    <3>2. /\ SumFunctionOnSet(TokensOf, S \cup {t}) = tok + k
          /\ SumFunctionOnSet(NewMemory(nd), S \cup {t}) = mem + fresh
      <4> HIDE DEF S
      <4> QED
        BY <2>1, <2>4, <2>6, SumsOfOneMore
    <3> QED
      BY <3>1, <3>2
  <2> DEFINE T == ToSet(b.batch)
             n == Len(a.batch)
             tm == TaskMemory(t)
             tok2 == SumFunctionOnSet(TokensOf, T)
             mem2 == SumFunctionOnSet(NewMemory(nd), T)
  <2>8. tok2 = tok + k /\ mem2 = mem + fresh
    <3> HIDE DEF tok, mem, k, fresh, S
    <3> QED
      BY <2>5, <2>7
  <2>9. n < MaxBatchSize
    <3>1. n <= MaxBatchSize /\ n # MaxBatchSize
      BY <1>3 DEF Choice, SizeReached
    <3> QED
      BY <2>2, <3>1, InstanceAssumption
  <2>10. full => a.tokens = tok /\ (a.batch = <<>> \/ a.tokens + k <= MaxBatchTokens)
    <3>1. full => a.tokens = tok
      BY DEF Choice
    <3>2. full => (a.batch = <<>> \/ ~ (a.tokens + k > MaxBatchTokens))
      BY <1>3 DEF TokensReached
    <3> QED
      BY <2>1, <2>2, <3>1, <3>2, InstanceAssumption
  <2>11. a.used >= base + mem /\ (a.used = base \/ a.used <= MaxMemory)
    BY DEF Choice
  <2> HIDE DEF k, tok, mem, fresh, tok2, mem2, T, S
  <2>12. full => b.tokens = tok2 /\ (b.tokens <= MaxBatchTokens \/ Len(b.batch) <= 1)
    <3>1. a.batch = <<>> => Len(b.batch) <= 1
      BY <2>5
    <3> QED
      BY <2>3, <2>8, <2>10, <3>1
  <2>13. b.used >= base + mem2
    BY <2>1, <2>2, <2>3, <2>7, <2>8, <2>11
  <2>14. b.used = base \/ b.used <= MaxMemory
    BY <1>3, <2>1, <2>2, <2>3, <2>11
  <2>15. Len(b.batch) <= MaxBatchSize
    BY <2>2, <2>5, <2>9, InstanceAssumption
  <2>16. T \subseteq e
    BY <1>3, <2>5, <2>6 DEF T
  <2>17. b.batch # <<>>
    BY <2>2, <2>3
  <2> QED
    BY <2>3, <2>5, <2>12, <2>13, <2>14, <2>15, <2>16, <2>17 DEF Choice, tok2, mem2, T
<1>4. ASSUME t \in e
      PROVE  TaskMemory(t) \in Int
  BY <1>4, SizesAreNumbers
<1> QED
  BY <1>1, <1>2, <1>3, <1>4 DEF Visited

(* The tasks whose turn it may be.                                         *)
Eligible(nd, at) == {t \in at : IsPrompt(t) \/ nd[Prompt(t.req)] = "COMPLETED"}

(* A token task that waits for its prompt waits in the same place, and has *)
(* not been passed over.                                                   *)
Ready(nd, pre, at) ==
  /\ \A t \in at : nd[t] \in {"QUEUED", "RUNNING", "BLOCKED"}
  /\ \A r \in Requests : Token(r) \in at /\ nd[Prompt(r)] # "COMPLETED" =>
       Prompt(r) \in at /\ nd[Token(r)] = "QUEUED" /\ pre[Token(r)] = 0

(* A token task that runs, is preempted or has been passed over may have   *)
(* its turn: its prompt is over.                                           *)
LEMMA TokensPassedOver ==
  ASSUME NEW nd, NEW pre, NEW at \in SUBSET TaskNodes, Ready(nd, pre, at), NEW t \in at,
         nd[t] # "QUEUED" \/ pre[t] # 0
  PROVE  t \in Eligible(nd, at)
  BY TaskParts DEF Eligible, Ready

(* A task of the request pool.                                             *)
LEMMA HeadTaskLaw ==
  ASSUME NEW s, NEW at \in SUBSET TaskNodes, Ready(s.node, s.preempted, at),
         s.node \in [Nodes -> NodeStates], NEW u \in at
  PROVE  HeadTask(s, u.req) \in Eligible(s.node, at) /\ HeadTask(s, u.req).req = u.req
<1> DEFINE r == u.req
<1>1. r \in Requests /\ (u = Prompt(r) \/ u = Token(r))
  BY TaskParts
<1>2. /\ Prompt(r) \in Nodes /\ Token(r) \in Nodes /\ Prompt(r).req = r /\ Token(r).req = r
      /\ IsPrompt(Prompt(r))
  BY <1>1, NodesOfRequests
<1>3. s.node[Prompt(r)] \in NodeStates
  BY <1>2
<1>4. CASE s.node[Prompt(r)] \in {"QUEUED", "RUNNING", "BLOCKED"}
  <2>1. HeadTask(s, r) = Prompt(r)
    BY <1>4 DEF HeadTask
  <2>2. Prompt(r) \in at
    BY <1>1, <1>4 DEF Ready
  <2> QED
    BY <1>2, <2>1, <2>2 DEF Eligible
<1>5. CASE s.node[Prompt(r)] \notin {"QUEUED", "RUNNING", "BLOCKED"}
  <2>1. HeadTask(s, r) = Token(r)
    BY <1>5 DEF HeadTask
  <2>2. u = Token(r)
    BY <1>1, <1>5 DEF Ready
  <2>3. s.node[Prompt(r)] = "COMPLETED"
    BY <1>1, <1>5, <2>2 DEF Ready
  <2> QED
    BY <1>2, <2>1, <2>2, <2>3 DEF Eligible
<1> QED
  BY <1>4, <1>5

(* The next tasks of the requests of the pool, in the order of the pool.   *)
LEMMA NextTasksLaw ==
  ASSUME NEW s \in StateType, NEW i \in Instances, NEW at \in SUBSET TaskNodes,
         Sound(s.inst[i], s.node, at), Ready(s.node, s.preempted, at)
  PROVE  /\ NextTasks(s, i) \in Seq(TaskNodes)
         /\ Len(NextTasks(s, i)) = Len(s.inst[i].pool)
         /\ \A k \in 1 .. Len(s.inst[i].pool) :
              /\ NextTasks(s, i)[k] \in Eligible(s.node, at)
              /\ NextTasks(s, i)[k].req = s.inst[i].pool[k]
<1> DEFINE p == s.inst[i].pool
           n == NextTasks(s, i)
<1>1. p \in Seq(Requests) /\ Len(p) \in Nat /\ DOMAIN p = 1 .. Len(p)
  BY QueueFields
<1>0. s.node \in [Nodes -> NodeStates]
  BY DEF StateType
<1>2. ASSUME NEW k \in 1 .. Len(p)
      PROVE  HeadTask(s, p[k]) \in Eligible(s.node, at) /\ HeadTask(s, p[k]).req = p[k]
  <2>1. p[k] \in ToSet(p)
    BY <1>1 DEF ToSet
  <2>2. PICK u \in at : p[k] = u.req
    BY <2>1 DEF Sound
  <2> QED
    BY <1>0, <2>2, HeadTaskLaw
<1>3. n = [k \in 1 .. Len(p) |-> HeadTask(s, p[k])]
  BY <1>1 DEF NextTasks
<1>4. \A k \in 1 .. Len(p) : HeadTask(s, p[k]) \in TaskNodes
  BY <1>2 DEF Eligible
<1> HIDE DEF n, p
<1>5. n \in Seq(TaskNodes) /\ Len(n) = Len(p)
  BY <1>1, <1>3, <1>4
<1> QED
  BY <1>2, <1>3, <1>5 DEF n, p
-----------------------------------------------------------------------------
(* What the visits do.                                                     *)
(* The visit of a task that may have been preempted too often.             *)
LEMMA OverPreemptedVisit ==
  ASSUME NEW s \in StateType, NEW at \in SUBSET TaskNodes,
         Ready(s.node, s.preempted, at), NEW t \in at, NEW a
  PROVE  Visited(Eligible(s.node, at), s.node, a, VisitOverPreempted(s, a, t), t, TRUE)
<1>1. CASE s.preempted[t] < MaxPreemptions \/ SizeReached(a) \/ TokensReached(a, t)
  BY <1>1 DEF VisitOverPreempted, Visited
<1>2. CASE ~ (s.preempted[t] < MaxPreemptions \/ SizeReached(a) \/ TokensReached(a, t))
  <2>1. s.preempted[t] # 0
    BY <1>2, InstanceAssumption
  <2>2. t \in Eligible(s.node, at)
    BY <2>1, TokensPassedOver
  <2>3. VisitOverPreempted(s, a, t) = Consider(a, t, s.node[t] = "BLOCKED", a)
    BY <1>2 DEF VisitOverPreempted
  <2>4. Visited(Eligible(s.node, at), s.node, a, Consider(a, t, s.node[t] = "BLOCKED", a), t, TRUE)
    BY <1>2, <2>2 DEF Visited, Consider
  <2> QED
    BY <2>3, <2>4
<1> QED
  BY <1>1, <1>2

(* The visit of a prompt.                                                  *)
LEMMA PromptVisit ==
  ASSUME NEW e, NEW nd, NEW t \in e, NEW a
  PROVE  Visited(e, nd, a, VisitPrompt(a, t), t, TRUE)
  BY DEF Visited, VisitPrompt, Consider

(* The visit of a task that has its memory.                                *)
LEMMA ResidentVisit ==
  ASSUME NEW e, NEW nd, NEW t \in e, nd[t] # "QUEUED", NEW a
  PROVE  Visited(e, nd, a, VisitResident(a, t), t, TRUE)
  BY DEF Visited, VisitResident, Consider

(* The visit of the next task of a request.                                *)
LEMMA NextVisit ==
  ASSUME NEW e, NEW s, NEW t \in e, NEW a
  PROVE  Visited(e, s.node, a, VisitNext(s, a, t), t, TRUE)
  BY DEF Visited, VisitNext, Consider

(* The visit of the next task of a request by ORCA.                        *)
LEMMA FirstComeVisit ==
  ASSUME NEW e, NEW s, NEW t \in e, NEW a
  PROVE  Visited(e, s.node, a, VisitFirstCome(s, a, t), t, FALSE)
  BY DEF Visited, VisitFirstCome, Consider
-----------------------------------------------------------------------------
(* The scan over the tasks preempted too often.                            *)
OverPreempted == INSTANCE LoopLaws WITH
  Op <- LAMBDA s, q, a, t : IF a.open THEN VisitOverPreempted(s, a, t) ELSE a

(* The scan is a loop over the pending queue.                              *)
LEMMA ScanOverIsLoop ==
  ASSUME NEW s, NEW i, NEW c
  PROVE  ScanOverPreempted(s, i, c)
           = OverPreempted!Loop(s, 0, [c EXCEPT !.open = TRUE], s.inst[i].pending)
  BY DEF ScanOverPreempted, Scan, FoldLeft, MapThenFoldSet, Max, OverPreempted!Loop,
         OverPreempted!MapThenFoldSet, OverPreempted!Max

(* The scan over the tasks preempted too often keeps the limits.           *)
LEMMA ScanOverLaw ==
  ASSUME trace \in [Requests -> Shapes], NEW s \in StateType, NEW i \in Instances,
         NEW e \in SUBSET TaskNodes, NEW nd, NEW base \in Int, NEW c,
         Choice(e, nd, base, TRUE, c),
         NEW at \in SUBSET TaskNodes, Sound(s.inst[i], s.node, at),
         Ready(s.node, s.preempted, at), e = Eligible(s.node, at), nd = s.node
  PROVE  Choice(e, nd, base, TRUE, ScanOverPreempted(s, i, c))
<1> DEFINE seq == s.inst[i].pending
           B == {a \in ChoiceType : Choice(e, nd, base, TRUE, a)}
           J == [k \in 0 .. Len(seq) |-> B]
           c0 == [c EXCEPT !.open = TRUE]
<1>0. seq \in Seq(TaskNodes) /\ Len(seq) \in Nat
  BY QueueFields
<1>1. c0 \in J[0]
  <2>1. Choice(e, nd, base, TRUE, c0)
    BY OpenChoice
  <2>2. c0 \in ChoiceType
    BY <2>1 DEF Choice
  <2>3. 0 \in 0 .. Len(seq)
    BY <1>0
  <2> HIDE DEF c0, seq
  <2> QED
    BY <2>1, <2>2, <2>3
<1>2. ASSUME NEW k \in 1 .. Len(seq), NEW a \in J[k - 1]
      PROVE  (IF a.open THEN VisitOverPreempted(s, a, seq[k]) ELSE a) \in J[k]
  <2>1. k - 1 \in 0 .. Len(seq) /\ k \in 0 .. Len(seq) /\ k \in DOMAIN seq
    BY <1>0
  <2>2. a \in ChoiceType /\ Choice(e, nd, base, TRUE, a)
    BY <2>1
  <2> DEFINE t == seq[k]
             b == VisitOverPreempted(s, a, t)
  <2>3. t \in ToSet(seq)
    BY <2>1 DEF ToSet
  <2>4. Visited(e, nd, a, b, t, TRUE)
    <3>1. t \in at
      BY <2>3 DEF Sound
    <3> HIDE DEF t
    <3> QED
      BY <3>1, OverPreemptedVisit
  <2> HIDE DEF b, t, seq
  <2>5. Choice(e, nd, base, TRUE, b)
    BY <2>2, <2>4, VisitedLaw
  <2>6. b \in ChoiceType
    BY <2>5 DEF Choice
  <2>7. a \in J[k] /\ b \in J[k]
    BY <2>1, <2>2, <2>5, <2>6
  <2> QED
    BY <2>7 DEF b, t
<1> HIDE DEF J, c0
<1>3. OverPreempted!Loop(s, 0, c0, seq) \in J[Len(seq)]
  BY <1>0, <1>1, <1>2, Induction, OverPreempted!LoopInvariant
<1>4. ScanOverPreempted(s, i, c) = OverPreempted!Loop(s, 0, c0, seq)
  BY ScanOverIsLoop DEF c0
<1> DEFINE z == ScanOverPreempted(s, i, c)
<1> HIDE DEF seq, z
<1>5. z \in J[Len(seq)]
  BY <1>3, <1>4 DEF z
<1>6. z \in B
  <2> HIDE DEF B
  <2>1. Len(seq) \in 0 .. Len(seq)
    BY <1>0
  <2> QED
    BY <1>5, <2>1 DEF J
<1> QED
  BY <1>6 DEF z

PromptScan == INSTANCE LoopLaws WITH
  Op <- LAMBDA s, q, a, t : IF a.open THEN VisitPrompt(a, t) ELSE a

(* The scan of prompts is a loop over the queue of prompts.                *)
LEMMA ScanPromptsIsLoop ==
  ASSUME NEW s, NEW i, NEW c
  PROVE  ScanPrompts(s, i, c) = PromptScan!Loop(0, 0, [c EXCEPT !.open = TRUE], s.inst[i].prompts)
  BY DEF ScanPrompts, Scan, FoldLeft, MapThenFoldSet, Max, PromptScan!Loop,
         PromptScan!MapThenFoldSet, PromptScan!Max

(* The scan of prompts keeps the limits.                                   *)
LEMMA ScanPromptsLaw ==
  ASSUME trace \in [Requests -> Shapes], NEW s \in StateType, NEW i \in Instances,
         NEW e \in SUBSET TaskNodes, NEW nd, NEW base \in Int, NEW c,
         Choice(e, nd, base, TRUE, c),
         ToSet(s.inst[i].prompts) \subseteq e
  PROVE  Choice(e, nd, base, TRUE, ScanPrompts(s, i, c))
<1> DEFINE seq == s.inst[i].prompts
           B == {a \in ChoiceType : Choice(e, nd, base, TRUE, a)}
           J == [k \in 0 .. Len(seq) |-> B]
           c0 == [c EXCEPT !.open = TRUE]
<1>0. seq \in Seq(TaskNodes) /\ Len(seq) \in Nat
  BY QueueFields
<1>1. c0 \in J[0]
  <2>1. Choice(e, nd, base, TRUE, c0)
    BY OpenChoice
  <2>2. c0 \in ChoiceType
    BY <2>1 DEF Choice
  <2>3. 0 \in 0 .. Len(seq)
    BY <1>0
  <2> HIDE DEF c0, seq
  <2> QED
    BY <2>1, <2>2, <2>3
<1>2. ASSUME NEW k \in 1 .. Len(seq), NEW a \in J[k - 1]
      PROVE  (IF a.open THEN VisitPrompt(a, seq[k]) ELSE a) \in J[k]
  <2>1. k - 1 \in 0 .. Len(seq) /\ k \in 0 .. Len(seq) /\ k \in DOMAIN seq
    BY <1>0
  <2>2. a \in ChoiceType /\ Choice(e, nd, base, TRUE, a)
    BY <2>1
  <2> DEFINE t == seq[k]
             b == VisitPrompt(a, t)
  <2>3. t \in ToSet(seq)
    BY <2>1 DEF ToSet
  <2>4. Visited(e, nd, a, b, t, TRUE)
    <3>1. t \in e
      BY <2>3
    <3> HIDE DEF t
    <3> QED
      BY <3>1, PromptVisit
  <2> HIDE DEF b, t, seq
  <2>5. Choice(e, nd, base, TRUE, b)
    BY <2>2, <2>4, VisitedLaw
  <2>6. b \in ChoiceType
    BY <2>5 DEF Choice
  <2>7. a \in J[k] /\ b \in J[k]
    BY <2>1, <2>2, <2>5, <2>6
  <2> QED
    BY <2>7 DEF b, t
<1> HIDE DEF J, c0
<1>3. PromptScan!Loop(0, 0, c0, seq) \in J[Len(seq)]
  BY <1>0, <1>1, <1>2, Induction, PromptScan!LoopInvariant
<1>4. ScanPrompts(s, i, c) = PromptScan!Loop(0, 0, c0, seq)
  BY ScanPromptsIsLoop DEF c0
<1> DEFINE z == ScanPrompts(s, i, c)
<1> HIDE DEF seq, z
<1>5. z \in J[Len(seq)]
  BY <1>3, <1>4 DEF z
<1>6. z \in B
  <2> HIDE DEF B
  <2>1. Len(seq) \in 0 .. Len(seq)
    BY <1>0
  <2> QED
    BY <1>5, <2>1 DEF J
<1> QED
  BY <1>6 DEF z

ResidentScan == INSTANCE LoopLaws WITH
  Op <- LAMBDA s, q, a, t : IF a.open THEN VisitResident(a, t) ELSE a

(* The scan of tasks that have their memory is a loop.                     *)
LEMMA ScanResidentIsLoop ==
  ASSUME NEW tasks, NEW c
  PROVE  ScanResident(c, tasks) = ResidentScan!Loop(0, 0, [c EXCEPT !.open = TRUE], tasks)
  BY DEF ScanResident, Scan, FoldLeft, MapThenFoldSet, Max, ResidentScan!Loop,
         ResidentScan!MapThenFoldSet, ResidentScan!Max

(* The scan of tasks that have their memory keeps the limits.              *)
LEMMA ScanResidentLaw ==
  ASSUME trace \in [Requests -> Shapes], NEW tasks \in Seq(TaskNodes),
         NEW e \in SUBSET TaskNodes, NEW nd, NEW base \in Int, NEW c,
         Choice(e, nd, base, TRUE, c),
         ToSet(tasks) \subseteq e, \A x \in ToSet(tasks) : nd[x] # "QUEUED"
  PROVE  Choice(e, nd, base, TRUE, ScanResident(c, tasks))
<1> DEFINE seq == tasks
           B == {a \in ChoiceType : Choice(e, nd, base, TRUE, a)}
           J == [k \in 0 .. Len(seq) |-> B]
           c0 == [c EXCEPT !.open = TRUE]
<1>0. seq \in Seq(TaskNodes) /\ Len(seq) \in Nat
  OBVIOUS
<1>1. c0 \in J[0]
  <2>1. Choice(e, nd, base, TRUE, c0)
    BY OpenChoice
  <2>2. c0 \in ChoiceType
    BY <2>1 DEF Choice
  <2>3. 0 \in 0 .. Len(seq)
    BY <1>0
  <2> HIDE DEF c0, seq
  <2> QED
    BY <2>1, <2>2, <2>3
<1>2. ASSUME NEW k \in 1 .. Len(seq), NEW a \in J[k - 1]
      PROVE  (IF a.open THEN VisitResident(a, seq[k]) ELSE a) \in J[k]
  <2>1. k - 1 \in 0 .. Len(seq) /\ k \in 0 .. Len(seq) /\ k \in DOMAIN seq
    BY <1>0
  <2>2. a \in ChoiceType /\ Choice(e, nd, base, TRUE, a)
    BY <2>1
  <2> DEFINE t == seq[k]
             b == VisitResident(a, t)
  <2>3. t \in ToSet(seq)
    BY <2>1 DEF ToSet
  <2>4. Visited(e, nd, a, b, t, TRUE)
    <3>1. t \in e /\ nd[t] # "QUEUED"
      BY <2>3
    <3> HIDE DEF t
    <3> QED
      BY <3>1, ResidentVisit
  <2> HIDE DEF b, t, seq
  <2>5. Choice(e, nd, base, TRUE, b)
    BY <2>2, <2>4, VisitedLaw
  <2>6. b \in ChoiceType
    BY <2>5 DEF Choice
  <2>7. a \in J[k] /\ b \in J[k]
    BY <2>1, <2>2, <2>5, <2>6
  <2> QED
    BY <2>7 DEF b, t
<1> HIDE DEF J, c0
<1>3. ResidentScan!Loop(0, 0, c0, seq) \in J[Len(seq)]
  BY <1>0, <1>1, <1>2, Induction, ResidentScan!LoopInvariant
<1>4. ScanResident(c, tasks) = ResidentScan!Loop(0, 0, c0, seq)
  BY ScanResidentIsLoop DEF c0
<1> DEFINE z == ScanResident(c, tasks)
<1> HIDE DEF seq, z
<1>5. z \in J[Len(seq)]
  BY <1>3, <1>4 DEF z
<1>6. z \in B
  <2> HIDE DEF B
  <2>1. Len(seq) \in 0 .. Len(seq)
    BY <1>0
  <2> QED
    BY <1>5, <2>1 DEF J
<1> QED
  BY <1>6 DEF z

PoolScan == INSTANCE LoopLaws WITH
  Op <- LAMBDA s, q, a, t : IF a.open THEN VisitNext(s, a, t) ELSE a

(* The scan of the pool is a loop over the next tasks.                     *)
LEMMA ScanPoolIsLoop ==
  ASSUME NEW s, NEW i, NEW c
  PROVE  ScanPool(s, i, c) = PoolScan!Loop(s, 0, [c EXCEPT !.open = TRUE], NextTasks(s, i))
  BY DEF ScanPool, Scan, FoldLeft, MapThenFoldSet, Max, PoolScan!Loop,
         PoolScan!MapThenFoldSet, PoolScan!Max

(* The scan of the pool keeps the limits.                                  *)
LEMMA ScanPoolLaw ==
  ASSUME trace \in [Requests -> Shapes], NEW s \in StateType, NEW i \in Instances,
         NEW e \in SUBSET TaskNodes, NEW nd, NEW base \in Int, NEW c,
         Choice(e, nd, base, TRUE, c), nd = s.node,
         NextTasks(s, i) \in Seq(TaskNodes), ToSet(NextTasks(s, i)) \subseteq e
  PROVE  Choice(e, nd, base, TRUE, ScanPool(s, i, c))
<1> DEFINE seq == NextTasks(s, i)
           B == {a \in ChoiceType : Choice(e, nd, base, TRUE, a)}
           J == [k \in 0 .. Len(seq) |-> B]
           c0 == [c EXCEPT !.open = TRUE]
<1>0. seq \in Seq(TaskNodes) /\ Len(seq) \in Nat
  BY QueueFields
<1>1. c0 \in J[0]
  <2>1. Choice(e, nd, base, TRUE, c0)
    BY OpenChoice
  <2>2. c0 \in ChoiceType
    BY <2>1 DEF Choice
  <2>3. 0 \in 0 .. Len(seq)
    BY <1>0
  <2> HIDE DEF c0, seq
  <2> QED
    BY <2>1, <2>2, <2>3
<1>2. ASSUME NEW k \in 1 .. Len(seq), NEW a \in J[k - 1]
      PROVE  (IF a.open THEN VisitNext(s, a, seq[k]) ELSE a) \in J[k]
  <2>1. k - 1 \in 0 .. Len(seq) /\ k \in 0 .. Len(seq) /\ k \in DOMAIN seq
    BY <1>0
  <2>2. a \in ChoiceType /\ Choice(e, nd, base, TRUE, a)
    BY <2>1
  <2> DEFINE t == seq[k]
             b == VisitNext(s, a, t)
  <2>3. t \in ToSet(seq)
    BY <2>1 DEF ToSet
  <2>4. Visited(e, nd, a, b, t, TRUE)
    <3>1. t \in e
      BY <2>3
    <3> HIDE DEF t
    <3> QED
      BY <3>1, NextVisit
  <2> HIDE DEF b, t, seq
  <2>5. Choice(e, nd, base, TRUE, b)
    BY <2>2, <2>4, VisitedLaw
  <2>6. b \in ChoiceType
    BY <2>5 DEF Choice
  <2>7. a \in J[k] /\ b \in J[k]
    BY <2>1, <2>2, <2>5, <2>6
  <2> QED
    BY <2>7 DEF b, t
<1> HIDE DEF J, c0
<1>3. PoolScan!Loop(s, 0, c0, seq) \in J[Len(seq)]
  BY <1>0, <1>1, <1>2, Induction, PoolScan!LoopInvariant
<1>4. ScanPool(s, i, c) = PoolScan!Loop(s, 0, c0, seq)
  BY ScanPoolIsLoop DEF c0
<1> DEFINE z == ScanPool(s, i, c)
<1> HIDE DEF seq, z
<1>5. z \in J[Len(seq)]
  BY <1>3, <1>4 DEF z
<1>6. z \in B
  <2> HIDE DEF B
  <2>1. Len(seq) \in 0 .. Len(seq)
    BY <1>0
  <2> QED
    BY <1>5, <2>1 DEF J
<1> QED
  BY <1>6 DEF z

(* The memory in use is a sum over the requests.                           *)
LEMMA UsedMemorySum ==
  ASSUME NEW s \in StateType, NEW i \in Instances
  PROVE  /\ UsedMemory(s, i) = ModelSize + SumFunctionOnSet(s.alloc[i], Requests)
         /\ SumFunctionOnSet(s.alloc[i], Requests) \in Int
         /\ UsedMemory(s, i) \in Int
<1> DEFINE f == s.alloc[i]
<1>1. f \in [Requests -> Int]
  BY DEF StateType
<1>2. DOMAIN f = Requests /\ \A r \in Requests : f[r] \in Int
  <2> HIDE DEF f
  <2> QED
    BY <1>1
<1>3. FoldFunction(+, 0, f) = SumFunctionOnSet(f, Requests)
  BY <1>2 DEF FoldFunction, SumFunctionOnSet
<1>4. SumFunctionOnSet(f, Requests) \in Int
  <2> HIDE DEF f
  <2> QED
    BY <1>2, TraceAssumption, SumType
<1>5. UsedMemory(s, i) = ModelSize + SumFunctionOnSet(f, Requests)
  BY <1>3 DEF UsedMemory
<1> HIDE DEF f
<1>6. ModelSize + SumFunctionOnSet(f, Requests) \in Int
  BY <1>4, InstanceAssumption
<1> QED
  BY <1>4, <1>5, <1>6 DEF f

Running(q, nd) == \A t \in ToSet(q.batch) : nd[t] = "RUNNING"

(* Running, preempted and waiting prompt tasks may have their turn, and    *)
(* the first two have their memory.                                        *)
LEMMA RunningIsEligible ==
  ASSUME NEW q, NEW nd, NEW pre, NEW at \in SUBSET TaskNodes,
         Sound(q, nd, at), Ready(nd, pre, at), Running(q, nd)
  PROVE  /\ ToSet(q.batch) \subseteq Eligible(nd, at)
         /\ ToSet(q.blocked) \subseteq Eligible(nd, at)
         /\ ToSet(q.prompts) \subseteq Eligible(nd, at)
         /\ \A t \in ToSet(q.batch) \cup ToSet(q.blocked) : nd[t] # "QUEUED"
<1>1. \A t \in ToSet(q.batch) : t \in at /\ nd[t] # "QUEUED"
  BY DEF Sound, Running
<1>2. \A t \in ToSet(q.blocked) : t \in at /\ nd[t] # "QUEUED"
  BY DEF Sound
<1>3. \A t \in ToSet(q.batch) \cup ToSet(q.blocked) : t \in Eligible(nd, at)
  BY <1>1, <1>2, TokensPassedOver
<1>4. \A t \in ToSet(q.prompts) : t \in at /\ IsPrompt(t)
  BY DEF Sound
<1>5. ToSet(q.prompts) \subseteq Eligible(nd, at)
  BY <1>4 DEF Eligible
<1> QED
  BY <1>1, <1>2, <1>3, <1>5

(* A batch of running tasks takes no new memory.                           *)
LEMMA NothingNew ==
  ASSUME trace \in [Requests -> Shapes], NEW nd, NEW S \in SUBSET TaskNodes, IsFiniteSet(S),
         \A t \in S : nd[t] # "QUEUED"
  PROVE  SumFunctionOnSet(NewMemory(nd), S) = 0
<1> DEFINE g == NewMemory(nd)
<1>1. \A t \in S : g[t] = 0
  BY DEF NewMemory
<1> HIDE DEF g
<1>2. SumFunctionOnSet(g, S) = 0
  BY <1>1, SumZero
<1> QED
  BY <1>2 DEF g

(* select_batch of SplitwiseInstance keeps the limits of size, tokens and  *)
(* memory.                                                                 *)
LEMMA SelectByPriorityLaw ==
  ASSUME trace \in [Requests -> Shapes], NEW s \in StateType, NEW i \in Instances,
         NEW at \in SUBSET TaskNodes, Sound(s.inst[i], s.node, at),
         Ready(s.node, s.preempted, at), Running(s.inst[i], s.node)
  PROVE  LET Chooses(c) == Choice(Eligible(s.node, at), s.node, UsedMemory(s, i), TRUE, c)
         IN /\ Chooses(SelectByPriority(s, i))
            /\ \E c : Chooses(c) /\ SelectByPriority(s, i) = ScanPool(s, i, c)
<1> DEFINE e == Eligible(s.node, at)
           nd == s.node
           base == UsedMemory(s, i)
           q == s.inst[i]
           c0 == NoBatch(s, i)
           c1 == ScanOverPreempted(s, i, c0)
           c2 == ScanPrompts(s, i, c1)
           c3 == ScanResident(c2, q.blocked)
           c4 == ScanResident(c3, q.batch)
           c5 == ScanPool(s, i, c4)
<1>1. /\ e \in SUBSET TaskNodes /\ base \in Int /\ q.blocked \in Seq(TaskNodes)
      /\ q.batch \in Seq(TaskNodes)
  BY QueueFields, UsedMemorySum DEF Eligible
<1>2. /\ ToSet(q.batch) \subseteq e /\ ToSet(q.blocked) \subseteq e /\ ToSet(q.prompts) \subseteq e
      /\ \A t \in ToSet(q.batch) \cup ToSet(q.blocked) : nd[t] # "QUEUED"
  BY RunningIsEligible
<1>3. NextTasks(s, i) \in Seq(TaskNodes) /\ ToSet(NextTasks(s, i)) \subseteq e
  <2> DEFINE n == NextTasks(s, i)
  <2>1. /\ n \in Seq(TaskNodes) /\ Len(n) = Len(q.pool)
        /\ \A k \in 1 .. Len(q.pool) : n[k] \in e
    BY NextTasksLaw
  <2> HIDE DEF n, e, q
  <2>2. ToSet(n) \subseteq e
    BY <2>1 DEF ToSet
  <2> QED
    BY <2>1, <2>2 DEF n
<1>4. Choice(e, nd, base, TRUE, c0)
  <2>1. /\ c0 \in ChoiceType /\ c0.batch = <<>> /\ c0.tokens = 0 /\ c0.used = base
    BY <1>1 DEF NoBatch, ChoiceType
  <2>2. /\ ToSet(<<>>) = {} /\ IsInjective(<<>>) /\ Len(<<>>) = 0
    BY DEF ToSet, IsInjective
  <2>3. SumFunctionOnSet(TokensOf, {}) = 0 /\ SumFunctionOnSet(NewMemory(nd), {}) = 0
    BY SumEmpty
  <2> HIDE DEF c0, nd, base, e
  <2>4. /\ IsInjective(c0.batch) /\ ToSet(c0.batch) \subseteq e /\ Len(c0.batch) <= MaxBatchSize
        /\ Len(c0.batch) <= 1
    BY <2>1, <2>2, InstanceAssumption
  <2>5. c0.tokens = SumFunctionOnSet(TokensOf, ToSet(c0.batch))
    BY <2>1, <2>2, <2>3
  <2>6. c0.used >= base + SumFunctionOnSet(NewMemory(nd), ToSet(c0.batch))
    <3> DEFINE m == SumFunctionOnSet(NewMemory(nd), ToSet(c0.batch))
    <3>1. m = 0
      BY <2>1, <2>2, <2>3
    <3> HIDE DEF m
    <3>2. c0.used >= base + m
      BY <1>1, <2>1, <3>1
    <3> QED
      BY <3>2 DEF m
  <2> QED
    BY <2>1, <2>4, <2>5, <2>6 DEF Choice
<1> HIDE DEF c0
<1>5. Choice(e, nd, base, TRUE, c1)
  BY <1>1, <1>4, ScanOverLaw
<1> HIDE DEF c1
<1>6. Choice(e, nd, base, TRUE, c2)
  <2> HIDE DEF e, nd, base
  <2> QED
    BY <1>1, <1>2, <1>5, ScanPromptsLaw
<1> HIDE DEF c2
<1>7. Choice(e, nd, base, TRUE, c3)
  <2> HIDE DEF e, nd, base, q
  <2> QED
    BY <1>1, <1>2, <1>6, ScanResidentLaw
<1> HIDE DEF c3
<1>8. Choice(e, nd, base, TRUE, c4)
  <2> HIDE DEF e, nd, base, q
  <2> QED
    BY <1>1, <1>2, <1>7, ScanResidentLaw
<1> HIDE DEF c4
<1>9. Choice(e, nd, base, TRUE, c5)
  <2> HIDE DEF e, base
  <2> QED
    BY <1>1, <1>3, <1>8, ScanPoolLaw
<1>10. SelectByPriority(s, i) = c5
  BY DEF SelectByPriority, c0, c1, c2, c3, c4
<1> QED
  BY <1>8, <1>9, <1>10

-----------------------------------------------------------------------------
(* ORCA: the batch so far, and the next tasks in order of arrival.         *)
FirstComeScan == INSTANCE LoopLaws WITH
  Op <- LAMBDA s, q, a, t : IF a.open THEN VisitFirstCome(s, a, t) ELSE a

(* select_batch of ORCAInstance is a loop over the next tasks.             *)
LEMMA FirstComeIsLoop ==
  ASSUME NEW s, NEW i
  PROVE  SelectFirstCome(s, i)
           = [FirstComeScan!Loop(s, 0,
                [[NoBatch(s, i) EXCEPT !.batch = s.inst[i].batch] EXCEPT !.open = TRUE],
                NextTasks(s, i)) EXCEPT !.tokens = 0]
  BY DEF SelectFirstCome, Scan, FoldLeft, MapThenFoldSet, Max, FirstComeScan!Loop,
         FirstComeScan!MapThenFoldSet, FirstComeScan!Max

RequestsOf(S) == {u.req : u \in S}

(* The test whether a request is in the batch.                             *)
LEMMA HasRequestLaw ==
  ASSUME NEW c \in ChoiceType, NEW r
  PROVE  HasRequest(c, r) <=> r \in RequestsOf(ToSet(c.batch))
  BY DEF ChoiceType, HasRequest, RequestsOf, ToSet

(* In the batch are the old tasks and others none of which comes before an *)
(* older request of the pool.                                              *)
FirstCome(old, batch, pool) ==
  \A t \in ToSet(batch) \ old, r \in ToSet(pool) :
    r < t.req => r \in RequestsOf(ToSet(batch))

FirstComeUpTo(e, nd, base, old, pool, a, k) ==
  /\ Choice(e, nd, base, FALSE, a) /\ old \subseteq ToSet(a.batch)
  /\ a.open => \A j \in 1 .. k : pool[j] \in RequestsOf(ToSet(a.batch))
  /\ \A x \in ToSet(a.batch) \ old : \E m \in 1 .. k :
       /\ x.req = pool[m]
       /\ \A j \in 1 .. m - 1 : pool[j] \in RequestsOf(ToSet(a.batch))

(* One visit keeps the order of arrival.                                   *)
LEMMA FirstComeStep ==
  ASSUME trace \in [Requests -> Shapes], NEW e \in SUBSET TaskNodes, NEW s,
         NEW base \in Int, NEW old, NEW pool \in Seq(Requests),
         NEW k \in 1 .. Len(pool), NEW t \in e, t.req = pool[k], NEW a,
         FirstComeUpTo(e, s.node, base, old, pool, a, k - 1), a.open
  PROVE  FirstComeUpTo(e, s.node, base, old, pool, VisitFirstCome(s, a, t), k)
<1> DEFINE b == VisitFirstCome(s, a, t)
           had == RequestsOf(ToSet(a.batch))
<1> USE DEF FirstComeUpTo
<1>a. a \in ChoiceType
  BY DEF Choice
<1>0. k \in Nat /\ t \in TaskNodes /\ a.batch \in Seq(TaskNodes)
  BY <1>a DEF ChoiceType
<1>1. Visited(e, s.node, a, b, t, FALSE)
  BY FirstComeVisit
<1>2. Choice(e, s.node, base, FALSE, b) /\ b \in ChoiceType
  <2> HIDE DEF b
  <2>1. Choice(e, s.node, base, FALSE, b)
    BY <1>1, VisitedLaw
  <2> QED
    BY <2>1 DEF Choice
<1>3. \/ b = Stop(a)
      \/ b = a /\ HasRequest(a, t.req)
      \/ \E m \in Int : b = Take(a, t, m)
  <2>1. TaskMemory(t) \in Int
    BY <1>0, SizesAreNumbers
  <2> QED
    BY <2>1 DEF VisitFirstCome, Consider
<1> HIDE DEF b
<1>4. \A m \in 1 .. k - 1 : m \in 1 .. k /\ 1 .. m - 1 \subseteq 1 .. k - 1
  BY <1>0
<1>5. CASE b = Stop(a)
  <2>1. b.batch = a.batch /\ ~ b.open
    BY <1>a, <1>5 DEF Stop, ChoiceType
  <2> QED
    BY <1>2, <1>4, <2>1 DEF b
<1>6. CASE b = a /\ HasRequest(a, t.req)
  <2>1. pool[k] \in had
    BY <1>a, <1>6, HasRequestLaw
  <2>2. \A j \in 1 .. k : j \in 1 .. k - 1 \/ j = k
    BY <1>0
  <2>3. \A j \in 1 .. k : pool[j] \in had
    BY <2>1, <2>2
  <2> QED
    BY <1>2, <1>4, <1>6, <2>3 DEF b
<1>7. ASSUME NEW m \in Int, b = Take(a, t, m)
      PROVE  /\ old \subseteq ToSet(b.batch)
             /\ b.open => \A j \in 1 .. k : pool[j] \in RequestsOf(ToSet(b.batch))
             /\ \A x \in ToSet(b.batch) \ old : \E n \in 1 .. k :
                  /\ x.req = pool[n]
                  /\ \A j \in 1 .. n - 1 : pool[j] \in RequestsOf(ToSet(b.batch))
  <2>1. b.batch = Append(a.batch, t)
    <3>1. TokensPerIteration(t) \in Int
      BY <1>0, SizesAreNumbers
    <3> QED
      BY <1>a, <1>0, <1>7, <3>1, TakeLaw
  <2>2. ToSet(b.batch) = ToSet(a.batch) \cup {t}
    BY <1>0, <2>1, AppendSet
  <2>3. had \subseteq RequestsOf(ToSet(b.batch)) /\ pool[k] \in RequestsOf(ToSet(b.batch))
    BY <2>2 DEF RequestsOf
  <2>4. \A j \in 1 .. k : j \in 1 .. k - 1 \/ j = k
    BY <1>0
  <2>5. \A j \in 1 .. k : pool[j] \in RequestsOf(ToSet(b.batch))
    BY <2>3, <2>4
  <2>6. \A x \in ToSet(b.batch) \ old : \E n \in 1 .. k : x.req = pool[n]
    <3>1. \A x \in ToSet(b.batch) \ old : x \in ToSet(a.batch) \ old \/ x = t
      BY <2>2
    <3>2. k \in 1 .. k
      BY <1>0
    <3> QED
      BY <1>4, <3>1, <3>2
  <2>7. \A n \in 1 .. k : \A j \in 1 .. n - 1 : j \in 1 .. k
    BY <1>0
  <2> QED
    BY <2>2, <2>5, <2>6, <2>7
<1> QED
  BY <1>2, <1>3, <1>5, <1>6, <1>7 DEF b

(* select_batch of ORCAInstance keeps its batch, the limits of size and    *)
(* memory, and the order of arrival.                                       *)
LEMMA SelectFirstComeLaw ==
  ASSUME trace \in [Requests -> Shapes], NEW s \in StateType, NEW i \in Instances,
         NEW at \in SUBSET TaskNodes, Sound(s.inst[i], s.node, at),
         Ready(s.node, s.preempted, at), Running(s.inst[i], s.node),
         Len(s.inst[i].batch) <= MaxBatchSize
  PROVE  LET c == SelectFirstCome(s, i)
             q == s.inst[i]
         IN /\ Choice(Eligible(s.node, at), s.node, UsedMemory(s, i), FALSE, c)
            /\ ToSet(q.batch) \subseteq ToSet(c.batch)
            /\ FirstCome(ToSet(q.batch), c.batch, q.pool)
<1> DEFINE e == Eligible(s.node, at)
           nd == s.node
           base == UsedMemory(s, i)
           q == s.inst[i]
           old == ToSet(q.batch)
           pool == q.pool
           seq == NextTasks(s, i)
           c0 == [[NoBatch(s, i) EXCEPT !.batch = q.batch] EXCEPT !.open = TRUE]
           Inv(a, k) == FirstComeUpTo(e, nd, base, old, pool, a, k)
           J == [k \in 0 .. Len(seq) |-> {a \in ChoiceType : Inv(a, k)}]
<1>1. /\ e \in SUBSET TaskNodes /\ base \in Int /\ q.batch \in Seq(TaskNodes)
      /\ pool \in Seq(Requests) /\ IsInjective(q.batch) /\ Sorted(pool)
  <2>1. /\ e \in SUBSET TaskNodes /\ base \in Int /\ q.batch \in Seq(TaskNodes)
        /\ pool \in Seq(Requests)
    BY QueueFields, UsedMemorySum DEF Eligible
  <2> QED
    BY <2>1 DEF Sound
<1>2. /\ old \subseteq e
      /\ \A t \in old : nd[t] # "QUEUED"
  BY RunningIsEligible
<1>3. /\ seq \in Seq(TaskNodes) /\ Len(seq) = Len(pool) /\ Len(seq) \in Nat
      /\ \A k \in 1 .. Len(pool) : seq[k] \in e /\ seq[k].req = pool[k]
  <2>1. /\ seq \in Seq(TaskNodes) /\ Len(seq) = Len(pool)
        /\ \A k \in 1 .. Len(pool) : seq[k] \in e /\ seq[k].req = pool[k]
    BY NextTasksLaw
  <2>2. Len(seq) \in Nat
    BY <2>1
  <2> QED
    BY <2>1, <2>2
<1> HIDE DEF seq
<1>4. c0 \in J[0]
  <2>1. /\ c0 \in ChoiceType /\ c0.batch = q.batch /\ c0.used = base
    <3> DEFINE bt == q.batch
               n == NoBatch(s, i)
    <3>1. n \in ChoiceType /\ n.used = base
      BY <1>1 DEF NoBatch, ChoiceType
    <3>2. bt \in Seq(TaskNodes) /\ c0 = [[n EXCEPT !.batch = bt] EXCEPT !.open = TRUE]
      BY <1>1
    <3> HIDE DEF c0, bt, base, n
    <3>3. c0 \in ChoiceType /\ c0.batch = bt /\ c0.used = base
      BY <3>1, <3>2 DEF ChoiceType
    <3> QED
      BY <3>3 DEF bt
  <2>2. SumFunctionOnSet(NewMemory(nd), old) = 0
    <3>1. IsFiniteSet(old) /\ old \in SUBSET TaskNodes
      BY <1>1, <1>2, LengthOfSet
    <3> HIDE DEF old, nd
    <3> QED
      BY <1>2, <3>1, NothingNew
  <2>3. Len(q.batch) <= MaxBatchSize
    OBVIOUS
  <2> HIDE DEF c0, nd, base, e, q
  <2>4. c0.used >= base + SumFunctionOnSet(NewMemory(nd), ToSet(c0.batch))
    <3> DEFINE m == SumFunctionOnSet(NewMemory(nd), ToSet(c0.batch))
    <3>1. m = 0
      BY <2>1, <2>2
    <3> HIDE DEF m
    <3>2. c0.used >= base + m
      BY <1>1, <2>1, <3>1
    <3> QED
      BY <3>2 DEF m
  <2>5. Choice(e, nd, base, FALSE, c0)
    BY <1>1, <1>2, <2>1, <2>3, <2>4 DEF Choice
  <2>6. 1 .. 0 = {}
    OBVIOUS
  <2>7. Inv(c0, 0)
    BY <2>1, <2>5, <2>6 DEF FirstComeUpTo
  <2>8. 0 \in 0 .. Len(seq)
    BY <1>3
  <2> HIDE DEF Inv
  <2> QED
    BY <2>1, <2>7, <2>8
<1>5. ASSUME NEW k \in 1 .. Len(seq), NEW a \in J[k - 1]
      PROVE  (IF a.open THEN VisitFirstCome(s, a, seq[k]) ELSE a) \in J[k]
  <2>1. k - 1 \in 0 .. Len(seq) /\ k \in 0 .. Len(seq) /\ k \in 1 .. Len(pool) /\ k \in Nat
    BY <1>3
  <2>2. a \in ChoiceType /\ Inv(a, k - 1)
    <3> HIDE DEF Inv
    <3> QED
      BY <2>1
  <2> DEFINE t == seq[k]
             b == VisitFirstCome(s, a, t)
  <2>3. t \in e /\ t.req = pool[k]
    BY <1>3, <2>1
  <2>4. CASE ~ a.open
    <3>1. \A m \in 1 .. k - 1 : m \in 1 .. k
      BY <2>1
    <3>2. Inv(a, k)
      BY <2>2, <2>4, <3>1 DEF FirstComeUpTo
    <3> HIDE DEF Inv
    <3> QED
      BY <2>1, <2>2, <2>4, <3>2
  <2>5. CASE a.open
    <3>1. /\ b \in ChoiceType /\ Inv(b, k)
      <4>1. /\ e \in SUBSET TaskNodes /\ base \in Int /\ pool \in Seq(Requests)
            /\ k \in 1 .. Len(pool) /\ t \in e /\ t.req = pool[k]
            /\ a.open /\ FirstComeUpTo(e, s.node, base, old, pool, a, k - 1)
        BY <1>1, <2>1, <2>2, <2>3, <2>5
      <4> HIDE DEF e, base, old, pool, t, J, Inv, c0, q
      <4>2. FirstComeUpTo(e, s.node, base, old, pool, b, k)
        BY <4>1, FirstComeStep
      <4> HIDE DEF b
      <4> QED
        BY <4>2 DEF Inv, FirstComeUpTo, Choice
    <3> HIDE DEF Inv, b
    <3>2. b \in J[k]
      BY <2>1, <3>1
    <3> QED
      BY <2>5, <3>2 DEF b
  <2> QED
    BY <2>4, <2>5
<1> DEFINE z == FirstComeScan!Loop(s, 0, c0, seq)
           c == SelectFirstCome(s, i)
<1>6. z \in J[Len(seq)]
  <2> HIDE DEF J, c0
  <2> QED
    BY <1>3, <1>4, <1>5, Induction, FirstComeScan!LoopInvariant
<1>7. c = [z EXCEPT !.tokens = 0]
  BY FirstComeIsLoop DEF seq
<1> HIDE DEF z
<1>8. z \in ChoiceType /\ Inv(z, Len(seq))
  <2>1. Len(seq) \in 0 .. Len(seq)
    BY <1>3
  <2> HIDE DEF Inv
  <2> QED
    BY <1>6, <2>1
<1> HIDE DEF c
<1>9. /\ c \in ChoiceType /\ c.batch = z.batch /\ c.used = z.used
  BY <1>7, <1>8 DEF ChoiceType
<1>10. Choice(e, nd, base, FALSE, c)
  <2> HIDE DEF e, nd, base
  <2> QED
    BY <1>8, <1>9 DEF Choice, FirstComeUpTo
<1>11. FirstCome(old, c.batch, pool)
  <2>1. ASSUME NEW t \in ToSet(c.batch) \ old, NEW r \in ToSet(pool), r < t.req
        PROVE  r \in RequestsOf(ToSet(c.batch))
    <3>1. PICK m \in 1 .. Len(seq) :
             /\ t.req = pool[m]
             /\ \A j \in 1 .. m - 1 : pool[j] \in RequestsOf(ToSet(c.batch))
      BY <1>8, <1>9, <2>1 DEF FirstComeUpTo
    <3>2. DOMAIN pool = 1 .. Len(seq) /\ m \in Nat
      BY <1>1, <1>3
    <3>3. PICK j \in 1 .. Len(seq) : r = pool[j]
      BY <2>1, <3>2 DEF ToSet
    <3>4. pool[j] \in Nat /\ pool[m] \in Nat /\ j \in Nat
      <4>1. pool[j] \in Requests /\ pool[m] \in Requests
        BY <1>1, <3>1, <3>2, <3>3
      <4>2. Requests \subseteq Nat
        BY InstanceAssumption
      <4>3. pool[j] \in Nat /\ pool[m] \in Nat
        BY <4>1, <4>2, Zenon
      <4> QED
        BY <3>3, <4>3
    <3>5. j < m
      <4>1. pool[j] < pool[m]
        BY <2>1, <3>1, <3>3
      <4>2. ~ (m < j) /\ m # j
        <5>1. m < j => pool[m] < pool[j]
          BY <1>1, <3>1, <3>2, <3>3 DEF Sorted
        <5> HIDE DEF pool
        <5> QED
          BY <3>4, <4>1, <5>1
      <4> QED
        BY <3>2, <3>4, <4>2
    <3>6. j \in 1 .. m - 1
      BY <3>2, <3>3, <3>4, <3>5
    <3> QED
      BY <3>1, <3>3, <3>6
  <2> QED
    BY <2>1 DEF FirstCome
<1>12. old \subseteq ToSet(c.batch)
  BY <1>8, <1>9 DEF FirstComeUpTo
<1> QED
  BY <1>10, <1>11, <1>12 DEF c

(* A finite set of integers that is not empty has a least one.             *)
LEMMA LeastOfFinite ==
  ASSUME NEW S \in SUBSET Int, IsFiniteSet(S), S # {}
  PROVE  \E n \in S : \A m \in S : n <= m
<1> DEFINE G == {T \in SUBSET S : T # {} => \E n \in T : \A m \in T : n <= m}
<1>1. {} \in G
  OBVIOUS
<1>2. ASSUME NEW T \in G, NEW x \in S \ T
      PROVE  T \cup {x} \in G
  <2>1. CASE T = {}
    <3>1. x \in T \cup {x} /\ \A m \in T \cup {x} : x <= m
      BY <2>1
    <3> QED
      BY <3>1
  <2>2. CASE T # {}
    <3>1. PICK n \in T : \A m \in T : n <= m
      BY <2>2
    <3>2. n \in Int /\ x \in Int /\ \A m \in T : m \in Int
      BY <1>2
    <3>3. CASE n <= x
      <4>1. \A m \in T \cup {x} : n <= m
        BY <3>1, <3>3
      <4> QED
        BY <4>1
    <3>4. CASE x <= n
      <4>1. \A m \in T \cup {x} : x <= m
        BY <3>1, <3>2, <3>4
      <4> QED
        BY <4>1
    <3> QED
      BY <3>2, <3>3, <3>4
  <2> QED
    BY <2>1, <2>2
<1> HIDE DEF G
<1>3. S \in G
  <2>1. G \in SUBSET SUBSET S
    BY DEF G
  <2> QED
    BY <1>1, <1>2, <2>1, SubsetInduction
<1> QED
  BY <1>3 DEF G

(* The image of a finite set is finite.                                    *)
LEMMA ImageIsFinite ==
  ASSUME NEW S, IsFiniteSet(S), NEW f
  PROVE  IsFiniteSet({f[x] : x \in S})
<1> DEFINE T == {f[x] : x \in S}
           g == [x \in S |-> f[x]]
<1>1. g \in [S -> T] /\ \A y \in T : \E x \in S : g[x] = y
  OBVIOUS
<1> HIDE DEF g, T
<1>2. g \in Surjection(S, T)
  BY <1>1 DEF Surjection
<1>3. IsFiniteSet(T)
  BY <1>2, FS_Surjection
<1> QED
  BY <1>3 DEF T

(* The iterations of a run: one with a prompt in the batch, else those     *)
(* that the task with the fewest tokens to generate needs.                 *)
LEMMA IterationsLaw ==
  ASSUME trace \in [Requests -> Shapes], NEW s \in StateType,
         NEW batch \in Seq(TaskNodes), ToSet(batch) # {}
  PROVE  /\ ContiguousIterations(s, batch) \in Int
         /\ \A t \in ToSet(batch) : IsPrompt(t) => ContiguousIterations(s, batch) = 1
         /\ \/ ContiguousIterations(s, batch) = 1
            \/ /\ \E t \in ToSet(batch) :
                    ContiguousIterations(s, batch) = TokensToGenerate(t) - s.generated[t]
               /\ \A t \in ToSet(batch) :
                    ContiguousIterations(s, batch) <= TokensToGenerate(t) - s.generated[t]
<1> DEFINE left == {TokensToGenerate(t) - s.generated[t] : t \in ToSet(batch)}
           n == ContiguousIterations(s, batch)
           P == {k \in DOMAIN batch : IsPrompt(batch[k])}
<1>1. IsFiniteSet(P) /\ IsFiniteSet(ToSet(batch))
  <2>1. DOMAIN batch = 1 .. Len(batch) /\ Len(batch) \in Nat
    OBVIOUS
  <2>2. IsFiniteSet(DOMAIN batch)
    BY <2>1, FS_Interval
  <2>3. IsFiniteSet(P)
    BY <2>2, FS_Subset
  <2>4. ToSet(batch) = {batch[k] : k \in DOMAIN batch}
    BY DEF ToSet
  <2>5. IsFiniteSet({batch[k] : k \in DOMAIN batch})
    BY <2>2, ImageIsFinite
  <2> QED
    BY <2>3, <2>4, <2>5
<1>2. CASE P # {}
  <2>1. CountPrompts(batch) > 0
    <3>1. Cardinality(P) \in Nat /\ Cardinality(P) # 0
      BY <1>1, <1>2, FS_CardinalityType, FS_EmptySet
    <3> QED
      BY <3>1 DEF CountPrompts
  <2>2. n = 1
    BY <2>1 DEF ContiguousIterations
  <2> QED
    BY <2>2
<1>3. CASE P = {}
  <2>1. ~ (CountPrompts(batch) > 0)
    <3>1. Cardinality(P) = 0
      BY <1>3, FS_EmptySet, Zenon
    <3>2. ~ (Cardinality(P) > 0)
      <4> HIDE DEF P
      <4> QED
        BY <3>1
    <3> QED
      BY <3>2 DEF CountPrompts
  <2>2. n = CHOOSE k \in left : \A m \in left : k <= m
    BY <2>1 DEF ContiguousIterations
  <2>3. left \in SUBSET Int /\ left # {}
    <3>1. ASSUME NEW t \in ToSet(batch)
          PROVE  TokensToGenerate(t) - s.generated[t] \in Int
      <4>1. t \in TaskNodes
        BY ElementsAreTasks
      <4>2. TokensToGenerate(t) \in Int /\ s.generated[t] \in Int
        BY <4>1, SizesAreNumbers DEF StateType
      <4> QED
        BY <4>2
    <3> QED
      BY <3>1
  <2>4. IsFiniteSet(left)
    <3> DEFINE f == [t \in ToSet(batch) |-> TokensToGenerate(t) - s.generated[t]]
    <3>1. left = {f[t] : t \in ToSet(batch)}
      OBVIOUS
    <3> HIDE DEF f, left
    <3> QED
      BY <1>1, <3>1, ImageIsFinite
  <2> DEFINE L == left
  <2>5. n \in left /\ \A m \in left : n <= m
    <3>1. n = CHOOSE k \in L : \A m \in L : k <= m
      BY <2>2
    <3>2. \E k \in L : \A m \in L : k <= m
      <4> HIDE DEF left
      <4> QED
        BY <2>3, <2>4, LeastOfFinite
    <3> HIDE DEF L, n
    <3>3. n \in L /\ \A m \in L : n <= m
      BY <3>1, <3>2
    <3> QED
      BY <3>3 DEF L
  <2>6. \A t \in ToSet(batch) : ~ IsPrompt(t)
    BY <1>3 DEF ToSet
  <2> HIDE DEF n
  <2> QED
    BY <2>3, <2>5, <2>6 DEF n
<1> QED
  BY <1>2, <1>3

Taken(nd, C, r) ==
  (IF Prompt(r) \in C /\ nd[Prompt(r)] = "QUEUED" THEN PromptMemory(r) ELSE 0)
    + (IF Token(r) \in C /\ nd[Token(r)] = "QUEUED" THEN TokenMemory(r) ELSE 0)

(* The memory a request takes is a natural number.                         *)
LEMMA TakenIsNumber ==
  ASSUME trace \in [Requests -> Shapes], NEW nd, NEW C, NEW r \in Requests
  PROVE  Taken(nd, C, r) \in Nat
<1>1. TaskMemory(Prompt(r)) \in Nat /\ TaskMemory(Token(r)) \in Nat
  BY NodesOfRequests, SizesAreNumbers
<1>2. PromptMemory(r) \in Nat /\ TokenMemory(r) \in Nat
  BY <1>1, NodesOfRequests DEF TaskMemory
<1> QED
  BY <1>2 DEF Taken

(* The state a after a run with the choice c begins at i in the state s.   *)
Begun(s, a, i, at, c) ==
  /\ a \in StateType
  /\ \A j \in Instances \ {i} : a.inst[j] = s.inst[j]
  /\ a.node = [n \in Nodes |-> IF n \in ToSet(c.batch) THEN "RUNNING"
                               ELSE IF n \in ToSet(s.inst[i].batch) THEN "BLOCKED"
                               ELSE s.node[n]]
  /\ Sound(a.inst[i], a.node, at)
  /\ ToSet(a.inst[i].batch) = ToSet(c.batch)
  /\ a.inst[i].pool = s.inst[i].pool /\ a.inst[i].batchTokens = c.tokens
  /\ a.inst[i].pausing = s.inst[i].pausing /\ a.inst[i].handle = s.inst[i].handle
  /\ ToSet(c.batch) # {} =>
       /\ a.inst[i].iterations = ContiguousIterations(s, a.inst[i].batch)
       /\ a.inst[i].elapsed = 0
  /\ a.generated = s.generated /\ a.crashed = s.crashed
  /\ \A t \in TaskNodes : a.preempted[t] # s.preempted[t] => t \in Eligible(s.node, at)
  /\ a.alloc = [s.alloc EXCEPT ![i] =
                  [r \in Requests |-> @[r] + Taken(s.node, ToSet(c.batch), r)]]
  /\ a.memory = [r \in Requests |-> s.memory[r] + Taken(s.node, ToSet(c.batch), r)]

(* A request of the pool is passed over: its next task counts it.          *)
LEMMA CountPreemptionsLaw ==
  ASSUME NEW s \in StateType, NEW i \in Instances, NEW at \in SUBSET TaskNodes,
         Sound(s.inst[i], s.node, at), Ready(s.node, s.preempted, at),
         NEW b \in StateType, b.inst[i].pool = s.inst[i].pool,
         b.preempted = s.preempted,
         \A n \in Nodes : \/ b.node[n] = s.node[n]
                          \/ s.node[n] = "RUNNING" /\ b.node[n] = "BLOCKED"
  PROVE  LET d == CountPreemptions(b, i)
         IN /\ d \in StateType /\ d.inst = b.inst /\ d.node = b.node
            /\ d.generated = b.generated /\ d.alloc = b.alloc /\ d.memory = b.memory
            /\ d.crashed = b.crashed /\ d.free = b.free
            /\ \A t \in TaskNodes : d.preempted[t] # s.preempted[t] => t \in Eligible(s.node, at)
<1> DEFINE pool == b.inst[i].pool
           passed == {HeadTask(b, pool[k]) : k \in DOMAIN pool} \ ToSet(b.inst[i].batch)
           f == [t \in TaskNodes |-> b.preempted[t] + (IF t \in passed THEN 1 ELSE 0)]
           d == [b EXCEPT !.preempted = f]
<1>1. CountPreemptions(b, i) = d
  BY DEF CountPreemptions, StateType
<1>2. \A t \in passed : t \in Eligible(s.node, at)
  <2>1. ASSUME NEW k \in DOMAIN pool
        PROVE  HeadTask(b, pool[k]) \in Eligible(s.node, at)
    <3>1. pool[k] \in ToSet(s.inst[i].pool)
      BY DEF ToSet
    <3>2. PICK u \in at : pool[k] = u.req
      BY <3>1 DEF Sound
    <3>3. s.node \in [Nodes -> NodeStates]
      BY DEF StateType
    <3>4. HeadTask(s, u.req) \in Eligible(s.node, at)
      BY <3>3, HeadTaskLaw
    <3>5. Prompt(u.req) \in Nodes
      BY TaskParts, NodesOfRequests
    <3>6. HeadTask(b, u.req) = HeadTask(s, u.req)
      BY <3>5 DEF HeadTask
    <3> QED
      BY <3>2, <3>4, <3>6
  <2> QED
    BY <2>1
<1>3. b.preempted \in [TaskNodes -> Nat]
  BY DEF StateType
<1> HIDE DEF passed
<1>4. f \in [TaskNodes -> Nat]
  BY <1>3
<1>5. \A t \in TaskNodes : f[t] # s.preempted[t] => t \in Eligible(s.node, at)
  <2>1. ASSUME NEW t \in TaskNodes, t \notin passed
        PROVE  f[t] = s.preempted[t]
    <3>1. f[t] = b.preempted[t] + 0
      BY <2>1
    <3>2. b.preempted[t] \in Nat
      BY <1>3
    <3> HIDE DEF f
    <3>3. f[t] = b.preempted[t]
      BY <3>1, <3>2
    <3> QED
      BY <3>3
  <2> HIDE DEF f
  <2> QED
    BY <1>2, <2>1
<1> HIDE DEF f
<1>6. /\ d \in StateType /\ d.inst = b.inst /\ d.node = b.node /\ d.preempted = f
      /\ d.generated = b.generated /\ d.alloc = b.alloc /\ d.memory = b.memory
      /\ d.crashed = b.crashed /\ d.free = b.free
  BY <1>4 DEF StateType
<1> HIDE DEF d
<1> QED
  BY <1>1, <1>5, <1>6

(* The memory a run takes, request by request.                             *)
LEMMA MemoryTakenLaw ==
  ASSUME NEW s, NEW i, NEW nd, NEW C, ToSet(s.inst[i].batch) = C,
         \A t \in C : s.node[t] = "QUEUED" <=> nd[t] = "QUEUED"
  PROVE  \A r \in Requests : MemoryTaken(s, i, r) = Taken(nd, C, r)
  BY DEF MemoryTaken, Taken, FirstRuns

(* start_iteration, from the choice on.                                    *)
LEMMA RunBatchLaw ==
  ASSUME trace \in [Requests -> Shapes], NEW s \in StateType, NEW i \in Instances,
         NEW at \in SUBSET TaskNodes, Sound(s.inst[i], s.node, at)
  PROVE  LET a == RunBatch(s, i)
             C == ToSet(s.inst[i].batch)
         IN /\ a \in StateType
            /\ \A j \in Instances \ {i} : a.inst[j] = s.inst[j]
            /\ a.node = [n \in Nodes |-> IF n \in C THEN "RUNNING" ELSE s.node[n]]
            /\ Sound(a.inst[i], a.node, at)
            /\ a.inst[i].batch = s.inst[i].batch
            /\ a.inst[i].pool = s.inst[i].pool
            /\ a.inst[i].batchTokens = s.inst[i].batchTokens
            /\ a.inst[i].pausing = s.inst[i].pausing
            /\ a.inst[i].handle = s.inst[i].handle
            /\ C # {} =>
                 /\ a.inst[i].iterations = ContiguousIterations(s, s.inst[i].batch)
                 /\ a.inst[i].elapsed = 0
            /\ a.generated = s.generated /\ a.crashed = s.crashed
            /\ a.preempted = s.preempted
            /\ a.alloc = [s.alloc EXCEPT ![i] =
                            [r \in Requests |-> @[r] + Taken(s.node, C, r)]]
            /\ a.memory = [r \in Requests |-> s.memory[r] + Taken(s.node, C, r)]
<1> DEFINE q == s.inst[i]
           C == ToSet(q.batch)
           a == RunBatch(s, i)
<1>1. q \in QueueType /\ q.batch \in Seq(TaskNodes)
  BY QueueFields
<1>2. C \subseteq TaskNodes /\ TaskNodes \subseteq Nodes
  BY <1>1, ElementsAreTasks DEF Nodes
<1>3. /\ s.memory \in [Requests -> Nat] /\ s.alloc \in [Instances -> [Requests -> Int]]
      /\ s.node \in [Nodes -> NodeStates]
  BY DEF StateType
<1>4. CASE q.batch = <<>>
  <2>1. C = {}
    BY <1>4 DEF ToSet
  <2>2. \A r \in Requests : Taken(s.node, C, r) = 0
    BY <2>1 DEF Taken
  <2> DEFINE h == IF q.pool = <<>> THEN s.free \cup {i} ELSE s.free
  <2>3. a = [s EXCEPT !.free = h]
    BY <1>4 DEF RunBatch, StateType
  <2>4. /\ a \in StateType /\ a.inst = s.inst /\ a.node = s.node
        /\ a.generated = s.generated /\ a.crashed = s.crashed
        /\ a.preempted = s.preempted /\ a.alloc = s.alloc /\ a.memory = s.memory
    <3>1. h \in SUBSET Instances
      BY DEF StateType
    <3> HIDE DEF a, h
    <3> QED
      BY <2>3, <3>1 DEF StateType
  <2> HIDE DEF a, C
  <2>5. a.node = [n \in Nodes |-> IF n \in C THEN "RUNNING" ELSE s.node[n]]
    BY <1>3, <2>1, <2>4
  <2>6. a.memory = [r \in Requests |-> s.memory[r] + Taken(s.node, C, r)]
    BY <1>3, <2>2, <2>4
  <2>7. s.alloc[i] = [r \in Requests |-> s.alloc[i][r] + Taken(s.node, C, r)]
    BY <1>3, <2>2
  <2>8. a.alloc = [s.alloc EXCEPT ![i] = [r \in Requests |-> @[r] + Taken(s.node, C, r)]]
    BY <1>3, <2>4, <2>7
  <2>9. Sound(a.inst[i], a.node, at)
    BY <2>4
  <2> QED
    BY <2>1, <2>4, <2>5, <2>6, <2>8, <2>9 DEF a, C
<1>5. CASE q.batch # <<>>
  <2>1. C # {}
    <3>1. 1 \in DOMAIN q.batch
      BY <1>1, <1>5
    <3> QED
      BY <3>1 DEF ToSet
  <2> DEFINE n == ContiguousIterations(s, q.batch)
             u == [q EXCEPT !.iterations = n, !.elapsed = 0]
             nf == [x \in Nodes |-> IF x \in C THEN "RUNNING" ELSE s.node[x]]
             mem == [r \in Requests |-> s.memory[r] + Taken(s.node, C, r)]
             row == [r \in Requests |-> s.alloc[i][r] + Taken(s.node, C, r)]
             al == [s.alloc EXCEPT ![i] = row]
             b == WithQueue([s EXCEPT !.node = nf, !.alloc = al, !.memory = mem], i, u)
  <2>2. n \in Int
    <3> HIDE DEF q
    <3> QED
      BY <1>1, <2>1, IterationsLaw
  <2> HIDE DEF n
  <2>3. u \in QueueType /\ u.pending = q.pending /\ u.prompts = q.prompts
        /\ u.blocked = q.blocked /\ u.batch = q.batch /\ u.pool = q.pool
        /\ u.batchTokens = q.batchTokens /\ u.pausing = q.pausing /\ u.handle = q.handle
        /\ u.iterations = n /\ u.elapsed = 0
    <3> HIDE DEF q
    <3>1. u \in QueueType
      <4>1. [q EXCEPT !.iterations = n] \in QueueType
        BY <1>1, <2>2 DEF QueueType
      <4> DEFINE v == [q EXCEPT !.iterations = n]
      <4>2. [v EXCEPT !.elapsed = 0] \in QueueType
        <5> HIDE DEF v
        <5>1. v \in QueueType /\ 0 \in Int
          BY <4>1 DEF v
        <5> QED
          BY <5>1 DEF QueueType
      <4>3. u = [v EXCEPT !.elapsed = 0]
        BY <1>1 DEF QueueType
      <4> QED
        BY <4>2, <4>3
    <3>2. u.pending = q.pending /\ u.prompts = q.prompts
        /\ u.blocked = q.blocked /\ u.batch = q.batch /\ u.pool = q.pool
        /\ u.batchTokens = q.batchTokens /\ u.pausing = q.pausing /\ u.handle = q.handle
        /\ u.iterations = n /\ u.elapsed = 0
      BY <1>1 DEF QueueType
    <3> QED
      BY <3>1, <3>2
  <2>4. \A r \in Requests : MemoryTaken(s, i, r) = Taken(s.node, C, r)
    BY MemoryTakenLaw
  <2>5. RunTasks(s, i) = [s EXCEPT !.node = nf, !.alloc = al, !.memory = mem]
    <3>1. nf = [x \in DOMAIN s.node |-> IF x \in C THEN "RUNNING" ELSE s.node[x]]
      BY <1>3
    <3>2. mem = [r \in DOMAIN s.memory |-> s.memory[r] + MemoryTaken(s, i, r)]
      BY <1>3, <2>4
    <3>3. row = [r \in DOMAIN s.alloc[i] |-> s.alloc[i][r] + MemoryTaken(s, i, r)]
      BY <1>3, <2>4
    <3> HIDE DEF nf, mem, row
    <3> QED
      BY <3>1, <3>2, <3>3 DEF RunTasks, StateType
  <2>6. \A r \in Requests : Taken(s.node, C, r) \in Nat
    BY TakenIsNumber
  <2>7. nf \in [Nodes -> NodeStates] /\ mem \in [Requests -> Nat] /\ row \in [Requests -> Int]
    BY <1>3, <2>6 DEF NodeStates
  <2>8. al \in [Instances -> [Requests -> Int]]
    <3> HIDE DEF row
    <3> QED
      BY <1>3, <2>7
  <2>9. a = b
    <3>1. a = [RunTasks(s, i) EXCEPT !.inst[i].iterations = n, !.inst[i].elapsed = 0]
      BY <1>5 DEF RunBatch, n
    <3> HIDE DEF nf, mem, row, al
    <3> QED
      BY <2>5, <3>1 DEF WithQueue, StateType
  <2> HIDE DEF u, q, C, nf, mem, al
  <2>10. /\ b \in StateType /\ b.inst[i] = u /\ b.node = nf
         /\ \A j \in Instances \ {i} : b.inst[j] = s.inst[j]
         /\ b.generated = s.generated /\ b.preempted = s.preempted /\ b.crashed = s.crashed
         /\ b.alloc = al /\ b.memory = mem
    BY <2>3, <2>7, <2>8 DEF WithQueue, StateType
  <2>11. Sound(u, nf, at)
    <3>1. Sound(q, s.node, at)
      BY DEF q
    <3>2. \A t \in ToSet(q.pending) : t \notin C /\ t \in Nodes
      <4>1. ToSet(q.pending) \subseteq TaskNodes
        BY <3>1 DEF Sound
      <4> QED
        BY <1>2, <3>1, <4>1 DEF Sound, C
    <3>3. \A t \in ToSet(q.pending) : nf[t] = s.node[t]
      BY <3>2 DEF nf
    <3> QED
      BY <2>3, <3>1, <3>3 DEF Sound
  <2> HIDE DEF a, b
  <2>12. /\ a \in StateType /\ a.inst[i] = u /\ a.node = nf
         /\ \A j \in Instances \ {i} : a.inst[j] = s.inst[j]
         /\ a.generated = s.generated /\ a.preempted = s.preempted /\ a.crashed = s.crashed
         /\ a.alloc = al /\ a.memory = mem
    BY <2>9, <2>10
  <2> QED
    BY <2>3, <2>11, <2>12 DEF nf, al, mem, a, C, q, n
<1> QED
  BY <1>4, <1>5

(* What select_batch chooses.                                              *)
Chosen(s, i, at, c) ==
  /\ Choice(Eligible(s.node, at), s.node, UsedMemory(s, i), i \notin Orca, c)
  /\ i \in Orca => /\ ToSet(s.inst[i].batch) \subseteq ToSet(c.batch)
                   /\ FirstCome(ToSet(s.inst[i].batch), c.batch, s.inst[i].pool)

(* select_batch, of both types of instances.                               *)
LEMMA SelectBatchLaw ==
  ASSUME trace \in [Requests -> Shapes], NEW s \in StateType, NEW i \in Instances,
         NEW at \in SUBSET TaskNodes, Sound(s.inst[i], s.node, at),
         Ready(s.node, s.preempted, at), Running(s.inst[i], s.node),
         Len(s.inst[i].batch) <= MaxBatchSize
  PROVE  Chosen(s, i, at, SelectBatch(s, i))
<1>1. CASE i \in Orca
  <2>1. /\ Choice(Eligible(s.node, at), s.node, UsedMemory(s, i), FALSE, SelectFirstCome(s, i))
        /\ ToSet(s.inst[i].batch) \subseteq ToSet(SelectFirstCome(s, i).batch)
        /\ FirstCome(ToSet(s.inst[i].batch), SelectFirstCome(s, i).batch, s.inst[i].pool)
    BY SelectFirstComeLaw
  <2>2. SelectBatch(s, i) = SelectFirstCome(s, i)
    BY <1>1 DEF SelectBatch
  <2>3. (i \notin Orca) = FALSE
    BY <1>1
  <2> QED
    BY <2>1, <2>2, <2>3 DEF Chosen
<1>2. CASE i \notin Orca
  <2>1. Choice(Eligible(s.node, at), s.node, UsedMemory(s, i), TRUE, SelectByPriority(s, i))
    BY SelectByPriorityLaw
  <2>2. SelectBatch(s, i) = SelectByPriority(s, i)
    BY <1>2 DEF SelectBatch
  <2>3. (i \notin Orca) = TRUE
    BY <1>2
  <2> QED
    BY <1>2, <2>1, <2>2, <2>3 DEF Chosen
<1> QED
  BY <1>1, <1>2

(* The next run of an instance.                                            *)
LEMMA BeginRunLaw ==
  ASSUME trace \in [Requests -> Shapes], NEW s \in StateType, NEW i \in Instances,
         NEW at \in SUBSET TaskNodes, Sound(s.inst[i], s.node, at),
         Ready(s.node, s.preempted, at), Running(s.inst[i], s.node),
         Len(s.inst[i].batch) <= MaxBatchSize
  PROVE  LET c == SelectBatch(s, i)
         IN /\ c \in ChoiceType /\ Chosen(s, i, at, c)
            /\ Begun(s, BeginRun(s, i), i, at, c)
<1> DEFINE c == SelectBatch(s, i)
           b == ChangeBatch(s, i, c)
           d == CountPreemptions(b, i)
           a == RunBatch(d, i)
           C == ToSet(c.batch)
           old == ToSet(s.inst[i].batch)
<1>1. Chosen(s, i, at, c)
  BY SelectBatchLaw
<1>2. BeginRun(s, i) = a
  BY DEF BeginRun
<1> HIDE DEF c
<1>3. /\ c \in ChoiceType /\ c.batch \in Seq(TaskNodes) /\ IsInjective(c.batch)
      /\ C \subseteq at /\ c.tokens \in Int
  BY <1>1 DEF Chosen, Choice, ChoiceType, Eligible
<1>4. /\ b \in StateType /\ Beside(s, b, i)
      /\ b.node = Blocks(s.node, old \ C)
      /\ Sound(b.inst[i], b.node, at)
      /\ ToSet(b.inst[i].batch) = C
      /\ b.inst[i].pool = s.inst[i].pool /\ b.inst[i].batchTokens = c.tokens
      /\ b.inst[i].pausing = s.inst[i].pausing /\ b.inst[i].handle = s.inst[i].handle
  <2>1. LET x == ChangeBatch(s, i, c)
            q == s.inst[i]
            u == x.inst[i]
         IN /\ x \in StateType /\ Beside(s, x, i)
            /\ x.node = Blocks(s.node, ToSet(q.batch) \ ToSet(c.batch))
            /\ Sound(u, x.node, at)
            /\ ToSet(u.batch) = ToSet(c.batch)
            /\ u.pool = q.pool /\ u.batchTokens = c.tokens
            /\ u.iterations = q.iterations /\ u.elapsed = q.elapsed
            /\ u.pausing = q.pausing /\ u.handle = q.handle
    <3> HIDE DEF b, d, a
    <3> QED
      BY <1>3, ChangeBatchLaw
  <2> HIDE DEF d, a
  <2> QED
    BY <2>1
<1> HIDE DEF b
<1>5. s.node \in [Nodes -> NodeStates] /\ TaskNodes \subseteq Nodes /\ old \subseteq TaskNodes
      /\ C \subseteq TaskNodes
  BY <1>3, QueueFields, ElementsAreTasks DEF StateType, Nodes
<1>6. \A n \in Nodes : b.node[n] = IF n \in old \ C THEN "BLOCKED" ELSE s.node[n]
  BY <1>4 DEF Blocks
<1>7. \A t \in old : s.node[t] = "RUNNING"
  BY DEF Running
<1>8. \A n \in Nodes : \/ b.node[n] = s.node[n]
                       \/ s.node[n] = "RUNNING" /\ b.node[n] = "BLOCKED"
  BY <1>6, <1>7
<1>9. b.preempted = s.preempted /\ b.generated = s.generated /\ b.crashed = s.crashed
      /\ b.alloc = s.alloc /\ b.memory = s.memory
      /\ \A j \in Instances \ {i} : b.inst[j] = s.inst[j]
  BY <1>4 DEF Beside
<1>10. /\ d \in StateType /\ d.inst = b.inst /\ d.node = b.node
       /\ d.generated = b.generated /\ d.alloc = b.alloc /\ d.memory = b.memory
       /\ d.crashed = b.crashed
       /\ \A t \in TaskNodes : d.preempted[t] # s.preempted[t] => t \in Eligible(s.node, at)
  <2> HIDE DEF old, C, a
  <2>1. /\ b \in StateType /\ b.inst[i].pool = s.inst[i].pool
        /\ b.preempted = s.preempted
        /\ \A n \in Nodes : \/ b.node[n] = s.node[n]
                            \/ s.node[n] = "RUNNING" /\ b.node[n] = "BLOCKED"
    BY <1>4, <1>8, <1>9
  <2>2. LET x == CountPreemptions(b, i)
        IN /\ x \in StateType /\ x.inst = b.inst /\ x.node = b.node
           /\ x.generated = b.generated /\ x.alloc = b.alloc /\ x.memory = b.memory
           /\ x.crashed = b.crashed /\ x.free = b.free
           /\ \A t \in TaskNodes : x.preempted[t] # s.preempted[t] => t \in Eligible(s.node, at)
    BY <2>1, CountPreemptionsLaw
  <2> QED
    BY <2>2
<1> HIDE DEF d
<1>11. Sound(d.inst[i], d.node, at)
  BY <1>4, <1>10
<1>12. /\ a \in StateType
       /\ \A j \in Instances \ {i} : a.inst[j] = d.inst[j]
       /\ a.node = [n \in Nodes |-> IF n \in ToSet(d.inst[i].batch) THEN "RUNNING" ELSE d.node[n]]
       /\ Sound(a.inst[i], a.node, at)
       /\ a.inst[i].batch = d.inst[i].batch
       /\ a.inst[i].pool = d.inst[i].pool
       /\ a.inst[i].batchTokens = d.inst[i].batchTokens
       /\ a.inst[i].pausing = d.inst[i].pausing
       /\ a.inst[i].handle = d.inst[i].handle
       /\ ToSet(d.inst[i].batch) # {} =>
            /\ a.inst[i].iterations = ContiguousIterations(d, d.inst[i].batch)
            /\ a.inst[i].elapsed = 0
       /\ a.generated = d.generated /\ a.crashed = d.crashed
       /\ a.preempted = d.preempted
       /\ a.alloc = [d.alloc EXCEPT ![i] =
                       [r \in Requests |-> @[r] + Taken(d.node, ToSet(d.inst[i].batch), r)]]
       /\ a.memory = [r \in Requests |->
                        d.memory[r] + Taken(d.node, ToSet(d.inst[i].batch), r)]
  BY <1>10, <1>11, RunBatchLaw
<1> HIDE DEF a
<1>13. ToSet(d.inst[i].batch) = C
  BY <1>4, <1>10
<1>14. a.node = [n \in Nodes |-> IF n \in C THEN "RUNNING"
                                 ELSE IF n \in old THEN "BLOCKED"
                                 ELSE s.node[n]]
  <2>1. \A n \in Nodes : n \notin C =>
          d.node[n] = IF n \in old THEN "BLOCKED" ELSE s.node[n]
    BY <1>6, <1>10
  <2> HIDE DEF C, old
  <2> QED
    BY <1>12, <1>13, <2>1
<1>15. \A r \in Requests : Taken(d.node, C, r) = Taken(s.node, C, r)
  <2>1. \A t \in C : d.node[t] = s.node[t]
    BY <1>5, <1>6, <1>10
  <2> QED
    BY <2>1 DEF Taken
<1>16. ContiguousIterations(d, a.inst[i].batch) = ContiguousIterations(s, a.inst[i].batch)
  BY <1>9, <1>10 DEF ContiguousIterations
<1>17. a.alloc = [s.alloc EXCEPT ![i] =
                    [r \in Requests |-> @[r] + Taken(s.node, C, r)]]
  <2>1. a.alloc = [s.alloc EXCEPT ![i] =
                    [r \in Requests |-> @[r] + Taken(d.node, C, r)]]
    BY <1>9, <1>10, <1>12, <1>13
  <2>2. [r \in Requests |-> s.alloc[i][r] + Taken(d.node, C, r)]
          = [r \in Requests |-> s.alloc[i][r] + Taken(s.node, C, r)]
    BY <1>15
  <2> QED
    BY <2>1, <2>2
<1>18. a.memory = [r \in Requests |-> s.memory[r] + Taken(s.node, C, r)]
  BY <1>9, <1>10, <1>12, <1>13, <1>15
<1>19. Begun(s, a, i, at, c)
  <2>1. \A j \in Instances \ {i} : a.inst[j] = s.inst[j]
    BY <1>9, <1>10, <1>12
  <2>2. ToSet(a.inst[i].batch) = C
    BY <1>12, <1>13
  <2>3. /\ a.inst[i].pool = s.inst[i].pool /\ a.inst[i].batchTokens = c.tokens
        /\ a.inst[i].pausing = s.inst[i].pausing /\ a.inst[i].handle = s.inst[i].handle
    BY <1>4, <1>10, <1>12
  <2>4. C # {} =>
       /\ a.inst[i].iterations = ContiguousIterations(s, a.inst[i].batch)
       /\ a.inst[i].elapsed = 0
    BY <1>12, <1>13, <1>16
  <2>5. a.generated = s.generated /\ a.crashed = s.crashed
    BY <1>9, <1>10, <1>12
  <2>6. \A t \in TaskNodes : a.preempted[t] # s.preempted[t] => t \in Eligible(s.node, at)
    BY <1>10, <1>12
  <2>7. a \in StateType /\ Sound(a.inst[i], a.node, at)
    BY <1>12
  <2> QED
    BY <1>14, <1>17, <1>18, <2>1, <2>2, <2>3, <2>4, <2>5, <2>6, <2>7 DEF Begun
<1> QED
  BY <1>1, <1>2, <1>3, <1>19 DEF c

(* The memory of one request at one instance changes by m.                 *)
LEMMA AllocChangeLaw ==
  ASSUME NEW s \in StateType, NEW a \in StateType, NEW j \in Instances,
         NEW r \in Requests, NEW m \in Int,
         \A k \in Instances, q \in Requests :
           a.alloc[k][q] = IF k = j /\ q = r THEN s.alloc[j][r] + m ELSE s.alloc[k][q]
  PROVE  /\ UsedMemory(a, j) = UsedMemory(s, j) + m
         /\ \A k \in Instances \ {j} : UsedMemory(a, k) = UsedMemory(s, k)
<1>1. /\ s.alloc \in [Instances -> [Requests -> Int]]
      /\ a.alloc \in [Instances -> [Requests -> Int]]
  BY DEF StateType
<1>2. \A k \in Instances \ {j} : UsedMemory(a, k) = UsedMemory(s, k)
  <2>1. \A k \in Instances \ {j} : a.alloc[k] = s.alloc[k]
    <3>1. ASSUME NEW k \in Instances \ {j}
          PROVE  a.alloc[k] = s.alloc[k]
      <4>1. a.alloc[k] \in [Requests -> Int] /\ s.alloc[k] \in [Requests -> Int]
        BY <1>1
      <4>2. \A q \in Requests : a.alloc[k][q] = s.alloc[k][q]
        OBVIOUS
      <4> QED
        BY <4>1, <4>2
    <3> QED
      BY <3>1
  <2> QED
    BY <2>1 DEF UsedMemory
<1> DEFINE f == s.alloc[j]
           g == a.alloc[j]
<1>4. /\ \A x \in Requests : f[x] \in Int /\ g[x] \in Int
      /\ \A x \in Requests \ {r} : f[x] = g[x]
      /\ g[r] = f[r] + m
  <2>1. f \in [Requests -> Int] /\ g \in [Requests -> Int]
    BY <1>1
  <2>2. /\ \A x \in Requests \ {r} : f[x] = g[x]
        /\ g[r] = f[r] + m
    OBVIOUS
  <2> HIDE DEF f, g
  <2> QED
    BY <2>1, <2>2
<1> HIDE DEF f, g
<1> DEFINE mf == SumFunctionOnSet(f, Requests)
           mg == SumFunctionOnSet(g, Requests)
<1>5. mg = mf + (g[r] - f[r])
  BY <1>4, TraceAssumption, SumChange
<1>6. /\ UsedMemory(s, j) = ModelSize + mf /\ mf \in Int
      /\ UsedMemory(a, j) = ModelSize + mg
  BY UsedMemorySum DEF f, g
<1> HIDE DEF mf, mg
<1>7. f[r] \in Int
  BY <1>4
<1>8. mg = mf + m
  BY <1>4, <1>5, <1>6, <1>7
<1>9. UsedMemory(a, j) = UsedMemory(s, j) + m
  BY <1>6, <1>8, InstanceAssumption
<1> QED
  BY <1>2, <1>9

(* What the completion of the tasks done at i does with the request r: the *)
(* prompt hands its cache to a flow, the token task frees it.              *)
SameCache(s, a, r) ==
  /\ a.node[Flow(r)] = s.node[Flow(r)] /\ a.memory[r] = s.memory[r]
  /\ \A j \in Instances : a.alloc[j][r] = s.alloc[j][r]

HandedOver(s, a, r, d) ==
  /\ a.memory[r] = s.memory[r]
  /\ \/ /\ a.node[Flow(r)] = "QUEUED"
        /\ \A j \in Instances : a.alloc[j][r] = s.alloc[j][r]
     \/ /\ a.node[Flow(r)] = "RUNNING"
        /\ \A j \in Instances :
             a.alloc[j][r] = s.alloc[j][r] + (IF j = d THEN s.memory[r] ELSE 0)

Freed(s, a, i, r) ==
  /\ a.node[Flow(r)] = s.node[Flow(r)] /\ a.memory[r] = 0
  /\ \A j \in Instances :
       a.alloc[j][r] = s.alloc[j][r] - (IF j = i THEN s.memory[r] ELSE 0)

Settled(s, a, i, r, dest, done) ==
  IF Prompt(r) \in done
  THEN IF dest[r] = i THEN SameCache(s, a, r) ELSE HandedOver(s, a, r, dest[r])
  ELSE IF Token(r) \in done THEN Freed(s, a, i, r) ELSE SameCache(s, a, r)

(* What fits.                                                              *)
WithinMemory(s) == {j \in Instances : UsedMemory(s, j) <= MaxMemory}

(* run_flow: the destination takes the memory.                             *)
LEMMA RunFlowLaw ==
  ASSUME NEW s \in StateType, NEW r \in Requests, NEW d \in Instances
  PROVE  LET a == RunFlow(s, r, d)
         IN /\ a \in StateType /\ a.inst = s.inst
            /\ a.node = [s.node EXCEPT ![Flow(r)] = "RUNNING"]
            /\ a.generated = s.generated /\ a.preempted = s.preempted
            /\ a.crashed = s.crashed /\ a.free = s.free
            /\ a.memory = s.memory
            /\ UsedMemory(a, d) = UsedMemory(s, d) + s.memory[r]
            /\ \A k \in Instances \ {d} : UsedMemory(a, k) = UsedMemory(s, k)
            /\ HandedOver(s, a, r, d)
            /\ \A q \in Requests \ {r} : SameCache(s, a, q)
<1> DEFINE m == s.memory[r]
           al == [s.alloc EXCEPT ![d][r] = @ + m]
           nf == [s.node EXCEPT ![Flow(r)] = "RUNNING"]
           a == [s EXCEPT !.node = nf, !.alloc = al]
<1>1. m \in Int /\ Flow(r) \in Nodes
  BY NodesOfRequests DEF StateType
<1>2. RunFlow(s, r, d) = a
  BY DEF RunFlow, StateType
<1> HIDE DEF m
<1>3. /\ al \in [Instances -> [Requests -> Int]] /\ nf \in [Nodes -> NodeStates]
      /\ nf[Flow(r)] = "RUNNING" /\ \A n \in Nodes : n # Flow(r) => nf[n] = s.node[n]
  <2>1. s.alloc \in [Instances -> [Requests -> Int]] /\ s.node \in [Nodes -> NodeStates]
    BY DEF StateType
  <2>2. s.alloc[d][r] + m \in Int
    BY <1>1, <2>1
  <2> QED
    BY <1>1, <2>1, <2>2 DEF NodeStates
<1> HIDE DEF al, nf
<1>4. /\ a \in StateType /\ a.inst = s.inst /\ a.node = nf /\ a.alloc = al
      /\ a.generated = s.generated /\ a.preempted = s.preempted
      /\ a.crashed = s.crashed /\ a.free = s.free /\ a.memory = s.memory
  BY <1>3 DEF StateType
<1> HIDE DEF a
<1>5. \A k \in Instances, q \in Requests :
        a.alloc[k][q] = IF k = d /\ q = r THEN s.alloc[d][r] + m ELSE s.alloc[k][q]
  <2>1. s.alloc \in [Instances -> [Requests -> Int]]
    BY DEF StateType
  <2> QED
    BY <1>4, <2>1 DEF al
<1>6. /\ UsedMemory(a, d) = UsedMemory(s, d) + m
      /\ \A k \in Instances \ {d} : UsedMemory(a, k) = UsedMemory(s, k)
  BY <1>1, <1>4, <1>5, AllocChangeLaw
<1>7. s.alloc \in [Instances -> [Requests -> Int]]
  BY DEF StateType
<1>8. HandedOver(s, a, r, d)
  <2>1. \A j \in Instances : a.alloc[j][r] = s.alloc[j][r] + (IF j = d THEN m ELSE 0)
    <3>1. ASSUME NEW j \in Instances
          PROVE  a.alloc[j][r] = s.alloc[j][r] + (IF j = d THEN m ELSE 0)
      <4>1. s.alloc[j][r] \in Int
        BY <1>7
      <4> QED
        BY <1>5, <4>1
    <3> QED
      BY <3>1
  <2> QED
    BY <1>3, <1>4, <2>1 DEF HandedOver, m
<1>9. \A q \in Requests \ {r} : SameCache(s, a, q)
  <2>1. \A q \in Requests \ {r} : Flow(q) \in Nodes /\ Flow(q) # Flow(r)
    BY NodesOfRequests DEF Flow
  <2> QED
    BY <1>3, <1>4, <1>5, <2>1 DEF SameCache
<1> QED
  BY <1>2, <1>4, <1>6, <1>8, <1>9 DEF m, nf

(* flow_arrival: at once if there is room.                                 *)
LEMMA FlowArrivalLaw ==
  ASSUME NEW s \in StateType, NEW r \in Requests, NEW d \in Instances
  PROVE  LET a == FlowArrival(s, r, d)
         IN /\ a \in StateType /\ a.inst = s.inst
            /\ \A n \in TaskNodes : a.node[n] = s.node[n]
            /\ a.generated = s.generated /\ a.preempted = s.preempted
            /\ a.crashed = s.crashed /\ a.free = s.free
            /\ WithinMemory(s) \subseteq WithinMemory(a)
            /\ HandedOver(s, a, r, d)
            /\ \A q \in Requests \ {r} : SameCache(s, a, q)
<1>1. /\ \A n \in TaskNodes : n \in Nodes /\ n # Flow(r)
      /\ \A q \in Requests \ {r} : Flow(q) \in Nodes /\ Flow(q) # Flow(r)
      /\ Flow(r) \in Nodes
      /\ s.node \in [Nodes -> NodeStates]
  BY NodesOfRequests DEF Flow, StateType, Nodes
<1>2. CASE Fits(s, d, s.memory[r])
  <2> DEFINE a == RunFlow(s, r, d)
  <2>1. /\ a \in StateType /\ a.inst = s.inst
        /\ a.node = [s.node EXCEPT ![Flow(r)] = "RUNNING"]
        /\ a.generated = s.generated /\ a.preempted = s.preempted
        /\ a.crashed = s.crashed /\ a.free = s.free
        /\ a.memory = s.memory
        /\ UsedMemory(a, d) = UsedMemory(s, d) + s.memory[r]
        /\ \A k \in Instances \ {d} : UsedMemory(a, k) = UsedMemory(s, k)
        /\ HandedOver(s, a, r, d)
        /\ \A q \in Requests \ {r} : SameCache(s, a, q)
    BY RunFlowLaw
  <2>2. FlowArrival(s, r, d) = a
    BY <1>2 DEF FlowArrival
  <2> HIDE DEF a
  <2>3. \A n \in TaskNodes : a.node[n] = s.node[n]
    BY <1>1, <2>1
  <2>4. UsedMemory(a, d) <= MaxMemory
    BY <1>2, <2>1 DEF Fits
  <2>5. WithinMemory(s) \subseteq WithinMemory(a)
    BY <2>1, <2>4 DEF WithinMemory
  <2> QED
    BY <2>1, <2>2, <2>3, <2>5
<1>3. CASE ~ Fits(s, d, s.memory[r])
  <2> DEFINE nf == [s.node EXCEPT ![Flow(r)] = "QUEUED"]
             a == [s EXCEPT !.node = nf]
  <2>1. FlowArrival(s, r, d) = a
    BY <1>3 DEF FlowArrival, StateType
  <2>2. /\ nf \in [Nodes -> NodeStates] /\ nf[Flow(r)] = "QUEUED"
        /\ \A n \in Nodes : n # Flow(r) => nf[n] = s.node[n]
    BY <1>1 DEF NodeStates
  <2> HIDE DEF nf
  <2>3. /\ a \in StateType /\ a.inst = s.inst /\ a.node = nf /\ a.alloc = s.alloc
        /\ a.generated = s.generated /\ a.preempted = s.preempted
        /\ a.crashed = s.crashed /\ a.free = s.free /\ a.memory = s.memory
    BY <2>2 DEF StateType
  <2> HIDE DEF a
  <2>4. HandedOver(s, a, r, d)
    BY <2>2, <2>3 DEF HandedOver
  <2>5. \A q \in Requests \ {r} : SameCache(s, a, q)
    BY <1>1, <2>2, <2>3 DEF SameCache
  <2>6. \A n \in TaskNodes : a.node[n] = s.node[n]
    BY <1>1, <2>2, <2>3
  <2>7. WithinMemory(s) \subseteq WithinMemory(a)
    BY <2>3 DEF WithinMemory, UsedMemory
  <2> QED
    BY <2>1, <2>3, <2>4, <2>5, <2>6, <2>7
<1> QED
  BY <1>2, <1>3

(* free_memory, of a token task.                                           *)
LEMMA FreeMemoryLaw ==
  ASSUME NEW s \in StateType, NEW i \in Instances, NEW t \in TaskNodes
  PROVE  LET a == FreeMemory(s, i, t)
             r == t.req
         IN /\ a \in StateType /\ a.inst = s.inst /\ a.node = s.node
            /\ a.generated = s.generated /\ a.preempted = s.preempted
            /\ a.crashed = s.crashed /\ a.free = s.free
            /\ WithinMemory(s) \subseteq WithinMemory(a)
            /\ IF IsPrompt(t) THEN SameCache(s, a, r) ELSE Freed(s, a, i, r)
            /\ \A q \in Requests \ {r} : SameCache(s, a, q)
<1> DEFINE r == t.req
           a == FreeMemory(s, i, t)
<1>1. r \in Requests
  BY TaskParts
<1>2. CASE IsPrompt(t)
  <2>1. a = s
    BY <1>2 DEF FreeMemory
  <2>2. \A q \in Requests : SameCache(s, s, q)
    BY DEF SameCache
  <2> QED
    BY <1>1, <1>2, <2>1, <2>2
<1>3. CASE ~ IsPrompt(t)
  <2> DEFINE m == s.memory[r]
             al == [s.alloc EXCEPT ![i][r] = @ + (- m)]
             me == [s.memory EXCEPT ![r] = 0]
             b == [s EXCEPT !.alloc = al, !.memory = me]
  <2>1. m \in Nat
    BY <1>1 DEF StateType
  <2>2. s.alloc \in [Instances -> [Requests -> Int]] /\ s.memory \in [Requests -> Nat]
    BY DEF StateType
  <2> HIDE DEF m
  <2>3. a = b
    <3>1. s.alloc[i][r] - m = s.alloc[i][r] + (- m)
      <4>1. s.alloc[i][r] \in Int
        BY <1>1, <2>2
      <4> QED
        BY <2>1, <4>1
    <3>2. a = [s EXCEPT !.alloc[i][r] = @ - m, !.memory[r] = 0]
      BY <1>3 DEF FreeMemory, m
    <3>3. a = [s EXCEPT !.alloc = [s.alloc EXCEPT ![i][r] = @ - m], !.memory = me]
      <4> HIDE DEF a
      <4> QED
        BY <3>2 DEF StateType
    <3>4. [s.alloc EXCEPT ![i][r] = @ - m] = al
      BY <2>2, <3>1
    <3> HIDE DEF a, al, me
    <3> QED
      BY <3>3, <3>4
  <2>4. al \in [Instances -> [Requests -> Int]] /\ me \in [Requests -> Nat]
        /\ me[r] = 0 /\ \A q \in Requests \ {r} : me[q] = s.memory[q]
    <3>1. s.alloc[i][r] + (- m) \in Int
      BY <1>1, <2>1, <2>2
    <3> QED
      BY <1>1, <2>2, <3>1
  <2> HIDE DEF al, me, a
  <2>5. /\ b \in StateType /\ b.inst = s.inst /\ b.node = s.node /\ b.alloc = al
        /\ b.generated = s.generated /\ b.preempted = s.preempted
        /\ b.crashed = s.crashed /\ b.free = s.free /\ b.memory = me
    BY <2>4 DEF StateType
  <2> HIDE DEF b
  <2>6. /\ \A k \in Instances, q \in Requests :
             b.alloc[k][q] = IF k = i /\ q = r THEN s.alloc[i][r] + (- m) ELSE s.alloc[k][q]
        /\ - m \in Int
    BY <2>1, <2>2, <2>5 DEF al
  <2>7. /\ UsedMemory(b, i) = UsedMemory(s, i) + (- m)
        /\ \A k \in Instances \ {i} : UsedMemory(b, k) = UsedMemory(s, k)
    <3> HIDE DEF r
    <3> QED
      BY <1>1, <2>5, <2>6, AllocChangeLaw
  <2>8. Freed(s, b, i, r)
    <3>1. \A j \in Instances : b.alloc[j][r] = s.alloc[j][r] - (IF j = i THEN m ELSE 0)
      <4>1. ASSUME NEW j \in Instances
            PROVE  b.alloc[j][r] = s.alloc[j][r] - (IF j = i THEN m ELSE 0)
        <5>1. s.alloc[j][r] \in Int
          BY <1>1, <2>2
        <5> HIDE DEF r
        <5> QED
          BY <1>1, <2>1, <2>6, <5>1
      <4> QED
        BY <4>1
    <3> HIDE DEF r
    <3> QED
      BY <2>4, <2>5, <3>1 DEF Freed, m
  <2>9. \A q \in Requests \ {r} : SameCache(s, b, q)
    <3> HIDE DEF r
    <3> QED
      BY <2>4, <2>5, <2>6 DEF SameCache
  <2>10. WithinMemory(s) \subseteq WithinMemory(b)
    <3>1. UsedMemory(s, i) \in Int
      BY UsedMemorySum
    <3>2. UsedMemory(s, i) <= MaxMemory => UsedMemory(b, i) <= MaxMemory
      BY <2>1, <2>7, <3>1, InstanceAssumption
    <3> QED
      BY <2>7, <3>2 DEF WithinMemory
  <2> QED
    BY <1>3, <2>3, <2>5, <2>8, <2>9, <2>10 DEF a
<1> QED
  BY <1>2, <1>3

(* A token task that is queued while its prompt is not over is chained.    *)
Chained(nd, at) ==
  \A r \in Requests :
    Prompt(r) \in at /\ nd[Token(r)] = "QUEUED" => Token(r) \in at

(* The queues u are those of q without the completed tasks done.           *)
Without(q, u, nd, at, done) ==
  /\ Sound(u, nd, at \ done) /\ ToSet(u.batch) = ToSet(q.batch) \ done
  /\ u.pending = q.pending /\ u.prompts = q.prompts /\ u.blocked = q.blocked
  /\ SameRun(q, u)

(* A completed task leaves the batch, and its request the pool unless the  *)
(* token task is left.                                                     *)
LEMMA LeaveLaw ==
  ASSUME NEW s \in StateType, NEW i \in Instances, NEW at \in SUBSET TaskNodes,
         NEW t \in ToSet(s.inst[i].batch), NEW nd,
         Sound(s.inst[i], nd, at), s.node[t] = "COMPLETED",
         \A n \in TaskNodes : n # t => s.node[n] = nd[n],
         IF IsPrompt(t) THEN nd[Token(t.req)] = "QUEUED" <=> Token(t.req) \in at
         ELSE Prompt(t.req) \notin at
  PROVE  \E u \in QueueType :
           /\ RemoveFromPool(RemoveFromBatch(s, i, t), i, t) = WithQueue(s, i, u)
           /\ Without(s.inst[i], u, s.node, at, {t})
<1> DEFINE q == s.inst[i]
           v == [q EXCEPT !.batch = RemoveFirst(@, t)]
           z == WithQueue(s, i, v)
<1>1. q \in QueueType /\ q.batch \in Seq(TaskNodes) /\ IsInjective(q.batch)
  BY QueueFields DEF Sound
<1>2. t \in TaskNodes /\ t \in at /\ t \notin ToSet(q.pending)
  BY <1>1, ElementsAreTasks DEF Sound
<1>3. /\ RemoveFirst(q.batch, t) \in Seq(TaskNodes) /\ IsInjective(RemoveFirst(q.batch, t))
      /\ ToSet(RemoveFirst(q.batch, t)) = ToSet(q.batch) \ {t}
  <2> HIDE DEF q
  <2> QED
    BY <1>1, RemoveFirstSet
<1>4. v \in QueueType /\ v.pending = q.pending /\ v.prompts = q.prompts
      /\ v.blocked = q.blocked /\ v.pool = q.pool /\ v.batch = RemoveFirst(q.batch, t)
      /\ SameRun(q, v)
  <2> HIDE DEF q
  <2> QED
    BY <1>1, <1>3 DEF QueueType, SameRun
<1>5. RemoveFromBatch(s, i, t) = z
  BY DEF RemoveFromBatch, WithQueue, StateType
<1> HIDE DEF v
<1>6. z \in StateType /\ z.inst[i] = v /\ z.node = s.node
  BY <1>4, BesideWithQueue
<1>7. /\ t.req \in Requests /\ (IsPrompt(t) => t = Prompt(t.req))
      /\ (~ IsPrompt(t) => t = Token(t.req))
      /\ Token(t.req) \in TaskNodes /\ Prompt(t.req) \in TaskNodes
      /\ Token(t.req) # Prompt(t.req)
  BY <1>2, TaskParts, NodesOfRequests
<1>8. ToSet(q.pool) = {x.req : x \in at} /\ Sorted(q.pool)
  BY DEF Sound
<1>9. ASSUME NEW u \in QueueType, u.batch = v.batch, u.pending = q.pending,
             u.prompts = q.prompts, u.blocked = q.blocked, SameRun(q, u),
             Sorted(u.pool), ToSet(u.pool) = {x.req : x \in at \ {t}}
      PROVE  Without(q, u, s.node, at, {t})
  <2>1. Sound(q, nd, at)
    OBVIOUS
  <2>2. \A x \in ToSet(q.pending) : x \in TaskNodes /\ x # t
    BY <1>2, <2>1 DEF Sound
  <2> HIDE DEF q
  <2>3. \A x \in ToSet(q.pending) : s.node[x] = nd[x]
    BY <2>2
  <2>4. ToSet(u.batch) = ToSet(q.batch) \ {t} /\ IsInjective(u.batch)
    BY <1>3, <1>4, <1>9
  <2>5. Sound(u, s.node, at \ {t})
    BY <1>2, <1>9, <2>1, <2>2, <2>3, <2>4 DEF Sound
  <2> QED
    BY <1>9, <2>4, <2>5 DEF Without
<1>10. CASE IsPrompt(t) /\ s.node[Token(t.req)] = "QUEUED"
  <2>1. RemoveFromPool(z, i, t) = z
    BY <1>6, <1>10 DEF RemoveFromPool
  <2>2. Token(t.req) \in at
    BY <1>7, <1>10
  <2>3. {x.req : x \in at \ {t}} = {x.req : x \in at}
    <3>1. Token(t.req) \in at \ {t} /\ Token(t.req).req = t.req
      BY <1>7, <1>10, <2>2, NodesOfRequests
    <3> QED
      BY <3>1
  <2>4. Without(q, v, s.node, at, {t})
    <3>1. ToSet(v.pool) = {x.req : x \in at \ {t}} /\ Sorted(v.pool)
      BY <1>4, <1>8, <2>3
    <3> HIDE DEF q
    <3> QED
      BY <1>4, <1>9, <3>1
  <2> HIDE DEF q
  <2>5. RemoveFromPool(RemoveFromBatch(s, i, t), i, t) = WithQueue(s, i, v)
    BY <1>5, <2>1
  <2> QED
    BY <1>4, <2>4, <2>5 DEF q
<1>11. CASE ~ (IsPrompt(t) /\ s.node[Token(t.req)] = "QUEUED")
  <2>1. RemoveFromPool(z, i, t) = [z EXCEPT !.inst[i].pool = RemoveFirst(@, t.req)]
    BY <1>6, <1>11 DEF RemoveFromPool
  <2>2. \A x \in at : x.req = t.req => x = t
    <3>1. ASSUME NEW x \in at, x.req = t.req
          PROVE  x = t
      <4>1. x = Prompt(t.req) \/ x = Token(t.req)
        BY <3>1, TaskParts
      <4>2. CASE IsPrompt(t)
        <5>1. Token(t.req) \notin at
          BY <1>7, <1>11, <4>2
        <5> QED
          BY <1>7, <4>1, <4>2, <5>1
      <4>3. CASE ~ IsPrompt(t)
        BY <1>7, <4>1, <4>3
      <4> QED
        BY <4>2, <4>3
    <3> QED
      BY <3>1
  <2>3. {x.req : x \in at \ {t}} = {x.req : x \in at} \ {t.req}
    BY <1>2, <2>2
  <2>4. PICK u \in QueueType :
           /\ [z EXCEPT !.inst[i].pool = RemoveFirst(@, t.req)] = WithQueue(z, i, u)
           /\ ToSet(u.pool) = ToSet(z.inst[i].pool) \ {t.req}
           /\ Sorted(u.pool)
           /\ u.pending = z.inst[i].pending /\ u.prompts = z.inst[i].prompts
           /\ u.blocked = z.inst[i].blocked /\ u.batch = z.inst[i].batch
           /\ SameRun(z.inst[i], u)
    <3>1. z \in StateType /\ Sorted(z.inst[i].pool)
      BY <1>4, <1>6, <1>8
    <3> HIDE DEF z
    <3> QED
      BY ONLY <3>1, i \in Instances, LeavePoolLaw
  <2>5. WithQueue(z, i, u) = WithQueue(s, i, u)
    BY <1>4, WithQueueTwice
  <2>6. RemoveFromPool(RemoveFromBatch(s, i, t), i, t) = WithQueue(s, i, u)
    BY <1>5, <2>1, <2>4, <2>5
  <2>7. /\ u.batch = v.batch /\ u.pending = q.pending
        /\ u.prompts = q.prompts /\ u.blocked = q.blocked /\ SameRun(q, u)
        /\ Sorted(u.pool) /\ ToSet(u.pool) = {x.req : x \in at \ {t}}
    <3> HIDE DEF z
    <3> QED
      BY <1>4, <1>6, <1>8, <2>3, <2>4 DEF SameRun
  <2> HIDE DEF q
  <2>8. Without(q, u, s.node, at, {t})
    BY <1>9, <2>7
  <2> QED
    BY <2>6, <2>8 DEF q
<1> QED
  BY <1>10, <1>11

(* The completion of the tasks done at i leads from the state s to a.      *)
Completes(s, a, i, at, dest, done) ==
  /\ a \in StateType
  /\ \A j \in Instances \ {i} : a.inst[j] = s.inst[j]
  /\ Without(s.inst[i], a.inst[i], a.node, at, done)
  /\ \A n \in TaskNodes : a.node[n] = IF n \in done THEN "COMPLETED" ELSE s.node[n]
  /\ \A r \in Requests : Settled(s, a, i, r, dest, done)
  /\ a.generated = s.generated /\ a.preempted = s.preempted /\ a.crashed = s.crashed
  /\ WithinMemory(s) \subseteq WithinMemory(a)

(* finish_task, and the flow that follows a prompt.                        *)
LEMMA FinishTaskLaw ==
  ASSUME NEW s \in StateType, NEW i \in Instances, NEW t \in TaskNodes, NEW dest,
         IsPrompt(t) /\ dest[t.req] # i => dest[t.req] \in Instances
  PROVE  LET a == FinishTask(s, i, t, dest)
         IN /\ a \in StateType /\ a.inst = s.inst
            /\ \A n \in TaskNodes : a.node[n] = s.node[n]
            /\ a.generated = s.generated /\ a.preempted = s.preempted
            /\ a.crashed = s.crashed
            /\ WithinMemory(s) \subseteq WithinMemory(a)
            /\ IF IsPrompt(t) /\ dest[t.req] # i THEN HandedOver(s, a, t.req, dest[t.req])
               ELSE SameCache(s, a, t.req)
            /\ \A q \in Requests \ {t.req} : SameCache(s, a, q)
<1>1. t.req \in Requests
  BY TaskParts
<1>2. CASE IsPrompt(t) /\ dest[t.req] # i
  <2> DEFINE r == t.req
             d == dest[r]
             a == FlowArrival(s, r, d)
  <2>1. FinishTask(s, i, t, dest) = a
    BY <1>2 DEF FinishTask
  <2>2. r \in Requests /\ d \in Instances
    BY <1>1, <1>2
  <2> HIDE DEF r, d
  <2>3. /\ a \in StateType /\ a.inst = s.inst
        /\ \A n \in TaskNodes : a.node[n] = s.node[n]
        /\ a.generated = s.generated /\ a.preempted = s.preempted
        /\ a.crashed = s.crashed /\ a.free = s.free
        /\ WithinMemory(s) \subseteq WithinMemory(a)
        /\ HandedOver(s, a, r, d)
        /\ \A q \in Requests \ {r} : SameCache(s, a, q)
    BY <2>2, FlowArrivalLaw
  <2> HIDE DEF a
  <2> QED
    BY <1>2, <2>1, <2>3 DEF r, d
<1>3. CASE ~ (IsPrompt(t) /\ dest[t.req] # i)
  <2>1. FinishTask(s, i, t, dest) = s
    BY <1>3 DEF FinishTask
  <2>2. \A q \in Requests : SameCache(s, s, q)
    BY DEF SameCache
  <2> QED
    BY <1>1, <1>3, <2>1, <2>2
<1> QED
  BY <1>2, <1>3

(* task_completion.                                                        *)
LEMMA TaskCompletionLaw ==
  ASSUME NEW s \in StateType, NEW i \in Instances, NEW at \in SUBSET TaskNodes, NEW dest,
         NEW t \in ToSet(s.inst[i].batch), Sound(s.inst[i], s.node, at),
         IF IsPrompt(t) THEN s.node[Token(t.req)] = "QUEUED" <=> Token(t.req) \in at
         ELSE Prompt(t.req) \notin at,
         IsPrompt(t) /\ dest[t.req] # i => dest[t.req] \in Instances
  PROVE  Completes(s, TaskCompletion(s, i, t, dest), i, at, dest, {t})
<1> DEFINE b == [s EXCEPT !.node[t] = "COMPLETED"]
           c == FreeMemory(b, i, t)
           d == RemoveFromPool(RemoveFromBatch(c, i, t), i, t)
           a == FinishTask(d, i, t, dest)
           r == t.req
<1>1. TaskCompletion(s, i, t, dest) = a
  BY DEF TaskCompletion
<1>2. t \in TaskNodes /\ t \in Nodes /\ TaskNodes \subseteq Nodes
  BY QueueFields, ElementsAreTasks DEF Nodes
<1>3. /\ r \in Requests /\ (IsPrompt(t) <=> t = Prompt(r)) /\ (IsPrompt(t) \/ t = Token(r))
      /\ \A q \in Requests : Flow(q) # t /\ Flow(q) \in Nodes
      /\ Prompt(r) # Token(r) /\ Prompt(r).req = r /\ Token(r).req = r
      /\ \A q \in Requests \ {r} : Prompt(q) # t /\ Token(q) # t
  <2>1. r \in Requests /\ (IsPrompt(t) <=> t = Prompt(r)) /\ (IsPrompt(t) \/ t = Token(r))
    BY <1>2, TaskParts
  <2>2. \A q \in Requests : Flow(q) # t /\ Flow(q) \in Nodes
          /\ Prompt(q) # Token(q) /\ Prompt(q).req = q /\ Token(q).req = q
    BY <1>2, NodesOfRequests
  <2> QED
    BY <2>1, <2>2
<1>4. /\ b \in StateType /\ b.inst = s.inst
      /\ b.node[t] = "COMPLETED" /\ \A n \in Nodes : n # t => b.node[n] = s.node[n]
      /\ b.generated = s.generated /\ b.preempted = s.preempted /\ b.crashed = s.crashed
      /\ b.alloc = s.alloc /\ b.memory = s.memory
  <2> DEFINE nf == [s.node EXCEPT ![t] = "COMPLETED"]
  <2>1. s.node \in [Nodes -> NodeStates]
    BY DEF StateType
  <2>2. /\ nf \in [Nodes -> NodeStates] /\ nf[t] = "COMPLETED"
        /\ \A n \in Nodes : n # t => nf[n] = s.node[n]
    BY <1>2, <2>1 DEF NodeStates
  <2>3. b = [s EXCEPT !.node = nf]
    BY DEF StateType
  <2> HIDE DEF nf, b
  <2> QED
    BY <2>2, <2>3 DEF StateType
<1> HIDE DEF b
<1>5. WithinMemory(s) \subseteq WithinMemory(b) /\ \A q \in Requests : SameCache(s, b, q)
  BY <1>3, <1>4 DEF WithinMemory, UsedMemory, SameCache
<1>6. /\ c \in StateType /\ c.inst = b.inst /\ c.node = b.node
      /\ c.generated = b.generated /\ c.preempted = b.preempted
      /\ c.crashed = b.crashed
      /\ WithinMemory(b) \subseteq WithinMemory(c)
      /\ IF IsPrompt(t) THEN SameCache(b, c, r) ELSE Freed(b, c, i, r)
      /\ \A q \in Requests \ {r} : SameCache(b, c, q)
  BY <1>2, <1>4, FreeMemoryLaw
<1> HIDE DEF c
<1>7. PICK u \in QueueType : d = WithQueue(c, i, u) /\ Without(c.inst[i], u, c.node, at, {t})
  <2>1. /\ t \in ToSet(c.inst[i].batch) /\ Sound(c.inst[i], s.node, at)
        /\ c.node[t] = "COMPLETED" /\ \A n \in TaskNodes : n # t => c.node[n] = s.node[n]
    BY <1>2, <1>4, <1>6
  <2> HIDE DEF r
  <2> QED
    BY <1>6, <2>1, LeaveLaw
<1>8. /\ d \in StateType /\ d.inst[i] = u /\ d.node = c.node /\ Beside(c, d, i)
  <2> HIDE DEF d
  <2> QED
    BY <1>6, <1>7, BesideWithQueue
<1> HIDE DEF d
<1>9. WithinMemory(c) \subseteq WithinMemory(d) /\ \A q \in Requests : SameCache(c, d, q)
  BY <1>8 DEF WithinMemory, UsedMemory, SameCache, Beside
<1>10. /\ a \in StateType /\ a.inst = d.inst
       /\ \A n \in TaskNodes : a.node[n] = d.node[n]
       /\ a.generated = d.generated /\ a.preempted = d.preempted
       /\ a.crashed = d.crashed
       /\ WithinMemory(d) \subseteq WithinMemory(a)
       /\ IF IsPrompt(t) /\ dest[r] # i THEN HandedOver(d, a, r, dest[r])
          ELSE SameCache(d, a, r)
       /\ \A q \in Requests \ {r} : SameCache(d, a, q)
  BY <1>2, <1>8, FinishTaskLaw
<1> HIDE DEF a
<1>11. \A n \in TaskNodes : a.node[n] = IF n \in {t} THEN "COMPLETED" ELSE s.node[n]
  BY <1>2, <1>4, <1>6, <1>8, <1>10
<1>12. \A j \in Instances \ {i} : a.inst[j] = s.inst[j]
  BY <1>4, <1>6, <1>8, <1>10 DEF Beside
<1>13. Without(s.inst[i], a.inst[i], a.node, at, {t})
  <2>1. Without(s.inst[i], u, c.node, at, {t})
    BY <1>4, <1>6, <1>7
  <2>2. \A n \in TaskNodes : a.node[n] = c.node[n]
    BY <1>8, <1>10
  <2>3. ToSet(u.pending) \subseteq TaskNodes
    BY ElementsAreTasks DEF QueueType
  <2>4. Without(s.inst[i], u, a.node, at, {t})
    BY <2>1, <2>2, <2>3 DEF Without, Sound
  <2>5. a.inst[i] = u
    BY <1>8, <1>10
  <2> QED
    BY <2>4, <2>5
<1>14. a.generated = s.generated /\ a.preempted = s.preempted /\ a.crashed = s.crashed
  BY <1>4, <1>6, <1>8, <1>10 DEF Beside
<1>15. ASSUME NEW q \in Requests
       PROVE  Settled(s, a, i, q, dest, {t})
  <2>1. SameCache(s, b, q) /\ SameCache(c, d, q)
    BY <1>5, <1>9
  <2>2. CASE q # r
    <3>1. SameCache(b, c, q) /\ SameCache(d, a, q)
      BY <1>6, <1>10, <2>2
    <3>2. SameCache(s, a, q)
      BY <2>1, <3>1 DEF SameCache
    <3> QED
      BY <1>3, <2>2, <3>2 DEF Settled
  <2>3. CASE q = r /\ IsPrompt(t)
    <3>1. SameCache(b, c, q)
      BY <1>6, <2>3
    <3>2. SameCache(s, d, q)
      BY <2>1, <3>1 DEF SameCache
    <3>3. Prompt(q) \in {t}
      BY <1>3, <2>3
    <3>4. CASE dest[q] = i
      <4>1. SameCache(d, a, q)
        BY <1>10, <2>3, <3>4
      <4>2. SameCache(s, a, q)
        BY <3>2, <4>1 DEF SameCache
      <4> QED
        BY <3>3, <3>4, <4>2 DEF Settled
    <3>5. CASE dest[q] # i
      <4>1. HandedOver(d, a, q, dest[q])
        BY <1>10, <2>3, <3>5
      <4>2. HandedOver(s, a, q, dest[q])
        BY <3>2, <4>1 DEF SameCache, HandedOver
      <4> QED
        BY <3>3, <3>5, <4>2 DEF Settled
    <3> QED
      BY <3>4, <3>5
  <2>4. CASE q = r /\ ~ IsPrompt(t)
    <3>1. Freed(b, c, i, q) /\ SameCache(d, a, q)
      BY <1>6, <1>10, <2>4
    <3>2. Freed(s, a, i, q)
      BY <2>1, <3>1 DEF SameCache, Freed
    <3>3. Prompt(q) \notin {t} /\ Token(q) \in {t}
      BY <1>3, <2>4
    <3> QED
      BY <3>2, <3>3 DEF Settled
  <2> QED
    BY <2>2, <2>3, <2>4
<1>16. WithinMemory(s) \subseteq WithinMemory(a)
  BY <1>5, <1>6, <1>9, <1>10
<1>17. Completes(s, a, i, at, dest, {t})
  BY <1>10, <1>11, <1>12, <1>13, <1>14, <1>15, <1>16 DEF Completes
<1> QED
  BY <1>1, <1>17

(* One completion after others.                                            *)
LEMMA CompletesTwice ==
  ASSUME NEW s, NEW a, NEW b, NEW i, NEW at \in SUBSET TaskNodes, NEW dest,
         NEW done \in SUBSET TaskNodes, NEW t \in TaskNodes,
         Completes(s, a, i, at, dest, done),
         Completes(a, b, i, at \ done, dest, {t}),
         Prompt(t.req) \notin done, Token(t.req) \notin done
  PROVE  Completes(s, b, i, at, dest, done \cup {t})
<1> DEFINE e == done \cup {t}
<1>1. /\ b \in StateType /\ \A j \in Instances \ {i} : b.inst[j] = s.inst[j]
      /\ b.generated = s.generated /\ b.preempted = s.preempted /\ b.crashed = s.crashed
      /\ WithinMemory(s) \subseteq WithinMemory(b)
  BY DEF Completes
<1>2. \A n \in TaskNodes : b.node[n] = IF n \in e THEN "COMPLETED" ELSE s.node[n]
  BY DEF Completes
<1>3. Without(s.inst[i], b.inst[i], b.node, at, e)
  <2>1. Without(s.inst[i], a.inst[i], a.node, at, done)
        /\ Without(a.inst[i], b.inst[i], b.node, at \ done, {t})
    BY DEF Completes
  <2>2. (at \ done) \ {t} = at \ e
    OBVIOUS
  <2> HIDE DEF e
  <2>3. Sound(b.inst[i], b.node, at \ e)
    BY <2>1, <2>2 DEF Without
  <2>4. ToSet(b.inst[i].batch) = ToSet(s.inst[i].batch) \ e
    BY <2>1 DEF Without, e
  <2>5. /\ b.inst[i].pending = s.inst[i].pending /\ b.inst[i].prompts = s.inst[i].prompts
        /\ b.inst[i].blocked = s.inst[i].blocked /\ SameRun(s.inst[i], b.inst[i])
    BY <2>1 DEF Without, SameRun
  <2> QED
    BY <2>3, <2>4, <2>5 DEF Without
<1>4. ASSUME NEW r \in Requests
      PROVE  Settled(s, b, i, r, dest, e)
  <2>1. Settled(s, a, i, r, dest, done) /\ Settled(a, b, i, r, dest, {t})
    BY DEF Completes
  <2>2. t.req \in Requests /\ (t = Prompt(t.req) \/ t = Token(t.req))
        /\ Prompt(r).req = r /\ Token(r).req = r
    BY TaskParts, NodesOfRequests
  <2>3. CASE r = t.req
    <3>1. SameCache(s, a, r)
      BY <2>1, <2>3 DEF Settled
    <3>2. (Prompt(r) \in e <=> Prompt(r) \in {t}) /\ (Token(r) \in e <=> Token(r) \in {t})
      BY <2>3
    <3> HIDE DEF e
    <3>3. CASE Prompt(r) \in {t} /\ dest[r] = i
      <4>1. SameCache(a, b, r)
        BY <2>1, <3>3 DEF Settled
      <4> QED
        BY <3>1, <3>2, <3>3, <4>1 DEF Settled, SameCache
    <3>4. CASE Prompt(r) \in {t} /\ dest[r] # i
      <4>1. HandedOver(a, b, r, dest[r])
        BY <2>1, <3>4 DEF Settled
      <4>2. HandedOver(s, b, r, dest[r])
        BY <3>1, <4>1 DEF HandedOver, SameCache
      <4> QED
        BY <3>2, <3>4, <4>2 DEF Settled
    <3>5. CASE Prompt(r) \notin {t}
      <4>1. Token(r) \in {t} /\ Freed(a, b, i, r)
        BY <2>1, <2>2, <2>3, <3>5 DEF Settled
      <4>2. Freed(s, b, i, r)
        BY <3>1, <4>1 DEF Freed, SameCache
      <4> QED
        BY <3>2, <3>5, <4>1, <4>2 DEF Settled
    <3> QED
      BY <3>3, <3>4, <3>5
  <2>4. CASE r # t.req
    <3>1. Prompt(r) \notin {t} /\ Token(r) \notin {t}
      BY <2>2, <2>4
    <3>2. SameCache(a, b, r)
      BY <2>1, <3>1 DEF Settled
    <3>3. (Prompt(r) \in e <=> Prompt(r) \in done) /\ (Token(r) \in e <=> Token(r) \in done)
      BY <3>1
    <3> HIDE DEF e
    <3> QED
      BY <2>1, <3>2, <3>3 DEF Settled, SameCache, HandedOver, Freed
  <2> QED
    BY <2>3, <2>4
<1> HIDE DEF e
<1>5. Completes(s, b, i, at, dest, e)
  BY <1>1, <1>2, <1>3, <1>4 DEF Completes
<1> QED
  BY <1>5 DEF e

(* A request has one task in a running batch.                              *)
LEMMA OneTaskOfARequest ==
  ASSUME NEW q, NEW nd, NEW pre, NEW at \in SUBSET TaskNodes,
         Sound(q, nd, at), Ready(nd, pre, at), Running(q, nd),
         NEW t \in ToSet(q.batch), NEW u \in ToSet(q.batch), t.req = u.req
  PROVE  t = u
<1>1. t \in at /\ u \in at /\ nd[t] = "RUNNING" /\ nd[u] = "RUNNING"
  BY DEF Sound, Running
<1>2. t.req \in Requests /\ (t = Prompt(t.req) \/ t = Token(t.req))
      /\ (u = Prompt(t.req) \/ u = Token(t.req))
  BY <1>1, TaskParts
<1>3. ~ (Prompt(t.req) \in at /\ nd[Prompt(t.req)] = "RUNNING"
         /\ Token(t.req) \in at /\ nd[Token(t.req)] = "RUNNING")
  BY <1>2 DEF Ready
<1> QED
  BY <1>1, <1>2, <1>3

(* The prompt of a running token task is over.                             *)
LEMMA PromptIsOver ==
  ASSUME NEW q, NEW nd, NEW pre, NEW at \in SUBSET TaskNodes,
         Sound(q, nd, at), Ready(nd, pre, at), Running(q, nd),
         NEW t \in ToSet(q.batch), ~ IsPrompt(t)
  PROVE  nd[Prompt(t.req)] = "COMPLETED" /\ Prompt(t.req) \notin at
<1>1. t \in at /\ nd[t] = "RUNNING"
  BY DEF Sound, Running
<1>2. t.req \in Requests /\ t = Token(t.req)
  BY <1>1, TaskParts
<1> QED
  BY <1>1, <1>2 DEF Ready

(* The loop of complete_iteration.                                         *)
Completing == INSTANCE LoopLaws WITH
  Op <- LAMBDA g, q, a, t : IF g.generated[t] = TokensToGenerate(t)
                            THEN TaskCompletion(a, q[1], t, q[2]) ELSE a

(* The completion of the tasks of a batch is a loop.                       *)
LEMMA CompleteTasksIsLoop ==
  ASSUME NEW g, NEW i, NEW dest
  PROVE  CompleteTasks(g, i, dest) = Completing!Loop(g, <<i, dest>>, g, g.inst[i].batch)
  BY DEF CompleteTasks, FoldLeft, MapThenFoldSet, Max, Completing!Loop,
         Completing!MapThenFoldSet, Completing!Max

(* The tasks of a batch that have all their tokens.                        *)
Over(g, i) == {t \in ToSet(g.inst[i].batch) : g.generated[t] = TokensToGenerate(t)}

(* The tasks that have all their tokens are completed.                     *)
LEMMA CompleteTasksLaw ==
  ASSUME NEW g \in StateType, NEW i \in Instances, NEW at \in SUBSET TaskNodes, NEW dest,
         Sound(g.inst[i], g.node, at), Ready(g.node, g.preempted, at),
         Running(g.inst[i], g.node), Chained(g.node, at),
         \A r \in Requests : Prompt(r) \in at /\ dest[r] # i => dest[r] \in Instances
  PROVE  Completes(g, CompleteTasks(g, i, dest), i, at, dest, Over(g, i))
<1> DEFINE b == g.inst[i].batch
           out(k) == {t \in FirstOf(b, k) : g.generated[t] = TokensToGenerate(t)}
           Inv(a, done) == Completes(g, a, i, at, dest, done)
           J == [k \in 0 .. Len(b) |-> {a \in StateType : Inv(a, out(k))}]
<1>1. b \in Seq(TaskNodes) /\ IsInjective(b) /\ Len(b) \in Nat
  <2>1. b \in Seq(TaskNodes)
    BY QueueFields
  <2> QED
    BY <2>1 DEF Sound
<1>2. g \in J[0]
  <2>1. out(0) = {} /\ 0 \in 0 .. Len(b)
    BY <1>1, FirstOfLaw
  <2>2. Without(g.inst[i], g.inst[i], g.node, at, {})
    BY DEF Without, SameRun
  <2>3. \A r \in Requests : Settled(g, g, i, r, dest, {})
    BY DEF Settled, SameCache
  <2>4. Inv(g, {})
    BY <2>2, <2>3 DEF Completes
  <2> HIDE DEF Inv, out
  <2> QED
    BY <2>1, <2>4
<1>3. ASSUME NEW k \in 1 .. Len(b), NEW a \in J[k - 1]
      PROVE  (IF g.generated[b[k]] = TokensToGenerate(b[k])
              THEN TaskCompletion(a, i, b[k], dest) ELSE a) \in J[k]
  <2> DEFINE t == b[k]
             d == out(k - 1)
  <2>1. /\ k - 1 \in 0 .. Len(b) /\ k \in 0 .. Len(b)
        /\ out(k) = d \cup (IF g.generated[t] = TokensToGenerate(t) THEN {t} ELSE {})
        /\ t \in ToSet(b) /\ t \in TaskNodes /\ t \notin d /\ d \subseteq ToSet(b)
    <3>1. /\ FirstOf(b, k) = FirstOf(b, k - 1) \cup {b[k]}
          /\ k - 1 \in 0 .. Len(b) /\ k \in 0 .. Len(b)
          /\ b[k] \in ToSet(b) /\ b[k] \in TaskNodes /\ b[k] \notin FirstOf(b, k - 1)
          /\ FirstOf(b, k) \subseteq ToSet(b)
      <4> HIDE DEF b
      <4> QED
        BY <1>1, FirstOfLaw
    <3> HIDE DEF Inv, J
    <3> QED
      BY <3>1
  <2>2. a \in StateType /\ Inv(a, d)
    <3> HIDE DEF Inv, out
    <3> QED
      BY <2>1
  <2>3. CASE ~ (g.generated[t] = TokensToGenerate(t))
    <3>1. out(k) = d
      BY <2>1, <2>3
    <3> HIDE DEF Inv, out
    <3> QED
      BY <2>1, <2>2, <2>3, <3>1
  <2>4. CASE g.generated[t] = TokensToGenerate(t)
    <3>1. out(k) = d \cup {t}
      BY <2>1, <2>4
    <3> HIDE DEF d, out
    <3>2. Completes(g, a, i, at, dest, d)
      BY <2>2
    <3>3. t \in ToSet(g.inst[i].batch) /\ d \subseteq ToSet(g.inst[i].batch)
      BY <2>1
    <3> HIDE DEF b, Inv, J, t
    <3>4. d \in SUBSET TaskNodes /\ t \in TaskNodes
      BY <3>3, QueueFields, ElementsAreTasks
    <3>5. t.req \in Requests /\ (t = Prompt(t.req) \/ t = Token(t.req))
          /\ (IsPrompt(t) <=> t = Prompt(t.req))
          /\ (IsPrompt(t) \/ t = Token(t.req))
          /\ Prompt(t.req).req = t.req /\ Token(t.req).req = t.req
          /\ Token(t.req) \in TaskNodes
      BY <3>4, TaskParts, NodesOfRequests
    <3>6. Prompt(t.req) \notin d /\ Token(t.req) \notin d
      <4>1. \A u \in d : u.req = t.req => u = t
        BY <3>3, OneTaskOfARequest
      <4>2. t \notin d
        BY <2>1
      <4> QED
        BY <3>5, <4>1, <4>2
    <3>7. t \in at /\ g.node[t] = "RUNNING"
      BY <3>3 DEF Sound, Running
    <3>8. /\ t \in ToSet(a.inst[i].batch) /\ Sound(a.inst[i], a.node, at \ d)
          /\ a \in StateType
      <4>1. t \notin d
        BY <2>1
      <4> QED
        BY <3>2, <3>3, <4>1 DEF Completes, Without
    <3>9. IF IsPrompt(t) THEN a.node[Token(t.req)] = "QUEUED" <=> Token(t.req) \in at \ d
          ELSE Prompt(t.req) \notin at \ d
      <4>1. CASE IsPrompt(t)
        <5>1. a.node[Token(t.req)] = g.node[Token(t.req)]
          BY <3>2, <3>5, <3>6 DEF Completes
        <5>2. Token(t.req) \in at => g.node[Token(t.req)] = "QUEUED"
          BY <3>5, <3>7, <4>1 DEF Ready
        <5>3. g.node[Token(t.req)] = "QUEUED" => Token(t.req) \in at
          BY <3>5, <3>7, <4>1 DEF Chained
        <5> QED
          BY <3>6, <4>1, <5>1, <5>2, <5>3
      <4>2. CASE ~ IsPrompt(t)
        <5>1. Prompt(t.req) \notin at
          BY <3>3, <4>2, PromptIsOver
        <5> QED
          BY <4>2, <5>1
      <4> QED
        BY <4>1, <4>2
    <3>10. IsPrompt(t) /\ dest[t.req] # i => dest[t.req] \in Instances
      BY <3>5, <3>7
    <3> DEFINE c == TaskCompletion(a, i, t, dest)
    <3>11. Completes(a, c, i, at \ d, dest, {t})
      <4> DEFINE et == at \ d
      <4>1. et \in SUBSET TaskNodes /\ Sound(a.inst[i], a.node, et)
            /\ (IF IsPrompt(t) THEN a.node[Token(t.req)] = "QUEUED" <=> Token(t.req) \in et
                ELSE Prompt(t.req) \notin et)
        BY <3>8, <3>9
      <4> HIDE DEF et
      <4>2. Completes(a, TaskCompletion(a, i, t, dest), i, et, dest, {t})
        BY <3>8, <3>10, <4>1, TaskCompletionLaw
      <4> QED
        BY <4>2 DEF et
    <3> HIDE DEF c
    <3>12. Completes(g, c, i, at, dest, d \cup {t})
      BY <3>2, <3>4, <3>6, <3>11, CompletesTwice
    <3>13. c \in StateType /\ Inv(c, d \cup {t})
      BY <3>12 DEF Inv, Completes
    <3>14. c \in J[k]
      BY <2>1, <3>1, <3>13 DEF J
    <3> QED
      BY <2>4, <3>14 DEF c, t
  <2> QED
    BY <2>3, <2>4
<1> HIDE DEF J
<1>4. Completing!Loop(g, <<i, dest>>, g, b) \in J[Len(b)]
  <2> DEFINE p == <<i, dest>>
  <2>1. p[1] = i /\ p[2] = dest
    OBVIOUS
  <2> HIDE DEF p, b, out, Inv
  <2>2. ASSUME NEW k \in 1 .. Len(b), NEW a \in J[k - 1]
        PROVE  (IF g.generated[b[k]] = TokensToGenerate(b[k])
                THEN TaskCompletion(a, p[1], b[k], p[2]) ELSE a) \in J[k]
    BY <1>3, <2>1
  <2>3. Completing!Loop(g, p, g, b) \in J[Len(b)]
    BY <1>1, <1>2, <2>2, Induction, Completing!LoopInvariant
  <2> QED
    BY <2>3 DEF p
<1>5. CompleteTasks(g, i, dest) \in J[Len(b)]
  BY <1>4, CompleteTasksIsLoop
<1>6. out(Len(b)) = Over(g, i)
  <2>1. FirstOf(b, Len(b)) = ToSet(b)
    BY <1>1, FirstOfLaw
  <2> QED
    BY <2>1 DEF Over
<1> DEFINE e == CompleteTasks(g, i, dest)
<1> HIDE DEF e, out, Inv
<1>7. e \in StateType /\ Inv(e, out(Len(b)))
  BY <1>1, <1>5 DEF J, e
<1> QED
  BY <1>6, <1>7 DEF Inv, e

(* The tasks that complete with the run of i.                              *)
EndingNow(s, i) ==
  {t \in ToSet(s.inst[i].batch) : s.generated[t] + s.inst[i].iterations = TokensToGenerate(t)}

(* The state a after the run of i has ended in the state s.                *)
Ended(s, a, i, at, dest) ==
  LET done == EndingNow(s, i)
      q == s.inst[i]
      u == a.inst[i]
  IN /\ a \in StateType
     /\ \A j \in Instances \ {i} : a.inst[j] = s.inst[j]
     /\ Sound(u, a.node, at \ done) /\ ToSet(u.batch) = ToSet(q.batch) \ done
     /\ u.batchTokens = q.batchTokens /\ u.iterations = q.iterations
     /\ u.elapsed = q.elapsed /\ u.pausing = FALSE /\ u.handle = q.handle
     /\ \A n \in TaskNodes : a.node[n] = IF n \in done THEN "COMPLETED" ELSE s.node[n]
     /\ \A r \in Requests : Settled(s, a, i, r, dest, done)
     /\ a.generated = [t \in TaskNodes |->
          s.generated[t] + (IF t \in ToSet(q.batch) THEN q.iterations ELSE 0)]
     /\ a.preempted = s.preempted /\ a.crashed = s.crashed
     /\ WithinMemory(s) \subseteq WithinMemory(a)

(* complete_iteration, up to the next iteration.                           *)
LEMMA EndRunLaw ==
  ASSUME NEW s \in StateType, NEW i \in Instances, NEW at \in SUBSET TaskNodes, NEW dest,
         Sound(s.inst[i], s.node, at), Ready(s.node, s.preempted, at),
         Running(s.inst[i], s.node), Chained(s.node, at),
         \A r \in Requests : Prompt(r) \in at /\ dest[r] # i => dest[r] \in Instances
  PROVE  Ended(s, EndRun(s, i, dest), i, at, dest)
<1> DEFINE q == s.inst[i]
           f == [t \in TaskNodes |->
                   s.generated[t] + (IF t \in ToSet(q.batch) THEN q.iterations ELSE 0)]
           g == [s EXCEPT !.generated = f]
           b == CompleteTasks(g, i, dest)
           u == [b.inst[i] EXCEPT !.pausing = FALSE]
           a == WithQueue(b, i, u)
<1>1. /\ q \in QueueType /\ q.batch \in Seq(TaskNodes) /\ q.iterations \in Int
      /\ s.generated \in [TaskNodes -> Int]
  BY QueueFields DEF StateType
<1>2. f \in [TaskNodes -> Int]
  <2> HIDE DEF q
  <2>1. \A t \in TaskNodes :
          s.generated[t] + (IF t \in ToSet(q.batch) THEN q.iterations ELSE 0) \in Int
    <3>1. ASSUME NEW t \in TaskNodes
          PROVE  s.generated[t] + (IF t \in ToSet(q.batch) THEN q.iterations ELSE 0) \in Int
      <4>1. s.generated[t] \in Int
        BY <1>1
      <4> QED
        BY <1>1, <4>1
    <3> QED
      BY <3>1
  <2> QED
    BY <2>1
<1>3. Generate(s, i) = g
  <2>1. \A t \in TaskNodes : Contains(q.batch, t) <=> t \in ToSet(q.batch)
    BY <1>1, ContainsLaw
  <2>2. f = [t \in DOMAIN s.generated |->
               s.generated[t] + (IF Contains(q.batch, t) THEN q.iterations ELSE 0)]
    BY <1>1, <2>1
  <2> HIDE DEF f
  <2> QED
    BY <2>2 DEF Generate, StateType
<1> HIDE DEF f, q
<1>4. /\ g \in StateType /\ g.inst = s.inst /\ g.node = s.node /\ g.generated = f
      /\ g.preempted = s.preempted /\ g.alloc = s.alloc /\ g.memory = s.memory
      /\ g.crashed = s.crashed
  BY <1>2 DEF StateType
<1> HIDE DEF g
<1>5. Completes(g, b, i, at, dest, Over(g, i))
  <2>1. /\ Sound(g.inst[i], g.node, at) /\ Ready(g.node, g.preempted, at)
        /\ Running(g.inst[i], g.node) /\ Chained(g.node, at)
    BY <1>4
  <2> QED
    BY <1>4, <2>1, CompleteTasksLaw
<1> HIDE DEF b
<1>6. Over(g, i) = EndingNow(s, i)
  <2>1. \A t \in ToSet(q.batch) : t \in TaskNodes
    BY <1>1, ElementsAreTasks
  <2>2. \A t \in ToSet(q.batch) : f[t] = s.generated[t] + q.iterations
    BY <2>1 DEF f
  <2>3. g.inst[i] = q
    BY <1>4 DEF q
  <2> QED
    BY <1>4, <2>2, <2>3 DEF Over, EndingNow, q
<1>7. Completes(g, b, i, at, dest, EndingNow(s, i))
  BY <1>5, <1>6
<1> DEFINE done == EndingNow(s, i)
           v == b.inst[i]
<1> HIDE DEF done
<1>8. /\ b \in StateType /\ v \in QueueType
      /\ \A j \in Instances \ {i} : b.inst[j] = s.inst[j]
      /\ Without(q, v, b.node, at, done)
      /\ \A n \in TaskNodes : b.node[n] = IF n \in done THEN "COMPLETED" ELSE s.node[n]
      /\ b.generated = f /\ b.preempted = s.preempted /\ b.crashed = s.crashed
      /\ WithinMemory(g) \subseteq WithinMemory(b)
      /\ \A r \in Requests : Settled(g, b, i, r, dest, done)
  <2>1. Completes(g, b, i, at, dest, done)
    BY <1>7 DEF done
  <2>2. b \in StateType
    BY <2>1 DEF Completes
  <2>3. v \in QueueType
    BY <2>2, QueueFields
  <2> QED
    BY <1>4, <2>1, <2>2, <2>3 DEF Completes, q
<1>9. /\ u \in QueueType /\ u.pending = v.pending /\ u.prompts = v.prompts
      /\ u.blocked = v.blocked /\ u.pool = v.pool /\ u.batch = v.batch
      /\ u.batchTokens = v.batchTokens /\ u.iterations = v.iterations
      /\ u.elapsed = v.elapsed /\ u.pausing = FALSE /\ u.handle = v.handle
  <2> HIDE DEF v
  <2>1. u = [v EXCEPT !.pausing = FALSE]
    BY DEF v
  <2> HIDE DEF u
  <2> QED
    BY <1>8, <2>1 DEF QueueType
<1>10. EndRun(s, i, dest) = a
  <2>1. EndRun(s, i, dest) = [b EXCEPT !.inst[i].pausing = FALSE]
    BY <1>3 DEF EndRun, b
  <2> QED
    BY <1>8, <2>1 DEF WithQueue, StateType
<1> HIDE DEF u
<1>11. a \in StateType /\ a.inst[i] = u /\ a.node = b.node /\ Beside(b, a, i)
  BY <1>8, <1>9, BesideWithQueue
<1> HIDE DEF a, v
<1>12. Sound(u, a.node, at \ done) /\ ToSet(u.batch) = ToSet(q.batch) \ done
  <2>1. Sound(v, b.node, at \ done) /\ ToSet(v.batch) = ToSet(q.batch) \ done
    BY <1>8 DEF Without
  <2> QED
    BY <1>9, <1>11, <2>1 DEF Sound
<1>13. WithinMemory(s) \subseteq WithinMemory(a)
  <2>1. WithinMemory(g) = WithinMemory(s) /\ WithinMemory(a) = WithinMemory(b)
    BY <1>4, <1>11 DEF WithinMemory, UsedMemory, Beside
  <2> QED
    BY <1>8, <2>1
<1>14. \A r \in Requests : Settled(s, a, i, r, dest, done)
  <2>1. ASSUME NEW r \in Requests
        PROVE  Settled(s, a, i, r, dest, done)
    <3>1. Settled(g, b, i, r, dest, done)
      BY <1>8
    <3>2. a.node = b.node /\ a.alloc = b.alloc /\ a.memory = b.memory
      BY <1>11 DEF Beside
    <3> QED
      BY <1>4, <3>1, <3>2 DEF Settled, SameCache, HandedOver, Freed
  <2> QED
    BY <2>1
<1>15. /\ u.batchTokens = q.batchTokens /\ u.iterations = q.iterations
       /\ u.elapsed = q.elapsed /\ u.pausing = FALSE /\ u.handle = q.handle
  BY <1>8, <1>9 DEF Without, SameRun
<1>16. \A j \in Instances \ {i} : a.inst[j] = s.inst[j]
  BY <1>8, <1>11 DEF Beside
<1>17. a.generated = f /\ a.preempted = s.preempted /\ a.crashed = s.crashed
  BY <1>8, <1>11 DEF Beside
<1>18. \A n \in TaskNodes : a.node[n] = IF n \in done THEN "COMPLETED" ELSE s.node[n]
  BY <1>8, <1>11
<1>19. Ended(s, a, i, at, dest)
  BY <1>11, <1>12, <1>13, <1>14, <1>15, <1>16, <1>17, <1>18 DEF Ended, f, q, done
<1> QED
  BY <1>10, <1>19

(* The tasks that have arrived at i and are not complete, when the prompts *)
(* are placed by P and the tokens by D.                                    *)
Where(P, D, t) == IF IsPrompt(t) THEN P[t.req] ELSE D[t.req]

Live == {"QUEUED", "RUNNING", "BLOCKED"}

At(nd, P, D, i) == {t \in TaskNodes : nd[t] \in Live /\ i = Where(P, D, t)}

Placing == [Requests -> Instances \cup {NoInstance}]

Placed(P, D) ==
  /\ P \in Placing /\ D \in Placing
  /\ \A r \in Requests : P[r] = NoInstance <=> D[r] = NoInstance

(* How far a request is: its nodes run in their order, and a token task    *)
(* that is apart from its prompt waits for the flow.                       *)
Stage(s, r, P, D) ==
  /\ s.node[Prompt(r)] # "COMPLETED" =>
       /\ s.node[Token(r)] \in {"NONE", "QUEUED"} /\ s.preempted[Token(r)] = 0
       /\ s.node[Flow(r)] = "NONE"
  /\ s.node[Prompt(r)] = "NONE" => s.node[Token(r)] = "NONE"
  /\ P[r] # D[r] /\ s.node[Flow(r)] # "COMPLETED" => s.node[Token(r)] = "NONE"
  /\ s.node[Flow(r)] # "NONE" => P[r] # D[r]
  /\ P[r] = NoInstance => s.node[Prompt(r)] = "NONE"

(* The inductive invariant of the queues.                                  *)
Good(s, P, D) ==
  /\ s \in StateType
  /\ \A i \in Instances :
       /\ Sound(s.inst[i], s.node, At(s.node, P, D, i))
       /\ Running(s.inst[i], s.node)
       /\ Len(s.inst[i].batch) <= MaxBatchSize
  /\ \A r \in Requests : Stage(s, r, P, D)

(* What the handlers of an instance need to know.                          *)
LEMMA GoodFacts ==
  ASSUME NEW P, NEW D, Placed(P, D), NEW s, Good(s, P, D), NEW i \in Instances
  PROVE  /\ At(s.node, P, D, i) \in SUBSET TaskNodes
         /\ Sound(s.inst[i], s.node, At(s.node, P, D, i))
         /\ Ready(s.node, s.preempted, At(s.node, P, D, i))
         /\ Chained(s.node, At(s.node, P, D, i))
         /\ Running(s.inst[i], s.node) /\ Len(s.inst[i].batch) <= MaxBatchSize
         /\ \A r \in Requests :
              Prompt(r) \in At(s.node, P, D, i) /\ D[r] # i => D[r] \in Instances
<1> DEFINE at == At(s.node, P, D, i)
<1>1. at \in SUBSET TaskNodes /\ \A t \in at : s.node[t] \in Live
  BY DEF At
<1>2. s.node \in [Nodes -> NodeStates]
  BY DEF Good, StateType
<1>3. ASSUME NEW r \in Requests
      PROVE  /\ Prompt(r) \in at <=> s.node[Prompt(r)] \in Live /\ P[r] = i
             /\ Token(r) \in at <=> s.node[Token(r)] \in Live /\ D[r] = i
             /\ s.node[Prompt(r)] \in Live \cup {"NONE", "COMPLETED"}
             /\ Stage(s, r, P, D)
  BY <1>2, NodesOfRequests DEF At, Where, Live, NodeStates, Good
<1>4. ASSUME NEW r \in Requests, Token(r) \in at, s.node[Prompt(r)] # "COMPLETED"
      PROVE  Prompt(r) \in at /\ s.node[Token(r)] = "QUEUED" /\ s.preempted[Token(r)] = 0
  BY <1>3, <1>4 DEF Stage, Live
<1>5. Ready(s.node, s.preempted, at)
  BY <1>1, <1>4 DEF Ready, Live
<1>6. ASSUME NEW r \in Requests, Prompt(r) \in at, s.node[Token(r)] = "QUEUED"
      PROVE  Token(r) \in at
  BY <1>3, <1>6 DEF Stage, Live
<1>7. ASSUME NEW r \in Requests, Prompt(r) \in at, D[r] # i
      PROVE  D[r] \in Instances
  <2>1. P[r] \in Instances
    BY <1>3, <1>7
  <2> QED
    BY <2>1, PlacementAssumption DEF Placed, Placing
<1> QED
  BY <1>1, <1>5, <1>6, <1>7 DEF Good, Chained

(* Two instances have no task in common.                                   *)
LEMMA ApartTasks ==
  ASSUME NEW nd, NEW P, NEW D, NEW i, NEW j, i # j
  PROVE  \A t \in At(nd, P, D, j) : t \notin At(nd, P, D, i)
  BY DEF At

(* Nothing changes for the tasks of an instance.                           *)
LEMMA SoundElsewhere ==
  ASSUME NEW q, NEW nd, NEW nf, NEW at, Sound(q, nd, at), Running(q, nd),
         \A t \in at : nf[t] = nd[t]
  PROVE  Sound(q, nf, at) /\ Running(q, nf)
<1>1. ToSet(q.pending) \subseteq at /\ ToSet(q.batch) \subseteq at
  BY DEF Sound
<1>2. \A t \in ToSet(q.pending) : nf[t] = nd[t]
  BY <1>1
<1>3. ToSet(q.blocked) = {t \in ToSet(q.pending) : nf[t] = "BLOCKED"}
  BY <1>2 DEF Sound
<1>4. \A t \in ToSet(q.pending) : nf[t] \in {"QUEUED", "BLOCKED"}
  BY <1>2 DEF Sound
<1>5. Running(q, nf)
  BY <1>1 DEF Running
<1> QED
  BY <1>3, <1>4, <1>5 DEF Sound

(* Queues without doubles.                                                 *)
LEMMA SameLength ==
  ASSUME NEW T, NEW a \in Seq(T), NEW b \in Seq(T), IsInjective(a), IsInjective(b),
         ToSet(a) \subseteq ToSet(b)
  PROVE  Len(a) <= Len(b)
<1>1. /\ Len(a) = Cardinality(ToSet(a)) /\ IsFiniteSet(ToSet(a))
      /\ Len(b) = Cardinality(ToSet(b)) /\ IsFiniteSet(ToSet(b))
  BY LengthOfSet
<1> QED
  BY <1>1, FS_Subset

(* The handlers of an instance start no task and end none that has not     *)
(* been started.                                                           *)
SameNone(s, a) == \A t \in TaskNodes : a.node[t] = "NONE" <=> s.node[t] = "NONE"

(* A run begins.                                                           *)
LEMMA BegunGood ==
  ASSUME NEW P, NEW D, Placed(P, D), NEW s, Good(s, P, D), NEW i \in Instances,
         NEW a, NEW c, Chosen(s, i, At(s.node, P, D, i), c),
         Begun(s, a, i, At(s.node, P, D, i), c)
  PROVE  Good(a, P, D) /\ SameNone(s, a)
<1> DEFINE at == At(s.node, P, D, i)
           C == ToSet(c.batch)
           old == ToSet(s.inst[i].batch)
           e == Eligible(s.node, at)
<1>1. /\ at \in SUBSET TaskNodes /\ Sound(s.inst[i], s.node, at)
      /\ Ready(s.node, s.preempted, at) /\ Running(s.inst[i], s.node)
  BY GoodFacts
<1>2. /\ c.batch \in Seq(TaskNodes) /\ IsInjective(c.batch) /\ C \subseteq e
      /\ Len(c.batch) <= MaxBatchSize
  BY DEF Chosen, Choice, ChoiceType
<1>3. old \subseteq e /\ \A t \in old : s.node[t] = "RUNNING"
  <2>1. old \subseteq e
    BY <1>1, RunningIsEligible
  <2> QED
    BY <1>1, <2>1 DEF Running
<1>4. e \subseteq at
  BY DEF Eligible
<1>5. /\ a \in StateType /\ \A j \in Instances \ {i} : a.inst[j] = s.inst[j]
      /\ a.node = [n \in Nodes |-> IF n \in C THEN "RUNNING"
                                   ELSE IF n \in old THEN "BLOCKED" ELSE s.node[n]]
      /\ Sound(a.inst[i], a.node, at) /\ ToSet(a.inst[i].batch) = C
      /\ \A t \in TaskNodes : a.preempted[t] # s.preempted[t] => t \in e
  BY DEF Begun
<1> HIDE DEF C, old, e
<1>6. s \in StateType /\ s.node \in [Nodes -> NodeStates] /\ TaskNodes \subseteq Nodes
  BY DEF Good, StateType, Nodes
<1>7. /\ \A n \in Nodes : n \notin at => a.node[n] = s.node[n]
      /\ \A n \in at : n \in Nodes /\ s.node[n] \in Live /\ a.node[n] \in Live
      /\ \A n \in Nodes : n \notin e => a.node[n] = s.node[n]
  <2>1. \A n \in at : s.node[n] \in Live
    BY DEF At
  <2> HIDE DEF at
  <2>2. \A n \in at : n \in Nodes
    BY <1>1, <1>6
  <2> QED
    BY <1>2, <1>3, <1>4, <1>5, <2>1, <2>2 DEF Live
<1>8. \A j \in Instances : At(a.node, P, D, j) = At(s.node, P, D, j)
  <2>1. \A t \in TaskNodes : a.node[t] \in Live <=> s.node[t] \in Live
    BY <1>6, <1>7
  <2> QED
    BY <2>1 DEF At
<1>9. SameNone(s, a)
  <2>1. "NONE" \notin Live
    BY DEF Live
  <2> HIDE DEF at
  <2> QED
    BY <1>6, <1>7, <2>1 DEF SameNone
<1>10. ASSUME NEW j \in Instances
       PROVE  /\ Sound(a.inst[j], a.node, At(a.node, P, D, j))
              /\ Running(a.inst[j], a.node)
              /\ Len(a.inst[j].batch) <= MaxBatchSize
  <2>1. CASE j = i
    <3>1. Sound(a.inst[i], a.node, At(a.node, P, D, i))
      BY <1>5, <1>8
    <3>2. Running(a.inst[i], a.node)
      <4>1. C \subseteq Nodes
        BY <1>2, <1>4, <1>7
      <4> QED
        BY <1>5, <4>1 DEF Running
    <3>3. Len(a.inst[i].batch) <= MaxBatchSize
      <4>1. a.inst[i].batch \in Seq(TaskNodes) /\ IsInjective(a.inst[i].batch)
        BY <1>5, QueueFields DEF Sound
      <4>2. ToSet(a.inst[i].batch) \subseteq ToSet(c.batch)
        BY <1>5 DEF C
      <4>3. Len(a.inst[i].batch) <= Len(c.batch)
        BY <1>2, <4>1, <4>2, SameLength
      <4> QED
        BY <1>2, <4>1, <4>3, InstanceAssumption
    <3> QED
      BY <2>1, <3>1, <3>2, <3>3
  <2>2. CASE j # i
    <3>1. a.inst[j] = s.inst[j]
      BY <1>5, <2>2
    <3>2. \A t \in At(s.node, P, D, j) : a.node[t] = s.node[t]
      <4>1. \A t \in At(s.node, P, D, j) : t \notin at
        BY <2>2, ApartTasks
      <4>2. At(s.node, P, D, j) \subseteq Nodes
        BY <1>6 DEF At
      <4> HIDE DEF at
      <4> QED
        BY <1>7, <4>1, <4>2
    <3>3. Sound(s.inst[j], s.node, At(s.node, P, D, j)) /\ Running(s.inst[j], s.node)
          /\ Len(s.inst[j].batch) <= MaxBatchSize
      BY DEF Good
    <3>4. Sound(s.inst[j], a.node, At(s.node, P, D, j)) /\ Running(s.inst[j], a.node)
      BY <3>2, <3>3, SoundElsewhere
    <3> QED
      BY <1>8, <3>1, <3>3, <3>4
  <2> QED
    BY <2>1, <2>2
<1>11. ASSUME NEW r \in Requests
       PROVE  Stage(a, r, P, D)
  <2>1. /\ Prompt(r) \in TaskNodes /\ Token(r) \in TaskNodes /\ Flow(r) \in Nodes
        /\ Prompt(r) \in Nodes /\ Token(r) \in Nodes
        /\ Flow(r) \notin TaskNodes /\ ~ IsPrompt(Token(r)) /\ Token(r).req = r
    BY NodesOfRequests
  <2>2. Stage(s, r, P, D)
    BY DEF Good
  <2>3. a.node[Flow(r)] = s.node[Flow(r)]
    BY <1>1, <1>7, <2>1
  <2>4. /\ a.node[Prompt(r)] = "NONE" <=> s.node[Prompt(r)] = "NONE"
        /\ a.node[Token(r)] = "NONE" <=> s.node[Token(r)] = "NONE"
    BY <1>9, <2>1 DEF SameNone
  <2>5. a.node[Prompt(r)] # "COMPLETED" => s.node[Prompt(r)] # "COMPLETED"
    BY <1>7, <2>1 DEF Live
  <2>6. s.node[Prompt(r)] # "COMPLETED" => Token(r) \notin e
    BY <2>1 DEF e, Eligible
  <2>7. Token(r) \notin e =>
          a.node[Token(r)] = s.node[Token(r)] /\ a.preempted[Token(r)] = s.preempted[Token(r)]
    BY <1>5, <1>7, <2>1
  <2> HIDE DEF at
  <2> QED
    BY <2>2, <2>3, <2>4, <2>5, <2>6, <2>7 DEF Stage
<1> QED
  BY <1>5, <1>9, <1>10, <1>11 DEF Good

(* A run ends.                                                             *)
LEMMA EndedGood ==
  ASSUME NEW P, NEW D, Placed(P, D), NEW s, Good(s, P, D), NEW i \in Instances,
         NEW a, Ended(s, a, i, At(s.node, P, D, i), D)
  PROVE  Good(a, P, D) /\ SameNone(s, a)
<1> DEFINE at == At(s.node, P, D, i)
           done == EndingNow(s, i)
           old == ToSet(s.inst[i].batch)
<1>1. /\ at \in SUBSET TaskNodes /\ Sound(s.inst[i], s.node, at)
      /\ Ready(s.node, s.preempted, at) /\ Running(s.inst[i], s.node)
      /\ Len(s.inst[i].batch) <= MaxBatchSize
  BY GoodFacts
<1>2. /\ done \subseteq old /\ old \subseteq at /\ \A t \in old : s.node[t] = "RUNNING"
  BY <1>1 DEF EndingNow, Sound, Running
<1>3. /\ a \in StateType /\ \A j \in Instances \ {i} : a.inst[j] = s.inst[j]
      /\ Sound(a.inst[i], a.node, at \ done) /\ ToSet(a.inst[i].batch) = old \ done
      /\ \A n \in TaskNodes : a.node[n] = IF n \in done THEN "COMPLETED" ELSE s.node[n]
      /\ \A r \in Requests : Settled(s, a, i, r, D, done)
      /\ a.preempted = s.preempted
  BY DEF Ended
<1> HIDE DEF done, old
<1>4. At(a.node, P, D, i) = at \ done
  <2>1. \A t \in TaskNodes : a.node[t] \in Live <=> s.node[t] \in Live /\ t \notin done
    BY <1>3 DEF Live
  <2> QED
    BY <2>1 DEF At
<1>5. ASSUME NEW j \in Instances, j # i
      PROVE  /\ At(a.node, P, D, j) = At(s.node, P, D, j)
             /\ \A t \in At(s.node, P, D, j) : a.node[t] = s.node[t]
  <2>1. \A t \in At(s.node, P, D, j) : t \notin at
    BY <1>5, ApartTasks
  <2>2. \A t \in done : Where(P, D, t) = i
    BY <1>2 DEF At
  <2>3. \A t \in At(s.node, P, D, j) : t \notin done /\ t \in TaskNodes
    BY <1>2, <2>1 DEF At
  <2>4. \A t \in At(s.node, P, D, j) : a.node[t] = s.node[t]
    BY <1>3, <2>3
  <2>5. \A t \in TaskNodes : a.node[t] \in Live <=> s.node[t] \in Live /\ t \notin done
    BY <1>3 DEF Live
  <2>6. At(a.node, P, D, j) = At(s.node, P, D, j)
    BY <1>5, <2>2, <2>5 DEF At
  <2> QED
    BY <2>4, <2>6
<1>6. SameNone(s, a)
  BY <1>1, <1>2, <1>3 DEF SameNone
<1>7. ASSUME NEW j \in Instances
      PROVE  /\ Sound(a.inst[j], a.node, At(a.node, P, D, j))
             /\ Running(a.inst[j], a.node)
             /\ Len(a.inst[j].batch) <= MaxBatchSize
  <2>1. CASE j = i
    <3>1. Sound(a.inst[i], a.node, At(a.node, P, D, i))
      BY <1>3, <1>4
    <3>2. Running(a.inst[i], a.node)
      BY <1>1, <1>2, <1>3 DEF Running
    <3>3. Len(a.inst[i].batch) <= MaxBatchSize
      <4> DEFINE x == a.inst[i].batch
                 y == s.inst[i].batch
      <4>1. s \in StateType
        BY DEF Good
      <4>2. x \in Seq(TaskNodes) /\ y \in Seq(TaskNodes) /\ IsInjective(x) /\ IsInjective(y)
        BY <1>1, <1>3, <4>1, QueueFields DEF Sound
      <4>3. ToSet(x) \subseteq ToSet(y) /\ Len(y) <= MaxBatchSize
        BY <1>1, <1>3 DEF old
      <4> HIDE DEF x, y
      <4>4. Len(x) <= Len(y)
        BY <4>2, <4>3, SameLength
      <4>5. Len(x) <= MaxBatchSize
        BY <4>2, <4>3, <4>4, InstanceAssumption
      <4> QED
        BY <4>5 DEF x
    <3> QED
      BY <2>1, <3>1, <3>2, <3>3
  <2>2. CASE j # i
    <3>1. a.inst[j] = s.inst[j]
      BY <1>3, <2>2
    <3>2. Sound(s.inst[j], s.node, At(s.node, P, D, j)) /\ Running(s.inst[j], s.node)
          /\ Len(s.inst[j].batch) <= MaxBatchSize
      BY DEF Good
    <3>3. Sound(s.inst[j], a.node, At(s.node, P, D, j)) /\ Running(s.inst[j], a.node)
      BY <1>5, <2>2, <3>2, SoundElsewhere
    <3> QED
      BY <1>5, <2>2, <3>1, <3>2, <3>3
  <2> QED
    BY <2>1, <2>2
<1>8. ASSUME NEW r \in Requests
      PROVE  Stage(a, r, P, D)
  <2>1. /\ Prompt(r) \in TaskNodes /\ Token(r) \in TaskNodes
        /\ IsPrompt(Prompt(r)) /\ Prompt(r).req = r /\ ~ IsPrompt(Token(r))
        /\ Token(r).req = r
    BY NodesOfRequests
  <2>2. Stage(s, r, P, D)
    BY DEF Good
  <2>3. /\ a.node[Prompt(r)] = "NONE" <=> s.node[Prompt(r)] = "NONE"
        /\ a.node[Token(r)] = "NONE" <=> s.node[Token(r)] = "NONE"
    BY <1>6, <2>1 DEF SameNone
  <2>4. Settled(s, a, i, r, D, done)
    BY <1>3
  <2>5. CASE Prompt(r) \in done
    <3>1. a.node[Prompt(r)] = "COMPLETED" /\ P[r] = i /\ s.node[Prompt(r)] = "RUNNING"
      BY <1>2, <1>3, <2>1, <2>5 DEF At, Where
    <3>2. s.node[Flow(r)] = "NONE"
      BY <2>2, <3>1 DEF Stage
    <3>3. a.node[Flow(r)] # "NONE" => P[r] # D[r]
      BY <2>4, <2>5, <3>1, <3>2 DEF Settled, SameCache
    <3> HIDE DEF at
    <3> QED
      BY <2>2, <2>3, <3>1, <3>2, <3>3 DEF Stage
  <2>6. CASE Prompt(r) \notin done
    <3>1. a.node[Flow(r)] = s.node[Flow(r)] /\ a.node[Prompt(r)] = s.node[Prompt(r)]
      BY <1>3, <2>1, <2>4, <2>6 DEF Settled, SameCache, Freed
    <3>2. Token(r) \in done => s.node[Prompt(r)] = "COMPLETED"
      <4>1. ASSUME Token(r) \in done
            PROVE  s.node[Prompt(r)] = "COMPLETED"
        <5>1. Token(r) \in ToSet(s.inst[i].batch)
          BY <1>2, <4>1 DEF old
        <5>2. s.node[Prompt(Token(r).req)] = "COMPLETED"
          <6> HIDE DEF at
          <6> QED
            BY <1>1, <2>1, <5>1, PromptIsOver
        <5> QED
          BY <2>1, <5>2
      <4> QED
        BY <4>1
    <3>3. s.node[Prompt(r)] # "COMPLETED" => a.node[Token(r)] = s.node[Token(r)]
      BY <1>3, <2>1, <3>2
    <3> HIDE DEF at
    <3> QED
      BY <1>3, <2>2, <2>3, <3>1, <3>3 DEF Stage
  <2> QED
    BY <2>5, <2>6
<1> QED
  BY <1>3, <1>6, <1>7, <1>8 DEF Good

(* The runs of zero iterations.                                            *)
Nesting == INSTANCE LoopLaws WITH
  Op <- LAMBDA i, dest, a, k : NestedRun(a, i, dest)

(* The nested runs are a loop.                                             *)
LEMMA NestedRunsIsLoop ==
  ASSUME NEW s, NEW i, NEW dest
  PROVE  NestedRuns(s, i, dest)
           = Nesting!Loop(i, dest, s, [k \in 1 .. Cardinality(Requests) |-> k])
  BY DEF NestedRuns, FoldLeft, MapThenFoldSet, Max, Nesting!Loop,
         Nesting!MapThenFoldSet, Nesting!Max

(* The beginning of a run leads from G to H, the end of a run of zero      *)
(* iterations back to G, and the handle of the first run to K: this is     *)
(* where start_iteration leads.                                            *)
LEMMA StartIterationLaw ==
  ASSUME NEW i, NEW dest, NEW G, NEW H,
         \A a \in G : BeginRun(a, i) \in H,
         \A a \in H : ZeroRun(a, i) => EndRun(a, i, dest) \in G,
         NEW K, \A a \in H : a.inst[i].batch = <<>> => a \in K,
         \A a \in H, b \in H : [a EXCEPT !.inst[i].handle = ~ ZeroRun(b, i)] \in K
  PROVE  \A a \in G : StartIteration(a, i, dest) \in K
<1> SUFFICES ASSUME NEW s \in G
             PROVE  StartIteration(s, i, dest) \in K
  OBVIOUS
<1> DEFINE b == BeginRun(s, i)
           n == Cardinality(Requests)
           seq == [k \in 1 .. n |-> k]
           J == [k \in 0 .. n |-> H]
           z == NestedRuns(b, i, dest)
<1>1. b \in H
  OBVIOUS
<1>2. n \in Nat
  BY TraceAssumption, FS_CardinalityType
<1> HIDE DEF n, b
<1>3. seq \in Seq(Nat) /\ Len(seq) = n
  BY <1>2
<1> HIDE DEF seq
<1>4. b \in J[0]
  BY <1>1, <1>2
<1>5. ASSUME NEW k \in 1 .. Len(seq), NEW a \in J[k - 1]
      PROVE  NestedRun(a, i, dest) \in J[k]
  <2>1. k - 1 \in 0 .. n /\ k \in 0 .. n
    BY <1>2, <1>3
  <2>2. a \in H
    BY <2>1
  <2>3. NestedRun(a, i, dest) \in H
    BY <2>2 DEF NestedRun
  <2> QED
    BY <2>1, <2>3
<1> HIDE DEF J
<1>6. Nesting!Loop(i, dest, b, seq) \in J[Len(seq)]
  BY <1>3, <1>4, <1>5, Induction, Nesting!LoopInvariant
<1>7. z = Nesting!Loop(i, dest, b, seq)
  BY NestedRunsIsLoop DEF seq, n
<1>8. z \in H
  BY <1>2, <1>3, <1>6, <1>7 DEF J
<1> HIDE DEF z
<1>9. StartIteration(s, i, dest)
        = IF b.inst[i].batch = <<>> THEN b
          ELSE [z EXCEPT !.inst[i].handle = ~ ZeroRun(b, i)]
  BY DEF StartIteration, ScheduleCompletion, b, z
<1> QED
  BY <1>1, <1>8, <1>9

(* The handle of the completion event.                                     *)
LEMMA HandleLaw ==
  ASSUME NEW s \in StateType, NEW i \in Instances, NEW x \in BOOLEAN
  PROVE  LET a == [s EXCEPT !.inst[i].handle = x]
             q == s.inst[i]
             u == a.inst[i]
         IN /\ a \in StateType /\ a.node = s.node /\ Beside(s, a, i)
            /\ u.pending = q.pending /\ u.prompts = q.prompts /\ u.blocked = q.blocked
            /\ u.pool = q.pool /\ u.batch = q.batch /\ u.batchTokens = q.batchTokens
            /\ u.iterations = q.iterations /\ u.elapsed = q.elapsed
            /\ u.pausing = q.pausing /\ u.handle = x
<1> DEFINE q == s.inst[i]
           u == [q EXCEPT !.handle = x]
           a == WithQueue(s, i, u)
<1>1. [s EXCEPT !.inst[i].handle = x] = a
  BY DEF WithQueue, StateType
<1>2. /\ u \in QueueType
      /\ u.pending = q.pending /\ u.prompts = q.prompts /\ u.blocked = q.blocked
      /\ u.pool = q.pool /\ u.batch = q.batch /\ u.batchTokens = q.batchTokens
      /\ u.iterations = q.iterations /\ u.elapsed = q.elapsed
      /\ u.pausing = q.pausing /\ u.handle = x
  <2>1. q \in QueueType
    BY QueueFields
  <2> HIDE DEF q
  <2> QED
    BY <2>1 DEF QueueType
<1> HIDE DEF u
<1>3. a \in StateType /\ a.inst[i] = u /\ a.node = s.node /\ Beside(s, a, i)
  BY <1>2, BesideWithQueue
<1> HIDE DEF a
<1> QED
  BY <1>1, <1>2, <1>3

(* Only the course of the run of i changes.                                *)
SameQueues(q, u) ==
  /\ u.pending = q.pending /\ u.prompts = q.prompts /\ u.blocked = q.blocked
  /\ u.pool = q.pool /\ u.batch = q.batch /\ u.batchTokens = q.batchTokens

(* The queues are sound when only the course of a run changes.             *)
LEMMA CourseGood ==
  ASSUME NEW P, NEW D, NEW s, Good(s, P, D), NEW i \in Instances,
         NEW a \in StateType, a.node = s.node, a.preempted = s.preempted,
         \A j \in Instances \ {i} : a.inst[j] = s.inst[j],
         SameQueues(s.inst[i], a.inst[i])
  PROVE  Good(a, P, D) /\ SameNone(s, a)
<1>1. ASSUME NEW j \in Instances
      PROVE  /\ Sound(a.inst[j], a.node, At(a.node, P, D, j))
             /\ Running(a.inst[j], a.node) /\ Len(a.inst[j].batch) <= MaxBatchSize
  <2>1. /\ Sound(s.inst[j], s.node, At(s.node, P, D, j))
        /\ Running(s.inst[j], s.node) /\ Len(s.inst[j].batch) <= MaxBatchSize
    BY DEF Good
  <2>2. CASE j # i
    BY <2>1, <2>2
  <2>3. CASE j = i
    BY <2>1, <2>3 DEF Sound, Running, SameQueues
  <2> QED
    BY <2>2, <2>3
<1>2. \A r \in Requests : Stage(a, r, P, D)
  BY DEF Good, Stage
<1> QED
  BY <1>1, <1>2 DEF Good, SameNone

(* The weights fit into the memory of an instance.                         *)
Roomy == ModelSize <= MaxMemory

(* No event at the very time at which a run ends, no request of one token. *)
Punctual == ~ LateEvents /\ \A x \in Shapes : x.token >= 2

(* The run of j keeps its limits and overshoots no task.                   *)
Course(s, j) ==
  LET q == s.inst[j]
  IN /\ \A t \in ToSet(q.batch) : IsPrompt(t) => q.iterations = 1
     /\ q.batch # <<>> /\ j \notin Orca =>
          /\ q.batchTokens = SumFunctionOnSet(TokensOf, ToSet(q.batch))
          /\ q.batchTokens <= MaxBatchTokens \/ Len(q.batch) = 1
     /\ Punctual => \A t \in ToSet(q.batch) :
          /\ q.iterations >= 1 /\ q.elapsed >= 0 /\ q.elapsed <= q.iterations - 1
          /\ s.generated[t] + q.iterations <= TokensToGenerate(t)

Idle(s) == {t \in TaskNodes : s.node[t] = "NONE"}

(* The inductive invariant of all handlers.  The runs of the instances I   *)
(* have begun as they should, those of J have their completion event; the  *)
(* batches were B when the action began.                                   *)
Regular(s, P, D, B, N, I, J) ==
  /\ Good(s, P, D) /\ Idle(s) = N
  /\ \A j \in I : Course(s, j)
  /\ \A j \in Orca : FirstCome(B[j], s.inst[j].batch, s.inst[j].pool)
  /\ Roomy => WithinMemory(s) = Instances
  /\ Punctual =>
       /\ \A t \in TaskNodes : s.node[t] # "COMPLETED" => s.generated[t] < TokensToGenerate(t)
       /\ \A j \in J : s.inst[j].batch # <<>> => s.inst[j].handle
       /\ ~ s.crashed

(* The memory the requests take is the memory of their tasks.              *)
LEMMA TakenSum ==
  ASSUME trace \in [Requests -> Shapes], NEW nd, NEW C \in SUBSET TaskNodes, IsFiniteSet(C)
  PROVE  SumFunctionOnSet([r \in Requests |-> Taken(nd, C, r)], Requests)
           = SumFunctionOnSet(NewMemory(nd), C)
<1> DEFINE f(T) == [r \in Requests |-> Taken(nd, T, r)]
           Equal(T) == SumFunctionOnSet(f(T), Requests) = SumFunctionOnSet(NewMemory(nd), T)
           G == {T \in SUBSET C : Equal(T)}
<1>1. {} \in G
  <2>1. \A r \in Requests : f({})[r] = 0
    BY DEF Taken
  <2>2. SumFunctionOnSet(f({}), Requests) = 0
    <3> DEFINE h == f({})
    <3>1. \A r \in Requests : h[r] = 0
      BY <2>1
    <3> HIDE DEF h
    <3>2. SumFunctionOnSet(h, Requests) = 0
      BY <3>1, TraceAssumption, SumZero
    <3> QED
      BY <3>2 DEF h
  <2> HIDE DEF f
  <2> QED
    BY <2>2, SumEmpty
<1>2. ASSUME NEW T \in G, NEW t \in C \ T
      PROVE  T \cup {t} \in G
  <2> DEFINE U == T \cup {t}
             g == f(T)
             h == f(U)
             m == IF nd[t] = "QUEUED" THEN TaskMemory(t) ELSE 0
  <2>1. /\ t \in TaskNodes /\ t.req \in Requests
        /\ T \in SUBSET TaskNodes /\ IsFiniteSet(T) /\ U \in SUBSET C
        /\ Equal(T)
    BY TaskParts, FS_Subset
  <2>2. \A r \in Requests : g[r] \in Int /\ h[r] \in Int
    BY TakenIsNumber
  <2>3. \A r \in Requests \ {t.req} : g[r] = h[r]
    <3>1. \A r \in Requests \ {t.req} : t # Prompt(r) /\ t # Token(r)
      BY NodesOfRequests
    <3>2. \A r \in Requests \ {t.req} : Taken(nd, U, r) = Taken(nd, T, r)
      BY <3>1 DEF Taken
    <3> QED
      BY <3>2
  <2>4. h[t.req] = g[t.req] + m
    <3> DEFINE r == t.req
    <3>1. r \in Requests /\ (t = Prompt(r) \/ t = Token(r)) /\ Prompt(r) # Token(r)
          /\ Prompt(r).req = r /\ Token(r).req = r
          /\ IsPrompt(Prompt(r)) /\ ~ IsPrompt(Token(r))
      BY <2>1, TaskParts, NodesOfRequests
    <3>2. TaskMemory(Prompt(r)) = PromptMemory(r) /\ TaskMemory(Token(r)) = TokenMemory(r)
      BY <3>1 DEF TaskMemory
    <3>3. PromptMemory(r) \in Nat /\ TokenMemory(r) \in Nat
      <4>1. Prompt(r) \in TaskNodes /\ Token(r) \in TaskNodes
        BY <3>1, NodesOfRequests
      <4> HIDE DEF r
      <4>2. TaskMemory(Prompt(r)) \in Nat /\ TaskMemory(Token(r)) \in Nat
        BY <4>1, SizesAreNumbers
      <4> QED
        BY <3>2, <4>2
    <3>4. Taken(nd, U, r) = Taken(nd, T, r) + m
      <4> HIDE DEF r, G
      <4>1. t \notin T
        OBVIOUS
      <4>2. CASE t = Prompt(r)
        <5>1. Prompt(r) \in U /\ Prompt(r) \notin T /\ (Token(r) \in U <=> Token(r) \in T)
          BY <3>1, <4>1, <4>2
        <5> HIDE DEF U
        <5>2. m = IF nd[Prompt(r)] = "QUEUED" THEN PromptMemory(r) ELSE 0
          BY <3>2, <4>2
        <5> HIDE DEF m
        <5> QED
          BY <3>3, <5>1, <5>2 DEF Taken
      <4>3. CASE t = Token(r)
        <5>1. Token(r) \in U /\ Token(r) \notin T /\ (Prompt(r) \in U <=> Prompt(r) \in T)
          BY <3>1, <4>1, <4>3
        <5> HIDE DEF U
        <5>2. m = IF nd[Token(r)] = "QUEUED" THEN TokenMemory(r) ELSE 0
          BY <3>2, <4>3
        <5> HIDE DEF m
        <5> QED
          BY <3>3, <5>1, <5>2 DEF Taken
      <4> QED
        BY <3>1, <4>2, <4>3
    <3> QED
      BY <3>1, <3>4
  <2>5. SumFunctionOnSet(NewMemory(nd), U) = SumFunctionOnSet(NewMemory(nd), T) + m
        /\ SumFunctionOnSet(NewMemory(nd), T) \in Nat
    BY <2>1, SumsOfOneMore, SumsAreNumbers
  <2>6. Equal(T)
    OBVIOUS
  <2>7. SumFunctionOnSet(g, Requests) = SumFunctionOnSet(NewMemory(nd), T)
    BY <2>6
  <2> HIDE DEF g, h, m, G, Equal
  <2> DEFINE mg == SumFunctionOnSet(g, Requests)
             mh == SumFunctionOnSet(h, Requests)
             e == t.req
  <2>8. mh = mg + (h[e] - g[e])
    <3> HIDE DEF mg, mh, e
    <3>1. e \in Requests /\ \A r \in Requests \ {e} : g[r] = h[r]
      BY <2>1, <2>3 DEF e
    <3> QED
      BY <2>2, <3>1, TraceAssumption, SumChange DEF mg, mh
  <2>9. g[e] \in Int /\ h[e] \in Int /\ m \in Int
    <3>1. m \in Int
      BY <2>1, SizesAreNumbers DEF m
    <3> QED
      BY <2>1, <2>2, <3>1
  <2>10. mh = SumFunctionOnSet(NewMemory(nd), U)
    <3> HIDE DEF mg, mh
    <3>1. mg = SumFunctionOnSet(NewMemory(nd), T) /\ mg \in Nat
      BY <2>5, <2>7 DEF mg
    <3> QED
      BY <2>4, <2>5, <2>8, <2>9, <3>1
  <2>11. Equal(U)
    BY <2>10 DEF Equal, h
  <2> QED
    BY <2>1, <2>11 DEF G
<1> HIDE DEF Equal
<1>3. G \in SUBSET SUBSET C
  OBVIOUS
<1> HIDE DEF G
<1>4. C \in G
  BY <1>1, <1>2, <1>3, SubsetInduction
<1> QED
  BY <1>4 DEF G, Equal

(* The memory in use when a run begins.                                    *)
LEMMA BegunMemory ==
  ASSUME trace \in [Requests -> Shapes], NEW s \in StateType, NEW i \in Instances,
         NEW at \in SUBSET TaskNodes, NEW a, NEW c,
         Chosen(s, i, at, c), Begun(s, a, i, at, c)
  PROVE  /\ UsedMemory(s, i) <= MaxMemory => UsedMemory(a, i) <= MaxMemory
         /\ \A j \in Instances \ {i} : UsedMemory(a, j) = UsedMemory(s, j)
<1> DEFINE C == ToSet(c.batch)
           f == s.alloc[i]
           h == [r \in Requests |-> Taken(s.node, C, r)]
           g == [r \in Requests |-> f[r] + Taken(s.node, C, r)]
<1>1. /\ c.batch \in Seq(TaskNodes) /\ IsInjective(c.batch) /\ c.used \in Int
      /\ c.used >= UsedMemory(s, i) + SumFunctionOnSet(NewMemory(s.node), C)
      /\ c.used = UsedMemory(s, i) \/ c.used <= MaxMemory
  BY DEF Chosen, Choice, ChoiceType
<1>2. C \in SUBSET TaskNodes /\ IsFiniteSet(C)
  BY <1>1, LengthOfSet, ElementsAreTasks
<1>3. a \in StateType /\ a.alloc = [s.alloc EXCEPT ![i] = g]
  BY DEF Begun
<1>4. s.alloc \in [Instances -> [Requests -> Int]]
  BY DEF StateType
<1>5. \A r \in Requests : f[r] \in Int /\ h[r] \in Int /\ g[r] = f[r] + h[r]
  <2>1. f \in [Requests -> Int]
    BY <1>4
  <2> HIDE DEF f, C
  <2>2. \A r \in Requests : Taken(s.node, C, r) \in Nat
    BY TakenIsNumber
  <2> QED
    BY <2>1, <2>2
<1>6. SumFunctionOnSet(h, Requests) = SumFunctionOnSet(NewMemory(s.node), C)
  <2> HIDE DEF C
  <2> QED
    BY <1>2, TakenSum
<1>7. SumFunctionOnSet(NewMemory(s.node), C) \in Nat
  BY <1>2, SumsAreNumbers
<1>8. a.alloc[i] = g /\ \A j \in Instances \ {i} : a.alloc[j] = s.alloc[j]
  BY <1>3, <1>4
<1> HIDE DEF C, f, g, h
<1> DEFINE mf == SumFunctionOnSet(f, Requests)
           mg == SumFunctionOnSet(g, Requests)
           mn == SumFunctionOnSet(NewMemory(s.node), C)
<1>9. mg = mf + mn
  <2>1. SumFunctionOnSet(g, Requests)
          = SumFunctionOnSet(f, Requests) + SumFunctionOnSet(h, Requests)
    BY <1>5, TraceAssumption, SumPlus
  <2> QED
    BY <1>6, <2>1
<1>10. /\ UsedMemory(s, i) = ModelSize + mf /\ mf \in Int
       /\ UsedMemory(a, i) = ModelSize + mg
  BY <1>3, <1>8, UsedMemorySum DEF f
<1> HIDE DEF mf, mg, mn
<1>11. UsedMemory(a, i) <= c.used
  <2>1. mn \in Nat /\ c.used >= UsedMemory(s, i) + mn
    BY <1>1, <1>7 DEF mn
  <2> QED
    BY <1>1, <1>9, <1>10, <2>1, InstanceAssumption
<1>12. UsedMemory(a, i) \in Int
  BY <1>3, UsedMemorySum
<1>13. UsedMemory(s, i) <= MaxMemory => UsedMemory(a, i) <= MaxMemory
  BY <1>1, <1>11, <1>12, InstanceAssumption
<1>14. \A j \in Instances \ {i} : UsedMemory(a, j) = UsedMemory(s, j)
  BY <1>8 DEF UsedMemory
<1> QED
  BY <1>13, <1>14

(* The run that begins.                                                    *)
LEMMA BegunCourse ==
  ASSUME trace \in [Requests -> Shapes], NEW s \in StateType, NEW i \in Instances,
         NEW at \in SUBSET TaskNodes, NEW a, NEW c,
         Chosen(s, i, at, c), Begun(s, a, i, at, c),
         Punctual => \A t \in at : s.generated[t] < TokensToGenerate(t)
  PROVE  Course(a, i)
<1> DEFINE q == a.inst[i]
           n == ContiguousIterations(s, q.batch)
<1>1. /\ c.batch \in Seq(TaskNodes) /\ IsInjective(c.batch)
      /\ ToSet(c.batch) \subseteq at
      /\ i \notin Orca =>
           /\ c.tokens = SumFunctionOnSet(TokensOf, ToSet(c.batch))
           /\ c.tokens <= MaxBatchTokens \/ Len(c.batch) <= 1
  BY DEF Chosen, Choice, ChoiceType, Eligible
<1>2. /\ a \in StateType /\ IsInjective(q.batch) /\ ToSet(q.batch) = ToSet(c.batch)
      /\ q.batchTokens = c.tokens /\ a.generated = s.generated
      /\ ToSet(q.batch) # {} => q.iterations = n /\ q.elapsed = 0
  BY DEF Begun, Sound
<1>3. q.batch \in Seq(TaskNodes)
  BY <1>2, QueueFields
<1> HIDE DEF q
<1>4. q.batch # <<>> => ToSet(q.batch) # {}
  <2>1. ASSUME q.batch # <<>>
        PROVE  ToSet(q.batch) # {}
    <3>1. 1 \in DOMAIN q.batch
      BY <1>3, <2>1
    <3> QED
      BY <3>1 DEF ToSet
  <2> QED
    BY <2>1
<1>5. ASSUME ToSet(q.batch) # {}
      PROVE  /\ n \in Int /\ \A t \in ToSet(q.batch) : IsPrompt(t) => n = 1
             /\ \/ n = 1
                \/ /\ \E t \in ToSet(q.batch) : n = TokensToGenerate(t) - s.generated[t]
                   /\ \A t \in ToSet(q.batch) : n <= TokensToGenerate(t) - s.generated[t]
  BY <1>3, <1>5, IterationsLaw
<1> HIDE DEF n
<1>6. \A t \in ToSet(q.batch) : t \in at /\ t \in TaskNodes /\ s.generated[t] \in Int
        /\ TokensToGenerate(t) \in Nat
  <2>1. s.generated \in [TaskNodes -> Int]
    BY DEF StateType
  <2> QED
    BY <1>1, <1>2, <2>1, SizesAreNumbers
<1>7. \A t \in ToSet(q.batch) : IsPrompt(t) => q.iterations = 1
  BY <1>2, <1>5
<1>8. ASSUME q.batch # <<>>, i \notin Orca
      PROVE  /\ q.batchTokens = SumFunctionOnSet(TokensOf, ToSet(q.batch))
             /\ q.batchTokens <= MaxBatchTokens \/ Len(q.batch) = 1
  <2>1. /\ Len(q.batch) = Cardinality(ToSet(q.batch))
        /\ Len(c.batch) = Cardinality(ToSet(c.batch))
    BY <1>1, <1>2, <1>3, LengthOfSet
  <2>2. Len(q.batch) = Len(c.batch)
    BY <1>2, <2>1
  <2>3. Len(q.batch) \in Nat /\ Len(q.batch) # 0
    BY <1>3, <1>8
  <2>4. Len(c.batch) <= 1 => Len(q.batch) = 1
    <3> DEFINE k == Len(q.batch)
    <3>1. k \in Nat /\ k # 0 /\ Len(c.batch) = k
      BY <2>2, <2>3
    <3> HIDE DEF k
    <3>2. k <= 1 => k = 1
      BY <3>1
    <3> QED
      BY <3>1, <3>2 DEF k
  <2> QED
    BY <1>1, <1>2, <1>8, <2>4
<1>9. ASSUME Punctual, NEW t \in ToSet(q.batch)
      PROVE  /\ q.iterations >= 1 /\ q.elapsed >= 0 /\ q.elapsed <= q.iterations - 1
             /\ a.generated[t] + q.iterations <= TokensToGenerate(t)
  <2>1. q.iterations = n /\ q.elapsed = 0 /\ ToSet(q.batch) # {}
    BY <1>2
  <2>2. \A u \in ToSet(q.batch) : TokensToGenerate(u) - s.generated[u] >= 1
    <3>1. ASSUME NEW u \in ToSet(q.batch)
          PROVE  TokensToGenerate(u) - s.generated[u] >= 1
      <4>1. s.generated[u] < TokensToGenerate(u)
        BY <1>6, <1>9
      <4> QED
        BY <1>6, <4>1
    <3> QED
      BY <3>1
  <2>3. n >= 1 /\ n \in Int /\ n <= TokensToGenerate(t) - s.generated[t]
    BY <1>5, <2>1, <2>2
  <2>4. s.generated[t] + n <= TokensToGenerate(t)
    BY <1>6, <2>3
  <2> QED
    BY <1>2, <2>1, <2>3, <2>4
<1>10. Course(a, i)
  BY <1>7, <1>8, <1>9 DEF Course, q
<1> QED
  BY <1>10

(* A course depends on the run and on the tokens of its tasks.             *)
LEMMA CourseElsewhere ==
  ASSUME NEW s, NEW a, NEW j, Course(s, j), a.inst[j] = s.inst[j],
         \A t \in ToSet(s.inst[j].batch) : a.generated[t] = s.generated[t]
  PROVE  Course(a, j)
  BY DEF Course

(* First come, first served, when tasks join a batch that was extended.    *)
LEMMA FirstComeTwice ==
  ASSUME NEW old, NEW b, NEW batch, NEW pool, NEW wide,
         FirstCome(old, b, wide), FirstCome(ToSet(b), batch, pool),
         ToSet(b) \subseteq ToSet(batch), ToSet(pool) \subseteq ToSet(wide)
  PROVE  FirstCome(old, batch, pool)
<1> SUFFICES ASSUME NEW t \in ToSet(batch) \ old, NEW r \in ToSet(pool), r < t.req
             PROVE  r \in RequestsOf(ToSet(batch))
  BY DEF FirstCome
<1>1. CASE t \in ToSet(b)
  <2>1. r \in RequestsOf(ToSet(b))
    BY <1>1 DEF FirstCome
  <2> QED
    BY <2>1 DEF RequestsOf
<1>2. CASE t \notin ToSet(b)
  BY <1>2 DEF FirstCome
<1> QED
  BY <1>1, <1>2

(* A run begins.                                                           *)
LEMMA BegunRegular ==
  ASSUME trace \in [Requests -> Shapes], NEW P, NEW D, Placed(P, D), NEW B, NEW N,
         NEW i \in Instances, NEW s,
         Regular(s, P, D, B, N, Instances \ {i}, Instances \ {i})
  PROVE  Regular(BeginRun(s, i), P, D, B, N, Instances, Instances \ {i})
<1> DEFINE at == At(s.node, P, D, i)
           a == BeginRun(s, i)
<1>1. /\ s \in StateType /\ Good(s, P, D) /\ at \in SUBSET TaskNodes
      /\ Sound(s.inst[i], s.node, at) /\ Ready(s.node, s.preempted, at)
      /\ Running(s.inst[i], s.node) /\ Len(s.inst[i].batch) <= MaxBatchSize
  BY GoodFacts DEF Regular, Good
<1>2. PICK c \in ChoiceType : Chosen(s, i, at, c) /\ Begun(s, a, i, at, c)
  <2> HIDE DEF at
  <2> QED
    BY <1>1, BeginRunLaw
<1> HIDE DEF a
<1>3. Good(a, P, D) /\ SameNone(s, a)
  BY <1>1, <1>2, BegunGood
<1>4. Idle(a) = N
  BY <1>3 DEF SameNone, Idle, Regular
<1>5. \A t \in at : s.node[t] # "COMPLETED"
  BY DEF At, Live
<1>6. Course(a, i)
  <2>1. Punctual => \A t \in at : s.generated[t] < TokensToGenerate(t)
    BY <1>1, <1>5 DEF Regular
  <2> HIDE DEF at
  <2> QED
    BY <1>1, <1>2, <2>1, BegunCourse
<1>7. /\ \A j \in Instances \ {i} : a.inst[j] = s.inst[j]
      /\ a.generated = s.generated /\ a.crashed = s.crashed
      /\ a.inst[i].pool = s.inst[i].pool
      /\ ToSet(a.inst[i].batch) = ToSet(c.batch)
      /\ a.node = [n \in Nodes |-> IF n \in ToSet(c.batch) THEN "RUNNING"
                               ELSE IF n \in ToSet(s.inst[i].batch) THEN "BLOCKED"
                               ELSE s.node[n]]
  BY <1>2 DEF Begun
<1>8. \A j \in Instances : Course(a, j)
  <2>1. ASSUME NEW j \in Instances, j # i
        PROVE  Course(a, j)
    <3>1. Course(s, j)
      BY <2>1 DEF Regular
    <3> QED
      BY <1>7, <2>1, <3>1, CourseElsewhere
  <2> QED
    BY <1>6, <2>1
<1>9. ASSUME NEW j \in Orca
      PROVE  FirstCome(B[j], a.inst[j].batch, a.inst[j].pool)
  <2>1. FirstCome(B[j], s.inst[j].batch, s.inst[j].pool)
    BY DEF Regular
  <2>2. CASE j # i
    <3>1. j \in Instances
      BY InstanceAssumption
    <3> QED
      BY <1>7, <2>1, <2>2, <3>1
  <2>3. CASE j = i
    <3>1. /\ ToSet(s.inst[i].batch) \subseteq ToSet(c.batch)
          /\ FirstCome(ToSet(s.inst[i].batch), c.batch, s.inst[i].pool)
      BY <1>2, <2>3 DEF Chosen
    <3>2. FirstCome(ToSet(s.inst[i].batch), a.inst[i].batch, a.inst[i].pool)
      BY <1>7, <3>1 DEF FirstCome
    <3>3. ToSet(s.inst[i].batch) \subseteq ToSet(a.inst[i].batch)
          /\ ToSet(a.inst[i].pool) \subseteq ToSet(s.inst[i].pool)
      BY <1>7, <3>1
    <3> QED
      BY <2>1, <2>3, <3>2, <3>3, FirstComeTwice
  <2> QED
    BY <2>2, <2>3
<1>10. Roomy => WithinMemory(a) = Instances
  <2>1. ASSUME Roomy, NEW j \in Instances
        PROVE  UsedMemory(a, j) <= MaxMemory
    <3>1. \A k \in Instances : UsedMemory(s, k) <= MaxMemory
      BY <2>1 DEF Regular, WithinMemory
    <3>2. /\ UsedMemory(s, i) <= MaxMemory => UsedMemory(a, i) <= MaxMemory
          /\ \A k \in Instances \ {i} : UsedMemory(a, k) = UsedMemory(s, k)
      <4> HIDE DEF at
      <4> QED
        BY <1>1, <1>2, BegunMemory
    <3> QED
      BY <3>1, <3>2
  <2> QED
    BY <2>1 DEF WithinMemory
<1>11. ASSUME Punctual, NEW t \in TaskNodes, a.node[t] # "COMPLETED"
       PROVE  a.generated[t] < TokensToGenerate(t)
  <2>1. s.node[t] # "COMPLETED"
    <3>1. ToSet(c.batch) \subseteq at
      BY <1>2 DEF Chosen, Choice, Eligible
    <3>2. ToSet(s.inst[i].batch) \subseteq at
      BY <1>1 DEF Sound
    <3>3. t \in Nodes
      BY DEF Nodes
    <3> QED
      BY <1>5, <1>7, <1>11, <3>1, <3>2, <3>3
  <2> QED
    BY <1>7, <1>11, <2>1 DEF Regular
<1>12. ASSUME Punctual
       PROVE  /\ \A j \in Instances \ {i} : a.inst[j].batch # <<>> => a.inst[j].handle
              /\ ~ a.crashed
  BY <1>7, <1>12 DEF Regular
<1>13. Regular(a, P, D, B, N, Instances, Instances \ {i})
  BY <1>3, <1>4, <1>8, <1>9, <1>10, <1>11, <1>12 DEF Regular
<1> QED
  BY <1>13 DEF a

(* A run ends: the one under way when the action began, or one of zero     *)
(* iterations.                                                             *)
LEMMA EndedRegular ==
  ASSUME trace \in [Requests -> Shapes], NEW P, NEW D, Placed(P, D), NEW B, NEW N,
         NEW i \in Instances, NEW s,
         Regular(s, P, D, B, N, Instances, Instances \ {i}),
         i \in Orca => ToSet(s.inst[i].batch) \subseteq B[i] \/ ZeroRun(s, i)
  PROVE  Regular(EndRun(s, i, D), P, D, B, N, Instances \ {i}, Instances \ {i})
<1> DEFINE at == At(s.node, P, D, i)
           a == EndRun(s, i, D)
           q == s.inst[i]
           done == EndingNow(s, i)
<1>1. /\ s \in StateType /\ Good(s, P, D) /\ at \in SUBSET TaskNodes
      /\ Sound(q, s.node, at) /\ Ready(s.node, s.preempted, at)
      /\ Running(q, s.node) /\ Chained(s.node, at)
      /\ \A r \in Requests : Prompt(r) \in at /\ D[r] # i => D[r] \in Instances
  BY GoodFacts DEF Regular, Good
<1>2. Ended(s, a, i, at, D)
  <2> HIDE DEF at
  <2> QED
    BY <1>1, EndRunLaw
<1> HIDE DEF a
<1>3. Good(a, P, D) /\ SameNone(s, a)
  BY <1>1, <1>2, EndedGood
<1>4. Idle(a) = N
  BY <1>3 DEF SameNone, Idle, Regular
<1>5. /\ \A j \in Instances \ {i} : a.inst[j] = s.inst[j]
      /\ Sound(a.inst[i], a.node, at \ done) /\ ToSet(a.inst[i].batch) = ToSet(q.batch) \ done
      /\ \A n \in TaskNodes : a.node[n] = IF n \in done THEN "COMPLETED" ELSE s.node[n]
      /\ a.generated = [t \in TaskNodes |->
           s.generated[t] + (IF t \in ToSet(q.batch) THEN q.iterations ELSE 0)]
      /\ a.crashed = s.crashed /\ WithinMemory(s) \subseteq WithinMemory(a)
  BY <1>2 DEF Ended
<1>6. done \subseteq ToSet(q.batch) /\ ToSet(q.batch) \subseteq at
  BY <1>1 DEF EndingNow, Sound
<1> HIDE DEF done
<1>7. s.generated \in [TaskNodes -> Int] /\ q.iterations \in Int
  BY <1>1, QueueFields DEF StateType
<1> HIDE DEF q
<1>8. \A t \in TaskNodes : t \notin ToSet(q.batch) => a.generated[t] = s.generated[t]
  <2>1. ASSUME NEW t \in TaskNodes, t \notin ToSet(q.batch)
        PROVE  a.generated[t] = s.generated[t]
    <3>1. s.generated[t] \in Int /\ a.generated[t] = s.generated[t] + 0
      BY <1>5, <1>7, <2>1
    <3> QED
      BY <3>1
  <2> QED
    BY <2>1
<1>9. \A j \in Instances \ {i} : Course(a, j)
  <2>1. ASSUME NEW j \in Instances \ {i}
        PROVE  Course(a, j)
    <3>1. Course(s, j) /\ Sound(s.inst[j], s.node, At(s.node, P, D, j))
      BY <1>1 DEF Regular, Good
    <3>2. \A t \in ToSet(s.inst[j].batch) : t \in TaskNodes /\ t \notin ToSet(q.batch)
      <4>1. ToSet(s.inst[j].batch) \subseteq At(s.node, P, D, j)
        BY <3>1 DEF Sound
      <4>2. \A t \in At(s.node, P, D, j) : t \notin at /\ t \in TaskNodes
        BY ApartTasks DEF At
      <4> HIDE DEF at
      <4> QED
        BY <1>6, <4>1, <4>2
    <3>3. \A t \in ToSet(s.inst[j].batch) : a.generated[t] = s.generated[t]
      BY <1>8, <3>2
    <3> QED
      BY <1>5, <3>1, <3>3, CourseElsewhere
  <2> QED
    BY <2>1
<1>10. ASSUME NEW j \in Orca
       PROVE  FirstCome(B[j], a.inst[j].batch, a.inst[j].pool)
  <2>1. FirstCome(B[j], s.inst[j].batch, s.inst[j].pool)
    BY DEF Regular
  <2>2. CASE j # i
    <3>1. j \in Instances
      BY InstanceAssumption
    <3> QED
      BY <1>5, <2>1, <2>2, <3>1
  <2>3. CASE j = i /\ ToSet(q.batch) \subseteq B[i]
    BY <1>5, <2>3 DEF FirstCome
  <2>4. CASE j = i /\ ZeroRun(s, i)
    <3>1. SUFFICES ASSUME NEW t \in ToSet(a.inst[i].batch) \ B[i],
                          NEW r \in ToSet(a.inst[i].pool), r < t.req
                   PROVE  r \in RequestsOf(ToSet(a.inst[i].batch))
      BY <2>4 DEF FirstCome
    <3>2. /\ ToSet(a.inst[i].pool) = {u.req : u \in at \ done}
          /\ ToSet(q.pool) = {u.req : u \in at}
      BY <1>1, <1>5 DEF Sound, q
    <3>3. r \in ToSet(q.pool) /\ t \in ToSet(q.batch) \ B[i]
      BY <1>5, <3>1, <3>2
    <3>4. r \in RequestsOf(ToSet(q.batch))
      BY <2>1, <2>4, <3>1, <3>3 DEF FirstCome, q
    <3>5. PICK u \in ToSet(q.batch) : u.req = r
      BY <3>4 DEF RequestsOf
    <3>6. u \notin done
      <4>1. ASSUME u \in done
            PROVE  FALSE
        <5>1. ~ IsPrompt(u)
          <6>1. Course(s, i) /\ q.iterations = 0
            BY <2>4 DEF Regular, ZeroRun, q
          <6> QED
            BY <3>5, <6>1 DEF Course, q
        <5>2. Prompt(u.req) \notin at
          BY <1>1, <3>5, <5>1, PromptIsOver
        <5>3. PICK x \in at \ done : x.req = r
          BY <3>2
        <5>4. x \in TaskNodes /\ u \in TaskNodes
          BY <1>1, <1>6, <3>5
        <5>5. (x = Prompt(r) \/ x = Token(r)) /\ u = Token(r)
          BY <3>5, <5>1, <5>3, <5>4, TaskParts
        <5> QED
          BY <3>5, <4>1, <5>2, <5>3, <5>5
      <4> QED
        BY <4>1
    <3>7. u \in ToSet(a.inst[i].batch)
      BY <1>5, <3>5, <3>6
    <3> QED
      BY <3>5, <3>7 DEF RequestsOf
  <2> QED
    BY <2>2, <2>3, <2>4 DEF q
<1>11. Roomy => WithinMemory(a) = Instances
  BY <1>5 DEF Regular, WithinMemory
<1>12. ASSUME Punctual, NEW t \in TaskNodes, a.node[t] # "COMPLETED"
       PROVE  a.generated[t] < TokensToGenerate(t)
  <2>1. s.node[t] # "COMPLETED" /\ t \notin done
    BY <1>5, <1>12
  <2>2. s.generated[t] < TokensToGenerate(t) /\ s.generated[t] \in Int
        /\ TokensToGenerate(t) \in Nat
    BY <1>7, <1>12, <2>1, SizesAreNumbers DEF Regular
  <2>3. CASE t \in ToSet(q.batch)
    <3>1. s.generated[t] + q.iterations <= TokensToGenerate(t)
      BY <1>12, <2>3 DEF Regular, Course, q
    <3>2. s.generated[t] + q.iterations # TokensToGenerate(t)
      BY <2>1, <2>3 DEF done, EndingNow, q
    <3>3. a.generated[t] = s.generated[t] + q.iterations
      BY <1>5, <2>3
    <3> QED
      BY <1>7, <2>2, <3>1, <3>2, <3>3
  <2>4. CASE t \notin ToSet(q.batch)
    BY <1>8, <2>2, <2>4
  <2> QED
    BY <2>3, <2>4
<1>13. ASSUME Punctual
       PROVE  /\ \A j \in Instances \ {i} : a.inst[j].batch # <<>> => a.inst[j].handle
              /\ ~ a.crashed
  BY <1>5, <1>13 DEF Regular
<1>14. Regular(a, P, D, B, N, Instances \ {i}, Instances \ {i})
  BY <1>3, <1>4, <1>9, <1>10, <1>11, <1>12, <1>13 DEF Regular
<1> QED
  BY <1>14 DEF a

(* The handle of the completion event is stored.                           *)
LEMMA HandleRegular ==
  ASSUME NEW P, NEW D, NEW B, NEW N, NEW i \in Instances, NEW s,
         Regular(s, P, D, B, N, Instances, Instances \ {i}),
         NEW x \in BOOLEAN, Punctual => x
  PROVE  Regular([s EXCEPT !.inst[i].handle = x], P, D, B, N, Instances, Instances)
<1> DEFINE a == [s EXCEPT !.inst[i].handle = x]
<1>1. s \in StateType /\ Good(s, P, D)
  BY DEF Regular, Good
<1>2. /\ a \in StateType /\ a.node = s.node /\ Beside(s, a, i)
      /\ SameQueues(s.inst[i], a.inst[i])
      /\ a.inst[i].iterations = s.inst[i].iterations
      /\ a.inst[i].elapsed = s.inst[i].elapsed /\ a.inst[i].handle = x
  BY <1>1, HandleLaw DEF SameQueues
<1> HIDE DEF a
<1>3. Good(a, P, D) /\ SameNone(s, a)
  BY <1>1, <1>2, CourseGood DEF Beside
<1>4. Idle(a) = N
  BY <1>3 DEF SameNone, Idle, Regular
<1>5. \A j \in Instances : Course(a, j)
  <2>1. ASSUME NEW j \in Instances
        PROVE  Course(a, j)
    <3>1. Course(s, j)
      BY DEF Regular
    <3>2. CASE j # i
      BY <1>2, <3>1, <3>2, CourseElsewhere DEF Beside
    <3>3. CASE j = i
      BY <1>2, <3>1, <3>3 DEF Course, Beside, SameQueues
    <3> QED
      BY <3>2, <3>3
  <2> QED
    BY <2>1
<1>6. \A j \in Instances : a.inst[j].batch = s.inst[j].batch /\ a.inst[j].pool = s.inst[j].pool
  BY <1>2 DEF Beside, SameQueues
<1>7. \A j \in Orca : FirstCome(B[j], a.inst[j].batch, a.inst[j].pool)
  BY <1>6, InstanceAssumption DEF Regular
<1>8. WithinMemory(a) = WithinMemory(s) /\ a.generated = s.generated /\ a.crashed = s.crashed
  BY <1>2 DEF WithinMemory, UsedMemory, Beside
<1>9. Punctual => \A j \in Instances : a.inst[j].batch # <<>> => a.inst[j].handle
  BY <1>2 DEF Regular, Beside
<1>10. Regular(a, P, D, B, N, Instances, Instances)
  BY <1>2, <1>3, <1>4, <1>5, <1>7, <1>8, <1>9 DEF Regular
<1> QED
  BY <1>10 DEF a

(* What is asked of fewer instances.                                       *)
LEMMA RegularWeaker ==
  ASSUME NEW P, NEW D, NEW B, NEW N, NEW I, NEW J, NEW s, Regular(s, P, D, B, N, I, J),
         NEW I2 \in SUBSET I, NEW J2 \in SUBSET J
  PROVE  Regular(s, P, D, B, N, I2, J2)
  BY DEF Regular

(* start_iteration.                                                        *)
LEMMA StartIterationRegular ==
  ASSUME trace \in [Requests -> Shapes], NEW P, NEW D, Placed(P, D), NEW B, NEW N,
         NEW i \in Instances, NEW s,
         Regular(s, P, D, B, N, Instances \ {i}, Instances \ {i})
  PROVE  Regular(StartIteration(s, i, D), P, D, B, N, Instances, Instances)
<1> DEFINE R(a, I, J) == Regular(a, P, D, B, N, I, J)
           G == {a \in StateType : R(a, Instances \ {i}, Instances \ {i})}
           H == {a \in StateType : R(a, Instances, Instances \ {i})}
           K == {a \in StateType : R(a, Instances, Instances)}
<1>1. ASSUME NEW a, NEW I, NEW J, R(a, I, J)
      PROVE  a \in StateType
  BY <1>1 DEF Regular, Good
<1>2. \A a \in G : BeginRun(a, i) \in H
  <2>1. ASSUME NEW a \in G
        PROVE  R(BeginRun(a, i), Instances, Instances \ {i})
    <3>1. R(a, Instances \ {i}, Instances \ {i})
      OBVIOUS
    <3> QED
      BY <3>1, BegunRegular
  <2> HIDE DEF R
  <2> QED
    BY <1>1, <2>1
<1>3. \A a \in H : ZeroRun(a, i) => EndRun(a, i, D) \in G
  <2>1. ASSUME NEW a \in H, ZeroRun(a, i)
        PROVE  R(EndRun(a, i, D), Instances \ {i}, Instances \ {i})
    <3>1. R(a, Instances, Instances \ {i})
      OBVIOUS
    <3> QED
      BY <2>1, <3>1, EndedRegular
  <2> HIDE DEF R
  <2> QED
    BY <1>1, <2>1
<1>4. \A a \in H : a.inst[i].batch = <<>> => a \in K
  <2>1. ASSUME NEW a \in H, a.inst[i].batch = <<>>
        PROVE  R(a, Instances, Instances)
    BY <2>1 DEF Regular
  <2> HIDE DEF R
  <2> QED
    BY <2>1
<1>5. \A a \in H, b \in H : [a EXCEPT !.inst[i].handle = ~ ZeroRun(b, i)] \in K
  <2>1. ASSUME NEW a \in H, NEW b \in H
        PROVE  R([a EXCEPT !.inst[i].handle = ~ ZeroRun(b, i)], Instances, Instances)
    <3> DEFINE x == ~ ZeroRun(b, i)
    <3>1. Punctual => x
      <4>1. ASSUME Punctual, b.inst[i].batch # <<>>
            PROVE  b.inst[i].iterations # 0
        <5>1. b \in StateType /\ Course(b, i)
          BY DEF Regular
        <5>2. b.inst[i].batch \in Seq(TaskNodes)
          BY <5>1, QueueFields
        <5>3. b.inst[i].batch[1] \in ToSet(b.inst[i].batch)
          BY <4>1, <5>2 DEF ToSet
        <5>4. b.inst[i].iterations >= 1
          BY <4>1, <5>1, <5>3 DEF Course
        <5> QED
          BY <5>4
      <4> QED
        BY <4>1 DEF ZeroRun
    <3>2. x \in BOOLEAN
      BY DEF ZeroRun
    <3> HIDE DEF x
    <3>3. R(a, Instances, Instances \ {i})
      OBVIOUS
    <3>4. R([a EXCEPT !.inst[i].handle = x], Instances, Instances)
      BY <3>1, <3>2, <3>3, HandleRegular
    <3> QED
      BY <3>4 DEF x
  <2> HIDE DEF R
  <2> QED
    BY <1>1, <2>1
<1>6. s \in G
  BY DEF Regular, Good
<1> HIDE DEF G, H, K
<1>7. StartIteration(s, i, D) \in K
  BY <1>2, <1>3, <1>4, <1>5, <1>6, StartIterationLaw
<1> QED
  BY <1>7 DEF K

(* complete_iteration.                                                     *)
LEMMA CompleteIterationRegular ==
  ASSUME trace \in [Requests -> Shapes], NEW P, NEW D, Placed(P, D), NEW B, NEW N,
         NEW i \in Instances, NEW s,
         Regular(s, P, D, B, N, Instances, Instances),
         i \in Orca => ToSet(s.inst[i].batch) \subseteq B[i]
  PROVE  Regular(CompleteIteration(s, i, D), P, D, B, N, Instances, Instances)
<1>1. Regular(s, P, D, B, N, Instances, Instances \ {i})
  BY RegularWeaker
<1>2. Regular(EndRun(s, i, D), P, D, B, N, Instances \ {i}, Instances \ {i})
  BY <1>1, EndedRegular
<1>3. Regular(StartIteration(EndRun(s, i, D), i, D), P, D, B, N, Instances, Instances)
  BY <1>2, StartIterationRegular
<1> QED
  BY <1>3 DEF CompleteIteration

(* A batch in which no prompt is counted has none.                         *)
LEMMA NoPromptRuns ==
  ASSUME NEW q, q.batch \in Seq(TaskNodes), ~ RunsPrompt(q)
  PROVE  \A t \in ToSet(q.batch) : ~ IsPrompt(t)
<1> DEFINE I == {k \in DOMAIN q.batch : IsPrompt(q.batch[k])}
<1>1. IsFiniteSet(I)
  <2>1. DOMAIN q.batch = 1 .. Len(q.batch) /\ Len(q.batch) \in Nat
    OBVIOUS
  <2>2. IsFiniteSet(1 .. Len(q.batch))
    BY <2>1, FS_Interval
  <2> QED
    BY <2>1, <2>2, FS_Subset
<1>2. ~ Cardinality(I) > 0
  BY DEF RunsPrompt, CountPrompts
<1>3. I = {}
  <2> HIDE DEF I
  <2>1. Cardinality(I) \in Nat
    BY <1>1, FS_CardinalityType
  <2>2. Cardinality(I) = 0
    BY <1>2, <2>1
  <2> QED
    BY <1>1, <2>2, FS_EmptySet
<1> QED
  BY <1>3 DEF ToSet

(* pause_iteration changes the run, not the queues.                        *)
LEMMA PauseLaw ==
  ASSUME NEW s \in StateType, NEW i \in Instances
  PROVE  LET a == PauseIteration(s, i)
             q == s.inst[i]
             u == a.inst[i]
         IN /\ a \in StateType /\ a.node = s.node /\ a.generated = s.generated
            /\ a.preempted = s.preempted /\ a.alloc = s.alloc
            /\ \A j \in Instances \ {i} : a.inst[j] = s.inst[j]
            /\ SameQueues(q, u) /\ u.handle = q.handle /\ u.elapsed = q.elapsed
            /\ q.handle /\ ~ q.pausing /\ ~ RunsPrompt(q) =>
                 a.crashed = s.crashed /\ u.iterations = q.elapsed + 1
<1> DEFINE a == PauseIteration(s, i)
           q == s.inst[i]
           u == a.inst[i]
<1>1. /\ a \in StateType /\ a.node = s.node /\ a.generated = s.generated
      /\ a.preempted = s.preempted /\ a.alloc = s.alloc
      /\ \A j \in Instances \ {i} : a.inst[j] = s.inst[j]
      /\ SameQueues(q, u) /\ u.handle = q.handle /\ u.elapsed = q.elapsed
      /\ q.handle /\ ~ q.pausing /\ ~ RunsPrompt(q) =>
           a.crashed = s.crashed /\ u.iterations = q.elapsed + 1
  <2>1. CASE q.pausing \/ RunsPrompt(q)
    <3>1. a = s
      BY <2>1 DEF PauseIteration
    <3> QED
      BY <2>1, <3>1 DEF SameQueues
  <2>2. CASE ~ q.pausing /\ ~ RunsPrompt(q)
    <3>0. q \in QueueType /\ q.elapsed \in Int
      BY QueueFields
    <3>1. CASE q.handle
      <4> DEFINE z == [q EXCEPT !.pausing = TRUE, !.iterations = q.elapsed + 1]
      <4>1. z \in QueueType /\ SameQueues(q, z) /\ z.handle = q.handle
            /\ z.elapsed = q.elapsed /\ z.iterations = q.elapsed + 1
        <5> DEFINE n == q.elapsed + 1
        <5>1. n \in Int
          BY <3>0
        <5> HIDE DEF q, n
        <5>2. [q EXCEPT !.pausing = TRUE, !.iterations = n] \in QueueType
          BY <3>0, <5>1 DEF QueueType
        <5>3. LET z2 == [q EXCEPT !.pausing = TRUE, !.iterations = n]
              IN SameQueues(q, z2) /\ z2.handle = q.handle
                 /\ z2.elapsed = q.elapsed /\ z2.iterations = n
          BY <3>0 DEF QueueType, SameQueues
        <5> QED
          BY <5>2, <5>3 DEF n
      <4>2. a = WithQueue(s, i, z)
        BY <2>2, <3>1 DEF PauseIteration, WithQueue, StateType, QueueType
      <4> HIDE DEF z
      <4>3. /\ WithQueue(s, i, z) \in StateType /\ WithQueue(s, i, z).inst[i] = z
            /\ WithQueue(s, i, z).node = s.node /\ Beside(s, WithQueue(s, i, z), i)
        BY <4>1, BesideWithQueue
      <4> HIDE DEF a, q
      <4> QED
        BY <4>1, <4>2, <4>3 DEF Beside
    <3>2. CASE ~ q.handle
      <4>1. a = [s EXCEPT !.crashed = TRUE]
        BY <2>2, <3>2 DEF PauseIteration
      <4> QED
        BY <3>2, <4>1 DEF StateType, SameQueues
    <3> QED
      BY <3>1, <3>2
  <2> QED
    BY <2>1, <2>2
<1> QED
  BY <1>1

(* pause_iteration.                                                        *)
LEMMA PauseRegular ==
  ASSUME trace \in [Requests -> Shapes], NEW P, NEW D, NEW B, NEW N,
         NEW i \in Instances, NEW s,
         Regular(s, P, D, B, N, Instances, Instances), s.inst[i].batch # <<>>
  PROVE  Regular(PauseIteration(s, i), P, D, B, N, Instances, Instances)
<1> DEFINE a == PauseIteration(s, i)
           q == s.inst[i]
           u == a.inst[i]
<1>1. s \in StateType /\ Good(s, P, D) /\ Course(s, i)
  BY DEF Regular, Good
<1>2. CASE q.pausing \/ RunsPrompt(q)
  <2>1. a = s
    BY <1>2 DEF PauseIteration
  <2> QED
    BY <2>1
<1>3. CASE ~ q.pausing /\ ~ RunsPrompt(q)
  <2>1. /\ a \in StateType /\ a.node = s.node /\ a.generated = s.generated
        /\ a.preempted = s.preempted /\ a.alloc = s.alloc
        /\ \A j \in Instances \ {i} : a.inst[j] = s.inst[j]
        /\ SameQueues(q, u) /\ u.handle = q.handle /\ u.elapsed = q.elapsed
        /\ a.crashed = s.crashed \/ ~ q.handle
        /\ u.iterations = q.elapsed + 1 \/ ~ q.handle
    BY <1>1, <1>3, PauseLaw
  <2> HIDE DEF a
  <2>2. Good(a, P, D) /\ SameNone(s, a)
    BY <1>1, <2>1, CourseGood
  <2>3. Idle(a) = N
    BY <2>2 DEF SameNone, Idle, Regular
  <2>4. Punctual => q.handle
    BY DEF Regular
  <2>5. \A j \in Instances \ {i} : Course(a, j)
    BY <2>1, CourseElsewhere DEF Regular
  <2>6. \A t \in ToSet(u.batch) : ~ IsPrompt(t)
    <3>1. q.batch \in Seq(TaskNodes)
      BY <1>1, QueueFields
    <3> QED
      BY <1>3, <2>1, <3>1, NoPromptRuns DEF SameQueues
  <2>7. ASSUME Punctual, NEW t \in ToSet(u.batch)
        PROVE  /\ u.iterations >= 1 /\ u.elapsed >= 0 /\ u.elapsed <= u.iterations - 1
               /\ a.generated[t] + u.iterations <= TokensToGenerate(t)
    <3>1. /\ q.elapsed >= 0 /\ q.elapsed <= q.iterations - 1
          /\ s.generated[t] + q.iterations <= TokensToGenerate(t)
      BY <1>1, <2>1, <2>7 DEF Course, SameQueues
    <3>2. q.elapsed \in Int /\ q.iterations \in Int
      BY <1>1, QueueFields
    <3>3. s.generated[t] \in Int /\ TokensToGenerate(t) \in Int
      <4>1. t \in TaskNodes
        BY <1>1, <2>1, QueueFields, ElementsAreTasks DEF SameQueues
      <4>2. trace \in [Requests -> Shapes] => TokensToGenerate(t) \in Int
        BY <4>1, SizesAreNumbers
      <4> QED
        BY <1>1, <4>1, <4>2 DEF StateType
    <3>4. u.iterations = q.elapsed + 1 /\ u.elapsed = q.elapsed /\ a.generated = s.generated
      BY <2>1, <2>4, <2>7
    <3> HIDE DEF q, u
    <3> QED
      BY <3>1, <3>2, <3>3, <3>4
  <2>8. Course(a, i)
    BY <1>1, <2>1, <2>6, <2>7 DEF Course, SameQueues
  <2>9. \A j \in Instances : a.inst[j].batch = s.inst[j].batch /\ a.inst[j].pool = s.inst[j].pool
    BY <2>1 DEF SameQueues
  <2>10. \A j \in Orca : FirstCome(B[j], a.inst[j].batch, a.inst[j].pool)
    BY <2>9, InstanceAssumption DEF Regular
  <2>11. WithinMemory(a) = WithinMemory(s)
    BY <2>1 DEF WithinMemory, UsedMemory
  <2>12. Punctual =>
           /\ \A j \in Instances : a.inst[j].batch # <<>> => a.inst[j].handle
           /\ ~ a.crashed
    BY <2>1, <2>4 DEF Regular, SameQueues
  <2>13. Regular(a, P, D, B, N, Instances, Instances)
    BY <2>1, <2>2, <2>3, <2>5, <2>8, <2>10, <2>11, <2>12 DEF Regular
  <2> QED
    BY <2>13 DEF a
<1> QED
  BY <1>2, <1>3

(* A course depends on the run, not on what waits.                         *)
LEMMA SameCourse ==
  ASSUME NEW s, NEW a, NEW j, Course(s, j), a.generated = s.generated,
         a.inst[j].batch = s.inst[j].batch, SameRun(s.inst[j], a.inst[j])
  PROVE  Course(a, j)
  BY DEF Course, SameRun

(* A task waits at an instance.                                            *)
LEMMA QueuedSound ==
  ASSUME NEW q \in QueueType, NEW u \in QueueType, NEW nd \in [Nodes -> NodeStates],
         NEW at \in SUBSET TaskNodes, Sound(q, nd, at),
         NEW t \in TaskNodes, nd[t] = "NONE", t \notin at,
         /\ ToSet(u.pending) = ToSet(q.pending) \cup {t}
         /\ t \notin ToSet(q.pending) => IsInjective(u.pending)
         /\ u.prompts = IF IsPrompt(t) THEN Append(q.prompts, t) ELSE q.prompts
         /\ u.blocked = q.blocked /\ u.batch = q.batch
         /\ ToSet(u.pool) = ToSet(q.pool) \cup {t.req} /\ Sorted(u.pool)
  PROVE  Sound(u, [nd EXCEPT ![t] = "QUEUED"], at \cup {t})
<1> DEFINE nf == [nd EXCEPT ![t] = "QUEUED"]
           to == at \cup {t}
<1>1. t \in Nodes
  BY TaskParts
<1>2. /\ nf[t] = "QUEUED" /\ \A n \in TaskNodes : n # t => nf[n] = nd[n]
  BY <1>1
<1> HIDE DEF nf
<1>3. /\ IsInjective(q.pending) /\ IsInjective(q.prompts)
      /\ IsInjective(q.blocked) /\ IsInjective(q.batch) /\ Sorted(q.pool)
      /\ ToSet(q.pending) = at \ ToSet(q.batch) /\ ToSet(q.batch) \subseteq at
      /\ \A x \in ToSet(q.pending) : nd[x] \in {"QUEUED", "BLOCKED"}
      /\ ToSet(q.blocked) = {x \in ToSet(q.pending) : nd[x] = "BLOCKED"}
      /\ ToSet(q.prompts) = {x \in ToSet(q.pending) : IsPrompt(x)}
      /\ ToSet(q.pool) = {x.req : x \in at}
  BY DEF Sound
<1>4. q.prompts \in Seq(TaskNodes) /\ q.pending \in Seq(TaskNodes)
  BY DEF QueueType
<1>5. t \notin ToSet(q.pending) /\ t \notin ToSet(q.prompts) /\ t \notin ToSet(q.batch)
  BY <1>3
<1>6. IsInjective(u.pending) /\ IsInjective(u.blocked) /\ IsInjective(u.batch)
      /\ Sorted(u.pool)
  BY <1>3, <1>5
<1>7. IsInjective(u.prompts) /\ ToSet(u.prompts) = {x \in ToSet(u.pending) : IsPrompt(x)}
  <2>1. /\ ToSet(Append(q.prompts, t)) = ToSet(q.prompts) \cup {t}
        /\ IsInjective(Append(q.prompts, t))
    BY <1>3, <1>4, <1>5, AppendSet
  <2>2. CASE IsPrompt(t)
    BY <1>3, <2>1, <2>2
  <2>3. CASE ~ IsPrompt(t)
    BY <1>3, <2>3
  <2> QED
    BY <2>2, <2>3
<1>8. ToSet(u.pending) = to \ ToSet(u.batch) /\ ToSet(u.batch) \subseteq to
  BY <1>3, <1>5
<1>9. \A x \in ToSet(u.pending) : x \in TaskNodes /\ nf[x] \in {"QUEUED", "BLOCKED"}
  BY <1>2, <1>3
<1>10. ToSet(u.blocked) = {x \in ToSet(u.pending) : nf[x] = "BLOCKED"}
  BY <1>2, <1>3
<1>11. ToSet(u.pool) = {x.req : x \in to}
  BY <1>3
<1>12. Sound(u, nf, to)
  <2> HIDE DEF to
  <2> QED
    BY <1>6, <1>7, <1>8, <1>9, <1>10, <1>11 DEF Sound
<1> QED
  BY <1>12 DEF nf

(* A task arrives at an instance, which does not yet look at its run.      *)
Arrived(s, i, t) == AddPending(AddToPool([s EXCEPT !.node[t] = "QUEUED"], i, t), i, t)

(* The task t has arrived at i with the tasks at: s has become a.           *)
Arrives(s, a, i, at, t) ==
  /\ a \in StateType /\ Beside(s, a, i)
  /\ a.node = [s.node EXCEPT ![t] = "QUEUED"]
  /\ Sound(a.inst[i], a.node, at \cup {t})
  /\ a.inst[i].batch = s.inst[i].batch /\ SameRun(s.inst[i], a.inst[i])
  /\ ToSet(a.inst[i].pool) = ToSet(s.inst[i].pool) \cup {t.req}

(* add_to_pool and add_pending_task.                                       *)
LEMMA ArrivedLaw ==
  ASSUME NEW s \in StateType, NEW i \in Instances, NEW at \in SUBSET TaskNodes,
         Sound(s.inst[i], s.node, at), NEW t \in TaskNodes,
         s.node[t] = "NONE", t \notin at
  PROVE  Arrives(s, Arrived(s, i, t), i, at, t)
<1> DEFINE a0 == [s EXCEPT !.node[t] = "QUEUED"]
           a1 == AddToPool(a0, i, t)
           a2 == AddPending(a1, i, t)
           q == s.inst[i]
<1>1. t \in Nodes /\ "QUEUED" \in NodeStates
  BY TaskParts DEF NodeStates
<1>2. a0 \in StateType /\ a0.inst = s.inst
  BY <1>1 DEF StateType
<1> HIDE DEF a0
<1>3. Sorted(a0.inst[i].pool)
  BY <1>2 DEF Sound
<1>4. PICK u1 \in QueueType :
        /\ a1 = WithQueue(a0, i, u1)
        /\ ToSet(u1.pool) = ToSet(q.pool) \cup {t.req}
        /\ Sorted(u1.pool)
        /\ u1.pending = q.pending /\ u1.prompts = q.prompts
        /\ u1.blocked = q.blocked /\ u1.batch = q.batch
        /\ SameRun(q, u1)
  BY <1>2, <1>3, AddToPoolLaw
<1> HIDE DEF a1
<1>5. a1 \in StateType /\ a1.inst[i] = u1
  BY <1>2, <1>4, WithQueueLaw
<1>6. PICK u \in QueueType :
        /\ a2 = WithQueue(a1, i, u)
        /\ ToSet(u.pending) = ToSet(u1.pending) \cup {t}
        /\ IsInjective(u1.pending) /\ t \notin ToSet(u1.pending) => IsInjective(u.pending)
        /\ u.prompts = IF IsPrompt(t) THEN Append(u1.prompts, t) ELSE u1.prompts
        /\ u.blocked = u1.blocked /\ u.batch = u1.batch
        /\ u.pool = u1.pool /\ SameRun(u1, u)
  BY <1>5, AddPendingLaw
<1> HIDE DEF a2
<1>7. a2 = WithQueue(a0, i, u)
  BY <1>2, <1>4, <1>6, WithQueueTwice
<1>8. /\ a2 \in StateType /\ a2.inst[i] = u /\ a2.node = [s.node EXCEPT ![t] = "QUEUED"]
      /\ Beside(s, a2, i)
  BY <1>1, <1>7, WithQueueAndNode DEF a0
<1>9. Sound(u, [s.node EXCEPT ![t] = "QUEUED"], at \cup {t})
  <2>1. q \in QueueType /\ s.node \in [Nodes -> NodeStates] /\ IsInjective(q.pending)
    BY DEF StateType, Sound
  <2>2. /\ ToSet(u.pending) = ToSet(q.pending) \cup {t}
        /\ t \notin ToSet(q.pending) => IsInjective(u.pending)
        /\ u.prompts = IF IsPrompt(t) THEN Append(q.prompts, t) ELSE q.prompts
        /\ u.blocked = q.blocked /\ u.batch = q.batch
        /\ ToSet(u.pool) = ToSet(q.pool) \cup {t.req} /\ Sorted(u.pool)
    BY <1>4, <1>6, <2>1
  <2>3. Sound(q, s.node, at)
    OBVIOUS
  <2> HIDE DEF q
  <2> QED
    BY <2>1, <2>2, <2>3, QueuedSound
<1>10. SameRun(q, u)
  BY <1>4, <1>6 DEF SameRun
<1>11. a2 = Arrived(s, i, t)
  BY DEF a0, a1, a2, Arrived
<1>12. a2.inst[i].batch = s.inst[i].batch
       /\ ToSet(a2.inst[i].pool) = ToSet(s.inst[i].pool) \cup {t.req}
  BY <1>4, <1>6, <1>8
<1>13. Arrives(s, a2, i, at, t)
  BY <1>8, <1>9, <1>10, <1>12 DEF Arrives
<1> QED
  BY <1>11, <1>13

(* A task may arrive: a prompt at the instance it has been placed on, a    *)
(* token task after its prompt, and after the flow if it is apart.         *)
MayArrive(s, t, P, D) ==
  /\ s.node[t] = "NONE" /\ Where(P, D, t) \in Instances
  /\ ~ IsPrompt(t) => /\ s.node[Prompt(t.req)] # "NONE"
                      /\ P[t.req] = D[t.req] \/ s.node[Flow(t.req)] = "COMPLETED"

(* The queues after an arrival.                                            *)
LEMMA ArrivedGood ==
  ASSUME NEW P, NEW D, Placed(P, D), NEW s, Good(s, P, D), NEW i \in Instances,
         NEW t \in TaskNodes, MayArrive(s, t, P, D), Where(P, D, t) = i
  PROVE  LET a == Arrived(s, i, t)
         IN /\ Good(a, P, D) /\ Beside(s, a, i)
            /\ a.node = [s.node EXCEPT ![t] = "QUEUED"]
            /\ a.inst[i].batch = s.inst[i].batch /\ SameRun(s.inst[i], a.inst[i])
            /\ ToSet(a.inst[i].pool) = ToSet(s.inst[i].pool) \cup {t.req}
<1> DEFINE a == Arrived(s, i, t)
           at == At(s.node, P, D, i)
<1>1. s \in StateType /\ at \in SUBSET TaskNodes /\ Sound(s.inst[i], s.node, at)
      /\ Running(s.inst[i], s.node) /\ Len(s.inst[i].batch) <= MaxBatchSize
  BY GoodFacts DEF Good
<1>2. s.node[t] = "NONE" /\ t \notin at
  BY DEF MayArrive, At, Live
<1> HIDE DEF at
<1>3. /\ a \in StateType /\ Beside(s, a, i)
      /\ a.node = [s.node EXCEPT ![t] = "QUEUED"]
      /\ Sound(a.inst[i], a.node, at \cup {t})
      /\ a.inst[i].batch = s.inst[i].batch /\ SameRun(s.inst[i], a.inst[i])
      /\ ToSet(a.inst[i].pool) = ToSet(s.inst[i].pool) \cup {t.req}
  <2>1. Arrives(s, Arrived(s, i, t), i, at, t)
    BY <1>1, <1>2, ArrivedLaw
  <2> QED
    BY <2>1 DEF Arrives
<1> HIDE DEF a
<1>4. a.node[t] = "QUEUED" /\ \A n \in Nodes : n # t => a.node[n] = s.node[n]
  <2>1. t \in Nodes /\ s.node \in [Nodes -> NodeStates]
    BY <1>1, TaskParts DEF StateType
  <2> QED
    BY <1>3, <2>1
<1>5. /\ At(a.node, P, D, i) = at \cup {t}
      /\ \A j \in Instances \ {i} : At(a.node, P, D, j) = At(s.node, P, D, j)
  <2>1. TaskNodes \subseteq Nodes
    BY DEF Nodes
  <2>2. "QUEUED" \in Live
    BY DEF Live
  <2> QED
    BY <1>2, <1>4, <2>1, <2>2 DEF At, at
<1>6. ASSUME NEW j \in Instances
      PROVE  /\ Sound(a.inst[j], a.node, At(a.node, P, D, j))
             /\ Running(a.inst[j], a.node)
             /\ Len(a.inst[j].batch) <= MaxBatchSize
  <2>1. CASE j = i
    <3>1. \A n \in ToSet(s.inst[i].batch) : n \in Nodes /\ n # t
      BY <1>1, <1>2, TaskParts DEF Sound
    <3>2. Running(a.inst[i], a.node)
      BY <1>1, <1>3, <1>4, <3>1 DEF Running
    <3> QED
      BY <1>1, <1>3, <1>5, <2>1, <3>2
  <2>2. CASE j # i
    <3>1. /\ Sound(s.inst[j], s.node, At(s.node, P, D, j)) /\ Running(s.inst[j], s.node)
          /\ Len(s.inst[j].batch) <= MaxBatchSize
      BY DEF Good
    <3>2. \A n \in At(s.node, P, D, j) : a.node[n] = s.node[n]
      BY <1>2, <1>4, TaskParts DEF At, Live
    <3>3. a.inst[j] = s.inst[j] /\ At(a.node, P, D, j) = At(s.node, P, D, j)
      BY <1>3, <1>5, <2>2 DEF Beside
    <3>4. Sound(s.inst[j], a.node, At(s.node, P, D, j)) /\ Running(s.inst[j], a.node)
      BY <3>1, <3>2, SoundElsewhere
    <3> QED
      BY <3>1, <3>3, <3>4
  <2> QED
    BY <2>1, <2>2
<1>7. ASSUME NEW r \in Requests
      PROVE  Stage(a, r, P, D)
  <2>0. /\ Stage(s, r, P, D) /\ a.preempted = s.preempted
        /\ Prompt(r) \in Nodes /\ Token(r) \in Nodes /\ Flow(r) \in Nodes
        /\ Prompt(r) # Token(r) /\ t # Flow(r)
        /\ a.node[Flow(r)] = s.node[Flow(r)]
    <3>1. Prompt(r) \in Nodes /\ Token(r) \in Nodes /\ Flow(r) \in Nodes
          /\ Prompt(r) # Token(r) /\ t # Flow(r)
      BY NodesOfRequests
    <3> QED
      BY <1>3, <1>4, <3>1 DEF Good, Beside
  <2>1. CASE t = Prompt(r)
    <3>1. IsPrompt(t) /\ t.req = r
      BY <2>1, NodesOfRequests
    <3>2. P[r] # NoInstance
      BY <3>1, PlacementAssumption DEF MayArrive, Where
    <3>3. s.node[Prompt(r)] = "NONE" /\ a.node[Prompt(r)] = "QUEUED"
          /\ a.node[Token(r)] = s.node[Token(r)]
      BY <1>2, <1>4, <2>0, <2>1
    <3> QED
      BY <2>0, <3>2, <3>3 DEF Stage
  <2>2. CASE t = Token(r)
    <3>1. ~ IsPrompt(t) /\ t.req = r
      BY <2>2, NodesOfRequests
    <3>2. s.node[Prompt(r)] # "NONE" /\ (P[r] = D[r] \/ s.node[Flow(r)] = "COMPLETED")
      BY <3>1 DEF MayArrive
    <3>3. s.node[Token(r)] = "NONE" /\ a.node[Token(r)] = "QUEUED"
          /\ a.node[Prompt(r)] = s.node[Prompt(r)]
      BY <1>2, <1>4, <2>0, <2>2
    <3> QED
      BY <2>0, <3>2, <3>3 DEF Stage
  <2>3. CASE t # Prompt(r) /\ t # Token(r)
    <3>1. a.node[Prompt(r)] = s.node[Prompt(r)] /\ a.node[Token(r)] = s.node[Token(r)]
      BY <1>4, <2>0, <2>3
    <3> QED
      BY <2>0, <3>1 DEF Stage
  <2> QED
    BY <2>1, <2>2, <2>3
<1>8. Good(a, P, D)
  BY <1>3, <1>6, <1>7 DEF Good
<1> QED
  BY <1>3, <1>8 DEF a

(* An arrival.                                                             *)
LEMMA ArrivedRegular ==
  ASSUME NEW P, NEW D, Placed(P, D), NEW B, NEW N, NEW i \in Instances, NEW s,
         Regular(s, P, D, B, N, Instances, Instances),
         NEW t \in TaskNodes, MayArrive(s, t, P, D), Where(P, D, t) = i,
         i \in Orca => \/ ToSet(s.inst[i].batch) \subseteq B[i]
                       \/ \A r \in Requests : t.req < r => P[r] = NoInstance
  PROVE  Regular(Arrived(s, i, t), P, D, B, N \ {t}, Instances, Instances)
<1> DEFINE a == Arrived(s, i, t)
<1>1. s \in StateType /\ Good(s, P, D)
  BY DEF Regular, Good
<1>2. /\ Good(a, P, D) /\ Beside(s, a, i)
      /\ a.node = [s.node EXCEPT ![t] = "QUEUED"]
      /\ a.inst[i].batch = s.inst[i].batch /\ SameRun(s.inst[i], a.inst[i])
      /\ ToSet(a.inst[i].pool) = ToSet(s.inst[i].pool) \cup {t.req}
  BY <1>1, ArrivedGood
<1> HIDE DEF a
<1>3. a.node[t] = "QUEUED" /\ \A n \in TaskNodes : n # t => a.node[n] = s.node[n]
  <2>1. t \in Nodes /\ s.node \in [Nodes -> NodeStates] /\ TaskNodes \subseteq Nodes
    BY <1>1, TaskParts DEF StateType
  <2> QED
    BY <1>2, <2>1
<1>4. Idle(a) = N \ {t}
  BY <1>3 DEF Idle, Regular
<1>5. ASSUME NEW j \in Instances
      PROVE  /\ Course(a, j)
             /\ a.inst[j].batch = s.inst[j].batch
             /\ a.inst[j].handle = s.inst[j].handle
  <2>1. a.inst[j].batch = s.inst[j].batch /\ SameRun(s.inst[j], a.inst[j])
        /\ a.generated = s.generated
    BY <1>2 DEF Beside, SameRun
  <2>2. Course(s, j)
    BY DEF Regular
  <2> QED
    BY <2>1, <2>2, SameCourse DEF SameRun
<1>6. ASSUME NEW j \in Orca
      PROVE  FirstCome(B[j], a.inst[j].batch, a.inst[j].pool)
  <2>1. FirstCome(B[j], s.inst[j].batch, s.inst[j].pool) /\ j \in Instances
    BY InstanceAssumption DEF Regular
  <2>2. CASE j # i
    BY <1>2, <2>1, <2>2 DEF Beside
  <2>3. CASE j = i
    <3>1. SUFFICES ASSUME NEW x \in ToSet(s.inst[i].batch) \ B[i],
                          NEW r \in ToSet(s.inst[i].pool) \cup {t.req}, r < x.req
                   PROVE  r \in RequestsOf(ToSet(s.inst[i].batch))
      BY <1>2, <2>3 DEF FirstCome
    <3>2. CASE r \in ToSet(s.inst[i].pool)
      BY <2>1, <2>3, <3>1, <3>2 DEF FirstCome
    <3>3. CASE r = t.req
      <4>1. \A y \in Requests : t.req < y => P[y] = NoInstance
        BY <2>3, <3>1
      <4>2. x \in At(s.node, P, D, i)
        BY <3>1 DEF Regular, Good, Sound
      <4>3. x.req \in Requests /\ x \in TaskNodes /\ Where(P, D, x) = i
        BY <4>2, TaskParts DEF At
      <4>4. P[x.req] = NoInstance
        BY <3>1, <3>3, <4>1, <4>3
      <4>5. D[x.req] = NoInstance
        BY <4>3, <4>4 DEF Placed
      <4> QED
        BY <4>3, <4>4, <4>5, PlacementAssumption DEF Where
    <3> QED
      BY <3>2, <3>3
  <2> QED
    BY <2>2, <2>3
<1>7. WithinMemory(a) = WithinMemory(s) /\ a.generated = s.generated /\ a.crashed = s.crashed
  BY <1>2 DEF WithinMemory, UsedMemory, Beside
<1>8. Punctual => \A x \in TaskNodes : a.node[x] # "COMPLETED" =>
                    a.generated[x] < TokensToGenerate(x)
  <2>1. s.node[t] # "COMPLETED"
    BY DEF MayArrive
  <2> QED
    BY <1>3, <1>7, <2>1 DEF Regular
<1>9. Punctual => /\ \A j \in Instances : a.inst[j].batch # <<>> => a.inst[j].handle
                  /\ ~ a.crashed
  BY <1>5, <1>7 DEF Regular
<1>10. Roomy => WithinMemory(a) = Instances
  BY <1>7 DEF Regular
<1>11. Regular(a, P, D, B, N \ {t}, Instances, Instances)
  BY <1>2, <1>4, <1>5, <1>6, <1>8, <1>9, <1>10 DEF Regular
<1> QED
  BY <1>11 DEF a
-----------------------------------------------------------------------------
(* The instance looks at its run.                                          *)
LEMMA NoticeRegular ==
  ASSUME trace \in [Requests -> Shapes], NEW P, NEW D, Placed(P, D), NEW B, NEW N,
         NEW i \in Instances, NEW s, Regular(s, P, D, B, N, Instances, Instances), NEW t
  PROVE  Regular(Notice(s, i, t, D), P, D, B, N, Instances, Instances)
<1>1. Regular(StartIteration(s, i, D), P, D, B, N, Instances, Instances)
  <2>1. Regular(s, P, D, B, N, Instances \ {i}, Instances \ {i})
    BY RegularWeaker
  <2> QED
    BY <2>1, StartIterationRegular
<1>2. s.inst[i].batch # <<>> =>
        Regular(PauseIteration(s, i), P, D, B, N, Instances, Instances)
  BY PauseRegular
<1>3. \/ Notice(s, i, t, D) = s
      \/ Notice(s, i, t, D) = StartIteration(s, i, D)
      \/ s.inst[i].batch # <<>> /\ Notice(s, i, t, D) = PauseIteration(s, i)
  BY DEF Notice
<1> QED
  BY <1>1, <1>2, <1>3

(* notify_flow_completion.                                                 *)
LEMMA NotifyRegular ==
  ASSUME trace \in [Requests -> Shapes], NEW P, NEW D, Placed(P, D), NEW B, NEW N,
         NEW i \in Instances, NEW s, Regular(s, P, D, B, N, Instances, Instances)
  PROVE  Regular(NotifyFlowCompletion(s, i, D), P, D, B, N, Instances, Instances)
<1>1. Regular(StartIteration(s, i, D), P, D, B, N, Instances, Instances)
  <2>1. Regular(s, P, D, B, N, Instances \ {i}, Instances \ {i})
    BY RegularWeaker
  <2> QED
    BY <2>1, StartIterationRegular
<1>2. s.inst[i].batch # <<>> =>
        Regular(PauseIteration(s, i), P, D, B, N, Instances, Instances)
  BY PauseRegular
<1>3. \/ NotifyFlowCompletion(s, i, D) = s
      \/ NotifyFlowCompletion(s, i, D) = StartIteration(s, i, D)
      \/ s.inst[i].batch # <<>> /\ NotifyFlowCompletion(s, i, D) = PauseIteration(s, i)
  BY DEF NotifyFlowCompletion
<1> QED
  BY <1>1, <1>2, <1>3

(* task_arrival.                                                           *)
LEMMA TaskArrivalRegular ==
  ASSUME trace \in [Requests -> Shapes],
         NEW P, NEW D, Placed(P, D), NEW B, NEW N, NEW i \in Instances, NEW s,
         Regular(s, P, D, B, N, Instances, Instances),
         NEW t \in TaskNodes, MayArrive(s, t, P, D), Where(P, D, t) = i,
         i \in Orca => \/ ToSet(s.inst[i].batch) \subseteq B[i]
                       \/ \A r \in Requests : t.req < r => P[r] = NoInstance
  PROVE  Regular(TaskArrival(s, i, t, D), P, D, B, N \ {t}, Instances, Instances)
<1>1. Regular(Arrived(s, i, t), P, D, B, N \ {t}, Instances, Instances)
  BY ArrivedRegular
<1>2. Regular(Notice(Arrived(s, i, t), i, t, D), P, D, B, N \ {t}, Instances, Instances)
  BY <1>1, NoticeRegular
<1> QED
  BY <1>2 DEF TaskArrival, Arrived

(* The router has placed a request that has not arrived yet.               *)
LEMMA PlacedRegular ==
  ASSUME NEW P, NEW D, Placed(P, D), NEW B, NEW N, NEW s,
         Regular(s, P, D, B, N, Instances, Instances),
         NEW r \in Requests, P[r] = NoInstance, NEW p \in Instances, NEW d \in Instances
  PROVE  LET P2 == [P EXCEPT ![r] = p]
             D2 == [D EXCEPT ![r] = d]
         IN Placed(P2, D2) /\ Regular(s, P2, D2, B, N, Instances, Instances)
<1> DEFINE P2 == [P EXCEPT ![r] = p]
           D2 == [D EXCEPT ![r] = d]
<1>1. /\ P2[r] = p /\ D2[r] = d /\ \A q \in Requests : q # r => P2[q] = P[q] /\ D2[q] = D[q]
      /\ P2 \in Placing /\ D2 \in Placing
  BY DEF Placed, Placing
<1> HIDE DEF P2, D2
<1>2. Placed(P2, D2)
  BY <1>1, PlacementAssumption DEF Placed
<1>3. Stage(s, r, P, D) /\ s \in StateType
  BY DEF Regular, Good
<1>4. s.node[Prompt(r)] = "NONE" /\ s.node[Token(r)] = "NONE" /\ s.node[Flow(r)] = "NONE"
  BY <1>3 DEF Stage
<1>5. ASSUME NEW j \in Instances
      PROVE  At(s.node, P2, D2, j) = At(s.node, P, D, j)
  <2>1. \A t \in TaskNodes : s.node[t] \in Live => t.req \in Requests /\ t.req # r
    BY <1>4, TaskParts DEF Live
  <2>2. \A t \in TaskNodes : s.node[t] \in Live => Where(P2, D2, t) = Where(P, D, t)
    BY <1>1, <2>1 DEF Where
  <2> QED
    BY <2>2 DEF At
<1>6. ASSUME NEW q \in Requests
      PROVE  Stage(s, q, P2, D2)
  <2>1. CASE q = r
    BY <1>1, <1>2, <1>4, <2>1, PlacementAssumption, <1>3 DEF Stage
  <2>2. CASE q # r
    <3>1. Stage(s, q, P, D)
      BY DEF Regular, Good
    <3> QED
      BY <1>1, <2>2, <3>1 DEF Stage
  <2> QED
    BY <2>1, <2>2
<1>7. Good(s, P2, D2)
  BY <1>5, <1>6 DEF Good, Regular
<1>8. Regular(s, P2, D2, B, N, Instances, Instances)
  BY <1>7 DEF Regular
<1> QED
  BY <1>2, <1>8 DEF P2, D2

(* A request arrives: its prompt task, and the token task if both are in   *)
(* the same place.                                                         *)
LEMMA SubmitRegular ==
  ASSUME trace \in [Requests -> Shapes], NEW P, NEW D, Placed(P, D), NEW B, NEW N, NEW s,
         Regular(s, P, D, B, N, Instances, Instances),
         NEW r \in Requests, P[r] = NoInstance,
         \A q \in Requests : r < q => P[q] = NoInstance,
         NEW p \in Instances, NEW d \in Instances
  PROVE  LET P2 == [P EXCEPT ![r] = p]
             D2 == [D EXCEPT ![r] = d]
         IN \E N2 : Regular(Submit(s, r, p, d, D2), P2, D2, B, N2, Instances, Instances)
<1> DEFINE P2 == [P EXCEPT ![r] = p]
           D2 == [D EXCEPT ![r] = d]
           a == TaskArrival(s, p, Prompt(r), D2)
           M == N \ {Prompt(r)}
<1>1. Placed(P2, D2) /\ Regular(s, P2, D2, B, N, Instances, Instances)
  BY PlacedRegular
<1>2. /\ P2[r] = p /\ D2[r] = d /\ \A q \in Requests : q # r => P2[q] = P[q]
  BY DEF Placed, Placing
<1> HIDE DEF P2, D2
<1>3. r \in Nat /\ Requests \subseteq Nat
  BY InstanceAssumption
<1>4. \A q \in Requests : r < q => P2[q] = NoInstance
  BY <1>2, <1>3
<1>5. /\ Prompt(r) \in TaskNodes /\ Token(r) \in TaskNodes /\ Prompt(r) # Token(r)
      /\ Prompt(r).req = r /\ Token(r).req = r
      /\ IsPrompt(Prompt(r)) /\ ~ IsPrompt(Token(r))
  BY NodesOfRequests
<1>6. s.node[Prompt(r)] = "NONE" /\ s.node[Token(r)] = "NONE"
  BY DEF Regular, Good, Stage
<1>7. Regular(a, P2, D2, B, M, Instances, Instances)
  <2>1. MayArrive(s, Prompt(r), P2, D2) /\ Where(P2, D2, Prompt(r)) = p
    BY <1>2, <1>5, <1>6 DEF MayArrive, Where
  <2>2. \A q \in Requests : Prompt(r).req < q => P2[q] = NoInstance
    BY <1>4, <1>5
  <2> QED
    BY <1>1, <1>5, <2>1, <2>2, TaskArrivalRegular
<1> HIDE DEF a
<1>8. Token(r) \in M /\ Prompt(r) \notin M /\ Idle(a) = M
  BY <1>5, <1>6, <1>7 DEF Regular, Idle
<1> HIDE DEF M
<1>9. CASE p # d
  <2>1. Submit(s, r, p, d, D2) = a
    BY <1>9 DEF Submit, SubmitChain, a
  <2>2. Regular(Submit(s, r, p, d, D2), P2, D2, B, M, Instances, Instances)
    BY <1>7, <2>1
  <2> QED
    BY <2>2 DEF P2, D2
<1>10. CASE p = d
  <2>1. MayArrive(a, Token(r), P2, D2) /\ Where(P2, D2, Token(r)) = d
    <3>1. a.node[Token(r)] = "NONE" /\ a.node[Prompt(r)] # "NONE"
      BY <1>5, <1>8 DEF Idle
    <3> QED
      BY <1>2, <1>5, <1>10, <3>1 DEF MayArrive, Where
  <2>2. \A q \in Requests : Token(r).req < q => P2[q] = NoInstance
    BY <1>4, <1>5
  <2>3. Regular(TaskArrival(a, d, Token(r), D2), P2, D2, B, M \ {Token(r)},
                Instances, Instances)
    BY <1>1, <1>5, <1>7, <2>1, <2>2, TaskArrivalRegular
  <2>4. Submit(s, r, p, d, D2) = TaskArrival(a, d, Token(r), D2)
    BY <1>10 DEF Submit, SubmitChain, a
  <2>5. Regular(Submit(s, r, p, d, D2), P2, D2, B, M \ {Token(r)}, Instances, Instances)
    BY <2>3, <2>4
  <2> QED
    BY <2>5 DEF P2, D2
<1> QED
  BY <1>9, <1>10
-----------------------------------------------------------------------------
(* A flow runs or is over.                                                 *)
LEMMA FlowRegular ==
  ASSUME NEW P, NEW D, NEW B, NEW N, NEW s,
         Regular(s, P, D, B, N, Instances, Instances),
         NEW r \in Requests, s.node[Flow(r)] \in {"QUEUED", "RUNNING"},
         NEW a \in StateType, a.inst = s.inst, a.generated = s.generated,
         a.preempted = s.preempted, a.crashed = s.crashed,
         a.node[Flow(r)] \in {"RUNNING", "COMPLETED"},
         \A n \in Nodes : n # Flow(r) => a.node[n] = s.node[n],
         WithinMemory(s) \subseteq WithinMemory(a)
  PROVE  Regular(a, P, D, B, N, Instances, Instances)
<1>1. \A t \in TaskNodes : a.node[t] = s.node[t]
  BY NodesOfRequests DEF Nodes
<1>2. ASSUME NEW j \in Instances
      PROVE  /\ Sound(a.inst[j], a.node, At(a.node, P, D, j))
             /\ Running(a.inst[j], a.node)
             /\ Len(a.inst[j].batch) <= MaxBatchSize
  <2>1. /\ Sound(s.inst[j], s.node, At(s.node, P, D, j)) /\ Running(s.inst[j], s.node)
        /\ Len(s.inst[j].batch) <= MaxBatchSize
    BY DEF Regular, Good
  <2>2. At(a.node, P, D, j) = At(s.node, P, D, j)
    BY <1>1 DEF At
  <2>3. \A t \in At(s.node, P, D, j) : a.node[t] = s.node[t]
    BY <1>1 DEF At
  <2>4. Sound(s.inst[j], a.node, At(s.node, P, D, j)) /\ Running(s.inst[j], a.node)
    BY <2>1, <2>3, SoundElsewhere
  <2> QED
    BY <2>1, <2>2, <2>4
<1>3. ASSUME NEW q \in Requests
      PROVE  Stage(a, q, P, D)
  <2>1. /\ Stage(s, q, P, D)
        /\ a.node[Prompt(q)] = s.node[Prompt(q)] /\ a.node[Token(q)] = s.node[Token(q)]
    BY <1>1, NodesOfRequests DEF Regular, Good
  <2>2. CASE q = r
    <3>1. s.node[Flow(q)] \in {"QUEUED", "RUNNING"} /\ a.node[Flow(q)] \in {"RUNNING", "COMPLETED"}
      BY <2>2
    <3> QED
      BY <2>1, <3>1 DEF Stage
  <2>3. CASE q # r
    <3>1. Flow(q) # Flow(r) /\ Flow(q) \in Nodes
      BY <2>3, NodesOfRequests
    <3>2. a.node[Flow(q)] = s.node[Flow(q)]
      BY <3>1
    <3> QED
      BY <2>1, <3>2 DEF Stage
  <2> QED
    BY <2>2, <2>3
<1>4. Good(a, P, D)
  BY <1>2, <1>3 DEF Good
<1>5. Idle(a) = N
  BY <1>1 DEF Idle, Regular
<1>6. \A j \in Instances : Course(a, j)
  BY DEF Regular, Course
<1>7. Roomy => WithinMemory(a) = Instances
  BY DEF Regular, WithinMemory
<1> QED
  BY <1>1, <1>4, <1>5, <1>6, <1>7 DEF Regular

(* retry_flow.                                                             *)
LEMMA RetryRegular ==
  ASSUME NEW P, NEW D, Placed(P, D), NEW B, NEW N, NEW s,
         Regular(s, P, D, B, N, Instances, Instances),
         NEW r \in Requests, s.node[Flow(r)] = "QUEUED", Fits(s, D[r], s.memory[r])
  PROVE  Regular(RunFlow(s, r, D[r]), P, D, B, N, Instances, Instances)
<1> DEFINE a == RunFlow(s, r, D[r])
<1>1. s \in StateType /\ D[r] \in Instances
  <2>1. P[r] # D[r] /\ s \in StateType
    BY DEF Regular, Good, Stage
  <2> QED
    BY <2>1 DEF Placed, Placing
<1>2. /\ a \in StateType /\ a.inst = s.inst
      /\ a.node = [s.node EXCEPT ![Flow(r)] = "RUNNING"]
      /\ a.generated = s.generated /\ a.preempted = s.preempted
      /\ a.crashed = s.crashed
      /\ UsedMemory(a, D[r]) = UsedMemory(s, D[r]) + s.memory[r]
      /\ \A k \in Instances \ {D[r]} : UsedMemory(a, k) = UsedMemory(s, k)
  BY <1>1, RunFlowLaw
<1> HIDE DEF a
<1>3. a.node[Flow(r)] = "RUNNING" /\ \A n \in Nodes : n # Flow(r) => a.node[n] = s.node[n]
  <2>1. Flow(r) \in Nodes /\ s.node \in [Nodes -> NodeStates]
    BY <1>1, NodesOfRequests DEF StateType
  <2> QED
    BY <1>2, <2>1
<1>4. WithinMemory(s) \subseteq WithinMemory(a)
  BY <1>1, <1>2 DEF WithinMemory, Fits
<1>5. Regular(a, P, D, B, N, Instances, Instances)
  <2>1. /\ s.node[Flow(r)] \in {"QUEUED", "RUNNING"}
        /\ a.node[Flow(r)] \in {"RUNNING", "COMPLETED"}
    BY <1>3
  <2>2. /\ a \in StateType /\ a.inst = s.inst /\ a.generated = s.generated
        /\ a.preempted = s.preempted /\ a.crashed = s.crashed
    BY <1>2
  <2> QED
    BY ONLY <1>3, <1>4, <2>1, <2>2, r \in Requests,
            Regular(s, P, D, B, N, Instances, Instances), FlowRegular
<1> QED
  BY <1>5 DEF a

(* A flow is over, and its source frees the cache.                         *)
Delivered(s, r, P) ==
  [s EXCEPT !.node[Flow(r)] = "COMPLETED", !.alloc[P[r]][r] = @ - s.memory[r]]

FlowOver(s, a, r, P, D) ==
  /\ P[r] \in Instances /\ D[r] \in Instances /\ P[r] # D[r]
  /\ s.node[Prompt(r)] = "COMPLETED" /\ s.node[Token(r)] = "NONE"
  /\ a.alloc = [s.alloc EXCEPT ![P[r]][r] = @ - s.memory[r]]
  /\ a.node[Flow(r)] = "COMPLETED"
  /\ \A n \in Nodes : n # Flow(r) => a.node[n] = s.node[n]
  /\ a.inst = s.inst /\ a.generated = s.generated /\ a.memory = s.memory

(* What a flow leaves that has ended: the source has freed the cache.      *)
LEMMA FlowEndedRegular ==
  ASSUME NEW P, NEW D, Placed(P, D), NEW B, NEW N, NEW s,
         Regular(s, P, D, B, N, Instances, Instances),
         NEW r \in Requests, s.node[Flow(r)] = "RUNNING",
         NEW s0, s0 = Delivered(s, r, P)
  PROVE  Regular(s0, P, D, B, N, Instances, Instances) /\ FlowOver(s, s0, r, P, D)
<1>1. s \in StateType /\ Stage(s, r, P, D)
  BY DEF Regular, Good
<1>2. /\ P[r] \in Instances /\ D[r] \in Instances /\ P[r] # D[r]
      /\ s.node[Prompt(r)] = "COMPLETED" /\ s.node[Token(r)] = "NONE"
  BY <1>1 DEF Stage, Placed, Placing
<1>3. /\ Flow(r) \in Nodes /\ Token(r) \in TaskNodes /\ Token(r).req = r
      /\ Prompt(r) \in Nodes /\ Token(r) \in Nodes
      /\ ~ IsPrompt(Token(r)) /\ Flow(r) # Prompt(r) /\ Flow(r) # Token(r)
  BY NodesOfRequests
<1>4. s.memory[r] \in Nat /\ s.alloc \in [Instances -> [Requests -> Int]]
  BY <1>1 DEF StateType
<1>5. s0.alloc = [s.alloc EXCEPT ![P[r]][r] = @ - s.memory[r]]
      /\ s0.node = [s.node EXCEPT ![Flow(r)] = "COMPLETED"]
      /\ s0.inst = s.inst /\ s0.generated = s.generated /\ s0.preempted = s.preempted
      /\ s0.crashed = s.crashed /\ s0.memory = s.memory /\ s0.free = s.free
  BY <1>1 DEF StateType, Delivered
<1>6. s0 \in StateType
  <2>1. s0.alloc \in [Instances -> [Requests -> Int]]
    <3> DEFINE m == s.alloc[P[r]][r] - s.memory[r]
    <3>1. m \in Int
      BY <1>2, <1>4
    <3>2. s0.alloc = [s.alloc EXCEPT ![P[r]] = [@ EXCEPT ![r] = m]]
      BY <1>2, <1>4, <1>5
    <3> HIDE DEF m
    <3>3. [s.alloc[P[r]] EXCEPT ![r] = m] \in [Requests -> Int]
      BY <1>2, <1>4, <3>1
    <3> QED
      BY <1>2, <1>4, <3>2, <3>3
  <2>2. s0.node \in [Nodes -> NodeStates]
    BY <1>1, <1>5 DEF StateType, NodeStates
  <2>3. s0 = [s EXCEPT !.node = s0.node, !.alloc = s0.alloc]
    BY <1>1, <1>5 DEF StateType, Delivered
  <2> QED
    BY <1>1, <2>1, <2>2, <2>3 DEF StateType
<1>7. s0.node[Flow(r)] = "COMPLETED" /\ \A n \in Nodes : n # Flow(r) => s0.node[n] = s.node[n]
  <2>1. s.node \in [Nodes -> NodeStates]
    BY <1>1 DEF StateType
  <2> QED
    BY <1>3, <1>5, <2>1
<1>8. WithinMemory(s) \subseteq WithinMemory(s0)
  <2> DEFINE m == 0 - s.memory[r]
  <2>1. m \in Int /\ m <= 0
    BY <1>4
  <2>2. \A k \in Instances, q \in Requests :
          s0.alloc[k][q] = IF k = P[r] /\ q = r THEN s.alloc[P[r]][r] + m ELSE s.alloc[k][q]
    <3>1. s0.alloc[P[r]][r] = s.alloc[P[r]][r] - s.memory[r]
      BY <1>2, <1>4, <1>5
    <3>2. s.alloc[P[r]][r] - s.memory[r] = s.alloc[P[r]][r] + m
      <4>1. s.alloc[P[r]][r] \in Int
        BY <1>2, <1>4
      <4> QED
        BY <1>4, <4>1
    <3>3. \A k \in Instances, q \in Requests :
            ~ (k = P[r] /\ q = r) => s0.alloc[k][q] = s.alloc[k][q]
      BY <1>2, <1>4, <1>5
    <3> HIDE DEF m
    <3> QED
      BY <3>1, <3>2, <3>3
  <2> HIDE DEF m
  <2>3. /\ UsedMemory(s0, P[r]) = UsedMemory(s, P[r]) + m
        /\ \A k \in Instances \ {P[r]} : UsedMemory(s0, k) = UsedMemory(s, k)
    <3> DEFINE p == P[r]
    <3>1. p \in Instances
      BY <1>2
    <3>2. \A k \in Instances, q \in Requests :
            s0.alloc[k][q] = IF k = p /\ q = r THEN s.alloc[p][r] + m ELSE s.alloc[k][q]
      BY <2>2
    <3> HIDE DEF p
    <3>3. /\ UsedMemory(s0, p) = UsedMemory(s, p) + m
          /\ \A k \in Instances \ {p} : UsedMemory(s0, k) = UsedMemory(s, k)
      BY ONLY <1>1, <1>6, <2>1, <3>1, <3>2, r \in Requests, AllocChangeLaw
    <3> QED
      BY <3>3 DEF p
  <2>4. UsedMemory(s, P[r]) \in Int /\ MaxMemory \in Int
    BY <1>1, <1>2, UsedMemorySum, InstanceAssumption
  <2>5. UsedMemory(s, P[r]) <= MaxMemory => UsedMemory(s0, P[r]) <= MaxMemory
    BY <2>1, <2>3, <2>4
  <2> QED
    BY <2>3, <2>5 DEF WithinMemory
<1>9. Regular(s0, P, D, B, N, Instances, Instances)
  <2>1. /\ s.node[Flow(r)] \in {"QUEUED", "RUNNING"}
        /\ s0.node[Flow(r)] \in {"RUNNING", "COMPLETED"}
    BY <1>7
  <2>2. /\ s0 \in StateType /\ s0.inst = s.inst /\ s0.generated = s.generated
        /\ s0.preempted = s.preempted /\ s0.crashed = s.crashed
    BY <1>5, <1>6
  <2> QED
    BY ONLY <1>7, <1>8, <2>1, <2>2, r \in Requests,
            Regular(s, P, D, B, N, Instances, Instances), FlowRegular
<1> QED
  BY <1>2, <1>5, <1>7, <1>9 DEF FlowOver

(* flow_completion.                                                        *)
LEMMA FlowCompletionRegular ==
  ASSUME trace \in [Requests -> Shapes], NEW P, NEW D, Placed(P, D), NEW B, NEW N, NEW s,
         Regular(s, P, D, B, N, Instances, Instances),
         \A i \in Instances : ToSet(s.inst[i].batch) \subseteq B[i],
         NEW r \in Requests, s.node[Flow(r)] = "RUNNING",
         NEW s0, s0 = Delivered(s, r, P)
  PROVE  LET a == TaskArrival(s0, D[r], Token(r), D)
         IN \E N2 : /\ Regular(a, P, D, B, N2, Instances, Instances)
                    /\ Regular(NotifyFlowCompletion(a, P[r], D),
                               P, D, B, N2, Instances, Instances)
<1>1. /\ Regular(s0, P, D, B, N, Instances, Instances)
      /\ P[r] \in Instances /\ D[r] \in Instances /\ P[r] # D[r]
      /\ s.node[Prompt(r)] = "COMPLETED" /\ s.node[Token(r)] = "NONE"
      /\ s0.node[Flow(r)] = "COMPLETED"
      /\ \A n \in Nodes : n # Flow(r) => s0.node[n] = s.node[n]
      /\ s0.inst = s.inst
  <2>1. Regular(s0, P, D, B, N, Instances, Instances) /\ FlowOver(s, s0, r, P, D)
    BY ONLY Placed(P, D), Regular(s, P, D, B, N, Instances, Instances), r \in Requests,
            s.node[Flow(r)] = "RUNNING", s0 = Delivered(s, r, P), FlowEndedRegular
  <2> QED
    BY <2>1 DEF FlowOver
<1>2. /\ Token(r) \in TaskNodes /\ Token(r).req = r
      /\ Prompt(r) \in Nodes /\ Token(r) \in Nodes
      /\ ~ IsPrompt(Token(r)) /\ Flow(r) # Prompt(r) /\ Flow(r) # Token(r)
  BY NodesOfRequests
<1> DEFINE a == TaskArrival(s0, D[r], Token(r), D)
           M == N \ {Token(r)}
<1>3. Regular(a, P, D, B, M, Instances, Instances)
  <2>1. MayArrive(s0, Token(r), P, D) /\ Where(P, D, Token(r)) = D[r]
    BY <1>1, <1>2 DEF MayArrive, Where
  <2>2. ToSet(s0.inst[D[r]].batch) \subseteq B[D[r]]
    BY <1>1
  <2> QED
    BY <1>1, <1>2, <2>1, <2>2, TaskArrivalRegular
<1> HIDE DEF a, M
<1>4. Regular(NotifyFlowCompletion(a, P[r], D), P, D, B, M, Instances, Instances)
  BY <1>1, <1>3, NotifyRegular
<1> QED
  BY <1>3, <1>4 DEF a

(* An iteration is over.                                                   *)
LEMMA IterationRegular ==
  ASSUME NEW P, NEW D, NEW B, NEW N, NEW s,
         Regular(s, P, D, B, N, Instances, Instances),
         NEW i \in Instances, NEW a \in StateType,
         Beside(s, a, i), a.node = s.node, SameQueues(s.inst[i], a.inst[i]),
         a.inst[i].iterations = s.inst[i].iterations,
         a.inst[i].handle = s.inst[i].handle,
         a.inst[i].elapsed = s.inst[i].elapsed + 1,
         ~ LateEvents => s.inst[i].elapsed < s.inst[i].iterations - 1
  PROVE  Regular(a, P, D, B, N, Instances, Instances)
<1>1. s \in StateType /\ Good(s, P, D)
  BY DEF Regular, Good
<1>2. Good(a, P, D) /\ SameNone(s, a)
  BY <1>1, CourseGood DEF Beside
<1>3. Idle(a) = N
  BY <1>2 DEF SameNone, Idle, Regular
<1>4. ASSUME NEW j \in Instances
      PROVE  Course(a, j)
  <2>1. Course(s, j)
    BY DEF Regular
  <2>2. CASE j # i
    BY <2>1, <2>2, CourseElsewhere DEF Beside
  <2>3. CASE j = i
    <3>1. s.inst[i].elapsed \in Int /\ s.inst[i].iterations \in Int
      BY <1>1, QueueFields
    <3>2. ASSUME Punctual, s.inst[i].elapsed >= 0
          PROVE  a.inst[i].elapsed >= 0 /\ a.inst[i].elapsed <= a.inst[i].iterations - 1
      BY <3>1, <3>2 DEF Punctual
    <3>3. a.generated = s.generated
      BY DEF Beside
    <3> QED
      BY <2>1, <2>3, <3>2, <3>3 DEF Course, SameQueues
  <2> QED
    BY <2>2, <2>3
<1>5. \A j \in Instances :
        /\ a.inst[j].batch = s.inst[j].batch /\ a.inst[j].pool = s.inst[j].pool
        /\ a.inst[j].handle = s.inst[j].handle
  BY DEF Beside, SameQueues
<1>6. \A j \in Orca : FirstCome(B[j], a.inst[j].batch, a.inst[j].pool)
  BY <1>5, InstanceAssumption DEF Regular
<1>7. WithinMemory(a) = WithinMemory(s) /\ a.generated = s.generated /\ a.crashed = s.crashed
  BY DEF WithinMemory, UsedMemory, Beside
<1> QED
  BY <1>2, <1>3, <1>4, <1>5, <1>6, <1>7 DEF Regular

(* The state after an action, with the batches that the next one finds.    *)
Batches(s) == [i \in Instances |-> ToSet(s.inst[i].batch)]

(* It is again as the invariant says, whatever was reported free.          *)
LEMMA NextRegular ==
  ASSUME NEW P, NEW D, NEW B, NEW N, NEW s,
         Regular(s, P, D, B, N, Instances, Instances), NEW a \in StateType,
         a.inst = s.inst, a.node = s.node, a.generated = s.generated,
         a.preempted = s.preempted, a.alloc = s.alloc, a.crashed = s.crashed
  PROVE  Regular(a, P, D, Batches(a), Idle(a), Instances, Instances)
<1>1. Good(a, P, D)
  BY DEF Regular, Good, Stage
<1>2. \A j \in Instances : Course(a, j)
  BY DEF Regular, Course
<1>3. \A j \in Orca : FirstCome(Batches(a)[j], a.inst[j].batch, a.inst[j].pool)
  BY InstanceAssumption DEF FirstCome, Batches
<1>4. WithinMemory(a) = WithinMemory(s)
  BY DEF WithinMemory, UsedMemory
<1> QED
  BY <1>1, <1>2, <1>3, <1>4 DEF Regular

(* Requests are placed in the order of their arrival.                      *)
InOrder ==
  \A q, r \in Requests : promptOn[q] # NoInstance /\ r < q => promptOn[r] # NoInstance

(* The inductive invariant of the cluster.                                 *)
ClusterInv ==
  /\ trace \in [Requests -> Shapes]
  /\ Placed(promptOn, tokenOn) /\ InOrder
  /\ Regular(State, promptOn, tokenOn, Batches(State), Idle(State), Instances, Instances)

(* The queues of an instance to which nothing has been submitted.          *)
LEMMA IdleSound ==
  ASSUME NEW nd
  PROVE  /\ IdleInstance \in QueueType /\ IdleInstance.batch = <<>>
         /\ Sound(IdleInstance, nd, {}) /\ Running(IdleInstance, nd)
         /\ Len(IdleInstance.batch) <= MaxBatchSize
<1>1. IdleInstance \in QueueType /\ IdleInstance.batch = <<>>
  <2>1. <<>> \in Seq(TaskNodes) /\ <<>> \in Seq(Requests)
    OBVIOUS
  <2> QED
    BY <2>1 DEF IdleInstance, QueueType
<1>2. Len(IdleInstance.batch) <= MaxBatchSize
  <2>1. Len(<<>>) = 0 /\ MaxBatchSize \in Nat
    BY InstanceAssumption
  <2> QED
    BY <1>1, <2>1
<1>3. IsInjective(<<>>) /\ Sorted(<<>>) /\ ToSet(<<>>) = {}
  BY DEF IsInjective, Sorted, ToSet
<1>4. IdleInstance.pending = <<>> /\ IdleInstance.prompts = <<>>
      /\ IdleInstance.blocked = <<>> /\ IdleInstance.pool = <<>>
  BY DEF IdleInstance
<1>5. Sound(IdleInstance, nd, {})
  BY <1>1, <1>3, <1>4 DEF Sound
<1>6. Running(IdleInstance, nd)
  BY <1>1, <1>3 DEF Running
<1> QED
  BY <1>1, <1>2, <1>5, <1>6

(* In the beginning nothing has arrived.                                   *)
LEMMA InitInv ==
  ASSUME ClusterInit
  PROVE  ClusterInv
<1> DEFINE s == State
           P == promptOn
           D == tokenOn
<1>1. /\ s.inst = [i \in Instances |-> IdleInstance]
      /\ s.node = [n \in Nodes |-> "NONE"]
      /\ s.generated = [t \in TaskNodes |-> 0]
      /\ s.preempted = [t \in TaskNodes |-> 0]
      /\ s.alloc = [i \in Instances |-> [r \in Requests |-> 0]]
      /\ s.memory = [r \in Requests |-> 0]
      /\ s.crashed = FALSE /\ s.free = {}
      /\ P = [r \in Requests |-> NoInstance] /\ D = [r \in Requests |-> NoInstance]
      /\ trace \in [Requests -> Shapes]
  BY DEF ClusterInit, State
<1>2. s = [inst |-> s.inst, node |-> s.node, generated |-> s.generated,
           preempted |-> s.preempted, alloc |-> s.alloc, memory |-> s.memory,
           free |-> s.free, crashed |-> s.crashed]
  BY DEF State
<1> HIDE DEF s, P, D
<1>3. s \in StateType
  <2>1. IdleInstance \in QueueType
    BY IdleSound
  <2>2. s.inst \in [Instances -> QueueType] /\ s.node \in [Nodes -> NodeStates]
    BY <1>1, <2>1 DEF NodeStates
  <2>3. s.generated \in [TaskNodes -> Int] /\ s.preempted \in [TaskNodes -> Nat]
        /\ s.memory \in [Requests -> Nat]
    BY <1>1
  <2>4. s.alloc \in [Instances -> [Requests -> Int]]
    <3>1. [r \in Requests |-> 0] \in [Requests -> Int]
      OBVIOUS
    <3> QED
      BY <1>1, <3>1
  <2>5. s.free \in SUBSET Instances /\ s.crashed \in BOOLEAN
    BY <1>1
  <2> QED
    BY <1>2, <2>2, <2>3, <2>4, <2>5 DEF StateType
<1>4. Placed(P, D)
  BY <1>1 DEF Placed, Placing
<1>5. InOrder
  BY <1>1 DEF InOrder, P
<1>6. \A j \in Instances : At(s.node, P, D, j) = {}
  BY <1>1 DEF At, Live, Nodes
<1>7. \A r \in Requests : Stage(s, r, P, D)
  <2>1. \A r \in Requests :
          /\ s.node[Prompt(r)] = "NONE" /\ s.node[Token(r)] = "NONE"
          /\ s.node[Flow(r)] = "NONE" /\ s.preempted[Token(r)] = 0
    BY <1>1, NodesOfRequests
  <2> QED
    BY <2>1 DEF Stage
<1>8. Good(s, P, D)
  BY <1>1, <1>3, <1>6, <1>7, IdleSound DEF Good
<1>9. \A j \in Instances : s.inst[j].batch = <<>> /\ ToSet(s.inst[j].batch) = {}
  BY <1>1, IdleSound DEF ToSet
<1>10. \A j \in Instances : Course(s, j)
  BY <1>9 DEF Course
<1>11. \A j \in Orca : FirstCome(Batches(s)[j], s.inst[j].batch, s.inst[j].pool)
  BY <1>9, InstanceAssumption DEF FirstCome
<1>12. Roomy => WithinMemory(s) = Instances
  <2>1. ASSUME NEW j \in Instances
        PROVE  UsedMemory(s, j) = ModelSize
    <3> DEFINE f == s.alloc[j]
    <3>1. UsedMemory(s, j) = ModelSize + SumFunctionOnSet(f, Requests)
      BY <1>3, UsedMemorySum
    <3>2. \A r \in Requests : f[r] = 0
      BY <1>1
    <3> HIDE DEF f
    <3>3. SumFunctionOnSet(f, Requests) = 0
      BY <3>2, TraceAssumption, SumZero
    <3> QED
      BY <3>1, <3>3, InstanceAssumption
  <2> QED
    BY <2>1 DEF Roomy, WithinMemory
<1>13. Punctual =>
         /\ \A t \in TaskNodes : s.node[t] # "COMPLETED" => s.generated[t] < TokensToGenerate(t)
         /\ ~ s.crashed
  <2>1. ASSUME Punctual, NEW t \in TaskNodes
        PROVE  0 < TokensToGenerate(t)
    <3>1. t.req \in Requests
      BY TaskParts
    <3>2. trace[t.req] \in Shapes /\ trace[t.req].token \in Nat
      BY <1>1, <3>1, ShapesAssumption
    <3>3. trace[t.req].token >= 2
      BY <2>1, <3>2 DEF Punctual
    <3>4. 1 > 0 /\ trace[t.req].token - 1 > 0
      BY <3>2, <3>3
    <3> QED
      BY <3>4 DEF TokensToGenerate
  <2> QED
    BY <1>1, <2>1
<1>14. Regular(s, P, D, Batches(s), Idle(s), Instances, Instances)
  BY <1>8, <1>9, <1>10, <1>11, <1>12, <1>13 DEF Regular
<1> QED
  BY <1>1, <1>4, <1>5, <1>14 DEF ClusterInv, s, P, D

(* An action whose handlers lead to the state s keeps the invariant; and   *)
(* the batches of ORCA instances have grown first come, first served.      *)
LEMMA BecomesInv ==
  ASSUME ClusterInv, trace' = trace, NEW s, NEW N,
         Regular(s, promptOn', tokenOn', Batches(State), N, Instances, Instances),
         Becomes(s), Placed(promptOn', tokenOn'), InOrder'
  PROVE  /\ ClusterInv'
         /\ \A i \in Orca : FirstCome(ToSet(inst[i].batch), inst'[i].batch, inst'[i].pool)
<1> DEFINE a == State'
<1>1. s \in StateType
  BY DEF Regular, Good
<1>2. /\ a.inst = s.inst /\ a.node = s.node /\ a.generated = s.generated
      /\ a.preempted = s.preempted /\ a.alloc = s.alloc /\ a.memory = s.memory
      /\ a.crashed = s.crashed /\ a.free = {}
      /\ a = [inst |-> a.inst, node |-> a.node, generated |-> a.generated,
              preempted |-> a.preempted, alloc |-> a.alloc, memory |-> a.memory,
              free |-> a.free, crashed |-> a.crashed]
  BY DEF Becomes, State
<1>3. inst' = s.inst
  BY DEF Becomes
<1> HIDE DEF a
<1>4. a \in StateType
  <2>1. /\ s.inst \in [Instances -> QueueType] /\ s.node \in [Nodes -> NodeStates]
        /\ s.generated \in [TaskNodes -> Int] /\ s.preempted \in [TaskNodes -> Nat]
        /\ s.alloc \in [Instances -> [Requests -> Int]] /\ s.memory \in [Requests -> Nat]
        /\ s.crashed \in BOOLEAN
    BY <1>1 DEF StateType
  <2>2. /\ a.inst \in [Instances -> QueueType] /\ a.node \in [Nodes -> NodeStates]
        /\ a.generated \in [TaskNodes -> Int] /\ a.preempted \in [TaskNodes -> Nat]
        /\ a.alloc \in [Instances -> [Requests -> Int]] /\ a.memory \in [Requests -> Nat]
        /\ a.crashed \in BOOLEAN /\ a.free \in SUBSET Instances
    BY <1>2, <2>1
  <2> QED
    BY <1>2, <2>2 DEF StateType
<1>5. Regular(a, promptOn', tokenOn', Batches(a), Idle(a), Instances, Instances)
  BY <1>2, <1>4, NextRegular
<1>6. Regular(State, promptOn, tokenOn, Batches(State), Idle(State), Instances, Instances)'
  <2>1. \A t : TokensToGenerate(t)' = TokensToGenerate(t)
    BY DEF TokensToGenerate
  <2>2. TokensOf' = TokensOf
    BY DEF TokensOf, TokensPerIteration
  <2>3. \A j : Course(State, j)' <=> Course(a, j)
    BY <2>1, <2>2 DEF Course, a
  <2> QED
    BY <1>5, <2>1, <2>3 DEF Regular, a
<1>7. ClusterInv'
  BY <1>6 DEF ClusterInv
<1>8. ASSUME NEW i \in Orca
      PROVE  FirstCome(ToSet(inst[i].batch), inst'[i].batch, inst'[i].pool)
  <2>1. i \in Instances /\ State.inst = inst
    BY InstanceAssumption DEF State
  <2>2. FirstCome(Batches(State)[i], s.inst[i].batch, s.inst[i].pool)
    BY DEF Regular
  <2> QED
    BY <1>3, <2>1, <2>2 DEF Batches
<1> QED
  BY <1>7, <1>8

(* A request arrives.                                                      *)
LEMMA RequestArrivalInv ==
  ASSUME ClusterInv, NEW r \in Requests, NEW p \in Instances, NEW x \in Instances,
         RequestArrival(r, p, x)
  PROVE  /\ ClusterInv'
         /\ \A i \in Orca : FirstCome(ToSet(inst[i].batch), inst'[i].batch, inst'[i].pool)
<1> DEFINE a == Submit(State, r, p, x, tokenOn')
<1>2. /\ promptOn[r] = NoInstance /\ \A q \in Requests : q < r => promptOn[q] # NoInstance
      /\ promptOn' = [promptOn EXCEPT ![r] = p] /\ tokenOn' = [tokenOn EXCEPT ![r] = x]
      /\ Becomes(a) /\ trace' = trace
  BY DEF RequestArrival, IsNext
<1> HIDE DEF a
<1>3. /\ trace \in [Requests -> Shapes] /\ Placed(promptOn, tokenOn) /\ InOrder
      /\ Regular(State, promptOn, tokenOn, Batches(State), Idle(State), Instances, Instances)
  BY DEF ClusterInv
<1>4. \A q \in Requests : r < q => promptOn[q] = NoInstance
  BY <1>2, <1>3 DEF InOrder
<1>5. \E N : Regular(a, promptOn', tokenOn', Batches(State), N, Instances, Instances)
  <2>1. \E N : Regular(Submit(State, r, p, x, [tokenOn EXCEPT ![r] = x]),
                       [promptOn EXCEPT ![r] = p], [tokenOn EXCEPT ![r] = x],
                       Batches(State), N, Instances, Instances)
    BY <1>2, <1>3, <1>4, SubmitRegular
  <2> QED
    BY <1>2, <2>1 DEF a
<1>6. Placed(promptOn', tokenOn')
  BY <1>2, <1>3, PlacementAssumption DEF Placed, Placing
<1>7. InOrder'
  <2>1. promptOn \in [Requests -> Instances \cup {NoInstance}]
    BY <1>3 DEF Placed, Placing
  <2>2. promptOn'[r] # NoInstance /\ \A q \in Requests : q # r => promptOn'[q] = promptOn[q]
    BY <1>2, <2>1, PlacementAssumption
  <2>3. ASSUME NEW q \in Requests, NEW y \in Requests, promptOn'[q] # NoInstance, y < q
        PROVE  promptOn'[y] # NoInstance
    BY <1>2, <1>3, <2>2, <2>3 DEF InOrder
  <2> QED
    BY <2>3 DEF InOrder
<1> QED
  BY <1>2, <1>5, <1>6, <1>7, BecomesInv

(* The placement of requests stays.                                        *)
LEMMA SamePlacement ==
  ASSUME ClusterInv, UNCHANGED <<trace, promptOn, tokenOn>>
  PROVE  Placed(promptOn', tokenOn') /\ InOrder'
  BY DEF ClusterInv, InOrder

(* The run of an instance is over.                                         *)
LEMMA IterationCompletionInv ==
  ASSUME ClusterInv, NEW i \in Instances, IterationCompletion(i)
  PROVE  /\ ClusterInv'
         /\ \A j \in Orca : FirstCome(ToSet(inst[j].batch), inst'[j].batch, inst'[j].pool)
<1> DEFINE a == CompleteIteration(State, i, tokenOn)
           B == Batches(State)
           N == Idle(State)
<1>1. Becomes(a) /\ UNCHANGED <<trace, promptOn, tokenOn>>
  BY DEF IterationCompletion
<1> HIDE DEF a
<1>2. /\ trace \in [Requests -> Shapes] /\ Placed(promptOn, tokenOn)
      /\ Regular(State, promptOn, tokenOn, B, N, Instances, Instances)
  BY DEF ClusterInv
<1>3. ToSet(State.inst[i].batch) \subseteq B[i]
  BY DEF Batches
<1> HIDE DEF B, N
<1>4. Regular(CompleteIteration(State, i, tokenOn), promptOn, tokenOn, B, N, Instances, Instances)
  BY <1>2, <1>3, CompleteIterationRegular
<1>5. Regular(a, promptOn', tokenOn', B, N, Instances, Instances)
  BY <1>1, <1>4 DEF a
<1> QED
  BY <1>1, <1>5, BecomesInv, SamePlacement DEF B

(* A flow is over.                                                         *)
LEMMA FlowCompletionInv ==
  ASSUME ClusterInv, NEW r \in Requests, FlowCompletion(r)
  PROVE  /\ ClusterInv'
         /\ \A j \in Orca : FirstCome(ToSet(inst[j].batch), inst'[j].batch, inst'[j].pool)
<1> DEFINE s0 == Delivered(State, r, promptOn)
           a == NotifyFlowCompletion(TaskArrival(s0, tokenOn[r], Token(r), tokenOn),
                                     promptOn[r], tokenOn)
           B == Batches(State)
<1>1. Becomes(a) /\ UNCHANGED <<trace, promptOn, tokenOn>> /\ State.node[Flow(r)] = "RUNNING"
  <2>1. State.memory = memory /\ State.node = node
    BY DEF State
  <2> QED
    BY <2>1 DEF FlowCompletion, Delivered
<1>2. /\ trace \in [Requests -> Shapes] /\ Placed(promptOn, tokenOn)
      /\ Regular(State, promptOn, tokenOn, B, Idle(State), Instances, Instances)
  BY DEF ClusterInv
<1>3. \A i \in Instances : ToSet(State.inst[i].batch) \subseteq B[i]
  BY DEF Batches
<1> HIDE DEF s0, B
<1>4. s0 = Delivered(State, r, promptOn)
  BY DEF s0
<1>5. \E N : Regular(a, promptOn, tokenOn, B, N, Instances, Instances)
  BY <1>1, <1>2, <1>3, <1>4, FlowCompletionRegular
<1> HIDE DEF a
<1>6. \E N : Regular(a, promptOn', tokenOn', B, N, Instances, Instances)
  BY <1>1, <1>5
<1> QED
  BY <1>1, <1>6, BecomesInv, SamePlacement DEF B

(* A flow is retried.                                                      *)
LEMMA RetryFlowInv ==
  ASSUME ClusterInv, NEW r \in Requests, RetryFlow(r)
  PROVE  /\ ClusterInv'
         /\ \A j \in Orca : FirstCome(ToSet(inst[j].batch), inst'[j].batch, inst'[j].pool)
<1> DEFINE a == RunFlow(State, r, tokenOn[r])
<1>1. /\ Becomes(a) /\ UNCHANGED <<trace, promptOn, tokenOn>>
      /\ State.node[Flow(r)] = "QUEUED" /\ Fits(State, tokenOn[r], State.memory[r])
  <2>1. State.memory = memory /\ State.node = node
    BY DEF State
  <2> QED
    BY <2>1 DEF RetryFlow
<1>2. /\ Placed(promptOn, tokenOn)
      /\ Regular(State, promptOn, tokenOn, Batches(State), Idle(State), Instances, Instances)
  BY DEF ClusterInv
<1>3. Regular(a, promptOn, tokenOn, Batches(State), Idle(State), Instances, Instances)
  BY <1>1, <1>2, RetryRegular
<1> HIDE DEF a
<1>4. Regular(a, promptOn', tokenOn', Batches(State), Idle(State), Instances, Instances)
  BY <1>1, <1>3
<1> QED
  BY <1>1, <1>4, BecomesInv, SamePlacement

(* An iteration is over.                                                   *)
LEMMA IterationOverInv ==
  ASSUME ClusterInv, NEW i \in Instances, IterationOver(i)
  PROVE  /\ ClusterInv'
         /\ \A j \in Orca : FirstCome(ToSet(inst[j].batch), inst'[j].batch, inst'[j].pool)
<1> DEFINE q == State.inst[i]
           u == [q EXCEPT !.elapsed = q.elapsed + 1]
           a == WithQueue(State, i, u)
           B == Batches(State)
           N == Idle(State)
<1>1. /\ Placed(promptOn, tokenOn)
      /\ Regular(State, promptOn, tokenOn, B, N, Instances, Instances)
      /\ State \in StateType
  BY DEF ClusterInv, Regular, Good
<1>2. q \in QueueType /\ q.elapsed \in Int
  BY <1>1, QueueFields
<1>3. /\ u \in QueueType /\ SameQueues(q, u) /\ u.iterations = q.iterations
      /\ u.handle = q.handle /\ u.elapsed = q.elapsed + 1
  <2> DEFINE n == q.elapsed + 1
  <2>1. n \in Int
    BY <1>2
  <2> HIDE DEF q, n
  <2>2. [q EXCEPT !.elapsed = n] \in QueueType
    BY <1>2, <2>1 DEF QueueType
  <2>3. LET z == [q EXCEPT !.elapsed = n]
        IN /\ SameQueues(q, z) /\ z.iterations = q.iterations
           /\ z.handle = q.handle /\ z.elapsed = n
    BY <1>2 DEF QueueType, SameQueues
  <2> QED
    BY <2>2, <2>3 DEF n
<1>4. /\ inst' = [inst EXCEPT ![i].elapsed = @ + 1]
      /\ UNCHANGED <<trace, node, generated, preempted, alloc, memory, crashed,
                     promptOn, tokenOn>>
      /\ inst[i].elapsed < inst[i].iterations - (IF LateEvents THEN 0 ELSE 1)
  BY DEF IterationOver
<1>5. ~ LateEvents => q.elapsed < q.iterations - 1
  BY <1>4 DEF State
<1>6. State.inst = inst
  BY DEF State
<1>7. inst' = [inst EXCEPT ![i] = u]
  BY <1>4, <1>6
<1>8. Becomes(a)
  BY <1>4, <1>7 DEF Becomes, State, WithQueue
<1> HIDE DEF u, q
<1>9. a \in StateType /\ a.inst[i] = u /\ a.node = State.node /\ Beside(State, a, i)
  BY <1>1, <1>3, BesideWithQueue
<1> HIDE DEF a, B, N
<1>10. Regular(a, promptOn, tokenOn, B, N, Instances, Instances)
  BY <1>1, <1>3, <1>5, <1>9, IterationRegular DEF q
<1>11. Regular(a, promptOn', tokenOn', B, N, Instances, Instances)
  BY <1>4, <1>10
<1> QED
  BY <1>4, <1>8, <1>11, BecomesInv, SamePlacement DEF B

(* Every action keeps the invariant, and the batches of ORCA instances     *)
(* grow first come, first served.                                          *)
LEMMA NextInv ==
  ASSUME ClusterInv, ClusterNext
  PROVE  /\ ClusterInv'
         /\ \A j \in Orca : FirstCome(ToSet(inst[j].batch), inst'[j].batch, inst'[j].pool)
<1>1. CASE Finished
  <2>1. UNCHANGED cvars
    BY <1>1 DEF Finished
  <2>2. ClusterInv'
    <3> DEFINE N == Idle(State)
               B == Batches(State)
    <3>1. Regular(State, promptOn', tokenOn', B, N, Instances, Instances)
          /\ Becomes(State) /\ trace' = trace
      BY <2>1 DEF cvars, ClusterInv, Becomes, State
    <3>2. Placed(promptOn', tokenOn') /\ InOrder'
      BY <2>1, SamePlacement DEF cvars
    <3> HIDE DEF N
    <3> QED
      BY <3>1, <3>2, BecomesInv
  <2>3. inst' = inst
    BY <2>1 DEF cvars
  <2> QED
    BY <2>2, <2>3 DEF FirstCome
<1>2. CASE \E r \in Requests, d \in Placements : RequestArrival(r, d[1], d[2])
  <2>1. \A d \in Placements : d[1] \in Instances /\ d[2] \in Instances
    BY PlacementAssumption
  <2> QED
    BY <1>2, <2>1, RequestArrivalInv
<1>3. CASE \E i \in Instances : IterationOver(i) \/ IterationCompletion(i)
  BY <1>3, IterationOverInv, IterationCompletionInv
<1>4. CASE \E r \in Requests : FlowCompletion(r) \/ RetryFlow(r)
  BY <1>4, FlowCompletionInv, RetryFlowInv
<1> QED
  BY <1>1, <1>2, <1>3, <1>4 DEF ClusterNext

(* Nothing changes.                                                        *)
LEMMA StutterInv ==
  ASSUME ClusterInv, UNCHANGED cvars
  PROVE  ClusterInv'
<1> DEFINE N == Idle(State)
           B == Batches(State)
<1>1. Regular(State, promptOn', tokenOn', B, N, Instances, Instances)
      /\ Becomes(State) /\ trace' = trace
  BY DEF cvars, ClusterInv, Becomes, State
<1>2. Placed(promptOn', tokenOn') /\ InOrder'
  BY SamePlacement DEF cvars
<1> HIDE DEF N
<1> QED
  BY <1>1, <1>2, BecomesInv

(* The invariant holds in every behaviour of the cluster.                  *)
THEOREM ClusterIsRegular == ClusterSpec => []ClusterInv
<1>1. ClusterInit => ClusterInv
  BY InitInv
<1>2. ClusterInv /\ [ClusterNext]_cvars => ClusterInv'
  BY NextInv, StutterInv
<1> QED
  BY <1>1, <1>2, PTL DEF ClusterSpec
-----------------------------------------------------------------------------
(* The queues of the invariant are those of the property.                  *)
LEMMA RegularQueuesAgree ==
  ASSUME ClusterInv
  PROVE  QueuesAgree
<1>1. /\ Good(State, promptOn, tokenOn) /\ State.inst = inst /\ State.node = node
  BY DEF ClusterInv, Regular, State
<1>2. ASSUME NEW i \in Instances
      PROVE  LET q == inst[i]
                 waiting == ToSet(q.pending)
                 running == ToSet(q.batch)
             IN /\ \A seq \in {q.pending, q.prompts, q.blocked, q.batch} : IsInjective(seq)
                /\ waiting \cup running = TasksAt(i)
                /\ running = {t \in TasksAt(i) : node[t] = "RUNNING"}
                /\ ToSet(q.blocked) = {t \in TasksAt(i) : node[t] = "BLOCKED"}
                /\ ToSet(q.prompts) = {t \in waiting : IsPrompt(t)}
                /\ ToSet(q.pool) = {t.req : t \in TasksAt(i)}
                /\ \A j, k \in DOMAIN q.pool : j < k => q.pool[j] < q.pool[k]
  <2> DEFINE q == inst[i]
             at == TasksAt(i)
  <2>1. at = At(node, promptOn, tokenOn, i)
    BY DEF TasksAt, At, Live, Where
  <2>2. Sound(q, node, at) /\ Running(q, node)
    BY <1>1, <2>1 DEF Good
  <2>3. \A t \in at : node[t] \in {"QUEUED", "RUNNING", "BLOCKED"}
    BY DEF TasksAt
  <2> HIDE DEF q, at
  <2>4. ToSet(q.pending) \cup ToSet(q.batch) = at
    BY <2>2 DEF Sound
  <2>5. ToSet(q.batch) = {t \in at : node[t] = "RUNNING"}
    BY <2>2 DEF Sound, Running
  <2>6. ToSet(q.blocked) = {t \in at : node[t] = "BLOCKED"}
    BY <2>2 DEF Sound, Running
  <2> QED
    BY <2>2, <2>4, <2>5, <2>6 DEF Sound, Sorted, q, at
<1> QED
  BY <1>2 DEF QueuesAgree

(* The queues, the batch and the node states of every instance tell one    *)
(* story, whatever the requests, their sizes, the instances, the limits    *)
(* and the placements.                                                     *)
THEOREM QueuesTellOneStory == ClusterSpec => []QueuesAgree
  BY ClusterIsRegular, RegularQueuesAgree, PTL

(* With memory for the weights, the requests never exceed the memory of an *)
(* instance: admission, transfers and the growth of the cache.             *)
THEOREM MemorySuffices == ModelSize <= MaxMemory => (ClusterSpec => []MemoryFits)
<1> SUFFICES ASSUME ModelSize <= MaxMemory
             PROVE  ClusterSpec => []MemoryFits
  OBVIOUS
<1>1. ClusterInv => MemoryFits
  BY DEF ClusterInv, Regular, Roomy, WithinMemory, MemoryFits
<1> QED
  BY <1>1, ClusterIsRegular, PTL

(* Runs of iterations are exact, if no event is handled at the very time   *)
(* at which a run ends and every request generates two tokens at least.    *)
THEOREM RunsDoNotOvershoot ==
  (~ LateEvents /\ \A x \in Shapes : x.token >= 2) => (ClusterSpec => []RunsAreExact)
<1> SUFFICES ASSUME ~ LateEvents /\ \A x \in Shapes : x.token >= 2
             PROVE  ClusterSpec => []RunsAreExact
  OBVIOUS
<1>1. Punctual
  BY DEF Punctual
<1>2. ClusterInv => RunsAreExact
  BY <1>1 DEF ClusterInv, Regular, Course, RunsAreExact, State
<1> QED
  BY <1>2, ClusterIsRegular, PTL

(* A run that is to be paused has its completion event, under the same     *)
(* conditions.                                                             *)
THEOREM PausesFindEvents ==
  (~ LateEvents /\ \A x \in Shapes : x.token >= 2) => (ClusterSpec => []PauseFindsEvent)
<1> SUFFICES ASSUME ~ LateEvents /\ \A x \in Shapes : x.token >= 2
             PROVE  ClusterSpec => []PauseFindsEvent
  OBVIOUS
<1>1. Punctual
  BY DEF Punctual
<1>2. ClusterInv => PauseFindsEvent
  BY <1>1 DEF ClusterInv, Regular, PauseFindsEvent, State
<1> QED
  BY <1>2, ClusterIsRegular, PTL

(* A task that joins the batch of an ORCA instance overtakes no older      *)
(* request of its pool.                                                    *)
THEOREM OrcaServesFirstCome == ClusterSpec => OrcaIsFirstCome
<1> DEFINE A == \A i \in Orca :
                  \A t \in ToSet(inst'[i].batch) \ ToSet(inst[i].batch),
                     r \in ToSet(inst'[i].pool) :
                    r < t.req => \E u \in ToSet(inst'[i].batch) : u.req = r
<1>1. ClusterInv /\ [ClusterNext]_cvars => [A]_cvars
  <2> SUFFICES ASSUME ClusterInv, ClusterNext
               PROVE  A
    OBVIOUS
  <2>1. \A i \in Orca : FirstCome(ToSet(inst[i].batch), inst'[i].batch, inst'[i].pool)
    BY NextInv
  <2> QED
    BY <2>1 DEF FirstCome, RequestsOf
<1> QED
  BY <1>1, ClusterIsRegular, PTL DEF ClusterSpec, OrcaIsFirstCome

(* The tokens of a batch, one task after the other.                        *)
Adding == INSTANCE LoopLaws WITH
  Op <- LAMBDA x, y, a, t : a + TokensPerIteration(t)

(* batch_tokens, task by task, is a loop.                                  *)
LEMMA AddingIsLoop ==
  ASSUME NEW batch
  PROVE  FoldLeft(LAMBDA a, t : a + TokensPerIteration(t), 0, batch)
           = Adding!Loop(0, 0, 0, batch)
  BY DEF FoldLeft, MapThenFoldSet, Max, Adding!Loop,
         Adding!MapThenFoldSet, Adding!Max

(* They are the sum over its tasks.                                        *)
LEMMA TokensOfBatch ==
  ASSUME trace \in [Requests -> Shapes], NEW b \in Seq(TaskNodes), IsInjective(b)
  PROVE  FoldLeft(LAMBDA a, t : a + TokensPerIteration(t), 0, b)
           = SumFunctionOnSet(TokensOf, ToSet(b))
<1> DEFINE sum(k) == SumFunctionOnSet(TokensOf, FirstOf(b, k))
           J == [k \in 0 .. Len(b) |-> {sum(k)}]
<1>1. Len(b) \in Nat /\ 0 \in 0 .. Len(b) /\ Len(b) \in 0 .. Len(b)
  OBVIOUS
<1>2. 0 \in J[0]
  <2>1. sum(0) = 0
    BY FirstOfLaw, SumEmpty
  <2> HIDE DEF sum
  <2> QED
    BY <1>1, <2>1
<1>3. ASSUME NEW k \in 1 .. Len(b), NEW a \in J[k - 1]
      PROVE  a + TokensPerIteration(b[k]) \in J[k]
  <2>1. /\ k - 1 \in 0 .. Len(b) /\ k \in 0 .. Len(b)
        /\ FirstOf(b, k) = FirstOf(b, k - 1) \cup {b[k]}
        /\ b[k] \in TaskNodes /\ b[k] \notin FirstOf(b, k - 1)
        /\ FirstOf(b, k) \subseteq ToSet(b)
    BY FirstOfLaw
  <2>2. FirstOf(b, k - 1) \in SUBSET TaskNodes /\ IsFiniteSet(FirstOf(b, k - 1))
    <3>1. FirstOf(b, k - 1) \subseteq ToSet(b)
      BY <2>1
    <3>2. ToSet(b) \subseteq TaskNodes /\ IsFiniteSet(ToSet(b))
      BY ElementsAreTasks, LengthOfSet
    <3> QED
      BY <3>1, <3>2, FS_Subset
  <2>3. sum(k) = sum(k - 1) + TokensPerIteration(b[k])
    <3> DEFINE S == FirstOf(b, k - 1)
               t == b[k]
    <3> HIDE DEF S, t
    <3>1. SumFunctionOnSet(TokensOf, S \cup {t})
            = SumFunctionOnSet(TokensOf, S) + TokensPerIteration(t)
      BY <2>1, <2>2, SumsOfOneMore DEF S, t
    <3> QED
      BY <2>1, <3>1 DEF S, t
  <2> HIDE DEF sum
  <2>4. a = sum(k - 1)
    BY <2>1
  <2> QED
    BY <2>1, <2>3, <2>4
<1> HIDE DEF J
<1>4. Adding!Loop(0, 0, 0, b) \in J[Len(b)]
  BY <1>1, <1>2, <1>3, Induction, Adding!LoopInvariant
<1> DEFINE l == Adding!Loop(0, 0, 0, b)
<1> HIDE DEF l, sum
<1>5. l = sum(Len(b))
  BY <1>1, <1>4 DEF J, l
<1>6. sum(Len(b)) = SumFunctionOnSet(TokensOf, ToSet(b))
  BY FirstOfLaw DEF sum
<1> QED
  BY <1>5, <1>6, AddingIsLoop DEF l

(* The requests of a batch are as many as its tasks.                       *)
LEMMA RequestsOfBatch ==
  ASSUME NEW b \in Seq(TaskNodes), IsInjective(b),
         \A t \in ToSet(b), u \in ToSet(b) : t.req = u.req => t = u
  PROVE  Cardinality({t.req : t \in ToSet(b)}) = Len(b)
<1> DEFINE f == [k \in 1 .. Len(b) |-> b[k].req]
<1>1. \A k \in 1 .. Len(b) : b[k] \in ToSet(b) /\ b[k].req \in Requests
  BY TaskParts DEF ToSet
<1>2. f \in Seq(Requests) /\ Len(f) = Len(b) /\ DOMAIN f = 1 .. Len(b)
  BY <1>1
<1>3. IsInjective(f)
  <2>1. ASSUME NEW j \in 1 .. Len(b), NEW k \in 1 .. Len(b), b[j].req = b[k].req
        PROVE  j = k
    <3>1. b[j] = b[k]
      BY <1>1, <2>1
    <3> QED
      BY <3>1 DEF IsInjective
  <2> QED
    BY <1>2, <2>1 DEF IsInjective
<1>4. ToSet(f) = {t.req : t \in ToSet(b)}
  BY <1>2 DEF ToSet
<1> HIDE DEF f
<1> QED
  BY <1>2, <1>3, <1>4, LengthOfSet

(* The runs of the invariant are within the limits.                        *)
LEMMA RegularWithinLimits ==
  ASSUME ClusterInv
  PROVE  BatchWithinLimits
<1>1. /\ Good(State, promptOn, tokenOn) /\ Placed(promptOn, tokenOn)
      /\ State \in StateType /\ State.inst = inst
      /\ trace \in [Requests -> Shapes] /\ \A i \in Instances : Course(State, i)
  BY DEF ClusterInv, Regular, Good, State
<1>2. SUFFICES ASSUME NEW i \in Instances, inst[i].batch # <<>>
               PROVE  LET q == inst[i]
                      IN /\ Len(q.batch) <= MaxBatchSize
                         /\ Cardinality({t.req : t \in ToSet(q.batch)}) = Len(q.batch)
                         /\ i \notin Orca =>
                              /\ q.batchTokens =
                                   FoldLeft(LAMBDA a, t : a + TokensPerIteration(t), 0, q.batch)
                              /\ q.batchTokens <= MaxBatchTokens \/ Len(q.batch) = 1
  BY DEF BatchWithinLimits
<1> DEFINE q == inst[i]
           b == q.batch
<1>3. b \in Seq(TaskNodes)
  BY <1>1, QueueFields
<1>4. /\ Sound(q, State.node, At(State.node, promptOn, tokenOn, i))
      /\ Ready(State.node, State.preempted, At(State.node, promptOn, tokenOn, i))
      /\ Running(q, State.node) /\ Len(b) <= MaxBatchSize
      /\ At(State.node, promptOn, tokenOn, i) \in SUBSET TaskNodes
  BY <1>1, GoodFacts
<1>5. IsInjective(b)
  BY <1>4 DEF Sound
<1>6. \A t \in ToSet(b), u \in ToSet(b) : t.req = u.req => t = u
  BY <1>4, OneTaskOfARequest
<1>7. i \notin Orca => /\ q.batchTokens = SumFunctionOnSet(TokensOf, ToSet(b))
                       /\ q.batchTokens <= MaxBatchTokens \/ Len(b) = 1
  BY <1>1, <1>2 DEF Course
<1> HIDE DEF b
<1>8. Cardinality({t.req : t \in ToSet(b)}) = Len(b)
  BY <1>3, <1>5, <1>6, RequestsOfBatch
<1>9. FoldLeft(LAMBDA a, t : a + TokensPerIteration(t), 0, b)
        = SumFunctionOnSet(TokensOf, ToSet(b))
  BY <1>1, <1>3, <1>5, TokensOfBatch
<1> QED
  BY <1>4, <1>7, <1>8, <1>9 DEF b

(* A running batch respects its limits, and batch_tokens is what it says.  *)
THEOREM BatchesWithinLimits == ClusterSpec => []BatchWithinLimits
  BY ClusterIsRegular, RegularWithinLimits, PTL

-----------------------------------------------------------------------------
(* The task has no room beside the memory that is in use.                  *)
NoRoom(base, t) == base + TaskMemory(t) > MaxMemory

(* The first visit of a scan from an idle instance takes the task, or the  *)
(* task has no room: nothing else can refuse it yet.                       *)
LEMMA FirstVisit ==
  ASSUME trace \in [Requests -> Shapes],
         NEW s, NEW base, NEW a \in ChoiceType, NEW t \in TaskNodes,
         a.batch = <<>> => a.used = base
  PROVE  /\ VisitNext(s, a, t).batch # <<>> \/ NoRoom(base, t)
         /\ VisitFirstCome(s, a, t).batch # <<>> \/ NoRoom(base, t)
<1>0. a.batch \in Seq(TaskNodes)
  BY DEF ChoiceType
<1>1. \A m : Take(a, t, m).batch # <<>>
  <2>1. \A m : Take(a, t, m).batch = Append(a.batch, t)
    BY DEF Take, ChoiceType
  <2>2. Append(a.batch, t) # <<>>
    BY <1>0
  <2> QED
    BY <2>1, <2>2
<1>2. Stop(a).batch = a.batch
  BY DEF Stop, ChoiceType
<1>3. CASE a.batch # <<>>
  BY <1>1, <1>2, <1>3 DEF VisitNext, VisitFirstCome, Consider
<1>4. CASE a.batch = <<>>
  <2>1. ~ SizeReached(a)
    BY <1>4, InstanceAssumption DEF SizeReached
  <2>2. ~ HasRequest(a, t.req)
    BY <1>4 DEF HasRequest
  <2>3. ~ TokensReached(a, t)
    BY <1>4 DEF TokensReached
  <2>4. a.used = base
    BY <1>4
  <2>5. TaskMemory(t) \in Int
    BY SizesAreNumbers
  <2>6. a.used + TaskMemory(t) <= MaxMemory \/ NoRoom(base, t)
    BY <2>4, <2>5, InstanceAssumption DEF NoRoom, ChoiceType
  <2> QED
    BY <1>1, <2>1, <2>2, <2>3, <2>6 DEF VisitNext, VisitFirstCome, Consider
<1> QED
  BY <1>3, <1>4

(* A later visit takes nothing out of the batch.                           *)
LEMMA LaterVisit ==
  ASSUME trace \in [Requests -> Shapes],
         NEW s, NEW a \in ChoiceType, NEW t \in TaskNodes
  PROVE  /\ VisitNext(s, a, t) \in ChoiceType /\ VisitFirstCome(s, a, t) \in ChoiceType
         /\ a.batch # <<>> => /\ VisitNext(s, a, t).batch # <<>>
                              /\ VisitFirstCome(s, a, t).batch # <<>>
<1>0. a.batch \in Seq(TaskNodes)
  BY DEF ChoiceType
<1>1. \A m \in Int : Take(a, t, m) \in ChoiceType /\ Take(a, t, m).batch # <<>>
  <2>1. TokensPerIteration(t) \in Int
    BY SizesAreNumbers
  <2>2. ASSUME NEW m \in Int
        PROVE  Take(a, t, m) \in ChoiceType /\ Take(a, t, m).batch = Append(a.batch, t)
    BY <2>1, TakeLaw
  <2>3. Append(a.batch, t) # <<>>
    BY <1>0
  <2> QED
    BY <2>2, <2>3
<1>2. Stop(a) \in ChoiceType /\ Stop(a).batch = a.batch
  BY StopLaw DEF Stop
<1>3. TaskMemory(t) \in Int /\ 0 \in Int
  BY SizesAreNumbers
<1> QED
  BY <1>1, <1>2, <1>3 DEF VisitNext, VisitFirstCome, Consider

(* The scan of pending_requests ends empty only if its first task has no   *)
(* room.                                                                   *)
LEMMA ScanPoolStops ==
  ASSUME trace \in [Requests -> Shapes], NEW s, NEW i, NEW base, NEW c \in ChoiceType,
         c.batch = <<>> => c.used = base,
         NextTasks(s, i) \in Seq(TaskNodes), NextTasks(s, i) # <<>>
  PROVE  ScanPool(s, i, c).batch # <<>> \/ NoRoom(base, NextTasks(s, i)[1])
<1> DEFINE seq == NextTasks(s, i)
           c0 == [c EXCEPT !.open = TRUE]
           First == {a \in ChoiceType : a.open /\ (a.batch = <<>> => a.used = base)}
           Later == {a \in ChoiceType : a.batch # <<>> \/ NoRoom(base, seq[1])}
           J == [k \in 0 .. Len(seq) |-> IF k = 0 THEN First ELSE Later]
           z == ScanPool(s, i, c)
<1>0. seq \in Seq(TaskNodes) /\ Len(seq) \in Nat /\ Len(seq) # 0
  OBVIOUS
<1>1. c0 \in J[0]
  <2>1. c0 \in ChoiceType /\ c0.batch = c.batch /\ c0.used = c.used /\ c0.open
    BY StopLaw
  <2>2. 0 \in 0 .. Len(seq)
    BY <1>0
  <2> HIDE DEF c0, seq
  <2> QED
    BY <2>1, <2>2
<1>2. \A k \in 1 .. Len(seq) : \A a \in J[k - 1] :
        (IF a.open THEN VisitNext(s, a, seq[k]) ELSE a) \in J[k]
  <2> SUFFICES ASSUME NEW k \in 1 .. Len(seq), NEW a \in J[k - 1]
               PROVE  (IF a.open THEN VisitNext(s, a, seq[k]) ELSE a) \in J[k]
    OBVIOUS
  <2> DEFINE t == seq[k]
             b == VisitNext(s, a, t)
  <2>1. k - 1 \in 0 .. Len(seq) /\ k \in 0 .. Len(seq) /\ k # 0 /\ t \in TaskNodes
    BY <1>0
  <2>2. J[k] = Later /\ J[k - 1] = IF k = 1 THEN First ELSE Later
    <3> HIDE DEF First, Later, seq
    <3> QED
      BY <2>1
  <2>3. CASE k = 1
    <3>1. a \in ChoiceType /\ a.open /\ (a.batch = <<>> => a.used = base) /\ t = seq[1]
      BY <2>2, <2>3
    <3> HIDE DEF t, b, J, seq
    <3>2. b \in ChoiceType /\ (b.batch # <<>> \/ NoRoom(base, t))
      BY <2>1, <3>1, FirstVisit, LaterVisit DEF b
    <3> QED
      BY <2>2, <3>1, <3>2 DEF b, t
  <2>4. CASE k # 1
    <3>1. a \in ChoiceType /\ (a.batch # <<>> \/ NoRoom(base, seq[1]))
      BY <2>2, <2>4
    <3> HIDE DEF t, b, J, seq
    <3>2. b \in ChoiceType /\ (a.batch # <<>> => b.batch # <<>>)
      BY <2>1, <3>1, LaterVisit DEF b
    <3> QED
      BY <2>2, <3>1, <3>2 DEF b, t
  <2> QED
    BY <2>3, <2>4
<1> HIDE DEF J, c0
<1>3. PoolScan!Loop(s, 0, c0, seq) \in J[Len(seq)]
  BY <1>0, <1>1, <1>2, Induction, PoolScan!LoopInvariant
<1>4. z = PoolScan!Loop(s, 0, c0, seq)
  BY ScanPoolIsLoop DEF c0
<1> HIDE DEF z, seq
<1>5. z \in Later
  <2> HIDE DEF First, Later
  <2>1. J[Len(seq)] = Later
    BY <1>0 DEF J
  <2> QED
    BY <1>3, <1>4, <2>1
<1> QED
  BY <1>5 DEF z, seq

(* So does the scan in order of arrival, when it starts from an idle       *)
(* instance.                                                               *)
LEMMA ScanFirstComeStops ==
  ASSUME trace \in [Requests -> Shapes], NEW s \in StateType, NEW i \in Instances,
         NextTasks(s, i) \in Seq(TaskNodes), NextTasks(s, i) # <<>>
  PROVE  \/ SelectFirstCome(s, i).batch # <<>>
         \/ NoRoom(UsedMemory(s, i), NextTasks(s, i)[1])
<1> DEFINE seq == NextTasks(s, i)
           base == UsedMemory(s, i)
           c0 == [[NoBatch(s, i) EXCEPT !.batch = s.inst[i].batch] EXCEPT !.open = TRUE]
           First == {a \in ChoiceType : a.open /\ a.used = base}
           Later == {a \in ChoiceType : a.batch # <<>> \/ NoRoom(base, seq[1])}
           J == [k \in 0 .. Len(seq) |-> IF k = 0 THEN First ELSE Later]
           z == FirstComeScan!Loop(s, 0, c0, seq)
<1>0. seq \in Seq(TaskNodes) /\ Len(seq) \in Nat /\ Len(seq) # 0
  OBVIOUS
<1>1. c0 \in J[0]
  <2>1. base \in Int /\ s.inst[i].batch \in Seq(TaskNodes)
    BY QueueFields, UsedMemorySum
  <2>2. c0 \in ChoiceType /\ c0.used = base /\ c0.open
    <3> DEFINE x == s.inst[i].batch
               n == NoBatch(s, i)
    <3>1. n = [batch |-> <<>>, tokens |-> 0, used |-> base, open |-> TRUE]
      BY DEF NoBatch
    <3>2. c0 = [[n EXCEPT !.batch = x] EXCEPT !.open = TRUE]
      OBVIOUS
    <3>3. x \in Seq(TaskNodes)
      BY <2>1
    <3> HIDE DEF c0, base, x, n
    <3>4. c0 = [batch |-> x, tokens |-> 0, used |-> base, open |-> TRUE]
      BY <3>1, <3>2
    <3> QED
      BY <2>1, <3>3, <3>4 DEF ChoiceType
  <2>3. 0 \in 0 .. Len(seq)
    BY <1>0
  <2> HIDE DEF c0, seq, base
  <2> QED
    BY <2>2, <2>3
<1>2. \A k \in 1 .. Len(seq) : \A a \in J[k - 1] :
        (IF a.open THEN VisitFirstCome(s, a, seq[k]) ELSE a) \in J[k]
  <2> SUFFICES ASSUME NEW k \in 1 .. Len(seq), NEW a \in J[k - 1]
               PROVE  (IF a.open THEN VisitFirstCome(s, a, seq[k]) ELSE a) \in J[k]
    OBVIOUS
  <2> DEFINE t == seq[k]
             b == VisitFirstCome(s, a, t)
  <2>1. k - 1 \in 0 .. Len(seq) /\ k \in 0 .. Len(seq) /\ k # 0 /\ t \in TaskNodes
    BY <1>0
  <2>2. J[k] = Later /\ J[k - 1] = IF k = 1 THEN First ELSE Later
    <3> HIDE DEF First, Later, seq
    <3> QED
      BY <2>1
  <2>3. CASE k = 1
    <3>1. a \in ChoiceType /\ a.open /\ a.used = base /\ t = seq[1]
      BY <2>2, <2>3
    <3> HIDE DEF t, b, J, seq, base
    <3>2. b \in ChoiceType /\ (b.batch # <<>> \/ NoRoom(base, t))
      BY <2>1, <3>1, FirstVisit, LaterVisit DEF b
    <3> QED
      BY <2>2, <3>1, <3>2 DEF b, t
  <2>4. CASE k # 1
    <3>1. a \in ChoiceType /\ (a.batch # <<>> \/ NoRoom(base, seq[1]))
      BY <2>2, <2>4
    <3> HIDE DEF t, b, J, seq, base
    <3>2. b \in ChoiceType /\ (a.batch # <<>> => b.batch # <<>>)
      BY <2>1, <3>1, LaterVisit DEF b
    <3> QED
      BY <2>2, <3>1, <3>2 DEF b, t
  <2> QED
    BY <2>3, <2>4
<1> HIDE DEF J, c0
<1>3. z \in J[Len(seq)]
  BY <1>0, <1>1, <1>2, Induction, FirstComeScan!LoopInvariant
<1>4. SelectFirstCome(s, i) = [z EXCEPT !.tokens = 0]
  BY FirstComeIsLoop DEF c0
<1> HIDE DEF z, seq, base
<1>5. z \in Later
  <2> HIDE DEF First, Later
  <2>1. J[Len(seq)] = Later
    BY <1>0 DEF J
  <2> QED
    BY <1>3, <2>1
<1>6. z \in ChoiceType /\ (z.batch # <<>> \/ NoRoom(base, seq[1]))
  BY <1>5
<1>7. [z EXCEPT !.tokens = 0].batch = z.batch
  BY <1>6 DEF ChoiceType
<1> QED
  BY <1>4, <1>6, <1>7 DEF base, seq

(* A selection that ends empty where requests wait leaves one of their     *)
(* tasks without room.                                                     *)
LEMMA SelectStops ==
  ASSUME trace \in [Requests -> Shapes], NEW s \in StateType, NEW i \in Instances,
         NEW at \in SUBSET TaskNodes, Sound(s.inst[i], s.node, at),
         Ready(s.node, s.preempted, at), Running(s.inst[i], s.node),
         s.inst[i].pool # <<>>, SelectBatch(s, i).batch = <<>>
  PROVE  \E t \in at : NoRoom(UsedMemory(s, i), t)
<1> DEFINE seq == NextTasks(s, i)
<1>1. seq \in Seq(TaskNodes) /\ seq # <<>> /\ seq[1] \in at
  <2>1. s.inst[i].pool \in Seq(Requests)
    BY QueueFields
  <2>2. Len(s.inst[i].pool) \in Nat /\ Len(s.inst[i].pool) # 0
    BY <2>1
  <2>3. /\ seq \in Seq(TaskNodes) /\ Len(seq) = Len(s.inst[i].pool)
        /\ \A k \in 1 .. Len(seq) : seq[k] \in Eligible(s.node, at)
    BY NextTasksLaw
  <2>4. 1 \in 1 .. Len(seq)
    BY <2>2, <2>3
  <2>5. seq[1] \in Eligible(s.node, at)
    BY <2>3, <2>4
  <2> HIDE DEF seq
  <2> QED
    BY <2>2, <2>3, <2>5 DEF Eligible
<1>2. CASE i \in Orca
  <2>1. SelectFirstCome(s, i).batch = <<>>
    BY <1>2 DEF SelectBatch
  <2>2. NoRoom(UsedMemory(s, i), seq[1])
    BY <1>1, <2>1, ScanFirstComeStops
  <2> QED
    BY <1>1, <2>2
<1>3. CASE i \notin Orca
  <2>1. PICK c : /\ Choice(Eligible(s.node, at), s.node, UsedMemory(s, i), TRUE, c)
                 /\ SelectByPriority(s, i) = ScanPool(s, i, c)
    BY SelectByPriorityLaw
  <2>2. c \in ChoiceType /\ (c.batch = <<>> => c.used = UsedMemory(s, i))
    BY <2>1 DEF Choice
  <2>3. ScanPool(s, i, c).batch = <<>>
    BY <1>3, <2>1 DEF SelectBatch
  <2>4. NoRoom(UsedMemory(s, i), seq[1])
    BY <1>1, <2>2, <2>3, ScanPoolStops
  <2> QED
    BY <1>1, <2>4
<1> QED
  BY <1>2, <1>3

(* An idle instance where tasks wait has no memory for some of them.       *)
Short(s, i) ==
  s.inst[i].batch = <<>> /\ s.inst[i].pending # <<>> =>
    \E t \in ToSet(s.inst[i].pending) : NoRoom(UsedMemory(s, i), t)

(* No instance of J is idle with room for all that waits.                  *)
ShortAt(s, J) == \A j \in J : Short(s, j)

(* What a handler of i does to the other instances: it may send caches to  *)
(* them, and takes nothing.                                                *)
Kept(s, a, i) ==
  \A j \in Instances \ {i} :
    a.inst[j] = s.inst[j] /\ UsedMemory(a, j) >= UsedMemory(s, j)

(* Memory that others take on an instance does not end its being short.    *)
LEMMA ShortGrows ==
  ASSUME trace \in [Requests -> Shapes], NEW s \in StateType, NEW a \in StateType,
         NEW j \in Instances, a.inst[j] = s.inst[j],
         UsedMemory(a, j) >= UsedMemory(s, j), Short(s, j)
  PROVE  Short(a, j)
<1>1. UsedMemory(a, j) \in Int /\ UsedMemory(s, j) \in Int
  BY UsedMemorySum
<1>2. ASSUME NEW t \in TaskNodes, NoRoom(UsedMemory(s, j), t)
      PROVE  NoRoom(UsedMemory(a, j), t)
  <2>1. TaskMemory(t) \in Int
    BY SizesAreNumbers
  <2> QED
    BY <1>1, <1>2, <2>1, InstanceAssumption DEF NoRoom
<1>3. ToSet(s.inst[j].pending) \subseteq TaskNodes
  BY QueueFields, ElementsAreTasks
<1> QED
  BY <1>2, <1>3 DEF Short

(* A handler of one instance leaves the others short.                      *)
LEMMA KeptShort ==
  ASSUME trace \in [Requests -> Shapes], NEW s \in StateType, NEW a \in StateType,
         NEW i \in Instances, Kept(s, a, i), NEW J \in SUBSET Instances,
         ShortAt(s, J \ {i})
  PROVE  ShortAt(a, J \ {i})
  BY ShortGrows DEF Kept, ShortAt

(* So do two handlers of the same instance.                                *)
LEMMA KeptTwice ==
  ASSUME NEW s \in StateType, NEW a \in StateType, NEW b \in StateType,
         NEW i \in Instances, Kept(s, a, i), Kept(a, b, i)
  PROVE  Kept(s, b, i)
<1> SUFFICES ASSUME NEW j \in Instances \ {i}
             PROVE  b.inst[j] = s.inst[j] /\ UsedMemory(b, j) >= UsedMemory(s, j)
  BY DEF Kept
<1>1. /\ UsedMemory(s, j) \in Int /\ UsedMemory(a, j) \in Int /\ UsedMemory(b, j) \in Int
  BY UsedMemorySum
<1>2. /\ a.inst[j] = s.inst[j] /\ UsedMemory(a, j) >= UsedMemory(s, j)
      /\ b.inst[j] = a.inst[j] /\ UsedMemory(b, j) >= UsedMemory(a, j)
  BY DEF Kept
<1> QED
  BY <1>1, <1>2

(* A handler that is at one instance only takes nothing of the others.     *)
LEMMA BesideKept ==
  ASSUME NEW s \in StateType, NEW a, NEW i \in Instances,
         \A j \in Instances \ {i} : a.inst[j] = s.inst[j] /\ a.alloc[j] = s.alloc[j]
  PROVE  Kept(s, a, i)
<1> SUFFICES ASSUME NEW j \in Instances \ {i}
             PROVE  a.inst[j] = s.inst[j] /\ UsedMemory(a, j) >= UsedMemory(s, j)
  BY DEF Kept
<1>1. a.inst[j] = s.inst[j] /\ a.alloc[j] = s.alloc[j]
  OBVIOUS
<1>2. UsedMemory(a, j) = UsedMemory(s, j)
  BY <1>1 DEF UsedMemory
<1>3. UsedMemory(s, j) \in Int
  BY UsedMemorySum
<1> QED
  BY <1>1, <1>2, <1>3

(* If no request frees memory on an instance, what it uses does not        *)
(* shrink.                                                                 *)
LEMMA UsedGrows ==
  ASSUME NEW s \in StateType, NEW a \in StateType, NEW j \in Instances,
         \A r \in Requests : a.alloc[j][r] >= s.alloc[j][r]
  PROVE  UsedMemory(a, j) >= UsedMemory(s, j)
<1> DEFINE f == s.alloc[j]
           g == a.alloc[j]
           h == [r \in Requests |-> g[r] - f[r]]
<1>1. f \in [Requests -> Int] /\ g \in [Requests -> Int]
  BY DEF StateType
<1>2. \A r \in Requests : f[r] \in Int /\ g[r] \in Int /\ g[r] >= f[r]
  BY <1>1
<1> HIDE DEF f, g
<1>3. \A r \in Requests : h[r] \in Nat /\ h[r] \in Int /\ g[r] = f[r] + h[r]
  BY <1>2
<1> HIDE DEF h
<1>4. SumFunctionOnSet(g, Requests)
        = SumFunctionOnSet(f, Requests) + SumFunctionOnSet(h, Requests)
  BY <1>2, <1>3, TraceAssumption, SumPlus
<1>5. SumFunctionOnSet(h, Requests) \in Nat
  BY <1>3, TraceAssumption, SumType
<1>6. /\ UsedMemory(s, j) = ModelSize + SumFunctionOnSet(f, Requests)
      /\ UsedMemory(a, j) = ModelSize + SumFunctionOnSet(g, Requests)
      /\ SumFunctionOnSet(f, Requests) \in Int
  BY UsedMemorySum DEF f, g
<1> DEFINE mf == SumFunctionOnSet(f, Requests)
           mg == SumFunctionOnSet(g, Requests)
           mh == SumFunctionOnSet(h, Requests)
<1>7. mg = mf + mh /\ mh \in Nat /\ mf \in Int
      /\ UsedMemory(s, j) = ModelSize + mf /\ UsedMemory(a, j) = ModelSize + mg
  BY <1>4, <1>5, <1>6
<1> HIDE DEF mf, mg, mh
<1> QED
  BY <1>7, InstanceAssumption

(* A list is empty if nothing is in it.                                    *)
LEMMA EmptyBatch ==
  ASSUME NEW T, NEW seq \in Seq(T)
  PROVE  seq = <<>> <=> ToSet(seq) = {}
<1>1. ASSUME seq # <<>>
      PROVE  ToSet(seq) # {}
  <2>1. Len(seq) \in Nat /\ Len(seq) # 0
    BY <1>1
  <2>2. 1 \in DOMAIN seq
    BY <2>1
  <2> QED
    BY <2>2 DEF ToSet
<1>2. ToSet(<<>>) = {}
  BY DEF ToSet
<1> QED
  BY <1>1, <1>2

(* start_iteration begins a batch, or the instance is short.               *)
LEMMA BegunShort ==
  ASSUME trace \in [Requests -> Shapes], NEW P, NEW D, Placed(P, D), NEW s,
         Good(s, P, D), NEW i \in Instances
  PROVE  LET a == BeginRun(s, i)
         IN Good(a, P, D) /\ Kept(s, a, i) /\ Short(a, i)
<1> DEFINE at == At(s.node, P, D, i)
           a == BeginRun(s, i)
           c == SelectBatch(s, i)
<1>1. /\ s \in StateType /\ at \in SUBSET TaskNodes
      /\ Sound(s.inst[i], s.node, at) /\ Ready(s.node, s.preempted, at)
      /\ Running(s.inst[i], s.node) /\ Len(s.inst[i].batch) <= MaxBatchSize
  BY GoodFacts DEF Good
<1>2. c \in ChoiceType /\ Chosen(s, i, at, c) /\ Begun(s, a, i, at, c)
  <2> HIDE DEF at
  <2> QED
    BY <1>1, BeginRunLaw
<1> HIDE DEF a, c
<1>3. Good(a, P, D)
  BY <1>1, <1>2, BegunGood
<1> HIDE DEF at
<1>4. /\ a \in StateType /\ \A j \in Instances \ {i} : a.inst[j] = s.inst[j]
      /\ Sound(a.inst[i], a.node, at) /\ ToSet(a.inst[i].batch) = ToSet(c.batch)
      /\ a.alloc = [s.alloc EXCEPT ![i] =
                      [r \in Requests |-> @[r] + Taken(s.node, ToSet(c.batch), r)]]
  BY <1>2 DEF Begun
<1>5. Kept(s, a, i)
  <2>1. s.alloc \in [Instances -> [Requests -> Int]]
    BY <1>1 DEF StateType
  <2>2. \A j \in Instances \ {i} : a.alloc[j] = s.alloc[j]
    BY <1>4, <2>1
  <2> QED
    BY <1>1, <1>4, <2>2, BesideKept
<1>6. ASSUME a.inst[i].batch = <<>>, a.inst[i].pending # <<>>
      PROVE  \E t \in ToSet(a.inst[i].pending) : NoRoom(UsedMemory(a, i), t)
  <2>1. a.inst[i].batch \in Seq(TaskNodes) /\ a.inst[i].pending \in Seq(TaskNodes)
        /\ s.inst[i].pool \in Seq(Requests)
    BY <1>1, <1>4, QueueFields
  <2>2. ToSet(c.batch) = {} /\ ToSet(a.inst[i].batch) = {}
    BY <1>4, <1>6, <2>1, EmptyBatch
  <2>3. c.batch = <<>>
    <3>1. c.batch \in Seq(TaskNodes)
      BY <1>2 DEF ChoiceType
    <3> QED
      BY <2>2, <3>1, EmptyBatch
  <2>4. ToSet(a.inst[i].pending) = at /\ at # {}
    <3>1. ToSet(a.inst[i].pending) = at \ ToSet(a.inst[i].batch)
      BY <1>4 DEF Sound
    <3>2. ToSet(a.inst[i].pending) # {}
      BY <1>6, <2>1, EmptyBatch
    <3> QED
      BY <2>2, <3>1, <3>2
  <2>5. s.inst[i].pool # <<>>
    <3>1. ToSet(s.inst[i].pool) = {t.req : t \in at}
      BY <1>1 DEF Sound
    <3> QED
      BY <2>1, <2>4, <3>1, EmptyBatch
  <2>6. PICK t \in at : NoRoom(UsedMemory(s, i), t)
    BY <1>1, <2>3, <2>5, SelectStops DEF c
  <2>7. UsedMemory(a, i) >= UsedMemory(s, i)
    <3>1. s.alloc[i] \in [Requests -> Int]
      BY <1>1 DEF StateType
    <3>2. \A r \in Requests : Taken(s.node, {}, r) = 0
      BY DEF Taken
    <3>3. a.alloc[i] = [r \in Requests |-> s.alloc[i][r] + Taken(s.node, {}, r)]
      BY <1>1, <1>4, <2>2 DEF StateType
    <3>4. \A r \in Requests : a.alloc[i][r] >= s.alloc[i][r]
      BY <3>1, <3>2, <3>3
    <3> QED
      BY <1>1, <1>4, <3>4, UsedGrows
  <2>8. /\ UsedMemory(a, i) \in Int /\ UsedMemory(s, i) \in Int
        /\ TaskMemory(t) \in Int /\ MaxMemory \in Int
    BY <1>1, <1>4, UsedMemorySum, SizesAreNumbers, InstanceAssumption
  <2>9. NoRoom(UsedMemory(a, i), t)
    BY <2>6, <2>7, <2>8 DEF NoRoom
  <2> QED
    BY <2>4, <2>9
<1>7. Short(a, i)
  BY <1>6 DEF Short
<1> QED
  BY <1>3, <1>5, <1>7 DEF a

(* complete_iteration sends caches, and the memory that they take on the   *)
(* other instances makes those no less short.                              *)
LEMMA EndedKept ==
  ASSUME NEW P, NEW D, Placed(P, D), NEW s, Good(s, P, D), NEW i \in Instances
  PROVE  Good(EndRun(s, i, D), P, D) /\ Kept(s, EndRun(s, i, D), i)
<1> DEFINE at == At(s.node, P, D, i)
           a == EndRun(s, i, D)
<1>1. /\ s \in StateType /\ at \in SUBSET TaskNodes
      /\ Sound(s.inst[i], s.node, at) /\ Ready(s.node, s.preempted, at)
      /\ Running(s.inst[i], s.node) /\ Chained(s.node, at)
      /\ \A r \in Requests : Prompt(r) \in at /\ D[r] # i => D[r] \in Instances
  BY GoodFacts DEF Good
<1>2. Ended(s, a, i, at, D)
  <2> HIDE DEF at
  <2> QED
    BY <1>1, EndRunLaw
<1> HIDE DEF a
<1>3. Good(a, P, D)
  BY <1>2, EndedGood
<1> HIDE DEF at
<1> DEFINE done == EndingNow(s, i)
<1>4. /\ a \in StateType /\ \A j \in Instances \ {i} : a.inst[j] = s.inst[j]
      /\ \A r \in Requests : Settled(s, a, i, r, D, done)
  BY <1>2 DEF Ended
<1> HIDE DEF done
<1>5. ASSUME NEW j \in Instances \ {i}, NEW r \in Requests
      PROVE  a.alloc[j][r] >= s.alloc[j][r]
  <2>1. s.alloc[j][r] \in Int /\ s.memory[r] \in Nat
    BY <1>1 DEF StateType
  <2>2. Settled(s, a, i, r, D, done)
    BY <1>4
  <2>3. \/ a.alloc[j][r] = s.alloc[j][r]
        \/ a.alloc[j][r] = s.alloc[j][r] + s.memory[r]
        \/ a.alloc[j][r] = s.alloc[j][r] + 0
        \/ a.alloc[j][r] = s.alloc[j][r] - 0
    BY <2>2 DEF Settled, SameCache, HandedOver, Freed
  <2> QED
    BY <2>1, <2>3
<1>6. Kept(s, a, i)
  <2>1. ASSUME NEW j \in Instances \ {i}
        PROVE  UsedMemory(a, j) >= UsedMemory(s, j)
    BY <1>1, <1>4, <1>5, UsedGrows
  <2> QED
    BY <1>4, <2>1 DEF Kept
<1> QED
  BY <1>3, <1>6 DEF a

(* start_iteration, with the runs of zero iterations that it completes.    *)
LEMMA StartShort ==
  ASSUME trace \in [Requests -> Shapes], NEW P, NEW D, Placed(P, D), NEW s,
         Good(s, P, D), NEW i \in Instances
  PROVE  LET a == StartIteration(s, i, D)
         IN Good(a, P, D) /\ Kept(s, a, i) /\ Short(a, i)
<1> DEFINE G == {a \in StateType : Good(a, P, D) /\ Kept(s, a, i)}
           H == {a \in G : Short(a, i)}
<1>0. s \in StateType
  BY DEF Good
<1>1. \A a \in G : BeginRun(a, i) \in H
  <2>1. ASSUME NEW a \in G
        PROVE  BeginRun(a, i) \in H
    <3> DEFINE b == BeginRun(a, i)
    <3>1. Good(b, P, D) /\ Kept(a, b, i) /\ Short(b, i)
      BY BegunShort
    <3> HIDE DEF b
    <3>2. b \in StateType
      BY <3>1 DEF Good
    <3>3. Kept(s, b, i)
      BY <1>0, <3>1, <3>2, KeptTwice
    <3> QED
      BY <3>1, <3>2, <3>3 DEF b
  <2> QED
    BY <2>1
<1>2. \A a \in H : ZeroRun(a, i) => EndRun(a, i, D) \in G
  <2>1. ASSUME NEW a \in H
        PROVE  EndRun(a, i, D) \in G
    <3> DEFINE b == EndRun(a, i, D)
    <3>1. Good(b, P, D) /\ Kept(a, b, i)
      BY EndedKept
    <3> HIDE DEF b
    <3>2. b \in StateType
      BY <3>1 DEF Good
    <3>3. Kept(s, b, i)
      BY <1>0, <3>1, <3>2, KeptTwice
    <3> QED
      BY <3>1, <3>2, <3>3 DEF b
  <2> QED
    BY <2>1
<1>3. \A a \in H, b \in H : [a EXCEPT !.inst[i].handle = ~ ZeroRun(b, i)] \in H
  <2>1. ASSUME NEW a \in H, NEW x \in BOOLEAN
        PROVE  [a EXCEPT !.inst[i].handle = x] \in H
    <3> DEFINE b == [a EXCEPT !.inst[i].handle = x]
    <3>1. a \in StateType /\ Good(a, P, D) /\ Kept(s, a, i) /\ Short(a, i)
      OBVIOUS
    <3>2. /\ b \in StateType /\ b.node = a.node /\ Beside(a, b, i)
          /\ SameQueues(a.inst[i], b.inst[i])
      BY <3>1, HandleLaw DEF SameQueues
    <3> HIDE DEF b
    <3>3. Good(b, P, D)
      BY <3>1, <3>2, CourseGood DEF Beside
    <3>4. Kept(a, b, i)
      BY <3>1, <3>2, BesideKept DEF Beside
    <3>5. Short(b, i)
      <4>1. b.alloc = a.alloc
        BY <3>2 DEF Beside
      <4>2. UsedMemory(b, i) = UsedMemory(a, i)
        BY <4>1 DEF UsedMemory
      <4> QED
        BY <3>1, <3>2, <4>2 DEF Short, SameQueues
    <3>6. Kept(s, b, i)
      BY <1>0, <3>1, <3>2, <3>4, KeptTwice
    <3> QED
      BY <3>2, <3>3, <3>5, <3>6 DEF b
  <2>2. \A b : (~ ZeroRun(b, i)) \in BOOLEAN
    BY DEF ZeroRun
  <2> HIDE DEF H
  <2> QED
    BY <2>1, <2>2
<1>4. s \in G
  <2>1. Kept(s, s, i)
    BY <1>0, BesideKept
  <2> QED
    BY <1>0, <2>1
<1>5. \A a \in H : a.inst[i].batch = <<>> => a \in H
  OBVIOUS
<1>6. StartIteration(s, i, D) \in H
  <2> HIDE DEF G, H
  <2> QED
    BY <1>1, <1>2, <1>3, <1>4, <1>5, StartIterationLaw
<1> QED
  BY <1>6

(* After start_iteration at one instance none is idle with room, if the    *)
(* others were not before.                                                 *)
LEMMA StartShortAt ==
  ASSUME trace \in [Requests -> Shapes], NEW P, NEW D, Placed(P, D), NEW s,
         Good(s, P, D), NEW i \in Instances,
         NEW J \in SUBSET Instances, ShortAt(s, J \ {i})
  PROVE  Good(StartIteration(s, i, D), P, D) /\ ShortAt(StartIteration(s, i, D), J)
<1> DEFINE a == StartIteration(s, i, D)
<1>1. Good(a, P, D) /\ Kept(s, a, i) /\ Short(a, i)
  BY StartShort
<1> HIDE DEF a
<1>2. s \in StateType /\ a \in StateType
  BY <1>1 DEF Good
<1>3. ShortAt(a, J \ {i})
  BY <1>1, <1>2, KeptShort
<1> QED
  BY <1>1, <1>3 DEF a, ShortAt

(* After complete_iteration neither: a new iteration is tried at once.     *)
LEMMA CompleteShortAt ==
  ASSUME trace \in [Requests -> Shapes], NEW P, NEW D, Placed(P, D), NEW s,
         Good(s, P, D), NEW i \in Instances,
         NEW J \in SUBSET Instances, ShortAt(s, J \ {i})
  PROVE  ShortAt(CompleteIteration(s, i, D), J)
<1> DEFINE a == EndRun(s, i, D)
<1>1. Good(a, P, D) /\ Kept(s, a, i)
  BY EndedKept
<1> HIDE DEF a
<1>2. s \in StateType /\ a \in StateType
  BY <1>1 DEF Good
<1>3. ShortAt(a, J \ {i})
  BY <1>1, <1>2, KeptShort
<1>4. ShortAt(StartIteration(a, i, D), J)
  BY <1>1, <1>3, StartShortAt
<1> QED
  BY <1>4 DEF CompleteIteration, a

(* pause_iteration ends no batch.                                          *)
LEMMA PauseShortAt ==
  ASSUME trace \in [Requests -> Shapes], NEW P, NEW D, NEW s, Good(s, P, D),
         NEW i \in Instances,
         NEW J \in SUBSET Instances, ShortAt(s, J \ {i}), s.inst[i].batch # <<>>
  PROVE  Good(PauseIteration(s, i), P, D) /\ ShortAt(PauseIteration(s, i), J)
<1> DEFINE a == PauseIteration(s, i)
<1>0. s \in StateType
  BY DEF Good
<1>1. /\ a \in StateType /\ a.node = s.node
      /\ a.preempted = s.preempted /\ a.alloc = s.alloc
      /\ \A j \in Instances \ {i} : a.inst[j] = s.inst[j]
      /\ SameQueues(s.inst[i], a.inst[i])
  BY <1>0, PauseLaw
<1> HIDE DEF a
<1>2. Good(a, P, D)
  BY <1>1, CourseGood
<1>3. ShortAt(a, J \ {i})
  <2>1. Kept(s, a, i)
    BY <1>0, <1>1, BesideKept
  <2> QED
    BY <1>0, <1>1, <2>1, KeptShort
<1>4. Short(a, i)
  BY <1>1 DEF Short, SameQueues
<1> QED
  BY <1>2, <1>3, <1>4 DEF a, ShortAt

(* An instance that learns of a task starts an iteration, or the task      *)
(* itself has no room.                                                     *)
LEMMA NoticeShortAt ==
  ASSUME trace \in [Requests -> Shapes], NEW P, NEW D, Placed(P, D), NEW s,
         Good(s, P, D), NEW i \in Instances,
         NEW J \in SUBSET Instances, ShortAt(s, J \ {i}),
         NEW t \in TaskNodes, s.inst[i].batch = <<>> => t \in ToSet(s.inst[i].pending)
  PROVE  Good(Notice(s, i, t, D), P, D) /\ ShortAt(Notice(s, i, t, D), J)
<1>1. CASE /\ s.inst[i].batch = <<>> /\ Fits(s, i, TaskMemory(t))
           /\ Notice(s, i, t, D) = StartIteration(s, i, D)
  BY <1>1, StartShortAt
<1>2. CASE s.inst[i].batch = <<>> /\ ~ Fits(s, i, TaskMemory(t)) /\ Notice(s, i, t, D) = s
  <2>1. UsedMemory(s, i) \in Int /\ TaskMemory(t) \in Int /\ MaxMemory \in Int
    BY UsedMemorySum, SizesAreNumbers, InstanceAssumption DEF Good
  <2>2. NoRoom(UsedMemory(s, i), t)
    BY <1>2, <2>1 DEF NoRoom, Fits
  <2>3. Short(s, i)
    BY <1>2, <2>2 DEF Short
  <2> QED
    BY <1>2, <2>3 DEF ShortAt
<1>3. CASE s.inst[i].batch # <<>> /\ Notice(s, i, t, D) = PauseIteration(s, i)
  BY <1>3, PauseShortAt
<1>4. CASE s.inst[i].batch # <<>> /\ Notice(s, i, t, D) = s
  <2>1. Short(s, i)
    BY <1>4 DEF Short
  <2> QED
    BY <1>4, <2>1 DEF ShortAt
<1> QED
  BY <1>1, <1>2, <1>3, <1>4 DEF Notice

(* notify_flow_completion tries an iteration when the first pending task   *)
(* has room, which it leaves waiting otherwise.                            *)
LEMMA NotifyShortAt ==
  ASSUME trace \in [Requests -> Shapes], NEW P, NEW D, Placed(P, D), NEW s,
         Good(s, P, D), NEW i \in Instances,
         NEW J \in SUBSET Instances, ShortAt(s, J \ {i})
  PROVE  ShortAt(NotifyFlowCompletion(s, i, D), J)
<1> DEFINE a == NotifyFlowCompletion(s, i, D)
           q == s.inst[i]
<1>1. CASE q.pending = <<>> /\ a = s
  <2>1. Short(s, i)
    BY <1>1 DEF Short
  <2> QED
    BY <1>1, <2>1 DEF ShortAt
<1>2. CASE q.batch = <<>> /\ a = StartIteration(s, i, D)
  BY <1>2, StartShortAt
<1>3. CASE /\ q.pending # <<>> /\ q.batch = <<>> /\ a = s
           /\ ~ Fits(s, i, TaskMemory(Head(q.pending)))
  <2>1. s \in StateType /\ q.pending \in Seq(TaskNodes)
    BY QueueFields DEF Good
  <2>2. Head(q.pending) \in ToSet(q.pending) /\ Head(q.pending) \in TaskNodes
    <3> HIDE DEF q
    <3>1. 1 \in DOMAIN q.pending /\ Head(q.pending) = q.pending[1]
      BY <1>3, <2>1
    <3> QED
      BY <2>1, <3>1, ElementsAreTasks DEF ToSet
  <2>3. UsedMemory(s, i) \in Int /\ TaskMemory(Head(q.pending)) \in Int /\ MaxMemory \in Int
    BY <2>1, <2>2, UsedMemorySum, SizesAreNumbers, InstanceAssumption
  <2>4. NoRoom(UsedMemory(s, i), Head(q.pending))
    BY <1>3, <2>3 DEF NoRoom, Fits
  <2>5. Short(s, i)
    BY <2>2, <2>4 DEF Short
  <2> QED
    BY <1>3, <2>5 DEF ShortAt
<1>4. CASE q.batch # <<>> /\ a = PauseIteration(s, i)
  BY <1>4, PauseShortAt
<1>5. CASE q.batch # <<>> /\ a = s
  <2>1. Short(s, i)
    BY <1>5 DEF Short
  <2> QED
    BY <1>5, <2>1 DEF ShortAt
<1> QED
  BY <1>1, <1>2, <1>3, <1>4, <1>5 DEF NotifyFlowCompletion

(* task_arrival puts the task among the pending ones before the instance   *)
(* notices.                                                                *)
LEMMA TaskArrivalShortAt ==
  ASSUME trace \in [Requests -> Shapes], NEW P, NEW D, Placed(P, D), NEW s,
         Good(s, P, D), NEW i \in Instances,
         NEW J \in SUBSET Instances, ShortAt(s, J \ {i}),
         NEW t \in TaskNodes, MayArrive(s, t, P, D), Where(P, D, t) = i
  PROVE  LET a == TaskArrival(s, i, t, D)
         IN Good(a, P, D) /\ ShortAt(a, J)
<1> DEFINE a == Arrived(s, i, t)
<1>1. /\ Good(a, P, D) /\ Beside(s, a, i) /\ a.node = [s.node EXCEPT ![t] = "QUEUED"]
  BY ArrivedGood
<1> HIDE DEF a
<1>2. s \in StateType /\ a \in StateType
  BY <1>1 DEF Good
<1>3. ShortAt(a, J \ {i})
  <2>1. Kept(s, a, i)
    BY <1>1, <1>2, BesideKept DEF Beside
  <2> QED
    BY <1>1, <1>2, <2>1, KeptShort
<1>4. a.inst[i].batch = <<>> => t \in ToSet(a.inst[i].pending)
  <2>1. Sound(a.inst[i], a.node, At(a.node, P, D, i))
    BY <1>1 DEF Good
  <2>2. t \in At(a.node, P, D, i)
    <3>1. t \in Nodes
      BY TaskParts
    <3>2. a.node[t] = "QUEUED"
      BY <1>1, <1>2, <3>1 DEF StateType
    <3> QED
      BY <3>2 DEF At, Live
  <2>3. ToSet(<<>>) = {}
    BY DEF ToSet
  <2> QED
    BY <2>1, <2>2, <2>3 DEF Sound
<1>5. Good(Notice(a, i, t, D), P, D) /\ ShortAt(Notice(a, i, t, D), J)
  BY <1>1, <1>3, <1>4, NoticeShortAt
<1>6. TaskArrival(s, i, t, D) = Notice(a, i, t, D)
  BY DEF TaskArrival, a, Arrived
<1> QED
  BY <1>5, <1>6

(* A request arrives: its prompt task does, at the instance it was given.  *)
LEMMA SubmitShortAt ==
  ASSUME trace \in [Requests -> Shapes], NEW P, NEW D, Placed(P, D), NEW B, NEW N, NEW s,
         Regular(s, P, D, B, N, Instances, Instances), ShortAt(s, Instances),
         NEW r \in Requests, P[r] = NoInstance,
         \A q \in Requests : r < q => P[q] = NoInstance,
         NEW p \in Instances, NEW d \in Instances
  PROVE  ShortAt(Submit(s, r, p, d, [D EXCEPT ![r] = d]), Instances)
<1> DEFINE P2 == [P EXCEPT ![r] = p]
           D2 == [D EXCEPT ![r] = d]
           a == TaskArrival(s, p, Prompt(r), D2)
           J == Instances
<1>1. Placed(P2, D2) /\ Regular(s, P2, D2, B, N, Instances, Instances)
  BY PlacedRegular
<1>2. /\ P2[r] = p /\ D2[r] = d /\ \A q \in Requests : q # r => P2[q] = P[q]
  BY DEF Placed, Placing
<1> HIDE DEF P2
<1>3. \A q \in Requests : r < q => P2[q] = NoInstance
  BY <1>2, InstanceAssumption
<1>4. /\ Prompt(r) \in TaskNodes /\ Token(r) \in TaskNodes /\ Prompt(r) # Token(r)
      /\ Prompt(r).req = r /\ Token(r).req = r
      /\ IsPrompt(Prompt(r)) /\ ~ IsPrompt(Token(r))
  BY NodesOfRequests
<1>5. s.node[Prompt(r)] = "NONE" /\ s.node[Token(r)] = "NONE"
  BY DEF Regular, Good, Stage
<1> HIDE DEF D2
<1>6. MayArrive(s, Prompt(r), P2, D2) /\ Where(P2, D2, Prompt(r)) = p
  BY <1>2, <1>4, <1>5 DEF MayArrive, Where
<1>7. Regular(a, P2, D2, B, N \ {Prompt(r)}, Instances, Instances)
  <2>1. \A q \in Requests : Prompt(r).req < q => P2[q] = NoInstance
    BY <1>3, <1>4
  <2> QED
    BY <1>1, <1>4, <1>6, <2>1, TaskArrivalRegular
<1>8. Good(a, P2, D2) /\ ShortAt(a, J)
  <2>1. Good(s, P2, D2) /\ ShortAt(s, J \ {p})
    BY <1>1 DEF Regular, ShortAt
  <2> QED
    BY <1>1, <1>4, <1>6, <2>1, TaskArrivalShortAt
<1> HIDE DEF a
<1>9. CASE p # d
  BY <1>8, <1>9 DEF Submit, SubmitChain, a, D2
<1>10. CASE p = d
  <2>1. MayArrive(a, Token(r), P2, D2) /\ Where(P2, D2, Token(r)) = d
    <3>1. a.node[Token(r)] = "NONE" /\ a.node[Prompt(r)] # "NONE"
      BY <1>4, <1>5, <1>7 DEF Regular, Idle
    <3> QED
      BY <1>2, <1>4, <1>10, <3>1 DEF MayArrive, Where
  <2>2. ShortAt(TaskArrival(a, d, Token(r), D2), J)
    <3>1. ShortAt(a, J \ {d})
      BY <1>8 DEF ShortAt
    <3> QED
      BY <1>1, <1>4, <1>8, <2>1, <3>1, TaskArrivalShortAt
  <2> QED
    BY <1>10, <2>2 DEF Submit, SubmitChain, a, D2
<1> QED
  BY <1>9, <1>10

(* A flow completes: its source, which frees the cache, is notified last   *)
(* and may be short of nothing meanwhile.                                  *)
LEMMA FlowCompletionShortAt ==
  ASSUME trace \in [Requests -> Shapes], NEW P, NEW D, Placed(P, D), NEW B, NEW N, NEW s,
         Regular(s, P, D, B, N, Instances, Instances), ShortAt(s, Instances),
         NEW r \in Requests, s.node[Flow(r)] = "RUNNING",
         NEW s0, s0 = Delivered(s, r, P)
  PROVE  ShortAt(NotifyFlowCompletion(TaskArrival(s0, D[r], Token(r), D), P[r], D), Instances)
<1>1. Regular(s0, P, D, B, N, Instances, Instances) /\ FlowOver(s, s0, r, P, D)
  BY ONLY Placed(P, D), Regular(s, P, D, B, N, Instances, Instances), r \in Requests,
          s.node[Flow(r)] = "RUNNING", s0 = Delivered(s, r, P), FlowEndedRegular
<1>2. /\ s \in StateType /\ Good(s0, P, D) /\ s0 \in StateType
      /\ P[r] \in Instances /\ D[r] \in Instances /\ P[r] # D[r]
      /\ s.node[Prompt(r)] = "COMPLETED" /\ s.node[Token(r)] = "NONE"
      /\ s0.alloc = [s.alloc EXCEPT ![P[r]][r] = @ - s.memory[r]]
      /\ s0.node[Flow(r)] = "COMPLETED"
      /\ \A n \in Nodes : n # Flow(r) => s0.node[n] = s.node[n]
      /\ s0.inst = s.inst
  BY <1>1 DEF FlowOver, Regular, Good
<1>3. /\ Token(r) \in TaskNodes /\ Token(r).req = r
      /\ Prompt(r) \in Nodes /\ Token(r) \in Nodes
      /\ ~ IsPrompt(Token(r)) /\ Flow(r) # Prompt(r) /\ Flow(r) # Token(r)
  BY NodesOfRequests
<1> DEFINE J == Instances \ {P[r]}
           a == TaskArrival(s0, D[r], Token(r), D)
<1>4. ShortAt(s0, J)
  <2>1. \A j \in Instances \ {P[r]} : s0.alloc[j] = s.alloc[j]
    BY <1>2 DEF StateType
  <2>2. Kept(s, s0, P[r])
    BY <1>2, <2>1, BesideKept
  <2>3. ShortAt(s, J)
    BY DEF ShortAt
  <2> QED
    BY <1>2, <2>2, <2>3, KeptShort
<1>5. MayArrive(s0, Token(r), P, D) /\ Where(P, D, Token(r)) = D[r]
  BY <1>2, <1>3 DEF MayArrive, Where
<1>6. Good(a, P, D) /\ ShortAt(a, J)
  <2>1. ShortAt(s0, J \ {D[r]})
    BY <1>4 DEF ShortAt
  <2>2. J \in SUBSET Instances
    OBVIOUS
  <2> HIDE DEF J
  <2> QED
    BY <1>2, <1>3, <1>5, <2>1, <2>2, TaskArrivalShortAt
<1> HIDE DEF a
<1>7. ShortAt(NotifyFlowCompletion(a, P[r], D), Instances)
  BY <1>2, <1>6, NotifyShortAt
<1> QED
  BY <1>7 DEF a

(* retry_flow takes memory only.                                           *)
LEMMA RetryShortAt ==
  ASSUME trace \in [Requests -> Shapes], NEW s \in StateType, ShortAt(s, Instances),
         NEW r \in Requests, NEW d \in Instances
  PROVE  ShortAt(RunFlow(s, r, d), Instances)
<1> DEFINE a == RunFlow(s, r, d)
<1>1. /\ a \in StateType /\ a.inst = s.inst
      /\ UsedMemory(a, d) = UsedMemory(s, d) + s.memory[r]
      /\ \A k \in Instances \ {d} : UsedMemory(a, k) = UsedMemory(s, k)
  <2>1. /\ a \in StateType /\ a.inst = s.inst
        /\ a.node = [s.node EXCEPT ![Flow(r)] = "RUNNING"]
        /\ a.generated = s.generated /\ a.preempted = s.preempted
        /\ a.crashed = s.crashed
        /\ UsedMemory(a, d) = UsedMemory(s, d) + s.memory[r]
        /\ \A k \in Instances \ {d} : UsedMemory(a, k) = UsedMemory(s, k)
    BY ONLY s \in StateType, r \in Requests, d \in Instances, RunFlowLaw
  <2> HIDE DEF a
  <2> QED
    BY <2>1
<1> HIDE DEF a
<1>2. ASSUME NEW j \in Instances
      PROVE  UsedMemory(a, j) >= UsedMemory(s, j)
  <2>1. UsedMemory(s, j) \in Int /\ s.memory[r] \in Nat
    BY UsedMemorySum DEF StateType
  <2> QED
    BY <1>1, <2>1
<1>3. ASSUME NEW j \in Instances
      PROVE  Short(a, j)
  <2>1. Short(s, j)
    BY DEF ShortAt
  <2> QED
    BY <1>1, <1>2, <2>1, ShortGrows
<1> QED
  BY <1>3 DEF ShortAt, a

(* Short, of all instances, is what IdleIsShort says of them.              *)
LEMMA ShortIsShort ==
  ASSUME trace \in [Requests -> Shapes], NEW s \in StateType
  PROVE  ShortAt(s, Instances) <=>
           \A i \in Instances :
             s.inst[i].batch = <<>> /\ s.inst[i].pending # <<>> =>
               \E t \in ToSet(s.inst[i].pending) : ~ Fits(s, i, TaskMemory(t))
<1>1. ASSUME NEW i \in Instances, NEW t \in ToSet(s.inst[i].pending)
      PROVE  ~ Fits(s, i, TaskMemory(t)) <=> NoRoom(UsedMemory(s, i), t)
  <2>1. t \in TaskNodes
    BY QueueFields, ElementsAreTasks
  <2>2. UsedMemory(s, i) \in Int /\ TaskMemory(t) \in Int /\ MaxMemory \in Int
    BY <2>1, UsedMemorySum, SizesAreNumbers, InstanceAssumption
  <2> QED
    BY <2>2 DEF Fits, NoRoom
<1> QED
  BY <1>1 DEF ShortAt, Short

(* An action that leads to such a state keeps IdleIsShort.                 *)
LEMMA BecomesShort ==
  ASSUME trace \in [Requests -> Shapes], trace' = trace, NEW s \in StateType,
         Becomes(s), ShortAt(s, Instances)
  PROVE  IdleIsShort'
<1> DEFINE a == State'
<1>1. inst' = s.inst /\ a.alloc = s.alloc
  BY DEF Becomes, State
<1> HIDE DEF a
<1>2. \A i, m : Fits(a, i, m) <=> Fits(s, i, m)
  BY <1>1 DEF Fits, UsedMemory
<1>3. \A t : TaskMemory(t)' = TaskMemory(t)
  BY DEF TaskMemory, PromptMemory, TokenMemory
<1>4. \A i \in Instances :
        s.inst[i].batch = <<>> /\ s.inst[i].pending # <<>> =>
          \E t \in ToSet(s.inst[i].pending) : ~ Fits(s, i, TaskMemory(t))
  BY ShortIsShort
<1> QED
  BY <1>1, <1>2, <1>3, <1>4 DEF IdleIsShort, a

(* So does one that changes no memory and leaves the idle instances alone. *)
LEMMA SameShort ==
  ASSUME IdleIsShort, trace' = trace, alloc' = alloc,
         \A j \in Instances : inst'[j].batch = <<>> => inst'[j] = inst[j]
  PROVE  IdleIsShort'
<1> DEFINE a == State'
<1>1. a.alloc = State.alloc
  BY DEF State
<1> HIDE DEF a
<1>2. \A i, m : Fits(a, i, m) <=> Fits(State, i, m)
  BY <1>1 DEF Fits, UsedMemory
<1>3. \A t : TaskMemory(t)' = TaskMemory(t)
  BY DEF TaskMemory, PromptMemory, TokenMemory
<1> QED
  BY <1>2, <1>3 DEF IdleIsShort, a

(* A request that arrives keeps IdleIsShort.                               *)
LEMMA RequestArrivalShort ==
  ASSUME ClusterInv, ShortAt(State, Instances),
         NEW r \in Requests, NEW p \in Instances, NEW x \in Instances,
         RequestArrival(r, p, x)
  PROVE  IdleIsShort'
<1> DEFINE a == Submit(State, r, p, x, tokenOn')
<1>1. /\ promptOn[r] = NoInstance /\ \A q \in Requests : q < r => promptOn[q] # NoInstance
      /\ promptOn' = [promptOn EXCEPT ![r] = p] /\ tokenOn' = [tokenOn EXCEPT ![r] = x]
      /\ Becomes(a) /\ trace' = trace
  BY DEF RequestArrival, IsNext
<1> HIDE DEF a
<1>2. /\ trace \in [Requests -> Shapes] /\ Placed(promptOn, tokenOn) /\ InOrder
      /\ Regular(State, promptOn, tokenOn, Batches(State), Idle(State), Instances, Instances)
  BY DEF ClusterInv
<1>3. \A q \in Requests : r < q => promptOn[q] = NoInstance
  BY <1>1, <1>2 DEF InOrder
<1>4. a \in StateType
  <2>1. \E N : Regular(Submit(State, r, p, x, [tokenOn EXCEPT ![r] = x]),
                       [promptOn EXCEPT ![r] = p], [tokenOn EXCEPT ![r] = x],
                       Batches(State), N, Instances, Instances)
    BY <1>1, <1>2, <1>3, SubmitRegular
  <2> QED
    BY <1>1, <2>1 DEF a, Regular, Good
<1>5. ShortAt(a, Instances)
  <2>1. ShortAt(Submit(State, r, p, x, [tokenOn EXCEPT ![r] = x]), Instances)
    BY <1>1, <1>2, <1>3, SubmitShortAt
  <2> QED
    BY <1>1, <2>1 DEF a
<1> QED
  BY <1>1, <1>2, <1>4, <1>5, BecomesShort

(* An iteration that completes keeps it.                                   *)
LEMMA IterationCompletionShort ==
  ASSUME ClusterInv, ShortAt(State, Instances), NEW i \in Instances, IterationCompletion(i)
  PROVE  IdleIsShort'
<1> DEFINE a == CompleteIteration(State, i, tokenOn)
<1>1. Becomes(a) /\ trace' = trace
  BY DEF IterationCompletion
<1>2. /\ trace \in [Requests -> Shapes] /\ Placed(promptOn, tokenOn)
      /\ Good(State, promptOn, tokenOn)
      /\ Regular(State, promptOn, tokenOn, Batches(State), Idle(State), Instances, Instances)
  BY DEF ClusterInv, Regular
<1>3. a \in StateType
  <2>1. ToSet(State.inst[i].batch) \subseteq Batches(State)[i]
    BY DEF Batches
  <2>2. Regular(a, promptOn, tokenOn, Batches(State), Idle(State), Instances, Instances)
    BY <1>2, <2>1, CompleteIterationRegular
  <2> HIDE DEF a
  <2> QED
    BY <2>2 DEF Regular, Good
<1>4. ShortAt(a, Instances)
  <2>1. ShortAt(State, Instances \ {i})
    BY DEF ShortAt
  <2> QED
    BY <1>2, <2>1, CompleteShortAt
<1> QED
  BY <1>1, <1>2, <1>3, <1>4, BecomesShort

(* A flow that completes keeps it.                                         *)
LEMMA FlowCompletionShort ==
  ASSUME ClusterInv, ShortAt(State, Instances), NEW r \in Requests, FlowCompletion(r)
  PROVE  IdleIsShort'
<1> DEFINE s0 == Delivered(State, r, promptOn)
           a == NotifyFlowCompletion(TaskArrival(s0, tokenOn[r], Token(r), tokenOn),
                                     promptOn[r], tokenOn)
           B == Batches(State)
<1>1. Becomes(a) /\ trace' = trace /\ State.node[Flow(r)] = "RUNNING"
  <2>1. State.memory = memory /\ State.node = node
    BY DEF State
  <2> QED
    BY <2>1 DEF FlowCompletion, Delivered
<1>2. /\ trace \in [Requests -> Shapes] /\ Placed(promptOn, tokenOn)
      /\ Regular(State, promptOn, tokenOn, B, Idle(State), Instances, Instances)
  BY DEF ClusterInv
<1>3. \A i \in Instances : ToSet(State.inst[i].batch) \subseteq B[i]
  BY DEF Batches
<1> HIDE DEF s0, B
<1>4. s0 = Delivered(State, r, promptOn)
  BY DEF s0
<1>5. a \in StateType
  <2>1. \E N : Regular(a, promptOn, tokenOn, B, N, Instances, Instances)
    BY <1>1, <1>2, <1>3, <1>4, FlowCompletionRegular
  <2> HIDE DEF a
  <2> QED
    BY <2>1 DEF Regular, Good
<1>6. ShortAt(a, Instances)
  BY <1>1, <1>2, <1>4, FlowCompletionShortAt
<1> HIDE DEF a
<1> QED
  BY <1>1, <1>2, <1>5, <1>6, BecomesShort

(* A flow that is tried again keeps it.                                    *)
LEMMA RetryFlowShort ==
  ASSUME ClusterInv, ShortAt(State, Instances), NEW r \in Requests, RetryFlow(r)
  PROVE  IdleIsShort'
<1> DEFINE a == RunFlow(State, r, tokenOn[r])
<1>1. /\ Becomes(a) /\ trace' = trace /\ State.node[Flow(r)] = "QUEUED"
  <2>1. State.memory = memory /\ State.node = node
    BY DEF State
  <2> QED
    BY <2>1 DEF RetryFlow
<1>2. /\ trace \in [Requests -> Shapes] /\ Placed(promptOn, tokenOn)
      /\ State \in StateType /\ Stage(State, r, promptOn, tokenOn)
  BY DEF ClusterInv, Regular, Good
<1>3. tokenOn[r] \in Instances
  BY <1>1, <1>2 DEF Stage, Placed, Placing
<1>4. a \in StateType
  BY <1>2, <1>3, RunFlowLaw
<1>5. ShortAt(a, Instances)
  BY <1>2, <1>3, RetryShortAt
<1> HIDE DEF a
<1> QED
  BY <1>1, <1>2, <1>4, <1>5, BecomesShort

(* Time that passes keeps it.                                              *)
LEMMA IterationOverShort ==
  ASSUME ClusterInv, IdleIsShort, NEW i \in Instances, IterationOver(i)
  PROVE  IdleIsShort'
<1>1. /\ inst[i].batch # <<>> /\ inst' = [inst EXCEPT ![i].elapsed = @ + 1]
      /\ trace' = trace /\ alloc' = alloc
  BY DEF IterationOver
<1>2. State \in StateType /\ State.inst = inst
  BY DEF ClusterInv, Regular, Good, State
<1>3. inst \in [Instances -> QueueType] /\ inst[i] \in QueueType
  BY <1>2 DEF StateType
<1>4. inst'[i].batch = inst[i].batch
  BY <1>1, <1>3 DEF QueueType
<1>5. \A j \in Instances : inst'[j].batch = <<>> => inst'[j] = inst[j]
  BY <1>1, <1>3, <1>4
<1> QED
  BY <1>1, <1>5, SameShort

(* Every step of the cluster keeps IdleIsShort.                            *)
LEMMA NextShort ==
  ASSUME ClusterInv, IdleIsShort, [ClusterNext]_cvars
  PROVE  IdleIsShort'
<1>1. ShortAt(State, Instances)
  <2>1. State \in StateType /\ State.inst = inst /\ trace \in [Requests -> Shapes]
    BY DEF ClusterInv, Regular, Good, State
  <2> QED
    BY <2>1, ShortIsShort DEF IdleIsShort
<1>2. CASE UNCHANGED cvars
  <2>1. trace' = trace /\ alloc' = alloc /\ inst' = inst
    BY <1>2 DEF cvars
  <2> QED
    BY <2>1, SameShort
<1>3. CASE \E r \in Requests, d \in Placements : RequestArrival(r, d[1], d[2])
  <2>1. \A d \in Placements : d[1] \in Instances /\ d[2] \in Instances
    BY PlacementAssumption
  <2> QED
    BY <1>1, <1>3, <2>1, RequestArrivalShort
<1>4. CASE \E i \in Instances : IterationOver(i) \/ IterationCompletion(i)
  BY <1>1, <1>4, IterationOverShort, IterationCompletionShort
<1>5. CASE \E r \in Requests : FlowCompletion(r) \/ RetryFlow(r)
  BY <1>1, <1>5, FlowCompletionShort, RetryFlowShort
<1> QED
  BY <1>2, <1>3, <1>4, <1>5 DEF ClusterNext, Finished

(* IdleIsShort: an instance is idle while tasks wait on it only if one of  *)
(* them does not fit in the memory that is left, so no order of arrivals,  *)
(* transfers, preemptions and completions loses a wake-up.                 *)
THEOREM IdleOnlyWhenShort == ClusterSpec => []IdleIsShort
<1>1. ClusterInit => IdleIsShort
  BY DEF ClusterInit, IdleIsShort, IdleInstance
<1>2. ClusterInv /\ IdleIsShort /\ [ClusterNext]_cvars => IdleIsShort'
  BY NextShort
<1> QED
  BY <1>1, <1>2, ClusterIsRegular, PTL DEF ClusterSpec
=============================================================================
