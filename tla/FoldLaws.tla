------------------------------- MODULE FoldLaws ------------------------------
(***************************************************************************)
(* Laws of the folds the models use.  First SumFunctionOnSet, the sum of a *)
(* function over a finite set: the community modules define it by          *)
(* recursion on the set, with an element chosen at every step; the laws do *)
(* not depend on the choice.  Then FlattenSeq, the concatenation of a      *)
(* sequence of sequences, by recursion on its length.                      *)
(***************************************************************************)
EXTENDS Integers, FiniteSets, Functions, SequencesExt, FiniteSetTheorems, TLAPS

(* Induction on the natural numbers, for a set of them.                    *)
LEMMA NatSetInduction ==
  ASSUME NEW G \in SUBSET Nat, 0 \in G, \A n \in G : n + 1 \in G
  PROVE  G = Nat
<1> DEFINE B == Nat \ G
           R == OpToRel(<, Nat)
<1>1. CASE B # {}
  <2>1. PICK n \in B : \A m \in B : ~ (<<m, n>> \in R)
    BY <1>1, NatLessThanWellFounded, WFMin
  <2>2. n \in Nat /\ n # 0 /\ n - 1 \in Nat /\ n - 1 < n
    <3>1. n \in Nat /\ n # 0
      BY <2>1
    <3> QED
      BY <3>1
  <2>3. <<n - 1, n>> \in R
    BY <2>1, <2>2 DEF OpToRel
  <2>4. n - 1 \in G
    BY <2>1, <2>2, <2>3
  <2>5. (n - 1) + 1 \in G
    BY <2>4
  <2>6. (n - 1) + 1 = n
    BY <2>2
  <2> QED
    BY <2>1, <2>5, <2>6
<1> QED
  BY <1>1

(* Induction on the subsets of a finite set, for a set of them.            *)
LEMMA SubsetInduction ==
  ASSUME NEW S, IsFiniteSet(S), NEW G \in SUBSET SUBSET S,
         {} \in G, \A T \in G : \A x \in S \ T : T \cup {x} \in G
  PROVE  S \in G
<1> DEFINE N == {n \in Nat : \A T \in SUBSET S : Cardinality(T) = n => T \in G}
<1>1. 0 \in N
  BY FS_EmptySet, FS_Subset
<1>2. ASSUME NEW n \in N
      PROVE  n + 1 \in N
  <2>1. ASSUME NEW T \in SUBSET S, Cardinality(T) = n + 1
        PROVE  T \in G
    <3>1. IsFiniteSet(T) /\ n \in Nat
      BY FS_Subset
    <3>2. T # {}
      BY <2>1, <3>1, FS_EmptySet
    <3>3. PICK x \in T : TRUE
      BY <3>2
    <3>4. Cardinality(T \ {x}) = n
      <4>1. Cardinality(T \ {x}) = Cardinality(T) - 1
        BY <3>1, <3>3, FS_RemoveElement
      <4> QED
        BY <2>1, <3>1, <4>1
    <3>5. T \ {x} \in G
      BY <3>4
    <3>6. T = (T \ {x}) \cup {x}
      BY <3>3
    <3> QED
      BY <3>3, <3>5, <3>6
  <2> QED
    BY <2>1
<1> HIDE DEF N
<1>3. N = Nat
  <2>1. N \in SUBSET Nat
    BY DEF N
  <2> QED
    BY <1>1, <1>2, <2>1, NatSetInduction
<1> QED
  BY <1>3, FS_CardinalityType DEF N
-----------------------------------------------------------------------------
Picked(s) == CHOOSE x \in s : TRUE

(* The recursion on the sets of D.                                         *)
AddsUp(g, f, D) ==
  g = [s \in D |-> IF s = {} THEN 0 ELSE f[Picked(s)] + g[s \ {Picked(s)}]]

Sums(g, f, S) == AddsUp(g, f, SUBSET S)

(* The element that the fold takes first is one of the set.                *)
LEMMA PickedIn ==
  ASSUME NEW s, s # {}
  PROVE  Picked(s) \in s
  BY DEF Picked

(* There is a function that the recursion describes, when S is finite.     *)
LEMMA SumExists ==
  ASSUME NEW f, NEW S, IsFiniteSet(S)
  PROVE  \E g : Sums(g, f, S)
<1> DEFINE Small(n) == {s \in SUBSET S : Cardinality(s) <= n}
           N == {n \in Nat : \E g : AddsUp(g, f, Small(n))}
<1>1. 0 \in N
  <2>1. Small(0) = {{}}
    <3>1. ASSUME NEW s \in SUBSET S
          PROVE  Cardinality(s) <= 0 <=> s = {}
      <4>1. IsFiniteSet(s) /\ Cardinality(s) \in Nat
        BY FS_Subset, FS_CardinalityType
      <4> QED
        BY <4>1, FS_EmptySet
    <3> QED
      BY <3>1
  <2> DEFINE g == [s \in {{}} |-> 0]
  <2>2. AddsUp(g, f, {{}})
    BY DEF AddsUp
  <2> QED
    BY <2>1, <2>2
<1>2. ASSUME NEW n \in N
      PROVE  n + 1 \in N
  <2>1. PICK g : AddsUp(g, f, Small(n))
    BY <1>2
  <2> DEFINE h == [s \in Small(n + 1) |->
                     IF s = {} THEN 0 ELSE f[Picked(s)] + g[s \ {Picked(s)}]]
  <2>2. ASSUME NEW s \in Small(n)
        PROVE  s \in Small(n + 1) /\ h[s] = g[s]
    <3>1. s \in Small(n + 1)
      <4>1. Cardinality(s) \in Nat /\ n \in Nat
        BY FS_Subset, FS_CardinalityType
      <4> QED
        BY <4>1
    <3> HIDE DEF Small
    <3>2. g[s] = IF s = {} THEN 0 ELSE f[Picked(s)] + g[s \ {Picked(s)}]
      BY <2>1 DEF AddsUp
    <3> QED
      BY <3>1, <3>2
  <2>3. ASSUME NEW s \in Small(n + 1), s # {}
        PROVE  s \ {Picked(s)} \in Small(n)
    <3>1. IsFiniteSet(s) /\ Cardinality(s) \in Nat /\ n \in Nat
      BY FS_Subset, FS_CardinalityType
    <3>2. Cardinality(s \ {Picked(s)}) = Cardinality(s) - 1
      BY <2>3, <3>1, PickedIn, FS_RemoveElement
    <3> QED
      BY <3>1, <3>2
  <2>4. AddsUp(h, f, Small(n + 1))
    <3> HIDE DEF Small
    <3>1. \A s \in Small(n + 1) : s # {} =>
            h[s \ {Picked(s)}] = g[s \ {Picked(s)}]
      BY <2>2, <2>3
    <3> QED
      BY <3>1 DEF AddsUp
  <2>5. n + 1 \in Nat
    OBVIOUS
  <2> HIDE DEF h, Small
  <2> QED
    BY <2>4, <2>5
<1> HIDE DEF N
<1>3. N = Nat
  <2>1. N \in SUBSET Nat
    BY DEF N
  <2> QED
    BY <1>1, <1>2, <2>1, NatSetInduction
<1>4. Cardinality(S) \in Nat
  BY FS_CardinalityType
<1>5. Small(Cardinality(S)) = SUBSET S
  BY FS_Subset
<1>6. \E g : AddsUp(g, f, Small(Cardinality(S)))
  BY <1>3, <1>4 DEF N
<1> QED
  BY <1>5, <1>6 DEF Sums

(* SumFunctionOnSet is such a function.                                    *)
LEMMA SumUnfolds ==
  ASSUME NEW f, NEW S, IsFiniteSet(S)
  PROVE  \E g : Sums(g, f, S) /\ SumFunctionOnSet(f, S) = g[S]
<1> DEFINE it[s \in SUBSET S] ==
             IF s = {} THEN 0
             ELSE LET x == CHOOSE x \in s : TRUE IN f[x] + it[s \ {x}]
<1>1. SumFunctionOnSet(f, S) = it[S]
  BY DEF SumFunctionOnSet, FoldFunctionOnSet, MapThenFoldSet
<1>2. \E g : Sums(g, f, S)
  BY SumExists
<1>3. Sums(it, f, S)
  BY <1>2 DEF Sums, AddsUp, Picked
<1> QED
  BY <1>1, <1>3

(* The recursion does not depend on the set it is started with.            *)
LEMMA SumUnique ==
  ASSUME NEW f, NEW S, NEW T, NEW g, NEW h,
         IsFiniteSet(S), T \subseteq S,
         Sums(g, f, S), Sums(h, f, T)
  PROVE  g[T] = h[T]
<1> DEFINE N == {n \in Nat : \A s \in SUBSET T : Cardinality(s) = n => g[s] = h[s]}
<1>1. ASSUME NEW s \in SUBSET T
      PROVE  /\ IsFiniteSet(s) /\ Cardinality(s) \in Nat
             /\ g[s] = IF s = {} THEN 0 ELSE f[Picked(s)] + g[s \ {Picked(s)}]
             /\ h[s] = IF s = {} THEN 0 ELSE f[Picked(s)] + h[s \ {Picked(s)}]
  <2>1. IsFiniteSet(s)
    BY FS_Subset
  <2>2. Cardinality(s) \in Nat
    BY <2>1, FS_CardinalityType
  <2> QED
    BY <2>1, <2>2 DEF Sums, AddsUp
<1>2. 0 \in N
  BY <1>1, FS_EmptySet
<1>3. ASSUME NEW n \in N
      PROVE  n + 1 \in N
  <2>1. ASSUME NEW s \in SUBSET T, Cardinality(s) = n + 1
        PROVE  g[s] = h[s]
    <3>1. s # {}
      BY <1>1, <2>1, FS_EmptySet
    <3>2. Cardinality(s \ {Picked(s)}) = n
      <4>1. Cardinality(s \ {Picked(s)}) = Cardinality(s) - 1
        BY <1>1, <3>1, PickedIn, FS_RemoveElement
      <4> QED
        BY <2>1, <4>1
    <3>3. g[s \ {Picked(s)}] = h[s \ {Picked(s)}]
      BY <3>2
    <3> QED
      BY <1>1, <3>1, <3>3
  <2> QED
    BY <2>1
<1> HIDE DEF N
<1>4. N = Nat
  <2>1. N \in SUBSET Nat
    BY DEF N
  <2> QED
    BY <1>2, <1>3, <2>1, NatSetInduction
<1> QED
  BY <1>1, <1>4 DEF N
-----------------------------------------------------------------------------
(* The sum over nothing.                                                   *)
LEMMA SumEmpty ==
  ASSUME NEW f
  PROVE  SumFunctionOnSet(f, {}) = 0
<1>1. IsFiniteSet({})
  BY FS_EmptySet
<1> QED
  BY <1>1, SumUnfolds, ZenonT(30) DEF Sums, AddsUp

(* A sum is the element picked and the sum of the rest.                    *)
LEMMA SumPicked ==
  ASSUME NEW f, NEW S, IsFiniteSet(S), S # {}
  PROVE  SumFunctionOnSet(f, S)
           = f[Picked(S)] + SumFunctionOnSet(f, S \ {Picked(S)})
<1> DEFINE T == S \ {Picked(S)}
<1>1. IsFiniteSet(T) /\ T \subseteq S
  BY FS_RemoveElement
<1>2. PICK g : Sums(g, f, S) /\ SumFunctionOnSet(f, S) = g[S]
  BY SumUnfolds
<1> HIDE DEF T
<1>3. PICK h : Sums(h, f, T) /\ SumFunctionOnSet(f, T) = h[T]
  BY <1>1, SumUnfolds
<1>4. g[T] = h[T]
  BY <1>1, <1>2, <1>3, SumUnique
<1>5. g[S] = f[Picked(S)] + g[T]
  BY <1>2 DEF Sums, AddsUp, T
<1> QED
  BY <1>2, <1>3, <1>4, <1>5 DEF T

(* A sum of integers is one, and of naturals too.                          *)
LEMMA SumType ==
  ASSUME NEW f, NEW S, IsFiniteSet(S), NEW V \in {Nat, Int}, \A x \in S : f[x] \in V
  PROVE  SumFunctionOnSet(f, S) \in V
<1> DEFINE Sum(T) == SumFunctionOnSet(f, T)
           N == {n \in Nat : \A T \in SUBSET S : Cardinality(T) = n => Sum(T) \in V}
<1> HIDE DEF Sum
<1>1. ASSUME NEW T \in SUBSET S
      PROVE  IsFiniteSet(T) /\ Cardinality(T) \in Nat
  BY FS_Subset, FS_CardinalityType
<1>2. 0 \in N
  <2>1. Sum({}) = 0
    BY SumEmpty DEF Sum
  <2> QED
    BY <1>1, <2>1, FS_EmptySet
<1>3. ASSUME NEW n \in N
      PROVE  n + 1 \in N
  <2>1. ASSUME NEW T \in SUBSET S, Cardinality(T) = n + 1
        PROVE  Sum(T) \in V
    <3> DEFINE c == Picked(T)
    <3>1. T # {} /\ c \in T
      BY <1>1, <2>1, FS_EmptySet, PickedIn
    <3> HIDE DEF c
    <3>2. Cardinality(T \ {c}) = n
      <4>1. Cardinality(T \ {c}) = Cardinality(T) - 1
        BY <1>1, <3>1, FS_RemoveElement
      <4> QED
        BY <2>1, <4>1
    <3>3. Sum(T) = f[c] + Sum(T \ {c})
      BY <1>1, <3>1, SumPicked DEF Sum, c
    <3>4. Sum(T \ {c}) \in V /\ f[c] \in V
      BY <3>1, <3>2
    <3> QED
      BY <3>3, <3>4
  <2> QED
    BY <2>1
<1> HIDE DEF N
<1>4. N = Nat
  <2>1. N \in SUBSET Nat
    BY DEF N
  <2> QED
    BY <1>2, <1>3, <2>1, NatSetInduction
<1>5. Sum(S) \in V
  BY <1>1, <1>4 DEF N
<1> QED
  BY <1>5 DEF Sum

(* Whichever element is taken out of the sum.                              *)
LEMMA SumRemove ==
  ASSUME NEW f, NEW S, IsFiniteSet(S), \A x \in S : f[x] \in Int, NEW e \in S
  PROVE  SumFunctionOnSet(f, S) = f[e] + SumFunctionOnSet(f, S \ {e})
<1> DEFINE Sum(T) == SumFunctionOnSet(f, T)
           Good(T) == \A x \in T : Sum(T) = f[x] + Sum(T \ {x})
           N == {n \in Nat : \A T \in SUBSET S : Cardinality(T) = n => Good(T)}
<1>1. ASSUME NEW T \in SUBSET S
      PROVE  IsFiniteSet(T) /\ Cardinality(T) \in Nat /\ Sum(T) \in Int
  <2>1. IsFiniteSet(T) /\ Cardinality(T) \in Nat
    BY FS_Subset, FS_CardinalityType
  <2>2. \A x \in T : f[x] \in Int
    OBVIOUS
  <2> QED
    BY <2>1, <2>2, SumType
<1> HIDE DEF Sum
<1>2. 0 \in N
  BY <1>1, FS_EmptySet
<1>3. ASSUME NEW n \in N
      PROVE  n + 1 \in N
  <2>1. ASSUME NEW T \in SUBSET S, Cardinality(T) = n + 1
        PROVE  Good(T)
    <3> DEFINE c == Picked(T)
    <3>1. T # {} /\ c \in T
      BY <1>1, <2>1, FS_EmptySet, PickedIn
    <3>2. ASSUME NEW x \in T
          PROVE  Good(T \ {x})
      <4>1. Cardinality(T \ {x}) = n
        <5>1. Cardinality(T \ {x}) = Cardinality(T) - 1
          BY <1>1, FS_RemoveElement
        <5> QED
          BY <2>1, <5>1
      <4> HIDE DEF Good
      <4> QED
        BY <4>1
    <3> HIDE DEF c
    <3>3. Sum(T) = f[c] + Sum(T \ {c})
      BY <1>1, <3>1, SumPicked DEF Sum, c
    <3>4. ASSUME NEW x \in T, x # c
          PROVE  Sum(T) = f[x] + Sum(T \ {x})
      <4> DEFINE rest == Sum((T \ {c}) \ {x})
      <4>1. Sum(T \ {c}) = f[x] + rest
        BY <3>1, <3>2, <3>4
      <4>2. (T \ {x}) \ {c} = (T \ {c}) \ {x}
        OBVIOUS
      <4>3. Sum(T \ {x}) = f[c] + rest
        BY <3>1, <3>2, <3>4, <4>2
      <4>4. f[x] \in Int /\ f[c] \in Int /\ rest \in Int
        BY <1>1, <3>1
      <4> HIDE DEF rest
      <4> QED
        BY <3>3, <4>1, <4>3, <4>4
    <3> QED
      BY <3>3, <3>4
  <2> QED
    BY <2>1
<1> HIDE DEF N
<1>4. N = Nat
  <2>1. N \in SUBSET Nat
    BY DEF N
  <2> QED
    BY <1>2, <1>3, <2>1, NatSetInduction
<1>5. Good(S)
  BY <1>1, <1>4 DEF N
<1> QED
  BY <1>5 DEF Sum

(* One element more.                                                       *)
LEMMA SumAdd ==
  ASSUME NEW f, NEW S, IsFiniteSet(S), NEW e, e \notin S,
         \A x \in S \cup {e} : f[x] \in Int
  PROVE  SumFunctionOnSet(f, S \cup {e}) = f[e] + SumFunctionOnSet(f, S)
<1>1. IsFiniteSet(S \cup {e}) /\ (S \cup {e}) \ {e} = S
  BY FS_AddElement
<1> QED
  BY <1>1, SumRemove

(* The sum over a part and the sum over the rest.                          *)
LEMMA SumSplit ==
  ASSUME NEW f, NEW S, IsFiniteSet(S), \A x \in S : f[x] \in Int,
         NEW T, T \subseteq S
  PROVE  SumFunctionOnSet(f, S) = SumFunctionOnSet(f, T) + SumFunctionOnSet(f, S \ T)
<1> DEFINE Sum(U) == SumFunctionOnSet(f, U)
           G == {U \in SUBSET T : Sum(S) = Sum(U) + Sum(S \ U)}
<1>1. ASSUME NEW U \in SUBSET S
      PROVE  IsFiniteSet(U) /\ Sum(U) \in Int
  <2>1. IsFiniteSet(U) /\ \A x \in U : f[x] \in Int
    BY FS_Subset
  <2> QED
    BY <2>1, SumType
<1>2. Sum({}) = 0
  BY SumEmpty
<1>3. ASSUME NEW U \in SUBSET S, NEW x \in S \ U
      PROVE  /\ Sum(U \cup {x}) = f[x] + Sum(U)
             /\ Sum(S \ U) = f[x] + Sum(S \ (U \cup {x}))
  <2>1. Sum(U \cup {x}) = f[x] + Sum(U)
    BY <1>1, SumAdd
  <2>2. IsFiniteSet(S \ U) /\ \A y \in S \ U : f[y] \in Int
    BY <1>1
  <2>3. Sum(S \ U) = f[x] + Sum((S \ U) \ {x})
    BY <2>2, SumRemove
  <2>4. (S \ U) \ {x} = S \ (U \cup {x})
    OBVIOUS
  <2> QED
    BY <2>1, <2>3, <2>4
<1> HIDE DEF Sum
<1>4. {} \in G
  <2>1. S \ {} = S /\ S \in SUBSET S
    OBVIOUS
  <2>2. Sum(S) \in Int
    BY <1>1, <2>1
  <2> QED
    BY <1>2, <2>1, <2>2
<1>5. ASSUME NEW U \in G, NEW x \in T \ U
      PROVE  U \cup {x} \in G
  <2>1. U \in SUBSET S /\ x \in S \ U /\ U \cup {x} \in SUBSET T
    OBVIOUS
  <2>2. f[x] \in Int /\ Sum(U) \in Int /\ Sum(S \ (U \cup {x})) \in Int
    BY <1>1, <2>1
  <2>3. Sum(S) = Sum(U) + Sum(S \ U)
    OBVIOUS
  <2>4. Sum(S) = Sum(U \cup {x}) + Sum(S \ (U \cup {x}))
    <3> DEFINE a == Sum(U)
               b == Sum(S \ (U \cup {x}))
    <3>1. Sum(U \cup {x}) = f[x] + a /\ Sum(S \ U) = f[x] + b
      BY <1>3, <2>1
    <3>2. Sum(S) = a + (f[x] + b)
      BY <2>3, <3>1
    <3>3. f[x] \in Int /\ a \in Int /\ b \in Int
      BY <2>2
    <3> HIDE DEF a
    <3>4. a + (f[x] + b) = (f[x] + a) + b
      BY <3>3
    <3> QED
      BY <3>1, <3>2, <3>4
  <2> QED
    BY <2>1, <2>4
<1>6. T \in G
  <2>1. IsFiniteSet(T) /\ G \in SUBSET SUBSET T
    BY <1>1
  <2> HIDE DEF G
  <2> QED
    BY <1>4, <1>5, <2>1, SubsetInduction
<1> QED
  BY <1>6 DEF Sum

(* The sum of two functions.                                               *)
LEMMA SumPlus ==
  ASSUME NEW f, NEW g, NEW h, NEW S, IsFiniteSet(S),
         \A x \in S : g[x] \in Int /\ h[x] \in Int /\ f[x] = g[x] + h[x]
  PROVE  SumFunctionOnSet(f, S) = SumFunctionOnSet(g, S) + SumFunctionOnSet(h, S)
<1> DEFINE Sum(k, U) == SumFunctionOnSet(k, U)
           G == {U \in SUBSET S : Sum(f, U) = Sum(g, U) + Sum(h, U)}
<1>1. {} \in G
  BY SumEmpty
<1>2. ASSUME NEW U \in G, NEW x \in S \ U
      PROVE  U \cup {x} \in G
  <2>1. /\ IsFiniteSet(U)
        /\ \A y \in U : g[y] \in Int
        /\ \A y \in U : h[y] \in Int
        /\ \A y \in U \cup {x} : f[y] \in Int
        /\ \A y \in U \cup {x} : g[y] \in Int
        /\ \A y \in U \cup {x} : h[y] \in Int
    BY FS_Subset
  <2>2. Sum(g, U) \in Int /\ Sum(h, U) \in Int
    BY <2>1, SumType
  <2>3. /\ Sum(f, U \cup {x}) = f[x] + Sum(f, U)
        /\ Sum(g, U \cup {x}) = g[x] + Sum(g, U)
        /\ Sum(h, U \cup {x}) = h[x] + Sum(h, U)
    BY <2>1, SumAdd
  <2> HIDE DEF Sum
  <2>4. Sum(f, U) = Sum(g, U) + Sum(h, U) /\ f[x] = g[x] + h[x]
        /\ g[x] \in Int /\ h[x] \in Int
    OBVIOUS
  <2> QED
    BY <2>2, <2>3, <2>4
<1>3. G \in SUBSET SUBSET S
  OBVIOUS
<1> HIDE DEF G
<1>4. S \in G
  BY <1>1, <1>2, <1>3, SubsetInduction
<1> QED
  BY <1>4 DEF G

(* Only the values on the set count.                                       *)
LEMMA SumSame ==
  ASSUME NEW f, NEW g, NEW S, IsFiniteSet(S),
         \A x \in S : f[x] \in Int /\ f[x] = g[x]
  PROVE  SumFunctionOnSet(f, S) = SumFunctionOnSet(g, S)
<1> DEFINE Sum(k, U) == SumFunctionOnSet(k, U)
           G == {U \in SUBSET S : Sum(f, U) = Sum(g, U)}
<1>1. {} \in G
  BY SumEmpty
<1>2. ASSUME NEW U \in G, NEW x \in S \ U
      PROVE  U \cup {x} \in G
  <2>1. /\ IsFiniteSet(U)
        /\ \A y \in U \cup {x} : f[y] \in Int
        /\ \A y \in U \cup {x} : g[y] \in Int
    BY FS_Subset
  <2>2. /\ Sum(f, U \cup {x}) = f[x] + Sum(f, U)
        /\ Sum(g, U \cup {x}) = g[x] + Sum(g, U)
    BY <2>1, SumAdd
  <2> QED
    BY <2>2
<1>3. G \in SUBSET SUBSET S
  OBVIOUS
<1> HIDE DEF G
<1>4. S \in G
  BY <1>1, <1>2, <1>3, SubsetInduction
<1> QED
  BY <1>4 DEF G

(* A sum of zeros.                                                         *)
LEMMA SumZero ==
  ASSUME NEW f, NEW S, IsFiniteSet(S), \A x \in S : f[x] = 0
  PROVE  SumFunctionOnSet(f, S) = 0
<1> DEFINE s == SumFunctionOnSet(f, S)
<1>1. s = s + s
  BY SumPlus
<1>2. s \in Int
  BY SumType
<1> HIDE DEF s
<1>3. s = 0
  BY <1>1, <1>2
<1> QED
  BY <1>3 DEF s

(* The sum over other names of the same elements.                          *)
LEMMA SumRenamed ==
  ASSUME NEW f, NEW g, NEW S, IsFiniteSet(S), NEW m,
         \A x, y \in S : m[x] = m[y] => x = y,
         \A x \in S : f[x] \in Int /\ g[m[x]] = f[x]
  PROVE  SumFunctionOnSet(g, {m[x] : x \in S}) = SumFunctionOnSet(f, S)
<1> DEFINE Named(U) == {m[x] : x \in U}
           Sum(k, U) == SumFunctionOnSet(k, U)
           G == {U \in SUBSET S : IsFiniteSet(Named(U)) /\ Sum(g, Named(U)) = Sum(f, U)}
<1>1. {} \in G
  <2>1. Named({}) = {}
    OBVIOUS
  <2> HIDE DEF Named
  <2> QED
    BY <2>1, SumEmpty, FS_EmptySet
<1>2. ASSUME NEW U \in G, NEW x \in S \ U
      PROVE  U \cup {x} \in G
  <2>1. /\ Named(U \cup {x}) = Named(U) \cup {m[x]} /\ m[x] \notin Named(U)
        /\ \A z \in Named(U) \cup {m[x]} : g[z] \in Int
    BY <1>2
  <2>2. IsFiniteSet(U) /\ \A z \in U \cup {x} : f[z] \in Int
    BY FS_Subset
  <2>3. IsFiniteSet(Named(U)) /\ SumFunctionOnSet(g, Named(U)) = SumFunctionOnSet(f, U)
    BY <1>2
  <2> HIDE DEF Named
  <2>4. SumFunctionOnSet(g, Named(U) \cup {m[x]}) = g[m[x]] + SumFunctionOnSet(g, Named(U))
    BY <2>1, <2>3, SumAdd
  <2>5. SumFunctionOnSet(f, U \cup {x}) = f[x] + SumFunctionOnSet(f, U)
    BY <1>2, <2>2, SumAdd
  <2>6. IsFiniteSet(Named(U) \cup {m[x]})
    BY <2>3, FS_AddElement
  <2> QED
    BY <2>1, <2>3, <2>4, <2>5, <2>6
<1> HIDE DEF G
<1>3. S \in G
  <2>1. G \in SUBSET (SUBSET S)
    BY DEF G
  <2> QED
    BY <1>1, <1>2, <2>1, SubsetInduction
<1> QED
  BY <1>3 DEF G

(* The values outside a part do not count when they are zero.              *)
LEMMA SumSupport ==
  ASSUME NEW f, NEW S, IsFiniteSet(S), \A x \in S : f[x] \in Int,
         NEW T, T \subseteq S, \A x \in S \ T : f[x] = 0
  PROVE  SumFunctionOnSet(f, S) = SumFunctionOnSet(f, T)
<1>1. IsFiniteSet(T) /\ IsFiniteSet(S \ T)
  BY FS_Subset
<1>2. SumFunctionOnSet(f, S \ T) = 0
  BY <1>1, SumZero
<1>3. SumFunctionOnSet(f, T) \in Int
  BY <1>1, SumType
<1> QED
  BY <1>2, <1>3, SumSplit

(* The sum of a function over its domain, as one over a larger set.        *)
LEMMA SumExtend ==
  ASSUME NEW S, IsFiniteSet(S), NEW p, DOMAIN p \subseteq S,
         \A x \in DOMAIN p : p[x] \in Int
  PROVE  SumFunction(p)
           = SumFunctionOnSet([x \in S |-> IF x \in DOMAIN p THEN p[x] ELSE 0], S)
<1> DEFINE T == DOMAIN p
           q == [x \in S |-> IF x \in T THEN p[x] ELSE 0]
<1>1. IsFiniteSet(T)
  BY FS_Subset
<1>2. /\ \A x \in S : q[x] \in Int
      /\ \A x \in S \ T : q[x] = 0
      /\ \A x \in T : p[x] \in Int /\ p[x] = q[x]
  OBVIOUS
<1> HIDE DEF q
<1>3. SumFunctionOnSet(q, S) = SumFunctionOnSet(q, T)
  BY <1>2, SumSupport
<1>4. SumFunctionOnSet(p, T) = SumFunctionOnSet(q, T)
  BY <1>1, <1>2, SumSame
<1> QED
  BY <1>3, <1>4 DEF SumFunction, q

(* A change of one value.                                                  *)
LEMMA SumChange ==
  ASSUME NEW f, NEW g, NEW S, IsFiniteSet(S),
         \A x \in S : f[x] \in Int /\ g[x] \in Int,
         NEW e \in S, \A x \in S \ {e} : f[x] = g[x]
  PROVE  SumFunctionOnSet(g, S) = SumFunctionOnSet(f, S) + (g[e] - f[e])
<1> DEFINE rest == SumFunctionOnSet(f, S \ {e})
<1>1. IsFiniteSet(S \ {e})
  BY FS_RemoveElement
<1>2. SumFunctionOnSet(g, S \ {e}) = rest /\ rest \in Int
  BY <1>1, SumSame, SumType
<1>3. /\ SumFunctionOnSet(f, S) = f[e] + rest
      /\ SumFunctionOnSet(g, S) = g[e] + rest
  BY <1>2, SumRemove
<1> HIDE DEF rest
<1>4. g[e] + rest = (f[e] + rest) + (g[e] - f[e])
  BY <1>2
<1> QED
  BY <1>3, <1>4

(* A sum with a positive value in it.                                      *)
LEMMA SumPositive ==
  ASSUME NEW f, NEW S, IsFiniteSet(S), \A x \in S : f[x] \in Nat,
         NEW e \in S, f[e] > 0
  PROVE  SumFunctionOnSet(f, S) > 0
<1> DEFINE rest == SumFunctionOnSet(f, S \ {e})
<1>1. IsFiniteSet(S \ {e})
  BY FS_RemoveElement
<1>2. rest \in Nat
  BY <1>1, SumType
<1>3. SumFunctionOnSet(f, S) = f[e] + rest
  BY SumRemove
<1> HIDE DEF rest
<1>4. f[e] + rest > 0
  BY <1>2
<1> QED
  BY <1>3, <1>4
-----------------------------------------------------------------------------
(* The elements of a concatenation are those of its parts.                 *)
LEMMA ConcatParts ==
  ASSUME NEW S, NEW s \in Seq(S), NEW t \in Seq(S)
  PROVE  /\ s \o t \in Seq(S) /\ Len(s \o t) = Len(s) + Len(t)
         /\ \A i \in DOMAIN (s \o t) :
              \/ i \in DOMAIN s /\ (s \o t)[i] = s[i]
              \/ i - Len(s) \in DOMAIN t /\ (s \o t)[i] = t[i - Len(s)]
                 /\ ~ (i \in DOMAIN s)
OBVIOUS

(* The concatenations of the first sequences of ss.                        *)
Concatenates(g, ss, n) ==
  g = [i \in 1 .. n |-> IF i = 1 THEN ss[i] ELSE g[i - 1] \o ss[i]]

(* They exist.                                                             *)
LEMMA ConcatenationExists ==
  ASSUME NEW ss, NEW m \in Nat
  PROVE  \E g : Concatenates(g, ss, m)
<1> DEFINE N == {n \in Nat : \E g : Concatenates(g, ss, n)}
<1>1. 0 \in N
  <2> DEFINE g == [i \in 1 .. 0 |-> <<>>]
  <2>1. Concatenates(g, ss, 0)
    BY DEF Concatenates
  <2> QED
    BY <2>1
<1>2. ASSUME NEW n \in N
      PROVE  n + 1 \in N
  <2>1. PICK g : Concatenates(g, ss, n)
    BY <1>2
  <2> DEFINE h == [i \in 1 .. n + 1 |->
                     IF i = 1 THEN ss[i] ELSE g[i - 1] \o ss[i]]
  <2>2. ASSUME NEW i \in 1 .. n + 1, i # 1
        PROVE  h[i - 1] = g[i - 1]
    <3>1. i - 1 \in 1 .. n /\ i - 1 \in 1 .. n + 1
      BY <2>2
    <3>2. g[i - 1] = IF i - 1 = 1 THEN ss[i - 1] ELSE g[(i - 1) - 1] \o ss[i - 1]
      BY <2>1, <3>1 DEF Concatenates
    <3> QED
      BY <3>1, <3>2
  <2>3. Concatenates(h, ss, n + 1)
    <3>1. h = [i \in 1 .. n + 1 |-> IF i = 1 THEN ss[i] ELSE h[i - 1] \o ss[i]]
      BY <2>2
    <3> QED
      BY <3>1 DEF Concatenates
  <2> HIDE DEF h
  <2> QED
    BY <2>3
<1>3. N = Nat
  <2>1. N \in SUBSET Nat
    OBVIOUS
  <2> HIDE DEF N
  <2> QED
    BY <1>1, <1>2, <2>1, NatSetInduction
<1> QED
  BY <1>3

(* FlattenSeq is the last of them.                                         *)
LEMMA FlattenUnfolds ==
  ASSUME NEW S, NEW ss \in Seq(S), Len(ss) # 0
  PROVE  \E g : Concatenates(g, ss, Len(ss)) /\ FlattenSeq(ss) = g[Len(ss)]
<1> DEFINE it[i \in 1 .. Len(ss)] == IF i = 1 THEN ss[i] ELSE it[i - 1] \o ss[i]
<1>1. FlattenSeq(ss) = it[Len(ss)]
  BY DEF FlattenSeq
<1>2. Len(ss) \in Nat
  OBVIOUS
<1>3. \E g : Concatenates(g, ss, Len(ss))
  BY <1>2, ConcatenationExists
<1>4. Concatenates(it, ss, Len(ss))
  BY <1>3 DEF Concatenates
<1> QED
  BY <1>1, <1>4

(* Induction on the sequences flattened, for a set of stages: how many     *)
(* there were, and their elements.                                         *)
LEMMA FlattenInduction ==
  ASSUME NEW S, NEW ss \in Seq(Seq(S)), NEW G \in SUBSET (Nat \X Seq(S)),
         <<0, <<>>>> \in G,
         \A n \in Nat : \A s \in Seq(S) :
           n < Len(ss) /\ <<n, s>> \in G => <<n + 1, s \o ss[n + 1]>> \in G
  PROVE  <<Len(ss), FlattenSeq(ss)>> \in G
<1>1. CASE Len(ss) = 0
  <2>1. FlattenSeq(ss) = <<>>
    BY <1>1 DEF FlattenSeq
  <2> QED
    BY <1>1, <2>1
<1>2. CASE Len(ss) # 0
  <2>1. PICK g : Concatenates(g, ss, Len(ss)) /\ FlattenSeq(ss) = g[Len(ss)]
    BY <1>2, FlattenUnfolds
  <2> DEFINE N == {n \in Nat : n + 1 <= Len(ss) => <<n + 1, g[n + 1]>> \in G}
  <2>2. 0 \in N
    <3>1. 1 \in 1 .. Len(ss) /\ 0 \in Nat /\ 0 < Len(ss) /\ 0 + 1 = 1
      BY <1>2
    <3>2. g[1] = ss[1]
      BY <2>1, <3>1 DEF Concatenates
    <3>3. ss[1] \in Seq(S)
      BY <3>1
    <3>4. <<>> \o ss[1] = ss[1] /\ <<>> \in Seq(S)
      BY <3>3
    <3>5. <<0 + 1, <<>> \o ss[0 + 1]>> \in G
      BY <3>1, <3>4
    <3>6. <<0 + 1, g[0 + 1]>> \in G
      BY <3>1, <3>2, <3>4, <3>5
    <3> QED
      BY <3>6
  <2>3. ASSUME NEW n \in N
        PROVE  n + 1 \in N
    <3>1. ASSUME (n + 1) + 1 <= Len(ss)
          PROVE  <<(n + 1) + 1, g[(n + 1) + 1]>> \in G
      <4>1. n \in Nat /\ <<n + 1, g[n + 1]>> \in G
        BY <3>1
      <4>2. g[(n + 1) + 1] = g[n + 1] \o ss[(n + 1) + 1]
        <5>1. (n + 1) + 1 \in 1 .. Len(ss) /\ (n + 1) + 1 # 1
              /\ ((n + 1) + 1) - 1 = n + 1
          BY <3>1, <4>1
        <5> QED
          BY <2>1, <5>1 DEF Concatenates
      <4>3. n + 1 \in Nat /\ n + 1 < Len(ss) /\ g[n + 1] \in Seq(S)
        BY <3>1, <4>1
      <4> QED
        BY <4>1, <4>2, <4>3
    <3> QED
      BY <3>1
  <2>4. N = Nat
    <3>1. N \in SUBSET Nat
      OBVIOUS
    <3> HIDE DEF N
    <3> QED
      BY <2>2, <2>3, <3>1, NatSetInduction
  <2>5. Len(ss) - 1 \in Nat /\ (Len(ss) - 1) + 1 = Len(ss)
    BY <1>2
  <2>6. Len(ss) - 1 \in N
    BY <2>4, <2>5
  <2> QED
    BY <2>1, <2>5, <2>6
<1> QED
  BY <1>1, <1>2

(* The flattened sequence has the elements of the sequences.               *)
LEMMA FlattenType ==
  ASSUME NEW S, NEW ss \in Seq(Seq(S))
  PROVE  FlattenSeq(ss) \in Seq(S)
<1> DEFINE G == Nat \X Seq(S)
<1>1. ASSUME NEW n \in Nat, NEW s \in Seq(S), n < Len(ss)
      PROVE  <<n + 1, s \o ss[n + 1]>> \in G
  <2>1. ss[n + 1] \in Seq(S) /\ n + 1 \in Nat
    BY <1>1
  <2>2. s \o ss[n + 1] \in Seq(S)
    BY <2>1
  <2> QED
    BY <2>1, <2>2, Zenon
<1>2. <<Len(ss), FlattenSeq(ss)>> \in G
  <2>1. 0 \in Nat /\ <<>> \in Seq(S)
    OBVIOUS
  <2>2. G \in SUBSET (Nat \X Seq(S)) /\ <<0, <<>>>> \in G
    BY <2>1, Zenon
  <2> HIDE DEF G
  <2> QED
    BY <1>1, <2>2, FlattenInduction
<1> QED
  BY <1>2

(* What holds of the elements of each sequence, given as a set P, and of   *)
(* the elements of each and of each two of them in order, given as a set R *)
(* of pairs, holds of the flattened one.                                   *)
LEMMA FlattenPairs ==
  ASSUME NEW S, NEW ss \in Seq(Seq(S)), NEW R,
         \A a \in DOMAIN ss : \A i, j \in DOMAIN ss[a] :
           i < j => <<ss[a][i], ss[a][j]>> \in R,
         \A a, b \in DOMAIN ss : a < b =>
           \A i \in DOMAIN ss[a], j \in DOMAIN ss[b] : <<ss[a][i], ss[b][j]>> \in R
  PROVE  \A i, j \in DOMAIN FlattenSeq(ss) :
           i < j => <<FlattenSeq(ss)[i], FlattenSeq(ss)[j]>> \in R
<1> DEFINE From(n, s) == \A i \in DOMAIN s : \E a \in DOMAIN ss :
                           a <= n /\ \E k \in DOMAIN ss[a] : s[i] = ss[a][k]
           Paired(s) == \A i, j \in DOMAIN s : i < j => <<s[i], s[j]>> \in R
           G == {ns \in Nat \X Seq(S) : From(ns[1], ns[2]) /\ Paired(ns[2])}
<1>1. <<0, <<>>>> \in G
  <2>1. From(0, <<>>) /\ Paired(<<>>) /\ <<>> \in Seq(S)
    OBVIOUS
  <2> HIDE DEF From, Paired
  <2> QED
    BY <2>1
<1>2. ASSUME NEW n \in Nat, NEW s \in Seq(S), n < Len(ss), <<n, s>> \in G
      PROVE  <<n + 1, s \o ss[n + 1]>> \in G
  <2> DEFINE t == ss[n + 1]
             u == s \o t
  <2>1. n + 1 \in DOMAIN ss /\ t \in Seq(S)
    BY <1>2
  <2>2. From(n, s) /\ Paired(s)
    BY <1>2
  <2> HIDE DEF t
  <2>3. /\ u \in Seq(S)
        /\ \A i \in DOMAIN u : \/ i \in DOMAIN s /\ u[i] = s[i]
                               \/ i - Len(s) \in DOMAIN t /\ u[i] = t[i - Len(s)]
                                  /\ ~ (i \in DOMAIN s)
    BY <2>1, ConcatParts
  <2>4. DOMAIN s = 1 .. Len(s) /\ DOMAIN t = 1 .. Len(t) /\ DOMAIN u \subseteq Nat
        /\ Len(s) \in Nat
    BY <2>1, <2>3
  <2> HIDE DEF u
  <2>5. From(n + 1, u)
    <3>1. ASSUME NEW i \in DOMAIN u
          PROVE  \E a \in DOMAIN ss : a <= n + 1 /\ \E k \in DOMAIN ss[a] : u[i] = ss[a][k]
      <4>1. CASE i \in DOMAIN s /\ u[i] = s[i]
        <5>1. PICK a \in DOMAIN ss :
                a <= n /\ \E k \in DOMAIN ss[a] : u[i] = ss[a][k]
          BY <2>2, <4>1
        <5>2. a <= n + 1
          BY <5>1
        <5> QED
          BY <5>1, <5>2
      <4>2. CASE i - Len(s) \in DOMAIN t /\ u[i] = t[i - Len(s)]
        <5>1. n + 1 <= n + 1
          OBVIOUS
        <5> QED
          BY <2>1, <4>2, <5>1 DEF t
      <4> QED
        BY <2>3, <4>1, <4>2
    <3> QED
      BY <3>1
  <2>6. ASSUME NEW i \in DOMAIN u, NEW j \in DOMAIN u, i < j
        PROVE  <<u[i], u[j]>> \in R
    <3>1. CASE i \in DOMAIN s /\ j \in DOMAIN s
      BY <2>2, <2>3, <2>4, <2>6, <3>1
    <3>2. CASE i \in DOMAIN s /\ ~ (j \in DOMAIN s)
      <4>1. u[i] = s[i] /\ j - Len(s) \in DOMAIN t /\ u[j] = t[j - Len(s)]
        BY <2>3, <2>4, <3>2
      <4>2. PICK a \in DOMAIN ss :
              a <= n /\ \E k \in DOMAIN ss[a] : s[i] = ss[a][k]
        BY <2>2, <3>2
      <4>3. a < n + 1
        BY <4>2
      <4> QED
        BY <2>1, <4>1, <4>2, <4>3 DEF t
    <3>3. CASE ~ (i \in DOMAIN s)
      <4>1. /\ i - Len(s) \in DOMAIN t /\ u[i] = t[i - Len(s)]
            /\ j - Len(s) \in DOMAIN t /\ u[j] = t[j - Len(s)]
            /\ i - Len(s) < j - Len(s)
        BY <2>3, <2>4, <2>6, <3>3
      <4> QED
        BY <2>1, <4>1 DEF t
    <3> QED
      BY <3>1, <3>2, <3>3
  <2>7. Paired(u)
    BY <2>6
  <2>8. <<n + 1, u>> \in G
    <3> HIDE DEF From, Paired
    <3> QED
      BY <2>3, <2>5, <2>7
  <2> QED
    BY <2>8 DEF u, t
<1>3. G \in SUBSET (Nat \X Seq(S))
  OBVIOUS
<1>4. <<Len(ss), FlattenSeq(ss)>> \in G
  <2> HIDE DEF G
  <2> QED
    BY <1>1, <1>2, <1>3, FlattenInduction
<1>5. Paired(FlattenSeq(ss))
  <2> HIDE DEF From, Paired
  <2> QED
    BY <1>4
<1> QED
  BY <1>5

(* Sequences of one element, and empty ones after the first m.             *)
LEMMA FlattenSingles ==
  ASSUME NEW S, NEW ss \in Seq(Seq(S)), NEW m \in 0 .. Len(ss), NEW f,
         \A a \in DOMAIN ss : ss[a] = IF a <= m THEN <<f[a]>> ELSE <<>>
  PROVE  /\ Len(FlattenSeq(ss)) = m
         /\ \A a \in 1 .. m : FlattenSeq(ss)[a] = f[a]
<1> DEFINE Good(n, s) == /\ Len(s) = IF n <= m THEN n ELSE m
                         /\ \A i \in DOMAIN s : s[i] = f[i]
           G == {ns \in Nat \X Seq(S) : Good(ns[1], ns[2])}
<1>1. <<0, <<>>>> \in G
  <2>1. Good(0, <<>>) /\ <<>> \in Seq(S)
    OBVIOUS
  <2> HIDE DEF Good
  <2> QED
    BY <2>1
<1>2. ASSUME NEW n \in Nat, NEW s \in Seq(S), n < Len(ss), <<n, s>> \in G
      PROVE  <<n + 1, s \o ss[n + 1]>> \in G
  <2> DEFINE t == ss[n + 1]
             u == s \o t
  <2>1. /\ n + 1 \in DOMAIN ss /\ t \in Seq(S)
        /\ t = IF n + 1 <= m THEN <<f[n + 1]>> ELSE <<>>
        /\ Good(n, s)
    BY <1>2
  <2> HIDE DEF t, Good
  <2>2. /\ u \in Seq(S) /\ Len(u) = Len(s) + Len(t)
        /\ \A i \in DOMAIN u : \/ i \in DOMAIN s /\ u[i] = s[i]
                               \/ i - Len(s) \in DOMAIN t /\ u[i] = t[i - Len(s)]
                                  /\ ~ (i \in DOMAIN s)
    <3>1. t \in Seq(S)
      BY <2>1
    <3> QED
      BY <3>1, ConcatParts
  <2> HIDE DEF u
  <2> USE DEF Good
  <2>3. Good(n + 1, u)
    <3>1. CASE n + 1 <= m
      <4>1. Len(t) = 1 /\ Len(s) = n /\ t[1] = f[n + 1]
        BY <2>1, <3>1
      <4>2. ASSUME NEW i \in DOMAIN u
            PROVE  u[i] = f[i]
        <5>1. i \in Nat /\ DOMAIN t = 1 .. 1
          BY <2>1, <2>2, <4>1
        <5>2. CASE i - Len(s) \in DOMAIN t /\ u[i] = t[i - Len(s)]
          <6>1. i = n + 1 /\ i - Len(s) = 1
            BY <4>1, <5>1, <5>2
          <6> QED
            BY <4>1, <5>2, <6>1
        <5> QED
          BY <2>1, <2>2, <5>2
      <4> QED
        BY <2>2, <3>1, <4>1, <4>2
    <3>2. CASE ~ (n + 1 <= m)
      <4>1. Len(t) = 0 /\ DOMAIN t = {} /\ Len(s) = m
        BY <2>1, <3>2
      <4>2. \A i \in DOMAIN u : u[i] = f[i]
        BY <2>1, <2>2, <4>1
      <4> QED
        BY <2>2, <3>2, <4>1, <4>2
    <3> QED
      BY <3>1, <3>2
  <2>4. <<n + 1, u>> \in G
    <3> HIDE DEF Good
    <3> QED
      BY <2>2, <2>3
  <2> QED
    BY <2>4 DEF u, t
<1>3. G \in SUBSET (Nat \X Seq(S))
  OBVIOUS
<1>4. <<Len(ss), FlattenSeq(ss)>> \in G
  <2> HIDE DEF G
  <2> QED
    BY <1>1, <1>2, <1>3, FlattenInduction
<1>5. FlattenSeq(ss) \in Seq(S) /\ Good(Len(ss), FlattenSeq(ss))
  <2> HIDE DEF Good
  <2> QED
    BY <1>4
<1> QED
  BY <1>5

(* Two sequences flattened.                                                *)
LEMMA FlattenTwo ==
  ASSUME NEW S, NEW s \in Seq(S), NEW t \in Seq(S)
  PROVE  FlattenSeq(<<s, t>>) = s \o t
<1> DEFINE ss == <<s, t>>
<1>1. ss \in Seq(Seq(S)) /\ Len(ss) = 2 /\ ss[1] = s /\ ss[2] = t
  <2> DEFINE V == Seq(S)
  <2>1. s \in V /\ t \in V
    OBVIOUS
  <2> HIDE DEF V
  <2>2. ss \in Seq(V) /\ Len(ss) = 2 /\ ss[1] = s /\ ss[2] = t
    BY <2>1
  <2> QED
    BY <2>2 DEF V
<1> HIDE DEF ss
<1>2. PICK g : Concatenates(g, ss, Len(ss)) /\ FlattenSeq(ss) = g[Len(ss)]
  <2> DEFINE V == Seq(S)
  <2>1. ss \in Seq(V) /\ Len(ss) # 0
    BY <1>1
  <2> HIDE DEF V
  <2> QED
    BY <2>1, FlattenUnfolds
<1>3. g = [i \in 1 .. 2 |-> IF i = 1 THEN ss[i] ELSE g[i - 1] \o ss[i]]
  BY <1>1, <1>2 DEF Concatenates
<1>4. g[1] = s /\ g[2] = g[1] \o t
  BY <1>1, <1>3
<1> QED
  BY <1>1, <1>2, <1>4 DEF ss

(* A function of 1 and 2 is a pair.                                        *)
LEMMA RowsAreTwo ==
  ASSUME NEW f, f = [k \in 1 .. 2 |-> f[k]]
  PROVE  f = <<f[1], f[2]>>
<1> DEFINE g == [k \in 1 .. 2 |-> f[k]]
<1>1. \A k \in 1 .. 2 : k = 1 \/ k = 2
  OBVIOUS
<1>2. g = <<f[1], f[2]>>
  BY <1>1
<1> QED
  BY <1>2
=============================================================================
