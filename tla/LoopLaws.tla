------------------------------- MODULE LoopLaws ------------------------------
(***************************************************************************)
(* The laws of a loop over a sequence, for any body Op: FoldLeft of the    *)
(* community modules, unfolded to the fold over the positions it is        *)
(* defined by, and the invariants of the loop.  A module that proves       *)
(* something of a loop instantiates this one with the body of the loop, so *)
(* it uses next to nothing itself: induction on the natural numbers is a   *)
(* hypothesis, which FoldLaws proves.                                      *)
(***************************************************************************)
EXTENDS Integers, Sequences, Folds, TLAPS

CONSTANT Op(_, _, _, _)   \* the body of a loop: two parameters of the loop,
                          \* the state so far and an element

(* Induction on the natural numbers, for sets of them.                     *)
NatInduction ==
  \A G \in SUBSET Nat : 0 \in G /\ (\A n \in G : n + 1 \in G) => G = Nat

(* The greatest of a set of numbers, as FiniteSetsExt defines it.          *)
Max(S) == CHOOSE x \in S : \A y \in S : x >= y

(* A loop with body Op over a sequence.                                    *)
Loop(p, q, base, seq) ==
  MapThenFoldSet(LAMBDA x, a : Op(p, q, a, x), base, LAMBDA k : seq[k], Max, DOMAIN seq)

(* The recursion of the fold, on the sets of positions of D.               *)
Folds(g, p, q, base, seq, D) ==
  g = [s \in D |-> IF s = {} THEN base ELSE Op(p, q, g[s \ {Max(s)}], seq[Max(s)])]

(* The greatest of a finite set of numbers is one of them.                 *)
LEMMA MaxIsIn ==
  ASSUME NatInduction, NEW n \in Nat, NEW s \in SUBSET (1 .. n), s # {}
  PROVE  Max(s) \in s /\ \A x \in s : x <= Max(s)
<1> DEFINE G == {m \in Nat : \A u \in SUBSET (1 .. m) : u # {} =>
                   \E x \in u : \A y \in u : y <= x}
<1>1. 0 \in G
  <2>1. 1 .. 0 = {}
    OBVIOUS
  <2> QED
    BY <2>1
<1>2. ASSUME NEW m \in G
      PROVE  m + 1 \in G
  <2>1. ASSUME NEW u \in SUBSET (1 .. m + 1), u # {}
        PROVE  \E x \in u : \A y \in u : y <= x
    <3>1. CASE m + 1 \in u
      <4>1. \A y \in u : y <= m + 1
        OBVIOUS
      <4> QED
        BY <3>1, <4>1
    <3>2. CASE m + 1 \notin u
      <4>1. u \in SUBSET (1 .. m)
        BY <3>2
      <4> QED
        BY <2>1, <4>1
    <3> QED
      BY <3>1, <3>2
  <2> QED
    BY <2>1
<1> HIDE DEF G
<1>3. G = Nat
  <2>1. G \in SUBSET Nat
    BY DEF G
  <2> QED
    BY <1>1, <1>2, <2>1 DEF NatInduction
<1>4. \E x \in s : \A y \in s : y <= x
  BY <1>3 DEF G
<1>5. \E x \in s : \A y \in s : x >= y
  BY <1>4
<1> QED
  BY <1>5 DEF Max

(* There is a function that the recursion describes.                       *)
LEMMA FoldExists ==
  ASSUME NatInduction, NEW p, NEW q, NEW base, NEW seq, NEW n \in Nat
  PROVE  \E g : Folds(g, p, q, base, seq, SUBSET (1 .. n))
<1> DEFINE N == {m \in Nat : \E g : Folds(g, p, q, base, seq, SUBSET (1 .. m))}
<1>1. 0 \in N
  <2> DEFINE g == [s \in {{}} |-> base]
  <2>1. SUBSET (1 .. 0) = {{}}
    OBVIOUS
  <2>2. Folds(g, p, q, base, seq, {{}})
    BY DEF Folds
  <2> QED
    BY <2>1, <2>2
<1>2. ASSUME NEW m \in N
      PROVE  m + 1 \in N
  <2>1. PICK g : Folds(g, p, q, base, seq, SUBSET (1 .. m))
    BY <1>2
  <2> DEFINE old(s) == m + 1 \notin s
             h == [s \in SUBSET (1 .. m + 1) |->
                     IF old(s) THEN g[s] ELSE Op(p, q, g[s \ {m + 1}], seq[m + 1])]
  <2>2. ASSUME NEW s \in SUBSET (1 .. m + 1)
        PROVE  h[s] = IF s = {} THEN base ELSE Op(p, q, h[s \ {Max(s)}], seq[Max(s)])
    <3>1. CASE s = {}
      <4>1. g[{}] = base
        BY <2>1 DEF Folds
      <4> QED
        BY <3>1, <4>1
    <3>2. CASE s # {} /\ old(s)
      <4>1. /\ s \in SUBSET (1 .. m) /\ s \ {Max(s)} \in SUBSET (1 .. m + 1)
            /\ old(s \ {Max(s)})
        <5>1. ASSUME NEW x \in s
              PROVE  x \in 1 .. m
          <6>1. x \in 1 .. m + 1 /\ x # m + 1
            BY <3>2
          <6> QED
            BY <6>1
        <5> QED
          BY <3>2, <5>1
      <4>2. g[s] = Op(p, q, g[s \ {Max(s)}], seq[Max(s)])
        BY <2>1, <3>2, <4>1 DEF Folds
      <4> QED
        BY <3>2, <4>1, <4>2
    <3>3. CASE s # {} /\ ~ old(s)
      <4>1. m + 1 \in Nat
        OBVIOUS
      <4>2. Max(s) = m + 1
        <5>1. Max(s) \in s /\ \A x \in s : x <= Max(s)
          BY <3>3, <4>1, MaxIsIn
        <5>2. m + 1 \in s /\ \A x \in s : x \in Nat /\ x <= m + 1
          BY <3>3
        <5>3. m + 1 <= Max(s) /\ Max(s) <= m + 1 /\ Max(s) \in Nat
          BY <5>1, <5>2
        <5> HIDE DEF h
        <5> QED
          BY <5>3
      <4>3. s \ {m + 1} \in SUBSET (1 .. m + 1) /\ old(s \ {m + 1})
        OBVIOUS
      <4> QED
        BY <3>3, <4>2, <4>3
    <3> QED
      BY <3>1, <3>2, <3>3
  <2>3. Folds(h, p, q, base, seq, SUBSET (1 .. m + 1))
    <3>1. h = [s \in SUBSET (1 .. m + 1) |-> h[s]]
      OBVIOUS
    <3> HIDE DEF h
    <3> QED
      BY <2>2, <3>1 DEF Folds
  <2> HIDE DEF h
  <2> QED
    BY <2>3
<1> HIDE DEF N
<1>3. N = Nat
  <2>1. N \in SUBSET Nat
    BY DEF N
  <2> QED
    BY <1>1, <1>2, <2>1 DEF NatInduction
<1> QED
  BY <1>3 DEF N

(* The loop is such a function, on all positions.                          *)
LEMMA LoopUnfolds ==
  ASSUME NatInduction, NEW p, NEW q, NEW base, NEW T, NEW seq \in Seq(T)
  PROVE  \E g : /\ Folds(g, p, q, base, seq, SUBSET (1 .. Len(seq)))
                /\ Loop(p, q, base, seq) = g[1 .. Len(seq)]
<1> DEFINE it[s \in SUBSET DOMAIN seq] ==
             IF s = {} THEN base
             ELSE LET x == Max(s) IN Op(p, q, it[s \ {x}], seq[x])
<1>1. Loop(p, q, base, seq) = it[DOMAIN seq]
  BY DEF Loop, MapThenFoldSet
<1>2. DOMAIN seq = 1 .. Len(seq) /\ Len(seq) \in Nat
  OBVIOUS
<1>3. \E g : Folds(g, p, q, base, seq, SUBSET (1 .. Len(seq)))
  BY <1>2, FoldExists
<1>4. Folds(it, p, q, base, seq, SUBSET DOMAIN seq)
  BY <1>2, <1>3, Zenon DEF Folds
<1> HIDE DEF it
<1> QED
  BY <1>1, <1>2, <1>4

(* What holds of the state before the loop, and after k elements when it   *)
(* held after k - 1 of them, holds of the state after the loop.            *)
LEMMA LoopInvariant ==
  ASSUME \A G \in SUBSET Nat : 0 \in G /\ (\A n \in G : n + 1 \in G) => G = Nat,
         NEW p, NEW q, NEW base, NEW T, NEW seq \in Seq(T), NEW J, base \in J[0],
         \A k \in 1 .. Len(seq) : \A a \in J[k - 1] : Op(p, q, a, seq[k]) \in J[k]
  PROVE  Loop(p, q, base, seq) \in J[Len(seq)]
<1>0. NatInduction
  BY DEF NatInduction
<1>1. Len(seq) \in Nat
  OBVIOUS
<1>2. PICK g : /\ Folds(g, p, q, base, seq, SUBSET (1 .. Len(seq)))
               /\ Loop(p, q, base, seq) = g[1 .. Len(seq)]
  BY ONLY NatInduction, seq \in Seq(T), LoopUnfolds
<1> DEFINE N == {k \in Nat : k <= Len(seq) => g[1 .. k] \in J[k]}
<1>3. 0 \in N
  <2>1. 1 .. 0 = {}
    OBVIOUS
  <2>2. g[{}] = base
    BY <1>2 DEF Folds
  <2> QED
    BY <2>1, <2>2
<1>4. ASSUME NEW k \in N
      PROVE  k + 1 \in N
  <2>1. ASSUME k + 1 <= Len(seq)
        PROVE  g[1 .. k + 1] \in J[k + 1]
    <3>1. 1 .. k + 1 \in SUBSET (1 .. Len(seq)) /\ 1 .. k + 1 # {}
      <4>1. k \in Nat /\ k + 1 \in 1 .. k + 1
        OBVIOUS
      <4>2. \A x \in 1 .. k + 1 : x \in 1 .. Len(seq)
        BY <1>1, <2>1, <4>1
      <4> QED
        BY <4>1, <4>2
    <3>2. Max(1 .. k + 1) = k + 1
      <4>1. k + 1 \in Nat /\ k + 1 \in 1 .. k + 1
        OBVIOUS
      <4>2. Max(1 .. k + 1) \in 1 .. k + 1 /\ \A x \in 1 .. k + 1 : x <= Max(1 .. k + 1)
        BY <1>0, <3>1, <4>1, MaxIsIn
      <4> QED
        BY <4>1, <4>2
    <3>3. (1 .. k + 1) \ {k + 1} = 1 .. k
      OBVIOUS
    <3>4. g[1 .. k + 1] = Op(p, q, g[1 .. k], seq[k + 1])
      BY <1>2, <3>1, <3>2, <3>3 DEF Folds
    <3>5. k \in Nat /\ k <= Len(seq) /\ k + 1 \in 1 .. Len(seq) /\ (k + 1) - 1 = k
      BY <1>1, <2>1
    <3>6. g[1 .. k] \in J[k]
      BY <3>5
    <3> QED
      BY <3>4, <3>5, <3>6
  <2> QED
    BY <2>1
<1> HIDE DEF N
<1>5. N = Nat
  <2>1. N \in SUBSET Nat
    BY DEF N
  <2> QED
    BY <1>0, <1>3, <1>4, <2>1 DEF NatInduction
<1> QED
  BY <1>1, <1>2, <1>5 DEF N
=============================================================================
