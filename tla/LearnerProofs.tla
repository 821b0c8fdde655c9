----------------------------- MODULE LearnerProofs -----------------------------
(***************************************************************************)
(* Proofs about a learner's projections and episodes, for any students,    *)
(* events, content and interleaving with the script that rebuilds: mastery *)
(* is the scored answers, conflicts are marked, a rebuild gives what the   *)
(* batches gave, episodes are earned and what rests on them agrees.        *)
(***************************************************************************)
EXTENDS Episodes, FiniteSetTheorems, FunctionTheorems, TLAPS

--------------------------------------------------------------------------------
(* Counting up.                                                            *)

\* What holds of 0 and is kept by the next number holds of all.
LEMMA NaturalsOf ==
  ASSUME NEW S, 0 \in S, \A n \in Nat : n \in S => n + 1 \in S
  PROVE  Nat \subseteq S
<1>. DEFINE T == Nat \ S
            R == {ss \in Nat \X Nat : ss[1] < ss[2]}
<1>. SUFFICES ASSUME T # {} PROVE FALSE
  OBVIOUS
<1>1. IsWellFoundedOn(R, Nat)
  BY NatLessThanWellFounded DEF OpToRel
<1>2. PICK x \in T : \A y \in T : ~(<<y, x>> \in R)
  <2>. HIDE DEF R
  <2>. QED BY <1>1, WFMin, Zenon
<1>3. x # 0 /\ x - 1 \in Nat /\ x - 1 < x
  BY SMT
<1>4. <<x - 1, x>> \in R
  BY <1>3, SMT
<1>5. x - 1 \in S
  BY <1>2, <1>3, <1>4
<1>. QED  BY <1>3, <1>5, SMT

LEMMA GreatestOf ==
  ASSUME NEW k \in Nat, NEW s \in SUBSET (1..k), k \in s
  PROVE  Max(s) = k
<1>1. \A y \in s : k >= y
  OBVIOUS
<1>2. PICK m : m = Max(s) /\ m \in s /\ \A y \in s : m >= y
  BY <1>1 DEF Max
<1>3. m \in 1..k /\ m >= k /\ k >= m
  BY <1>1, <1>2
<1>. QED  BY <1>2, <1>3


--------------------------------------------------------------------------------
(* Sums.                                                                   *)

\* g[s] is the sum of f over s, for each part s of S, in the order of CHOOSE.
Summed(g, f, s) ==
    IF s = {} THEN 0 ELSE f[CHOOSE x \in s : TRUE] + g[s \ {CHOOSE x \in s : TRUE}]
IsSum(g, f, S) == g = [s \in SUBSET S |-> Summed(g, f, s)]

LEMMA SumExists ==
  ASSUME NEW S, IsFiniteSet(S), NEW f
  PROVE  \E g : IsSum(g, f, S)
<1>. DEFINE Parts(k) == {s \in SUBSET S : Cardinality(s) <= k}
            K == {k \in Nat : \E g : g = [s \in Parts(k) |-> Summed(g, f, s)]}
<1>1. \A s \in SUBSET S : IsFiniteSet(s) /\ Cardinality(s) \in Nat
  BY FS_Subset, FS_CardinalityType
<1>2. \A s \in SUBSET S : s # {} =>
        LET x == CHOOSE y \in s : TRUE IN
        s \ {x} \in SUBSET S /\ Cardinality(s \ {x}) = Cardinality(s) - 1
  BY <1>1, FS_RemoveElement
<1>3. 0 \in K
  <2>. DEFINE g == [s \in Parts(0) |-> 0]
  <2>1. \A s \in Parts(0) : s = {}
    BY <1>1, FS_EmptySet
  <2>2. g = [s \in Parts(0) |-> Summed(g, f, s)]
    BY <2>1 DEF Summed
  <2>. HIDE DEF g
  <2>. QED  BY <2>2
<1>4. ASSUME NEW k \in Nat, k \in K PROVE k + 1 \in K
  <2>1. PICK g : g = [s \in Parts(k) |-> Summed(g, f, s)]
    BY <1>4
  <2>. DEFINE h == [s \in Parts(k + 1) |-> IF s \in Parts(k) THEN g[s] ELSE Summed(g, f, s)]
  <2>2. ASSUME NEW s \in Parts(k + 1) PROVE h[s] = Summed(h, f, s)
    <3>1. h[s] = Summed(g, f, s)
      BY <2>1
    <3>2. CASE s = {}
      BY <3>1, <3>2 DEF Summed
    <3>3. CASE s # {}
      <4>. DEFINE r == s \ {CHOOSE x \in s : TRUE}
      <4>1. r \in Parts(k) /\ r \in Parts(k + 1)
        BY <1>1, <1>2, <3>3
      <4>2. h[r] = g[r]
        BY <4>1
      <4>. HIDE DEF h
      <4>. QED  BY <3>1, <4>2 DEF Summed
    <3>. QED  BY <3>2, <3>3
  <2>3. h = [s \in Parts(k + 1) |-> Summed(h, f, s)]
    BY <2>2
  <2>. HIDE DEF h, Parts
  <2>. QED  BY <2>3
<1>5. Cardinality(S) \in K
  <2>. HIDE DEF K
  <2>. QED  BY <1>3, <1>4, NaturalsOf, FS_CardinalityType
<1>6. Parts(Cardinality(S)) = SUBSET S
  BY FS_Subset
<1>. QED  BY <1>5, <1>6 DEF IsSum

\* The order does not matter.
LEMMA SumPicks ==
  ASSUME NEW S, IsFiniteSet(S), NEW f, \A x \in S : f[x] \in Int, NEW g, IsSum(g, f, S)
  PROVE  \A s \in SUBSET S :
            /\ g[s] \in Int
            /\ s = {} => g[s] = 0
            /\ \A x \in s : g[s] = f[x] + g[s \ {x}]
<1>. DEFINE Holds(s) == g[s] \in Int /\ \A x \in s : g[s] = f[x] + g[s \ {x}]
            K == {k \in Nat : \A s \in SUBSET S : Cardinality(s) <= k => Holds(s)}
<1>1. \A s \in SUBSET S : IsFiniteSet(s) /\ Cardinality(s) \in Nat
  BY FS_Subset, FS_CardinalityType
<1>2. \A s \in SUBSET S : \A x \in s :
        s \ {x} \in SUBSET S /\ Cardinality(s \ {x}) = Cardinality(s) - 1
  BY <1>1, FS_RemoveElement
<1>3. \A s \in SUBSET S : g[s] = Summed(g, f, s)
  BY DEF IsSum
<1>4. 0 \in K
  <2>1. \A s \in SUBSET S : Cardinality(s) <= 0 => s = {}
    BY <1>1, FS_EmptySet
  <2>2. {} \in SUBSET S
    OBVIOUS
  <2>3. g[{}] = 0
    BY <1>3, <2>2 DEF Summed
  <2>4. ASSUME NEW s \in SUBSET S, Cardinality(s) <= 0 PROVE Holds(s)
    <3>1. s = {}
      BY <2>1, <2>4
    <3>. QED  BY <2>3, <3>1
  <2>. HIDE DEF Holds
  <2>. QED  BY <2>4
<1>5. ASSUME NEW k \in Nat, k \in K PROVE k + 1 \in K
  <2>. SUFFICES ASSUME NEW s \in SUBSET S, Cardinality(s) <= k + 1 PROVE Holds(s)
    OBVIOUS
  <2>0. \A r \in SUBSET S : Cardinality(r) <= k =>
           g[r] \in Int /\ \A x \in r : g[r] = f[x] + g[r \ {x}]
    BY <1>5
  <2>1. CASE s = {}
    <3>1. g[s] = 0
      BY <1>3, <2>1 DEF Summed
    <3>. QED  BY <2>1, <3>1
  <2>2. CASE s # {}
    <3>. DEFINE y == CHOOSE x \in s : TRUE
    <3>1. y \in s /\ g[s] = f[y] + g[s \ {y}]
      BY <1>3, <2>2 DEF Summed
    <3>. HIDE DEF y
    <3>2. /\ s \ {y} \in SUBSET S /\ Cardinality(s \ {y}) <= k
          /\ g[s \ {y}] \in Int
      BY <1>1, <1>2, <2>0, <3>1
    <3>3. ASSUME NEW x \in s, x # y PROVE g[s] = f[x] + g[s \ {x}]
      <4>1. s \ {x} \in SUBSET S /\ Cardinality(s \ {x}) <= k
        BY <1>1, <1>2
      <4>2. /\ x \in s \ {y} /\ y \in s \ {x} /\ (s \ {y}) \ {x} = (s \ {x}) \ {y}
            /\ (s \ {y}) \ {x} \in SUBSET S
        BY <3>1, <3>3
      <4>3. Cardinality((s \ {y}) \ {x}) <= k
        <5>. DEFINE r == s \ {y}
        <5>1. r \in SUBSET S /\ x \in r /\ Cardinality(r) \in Nat /\ Cardinality(r) <= k
          BY <1>1, <3>2, <4>2
        <5>. HIDE DEF r
        <5>2. Cardinality(r \ {x}) = Cardinality(r) - 1
          BY <1>2, <5>1
        <5>3. Cardinality(r \ {x}) <= k
          BY <5>1, <5>2
        <5>. QED  BY <5>3 DEF r
      <4>4. g[s \ {y}] = f[x] + g[(s \ {y}) \ {x}]
        BY <2>0, <3>2, <4>2
      <4>5. g[s \ {x}] = f[y] + g[(s \ {x}) \ {y}]
        BY <2>0, <4>1, <4>2
      <4>6. g[(s \ {y}) \ {x}] \in Int /\ g[(s \ {x}) \ {y}] = g[(s \ {y}) \ {x}]
        BY <2>0, <4>2, <4>3
      <4>7. f[x] \in Int /\ f[y] \in Int
        BY <3>1
      <4>. QED  BY <3>1, <4>4, <4>5, <4>6, <4>7
    <3>4. f[y] \in Int
      BY <3>1
    <3>5. g[s] \in Int
      BY <3>1, <3>2, <3>4
    <3>6. \A x \in s : g[s] = f[x] + g[s \ {x}]
      BY <3>1, <3>3
    <3>. QED  BY <3>5, <3>6
  <2>. QED  BY <2>1, <2>2
<1>6. \A s \in SUBSET S : Holds(s)
  <2>1. ASSUME NEW s \in SUBSET S PROVE Cardinality(s) \in K
    <3>. HIDE DEF K
    <3>. QED  BY <1>1, <1>4, <1>5, NaturalsOf
  <2>. QED  BY <1>1, <2>1
<1>7. \A s \in SUBSET S : s = {} => g[s] = 0
  BY <1>3 DEF Summed
<1>. QED  BY <1>6, <1>7

\* What is summed decides the sum.
LEMMA SumsAgree ==
  ASSUME NEW S, IsFiniteSet(S), NEW T \in SUBSET S, NEW f,
         NEW g, IsSum(g, f, S), NEW h, IsSum(h, f, T)
  PROVE  g[T] = h[T]
<1>. DEFINE K == {k \in Nat : \A s \in SUBSET T : Cardinality(s) <= k => g[s] = h[s]}
<1>1. \A s \in SUBSET T : IsFiniteSet(s) /\ Cardinality(s) \in Nat
  BY FS_Subset, FS_CardinalityType
<1>2. \A s \in SUBSET T : \A x \in s :
        s \ {x} \in SUBSET T /\ Cardinality(s \ {x}) = Cardinality(s) - 1
  BY <1>1, FS_RemoveElement
<1>3. \A s \in SUBSET T : g[s] = Summed(g, f, s) /\ h[s] = Summed(h, f, s)
  BY DEF IsSum
<1>4. 0 \in K
  <2>1. \A s \in SUBSET T : Cardinality(s) <= 0 => s = {}
    BY <1>1, FS_EmptySet
  <2>. QED  BY <1>3, <2>1 DEF Summed
<1>5. ASSUME NEW k \in Nat, k \in K PROVE k + 1 \in K
  <2>. SUFFICES ASSUME NEW s \in SUBSET T, Cardinality(s) <= k + 1 PROVE g[s] = h[s]
    OBVIOUS
  <2>1. CASE s = {}
    BY <1>3, <2>1 DEF Summed
  <2>2. CASE s # {}
    <3>. DEFINE y == CHOOSE x \in s : TRUE
                r == s \ {y}
    <3>1. r \in SUBSET T /\ Cardinality(r) <= k
      <4>1. y \in s
        BY <2>2
      <4>. HIDE DEF y
      <4>2. Cardinality(s) \in Nat /\ r \in SUBSET T /\ Cardinality(r) = Cardinality(s) - 1
        BY <1>1, <1>2, <4>1
      <4>. QED  BY <4>2
    <3>2. g[r] = h[r]
      BY <1>5, <3>1
    <3>. QED  BY <1>3, <3>2 DEF Summed
  <2>. QED  BY <2>1, <2>2
<1>6. Cardinality(T) \in K
  <2>. HIDE DEF K
  <2>. QED  BY <1>1, <1>4, <1>5, NaturalsOf
<1>. QED  BY <1>1, <1>6

SumOf(f, S) == (CHOOSE g : IsSum(g, f, S))[S]

LEMMA SumIsZero ==
  ASSUME NEW f
  PROVE  SumOf(f, {}) = 0
<1>. DEFINE g == CHOOSE h : IsSum(h, f, {})
<1>1. IsFiniteSet({}) /\ {} \in SUBSET {}
  BY FS_EmptySet
<1>2. IsSum(g, f, {})
  BY <1>1, SumExists
<1>. HIDE DEF g
<1>3. g[{}] = 0
  BY <1>1, <1>2, SumPicks
<1>. QED  BY <1>3 DEF SumOf, g

LEMMA SumGrows ==
  ASSUME NEW S, IsFiniteSet(S), NEW x, x \notin S, NEW f, \A y \in S \cup {x} : f[y] \in Int
  PROVE  SumOf(f, S \cup {x}) = SumOf(f, S) + f[x] /\ SumOf(f, S) \in Int
<1>. DEFINE T == S \cup {x}
            g == CHOOSE h : IsSum(h, f, T)
            k == CHOOSE h : IsSum(h, f, S)
<1>1. IsFiniteSet(T) /\ S \in SUBSET T /\ T \in SUBSET T /\ x \in T /\ T \ {x} = S
  BY FS_AddElement
<1>2. IsSum(g, f, T) /\ IsSum(k, f, S)
  BY <1>1, SumExists
<1>. HIDE DEF g, k, T
<1>3. g[S] = k[S]
  BY <1>1, <1>2, SumsAgree
<1>4. g[T] = f[x] + g[S] /\ g[S] \in Int
  <2>1. \A y \in T : f[y] \in Int
    BY DEF T
  <2>2. \A s \in SUBSET T :
            /\ g[s] \in Int
            /\ s = {} => g[s] = 0
            /\ \A y \in s : g[s] = f[y] + g[s \ {y}]
    BY <1>1, <1>2, <2>1, SumPicks
  <2>. QED  BY <1>1, <2>2
<1>5. f[x] \in Int
  OBVIOUS
<1>. QED  BY <1>3, <1>4, <1>5 DEF SumOf, g, k, T

LEMMA WeightIsSum ==
  ASSUME NEW R, IsFiniteSet(R), NEW f, \A x \in R : f[x] = x.weight
  PROVE  WeightOf(R) = SumOf(f, R)
<1>. DEFINE IsIter(g) == g = [s \in SUBSET R |->
                IF s = {} THEN 0
                ELSE (CHOOSE x \in s : TRUE).weight + g[s \ {CHOOSE x \in s : TRUE}]]
            iter == CHOOSE g : IsIter(g)
            other == CHOOSE g : IsSum(g, f, R)
<1>1. WeightOf(R) = iter[R]
  BY DEF WeightOf, MapThenSumSet, MapThenFoldSet
<1>2. \A g : IsIter(g) <=> IsSum(g, f, R)
  <2>. SUFFICES ASSUME NEW g
       PROVE  [s \in SUBSET R |-> Summed(g, f, s)] = [s \in SUBSET R |->
                IF s = {} THEN 0
                ELSE (CHOOSE x \in s : TRUE).weight + g[s \ {CHOOSE x \in s : TRUE}]]
    BY DEF IsSum
  <2>1. ASSUME NEW s \in SUBSET R, s # {}
        PROVE  f[CHOOSE x \in s : TRUE] = (CHOOSE x \in s : TRUE).weight
    <3>1. (CHOOSE x \in s : TRUE) \in R
      BY <2>1
    <3>. QED  BY <3>1
  <2>. QED  BY <2>1 DEF Summed
<1>3. \E g : IsSum(g, f, R)
  BY SumExists
<1>4. IsSum(iter, f, R) /\ IsSum(other, f, R)
  <2>. HIDE DEF IsIter
  <2>. QED  BY <1>2, <1>3
<1>5. iter[R] = other[R]
  <2>. HIDE DEF iter, other
  <2>. QED  BY <1>4, SumsAgree
<1>. QED  BY <1>1, <1>5 DEF SumOf

LEMMA WeightAdds ==
  ASSUME NEW R, IsFiniteSet(R), NEW x, x \notin R, \A y \in R \cup {x} : y.weight \in Int
  PROVE  WeightOf(R \cup {x}) = WeightOf(R) + x.weight /\ WeightOf(R) \in Int
<1>. DEFINE f == [y \in R \cup {x} |-> y.weight]
<1>1. IsFiniteSet(R \cup {x})
  BY FS_AddElement
<1>2. \A y \in R \cup {x} : f[y] = y.weight /\ f[y] \in Int
  OBVIOUS
<1>. HIDE DEF f
<1>3. WeightOf(R) = SumOf(f, R) /\ WeightOf(R \cup {x}) = SumOf(f, R \cup {x})
  BY <1>1, <1>2, WeightIsSum
<1>4. SumOf(f, R \cup {x}) = SumOf(f, R) + f[x] /\ SumOf(f, R) \in Int
  BY <1>2, SumGrows
<1>. QED  BY <1>2, <1>3, <1>4

LEMMA WeightOfNone ==
  WeightOf({}) = 0
<1>. DEFINE f == [y \in {} |-> 0]
<1>1. IsFiniteSet({})
  BY FS_EmptySet
<1>2. WeightOf({}) = SumOf(f, {})
  BY <1>1, WeightIsSum
<1>. QED  BY <1>2, SumIsZero

LEMMA EffectIsSum ==
  ASSUME NEW R, IsFiniteSet(R), NEW f, \A x \in R : f[x] = x.effectiveness
  PROVE  EffectOf(R) = SumOf(f, R)
<1>. DEFINE IsIter(g) == g = [s \in SUBSET R |->
                IF s = {} THEN 0
                ELSE (CHOOSE x \in s : TRUE).effectiveness + g[s \ {CHOOSE x \in s : TRUE}]]
            iter == CHOOSE g : IsIter(g)
            other == CHOOSE g : IsSum(g, f, R)
<1>1. EffectOf(R) = iter[R]
  BY DEF EffectOf, MapThenSumSet, MapThenFoldSet
<1>2. \A g : IsIter(g) <=> IsSum(g, f, R)
  <2>. SUFFICES ASSUME NEW g
       PROVE  [s \in SUBSET R |-> Summed(g, f, s)] = [s \in SUBSET R |->
                IF s = {} THEN 0
                ELSE (CHOOSE x \in s : TRUE).effectiveness + g[s \ {CHOOSE x \in s : TRUE}]]
    BY DEF IsSum
  <2>1. ASSUME NEW s \in SUBSET R, s # {}
        PROVE  f[CHOOSE x \in s : TRUE] = (CHOOSE x \in s : TRUE).effectiveness
    <3>1. (CHOOSE x \in s : TRUE) \in R
      BY <2>1
    <3>. QED  BY <3>1
  <2>. QED  BY <2>1 DEF Summed
<1>3. \E g : IsSum(g, f, R)
  BY SumExists
<1>4. IsSum(iter, f, R) /\ IsSum(other, f, R)
  <2>. HIDE DEF IsIter
  <2>. QED  BY <1>2, <1>3
<1>5. iter[R] = other[R]
  <2>. HIDE DEF iter, other
  <2>. QED  BY <1>4, SumsAgree
<1>. QED  BY <1>1, <1>5 DEF SumOf

LEMMA EffectAdds ==
  ASSUME NEW R, IsFiniteSet(R), NEW x, x \notin R, \A y \in R \cup {x} : y.effectiveness \in Int
  PROVE  EffectOf(R \cup {x}) = EffectOf(R) + x.effectiveness /\ EffectOf(R) \in Int
<1>. DEFINE f == [y \in R \cup {x} |-> y.effectiveness]
<1>1. IsFiniteSet(R \cup {x})
  BY FS_AddElement
<1>2. \A y \in R \cup {x} : f[y] = y.effectiveness /\ f[y] \in Int
  OBVIOUS
<1>. HIDE DEF f
<1>3. EffectOf(R) = SumOf(f, R) /\ EffectOf(R \cup {x}) = SumOf(f, R \cup {x})
  BY <1>1, <1>2, EffectIsSum
<1>4. SumOf(f, R \cup {x}) = SumOf(f, R) + f[x] /\ SumOf(f, R) \in Int
  BY <1>2, SumGrows
<1>. QED  BY <1>2, <1>3, <1>4

LEMMA EffectOfNone ==
  EffectOf({}) = 0
<1>. DEFINE f == [y \in {} |-> 0]
<1>1. IsFiniteSet({})
  BY FS_EmptySet
<1>2. EffectOf({}) = SumOf(f, {})
  BY <1>1, EffectIsSum
<1>. QED  BY <1>2, SumIsZero

--------------------------------------------------------------------------------
(* Replays.                                                               *)

\* A replay is a chain of applications.
LEMMA ReplayIsChain ==
  ASSUME NEW L, NEW n \in Nat, DOMAIN L = 1..n
  PROVE  \E h : /\ h[0] = NoProjection
                /\ h[n] = Replayed(L)
                /\ \A i \in 1..n : h[i] = Applied(h[i-1], L[i])
<1>. DEFINE start == NoProjection
            Step(g, s) == IF s = {} THEN start ELSE Applied(g[s \ {Max(s)}], L[Max(s)])
            IsFold(g, k) == g = [s \in SUBSET (1..k) |-> Step(g, s)]
            S == {k \in Nat : \E g : IsFold(g, k)}
<1>1. 0 \in S
  <2>. DEFINE g == [s \in SUBSET (1..0) |-> start]
  <2>1. \A s \in SUBSET (1..0) : s = {}
    OBVIOUS
  <2>2. IsFold(g, 0)
    BY <2>1
  <2>. QED  BY <2>2
<1>2. ASSUME NEW k \in Nat, k \in S PROVE k + 1 \in S
  <2>1. PICK g : IsFold(g, k)
    BY <1>2
  <2>. DEFINE f == [s \in SUBSET (1..k+1) |->
                       IF k + 1 \in s THEN Applied(g[s \ {k+1}], L[k+1]) ELSE g[s]]
  <2>2. ASSUME NEW s \in SUBSET (1..k+1) PROVE f[s] = Step(f, s)
    <3>1. CASE k + 1 \in s
      <4>1. s \ {k+1} \in SUBSET (1..k) /\ s \ {k+1} \in SUBSET (1..k+1) /\ k + 1 \notin s \ {k+1}
        BY <2>2
      <4>2. Max(s) = k + 1
        BY <2>2, <3>1, GreatestOf
      <4>3. f[s \ {k+1}] = g[s \ {k+1}]
        BY <4>1
      <4>. QED  BY <3>1, <4>2, <4>3
    <3>2. CASE k + 1 \notin s
      <4>1. s \in SUBSET (1..k)
        BY <2>2, <3>2
      <4>2. g[s] = Step(g, s)
        BY <2>1, <4>1
      <4>3. /\ s \ {Max(s)} \in SUBSET (1..k+1) /\ k + 1 \notin s \ {Max(s)}
            /\ f[s \ {Max(s)}] = g[s \ {Max(s)}]
        BY <3>2, <4>1
      <4>. QED  BY <3>2, <4>2, <4>3
    <3>. QED  BY <3>1, <3>2
  <2>3. IsFold(f, k + 1)
    <3>. HIDE DEF Step
    <3>. QED  BY <2>2
  <2>4. \E m : IsFold(m, k + 1)
    <3>. HIDE DEF IsFold, f
    <3>. QED  BY <2>3
  <2>. QED
    <3>. HIDE DEF IsFold
    <3>. QED  BY <2>4
<1>3. n \in S
  <2>. HIDE DEF S
  <2>. QED  BY <1>1, <1>2, NaturalsOf
<1>. DEFINE iter == CHOOSE g : IsFold(g, n)
<1>4. FoldLeft(Applied, start, L) = iter[1..n]
  BY DEF FoldLeft, MapThenFoldSet
<1>5. iter = [s \in SUBSET (1..n) |-> Step(iter, s)]
  BY <1>3
<1>. DEFINE h == [i \in 0..n |-> iter[1..i]]
<1>. HIDE DEF iter
<1>6. h[0] = start /\ h[n] = FoldLeft(Applied, start, L)
  <2>1. 1..0 = {} /\ 1..0 \in SUBSET (1..n)
    OBVIOUS
  <2>2. iter[1..0] = start
    BY <1>5, <2>1
  <2>. QED  BY <1>4, <2>2
<1>7. ASSUME NEW i \in 1..n PROVE h[i] = Applied(h[i-1], L[i])
  <2>0. i \in Nat /\ 1 <= i /\ i <= n
    OBVIOUS
  <2>1. /\ 1..i \in SUBSET (1..n) /\ 1..i # {} /\ i \in 1..i
        /\ i - 1 \in Nat /\ i - 1 \in 0..n /\ i \in 0..n
    BY <2>0
  <2>3. (1..i) \ {i} = 1..(i-1)
    <3>. HIDE DEF h
    <3>1. \A x \in Nat : 1 <= x /\ x <= i /\ x # i <=> 1 <= x /\ x <= i - 1
      BY <2>0
    <3>. QED  BY <2>0, <3>1
  <2>2. Max(1..i) = i
    BY <2>1, GreatestOf
  <2>. QED  BY <1>5, <2>1, <2>2, <2>3
<1>. QED  BY <1>6, <1>7 DEF Replayed

LEMMA ReplayedAppend ==
  ASSUME NEW S, NEW L \in Seq(S), NEW e \in S
  PROVE  /\ Replayed(<<>>) = NoProjection
         /\ Replayed(Append(L, e)) = Applied(Replayed(L), e)
<1>. DEFINE n == Len(L)
            M == Append(L, e)
<1>1. /\ n \in Nat /\ DOMAIN L = 1..n /\ DOMAIN M = 1..(n + 1)
      /\ M[n + 1] = e /\ \A i \in 1..n : M[i] = L[i]
  OBVIOUS
<1>2. Replayed(<<>>) = NoProjection
  <2>1. DOMAIN <<>> = 1..0
    OBVIOUS
  <2>2. PICK h : h[0] = NoProjection /\ h[0] = Replayed(<<>>)
    BY <2>1, ReplayIsChain
  <2>. QED  BY <2>2
<1>. HIDE DEF n, M
<1>3. PICK g : /\ g[0] = NoProjection /\ g[n] = Replayed(L)
               /\ \A i \in 1..n : g[i] = Applied(g[i-1], L[i])
  BY <1>1, ReplayIsChain
<1>4. PICK h : /\ h[0] = NoProjection /\ h[n + 1] = Replayed(M)
               /\ \A i \in 1..(n + 1) : h[i] = Applied(h[i-1], M[i])
  <2>1. n + 1 \in Nat
    BY <1>1
  <2>. QED  BY <1>1, <2>1, ReplayIsChain
<1>. DEFINE K == {i \in Nat : i <= n => h[i] = g[i]}
<1>5. 0 \in K
  BY <1>3, <1>4
<1>6. ASSUME NEW i \in Nat, i \in K PROVE i + 1 \in K
  <2>. SUFFICES ASSUME i + 1 <= n PROVE h[i + 1] = g[i + 1]
    OBVIOUS
  <2>1. i + 1 \in 1..n /\ i + 1 \in 1..(n + 1) /\ (i + 1) - 1 = i /\ i <= n
    BY <1>1
  <2>2. h[i] = g[i] /\ M[i + 1] = L[i + 1]
    BY <1>1, <1>6, <2>1
  <2>3. h[i + 1] = Applied(h[i], M[i + 1]) /\ g[i + 1] = Applied(g[i], L[i + 1])
    BY <1>3, <1>4, <2>1
  <2>. QED  BY <2>2, <2>3
<1>7. n \in K
  <2>. HIDE DEF K
  <2>. QED  BY <1>1, <1>5, <1>6, NaturalsOf
<1>8. n + 1 \in 1..(n + 1) /\ (n + 1) - 1 = n
  BY <1>1
<1>9. Replayed(M) = Applied(Replayed(L), e)
  BY <1>1, <1>3, <1>4, <1>7, <1>8
<1>. QED  BY <1>2, <1>9 DEF M

\* What a replay has made when i events are done.
After(L, i) == Replayed(SubSeq(L, 1, i))

LEMMA AfterSteps ==
  ASSUME NEW S, NEW L \in Seq(S)
  PROVE  /\ After(L, 0) = NoProjection
         /\ \A i \in 1..Len(L) : After(L, i) = Applied(After(L, i - 1), L[i])
         /\ After(L, Len(L)) = Replayed(L)
         /\ \A e \in S : /\ \A i \in 0..Len(L) : After(Append(L, e), i) = After(L, i)
                         /\ After(Append(L, e), Len(L) + 1) = Applied(After(L, Len(L)), e)
<1>1. Len(L) \in Nat /\ DOMAIN L = 1..Len(L)
  OBVIOUS
<1>2. SubSeq(L, 1, 0) = <<>> /\ SubSeq(L, 1, Len(L)) = L
  OBVIOUS
<1>3. ASSUME NEW i \in 1..Len(L)
      PROVE  /\ SubSeq(L, 1, i - 1) \in Seq(S) /\ L[i] \in S
             /\ SubSeq(L, 1, i) = Append(SubSeq(L, 1, i - 1), L[i])
  <2>1. /\ i \in Nat /\ 1 <= i /\ i <= Len(L) /\ i - 1 \in Nat /\ L[i] \in S
        /\ \A j \in 1..Len(L) : L[j] \in S
    BY <1>1
  <2>2. /\ SubSeq(L, 1, i - 1) = [j \in 1..(i - 1) |-> L[j]]
        /\ SubSeq(L, 1, i) = [j \in 1..i |-> L[j]]
    BY <2>1
  <2>3. SubSeq(L, 1, i - 1) \in Seq(S) /\ Len(SubSeq(L, 1, i - 1)) = i - 1
    BY <2>1, <2>2
  <2>. DEFINE M == SubSeq(L, 1, i - 1)
  <2>4. Append(M, L[i]) = [j \in 1..(Len(M) + 1) |-> IF j = Len(M) + 1 THEN L[i] ELSE M[j]]
    BY <2>1, <2>3
  <2>5. Append(M, L[i]) = [j \in 1..i |-> L[j]]
    BY <2>1, <2>2, <2>3, <2>4
  <2>. QED  BY <2>1, <2>2, <2>3, <2>5
<1>4. After(L, 0) = NoProjection
  <2>1. <<>> \in Seq({1}) /\ 1 \in {1}
    OBVIOUS
  <2>. QED  BY <1>2, <2>1, ReplayedAppend DEF After
<1>5. \A i \in 1..Len(L) : After(L, i) = Applied(After(L, i - 1), L[i])
  BY <1>3, ReplayedAppend DEF After
<1>6. ASSUME NEW e \in S
      PROVE  /\ \A i \in 0..Len(L) : After(Append(L, e), i) = After(L, i)
             /\ After(Append(L, e), Len(L) + 1) = Applied(After(L, Len(L)), e)
  <2>. DEFINE M == Append(L, e)
  <2>1. M \in Seq(S) /\ Len(M) = Len(L) + 1 /\ \A j \in 1..Len(L) : M[j] = L[j]
    OBVIOUS
  <2>2. ASSUME NEW i \in 0..Len(L) PROVE SubSeq(M, 1, i) = SubSeq(L, 1, i)
    <3>1. /\ SubSeq(M, 1, i) = [j \in 1..i |-> M[j]]
          /\ SubSeq(L, 1, i) = [j \in 1..i |-> L[j]]
      BY <1>1, <2>1
    <3>2. \A j \in 1..i : M[j] = L[j]
      BY <1>1, <2>1
    <3>. QED  BY <3>1, <3>2
  <2>3. SubSeq(M, 1, Len(L) + 1) = M
    BY <1>1, <2>1
  <2>4. Replayed(M) = Applied(Replayed(L), e)
    BY ReplayedAppend
  <2>. HIDE DEF M
  <2>. QED  BY <1>2, <2>2, <2>3, <2>4 DEF After, M
<1>. QED  BY <1>2, <1>4, <1>5, <1>6 DEF After

--------------------------------------------------------------------------------
(* What an event does to a projection.                                     *)

LEMMA EventFacts ==
  ASSUME NEW e \in Events
  PROVE  /\ Event[e].student \in Students /\ Event[e].session \in Sessions
         /\ Event[e].kind \in Kinds /\ Event[e].correct \in BOOLEAN /\ Event[e].hint \in 0..3
         /\ Event[e].kind = "ANSWER_SUBMITTED" =>
               /\ Event[e].item \in Items /\ Skill[Event[e].item] \in Skills
               /\ Difficulty[Event[e].item] \in 1..3
BY ProjectionConstants DEF EventRecord, Skills

LEMMA WeightsAreNumbers ==
  ASSUME NEW difficulty \in 1..3, NEW hint \in 0..3, NEW repeated \in BOOLEAN
  PROVE  /\ EvidenceWeight(difficulty, hint, repeated) \in Nat
         /\ repeated => 2 * EvidenceWeight(difficulty, hint, repeated)
                           <= EvidenceWeight(difficulty, hint, FALSE)
<1>. DEFINE m == <<100, 85, 60, 30>>[hint + 1]
            d == IF difficulty = 3 THEN 125 ELSE 100
            w == d * m
<1>1. m \in {100, 85, 60, 30}
  <2>1. hint = 0 \/ hint = 1 \/ hint = 2 \/ hint = 3
    OBVIOUS
  <2>. QED  BY <2>1
<1>. HIDE DEF m
<1>2. w \in Nat
  BY <1>1
<1>3. EvidenceWeight(difficulty, hint, repeated) = w \div (IF repeated THEN 2 ELSE 1)
  BY DEF EvidenceWeight, m
<1>4. EvidenceWeight(difficulty, hint, FALSE) = w \div 1
  BY DEF EvidenceWeight, m
<1>. HIDE DEF w
<1>5. w \div 1 = w
  BY <1>2
<1>6. w \div 2 \in Nat /\ 2 * (w \div 2) <= w
  BY <1>2
<1>7. CASE repeated
  BY <1>2, <1>3, <1>4, <1>5, <1>6, <1>7
<1>8. CASE ~repeated
  BY <1>2, <1>3, <1>4, <1>5, <1>8
<1>. QED  BY <1>7, <1>8

IsRow(a) ==
    /\ a.event \in Events /\ Event[a.event].kind = "ANSWER_SUBMITTED"
    /\ a.attempt = Event[a.event].attempt /\ a.student = Event[a.event].student
    /\ a.session = Event[a.event].session /\ a.item = Event[a.event].item
    /\ a.correct = Event[a.event].correct
    /\ a.valid \in BOOLEAN /\ a.weight \in Nat
    /\ a.valid => a.dup = 0

SkillStates == [alpha: Nat, beta: Nat, evidence_count: Nat,
                correct_streak: Nat, incorrect_streak: Nat]

\* Tables that batches and replays leave: at most one row per answer.
IsProjection(p) ==
    /\ DOMAIN p = {"sessions", "attempts", "skills", "evidence", "conflicts"}
    /\ p.sessions \in [Sessions -> {NoSession} \cup
                          [owner: Students, state: SessionStates \ {"absent"}]]
    /\ p.skills \in [Students \X Skills -> SkillStates]
    /\ IsFiniteSet(p.attempts)
    /\ \A a \in p.attempts : IsRow(a)
    /\ \A a, b \in p.attempts : a.event = b.event => a = b

IsAnswer(e) == Event[e].kind = "ANSWER_SUBMITTED"
IsRepeat(p, e) == IsAnswer(e) /\ ~HasAttempt(p, e) /\ PriorSameAttempt(p, e) # {}
IsValid(p, e) == IsAnswer(e) /\ ~HasAttempt(p, e) /\ PriorSameAttempt(p, e) = {}

SessionAfter(p, e) ==
    LET s == Event[e].student
        old == p.sessions[Event[e].session]
    IN  IF Event[e].kind = "SESSION_COMPLETED" THEN [owner |-> s, state |-> "SESSION_COMPLETED"]
        ELSE IF IsValid(p, e) /\ old.state # "SESSION_COMPLETED"
        THEN [owner |-> IF old = NoSession THEN s ELSE old.owner, state |-> "ANSWER_EVALUATED"]
        ELSE IF old # NoSession THEN old
        ELSE [owner |-> s, state |-> IF IsAnswer(e) THEN "QUESTION_ACTIVE" ELSE "NEW"]

ConflictsOf(p, e) ==
    IF IsRepeat(p, e) THEN {<<e, "ATTEMPT_ALREADY_SCORED">>}
    ELSE IF IsValid(p, e) THEN {e} \X (ParallelTypes(p, e) \cup LateTypes(p, e))
    ELSE {}

\* The tables after an event.
IsApplied(p, e, q) ==
    LET row == AttemptRow(p, e) IN
    /\ DOMAIN q = DOMAIN p
    /\ q.sessions = [p.sessions EXCEPT ![Event[e].session] = SessionAfter(p, e)]
    /\ q.attempts = IF IsValid(p, e) \/ IsRepeat(p, e) THEN p.attempts \cup {row} ELSE p.attempts
    /\ q.skills = IF IsValid(p, e)
                  THEN [p.skills EXCEPT ![<<row.student, Skill[row.item]>>] =
                           RecordAttempt(@, row.correct, row.weight)]
                  ELSE p.skills
    /\ q.evidence = IF IsValid(p, e) /\ ~Event[e].correct /\ Event[e].mapped
                    THEN p.evidence \cup {e} ELSE p.evidence
    /\ q.conflicts = p.conflicts \cup ConflictsOf(p, e)

LEMMA WithSessionFields ==
  ASSUME NEW p, IsProjection(p), NEW e \in Events, NEW st, st # "SESSION_COMPLETED"
  PROVE  LET q == WithSession(p, e, st) IN
         /\ DOMAIN q = DOMAIN p
         /\ q.attempts = p.attempts /\ q.skills = p.skills /\ q.evidence = p.evidence
         /\ q.conflicts = p.conflicts
         /\ q.sessions = [p.sessions EXCEPT ![Event[e].session] =
               IF p.sessions[Event[e].session] = NoSession
               THEN [owner |-> Event[e].student, state |-> st] ELSE @]
         /\ HasAttempt(q, e) <=> HasAttempt(p, e)
         /\ PriorSameAttempt(q, e) = PriorSameAttempt(p, e)
         /\ PriorSameItem(q, e) = PriorSameItem(p, e)
         /\ AttemptRow(q, e) = AttemptRow(p, e)
         /\ IsLate(q, e) <=> IsLate(p, e)
<1>. DEFINE q == WithSession(p, e, st)
            t == Event[e].session
<1>1. t \in Sessions
  BY EventFacts
<1>2. /\ DOMAIN p = {"sessions", "attempts", "skills", "evidence", "conflicts"}
      /\ DOMAIN p.sessions = Sessions
      /\ p.sessions = [u \in Sessions |-> p.sessions[u]]
  BY DEF IsProjection
<1>3. /\ DOMAIN q = DOMAIN p
      /\ q.attempts = p.attempts /\ q.skills = p.skills /\ q.evidence = p.evidence
      /\ q.conflicts = p.conflicts
  BY <1>2 DEF WithSession
<1>4. q.sessions = [p.sessions EXCEPT ![t] =
         IF p.sessions[t] = NoSession THEN [owner |-> Event[e].student, state |-> st] ELSE @]
  <2>1. CASE p.sessions[t] = NoSession
    BY <1>1, <1>2, <2>1 DEF WithSession
  <2>2. CASE p.sessions[t] # NoSession
    BY <1>1, <1>2, <2>2 DEF WithSession
  <2>. QED  BY <2>1, <2>2
<1>. HIDE DEF q
<1>5. HasAttempt(q, e) <=> HasAttempt(p, e)
  BY <1>3 DEF HasAttempt
<1>6. PriorSameAttempt(q, e) = PriorSameAttempt(p, e) /\ PriorSameItem(q, e) = PriorSameItem(p, e)
  BY <1>3 DEF PriorSameAttempt, PriorSameItem, AttemptsOf
<1>7. AttemptRow(q, e) = AttemptRow(p, e)
  BY <1>6 DEF AttemptRow, StoredDup
<1>8. IsLate(q, e) <=> IsLate(p, e)
  BY <1>1, <1>2, <1>4 DEF IsLate, NoSession
<1>. QED  BY <1>3, <1>4, <1>5, <1>6, <1>7, <1>8 DEF q

LEMMA AppliedIs ==
  ASSUME NEW p, IsProjection(p), NEW e \in Events
  PROVE  IsApplied(p, e, Applied(p, e))
<1>. DEFINE t == Event[e].session
<1>0. /\ t \in Sessions /\ Event[e].student \in Students /\ Event[e].kind \in Kinds
      /\ IsAnswer(e) => /\ Event[e].item \in Items /\ Skill[Event[e].item] \in Skills
  BY EventFacts DEF IsAnswer
<1>1. /\ DOMAIN p = {"sessions", "attempts", "skills", "evidence", "conflicts"}
      /\ DOMAIN p.sessions = Sessions
      /\ p.sessions = [u \in Sessions |-> p.sessions[u]]
  BY DEF IsProjection
<1>2. CASE Event[e].kind = "SESSION_COMPLETED"
  <2>1. Applied(p, e) = CompletionApplied(p, e) /\ ~IsAnswer(e)
    BY <1>2 DEF Applied, IsAnswer
  <2>2. SessionAfter(p, e) = [owner |-> Event[e].student, state |-> "SESSION_COMPLETED"]
    BY <1>2 DEF SessionAfter
  <2>. QED  BY <1>0, <1>1, <2>1, <2>2 DEF IsApplied, CompletionApplied, ConflictsOf, IsValid, IsRepeat
<1>3. CASE ~IsAnswer(e) /\ Event[e].kind # "SESSION_COMPLETED"
  <2>1. Applied(p, e) = WithSession(p, e, "NEW") /\ ~IsValid(p, e) /\ ~IsRepeat(p, e)
    BY <1>3 DEF Applied, IsAnswer, IsValid, IsRepeat
  <2>2. SessionAfter(p, e) = IF p.sessions[t] = NoSession
                             THEN [owner |-> Event[e].student, state |-> "NEW"]
                             ELSE p.sessions[t]
    BY <1>3, <2>1 DEF SessionAfter
  <2>3. ConflictsOf(p, e) = {}
    BY <2>1 DEF ConflictsOf
  <2>. QED  BY <2>1, <2>2, <2>3, WithSessionFields DEF IsApplied
<1>. DEFINE q == WithSession(p, e, "QUESTION_ACTIVE")
            ses == [p.sessions EXCEPT ![t] =
                      IF p.sessions[t] = NoSession
                      THEN [owner |-> Event[e].student, state |-> "QUESTION_ACTIVE"] ELSE @]
<1>4. /\ DOMAIN q = DOMAIN p
      /\ q.attempts = p.attempts /\ q.skills = p.skills /\ q.evidence = p.evidence
      /\ q.conflicts = p.conflicts /\ q.sessions = ses
      /\ HasAttempt(q, e) <=> HasAttempt(p, e)
      /\ PriorSameAttempt(q, e) = PriorSameAttempt(p, e)
      /\ PriorSameItem(q, e) = PriorSameItem(p, e)
      /\ AttemptRow(q, e) = AttemptRow(p, e)
      /\ IsLate(q, e) <=> IsLate(p, e)
  BY WithSessionFields
<1>5. IsAnswer(e) => Applied(p, e) = IF HasAttempt(q, e) THEN q
                      ELSE IF PriorSameAttempt(q, e) # {} THEN WithDuplicate(q, e)
                      ELSE WithScored(q, e)
  BY DEF Applied, IsAnswer, AnswerApplied
<1>. HIDE DEF q
<1>6. CASE IsAnswer(e) /\ ~IsValid(p, e)
  <2>1. SessionAfter(p, e) = IF p.sessions[t] = NoSession
                             THEN [owner |-> Event[e].student, state |-> "QUESTION_ACTIVE"]
                             ELSE p.sessions[t]
    BY <1>6 DEF SessionAfter, IsAnswer
  <2>2. q.sessions = [p.sessions EXCEPT ![t] = SessionAfter(p, e)]
    BY <1>4, <2>1
  <2>3. CASE HasAttempt(p, e)
    <3>1. Applied(p, e) = q
      BY <1>4, <1>5, <1>6, <2>3
    <3>2. ~IsRepeat(p, e) /\ ConflictsOf(p, e) = {}
      BY <1>6, <2>3 DEF IsRepeat, ConflictsOf
    <3>. QED  BY <1>4, <1>6, <2>2, <3>1, <3>2 DEF IsApplied
  <2>4. CASE ~HasAttempt(p, e)
    <3>1. Applied(p, e) = WithDuplicate(q, e) /\ IsRepeat(p, e)
      BY <1>4, <1>5, <1>6, <2>4 DEF IsValid, IsRepeat
    <3>2. ConflictsOf(p, e) = {<<e, "ATTEMPT_ALREADY_SCORED">>}
      BY <3>1 DEF ConflictsOf
    <3>. QED  BY <1>1, <1>4, <1>6, <2>2, <3>1, <3>2 DEF IsApplied, WithDuplicate
  <2>. QED  BY <2>3, <2>4
<1>7. CASE IsValid(p, e)
  <2>. DEFINE row == AttemptRow(p, e)
              types == ParallelTypes(p, e) \cup LateTypes(p, e)
              key == <<row.student, Skill[row.item]>>
              q1 == [q EXCEPT !.attempts = @ \cup {row}]
              q2 == WithMastery(q1, row)
              q3 == WithEvidence(q2, e)
              q4 == WithConflicts(q3, e, types)
              q5 == Transitioned(q4, t, "ANSWER_EVALUATED")
  <2>1. /\ IsAnswer(e) /\ ~HasAttempt(q, e) /\ PriorSameAttempt(q, e) = {}
        /\ ~IsRepeat(p, e)
    BY <1>4, <1>7 DEF IsValid, IsRepeat
  <2>2. /\ ParallelTypes(q, e) = ParallelTypes(p, e) /\ LateTypes(q, e) = LateTypes(p, e)
        /\ AttemptRow(q, e) = row /\ row.session = t
    BY <1>4 DEF ParallelTypes, LateTypes, AttemptRow
  <2>3. Applied(p, e) = q5
    BY <1>5, <2>1, <2>2 DEF WithScored, Scored
  <2>. HIDE DEF row, types
  <2>4. /\ DOMAIN q1 = DOMAIN p
        /\ q1.attempts = p.attempts \cup {row} /\ q1.skills = p.skills
        /\ q1.evidence = p.evidence /\ q1.conflicts = p.conflicts /\ q1.sessions = ses
    BY <1>1, <1>4
  <2>. HIDE DEF q1
  <2>5. /\ DOMAIN q2 = DOMAIN p
        /\ q2.attempts = p.attempts \cup {row}
        /\ q2.skills = [p.skills EXCEPT ![key] = RecordAttempt(@, row.correct, row.weight)]
        /\ q2.evidence = p.evidence /\ q2.conflicts = p.conflicts /\ q2.sessions = ses
    BY <1>1, <2>4 DEF WithMastery
  <2>. HIDE DEF q2
  <2>6. /\ DOMAIN q3 = DOMAIN p
        /\ q3.attempts = q2.attempts /\ q3.skills = q2.skills
        /\ q3.evidence = IF ~Event[e].correct /\ Event[e].mapped
                         THEN p.evidence \cup {e} ELSE p.evidence
        /\ q3.conflicts = q2.conflicts /\ q3.sessions = q2.sessions
    <3>1. CASE ~Event[e].correct /\ Event[e].mapped
      BY <1>1, <2>5, <3>1 DEF WithEvidence
    <3>2. CASE ~(~Event[e].correct /\ Event[e].mapped)
      BY <1>1, <2>5, <3>2 DEF WithEvidence
    <3>. QED  BY <3>1, <3>2
  <2>. HIDE DEF q3
  <2>7. /\ DOMAIN q4 = DOMAIN p
        /\ q4.attempts = q3.attempts /\ q4.skills = q3.skills /\ q4.evidence = q3.evidence
        /\ q4.conflicts = p.conflicts \cup ({e} \X types) /\ q4.sessions = ses
    BY <1>1, <2>5, <2>6 DEF WithConflicts
  <2>. HIDE DEF q4
  <2>8. /\ DOMAIN q5 = DOMAIN p
        /\ q5.attempts = q4.attempts /\ q5.skills = q4.skills /\ q5.evidence = q4.evidence
        /\ q5.conflicts = q4.conflicts
        /\ q5.sessions = IF ses[t].state = "SESSION_COMPLETED" THEN ses
                         ELSE [ses EXCEPT ![t].state = "ANSWER_EVALUATED"]
    BY <1>1, <2>7 DEF Transitioned
  <2>. HIDE DEF q5
  <2>9. q5.sessions = [p.sessions EXCEPT ![t] = SessionAfter(p, e)]
    <3>. DEFINE old == p.sessions[t]
    <3>1. old = NoSession \/ old \in [owner: Students, state: SessionStates \ {"absent"}]
      BY <1>0 DEF IsProjection
    <3>2. SessionAfter(p, e) =
            IF old.state # "SESSION_COMPLETED"
            THEN [owner |-> IF old = NoSession THEN Event[e].student ELSE old.owner,
                  state |-> "ANSWER_EVALUATED"]
            ELSE old
      BY <1>7, <2>1, <3>1 DEF SessionAfter, IsAnswer, NoSession
    <3>3. CASE old = NoSession
      <4>1. ses[t] = [owner |-> Event[e].student, state |-> "QUESTION_ACTIVE"]
        BY <1>0, <1>1, <3>3
      <4>2. SessionAfter(p, e) = [owner |-> Event[e].student, state |-> "ANSWER_EVALUATED"]
        BY <3>2, <3>3 DEF NoSession
      <4>3. q5.sessions = [ses EXCEPT ![t] = [ses[t] EXCEPT !.state = "ANSWER_EVALUATED"]]
        <5>. HIDE DEF ses
        <5>1. ses[t].state # "SESSION_COMPLETED"
          BY <4>1
        <5>. QED  BY <2>8, <5>1
      <4>4. [ses[t] EXCEPT !.state = "ANSWER_EVALUATED"] = SessionAfter(p, e)
        BY <4>1, <4>2
      <4>5. \A x : [ses EXCEPT ![t] = x] = [p.sessions EXCEPT ![t] = x]
        BY <1>1
      <4>. QED  BY <4>3, <4>4, <4>5
    <3>4. CASE old # NoSession /\ old.state = "SESSION_COMPLETED"
      <4>1. ses = p.sessions /\ SessionAfter(p, e) = old
        BY <1>0, <1>1, <3>2, <3>4
      <4>. QED  BY <1>0, <1>1, <2>8, <3>4, <4>1
    <3>5. CASE old # NoSession /\ old.state # "SESSION_COMPLETED"
      <4>1. ses = p.sessions
        BY <1>0, <1>1, <3>5
      <4>2. SessionAfter(p, e) = [old EXCEPT !.state = "ANSWER_EVALUATED"]
        BY <3>1, <3>2, <3>5
      <4>. QED  BY <1>0, <1>1, <2>8, <3>5, <4>1, <4>2
    <3>. QED  BY <3>3, <3>4, <3>5
  <2>10. ConflictsOf(p, e) = {e} \X types
    BY <1>7, <2>1 DEF ConflictsOf, types
  <2>11. /\ q5.attempts = p.attempts \cup {row}
         /\ q5.skills = [p.skills EXCEPT ![key] = RecordAttempt(@, row.correct, row.weight)]
         /\ q5.evidence = IF ~Event[e].correct /\ Event[e].mapped
                          THEN p.evidence \cup {e} ELSE p.evidence
         /\ q5.conflicts = p.conflicts \cup ({e} \X types)
    BY <2>5, <2>6, <2>7, <2>8
  <2>. HIDE DEF key
  <2>12. IsApplied(p, e, q5)
    <3>. USE DEF row, key
    <3>. QED  BY <1>7, <2>1, <2>8, <2>9, <2>10, <2>11 DEF IsApplied
  <2>. QED  BY <2>3, <2>12
<1>8. Event[e].kind = "SESSION_COMPLETED" => ~IsAnswer(e)
  BY DEF IsAnswer
<1>. QED  BY <1>2, <1>3, <1>6, <1>7, <1>8

LEMMA RowFields ==
  ASSUME NEW p, IsProjection(p), NEW e \in Events, IsAnswer(e)
  PROVE  LET row == AttemptRow(p, e) IN
         /\ IsRow(row) /\ row.event = e
         /\ row.valid <=> PriorSameAttempt(p, e) = {}
         /\ row.student \in Students /\ Skill[row.item] \in Skills
<1>. DEFINE row == AttemptRow(p, e)
            repeated == PriorSameItem(p, e) # {}
            w == EvidenceWeight(Difficulty[Event[e].item], Event[e].hint, repeated)
<1>1. /\ Event[e].student \in Students /\ Event[e].hint \in 0..3
      /\ Skill[Event[e].item] \in Skills /\ Difficulty[Event[e].item] \in 1..3
  BY EventFacts DEF IsAnswer
<1>2. w \in Nat
  <2>1. repeated \in BOOLEAN
    OBVIOUS
  <2>. HIDE DEF repeated
  <2>. QED  BY <1>1, <2>1, WeightsAreNumbers
<1>3. row.weight = (IF PriorSameAttempt(p, e) # {} THEN 0 ELSE w)
  BY DEF AttemptRow
<1>. HIDE DEF w
<1>4. /\ row.event = e /\ row.valid = (PriorSameAttempt(p, e) = {})
      /\ row.attempt = Event[e].attempt /\ row.student = Event[e].student
      /\ row.session = Event[e].session /\ row.item = Event[e].item
      /\ row.correct = Event[e].correct /\ row.dup = Cardinality(PriorSameAttempt(p, e))
  BY DEF AttemptRow, StoredDup
<1>. HIDE DEF row
<1>5. row.valid => row.dup = 0
  BY <1>4, FS_EmptySet
<1>6. IsRow(row)
  BY <1>2, <1>3, <1>4, <1>5 DEF IsRow, IsAnswer
<1>. QED  BY <1>1, <1>4, <1>6 DEF row

LEMMA ProjectionStays ==
  ASSUME NEW p, IsProjection(p), NEW e \in Events
  PROVE  IsProjection(Applied(p, e))
<1>. DEFINE q == Applied(p, e)
            row == AttemptRow(p, e)
            t == Event[e].session
<1>1. IsApplied(p, e, q)
  BY AppliedIs
<1>. HIDE DEF q
<1>2. t \in Sessions /\ Event[e].student \in Students
  BY EventFacts
<1>3. IsAnswer(e) => IsRow(row) /\ row.event = e /\ row.student \in Students /\ Skill[row.item] \in Skills
  BY RowFields
<1>. HIDE DEF row
<1>4. DOMAIN q = {"sessions", "attempts", "skills", "evidence", "conflicts"}
  BY <1>1 DEF IsApplied, IsProjection
<1>5. q.sessions \in [Sessions -> {NoSession} \cup
                         [owner: Students, state: SessionStates \ {"absent"}]]
  <2>1. \/ p.sessions[t] = NoSession
        \/ p.sessions[t] \in [owner: Students, state: SessionStates \ {"absent"}]
    BY <1>2 DEF IsProjection
  <2>2. SessionAfter(p, e) \in [owner: Students, state: SessionStates \ {"absent"}]
    BY <1>2, <2>1 DEF SessionAfter, SessionStates
  <2>. QED  BY <1>1, <1>2, <2>2 DEF IsApplied, IsProjection
<1>6. q.skills \in [Students \X Skills -> SkillStates]
  <2>1. CASE IsValid(p, e)
    <3>1. IsAnswer(e) /\ row.weight \in Nat
      BY <1>3, <2>1 DEF IsValid, IsRow
    <3>. DEFINE key == <<row.student, Skill[row.item]>>
    <3>2. key \in Students \X Skills
      BY <1>3, <3>1
    <3>3. p.skills \in [Students \X Skills -> SkillStates]
      BY DEF IsProjection
    <3>4. q.skills = [p.skills EXCEPT ![key] = RecordAttempt(@, row.correct, row.weight)]
      BY <1>1, <2>1 DEF IsApplied, row
    <3>. HIDE DEF key
    <3>5. p.skills[key] \in SkillStates
      BY <3>2, <3>3
    <3>6. RecordAttempt(p.skills[key], row.correct, row.weight) \in SkillStates
      BY <3>1, <3>5 DEF RecordAttempt, SkillStates
    <3>. QED  BY <3>2, <3>3, <3>4, <3>6
  <2>2. CASE ~IsValid(p, e)
    BY <1>1, <2>2 DEF IsApplied, IsProjection
  <2>. QED  BY <2>1, <2>2
<1>7. /\ IsFiniteSet(q.attempts)
      /\ \A a \in q.attempts : IsRow(a)
      /\ \A a, b \in q.attempts : a.event = b.event => a = b
  <2>0. /\ IsFiniteSet(p.attempts)
        /\ \A a \in p.attempts : IsRow(a)
        /\ \A a, b \in p.attempts : a.event = b.event => a = b
    BY DEF IsProjection
  <2>1. CASE IsValid(p, e) \/ IsRepeat(p, e)
    <3>1. IsAnswer(e) /\ \A a \in p.attempts : a.event # e
      BY <2>1 DEF IsValid, IsRepeat, HasAttempt
    <3>2. q.attempts = p.attempts \cup {row}
      BY <1>1, <2>1 DEF IsApplied, row
    <3>3. IsFiniteSet(q.attempts)
      BY <2>0, <3>2, FS_AddElement
    <3>. QED  BY <1>3, <2>0, <3>1, <3>2, <3>3
  <2>2. CASE ~(IsValid(p, e) \/ IsRepeat(p, e))
    <3>1. q.attempts = p.attempts
      BY <1>1, <2>2 DEF IsApplied
    <3>. QED  BY <2>0, <3>1
  <2>. QED  BY <2>1, <2>2
<1>. QED  BY <1>4, <1>5, <1>6, <1>7 DEF IsProjection, q

\* The tables without a learner's rows.
IsCleared(p, s, q) ==
    /\ DOMAIN q = DOMAIN p
    /\ q.sessions = [t \in Sessions |-> IF p.sessions[t].owner = s THEN NoSession
                                        ELSE p.sessions[t]]
    /\ q.attempts = {a \in p.attempts : a.student # s}
    /\ q.skills = [t \in Students \X Skills |-> IF t[1] = s THEN NoSkillState
                                                ELSE p.skills[t]]
    /\ q.evidence = {e \in p.evidence : Event[e].student # s}
    /\ q.conflicts = {c \in p.conflicts : Event[c[1]].student # s}

LEMMA ClearedFields ==
  ASSUME NEW p, IsProjection(p), NEW s
  PROVE  IsCleared(p, s, Cleared(p, s))
<1>1. DOMAIN p = {"sessions", "attempts", "skills", "evidence", "conflicts"}
  BY DEF IsProjection
<1>. QED  BY <1>1 DEF Cleared, IsCleared

LEMMA ClearedStays ==
  ASSUME NEW p, IsProjection(p), NEW s
  PROVE  IsProjection(Cleared(p, s))
<1>. DEFINE q == Cleared(p, s)
<1>0. IsCleared(p, s, q)
  BY ClearedFields
<1>1. /\ DOMAIN q = DOMAIN p
      /\ q.sessions = [t \in Sessions |-> IF p.sessions[t].owner = s THEN NoSession
                                          ELSE p.sessions[t]]
      /\ q.attempts = {a \in p.attempts : a.student # s}
      /\ q.skills = [t \in Students \X Skills |-> IF t[1] = s THEN NoSkillState
                                                  ELSE p.skills[t]]
  <2>. HIDE DEF q
  <2>. QED  BY <1>0 DEF IsCleared
<1>. HIDE DEF q
<1>2. q.attempts \in SUBSET p.attempts /\ IsFiniteSet(q.attempts)
  BY <1>1, FS_Subset DEF IsProjection
<1>3. NoSkillState \in SkillStates
  BY DEF NoSkillState, SkillStates
<1>4. q.skills \in [Students \X Skills -> SkillStates]
  <2>. HIDE DEF NoSkillState
  <2>. QED  BY <1>1, <1>3 DEF IsProjection
<1>5. q.sessions \in [Sessions -> {NoSession} \cup
                         [owner: Students, state: SessionStates \ {"absent"}]]
  <2>. DEFINE Rows == [owner: Students, state: SessionStates \ {"absent"}]
  <2>1. p.sessions \in [Sessions -> {NoSession} \cup Rows]
    BY DEF IsProjection
  <2>. HIDE DEF Rows
  <2>2. q.sessions \in [Sessions -> {NoSession} \cup Rows]
    BY <1>1, <2>1
  <2>. QED  BY <2>2 DEF Rows
<1>. QED  BY <1>1, <1>2, <1>4, <1>5 DEF IsProjection, q

LEMMA NothingIsProjection ==
  IsProjection(NoProjection)
<1>1. NoSkillState \in SkillStates
  BY DEF NoSkillState, SkillStates
<1>2. IsFiniteSet({})
  BY FS_EmptySet
<1>. QED  BY <1>1, <1>2 DEF IsProjection, NoProjection

--------------------------------------------------------------------------------
(* Mastery is the weight of the rows.                                      *)


Mastered(p) == \A s \in Students, k \in Skills : IsMastery(p.skills[<<s, k>>], ScoredRows(p, s, k))

LEMMA MasteryOfNone ==
  IsMastery(NoSkillState, {})
<1>1. Right({}) = {} /\ Wrong({}) = {} /\ Cardinality({}) = 0
  BY FS_EmptySet DEF Right, Wrong
<1>. QED  BY <1>1, WeightOfNone DEF IsMastery, NoSkillState

LEMMA MasteryMoves ==
  ASSUME NEW state \in SkillStates, NEW R, IsFiniteSet(R), IsMastery(state, R),
         NEW row, row \notin R, \A a \in R \cup {row} : a.weight \in Nat /\ a.correct \in BOOLEAN
  PROVE  IsMastery(RecordAttempt(state, row.correct, row.weight), R \cup {row})
<1>. DEFINE T == R \cup {row}
            next == RecordAttempt(state, row.correct, row.weight)
<1>1. Cardinality(T) = Cardinality(R) + 1
  BY FS_AddElement
<1>2. /\ next.alpha = state.alpha + (IF row.correct THEN row.weight ELSE 0)
      /\ next.beta = state.beta + (IF row.correct THEN 0 ELSE row.weight)
      /\ next.evidence_count = state.evidence_count + 1
  BY DEF RecordAttempt
<1>3. /\ Right(R) \in SUBSET R /\ Wrong(R) \in SUBSET R
      /\ IsFiniteSet(Right(R)) /\ IsFiniteSet(Wrong(R))
  <2>1. Right(R) \in SUBSET R /\ Wrong(R) \in SUBSET R
    BY DEF Right, Wrong
  <2>. QED  BY <2>1, FS_Subset
<1>4. state.alpha \in Int /\ state.beta \in Int /\ row.weight \in Int
  BY DEF SkillStates
<1>5. CASE row.correct
  <2>1. Right(T) = Right(R) \cup {row} /\ Wrong(T) = Wrong(R) /\ row \notin Right(R)
    BY <1>5 DEF Right, Wrong
  <2>2. \A a \in Right(R) \cup {row} : a.weight \in Int
    BY <1>3
  <2>3. WeightOf(Right(T)) = WeightOf(Right(R)) + row.weight /\ WeightOf(Right(R)) \in Int
    BY <1>3, <2>1, <2>2, WeightAdds
  <2>. HIDE DEF T, next
  <2>4. next.alpha = state.alpha + row.weight /\ next.beta = state.beta + 0
    BY <1>2, <1>5
  <2>. QED  BY <1>1, <1>2, <1>4, <2>1, <2>3, <2>4 DEF IsMastery, T, next
<1>6. CASE ~row.correct
  <2>1. Wrong(T) = Wrong(R) \cup {row} /\ Right(T) = Right(R) /\ row \notin Wrong(R)
    BY <1>6 DEF Right, Wrong
  <2>2. \A a \in Wrong(R) \cup {row} : a.weight \in Int
    BY <1>3
  <2>3. WeightOf(Wrong(T)) = WeightOf(Wrong(R)) + row.weight /\ WeightOf(Wrong(R)) \in Int
    BY <1>3, <2>1, <2>2, WeightAdds
  <2>. HIDE DEF T, next
  <2>4. next.alpha = state.alpha + 0 /\ next.beta = state.beta + row.weight
    BY <1>2, <1>6
  <2>. QED  BY <1>1, <1>2, <1>4, <2>1, <2>3, <2>4 DEF IsMastery, T, next
<1>. QED  BY <1>5, <1>6

LEMMA RowsAreFinite ==
  ASSUME NEW p, IsProjection(p), NEW s, NEW k
  PROVE  /\ IsFiniteSet(ScoredRows(p, s, k)) /\ ScoredRows(p, s, k) \in SUBSET p.attempts
         /\ \A a \in p.attempts : a.weight \in Nat /\ a.correct \in BOOLEAN
<1>1. ScoredRows(p, s, k) \in SUBSET p.attempts
  BY DEF ScoredRows, AttemptsOf
<1>2. \A a \in p.attempts : a.weight \in Nat /\ a.correct \in BOOLEAN
  BY EventFacts DEF IsProjection, IsRow
<1>3. IsFiniteSet(p.attempts)
  BY DEF IsProjection
<1>. QED  BY <1>1, <1>2, <1>3, FS_Subset

LEMMA MasteredStays ==
  ASSUME NEW p, IsProjection(p), Mastered(p), NEW e \in Events
  PROVE  Mastered(Applied(p, e))
<1>. DEFINE q == Applied(p, e)
            row == AttemptRow(p, e)
<1>1. IsApplied(p, e, q) /\ IsProjection(q)
  BY AppliedIs, ProjectionStays
<1>. HIDE DEF q
<1>2. SUFFICES ASSUME NEW s \in Students, NEW k \in Skills
               PROVE  IsMastery(q.skills[<<s, k>>], ScoredRows(q, s, k))
  BY DEF Mastered, q
<1>3. /\ IsMastery(p.skills[<<s, k>>], ScoredRows(p, s, k))
      /\ p.skills \in [Students \X Skills -> SkillStates] /\ <<s, k>> \in Students \X Skills
  BY DEF Mastered, IsProjection
<1>4. IsAnswer(e) =>
         /\ row.event = e
         /\ row.valid <=> PriorSameAttempt(p, e) = {}
         /\ row.student \in Students /\ Skill[row.item] \in Skills
  BY RowFields
<1>. HIDE DEF row
<1>5. CASE ~IsValid(p, e)
  <2>1. q.skills = p.skills
    BY <1>1, <1>5 DEF IsApplied
  <2>2. q.attempts = p.attempts \/ (q.attempts = p.attempts \cup {row} /\ ~row.valid)
    BY <1>1, <1>4, <1>5 DEF IsApplied, IsRepeat, row
  <2>3. ScoredRows(q, s, k) = ScoredRows(p, s, k)
    BY <2>2 DEF ScoredRows, AttemptsOf
  <2>. QED  BY <1>3, <2>1, <2>3
<1>6. CASE IsValid(p, e)
  <2>. DEFINE key == <<row.student, Skill[row.item]>>
  <2>1. /\ IsAnswer(e) /\ row.valid /\ row \notin p.attempts
        /\ q.attempts = p.attempts \cup {row} /\ key \in Students \X Skills
        /\ q.skills = [p.skills EXCEPT ![key] = RecordAttempt(@, row.correct, row.weight)]
    BY <1>1, <1>4, <1>6 DEF IsApplied, IsValid, HasAttempt, row
  <2>2. CASE row.student = s /\ Skill[row.item] = k
    <3>1. ScoredRows(q, s, k) = ScoredRows(p, s, k) \cup {row} /\ row \notin ScoredRows(p, s, k)
      BY <2>1, <2>2 DEF ScoredRows, AttemptsOf
    <3>2. q.skills[<<s, k>>] = RecordAttempt(p.skills[<<s, k>>], row.correct, row.weight)
      BY <1>3, <2>1, <2>2
    <3>3. /\ \A a \in ScoredRows(p, s, k) \cup {row} : a.weight \in Nat /\ a.correct \in BOOLEAN
          /\ IsFiniteSet(ScoredRows(p, s, k))
      BY <1>1, <2>1, RowsAreFinite
    <3>4. p.skills[<<s, k>>] \in SkillStates
      BY <1>3
    <3>. DEFINE R == ScoredRows(p, s, k)
                state == p.skills[<<s, k>>]
    <3>5. state \in SkillStates /\ IsFiniteSet(R) /\ IsMastery(state, R) /\ row \notin R
      BY <1>3, <3>1, <3>3, <3>4
    <3>6. \A a \in R \cup {row} : a.weight \in Nat /\ a.correct \in BOOLEAN
      BY <3>3
    <3>. HIDE DEF R, state
    <3>7. IsMastery(RecordAttempt(state, row.correct, row.weight), R \cup {row})
      BY <3>5, <3>6, MasteryMoves, Zenon
    <3>. QED  BY <3>1, <3>2, <3>7 DEF R, state
  <2>3. CASE ~(row.student = s /\ Skill[row.item] = k)
    <3>1. ScoredRows(q, s, k) = ScoredRows(p, s, k)
      BY <2>1, <2>3 DEF ScoredRows, AttemptsOf
    <3>2. key # <<s, k>>
      BY <2>3
    <3>. HIDE DEF key
    <3>3. q.skills[<<s, k>>] = p.skills[<<s, k>>]
      BY <1>3, <2>1, <3>2
    <3>. QED  BY <1>3, <3>1, <3>3
  <2>. QED  BY <2>2, <2>3
<1>. QED  BY <1>5, <1>6

LEMMA MasteredClears ==
  ASSUME NEW p, IsProjection(p), Mastered(p), NEW s
  PROVE  Mastered(Cleared(p, s))
<1>. DEFINE q == Cleared(p, s)
<1>0. IsCleared(p, s, q)
  BY ClearedFields
<1>1. /\ q.attempts = {a \in p.attempts : a.student # s}
      /\ q.skills = [t \in Students \X Skills |-> IF t[1] = s THEN NoSkillState
                                                  ELSE p.skills[t]]
  <2>. HIDE DEF q
  <2>. QED  BY <1>0 DEF IsCleared
<1>. HIDE DEF q
<1>2. SUFFICES ASSUME NEW u \in Students, NEW k \in Skills
               PROVE  IsMastery(q.skills[<<u, k>>], ScoredRows(q, u, k))
  BY DEF Mastered, q
<1>3. CASE u = s
  <2>1. ScoredRows(q, u, k) = {} /\ q.skills[<<u, k>>] = NoSkillState
    BY <1>1, <1>3 DEF ScoredRows, AttemptsOf
  <2>. QED  BY <2>1, MasteryOfNone
<1>4. CASE u # s
  <2>1. ScoredRows(q, u, k) = ScoredRows(p, u, k)
    BY <1>1, <1>4 DEF ScoredRows, AttemptsOf
  <2>2. q.skills[<<u, k>>] = p.skills[<<u, k>>]
    BY <1>1, <1>4
  <2>. QED  BY <2>1, <2>2 DEF Mastered
<1>. QED  BY <1>3, <1>4

LEMMA NothingIsMastered ==
  Mastered(NoProjection)
<1>1. \A s \in Students, k \in Skills :
         ScoredRows(NoProjection, s, k) = {} /\ NoProjection.skills[<<s, k>>] = NoSkillState
  BY DEF ScoredRows, AttemptsOf, NoProjection
<1>. QED  BY <1>1, MasteryOfNone DEF Mastered

--------------------------------------------------------------------------------
(* Repeats are told.                                                       *)

IsTold(p, c) ==
    /\ <<c.event, "PARALLEL_ATTEMPT_DETECTED">> \in p.conflicts
    /\ 2 * c.weight <= EvidenceWeight(Difficulty[c.item], Event[c.event].hint, FALSE)

RepeatsTold(p) ==
    \A a, b \in p.attempts :
        a # b /\ a.valid /\ b.valid /\ a.student = b.student /\ a.session = b.session =>
            a.attempt # b.attempt /\ (a.item = b.item => IsTold(p, a) \/ IsTold(p, b))

LEMMA RepeatsToldStays ==
  ASSUME NEW p, IsProjection(p), RepeatsTold(p), NEW e \in Events
  PROVE  RepeatsTold(Applied(p, e))
<1>. DEFINE q == Applied(p, e)
            row == AttemptRow(p, e)
<1>1. IsApplied(p, e, q) /\ IsProjection(q)
  BY AppliedIs, ProjectionStays
<1>. HIDE DEF q
<1>2. p.conflicts \subseteq q.conflicts
  BY <1>1 DEF IsApplied
<1>3. \A c : IsTold(p, c) => IsTold(q, c)
  BY <1>2 DEF IsTold
<1>4. \A b \in p.attempts : IsRow(b)
  BY DEF IsProjection
<1>5. CASE ~IsValid(p, e)
  <2>1. IsAnswer(e) => row.valid <=> PriorSameAttempt(p, e) = {}
    BY RowFields
  <2>2. \A a \in q.attempts : a.valid => a \in p.attempts
    BY <1>1, <1>5, <2>1 DEF IsApplied, IsRepeat
  <2>. QED  BY <1>3, <2>2 DEF RepeatsTold, q
<1>6. CASE IsValid(p, e)
  <2>1. IsAnswer(e) /\ PriorSameAttempt(p, e) = {}
    BY <1>6 DEF IsValid
  <2>2. /\ row.event = e /\ row.student = Event[e].student /\ row.session = Event[e].session
        /\ row.item = Event[e].item /\ row.attempt = Event[e].attempt
        /\ row.weight = EvidenceWeight(Difficulty[Event[e].item], Event[e].hint,
                                       PriorSameItem(p, e) # {})
    BY <2>1 DEF AttemptRow
  <2>3. q.attempts = p.attempts \cup {row}
    BY <1>1, <1>6 DEF IsApplied, row
  <2>. HIDE DEF row
  <2>4. ASSUME NEW b \in p.attempts, b.valid, b.student = row.student, b.session = row.session
        PROVE  b.attempt # row.attempt /\ (b.item = row.item => IsTold(q, row))
    <3>1. b.dup = 0
      BY <1>4, <2>4 DEF IsRow
    <3>2. b.attempt # row.attempt
      BY <2>1, <2>2, <2>4, <3>1 DEF PriorSameAttempt, AttemptsOf
    <3>3. ASSUME b.item = row.item PROVE IsTold(q, row)
      <4>1. PriorSameItem(p, e) # {}
        BY <2>2, <2>4, <3>3 DEF PriorSameItem, AttemptsOf
      <4>2. <<e, "PARALLEL_ATTEMPT_DETECTED">> \in ConflictsOf(p, e)
        BY <1>6, <2>1, <4>1 DEF ConflictsOf, ParallelTypes, IsRepeat
      <4>3. /\ Difficulty[Event[e].item] \in 1..3 /\ Event[e].hint \in 0..3
            /\ row.weight = EvidenceWeight(Difficulty[Event[e].item], Event[e].hint, TRUE)
        BY <2>1, <2>2, <4>1, EventFacts DEF IsAnswer
      <4>4. 2 * row.weight <= EvidenceWeight(Difficulty[Event[e].item], Event[e].hint, FALSE)
        BY <4>3, WeightsAreNumbers
      <4>. QED  BY <1>1, <2>2, <4>2, <4>4 DEF IsApplied, IsTold
    <3>. QED  BY <3>2, <3>3
  <2>5. RepeatsTold(q)
    BY <1>3, <2>3, <2>4 DEF RepeatsTold
  <2>. QED  BY <2>5 DEF q
<1>. QED  BY <1>5, <1>6

LEMMA RepeatsToldClears ==
  ASSUME NEW p, IsProjection(p), RepeatsTold(p), NEW s
  PROVE  RepeatsTold(Cleared(p, s))
<1>. DEFINE q == Cleared(p, s)
<1>0. IsCleared(p, s, q)
  BY ClearedFields
<1>. HIDE DEF q
<1>1. /\ q.attempts = {a \in p.attempts : a.student # s}
      /\ q.conflicts = {c \in p.conflicts : Event[c[1]].student # s}
  BY <1>0 DEF IsCleared
<1>2. \A a \in p.attempts : Event[a.event].student = a.student
  BY DEF IsProjection, IsRow
<1>3. ASSUME NEW c \in q.attempts, IsTold(p, c) PROVE IsTold(q, c)
  <2>1. <<c.event, "PARALLEL_ATTEMPT_DETECTED">>[1] = c.event
    OBVIOUS
  <2>. QED  BY <1>1, <1>2, <1>3, <2>1 DEF IsTold
<1>4. q.attempts \subseteq p.attempts
  BY <1>1
<1>5. RepeatsTold(q)
  BY <1>3, <1>4 DEF RepeatsTold
<1>. QED  BY <1>5 DEF q

LEMMA NothingIsTold ==
  RepeatsTold(NoProjection)
BY DEF RepeatsTold, NoProjection

--------------------------------------------------------------------------------
(* The events of a script.                                                 *)

Theirs(s) == {i \in DOMAIN log : Event[log[i]].student = s}

\* The events are those of the learner, each once, in the order of a replay.
IsReplayOf(E, s) ==
    \E pos : /\ pos \in [DOMAIN E -> Theirs(s)]
             /\ \A k \in DOMAIN E : E[k] = log[pos[k]]
             /\ \A k, l \in DOMAIN E : k < l => ReplayedBefore(pos[k], pos[l])
             /\ \A i \in Theirs(s) : \E k \in DOMAIN E : pos[k] = i

LEMMA ReplayIsOrdered ==
  ASSUME log \in Seq(Events)
  PROVE  \A i, j, k \in DOMAIN log :
            /\ ~ReplayedBefore(i, i)
            /\ i = j \/ ReplayedBefore(i, j) \/ ReplayedBefore(j, i)
            /\ ReplayedBefore(i, j) /\ ReplayedBefore(j, k) => ReplayedBefore(i, k)
<1>1. \A i \in DOMAIN log : i \in Nat /\ Event[log[i]].occurred_at \in Nat
  BY ProjectionConstants DEF EventRecord
<1>. QED  BY <1>1 DEF ReplayedBefore

Earlier(s, i) == {j \in Theirs(s) : ReplayedBefore(j, i)}
RankIn(s, i) == 1 + Cardinality(Earlier(s, i))
Position(s, k) == CHOOSE i \in Theirs(s) : RankIn(s, i) = k

LEMMA EventsForIs ==
  ASSUME log \in Seq(Events), NEW s
  PROVE  EventsFor(s) \in Seq(Events) /\ IsReplayOf(EventsFor(s), s)
<1>. DEFINE T == Theirs(s)
            n == Cardinality(T)
            r == [i \in T |-> RankIn(s, i)]
            pos == [k \in 1..n |-> Position(s, k)]
<1>1. /\ DOMAIN log = 1..Len(log) /\ Len(log) \in Nat /\ T \in SUBSET (1..Len(log))
      /\ \A i \in T : log[i] \in Events
  BY DEF Theirs
<1>2. IsFiniteSet(T) /\ n \in Nat
  <2>1. IsFiniteSet(1..Len(log))
    BY <1>1, FS_Interval
  <2>. QED  BY <1>1, <2>1, FS_Subset, FS_CardinalityType
<1>3. /\ \A i, j, k \in T :
            /\ ~ReplayedBefore(i, i)
            /\ i = j \/ ReplayedBefore(i, j) \/ ReplayedBefore(j, i)
            /\ ReplayedBefore(i, j) /\ ReplayedBefore(j, k) => ReplayedBefore(i, k)
  BY <1>1, ReplayIsOrdered
<1>4. EventsFor(s) = [k \in 1..n |-> log[pos[k]]]
  BY DEF EventsFor, Theirs, Position, RankIn, Earlier
<1>. HIDE DEF T, n
<1>5. ASSUME NEW i \in T
      PROVE  /\ Earlier(s, i) \in SUBSET T /\ IsFiniteSet(Earlier(s, i)) /\ Cardinality(Earlier(s, i)) \in Nat
             /\ Earlier(s, i) \cup {i} \in SUBSET T /\ IsFiniteSet(Earlier(s, i) \cup {i})
             /\ Cardinality(Earlier(s, i) \cup {i}) = RankIn(s, i)
             /\ RankIn(s, i) \in 1..n
  <2>1. Earlier(s, i) \in SUBSET T /\ Earlier(s, i) \cup {i} \in SUBSET T /\ i \notin Earlier(s, i)
    BY <1>3 DEF Earlier, T
  <2>. DEFINE Bi == Earlier(s, i)
  <2>. HIDE DEF Bi
  <2>2. IsFiniteSet(Bi) /\ Cardinality(Bi) \in Nat
    BY <1>2, <2>1, FS_Subset, FS_CardinalityType DEF Bi
  <2>3. IsFiniteSet(Bi \cup {i}) /\ Cardinality(Bi \cup {i}) = Cardinality(Bi) + 1
    BY <2>1, <2>2, FS_AddElement DEF Bi
  <2>4. Cardinality(Bi \cup {i}) <= n
    BY <1>2, <2>1, FS_Subset DEF Bi, n
  <2>. QED  BY <1>2, <2>1, <2>2, <2>3, <2>4 DEF Bi, RankIn
<1>6. ASSUME NEW i \in T, NEW j \in T, ReplayedBefore(i, j) PROVE RankIn(s, i) < RankIn(s, j)
  <2>. DEFINE C == Earlier(s, i) \cup {i}
              D == Earlier(s, j)
  <2>1. C \in SUBSET D
    BY <1>3, <1>6 DEF Earlier, T
  <2>2. Cardinality(C) = RankIn(s, i) /\ IsFiniteSet(D) /\ Cardinality(D) \in Nat
    BY <1>5
  <2>3. RankIn(s, i) \in 1..n /\ RankIn(s, j) = 1 + Cardinality(D)
    BY <1>5, Zenon DEF RankIn
  <2>5. RankIn(s, i) \in Nat
    BY <1>2, <2>3
  <2>. HIDE DEF C, D
  <2>4. Cardinality(C) <= Cardinality(D)
    BY <2>1, <2>2, FS_Subset
  <2>. QED  BY <2>2, <2>3, <2>4, <2>5
<1>7. \A i \in T : RankIn(s, i) \in 1..n /\ RankIn(s, i) \in Nat
  <2>1. \A i \in T : RankIn(s, i) \in 1..n
    BY <1>5, Zenon
  <2>. QED  BY <1>2, <2>1
<1>8. \A i, j \in T : ReplayedBefore(i, j) => RankIn(s, i) < RankIn(s, j)
  BY <1>6
<1>9. \A i, j \in T : RankIn(s, i) = RankIn(s, j) => i = j
  BY <1>3, <1>7, <1>8
<1>10. \A k \in 1..n : \E i \in T : RankIn(s, i) = k
  <2>1. r \in Injection(T, 1..n)
    BY <1>7, <1>9, Fun_IsInj
  <2>2. IsFiniteSet(1..n) /\ Cardinality(1..n) = n
    BY <1>2, FS_Interval
  <2>3. r \in Surjection(T, 1..n)
    <3>. HIDE DEF r
    <3>. QED  BY <2>1, <2>2, FS_Injection DEF n
  <2>. QED  BY <2>3 DEF Surjection
<1>11. \A k \in 1..n : pos[k] \in T /\ RankIn(s, pos[k]) = k
  BY <1>10 DEF Position, T
<1>12. DOMAIN pos = 1..n
  OBVIOUS
<1>. HIDE DEF pos
<1>13. pos \in [1..n -> T]
  <2>1. pos = [k \in 1..n |-> pos[k]]
    BY DEF pos
  <2>. QED  BY <1>11, <2>1
<1>14. \A k, l \in 1..n : k < l => ReplayedBefore(pos[k], pos[l])
  <2>. SUFFICES ASSUME NEW k \in 1..n, NEW l \in 1..n, k < l,
                       ~ReplayedBefore(pos[k], pos[l])
                PROVE  FALSE
    OBVIOUS
  <2>1. k \in Int /\ l \in Int
    BY <1>2
  <2>2. pos[k] \in T /\ pos[l] \in T /\ RankIn(s, pos[k]) = k /\ RankIn(s, pos[l]) = l
    BY <1>11
  <2>3. pos[k] # pos[l]
    BY <2>1, <2>2
  <2>4. ReplayedBefore(pos[l], pos[k])
    BY <1>3, <2>2, <2>3
  <2>5. l < k
    BY <1>8, <2>2, <2>4
  <2>. QED  BY <2>1, <2>5
<1>15. \A i \in T : \E k \in 1..n : pos[k] = i
  BY <1>7, <1>9, <1>11
<1>16. EventsFor(s) \in Seq(Events) /\ DOMAIN EventsFor(s) = 1..n
  <2>. DEFINE E == [k \in 1..n |-> log[pos[k]]]
  <2>1. E \in [1..n -> Events]
    BY <1>1, <1>11
  <2>2. E \in Seq(Events) /\ DOMAIN E = 1..n
    <3>. HIDE DEF E
    <3>. QED  BY <1>2, <2>1
  <2>. QED  BY <1>4, <2>2
<1>17. \A k \in 1..n : EventsFor(s)[k] = log[pos[k]]
  BY <1>4
<1>. DEFINE E == EventsFor(s)
<1>. HIDE DEF E
<1>18. IsReplayOf(E, s)
  <2>1. DOMAIN E = 1..n /\ \A k \in 1..n : E[k] = log[pos[k]]
    BY <1>16, <1>17 DEF E
  <2>2. pos \in [DOMAIN E -> Theirs(s)]
    BY <1>13, <2>1 DEF T
  <2>3. /\ pos \in [DOMAIN E -> Theirs(s)]
        /\ \A k \in DOMAIN E : E[k] = log[pos[k]]
        /\ \A k, l \in DOMAIN E : k < l => ReplayedBefore(pos[k], pos[l])
        /\ \A i \in Theirs(s) : \E k \in DOMAIN E : pos[k] = i
    BY <1>14, <1>15, <2>1, <2>2 DEF T
  <2>. QED  BY <2>3, Zenon DEF IsReplayOf
<1>. QED  BY <1>16, <1>18 DEF E

--------------------------------------------------------------------------------
(* The tables, through batches and scripts.                                *)

Scripts == [student: Students \cup {None}, events: Seq(Events), cleared: BOOLEAN]

\* The inductive invariant of mastery: the tables are those of events, each of a
\* student, also half way through a script.
TablesInv ==
    /\ log \in Seq(Events)
    /\ IsInjective(log)
    /\ IsProjection(projection)
    /\ Mastered(projection)
    /\ RepeatsTold(projection)
    /\ script \in Scripts
    /\ script.student = None => ~script.cleared

LEMMA AppendIsLog ==
  ASSUME log \in Seq(Events), IsInjective(log), NEW e \in Events, e \notin Stored
  PROVE  /\ Append(log, e) \in Seq(Events) /\ IsInjective(Append(log, e))
         /\ Len(Append(log, e)) = Len(log) + 1 /\ Append(log, e)[Len(log) + 1] = e
         /\ DOMAIN log = 1..Len(log) /\ Len(log) \in Nat
         /\ DOMAIN Append(log, e) = 1..(Len(log) + 1)
         /\ \A i \in DOMAIN log : Append(log, e)[i] = log[i]
<1>. DEFINE M == Append(log, e)
<1>1. /\ M \in Seq(Events) /\ Len(M) = Len(log) + 1 /\ M[Len(log) + 1] = e
      /\ DOMAIN log = 1..Len(log) /\ Len(log) \in Nat
      /\ DOMAIN M = 1..(Len(log) + 1)
      /\ \A i \in DOMAIN log : M[i] = log[i]
  OBVIOUS
<1>. HIDE DEF M
<1>2. \A i \in DOMAIN log : log[i] # e
  BY DEF Stored
<1>3. IsInjective(M)
  BY <1>1, <1>2 DEF IsInjective
<1>. QED  BY <1>1, <1>3 DEF M

LEMMA StoreKeepsTables ==
  ASSUME TablesInv, NEW e \in Events, Store(e)
  PROVE  TablesInv'
<1>1. log \in Seq(Events) /\ IsInjective(log) /\ e \notin Stored
  BY DEF TablesInv, Store, MayArrive
<1>2. log' \in Seq(Events) /\ IsInjective(log')
  BY <1>1, AppendIsLog DEF Store
<1>3. /\ projection' = Applied(projection, e) /\ script' = script
      /\ IsProjection(projection) /\ Mastered(projection) /\ RepeatsTold(projection)
  BY DEF Store, TablesInv
<1>4. IsProjection(projection') /\ Mastered(projection') /\ RepeatsTold(projection')
  BY <1>3, ProjectionStays, MasteredStays, RepeatsToldStays
<1>. QED  BY <1>2, <1>3, <1>4 DEF TablesInv

LEMMA StartKeepsTables ==
  ASSUME TablesInv, NEW s \in Students, StartScript(s)
  PROVE  TablesInv'
<1>1. EventsFor(s) \in Seq(Events)
  BY EventsForIs DEF TablesInv
<1>. DEFINE E == EventsFor(s)
<1>2. script' = [student |-> s, events |-> E, cleared |-> FALSE] /\ E \in Seq(Events)
  BY <1>1 DEF StartScript
<1>. HIDE DEF E
<1>3. script' \in Scripts /\ ~script'.cleared
  BY <1>2 DEF Scripts
<1>4. UNCHANGED <<log, projection>>
  BY DEF StartScript
<1>. QED  BY <1>3, <1>4 DEF TablesInv

LEMMA ClearKeepsTables ==
  ASSUME TablesInv, ClearProjections
  PROVE  TablesInv'
<1>1. /\ script' = [script EXCEPT !.cleared = TRUE] /\ script.student # None
      /\ projection' = Cleared(projection, script.student) /\ log' = log
  BY DEF ClearProjections
<1>2. script' \in Scripts /\ script'.student # None
  BY <1>1 DEF TablesInv, Scripts
<1>3. IsProjection(projection) /\ Mastered(projection) /\ RepeatsTold(projection)
  BY DEF TablesInv
<1>4. IsProjection(projection') /\ Mastered(projection') /\ RepeatsTold(projection')
  BY <1>1, <1>3, ClearedStays, MasteredClears, RepeatsToldClears
<1>. QED  BY <1>1, <1>2, <1>4 DEF TablesInv

LEMMA ReplayKeepsTables ==
  ASSUME TablesInv, ReplayEvent
  PROVE  TablesInv'
<1>. DEFINE e == Head(script.events)
<1>1. script.events \in Seq(Events) /\ script.events # <<>>
  BY DEF TablesInv, Scripts, ReplayEvent
<1>2. e \in Events /\ Tail(script.events) \in Seq(Events)
  BY <1>1
<1>3. /\ script' = [script EXCEPT !.events = Tail(script.events)] /\ log' = log
      /\ projection' = projection \/ projection' = Applied(projection, e)
  BY DEF ReplayEvent
<1>. HIDE DEF e
<1>4. /\ script' \in Scripts /\ script'.student = script.student
      /\ script'.cleared = script.cleared
  BY <1>2, <1>3 DEF TablesInv, Scripts
<1>5. IsProjection(projection) /\ Mastered(projection) /\ RepeatsTold(projection)
  BY DEF TablesInv
<1>6. IsProjection(projection') /\ Mastered(projection') /\ RepeatsTold(projection')
  BY <1>2, <1>3, <1>5, ProjectionStays, MasteredStays, RepeatsToldStays
<1>. QED  BY <1>3, <1>4, <1>6 DEF TablesInv

LEMMA NoScriptIsScript ==
  NoScript \in Scripts /\ NoScript.student = None /\ ~NoScript.cleared
BY DEF NoScript, Scripts

\* Mastery, conflicts and the script's events keep their shape, whatever the
\* order of batches, scripts and their deaths.
THEOREM TablesInvariant ==
  LearnerSpec => []TablesInv
<1>1. EpisodesInit => TablesInv
  <2>. SUFFICES ASSUME EpisodesInit PROVE TablesInv
    OBVIOUS
  <2>1. log = <<>> /\ projection = NoProjection /\ script = NoScript
    BY DEF EpisodesInit, ProjectionInit
  <2>2. log \in Seq(Events) /\ IsInjective(log)
    BY <2>1 DEF IsInjective
  <2>. QED  BY <2>1, <2>2, NothingIsProjection, NothingIsMastered, NothingIsTold,
              NoScriptIsScript DEF TablesInv
<1>2. TablesInv /\ [LearnerNext]_learnerVars => TablesInv'
  <2>. SUFFICES ASSUME TablesInv, [LearnerNext]_learnerVars PROVE TablesInv'
    OBVIOUS
  <2>1. CASE \E e \in Events : SubmitAnswer(e)
    BY <2>1, StoreKeepsTables DEF SubmitAnswer
  <2>2. CASE \E e \in Events : Present(e)
    BY <2>2, StoreKeepsTables DEF Present
  <2>3. CASE \E e \in Events : Observe(e)
    BY <2>3, StoreKeepsTables DEF Observe
  <2>4. CASE \E s \in Students : StartScript(s)
    BY <2>4, StartKeepsTables
  <2>5. CASE ClearProjections
    BY <2>5, ClearKeepsTables
  <2>6. CASE ReplayEvent
    BY <2>6, ReplayKeepsTables
  <2>7. CASE EndScript \/ ScriptDies
    BY <2>7, NoScriptIsScript DEF EndScript, ScriptDies, TablesInv
  <2>8. CASE UNCHANGED learnerVars
    BY <2>8 DEF TablesInv, learnerVars
  <2>. QED  BY <2>1, <2>2, <2>3, <2>4, <2>5, <2>6, <2>7, <2>8
           DEF LearnerNext, Rebuild, ScriptNext
<1>. QED  BY <1>1, <1>2, PTL DEF LearnerSpec

\* A learner's mastery is the weight of the scored answers and nothing else:
\* through duplicates, repeats, replays of the log and scripts that die.
THEOREM MasteryIsEvidenceAlways ==
  LearnerSpec => []MasteryIsEvidence
<1>1. TablesInv => MasteryIsEvidence
  BY DEF TablesInv, Mastered, MasteryIsEvidence
<1>. QED  BY <1>1, TablesInvariant, PTL

--------------------------------------------------------------------------------
(* What an event changes for one learner.                                  *)

\* The rows of a learner agree, in two sets of tables.
SameRows(p, q, s) ==
    /\ \A t \in Sessions : p.sessions[t].owner = s \/ q.sessions[t].owner = s
                              => p.sessions[t] = q.sessions[t]
    /\ AttemptsOf(p, s) = AttemptsOf(q, s)
    /\ \A k \in Skills : p.skills[<<s, k>>] = q.skills[<<s, k>>]
    /\ \A e \in Events : Event[e].student = s => (e \in p.evidence <=> e \in q.evidence)
    /\ \A c : Event[c[1]].student = s => (c \in p.conflicts <=> c \in q.conflicts)

\* Evidence and conflicts name events.
NamesEvents(p) == p.evidence \subseteq Events /\ \A c \in p.conflicts : c[1] \in Events

LEMMA SameRowsIsSymmetric ==
  ASSUME NEW p, NEW q, NEW s, SameRows(p, q, s)
  PROVE  SameRows(q, p, s)
BY DEF SameRows

LEMMA SameRowsIsTransitive ==
  ASSUME NEW p, NEW q, NEW r, NEW s, SameRows(p, q, s), SameRows(q, r, s)
  PROVE  SameRows(p, r, s)
BY DEF SameRows

LEMMA NamesEventsStays ==
  ASSUME NEW p, IsProjection(p), NamesEvents(p), NEW e \in Events
  PROVE  NamesEvents(Applied(p, e))
<1>. DEFINE q == Applied(p, e)
<1>1. IsApplied(p, e, q)
  BY AppliedIs
<1>. HIDE DEF q
<1>2. \A c \in ConflictsOf(p, e) : c[1] = e
  BY DEF ConflictsOf
<1>3. q.evidence \subseteq p.evidence \cup {e} /\ q.conflicts = p.conflicts \cup ConflictsOf(p, e)
  BY <1>1 DEF IsApplied
<1>4. NamesEvents(q)
  BY <1>2, <1>3 DEF NamesEvents
<1>. QED  BY <1>4 DEF q

LEMMA SameRowsIs ==
  ASSUME NEW p, NamesEvents(p), NEW q, NamesEvents(q), NEW s, SameRows(p, q, s)
  PROVE  RowsOf(p, s) = RowsOf(q, s)
<1>1. {<<t, p.sessions[t].state>> : t \in {u \in Sessions : p.sessions[u].owner = s}}
      = {<<t, q.sessions[t].state>> : t \in {u \in Sessions : q.sessions[u].owner = s}}
  BY DEF SameRows
<1>2. AttemptsOf(p, s) = AttemptsOf(q, s)
  BY DEF SameRows
<1>3. [k \in Skills |-> p.skills[<<s, k>>]] = [k \in Skills |-> q.skills[<<s, k>>]]
  BY DEF SameRows
<1>4. {e \in p.evidence : Event[e].student = s} = {e \in q.evidence : Event[e].student = s}
  BY DEF SameRows, NamesEvents
<1>5. {c \in p.conflicts : Event[c[1]].student = s} = {c \in q.conflicts : Event[c[1]].student = s}
  BY DEF SameRows
<1>. QED  BY <1>1, <1>2, <1>3, <1>4, <1>5 DEF RowsOf

\* Where an event's session may be, for the learner it belongs to.
LEMMA SessionsAre ==
  ASSUME NEW p, IsProjection(p), NEW t \in Sessions
  PROVE  /\ p.sessions[t].owner = None => p.sessions[t] = NoSession
         /\ p.sessions[t] = NoSession => p.sessions[t].owner = None
         /\ p.sessions[t].owner \in Students \cup {None}
BY NoneIsNothing DEF IsProjection, NoSession

LEMMA OthersStay ==
  ASSUME NEW p, IsProjection(p), NEW e \in Events, OwnsSession(p, e),
         NEW s \in Students, Event[e].student # s
  PROVE  SameRows(Applied(p, e), p, s)
<1>. DEFINE q == Applied(p, e)
            row == AttemptRow(p, e)
            t == Event[e].session
<1>1. IsApplied(p, e, q)
  BY AppliedIs
<1>. HIDE DEF q
<1>2. t \in Sessions /\ s # None
  BY EventFacts, NoneIsNothing
<1>3. \A c \in ConflictsOf(p, e) : c[1] = e
  BY DEF ConflictsOf
<1>4. row.student = Event[e].student
  BY DEF AttemptRow
<1>. HIDE DEF row
<1>5. \A u \in Sessions : q.sessions[u].owner = s \/ p.sessions[u].owner = s
                             => q.sessions[u] = p.sessions[u]
  <2>1. p.sessions[t].owner # s
    BY <1>2 DEF OwnsSession
  <2>2. SessionAfter(p, e).owner # s
    BY <2>1 DEF SessionAfter
  <2>3. q.sessions = [p.sessions EXCEPT ![t] = SessionAfter(p, e)] /\ DOMAIN p.sessions = Sessions
    BY <1>1 DEF IsApplied, IsProjection
  <2>. QED  BY <1>2, <2>1, <2>2, <2>3
<1>6. AttemptsOf(q, s) = AttemptsOf(p, s)
  <2>1. q.attempts = p.attempts \/ q.attempts = p.attempts \cup {row}
    BY <1>1 DEF IsApplied, row
  <2>. QED  BY <1>4, <2>1 DEF AttemptsOf
<1>7. \A k \in Skills : q.skills[<<s, k>>] = p.skills[<<s, k>>]
  <2>. DEFINE key == <<row.student, Skill[row.item]>>
  <2>1. \A k : key # <<s, k>>
    BY <1>4
  <2>2. DOMAIN p.skills = Students \X Skills
    BY DEF IsProjection
  <2>3. \/ q.skills = p.skills
        \/ q.skills = [p.skills EXCEPT ![key] = RecordAttempt(@, row.correct, row.weight)]
    BY <1>1 DEF IsApplied, row
  <2>. HIDE DEF key
  <2>. QED  BY <2>1, <2>2, <2>3
<1>8. \A f \in Events : Event[f].student = s => (f \in q.evidence <=> f \in p.evidence)
  <2>1. q.evidence = p.evidence \/ q.evidence = p.evidence \cup {e}
    BY <1>1 DEF IsApplied
  <2>. QED  BY <2>1
<1>9. \A c : Event[c[1]].student = s => (c \in q.conflicts <=> c \in p.conflicts)
  BY <1>1, <1>3 DEF IsApplied
<1>10. SameRows(q, p, s)
  BY <1>5, <1>6, <1>7, <1>8, <1>9 DEF SameRows
<1>. QED  BY <1>10 DEF q

LEMMA LocalFacts ==
  ASSUME NEW p, IsProjection(p), NEW q, IsProjection(q), NEW e \in Events,
         OwnsSession(p, e), OwnsSession(q, e), SameRows(p, q, Event[e].student)
  PROVE  /\ p.sessions[Event[e].session] = q.sessions[Event[e].session]
         /\ IsValid(p, e) <=> IsValid(q, e)
         /\ IsRepeat(p, e) <=> IsRepeat(q, e)
         /\ SessionAfter(p, e) = SessionAfter(q, e)
         /\ AttemptRow(p, e) = AttemptRow(q, e)
         /\ ConflictsOf(p, e) = ConflictsOf(q, e)
<1>. DEFINE t == Event[e].session
            s == Event[e].student
<1>1. t \in Sessions
  BY EventFacts
<1>2. p.sessions[t] = q.sessions[t]
  <2>1. /\ p.sessions[t].owner = None => p.sessions[t] = NoSession
        /\ q.sessions[t].owner = None => q.sessions[t] = NoSession
    BY <1>1, SessionsAre
  <2>. QED  BY <1>1, <2>1 DEF OwnsSession, SameRows
<1>3. AttemptsOf(p, s) = AttemptsOf(q, s)
  BY DEF SameRows
<1>4. HasAttempt(p, e) <=> HasAttempt(q, e)
  <2>1. HasAttempt(p, e) <=> \E a \in AttemptsOf(p, s) : a.event = e
    BY DEF HasAttempt, AttemptsOf, IsProjection, IsRow
  <2>2. HasAttempt(q, e) <=> \E a \in AttemptsOf(q, s) : a.event = e
    BY DEF HasAttempt, AttemptsOf, IsProjection, IsRow
  <2>. QED  BY <1>3, <2>1, <2>2
<1>5. PriorSameAttempt(p, e) = PriorSameAttempt(q, e) /\ PriorSameItem(p, e) = PriorSameItem(q, e)
  BY <1>3 DEF PriorSameAttempt, PriorSameItem
<1>6. /\ IsValid(p, e) <=> IsValid(q, e)
      /\ IsRepeat(p, e) <=> IsRepeat(q, e)
  BY <1>4, <1>5 DEF IsValid, IsRepeat
<1>7. SessionAfter(p, e) = SessionAfter(q, e)
  BY <1>2, <1>6 DEF SessionAfter
<1>8. AttemptRow(p, e) = AttemptRow(q, e)
  BY <1>5 DEF AttemptRow, StoredDup
<1>9. ConflictsOf(p, e) = ConflictsOf(q, e)
  BY <1>2, <1>5, <1>6 DEF ConflictsOf, ParallelTypes, LateTypes, IsLate
<1>. QED  BY <1>2, <1>6, <1>7, <1>8, <1>9

\* Applying an event reads and writes the rows of its learner only.
LEMMA OwnRowsAgree ==
  ASSUME NEW p, IsProjection(p), NEW q, IsProjection(q), NEW e \in Events,
         OwnsSession(p, e), OwnsSession(q, e), SameRows(p, q, Event[e].student)
  PROVE  SameRows(Applied(p, e), Applied(q, e), Event[e].student)
<1>. DEFINE t == Event[e].session
            s == Event[e].student
            np == Applied(p, e)
            nq == Applied(q, e)
            row == AttemptRow(p, e)
            key == <<row.student, Skill[row.item]>>
<1>1. IsApplied(p, e, np) /\ IsApplied(q, e, nq)
  BY AppliedIs
<1>. HIDE DEF np, nq
<1>2. /\ IsValid(p, e) <=> IsValid(q, e)
      /\ IsRepeat(p, e) <=> IsRepeat(q, e)
      /\ SessionAfter(p, e) = SessionAfter(q, e)
      /\ row = AttemptRow(q, e)
      /\ ConflictsOf(p, e) = ConflictsOf(q, e)
  BY LocalFacts
<1>3. t \in Sessions
  BY EventFacts
<1>. HIDE DEF row
<1>4. \A u \in Sessions : np.sessions[u].owner = s \/ nq.sessions[u].owner = s
                             => np.sessions[u] = nq.sessions[u]
  <2>1. /\ np.sessions = [p.sessions EXCEPT ![t] = SessionAfter(p, e)]
        /\ nq.sessions = [q.sessions EXCEPT ![t] = SessionAfter(q, e)]
        /\ DOMAIN p.sessions = Sessions /\ DOMAIN q.sessions = Sessions
    BY <1>1 DEF IsApplied, IsProjection
  <2>. QED  BY <1>2, <1>3, <2>1 DEF SameRows
<1>5. AttemptsOf(np, s) = AttemptsOf(nq, s)
  <2>1. AttemptsOf(p, s) = AttemptsOf(q, s)
    BY DEF SameRows
  <2>2. \/ np.attempts = p.attempts \cup {row} /\ nq.attempts = q.attempts \cup {row}
        \/ np.attempts = p.attempts /\ nq.attempts = q.attempts
    BY <1>1, <1>2 DEF IsApplied, row
  <2>. QED  BY <2>1, <2>2 DEF AttemptsOf
<1>6. \A k \in Skills : np.skills[<<s, k>>] = nq.skills[<<s, k>>]
  <2>1. /\ DOMAIN p.skills = Students \X Skills /\ DOMAIN q.skills = Students \X Skills
        /\ s \in Students
        /\ \A k \in Skills : p.skills[<<s, k>>] = q.skills[<<s, k>>]
    BY EventFacts DEF IsProjection, SameRows
  <2>2. \/ np.skills = p.skills /\ nq.skills = q.skills
        \/ /\ np.skills = [p.skills EXCEPT ![key] = RecordAttempt(@, row.correct, row.weight)]
           /\ nq.skills = [q.skills EXCEPT ![key] = RecordAttempt(@, row.correct, row.weight)]
    BY <1>1, <1>2 DEF IsApplied, row
  <2>. HIDE DEF key
  <2>. QED  BY <2>1, <2>2
<1>7. \A f \in Events : Event[f].student = s => (f \in np.evidence <=> f \in nq.evidence)
  <2>1. \/ np.evidence = p.evidence \cup {e} /\ nq.evidence = q.evidence \cup {e}
        \/ np.evidence = p.evidence /\ nq.evidence = q.evidence
    BY <1>1, <1>2 DEF IsApplied
  <2>. QED  BY <2>1 DEF SameRows
<1>8. \A c : Event[c[1]].student = s => (c \in np.conflicts <=> c \in nq.conflicts)
  BY <1>1, <1>2 DEF IsApplied, SameRows
<1>9. SameRows(np, nq, s)
  BY <1>4, <1>5, <1>6, <1>7, <1>8 DEF SameRows
<1>. QED  BY <1>9 DEF np, nq

LEMMA ClearedRows ==
  ASSUME NEW p, IsProjection(p), NEW s \in Students, NEW u \in Students
  PROVE  /\ u = s => SameRows(Cleared(p, s), NoProjection, u)
         /\ u # s => SameRows(Cleared(p, s), p, u)
         /\ NamesEvents(p) => NamesEvents(Cleared(p, s))
<1>. DEFINE q == Cleared(p, s)
<1>1. IsCleared(p, s, q)
  BY ClearedFields
<1>. HIDE DEF q
<1>2. /\ NoSession.owner # u
      /\ \A t \in Sessions : NoProjection.sessions[t] = NoSession
      /\ NoProjection.attempts = {} /\ NoProjection.evidence = {} /\ NoProjection.conflicts = {}
      /\ \A k \in Skills : NoProjection.skills[<<u, k>>] = NoSkillState
  BY NoneIsNothing DEF NoProjection, NoSession
<1>3. u = s => SameRows(q, NoProjection, u)
  <2>. SUFFICES ASSUME u = s PROVE SameRows(q, NoProjection, u)
    OBVIOUS
  <2>1. \A t \in Sessions : q.sessions[t].owner # u
    BY <1>1, <1>2 DEF IsCleared
  <2>2. AttemptsOf(q, u) = {} /\ AttemptsOf(NoProjection, u) = {}
    BY <1>1, <1>2 DEF IsCleared, AttemptsOf
  <2>3. \A k \in Skills : q.skills[<<u, k>>] = NoSkillState
    BY <1>1 DEF IsCleared
  <2>. QED  BY <1>1, <1>2, <2>1, <2>2, <2>3 DEF SameRows, IsCleared
<1>4. u # s => SameRows(q, p, u)
  <2>. SUFFICES ASSUME u # s PROVE SameRows(q, p, u)
    OBVIOUS
  <2>1. \A t \in Sessions : q.sessions[t].owner = u \/ p.sessions[t].owner = u
                               => q.sessions[t] = p.sessions[t]
    BY <1>1, <1>2 DEF IsCleared
  <2>2. AttemptsOf(q, u) = AttemptsOf(p, u)
    BY <1>1 DEF IsCleared, AttemptsOf
  <2>3. \A k \in Skills : q.skills[<<u, k>>] = p.skills[<<u, k>>]
    BY <1>1 DEF IsCleared
  <2>. QED  BY <1>1, <2>1, <2>2, <2>3 DEF SameRows, IsCleared
<1>5. NamesEvents(p) => NamesEvents(q)
  BY <1>1 DEF NamesEvents, IsCleared
<1>. QED  BY <1>3, <1>4, <1>5 DEF q

--------------------------------------------------------------------------------
(* Rebuilding.  A rebuild replays a learner's events by the clocks of      *)
(* their devices, and takes no lock: it gives what the batches gave when   *)
(* a learner's events arrive in the order of the clocks and none that      *)
(* concerns her arrives meanwhile.  Events of another learner in one of    *)
(* her sessions are among these: the row that refuses them may have been   *)
(* cleared (OwnsSession).  All others go on arriving.                      *)

\* The events of a learner arrived in the order of their clocks.
InArrivalOrder ==
    \A i, j \in DOMAIN log :
        i < j /\ Event[log[i]].student = Event[log[j]].student
            => Event[log[i]].occurred_at <= Event[log[j]].occurred_at

TheirsIn(L, s) == {i \in DOMAIN L : Event[L[i]].student = s}

\* The events are those that L has of the learner after position j, in its order.
IsRest(L, E, j, s) ==
    \E pos : /\ pos \in [DOMAIN E -> TheirsIn(L, s)]
             /\ \A k \in DOMAIN E : E[k] = L[pos[k]] /\ pos[k] > j
             /\ \A k, l \in DOMAIN E : k < l => pos[k] < pos[l]
             /\ \A i \in TheirsIn(L, s) : i > j => \E k \in DOMAIN E : pos[k] = i

LEMMA EventsForIsRest ==
  ASSUME log \in Seq(Events), InArrivalOrder, NEW s
  PROVE  IsRest(log, EventsFor(s), 0, s)
<1>. DEFINE E == EventsFor(s)
<1>1. E \in Seq(Events) /\ IsReplayOf(E, s)
  BY EventsForIs
<1>. HIDE DEF E
<1>2. PICK pos : /\ pos \in [DOMAIN E -> Theirs(s)]
                 /\ \A k \in DOMAIN E : E[k] = log[pos[k]]
                 /\ \A k, l \in DOMAIN E : k < l => ReplayedBefore(pos[k], pos[l])
                 /\ \A i \in Theirs(s) : \E k \in DOMAIN E : pos[k] = i
  BY <1>1 DEF IsReplayOf
<1>3. Theirs(s) = TheirsIn(log, s)
  BY DEF Theirs, TheirsIn
<1>4. \A i \in Theirs(s) : i \in DOMAIN log /\ i \in Nat /\ i > 0
  BY DEF Theirs
<1>5. \A i, j \in Theirs(s) : ReplayedBefore(i, j) => i < j
  <2>1. \A i, j \in Theirs(s) : i \in Nat /\ j \in Nat /\ (i < j => ReplayedBefore(i, j))
    <3>1. \A i \in Theirs(s) : /\ i \in DOMAIN log /\ Event[log[i]].student = s
                                /\ i \in Nat /\ Event[log[i]].occurred_at \in Nat
      BY ProjectionConstants DEF EventRecord, Theirs
    <3>. QED  BY <3>1 DEF InArrivalOrder, ReplayedBefore
  <2>2. \A i, j \in DOMAIN log : ~ReplayedBefore(i, i)
                                 /\ (ReplayedBefore(i, j) => ~ReplayedBefore(j, i))
    BY ReplayIsOrdered
  <2>. QED  BY <1>4, <2>1, <2>2
<1>6. \A k \in DOMAIN E : pos[k] \in Theirs(s) /\ pos[k] > 0
  BY <1>2, <1>4
<1>7. \A k, l \in DOMAIN E : k < l => pos[k] < pos[l]
  BY <1>2, <1>4, <1>5, <1>6
<1>8. IsRest(log, E, 0, s)
  BY <1>2, <1>3, <1>6, <1>7 DEF IsRest
<1>. QED  BY <1>8 DEF E

LEMMA RestStays ==
  ASSUME NEW L \in Seq(Events), NEW E, NEW j, NEW s, IsRest(L, E, j, s),
         NEW e \in Events, Event[e].student # s
  PROVE  IsRest(Append(L, e), E, j, s)
<1>. DEFINE M == Append(L, e)
<1>1. /\ DOMAIN L = 1..Len(L) /\ DOMAIN M = 1..(Len(L) + 1) /\ Len(L) \in Nat
      /\ M[Len(L) + 1] = e
      /\ \A i \in DOMAIN L : M[i] = L[i]
  OBVIOUS
<1>. HIDE DEF M
<1>2. \A i \in DOMAIN M : i \in DOMAIN L \/ i = Len(L) + 1
  BY <1>1
<1>3. \A i \in DOMAIN L : i \in DOMAIN M
  BY <1>1
<1>4. TheirsIn(M, s) = TheirsIn(L, s)
  BY <1>1, <1>2, <1>3 DEF TheirsIn
<1>5. PICK pos : /\ pos \in [DOMAIN E -> TheirsIn(L, s)]
                 /\ \A k \in DOMAIN E : E[k] = L[pos[k]] /\ pos[k] > j
                 /\ \A k, l \in DOMAIN E : k < l => pos[k] < pos[l]
                 /\ \A i \in TheirsIn(L, s) : i > j => \E k \in DOMAIN E : pos[k] = i
  BY DEF IsRest
<1>6. \A k \in DOMAIN E : pos[k] \in DOMAIN L
  BY <1>5 DEF TheirsIn
<1>7. \A k \in DOMAIN E : E[k] = M[pos[k]] /\ pos[k] > j
  BY <1>1, <1>5, <1>6
<1>8. pos \in [DOMAIN E -> TheirsIn(M, s)]
  BY <1>4, <1>5
<1>9. \A k, l \in DOMAIN E : k < l => pos[k] < pos[l]
  BY <1>5
<1>10. \A i \in TheirsIn(M, s) : i > j => \E k \in DOMAIN E : pos[k] = i
  BY <1>4, <1>5
<1>11. IsRest(M, E, j, s)
  BY <1>7, <1>8, <1>9, <1>10, Zenon DEF IsRest
<1>. QED  BY <1>11 DEF M

LEMMA RestShrinks ==
  ASSUME NEW L \in Seq(Events), NEW E \in Seq(Events), E # <<>>, NEW j \in Nat, NEW s,
         IsRest(L, E, j, s)
  PROVE  \E m \in DOMAIN L :
            /\ m > j /\ Head(E) = L[m] /\ Event[L[m]].student = s
            /\ \A i \in DOMAIN L : j < i /\ i < m => Event[L[i]].student # s
            /\ IsRest(L, Tail(E), m, s)
<1>1. PICK pos : /\ pos \in [DOMAIN E -> TheirsIn(L, s)]
                 /\ \A k \in DOMAIN E : E[k] = L[pos[k]] /\ pos[k] > j
                 /\ \A k, l \in DOMAIN E : k < l => pos[k] < pos[l]
                 /\ \A i \in TheirsIn(L, s) : i > j => \E k \in DOMAIN E : pos[k] = i
  BY DEF IsRest
<1>. DEFINE n == Len(E)
            T == Tail(E)
            new == [k \in 1..(n - 1) |-> pos[k + 1]]
            m == pos[1]
<1>2. /\ n \in Nat /\ n >= 1 /\ DOMAIN E = 1..n /\ Head(E) = E[1]
      /\ DOMAIN T = 1..(n - 1) /\ \A k \in 1..(n - 1) : T[k] = E[k + 1]
  BY DEF T
<1>. HIDE DEF n, T
<1>3. TheirsIn(L, s) \subseteq Nat /\ TheirsIn(L, s) \subseteq DOMAIN L
  BY DEF TheirsIn
<1>4. \A k \in 1..(n - 1) : k + 1 \in 1..n /\ k + 1 > 1
  BY <1>2
<1>5. 1 \in DOMAIN E
  BY <1>2
<1>6. m \in TheirsIn(L, s) /\ m \in Nat /\ m \in DOMAIN L /\ m > j /\ Head(E) = L[m]
  BY <1>1, <1>2, <1>3, <1>5
<1>7. Event[L[m]].student = s
  BY <1>6 DEF TheirsIn
<1>8. \A k \in DOMAIN E : k = 1 \/ (k > 1 /\ k - 1 \in 1..(n - 1) /\ (k - 1) + 1 = k)
  BY <1>2
<1>9. \A k \in DOMAIN E : m <= pos[k] /\ pos[k] \in Nat
  <2>1. \A k \in DOMAIN E : pos[k] \in Nat
    BY <1>1, <1>3
  <2>. QED  BY <1>1, <1>5, <1>6, <1>8, <2>1
<1>10. \A i \in DOMAIN L : j < i /\ i < m => Event[L[i]].student # s
  <2>. SUFFICES ASSUME NEW i \in DOMAIN L, j < i, i < m, Event[L[i]].student = s
                PROVE  FALSE
    OBVIOUS
  <2>1. i \in TheirsIn(L, s) /\ i \in Nat /\ i > j
    BY DEF TheirsIn
  <2>2. PICK k \in DOMAIN E : pos[k] = i
    BY <1>1, <2>1
  <2>. QED  BY <1>6, <1>9, <2>1, <2>2
<1>. HIDE DEF m
<1>11. new \in [DOMAIN T -> TheirsIn(L, s)]
  <2>1. \A k \in 1..(n - 1) : pos[k + 1] \in TheirsIn(L, s)
    BY <1>1, <1>2, <1>4
  <2>. QED  BY <1>2, <2>1
<1>12. \A k \in DOMAIN T : new[k] = pos[k + 1]
  BY <1>2
<1>. HIDE DEF new
<1>13. \A k \in DOMAIN T : T[k] = L[new[k]] /\ new[k] > m
  <2>. SUFFICES ASSUME NEW k \in DOMAIN T PROVE T[k] = L[new[k]] /\ new[k] > m
    OBVIOUS
  <2>1. k + 1 \in DOMAIN E /\ 1 < k + 1 /\ T[k] = E[k + 1]
    BY <1>2, <1>4
  <2>2. E[k + 1] = L[pos[k + 1]] /\ pos[1] < pos[k + 1]
    BY <1>1, <1>5, <2>1
  <2>. QED  BY <1>12, <2>1, <2>2 DEF m
<1>14. \A k, l \in DOMAIN T : k < l => new[k] < new[l]
  <2>. SUFFICES ASSUME NEW k \in DOMAIN T, NEW l \in DOMAIN T, k < l PROVE new[k] < new[l]
    OBVIOUS
  <2>1. k + 1 \in DOMAIN E /\ l + 1 \in DOMAIN E /\ k + 1 < l + 1
    BY <1>2
  <2>. QED  BY <1>1, <1>12, <2>1
<1>15. \A i \in TheirsIn(L, s) : i > m => \E k \in DOMAIN T : new[k] = i
  <2>. SUFFICES ASSUME NEW i \in TheirsIn(L, s), i > m PROVE \E k \in DOMAIN T : new[k] = i
    OBVIOUS
  <2>1. i \in Nat /\ i > j
    BY <1>3, <1>6
  <2>2. PICK k \in DOMAIN E : pos[k] = i
    BY <1>1, <2>1
  <2>3. k # 1
    BY <1>6, <2>1, <2>2 DEF m
  <2>4. k - 1 \in DOMAIN T /\ (k - 1) + 1 = k
    BY <1>2, <1>8, <2>3
  <2>5. new[k - 1] = i
    BY <1>12, <2>2, <2>4
  <2>. QED  BY <2>4, <2>5
<1>16. IsRest(L, T, m, s)
  BY <1>11, <1>13, <1>14, <1>15, Zenon DEF IsRest
<1>. QED  BY <1>6, <1>7, <1>10, <1>16 DEF T, m

\* Each prefix of the log replays to tables, and no event of it is refused there.
IsHistory(L) ==
    /\ \A i \in 0..Len(L) : IsProjection(After(L, i)) /\ NamesEvents(After(L, i))
    /\ \A i \in 1..Len(L) : OwnsSession(After(L, i - 1), L[i]) /\ ~IsUnscorable(L[i])

LEMMA HistoryGrows ==
  ASSUME NEW L \in Seq(Events), IsHistory(L), NEW e \in Events,
         OwnsSession(Replayed(L), e), ~IsUnscorable(e)
  PROVE  IsHistory(Append(L, e))
<1>. DEFINE M == Append(L, e)
            n == Len(L)
<1>1. /\ n \in Nat /\ Len(M) = n + 1 /\ M[n + 1] = e
      /\ \A i \in 1..n : M[i] = L[i]
  OBVIOUS
<1>2. /\ \A i \in 0..n : After(M, i) = After(L, i)
      /\ After(M, n + 1) = Applied(After(L, n), e)
      /\ After(L, n) = Replayed(L)
  BY AfterSteps
<1>. HIDE DEF M, n
<1>3. n \in 0..n /\ \A i \in 0..(n + 1) : i \in 0..n \/ i = n + 1
  BY <1>1
<1>4. /\ \A i \in 0..n : IsProjection(After(L, i)) /\ NamesEvents(After(L, i))
      /\ \A i \in 1..n : OwnsSession(After(L, i - 1), L[i]) /\ ~IsUnscorable(L[i])
  BY DEF IsHistory, n
<1>5. IsProjection(After(M, n + 1)) /\ NamesEvents(After(M, n + 1))
  BY <1>2, <1>3, <1>4, ProjectionStays, NamesEventsStays
<1>6. \A i \in 0..(n + 1) : IsProjection(After(M, i)) /\ NamesEvents(After(M, i))
  BY <1>2, <1>3, <1>4, <1>5
<1>7. ASSUME NEW i \in 1..(n + 1)
      PROVE  OwnsSession(After(M, i - 1), M[i]) /\ ~IsUnscorable(M[i])
  <2>1. CASE i = n + 1
    <3>1. i - 1 = n /\ After(M, n) = Replayed(L)
      BY <1>1, <1>2, <1>3, <2>1
    <3>. QED  BY <1>1, <2>1, <3>1
  <2>2. CASE i # n + 1
    <3>1. i \in 1..n /\ i - 1 \in 0..n
      BY <1>1, <2>2
    <3>. QED  BY <1>1, <1>2, <1>4, <3>1
  <2>. QED  BY <2>1, <2>2
<1>8. IsHistory(M)
  BY <1>1, <1>6, <1>7 DEF IsHistory
<1>. QED  BY <1>8 DEF M

\* In the replay of L a session belongs to a learner of whom L has an event in it.
Names(L, t, s) == \E k \in DOMAIN L : Event[L[k]].session = t /\ Event[L[k]].student = s
SessionsAreNamed(L) ==
    \A t \in Sessions : LET s == Replayed(L).sessions[t].owner IN s # None => Names(L, t, s)

LEMMA NamesGrow ==
  ASSUME NEW L \in Seq(Events), IsProjection(Replayed(L)), SessionsAreNamed(L), NEW e \in Events
  PROVE  SessionsAreNamed(Append(L, e))
<1>. DEFINE M == Append(L, e)
            R == Replayed(L)
            Q == Replayed(M)
            t == Event[e].session
            s == Event[e].student
<1>1. /\ DOMAIN L = 1..Len(L) /\ DOMAIN M = 1..(Len(L) + 1) /\ Len(L) \in Nat
      /\ M[Len(L) + 1] = e
      /\ \A i \in DOMAIN L : M[i] = L[i]
  OBVIOUS
<1>2. Q = Applied(R, e)
  BY ReplayedAppend
<1>. HIDE DEF M, R, Q
<1>3. Q.sessions = [R.sessions EXCEPT ![t] = SessionAfter(R, e)] /\ DOMAIN R.sessions = Sessions
  BY <1>2, AppliedIs DEF IsApplied, IsProjection, R
<1>4. \A u, v : Names(L, u, v) => Names(M, u, v)
  <2>1. \A i \in DOMAIN L : i \in DOMAIN M
    BY <1>1
  <2>. QED  BY <1>1, <2>1 DEF Names
<1>5. Names(M, t, s)
  <2>1. Len(L) + 1 \in DOMAIN M
    BY <1>1
  <2>. QED  BY <1>1, <2>1 DEF Names
<1>6. SessionAfter(R, e).owner \in {s, R.sessions[t].owner}
  BY DEF SessionAfter
<1>7. ASSUME NEW u \in Sessions, Q.sessions[u].owner # None
      PROVE  Names(M, u, Q.sessions[u].owner)
  <2>1. \/ Q.sessions[u].owner = R.sessions[u].owner
        \/ u = t /\ Q.sessions[u].owner = s
    BY <1>3, <1>6
  <2>2. R.sessions[u].owner # None => Names(L, u, R.sessions[u].owner)
    BY DEF SessionsAreNamed, R
  <2>. QED  BY <1>4, <1>5, <1>7, <2>1, <2>2
<1>8. SessionsAreNamed(M)
  BY <1>7 DEF SessionsAreNamed, Q
<1>. QED  BY <1>8 DEF M

\* Events of others leave a learner's rows.
LEMMA OthersAreSkipped ==
  ASSUME NEW L \in Seq(Events), IsHistory(L), NEW s \in Students,
         NEW j \in 0..Len(L), NEW m \in 0..Len(L), j <= m,
         \A i \in DOMAIN L : j < i /\ i <= m => Event[L[i]].student # s
  PROVE  SameRows(After(L, m), After(L, j), s)
<1>. DEFINE K == {n \in Nat : j + n <= m => SameRows(After(L, j + n), After(L, j), s)}
<1>1. Len(L) \in Nat /\ DOMAIN L = 1..Len(L) /\ j \in Nat /\ m \in Nat /\ m <= Len(L)
  OBVIOUS
<1>2. 0 \in K
  <2>1. j + 0 = j
    BY <1>1
  <2>. QED  BY <2>1 DEF SameRows
<1>3. ASSUME NEW n \in Nat, n \in K PROVE n + 1 \in K
  <2>. SUFFICES ASSUME j + (n + 1) <= m PROVE SameRows(After(L, j + (n + 1)), After(L, j), s)
    OBVIOUS
  <2>. DEFINE i == j + (n + 1)
  <2>1. /\ i \in 1..Len(L) /\ i - 1 = j + n /\ i - 1 \in 0..Len(L) /\ j + n <= m
        /\ j < i /\ i <= m
    BY <1>1
  <2>2. SameRows(After(L, i - 1), After(L, j), s)
    BY <1>3, <2>1
  <2>3. L[i] \in Events /\ Event[L[i]].student # s
    BY <1>1, <2>1
  <2>4. IsProjection(After(L, i - 1)) /\ OwnsSession(After(L, i - 1), L[i])
    BY <2>1 DEF IsHistory
  <2>5. After(L, i) = Applied(After(L, i - 1), L[i])
    BY <2>1, AfterSteps
  <2>. HIDE DEF i
  <2>6. SameRows(After(L, i), After(L, i - 1), s)
    BY <2>3, <2>4, <2>5, OthersStay
  <2>7. SameRows(After(L, i), After(L, j), s)
    BY <2>2, <2>6, SameRowsIsTransitive
  <2>. QED  BY <2>7 DEF i
<1>4. m - j \in Nat /\ j + (m - j) = m
  BY <1>1
<1>5. m - j \in K
  <2>. HIDE DEF K
  <2>. QED  BY <1>2, <1>3, <1>4, NaturalsOf
<1>. QED  BY <1>4, <1>5

\* A script's rows are those of a prefix of the log, and what is left to replay is
\* the rest of it.
Rebuilds ==
    script.student # None =>
        IF script.cleared
        THEN /\ script.student \in torn
             /\ \E j \in 0..Len(log) :
                   /\ SameRows(projection, After(log, j), script.student)
                   /\ IsRest(log, script.events, j, script.student)
        ELSE IsRest(log, script.events, 0, script.student)

\* The inductive invariant of rebuilding: a learner whose rows are not torn has
\* those of the log.
RebuildInv ==
    /\ TablesInv
    /\ NamesEvents(projection)
    /\ IsHistory(log)
    /\ SessionsAreNamed(log)
    /\ \A s \in Students \ torn : SameRows(projection, After(log, Len(log)), s)
    /\ Rebuilds

LEMMA StoreKeepsRebuild ==
  ASSUME Quiesced, RebuildInv, NEW e \in Events, Store(e)
  PROVE  RebuildInv'
<1>. DEFINE R == Replayed(log)
            q == Applied(projection, e)
            s == Event[e].student
            t == Event[e].session
<1>1. /\ \A u \in Students : Concerns(e, u) => u # script.student /\ u \notin torn
      /\ script' = script /\ torn' = torn
      /\ IsApplicable(projection, e) /\ log' = Append(log, e)
      /\ projection' = q
  BY DEF Store, MayArrive, Settled
<1>2. /\ TablesInv' /\ log \in Seq(Events) /\ IsProjection(projection) /\ IsHistory(log)
      /\ NamesEvents(projection) /\ SessionsAreNamed(log) /\ script \in Scripts
  BY StoreKeepsTables DEF RebuildInv, TablesInv
<1>3. OwnsSession(projection, e) /\ ~IsUnscorable(e) /\ s \in Students /\ t \in Sessions
  BY <1>1, EventFacts DEF IsApplicable, IsForeign
<1>4. /\ After(log, Len(log)) = R /\ Len(log') = Len(log) + 1 /\ Len(log) \in Nat
      /\ After(log', Len(log')) = Applied(R, e)
      /\ \A i \in 0..Len(log) : After(log', i) = After(log, i)
      /\ IsProjection(R)
  <2>1. Len(log) \in Nat /\ Len(Append(log, e)) = Len(log) + 1 /\ Len(log) \in 0..Len(log)
    BY <1>2
  <2>2. /\ After(log, Len(log)) = R /\ After(Append(log, e), Len(log) + 1) = Applied(R, e)
        /\ \A i \in 0..Len(log) : After(Append(log, e), i) = After(log, i)
    BY <1>2, AfterSteps
  <2>. QED  BY <1>1, <1>2, <2>1, <2>2 DEF IsHistory
<1>5. \A u \in Students \ torn : SameRows(projection, R, u)
  BY <1>4 DEF RebuildInv
<1>6. SessionsAreNamed(log')
  BY <1>1, <1>2, <1>4, NamesGrow
<1>. HIDE DEF R, q
<1>7. s # script.student /\ s \notin torn
  BY <1>1, <1>3 DEF Concerns
<1>8. OwnsSession(R, e)
  <2>. DEFINE u == R.sessions[t].owner
  <2>. SUFFICES ASSUME u # None PROVE u = s
    BY DEF OwnsSession
  <2>1. u \in Students
    BY <1>3, <1>4, SessionsAre
  <2>2. PICK k \in DOMAIN log : Event[log[k]].session = t /\ Event[log[k]].student = u
    BY <1>2, <1>3 DEF SessionsAreNamed, Names, R
  <2>. HIDE DEF u
  <2>3. Concerns(e, u)
    BY <2>2 DEF Concerns, Stored
  <2>4. R.sessions[t] = projection.sessions[t]
    BY <1>1, <1>3, <1>5, <2>1, <2>3 DEF SameRows, u
  <2>. QED  BY <1>3, <2>1, <2>4, NoneIsNothing DEF OwnsSession, u
<1>9. IsHistory(log')
  BY <1>1, <1>2, <1>3, <1>8, HistoryGrows DEF R
<1>10. ASSUME NEW u \in Students, u # s
       PROVE  SameRows(q, projection, u) /\ SameRows(R, Applied(R, e), u)
  <2>1. SameRows(q, projection, u)
    BY <1>2, <1>3, <1>10, OthersStay DEF q
  <2>2. SameRows(Applied(R, e), R, u)
    BY <1>4, <1>8, <1>10, OthersStay
  <2>. QED  BY <2>1, <2>2, SameRowsIsSymmetric
<1>11. ASSUME NEW u \in Students \ torn PROVE SameRows(q, Applied(R, e), u)
  <2>1. CASE u = s
    <3>1. SameRows(projection, R, s)
      BY <1>5, <1>11, <2>1
    <3>2. SameRows(Applied(projection, e), Applied(R, e), s)
      BY <1>2, <1>3, <1>4, <1>8, <3>1, OwnRowsAgree
    <3>. QED  BY <2>1, <3>2 DEF q
  <2>2. CASE u # s
    <3>1. SameRows(q, projection, u) /\ SameRows(R, Applied(R, e), u)
      BY <1>10, <1>11, <2>2
    <3>2. SameRows(q, R, u)
      BY <1>5, <1>11, <3>1, SameRowsIsTransitive
    <3>. QED  BY <3>1, <3>2, SameRowsIsTransitive
  <2>. QED  BY <2>1, <2>2
<1>12. \A u \in Students \ torn' : SameRows(projection', After(log', Len(log')), u)
  BY <1>1, <1>4, <1>11
<1>13. NamesEvents(projection')
  BY <1>1, <1>2, NamesEventsStays DEF q
<1>14. Rebuilds'
  <2>. DEFINE u == script.student
              E == script.events
  <2>. SUFFICES ASSUME u # None
                PROVE  IF script.cleared
                       THEN /\ u \in torn
                            /\ \E j \in 0..Len(log') : /\ SameRows(projection', After(log', j), u)
                                                       /\ IsRest(log', E, j, u)
                       ELSE IsRest(log', E, 0, u)
    BY <1>1 DEF Rebuilds
  <2>1. u \in Students /\ u # s
    BY <1>2, <1>7 DEF Scripts
  <2>2. \A j : IsRest(log, E, j, u) => IsRest(log', E, j, u)
    BY <1>1, <1>2, <2>1, RestStays
  <2>3. CASE ~script.cleared
    BY <2>2, <2>3 DEF RebuildInv, Rebuilds
  <2>4. CASE script.cleared
    <3>1. u \in torn /\ \E j \in 0..Len(log) : /\ SameRows(projection, After(log, j), u)
                                               /\ IsRest(log, E, j, u)
      BY <2>4 DEF RebuildInv, Rebuilds
    <3>. HIDE DEF u, E
    <3>2. PICK j \in 0..Len(log) : SameRows(projection, After(log, j), u) /\ IsRest(log, E, j, u)
      BY <3>1
    <3>3. j \in 0..Len(log') /\ After(log', j) = After(log, j)
      BY <1>4
    <3>4. SameRows(projection', After(log', j), u)
      BY <1>1, <1>10, <2>1, <3>2, <3>3, SameRowsIsTransitive
    <3>. QED  BY <2>2, <2>4, <3>1, <3>2, <3>3, <3>4
  <2>. QED  BY <2>3, <2>4
<1>. QED  BY <1>2, <1>6, <1>9, <1>12, <1>13, <1>14 DEF RebuildInv

LEMMA StartKeepsRebuild ==
  ASSUME RebuildInv, InArrivalOrder, NEW s \in Students, StartScript(s)
  PROVE  RebuildInv'
<1>. DEFINE E == EventsFor(s)
<1>1. /\ TablesInv' /\ log' = log /\ projection' = projection /\ torn' = torn
      /\ script' = [student |-> s, events |-> E, cleared |-> FALSE]
  BY StartKeepsTables DEF RebuildInv, StartScript
<1>2. IsRest(log, E, 0, s)
  BY EventsForIsRest DEF RebuildInv, TablesInv
<1>. HIDE DEF E
<1>3. Rebuilds'
  BY <1>1, <1>2 DEF Rebuilds
<1>. QED  BY <1>1, <1>3 DEF RebuildInv

LEMMA ClearKeepsRebuild ==
  ASSUME RebuildInv, ClearProjections
  PROVE  RebuildInv'
<1>. DEFINE s == script.student
<1>1. /\ s # None /\ ~script.cleared /\ log' = log
      /\ script' = [script EXCEPT !.cleared = TRUE]
      /\ projection' = Cleared(projection, s) /\ torn' = torn \cup {s}
  BY DEF ClearProjections
<1>2. TablesInv' /\ TablesInv
  BY ClearKeepsTables DEF RebuildInv
<1>3. /\ s \in Students /\ script'.student = s /\ script'.cleared /\ script'.events = script.events
      /\ IsProjection(projection) /\ NamesEvents(projection)
      /\ log \in Seq(Events)
  BY <1>1, <1>2 DEF TablesInv, Scripts, RebuildInv
<1>4. \A u \in Students : /\ u = s => SameRows(projection', NoProjection, u)
                          /\ u # s => SameRows(projection', projection, u)
                          /\ NamesEvents(projection')
  BY <1>1, <1>3, ClearedRows
<1>5. \A u \in Students \ torn' : SameRows(projection', After(log, Len(log)), u)
  <2>. SUFFICES ASSUME NEW u \in Students \ torn' PROVE SameRows(projection', After(log, Len(log)), u)
    OBVIOUS
  <2>1. SameRows(projection', projection, u) /\ SameRows(projection, After(log, Len(log)), u)
    BY <1>1, <1>4 DEF RebuildInv
  <2>. QED  BY <2>1, SameRowsIsTransitive
<1>6. After(log, 0) = NoProjection /\ 0 \in 0..Len(log)
  BY <1>3, AfterSteps
<1>7. IsRest(log, script.events, 0, s)
  BY <1>1, <1>3 DEF RebuildInv, Rebuilds
<1>8. SameRows(projection', After(log, 0), s)
  BY <1>3, <1>4, <1>6
<1>. HIDE DEF s
<1>9. Rebuilds'
  BY <1>1, <1>3, <1>6, <1>7, <1>8 DEF Rebuilds
<1>10. NamesEvents(projection')
  BY <1>3, <1>4
<1>. QED  BY <1>1, <1>2, <1>5, <1>9, <1>10 DEF RebuildInv

LEMMA ReplayKeepsRebuild ==
  ASSUME RebuildInv, ReplayEvent
  PROVE  RebuildInv'
<1>. DEFINE s == script.student
            E == script.events
            e == Head(E)
<1>1. /\ TablesInv' /\ TablesInv
      /\ script.cleared /\ E # <<>> /\ log' = log /\ torn' = torn
      /\ script' = [script EXCEPT !.events = Tail(E)]
      /\ IF IsUnscorable(e) THEN UNCHANGED projection
         ELSE IsApplicable(projection, e) /\ projection' = Applied(projection, e)
  BY ReplayKeepsTables DEF RebuildInv, ReplayEvent
<1>2. /\ s # None /\ s \in Students /\ E \in Seq(Events) /\ log \in Seq(Events)
      /\ script'.student = s /\ script'.cleared /\ script'.events = Tail(E)
      /\ IsProjection(projection) /\ NamesEvents(projection) /\ IsHistory(log)
  BY <1>1 DEF TablesInv, Scripts, RebuildInv
<1>3. s \in torn /\ \E j \in 0..Len(log) : SameRows(projection, After(log, j), s) /\ IsRest(log, E, j, s)
  BY <1>1, <1>2 DEF RebuildInv, Rebuilds
<1>. HIDE DEF s, E
<1>4. PICK j \in 0..Len(log) : SameRows(projection, After(log, j), s) /\ IsRest(log, E, j, s)
  BY <1>3
<1>5. PICK m \in DOMAIN log :
         /\ m > j /\ e = log[m] /\ Event[log[m]].student = s
         /\ \A i \in DOMAIN log : j < i /\ i < m => Event[log[i]].student # s
         /\ IsRest(log, Tail(E), m, s)
  <2>1. j \in Nat
    BY <1>2
  <2>. QED  BY <1>1, <1>2, <1>4, <2>1, RestShrinks
<1>. HIDE DEF e
<1>6. /\ m \in 1..Len(log) /\ m - 1 \in 0..Len(log) /\ m \in 0..Len(log) /\ j <= m - 1
      /\ DOMAIN log = 1..Len(log) /\ e \in Events
      /\ \A i \in DOMAIN log : j < i /\ i <= m - 1 => i < m
  BY <1>2, <1>5
<1>7. /\ OwnsSession(After(log, m - 1), e) /\ ~IsUnscorable(e)
      /\ IsProjection(After(log, m - 1))
      /\ After(log, m) = Applied(After(log, m - 1), e)
  BY <1>2, <1>5, <1>6, AfterSteps DEF IsHistory
<1>8. OwnsSession(projection, e) /\ projection' = Applied(projection, e)
  BY <1>1, <1>7 DEF IsApplicable, IsForeign
<1>9. SameRows(projection, After(log, m - 1), s)
  <2>1. \A i \in DOMAIN log : j < i /\ i <= m - 1 => Event[log[i]].student # s
    BY <1>5, <1>6
  <2>2. SameRows(After(log, m - 1), After(log, j), s)
    BY <1>2, <1>6, <2>1, OthersAreSkipped
  <2>3. SameRows(After(log, j), After(log, m - 1), s)
    BY <2>2, SameRowsIsSymmetric
  <2>. QED  BY <1>4, <2>3, SameRowsIsTransitive
<1>10. SameRows(projection', After(log, m), s)
  BY <1>2, <1>5, <1>6, <1>7, <1>8, <1>9, OwnRowsAgree
<1>11. \A u \in Students \ torn' : SameRows(projection', After(log, Len(log)), u)
  <2>. SUFFICES ASSUME NEW u \in Students \ torn' PROVE SameRows(projection', After(log, Len(log)), u)
    OBVIOUS
  <2>1. SameRows(projection, After(log, Len(log)), u) /\ Event[e].student # u
    BY <1>1, <1>3, <1>5 DEF RebuildInv
  <2>2. SameRows(projection', projection, u)
    BY <1>2, <1>6, <1>8, <2>1, OthersStay
  <2>. QED  BY <2>1, <2>2, SameRowsIsTransitive
<1>12. NamesEvents(projection')
  BY <1>2, <1>6, <1>8, NamesEventsStays
<1>13. Rebuilds'
  BY <1>1, <1>2, <1>3, <1>5, <1>6, <1>10 DEF Rebuilds
<1>. QED  BY <1>1, <1>2, <1>11, <1>12, <1>13 DEF RebuildInv

LEMMA EndKeepsRebuild ==
  ASSUME RebuildInv, EndScript
  PROVE  RebuildInv'
<1>. DEFINE s == script.student
<1>1. /\ script.cleared /\ script.events = <<>> /\ script' = NoScript
      /\ torn' = torn \ {s} /\ log' = log /\ projection' = projection
  BY DEF EndScript
<1>2. /\ TablesInv /\ s # None /\ s \in Students /\ log \in Seq(Events) /\ IsHistory(log)
  BY <1>1 DEF RebuildInv, TablesInv, Scripts
<1>3. \E j \in 0..Len(log) : SameRows(projection, After(log, j), s) /\ IsRest(log, <<>>, j, s)
  BY <1>1, <1>2 DEF RebuildInv, Rebuilds
<1>. HIDE DEF s
<1>4. PICK j \in 0..Len(log) : SameRows(projection, After(log, j), s) /\ IsRest(log, <<>>, j, s)
  BY <1>3
<1>5. \A i \in DOMAIN log : j < i /\ i <= Len(log) => Event[log[i]].student # s
  <2>1. \A i \in TheirsIn(log, s) : ~(i > j)
    BY <1>4 DEF IsRest
  <2>. QED  BY <1>2, <2>1 DEF TheirsIn
<1>6. SameRows(projection, After(log, Len(log)), s)
  <2>1. Len(log) \in 0..Len(log) /\ j <= Len(log)
    BY <1>2
  <2>2. SameRows(After(log, Len(log)), After(log, j), s)
    BY <1>2, <1>5, <2>1, OthersAreSkipped
  <2>3. SameRows(After(log, j), After(log, Len(log)), s)
    BY <2>2, SameRowsIsSymmetric
  <2>. QED  BY <1>4, <2>3, SameRowsIsTransitive
<1>7. \A u \in Students \ torn' : SameRows(projection', After(log', Len(log')), u)
  BY <1>1, <1>6 DEF RebuildInv
<1>8. TablesInv' /\ Rebuilds'
  BY <1>1, <1>2, NoScriptIsScript DEF TablesInv, Rebuilds
<1>. QED  BY <1>1, <1>7, <1>8 DEF RebuildInv

\* While no event arrives that concerns a learner under rebuild, and those of a learner
\* come in the order of their clocks, what a script has made of her rows is what the
\* replay of a prefix of the log makes; events of others go on arriving.
THEOREM RebuildInvariant ==
  Quiesced => (LearnerSpec /\ []InArrivalOrder => []RebuildInv)
<1>. SUFFICES ASSUME Quiesced PROVE LearnerSpec /\ []InArrivalOrder => []RebuildInv
  OBVIOUS
<1>1. EpisodesInit /\ TablesInv => RebuildInv
  <2>. SUFFICES ASSUME EpisodesInit, TablesInv PROVE RebuildInv
    OBVIOUS
  <2>1. log = <<>> /\ projection = NoProjection /\ script = NoScript
    BY DEF EpisodesInit, ProjectionInit
  <2>2. After(<<>>, 0) = NoProjection /\ Len(<<>>) = 0
    <3>. DEFINE L == <<>>
    <3>1. L \in Seq(Events) /\ Len(L) = 0
      OBVIOUS
    <3>. HIDE DEF L
    <3>2. After(L, 0) = NoProjection
      BY <3>1, AfterSteps
    <3>. QED  BY <3>1, <3>2 DEF L
  <2>3. IsProjection(NoProjection) /\ NamesEvents(NoProjection)
    BY NothingIsProjection DEF NamesEvents, NoProjection
  <2>4. IsHistory(log)
    BY <2>1, <2>2, <2>3 DEF IsHistory
  <2>5. \A s \in Students \ torn : SameRows(projection, After(log, Len(log)), s)
    BY <2>1, <2>2 DEF SameRows
  <2>6. Rebuilds
    BY <2>1, NoScriptIsScript DEF Rebuilds
  <2>7. SessionsAreNamed(log)
    <3>1. Replayed(log) = NoProjection
      <4>1. log \in Seq(Events) /\ Len(log) = 0
        BY <2>1
      <4>. QED  BY <2>1, <2>2, <4>1, AfterSteps
    <3>. QED  BY <3>1 DEF SessionsAreNamed, NoProjection, NoSession
  <2>. QED  BY <2>1, <2>3, <2>4, <2>5, <2>6, <2>7 DEF RebuildInv
<1>2. RebuildInv /\ InArrivalOrder /\ [LearnerNext]_learnerVars => RebuildInv'
  <2>. SUFFICES ASSUME RebuildInv, InArrivalOrder, [LearnerNext]_learnerVars PROVE RebuildInv'
    OBVIOUS
  <2>1. CASE \E e \in Events : SubmitAnswer(e)
    BY <2>1, StoreKeepsRebuild DEF SubmitAnswer
  <2>2. CASE \E e \in Events : Present(e)
    BY <2>2, StoreKeepsRebuild DEF Present
  <2>3. CASE \E e \in Events : Observe(e)
    BY <2>3, StoreKeepsRebuild DEF Observe
  <2>4. CASE \E s \in Students : StartScript(s)
    BY <2>4, StartKeepsRebuild
  <2>5. CASE ClearProjections
    BY <2>5, ClearKeepsRebuild
  <2>6. CASE ReplayEvent
    BY <2>6, ReplayKeepsRebuild
  <2>7. CASE EndScript
    BY <2>7, EndKeepsRebuild
  <2>8. CASE ScriptDies
    BY <2>8, NoScriptIsScript DEF ScriptDies, RebuildInv, TablesInv, Rebuilds
  <2>9. CASE UNCHANGED learnerVars
    BY <2>9 DEF RebuildInv, TablesInv, Rebuilds, learnerVars
  <2>. QED  BY <2>1, <2>2, <2>3, <2>4, <2>5, <2>6, <2>7, <2>8, <2>9
           DEF LearnerNext, Rebuild, ScriptNext
<1>. QED  BY <1>1, <1>2, TablesInvariant, PTL DEF LearnerSpec

\* The projections of a learner on whom no script is at work, and whom none left
\* half done, are those of the log, also after scripts that died and were run again.
THEOREM ProjectionIsOfLogAlways ==
  Quiesced => (LearnerSpec /\ []InArrivalOrder => []ProjectionIsOfLog)
<1>. SUFFICES ASSUME Quiesced PROVE LearnerSpec /\ []InArrivalOrder => []ProjectionIsOfLog
  OBVIOUS
<1>1. RebuildInv => ProjectionIsOfLog
  <2>. SUFFICES ASSUME RebuildInv, NEW s \in Students, Settled(s)
                PROVE  RowsOf(projection, s) = RowsOf(Replayed(log), s)
    BY DEF ProjectionIsOfLog
  <2>1. log \in Seq(Events) /\ After(log, Len(log)) = Replayed(log) /\ Len(log) \in 0..Len(log)
    <3>1. log \in Seq(Events)
      BY DEF RebuildInv, TablesInv
    <3>2. Len(log) \in 0..Len(log)
      BY <3>1
    <3>. QED  BY <3>1, <3>2, AfterSteps
  <2>2. SameRows(projection, Replayed(log), s)
    BY <2>1 DEF RebuildInv, Settled
  <2>3. NamesEvents(projection) /\ NamesEvents(Replayed(log))
    BY <2>1 DEF RebuildInv, IsHistory
  <2>. QED  BY <2>2, <2>3, SameRowsIs
<1>. QED  BY <1>1, RebuildInvariant, PTL

--------------------------------------------------------------------------------
(* Revisions are told.                                                     *)

IsCompletion(e, session) ==
    Event[e].kind = "SESSION_COMPLETED" /\ Event[e].session = session

\* A replay of L keeps summaries completed and marks the answers after them.
IsMarked(L) ==
    LET R == Replayed(L) IN
    /\ IsProjection(R)
    /\ \A i \in DOMAIN L, t \in Sessions :
          IsCompletion(L[i], t) => R.sessions[t].state = "SESSION_COMPLETED"
    /\ \A a \in R.attempts : \E j \in DOMAIN L : L[j] = a.event
    /\ \A a \in R.attempts : a.valid => \A i, j \in DOMAIN L :
          i < j /\ L[j] = a.event /\ IsCompletion(L[i], a.session)
             => <<a.event, "SUMMARY_REVISED">> \in R.conflicts

LEMMA MarksGrow ==
  ASSUME log \in Seq(Events), IsInjective(log), IsMarked(log),
         NEW e \in Events, e \notin Stored
  PROVE  IsMarked(Append(log, e))
<1>. DEFINE M == Append(log, e)
            n == Len(log)
            R == Replayed(log)
            q == Applied(R, e)
            row == AttemptRow(R, e)
<1>1. /\ DOMAIN log = 1..n /\ n \in Nat /\ DOMAIN M = 1..(n + 1) /\ M[n + 1] = e
      /\ \A i \in DOMAIN log : M[i] = log[i] /\ log[i] \in Events
      /\ IsInjective(M)
  BY AppendIsLog
<1>2. Replayed(M) = q
  BY ReplayedAppend
<1>3. IsProjection(R) /\ IsApplied(R, e, q) /\ IsProjection(q)
  BY AppliedIs, ProjectionStays DEF IsMarked
<1>4. /\ \A i \in DOMAIN log, t \in Sessions :
            IsCompletion(log[i], t) => R.sessions[t].state = "SESSION_COMPLETED"
      /\ \A a \in R.attempts : \E j \in DOMAIN log : log[j] = a.event
      /\ \A a \in R.attempts : a.valid => \A i, j \in DOMAIN log :
            i < j /\ log[j] = a.event /\ IsCompletion(log[i], a.session)
               => <<a.event, "SUMMARY_REVISED">> \in R.conflicts
  BY DEF IsMarked
<1>. HIDE DEF M, n, R, q
<1>5. \A i \in DOMAIN M : i \in DOMAIN log \/ i = n + 1
  BY <1>1
<1>6. \A t \in Sessions : \/ q.sessions[t] = R.sessions[t]
                          \/ t = Event[e].session /\ q.sessions[t] = SessionAfter(R, e)
  BY <1>3 DEF IsApplied, IsProjection
<1>7. ASSUME NEW i \in DOMAIN M, NEW t \in Sessions, IsCompletion(M[i], t)
      PROVE  q.sessions[t].state = "SESSION_COMPLETED"
  <2>1. CASE i = n + 1
    <3>1. IsCompletion(e, t)
      BY <1>1, <1>7, <2>1
    <3>2. SessionAfter(R, e) = [owner |-> Event[e].student, state |-> "SESSION_COMPLETED"]
      BY <3>1 DEF SessionAfter, IsCompletion
    <3>3. q.sessions[t] = SessionAfter(R, e)
      BY <1>3, <3>1 DEF IsApplied, IsProjection, IsCompletion
    <3>. QED  BY <3>2, <3>3
  <2>2. CASE i # n + 1
    <3>1. R.sessions[t].state = "SESSION_COMPLETED"
      BY <1>1, <1>4, <1>5, <1>7, <2>2
    <3>2. t = Event[e].session => SessionAfter(R, e).state = "SESSION_COMPLETED"
      BY <3>1 DEF SessionAfter, NoSession
    <3>. QED  BY <1>6, <3>1, <3>2
  <2>. QED  BY <2>1, <2>2
<1>8. /\ row.event = e /\ row.session = Event[e].session
      /\ q.attempts = R.attempts \/ (IsAnswer(e) /\ q.attempts = R.attempts \cup {row})
  BY <1>3 DEF IsApplied, IsValid, IsRepeat, AttemptRow
<1>9. R.conflicts \subseteq q.conflicts /\ ConflictsOf(R, e) \subseteq q.conflicts
  BY <1>3 DEF IsApplied
<1>10. IsAnswer(e) => (row.valid <=> PriorSameAttempt(R, e) = {})
  BY <1>3, RowFields
<1>. HIDE DEF row
<1>11. \A a \in q.attempts : \E j \in DOMAIN M : M[j] = a.event
  BY <1>1, <1>4, <1>8
<1>12. ASSUME NEW a \in q.attempts, a.valid, NEW i \in DOMAIN M, NEW j \in DOMAIN M,
              i < j, M[j] = a.event, IsCompletion(M[i], a.session)
       PROVE  <<a.event, "SUMMARY_REVISED">> \in q.conflicts
  <2>1. CASE a \in R.attempts
    <3>1. PICK k \in DOMAIN log : log[k] = a.event
      BY <1>4, <2>1
    <3>2. j = k /\ i \in DOMAIN log
      <4>1. k \in DOMAIN M /\ M[k] = M[j]
        BY <1>1, <1>12, <3>1
      <4>2. j = k
        BY <1>1, <4>1 DEF IsInjective
      <4>. QED  BY <1>1, <1>12, <4>2
    <3>. QED  BY <1>1, <1>4, <1>9, <1>12, <2>1, <3>1, <3>2
  <2>2. CASE a \notin R.attempts
    <3>1. a = row /\ IsAnswer(e) /\ ~HasAttempt(R, e)
      BY <1>3, <1>8, <1>12, <2>2 DEF IsApplied, IsValid, IsRepeat
    <3>2. IsValid(R, e)
      BY <1>10, <1>12, <3>1 DEF IsValid
    <3>3. i \in DOMAIN log
      <4>1. j = n + 1
        <5>1. M[j] = M[n + 1] /\ n + 1 \in DOMAIN M
          BY <1>1, <1>8, <1>12, <3>1
        <5>. QED  BY <1>1, <5>1 DEF IsInjective
      <4>. QED  BY <1>1, <1>12, <4>1
    <3>4. IsLate(R, e)
      <4>1. a.session \in Sessions /\ a.session = Event[e].session
        BY <1>8, <3>1, EventFacts
      <4>2. IsCompletion(log[i], a.session)
        BY <1>1, <1>12, <3>3
      <4>. QED  BY <1>4, <3>3, <4>1, <4>2 DEF IsLate
    <3>5. <<e, "SUMMARY_REVISED">> \in ConflictsOf(R, e)
      BY <3>2, <3>4 DEF ConflictsOf, IsRepeat, IsValid, LateTypes
    <3>. QED  BY <1>8, <1>9, <3>1, <3>5
  <2>. QED  BY <2>1, <2>2
<1>13. IsMarked(M)
  BY <1>2, <1>3, <1>7, <1>11, <1>12 DEF IsMarked
<1>. QED  BY <1>13 DEF M

MarksInv == TablesInv /\ IsMarked(log)

\* The log keeps what it says of late answers: it only grows.
THEOREM MarksInvariant ==
  LearnerSpec => []MarksInv
<1>1. EpisodesInit /\ TablesInv => MarksInv
  <2>. SUFFICES ASSUME EpisodesInit, TablesInv PROVE MarksInv
    OBVIOUS
  <2>1. log = <<>>
    BY DEF EpisodesInit, ProjectionInit
  <2>2. Replayed(log) = NoProjection
    <3>1. log \in Seq({1}) /\ 1 \in {1}
      BY <2>1
    <3>. QED  BY <2>1, <3>1, ReplayedAppend
  <2>3. DOMAIN log = {} /\ NoProjection.attempts = {}
    BY <2>1 DEF NoProjection
  <2>. QED  BY <2>2, <2>3, NothingIsProjection DEF MarksInv, IsMarked
<1>2. ASSUME MarksInv, NEW e \in Events, Store(e) PROVE IsMarked(log')
  <2>1. log \in Seq(Events) /\ IsInjective(log) /\ IsMarked(log) /\ e \notin Stored
    BY <1>2 DEF MarksInv, TablesInv, Store, MayArrive
  <2>2. log' = Append(log, e)
    BY <1>2 DEF Store
  <2>. QED  BY <2>1, <2>2, MarksGrow
<1>3. MarksInv /\ TablesInv' /\ [LearnerNext]_learnerVars => MarksInv'
  <2>. SUFFICES ASSUME MarksInv, TablesInv', [LearnerNext]_learnerVars PROVE IsMarked(log')
    BY DEF MarksInv
  <2>1. CASE \E e \in Events : SubmitAnswer(e) \/ Present(e) \/ Observe(e)
    BY <1>2, <2>1 DEF SubmitAnswer, Present, Observe
  <2>2. CASE Rebuild
    BY <2>2 DEF Rebuild, ScriptNext, StartScript, ClearProjections, ReplayEvent, EndScript,
                ScriptDies, MarksInv
  <2>3. CASE UNCHANGED learnerVars
    BY <2>3 DEF MarksInv, learnerVars
  <2>. QED  BY <2>1, <2>2, <2>3 DEF LearnerNext
<1>. QED  BY <1>1, <1>3, TablesInvariant, PTL DEF LearnerSpec

\* Of the answers with one attempt id one is scored, a second one to an item weighs
\* at most half and is marked, and one after its session's summary is marked as a
\* revision, also when a script has replayed the log.
THEOREM ConflictsAreToldAlways ==
  Quiesced => (LearnerSpec /\ []InArrivalOrder => []ConflictsAreTold)
<1>. SUFFICES ASSUME Quiesced PROVE LearnerSpec /\ []InArrivalOrder => []ConflictsAreTold
  OBVIOUS
<1>1. TablesInv =>
        \A a, b \in projection.attempts :
          a # b /\ a.valid /\ b.valid /\ a.student = b.student /\ a.session = b.session =>
              a.attempt # b.attempt /\ (a.item = b.item => RepeatsWeighLess(a, b))
  BY DEF TablesInv, RepeatsTold, IsTold, RepeatsWeighLess
<1>2. RebuildInv /\ MarksInv =>
        \A a \in projection.attempts : a.valid /\ Settled(a.student) =>
          \A i, j \in DOMAIN log :
              /\ i < j /\ log[j] = a.event
              /\ Event[log[i]].kind = "SESSION_COMPLETED" /\ Event[log[i]].session = a.session
              => <<a.event, "SUMMARY_REVISED">> \in projection.conflicts
  <2>. SUFFICES ASSUME RebuildInv, MarksInv, NEW a \in projection.attempts, a.valid,
                       Settled(a.student), NEW i \in DOMAIN log, NEW j \in DOMAIN log,
                       i < j, log[j] = a.event, IsCompletion(log[i], a.session)
                PROVE  <<a.event, "SUMMARY_REVISED">> \in projection.conflicts
    BY DEF IsCompletion
  <2>. DEFINE s == a.student
              R == Replayed(log)
              c == <<a.event, "SUMMARY_REVISED">>
  <2>1. log \in Seq(Events) /\ IsProjection(projection)
    BY DEF RebuildInv, TablesInv
  <2>2. s \in Students /\ Event[a.event].student = s
    BY <2>1, EventFacts DEF IsProjection, IsRow
  <2>3. SameRows(projection, R, s)
    <3>1. Len(log) \in 0..Len(log) /\ After(log, Len(log)) = R
      BY <2>1, AfterSteps
    <3>. QED  BY <2>2, <3>1 DEF RebuildInv, Settled
  <2>4. a \in R.attempts
    <3>1. a \in AttemptsOf(projection, s)
      BY DEF AttemptsOf
    <3>. QED  BY <2>3, <3>1 DEF SameRows, AttemptsOf
  <2>5. c \in R.conflicts
    BY <2>4 DEF MarksInv, IsMarked
  <2>6. c[1] = a.event
    OBVIOUS
  <2>. HIDE DEF c, R
  <2>. QED  BY <2>2, <2>3, <2>5, <2>6 DEF SameRows, c
<1>3. RebuildInv /\ MarksInv => ConflictsAreTold
  BY <1>1, <1>2 DEF ConflictsAreTold, RebuildInv
<1>. QED  BY <1>3, RebuildInvariant, MarksInvariant, PTL

--------------------------------------------------------------------------------
(* Episodes.                                                               *)

Before(L, e, f) == \E i, j \in DOMAIN L : i < j /\ L[i] = e /\ L[j] = f

\* What an episode says of the events it was made from.
IsEarned(ep, L, served) ==
    /\ ep \in Episode
    /\ ep.outcome = None <=> ep.status = "candidate"
    /\ Before(L, ep.source, ep.presented)
    /\ served[ep.source] = ep.intervention
    /\ ep.session = Event[ep.source].session
    /\ ep.trigger = Event[ep.source].item
    /\ ep.skill = Skill[ep.trigger]
    /\ ep.outcome # None => /\ Before(L, ep.presented, ep.outcome)
                            /\ Event[ep.outcome].session = ep.session
                            /\ Event[ep.outcome].item # ep.trigger
                            /\ Skill[Event[ep.outcome].item] = ep.skill

AreDistinct(E) ==
    \A ep, other \in E : ep # other =>
        /\ ep.outcome # None => ep.outcome # other.outcome
        /\ <<ep.source, ep.intervention>> # <<other.source, other.intervention>>

\* The inductive invariant of episodes: decisions are for stored answers.
EpisodesInv ==
    /\ TablesInv
    /\ IsFiniteSet(episodes)
    /\ \A ep \in episodes : IsEarned(ep, log, agent)
    /\ AreDistinct(episodes)
    /\ agent \in [Events -> Actions \cup {None}]
    /\ \A e \in Events : agent[e] # None => e \in Stored /\ IsAnswer(e)

LEMMA EarnedStays ==
  ASSUME log \in Seq(Events), NEW ep, NEW served, IsEarned(ep, log, served), NEW e \in Events,
         NEW others, others[ep.source] = served[ep.source]
  PROVE  IsEarned(ep, Append(log, e), others)
<1>. DEFINE M == Append(log, e)
<1>1. DOMAIN log \subseteq DOMAIN M /\ \A i \in DOMAIN log : M[i] = log[i]
  OBVIOUS
<1>. HIDE DEF M
<1>2. \A f, g : Before(log, f, g) => Before(M, f, g)
  BY <1>1 DEF Before
<1>3. IsEarned(ep, M, others)
  BY <1>2 DEF IsEarned
<1>. QED  BY <1>3 DEF M

LEMMA EarnedIsStored ==
  ASSUME NEW ep, NEW served, IsEarned(ep, log, served)
  PROVE  /\ ep.source \in Stored /\ ep.presented \in Stored
         /\ ep.outcome # None => ep.outcome \in Stored
BY DEF IsEarned, Before, Stored

LEMMA StoredIsBefore ==
  ASSUME log \in Seq(Events), NEW f \in Stored, NEW e \in Events
  PROVE  Before(Append(log, e), f, e)
<1>. DEFINE M == Append(log, e)
            n == Len(log)
<1>1. /\ n \in Nat /\ DOMAIN log = 1..n /\ DOMAIN M = 1..(n + 1) /\ M[n + 1] = e
      /\ \A i \in DOMAIN log : M[i] = log[i]
  OBVIOUS
<1>. HIDE DEF M, n
<1>2. PICK i \in DOMAIN log : log[i] = f
  BY DEF Stored
<1>3. i \in DOMAIN M /\ n + 1 \in DOMAIN M /\ i < n + 1
  BY <1>1, <1>2
<1>. QED  BY <1>1, <1>2, <1>3 DEF Before, M

LEMMA ScoresAre ==
  ASSUME NEW e \in Events
  PROVE  Score(e) \in 0..10
<1>1. Event[e].hint = 0 \/ Event[e].hint = 1 \/ Event[e].hint = 2 \/ Event[e].hint = 3
  BY EventFacts
<1>. QED  BY <1>1 DEF Score

LEMMA CompletedIs ==
  ASSUME NEW ep \in Episode, NEW e \in Events
  PROVE  LET done == Completed(ep, e) IN
         /\ done \in Episode
         /\ done.outcome = e /\ done.effectiveness = Score(e) /\ done.status # "candidate"
         /\ done.source = ep.source /\ done.intervention = ep.intervention
         /\ done.student = ep.student /\ done.session = ep.session /\ done.skill = ep.skill
         /\ done.misconception = ep.misconception /\ done.trigger = ep.trigger
         /\ done.presented = ep.presented
<1>. DEFINE status == IF Score(e) >= 5 THEN "validated" ELSE "insufficient_outcome"
<1>1. Completed(ep, e) = [ep EXCEPT !.outcome = e, !.effectiveness = Score(e), !.status = status]
  BY DEF Completed
<1>2. status \in {"candidate", "validated", "insufficient_outcome"} /\ status # "candidate"
  OBVIOUS
<1>. HIDE DEF status
<1>3. Score(e) \in 0..10
  BY ScoresAre
<1>. QED  BY <1>1, <1>2, <1>3 DEF Episode

LEMMA CompletionIsEarned ==
  ASSUME EpisodesInv, NEW e \in Events, IsAnswer(e), e \notin Stored, NEW ep \in Waiting(e),
         NEW served, served[ep.source] = agent[ep.source]
  PROVE  IsEarned(Completed(ep, e), Append(log, e), served)
<1>. DEFINE done == Completed(ep, e)
            M == Append(log, e)
<1>1. /\ ep \in episodes /\ ep.session = Event[e].session /\ ep.skill = Skill[Event[e].item]
      /\ ep.trigger # Event[e].item /\ log \in Seq(Events)
  BY DEF Waiting, EpisodesInv, TablesInv
<1>2. IsEarned(ep, log, agent)
  BY <1>1 DEF EpisodesInv
<1>3. IsEarned(ep, M, served)
  BY <1>1, <1>2, EarnedStays
<1>4. /\ done \in Episode
      /\ done.outcome = e /\ done.status # "candidate"
      /\ done.source = ep.source /\ done.intervention = ep.intervention
      /\ done.session = ep.session /\ done.skill = ep.skill
      /\ done.trigger = ep.trigger /\ done.presented = ep.presented
  BY <1>2, CompletedIs DEF IsEarned
<1>5. ep.presented \in Stored /\ e # None
  BY <1>2, EarnedIsStored, NoneIsNothing
<1>6. Before(M, ep.presented, e)
  BY <1>1, <1>5, StoredIsBefore
<1>. HIDE DEF done, M
<1>7. IsEarned(done, M, served)
  BY <1>1, <1>3, <1>4, <1>5, <1>6 DEF IsEarned
<1>. QED  BY <1>7 DEF done, M

LEMMA CompletionIsDistinct ==
  ASSUME EpisodesInv, NEW e \in Events, e \notin Stored, NEW ep \in episodes,
         NEW E, E = (episodes \ {ep}) \cup {Completed(ep, e)}
  PROVE  AreDistinct(E) /\ IsFiniteSet(E) /\ Completed(ep, e) \notin episodes
<1>. DEFINE done == Completed(ep, e)
<1>1. \A x \in episodes : /\ IsEarned(x, log, agent) /\ x \in Episode
                          /\ x.outcome # e
  BY EarnedIsStored, NoneIsNothing DEF EpisodesInv, IsEarned
<1>2. done.outcome = e /\ done.source = ep.source /\ done.intervention = ep.intervention
  BY <1>1, CompletedIs
<1>. HIDE DEF done
<1>3. done \notin episodes
  BY <1>1, <1>2
<1>4. AreDistinct(episodes)
  BY DEF EpisodesInv
<1>5. AreDistinct((episodes \ {ep}) \cup {done})
  BY <1>1, <1>2, <1>4 DEF AreDistinct
<1>6. IsFiniteSet((episodes \ {ep}) \cup {done})
  BY FS_RemoveElement, FS_AddElement DEF EpisodesInv
<1>. QED  BY <1>3, <1>5, <1>6 DEF done

LEMMA SubmissionIsEarned ==
  ASSUME EpisodesInv, NEW e \in Events, SubmitAnswer(e)
  PROVE  EpisodesInv'
<1>1. /\ Store(e) /\ IsAnswer(e) /\ e \notin Stored /\ log' = Append(log, e)
      /\ log \in Seq(Events) /\ TablesInv'
  BY StoreKeepsTables DEF SubmitAnswer, IsAnswer, Store, MayArrive, EpisodesInv, TablesInv
<1>2. /\ \A ep \in episodes : IsEarned(ep, log, agent)
      /\ AreDistinct(episodes) /\ IsFiniteSet(episodes)
      /\ agent \in [Events -> Actions \cup {None}]
      /\ \A f \in Events : agent[f] # None => f \in Stored /\ IsAnswer(f)
  BY DEF EpisodesInv
<1>3. \A f : f \in Stored \/ f = e => f \in Stored'
  <2>1. \A f : f \in Stored <=> \E i \in DOMAIN log : log[i] = f
    BY DEF Stored
  <2>2. \A f : f \in Stored' <=> \E i \in DOMAIN log' : log'[i] = f
    BY DEF Stored
  <2>3. /\ DOMAIN log \subseteq DOMAIN log' /\ \A i \in DOMAIN log : log'[i] = log[i]
        /\ Len(log) + 1 \in DOMAIN log' /\ log'[Len(log) + 1] = e
    BY <1>1
  <2>. QED  BY <2>1, <2>2, <2>3
<1>4. agent' = agent \/ \E action \in Actions : agent' = [agent EXCEPT ![e] = action]
  BY DEF SubmitAnswer, episodeVars
<1>5. /\ agent' \in [Events -> Actions \cup {None}]
      /\ \A f \in Events : agent'[f] # None => f \in Stored' /\ IsAnswer(f)
      /\ \A f \in Stored : agent'[f] = agent[f]
  <2>1. Stored \subseteq Events
    BY <1>1 DEF Stored
  <2>2. CASE agent' = agent
    BY <1>2, <1>3, <2>2
  <2>3. ASSUME NEW action \in Actions, agent' = [agent EXCEPT ![e] = action]
        PROVE  /\ agent' \in [Events -> Actions \cup {None}]
               /\ \A f \in Events \ {e} : agent'[f] = agent[f]
    BY <1>2, <2>3
  <2>4. CASE \E action \in Actions : agent' = [agent EXCEPT ![e] = action]
    <3>1. /\ agent' \in [Events -> Actions \cup {None}]
          /\ \A f \in Events \ {e} : agent'[f] = agent[f]
      BY <2>3, <2>4
    <3>2. \A f \in Stored : agent'[f] = agent[f]
      BY <1>1, <2>1, <3>1
    <3>. QED  BY <1>1, <1>2, <1>3, <3>1, <3>2
  <2>. QED  BY <1>4, <2>2, <2>4
<1>6. \A ep \in episodes : IsEarned(ep, log', agent')
  <2>. SUFFICES ASSUME NEW ep \in episodes PROVE IsEarned(ep, log', agent')
    OBVIOUS
  <2>1. IsEarned(ep, log, agent) /\ agent'[ep.source] = agent[ep.source]
    BY <1>2, <1>5, EarnedIsStored
  <2>. QED  BY <1>1, <2>1, EarnedStays
<1>7. CASE episodes' = episodes
  BY <1>1, <1>2, <1>5, <1>6, <1>7 DEF EpisodesInv
<1>8. CASE \E ep \in Waiting(e) : episodes' = (episodes \ {ep}) \cup {Completed(ep, e)}
  <2>1. PICK ep \in Waiting(e) : episodes' = (episodes \ {ep}) \cup {Completed(ep, e)}
    BY <1>8
  <2>2. ep \in episodes
    BY DEF Waiting
  <2>3. agent'[ep.source] = agent[ep.source]
    BY <1>2, <1>5, <2>2, EarnedIsStored
  <2>4. IsEarned(Completed(ep, e), log', agent')
    BY <1>1, <2>3, CompletionIsEarned
  <2>5. AreDistinct(episodes') /\ IsFiniteSet(episodes')
    BY <1>1, <2>1, <2>2, CompletionIsDistinct
  <2>6. \A x \in episodes' : IsEarned(x, log', agent')
    BY <1>6, <2>1, <2>4
  <2>. QED  BY <1>1, <1>5, <2>5, <2>6 DEF EpisodesInv
<1>9. episodes' = episodes \/ \E ep \in Waiting(e) : episodes' = (episodes \ {ep}) \cup {Completed(ep, e)}
  BY DEF SubmitAnswer, CompletesEpisode, episodeVars
<1>. QED  BY <1>7, <1>8, <1>9

LEMMA PresentationIsEarned ==
  ASSUME EpisodesInv, NEW e \in Events, Present(e)
  PROVE  EpisodesInv'
<1>. DEFINE source == Event[e].source
            new == Candidate(e)
<1>1. /\ Store(e) /\ Event[e].kind \in Presentations /\ HasServedDecision(e)
      /\ e \notin Stored /\ log' = Append(log, e) /\ log \in Seq(Events) /\ TablesInv'
      /\ agent' = agent
      /\ episodes' = IF IsPresented(e) THEN episodes ELSE episodes \cup {new}
  BY StoreKeepsTables DEF Present, Store, MayArrive, EpisodesInv, TablesInv, Inserted
<1>2. /\ \A ep \in episodes : IsEarned(ep, log, agent)
      /\ AreDistinct(episodes) /\ IsFiniteSet(episodes)
      /\ agent \in [Events -> Actions \cup {None}]
      /\ \A f \in Events : agent[f] # None => f \in Stored /\ IsAnswer(f)
  BY DEF EpisodesInv
<1>3. \A f : f \in Stored => f \in Stored'
  <2>1. DOMAIN log \subseteq DOMAIN log' /\ \A i \in DOMAIN log : log'[i] = log[i]
    BY <1>1
  <2>2. \A f : f \in Stored' <=> \E i \in DOMAIN log' : log'[i] = f
    BY DEF Stored
  <2>. QED  BY <2>1, <2>2 DEF Stored
<1>4. \A ep \in episodes : IsEarned(ep, log', agent')
  <2>1. \A ep \in episodes : IsEarned(ep, log', agent)
    BY <1>1, <1>2, EarnedStays
  <2>. QED  BY <1>1, <2>1
<1>5. /\ source \in Events /\ source \in Stored /\ IsAnswer(source)
      /\ agent[source] = InterventionOf(e) /\ InterventionOf(e) \in Interventions
      /\ Event[source].student = Event[e].student /\ Event[source].session = Event[e].session
  <2>1. source \in Events
    BY <1>1, ProjectionConstants DEF EventRecord
  <2>2. /\ agent[source] = InterventionOf(e) /\ Event[source].student = Event[e].student
        /\ Event[source].session = Event[e].session
    BY <1>1 DEF HasServedDecision
  <2>3. InterventionOf(e) \in {"SHOW_WORKED_EXAMPLE", "SHOW_MICRO_LESSON"}
    BY DEF InterventionOf
  <2>4. InterventionOf(e) # None /\ InterventionOf(e) # "RETRY_SAME_SKILL"
    BY <2>3, TeachingConstants
  <2>5. InterventionOf(e) \in Interventions
    BY <1>2, <2>1, <2>2, <2>4 DEF Actions
  <2>. QED  BY <1>2, <2>1, <2>2, <2>4, <2>5
<1>6. /\ new.source = source /\ new.intervention = InterventionOf(e)
      /\ new.student = Event[e].student /\ new.session = Event[e].session
      /\ new.skill = Skill[Event[source].item] /\ new.trigger = Event[source].item
      /\ new.presented = e /\ new.outcome = None /\ new.status = "candidate"
  BY DEF Candidate
<1>7. new \in Episode
  <2>1. /\ Event[e].student \in Students /\ Event[e].session \in Sessions
        /\ Event[source].item \in Items /\ Skill[Event[source].item] \in Skills
    BY <1>5, EventFacts DEF IsAnswer
  <2>2. IsConfused(source) \in BOOLEAN
    BY DEF IsConfused
  <2>3. 0 \in 0..10
    OBVIOUS
  <2>. QED  BY <1>5, <2>1, <2>2, <2>3 DEF Candidate, Episode
<1>. HIDE DEF new, source
<1>8. Before(log', source, e)
  BY <1>1, <1>5, StoredIsBefore
<1>9. IsEarned(new, log', agent')
  BY <1>1, <1>5, <1>6, <1>7, <1>8 DEF IsEarned
<1>10. \A x \in episodes' : IsEarned(x, log', agent')
  BY <1>1, <1>4, <1>9
<1>11. AreDistinct(episodes') /\ IsFiniteSet(episodes')
  <2>1. CASE IsPresented(e)
    BY <1>1, <1>2, <2>1
  <2>2. CASE ~IsPresented(e)
    <3>1. \A ep \in episodes : <<ep.source, ep.intervention>> # <<new.source, new.intervention>>
      BY <1>6, <2>2 DEF IsPresented, source
    <3>2. AreDistinct(episodes \cup {new})
      BY <1>2, <1>6, <3>1 DEF AreDistinct
    <3>. QED  BY <1>1, <1>2, <2>2, <3>2, FS_AddElement
  <2>. QED  BY <2>1, <2>2
<1>12. \A f \in Events : agent'[f] # None => f \in Stored' /\ IsAnswer(f)
  BY <1>1, <1>2, <1>3
<1>. QED  BY <1>1, <1>2, <1>10, <1>11, <1>12 DEF EpisodesInv

LEMMA ObservationKeepsEpisodes ==
  ASSUME EpisodesInv, NEW e \in Events, Observe(e)
  PROVE  EpisodesInv'
<1>1. /\ Store(e) /\ log' = Append(log, e) /\ log \in Seq(Events) /\ TablesInv'
      /\ agent' = agent /\ episodes' = episodes
  BY StoreKeepsTables DEF Observe, Store, EpisodesInv, TablesInv, episodeVars
<1>2. \A f : f \in Stored => f \in Stored'
  <2>1. DOMAIN log \subseteq DOMAIN log' /\ \A i \in DOMAIN log : log'[i] = log[i]
    BY <1>1
  <2>2. \A f : f \in Stored' <=> \E i \in DOMAIN log' : log'[i] = f
    BY DEF Stored
  <2>. QED  BY <2>1, <2>2 DEF Stored
<1>3. \A ep \in episodes : IsEarned(ep, log', agent)
  BY <1>1, EarnedStays DEF EpisodesInv
<1>. QED  BY <1>1, <1>2, <1>3 DEF EpisodesInv

\* Episodes rest on a decision for a stored answer, a later presentation and a
\* still later outcome, one per presentation and per answer.
THEOREM EpisodesInvariant ==
  LearnerSpec => []EpisodesInv
<1>1. EpisodesInit /\ TablesInv => EpisodesInv
  <2>. SUFFICES ASSUME EpisodesInit, TablesInv PROVE EpisodesInv
    OBVIOUS
  <2>1. episodes = {} /\ agent = [e \in Events |-> None]
    BY DEF EpisodesInit
  <2>. QED  BY <2>1, FS_EmptySet DEF EpisodesInv, AreDistinct
<1>2. EpisodesInv /\ TablesInv' /\ [LearnerNext]_learnerVars => EpisodesInv'
  <2>. SUFFICES ASSUME EpisodesInv, TablesInv', [LearnerNext]_learnerVars PROVE EpisodesInv'
    OBVIOUS
  <2>1. CASE \E e \in Events : SubmitAnswer(e)
    BY <2>1, SubmissionIsEarned
  <2>2. CASE \E e \in Events : Present(e)
    BY <2>2, PresentationIsEarned
  <2>3. CASE \E e \in Events : Observe(e)
    BY <2>3, ObservationKeepsEpisodes
  <2>4. CASE Rebuild
    <3>1. UNCHANGED <<log, agent, episodes>>
      BY <2>4 DEF Rebuild, episodeVars, ScriptNext, StartScript, ClearProjections,
                  ReplayEvent, EndScript, ScriptDies
    <3>. QED  BY <3>1 DEF EpisodesInv, Stored
  <2>5. CASE UNCHANGED learnerVars
    BY <2>5 DEF EpisodesInv, Stored, learnerVars
  <2>. QED  BY <2>1, <2>2, <2>3, <2>4, <2>5 DEF LearnerNext
<1>. QED  BY <1>1, <1>2, TablesInvariant, PTL DEF LearnerSpec

\* An episode's outcome came after the presentation of what was served, in the same
\* session and skill, on another item; no answer is the outcome of two.
THEOREM EpisodesAreEarnedAlways ==
  LearnerSpec => []EpisodesAreEarned
<1>1. EpisodesInv => EpisodesAreEarned
  <2>. SUFFICES ASSUME EpisodesInv PROVE EpisodesAreEarned
    OBVIOUS
  <2>1. \A i, j \in DOMAIN log : log[i] = log[j] => i = j
    BY DEF EpisodesInv, TablesInv, IsInjective
  <2>2. \A i \in DOMAIN log : Arrival(log[i]) = i
    BY <2>1 DEF Arrival
  <2>3. \A e, f : Before(log, e, f) => Arrival(e) < Arrival(f)
    BY <2>2 DEF Before
  <2>4. \A ep \in episodes : IsEarned(ep, log, agent)
    BY DEF EpisodesInv
  <2>5. AreDistinct(episodes)
    BY DEF EpisodesInv
  <2>. HIDE DEF Arrival
  <2>6. \A ep \in episodes : ep.outcome # None =>
          /\ Arrival(ep.source) < Arrival(ep.presented)
          /\ Arrival(ep.presented) < Arrival(ep.outcome)
          /\ agent[ep.source] = ep.intervention
          /\ Event[ep.outcome].session = Event[ep.source].session
          /\ Event[ep.outcome].item # Event[ep.source].item
          /\ Skill[Event[ep.outcome].item] = Skill[Event[ep.source].item]
    BY <2>3, <2>4 DEF IsEarned
  <2>. QED  BY <2>5, <2>6 DEF EpisodesAreEarned, AreDistinct
<1>. QED  BY <1>1, EpisodesInvariant, PTL

--------------------------------------------------------------------------------
(* What rests on episodes.                                                 *)

IsOf(ep, s, key) == ep.student = s /\ KeyOf(ep) = key
DoneOf(E, s, key) == {ep \in E : IsOf(ep, s, key) /\ ep.status # "candidate"}
ValidatedOf(E, s, key) == {ep \in E : IsOf(ep, s, key) /\ ep.status = "validated"}

\* KeyFollowsEpisodes, of any episodes.
Agrees(E, stat, fact, rows, s, key) ==
    /\ stat.attempts = Cardinality(DoneOf(E, s, key))
    /\ stat.score = EffectOf(DoneOf(E, s, key))
    /\ fact.supporting = Supporting(E, s, key)
    /\ fact.version = Cardinality(ValidatedOf(E, s, key))
    /\ \A v \in 1..fact.version : <<<<s, key>>, v>> \in rows

\* The inductive invariant of statistics, facts and the outbox.
MemoryInv ==
    /\ EpisodesInv
    /\ DOMAIN stats = Students \X Keys /\ DOMAIN facts = Students \X Keys
    /\ \A s \in Students, key \in Keys :
          Agrees(episodes, stats[<<s, key>>], facts[<<s, key>>], queued, s, key)
    /\ \A ep \in episodes : ep.status = "validated"
          => <<<<ep.source, ep.intervention>>, 1>> \in queued

LEMMA NoneAgree ==
  ASSUME NEW s, NEW key, NEW rows
  PROVE  Agrees({}, [attempts |-> 0, score |-> 0], NoFact, rows, s, key)
<1>1. DoneOf({}, s, key) = {} /\ ValidatedOf({}, s, key) = {} /\ Supporting({}, s, key) = {}
  BY DEF DoneOf, ValidatedOf, Supporting
<1>2. Cardinality({}) = 0
  BY FS_EmptySet
<1>. HIDE DEF EffectOf
<1>. QED  BY <1>1, <1>2, EffectOfNone DEF Agrees, NoFact

\* An open episode counts nothing.
LEMMA CandidatesCountNothing ==
  ASSUME NEW E, NEW new, new.status = "candidate", NEW s, NEW key
  PROVE  /\ DoneOf(E \cup {new}, s, key) = DoneOf(E, s, key)
         /\ ValidatedOf(E \cup {new}, s, key) = ValidatedOf(E, s, key)
         /\ Supporting(E \cup {new}, s, key) = Supporting(E, s, key)
BY DEF DoneOf, ValidatedOf, Supporting

IsCounted(E, ep, done, F, s, key) ==
    /\ ~IsOf(ep, s, key) =>
          /\ DoneOf(F, s, key) = DoneOf(E, s, key)
          /\ ValidatedOf(F, s, key) = ValidatedOf(E, s, key)
          /\ Supporting(F, s, key) = Supporting(E, s, key)
    /\ IsOf(ep, s, key) =>
          /\ DoneOf(F, s, key) = DoneOf(E, s, key) \cup {done}
          /\ done.status = "validated" =>
                ValidatedOf(F, s, key) = ValidatedOf(E, s, key) \cup {done}
    /\ done.status # "validated" =>
          /\ ValidatedOf(F, s, key) = ValidatedOf(E, s, key)
          /\ Supporting(F, s, key) = Supporting(E, s, key)

\* The closing of an episode counts once, for its key.
LEMMA CompletionCounts ==
  ASSUME NEW E, NEW ep \in E, ep.status = "candidate", NEW done, done \notin E,
         done.status # "candidate", done.student = ep.student, KeyOf(done) = KeyOf(ep),
         NEW s, NEW key
  PROVE  IsCounted(E, ep, done, (E \ {ep}) \cup {done}, s, key)
<1>. DEFINE F == (E \ {ep}) \cup {done}
<1>1. \A x : x \in F /\ x.status # "candidate" <=> (x \in E /\ x.status # "candidate") \/ x = done
  OBVIOUS
<1>2. IsOf(done, s, key) <=> IsOf(ep, s, key)
  BY DEF IsOf
<1>. HIDE DEF F
<1>3. ~IsOf(ep, s, key) =>
         /\ DoneOf(F, s, key) = DoneOf(E, s, key)
         /\ ValidatedOf(F, s, key) = ValidatedOf(E, s, key)
         /\ Supporting(F, s, key) = Supporting(E, s, key)
  BY <1>1, <1>2 DEF DoneOf, ValidatedOf, Supporting, IsOf
<1>4. IsOf(ep, s, key) =>
         /\ DoneOf(F, s, key) = DoneOf(E, s, key) \cup {done}
         /\ done.status = "validated" =>
               ValidatedOf(F, s, key) = ValidatedOf(E, s, key) \cup {done}
  BY <1>1, <1>2 DEF DoneOf, ValidatedOf
<1>5. done.status # "validated" =>
         /\ ValidatedOf(F, s, key) = ValidatedOf(E, s, key)
         /\ Supporting(F, s, key) = Supporting(E, s, key)
  BY <1>1 DEF ValidatedOf, Supporting
<1>6. IsCounted(E, ep, done, F, s, key)
  BY <1>3, <1>4, <1>5 DEF IsCounted
<1>. QED  BY <1>6 DEF F

LEMMA EpisodesAreFinite ==
  ASSUME EpisodesInv, NEW s, NEW key
  PROVE  /\ IsFiniteSet(DoneOf(episodes, s, key)) /\ IsFiniteSet(ValidatedOf(episodes, s, key))
         /\ Cardinality(DoneOf(episodes, s, key)) \in Nat
         /\ Cardinality(ValidatedOf(episodes, s, key)) \in Nat
         /\ \A ep \in DoneOf(episodes, s, key) : ep.effectiveness \in Int
<1>1. /\ DoneOf(episodes, s, key) \in SUBSET episodes
      /\ ValidatedOf(episodes, s, key) \in SUBSET episodes
  BY DEF DoneOf, ValidatedOf
<1>2. \A ep \in episodes : ep.effectiveness \in Int
  BY DEF EpisodesInv, IsEarned, Episode
<1>3. IsFiniteSet(episodes)
  BY DEF EpisodesInv
<1>. QED  BY <1>1, <1>2, <1>3, FS_Subset, FS_CardinalityType

LEMMA CompletionKeepsMemory ==
  ASSUME MemoryInv, EpisodesInv', NEW e \in Events, e \notin Stored,
         NEW ep \in Waiting(e), CompletesEpisode(ep, e)
  PROVE  MemoryInv'
<1>. DEFINE done == Completed(ep, e)
            u == ep.student
            k == KeyOf(ep)
            t == <<u, k>>
            E == episodes
            F == (E \ {ep}) \cup {done}
            fact == Updated(facts[t], Supporting(F, u, k))
<1>1. /\ ep \in E /\ ep.status = "candidate" /\ EpisodesInv
      /\ ep \in Episode
  BY DEF Waiting, MemoryInv, EpisodesInv, IsEarned
<1>2. /\ done.status # "candidate" /\ done.student = u /\ KeyOf(done) = k
      /\ done.effectiveness = Score(e) /\ Score(e) \in Int
      /\ done.source = ep.source /\ done.intervention = ep.intervention
  BY <1>1, CompletedIs, ScoresAre DEF KeyOf
<1>3. done \notin E
  BY <1>1, CompletionIsDistinct
<1>4. /\ episodes' = F
      /\ stats' = WithOutcome(t, done.effectiveness)
      /\ IF done.status = "validated"
         THEN /\ facts' = [facts EXCEPT ![t] = fact]
              /\ queued' = queued \cup OutboxRows(ep, t, fact.version)
         ELSE facts' = facts /\ queued' = queued
  BY DEF CompletesEpisode
<1>. HIDE DEF done
<1>5. u \in Students /\ k \in Keys /\ t \in Students \X Keys
  BY <1>1 DEF Episode, KeyOf, Keys
<1>6. /\ DOMAIN stats = Students \X Keys /\ DOMAIN facts = Students \X Keys
      /\ \A s \in Students, key \in Keys :
            Agrees(E, stats[<<s, key>>], facts[<<s, key>>], queued, s, key)
  BY DEF MemoryInv
<1>7. queued \subseteq queued'
  BY <1>4
<1>8. DOMAIN stats' = Students \X Keys /\ DOMAIN facts' = Students \X Keys
  BY <1>4, <1>6 DEF WithOutcome
<1>9. \A x \in episodes' : x.status = "validated" => <<<<x.source, x.intervention>>, 1>> \in queued'
  <2>1. \A x \in E : x.status = "validated" => <<<<x.source, x.intervention>>, 1>> \in queued
    BY DEF MemoryInv
  <2>2. done.status = "validated" => <<<<done.source, done.intervention>>, 1>> \in queued'
    BY <1>2, <1>4 DEF OutboxRows
  <2>. QED  BY <1>4, <1>7, <2>1, <2>2
<1>. HIDE DEF F, E
<1>10. ASSUME NEW s \in Students, NEW key \in Keys
       PROVE  Agrees(episodes', stats'[<<s, key>>], facts'[<<s, key>>], queued', s, key)
  <2>1. Agrees(E, stats[<<s, key>>], facts[<<s, key>>], queued, s, key)
    BY <1>6
  <2>2. /\ ~IsOf(ep, s, key) =>
              /\ DoneOf(F, s, key) = DoneOf(E, s, key)
              /\ ValidatedOf(F, s, key) = ValidatedOf(E, s, key)
              /\ Supporting(F, s, key) = Supporting(E, s, key)
        /\ IsOf(ep, s, key) =>
              /\ DoneOf(F, s, key) = DoneOf(E, s, key) \cup {done}
              /\ done.status = "validated" =>
                    ValidatedOf(F, s, key) = ValidatedOf(E, s, key) \cup {done}
        /\ done.status # "validated" =>
              /\ ValidatedOf(F, s, key) = ValidatedOf(E, s, key)
              /\ Supporting(F, s, key) = Supporting(E, s, key)
    <3>1. IsCounted(E, ep, done, F, s, key)
      BY <1>1, <1>2, <1>3, CompletionCounts DEF F
    <3>. QED  BY <3>1 DEF IsCounted
  <2>3. CASE ~IsOf(ep, s, key)
    <3>1. <<s, key>> # t
      BY <2>3 DEF IsOf
    <3>2. stats'[<<s, key>>] = stats[<<s, key>>] /\ facts'[<<s, key>>] = facts[<<s, key>>]
      <4>. HIDE DEF fact, t
      <4>. QED  BY <1>4, <1>6, <3>1 DEF WithOutcome
    <3>. QED  BY <1>4, <1>7, <2>1, <2>2, <2>3, <3>2 DEF Agrees
  <2>4. CASE IsOf(ep, s, key)
    <3>. DEFINE D == DoneOf(E, s, key)
                V == ValidatedOf(E, s, key)
    <3>1. s = u /\ key = k /\ <<s, key>> = t
      BY <2>4 DEF IsOf
    <3>2. /\ IsFiniteSet(D) /\ IsFiniteSet(V) /\ Cardinality(D) \in Nat /\ Cardinality(V) \in Nat
          /\ \A x \in D : x.effectiveness \in Int
      BY <1>1, EpisodesAreFinite DEF E
    <3>3. done \notin D /\ done \notin V
      BY <1>3 DEF DoneOf, ValidatedOf
    <3>4. /\ stats[t].attempts = Cardinality(D) /\ stats[t].score = EffectOf(D)
          /\ facts[t].version = Cardinality(V) /\ facts[t].supporting = Supporting(E, s, key)
          /\ \A v \in 1..facts[t].version : <<t, v>> \in queued
      BY <2>1, <3>1 DEF Agrees
    <3>5. /\ stats'[t].attempts = stats[t].attempts + 1
          /\ stats'[t].score = stats[t].score + done.effectiveness
      BY <1>4, <1>5, <1>6 DEF WithOutcome
    <3>6. DoneOf(F, s, key) = D \cup {done}
      BY <2>2, <2>4
    <3>7. Cardinality(D \cup {done}) = Cardinality(D) + 1
      BY <3>2, <3>3, FS_AddElement
    <3>8. EffectOf(D \cup {done}) = EffectOf(D) + done.effectiveness
      <4>. HIDE DEF D
      <4>1. \A x \in D \cup {done} : x.effectiveness \in Int
        BY <1>2, <3>2
      <4>. QED  BY <3>2, <3>3, <4>1, EffectAdds
    <3>9. stats'[t].attempts = Cardinality(DoneOf(F, s, key)) /\ stats'[t].score = EffectOf(DoneOf(F, s, key))
      BY <3>4, <3>5, <3>6, <3>7, <3>8
    <3>10. CASE done.status = "validated"
      <4>1. facts'[t] = fact /\ fact.version = Cardinality(V) + 1
            /\ fact.supporting = Supporting(F, s, key)
        BY <1>4, <1>5, <1>6, <3>1, <3>4, <3>10 DEF Updated
      <4>2. Cardinality(ValidatedOf(F, s, key)) = Cardinality(V) + 1
        <5>1. ValidatedOf(F, s, key) = V \cup {done}
          BY <2>2, <2>4, <3>10
        <5>. HIDE DEF V
        <5>. QED  BY <3>2, <3>3, <5>1, FS_AddElement
      <4>3. <<t, fact.version>> \in queued'
        BY <1>4, <3>10 DEF OutboxRows
      <4>. HIDE DEF V, fact
      <4>4. \A v \in 1..fact.version : <<t, v>> \in queued'
        <5>1. \A v \in 1..fact.version : v \in 1..Cardinality(V) \/ v = fact.version
          BY <3>2, <4>1
        <5>. QED  BY <1>7, <3>4, <4>3, <5>1
      <4>. QED  BY <1>4, <3>1, <3>9, <4>1, <4>2, <4>4 DEF Agrees
    <3>11. CASE done.status # "validated"
      <4>1. facts' = facts /\ queued' = queued
        BY <1>4, <3>11
      <4>2. ValidatedOf(F, s, key) = V /\ Supporting(F, s, key) = Supporting(E, s, key)
        BY <2>2, <3>11
      <4>. QED  BY <1>4, <3>1, <3>4, <3>9, <4>1, <4>2 DEF Agrees
    <3>. QED  BY <3>10, <3>11
  <2>. QED  BY <2>3, <2>4
<1>. QED  BY <1>8, <1>9, <1>10 DEF MemoryInv

LEMMA PresentationKeepsMemory ==
  ASSUME MemoryInv, EpisodesInv', NEW e \in Events, Present(e)
  PROVE  MemoryInv'
<1>1. /\ episodes' = episodes \/ episodes' = episodes \cup {Candidate(e)}
      /\ facts' = facts /\ stats' = stats /\ queued' = queued
  BY DEF Present, Inserted
<1>2. Candidate(e).status = "candidate"
  BY DEF Candidate
<1>. DEFINE new == Candidate(e)
<1>. HIDE DEF new
<1>3. ASSUME NEW s \in Students, NEW key \in Keys
      PROVE  Agrees(episodes', stats[<<s, key>>], facts[<<s, key>>], queued, s, key)
  <2>1. Agrees(episodes, stats[<<s, key>>], facts[<<s, key>>], queued, s, key)
    BY DEF MemoryInv
  <2>2. /\ DoneOf(episodes \cup {new}, s, key) = DoneOf(episodes, s, key)
        /\ ValidatedOf(episodes \cup {new}, s, key) = ValidatedOf(episodes, s, key)
        /\ Supporting(episodes \cup {new}, s, key) = Supporting(episodes, s, key)
    BY <1>2, CandidatesCountNothing DEF new
  <2>. QED  BY <1>1, <2>1, <2>2 DEF Agrees, new
<1>4. \A ep \in episodes' : ep.status = "validated" => ep \in episodes
  BY <1>1, <1>2
<1>. QED  BY <1>1, <1>3, <1>4 DEF MemoryInv

\* Statistics, facts and outbox rows follow the episodes, through every answer,
\* presentation and replay.
THEOREM MemoryFollowsInvariant ==
  LearnerSpec => []MemoryInv
<1>1. EpisodesInit /\ EpisodesInv => MemoryInv
  <2>. SUFFICES ASSUME EpisodesInit, EpisodesInv PROVE MemoryInv
    OBVIOUS
  <2>1. /\ episodes = {}
        /\ facts = [t \in Students \X Keys |-> NoFact]
        /\ stats = [t \in Students \X Keys |-> [attempts |-> 0, score |-> 0]]
    BY DEF EpisodesInit
  <2>2. ASSUME NEW s \in Students, NEW key \in Keys
        PROVE  Agrees(episodes, stats[<<s, key>>], facts[<<s, key>>], queued, s, key)
    <3>1. facts[<<s, key>>] = NoFact /\ stats[<<s, key>>] = [attempts |-> 0, score |-> 0]
      BY <2>1
    <3>. QED  BY <2>1, <3>1, NoneAgree
  <2>. QED  BY <2>1, <2>2 DEF MemoryInv
<1>2. MemoryInv /\ EpisodesInv' /\ [LearnerNext]_learnerVars => MemoryInv'
  <2>. SUFFICES ASSUME MemoryInv, EpisodesInv', [LearnerNext]_learnerVars PROVE MemoryInv'
    OBVIOUS
  <2>1. ASSUME UNCHANGED <<episodes, facts, stats, queued>> PROVE MemoryInv'
    BY <2>1 DEF MemoryInv
  <2>2. CASE \E e \in Events : SubmitAnswer(e)
    <3>1. PICK e \in Events : SubmitAnswer(e)
      BY <2>2
    <3>2. e \notin Stored
      BY <3>1 DEF SubmitAnswer, Store, MayArrive
    <3>3. \/ UNCHANGED <<episodes, facts, stats, queued>>
          \/ \E ep \in Waiting(e) : CompletesEpisode(ep, e)
      BY <3>1 DEF SubmitAnswer, episodeVars
    <3>. QED  BY <2>1, <3>2, <3>3, CompletionKeepsMemory
  <2>3. CASE \E e \in Events : Present(e)
    BY <2>3, PresentationKeepsMemory
  <2>4. CASE \E e \in Events : Observe(e)
    BY <2>1, <2>4 DEF Observe, episodeVars
  <2>5. CASE Rebuild
    BY <2>1, <2>5 DEF Rebuild, episodeVars
  <2>6. CASE UNCHANGED learnerVars
    BY <2>1, <2>6 DEF learnerVars
  <2>. QED  BY <2>2, <2>3, <2>4, <2>5, <2>6 DEF LearnerNext
<1>. QED  BY <1>1, <1>2, EpisodesInvariant, PTL DEF LearnerSpec

\* What four tables say of an episode agrees: statistics count each outcome once,
\* a fact rests on all the successful episodes of its key, and each version of it
\* and each validated episode has its outbox row.
THEOREM MemoryFollowsEpisodesAlways ==
  LearnerSpec => []MemoryFollowsEpisodes
<1>1. MemoryInv => MemoryFollowsEpisodes
  <2>. SUFFICES ASSUME MemoryInv PROVE MemoryFollowsEpisodes
    OBVIOUS
  <2>1. ASSUME NEW s \in Students, NEW key \in Keys PROVE KeyFollowsEpisodes(s, key)
    <3>. DEFINE done == {ep \in EpisodesOf(s, key) : ep.status # "candidate"}
                validated == {ep \in done : ep.status = "validated"}
    <3>1. done = DoneOf(episodes, s, key) /\ validated = ValidatedOf(episodes, s, key)
      BY DEF EpisodesOf, DoneOf, ValidatedOf, IsOf
    <3>2. Agrees(episodes, stats[<<s, key>>], facts[<<s, key>>], queued, s, key)
      BY DEF MemoryInv
    <3>3. /\ stats[<<s, key>>].attempts = Cardinality(done)
          /\ stats[<<s, key>>].score = EffectOf(done)
          /\ facts[<<s, key>>].supporting = Supporting(episodes, s, key)
          /\ facts[<<s, key>>].version = Cardinality(validated)
          /\ \A v \in 1..facts[<<s, key>>].version : <<<<s, key>>, v>> \in queued
      <4>. HIDE DEF done, validated
      <4>. QED  BY <3>1, <3>2 DEF Agrees
    <3>. QED  BY <3>3, Zenon DEF KeyFollowsEpisodes
  <2>. QED  BY <2>1 DEF MemoryFollowsEpisodes, MemoryInv
<1>. QED  BY <1>1, MemoryFollowsInvariant, PTL
================================================================================
