---------------------------- MODULE IngestionProofs ----------------------------
(***************************************************************************)
(* Proofs about Ingestion, for any sources, files, rules of selection and  *)
(* bounds: nothing of the evaluation set leaves it, and what a review      *)
(* keeps has no duplicates and lost none but duplicates.                   *)
(***************************************************************************)
EXTENDS Ingestion, FiniteSetTheorems, WellFoundedInduction, TLAPS

--------------------------------------------------------------------------------
(* Counting up.                                                            *)

\* What holds of 0 and is kept by the next number holds of all.
LEMMA NaturalsOf ==
  ASSUME NEW S, 0 \in S, \A n \in Nat : n \in S => n + 1 \in S
  PROVE  Nat \subseteq S
<1>. DEFINE T == Nat \ S
            R == {ss \in Nat \X Nat : ss[1] < ss[2]}
<1>. SUFFICES ASSUME T # {} PROVE FALSE
  OBVIOUS
<1>1. IsWellFoundedOn(R, Nat)
  BY NatLessThanWellFounded DEF OpToRel
<1>2. PICK x \in T : \A y \in T : ~(<<y, x>> \in R)
  <2>. HIDE DEF R
  <2>. QED BY <1>1, WFMin, Zenon
<1>3. x # 0 /\ x - 1 \in Nat /\ x - 1 < x
  BY SMT
<1>4. <<x - 1, x>> \in R
  BY <1>3, SMT
<1>5. x - 1 \in S
  BY <1>2, <1>3, <1>4
<1>. QED  BY <1>3, <1>5, SMT

LEMMA GreatestOf ==
  ASSUME NEW k \in Nat, NEW s \in SUBSET (1..k), k \in s
  PROVE  Max(s) = k
<1>1. \A y \in s : k >= y
  OBVIOUS
<1>2. PICK m : m = Max(s) /\ m \in s /\ \A y \in s : m >= y
  BY <1>1 DEF Max
<1>3. m \in 1..k /\ m >= k /\ k >= m
  BY <1>1, <1>2
<1>. QED  BY <1>2, <1>3

--------------------------------------------------------------------------------
(* Folds over the rows of a file.                                          *)

\* The removal of duplicates is a chain of steps, one per row.
LEMMA DeduplicateIsChain ==
  ASSUME NEW L, NEW n \in Nat, DOMAIN L = 1..n
  PROVE  \E h : /\ h[0] = <<>>
                /\ h[n] = Deduplicate(L)
                /\ \A i \in 1..n : h[i] = KeepNew(h[i-1], L[i])
<1>. DEFINE start == <<>>
            Step(g, s) == IF s = {} THEN start ELSE KeepNew(g[s \ {Max(s)}], L[Max(s)])
            IsFold(g, k) == g = [s \in SUBSET (1..k) |-> Step(g, s)]
            S == {k \in Nat : \E g : IsFold(g, k)}
<1>1. 0 \in S
  <2>. DEFINE g == [s \in SUBSET (1..0) |-> start]
  <2>1. \A s \in SUBSET (1..0) : s = {}
    OBVIOUS
  <2>2. IsFold(g, 0)
    BY <2>1
  <2>. QED  BY <2>2
<1>2. ASSUME NEW k \in Nat, k \in S PROVE k + 1 \in S
  <2>1. PICK g : IsFold(g, k)
    BY <1>2
  <2>. DEFINE f == [s \in SUBSET (1..k+1) |->
                       IF k + 1 \in s THEN KeepNew(g[s \ {k+1}], L[k+1]) ELSE g[s]]
  <2>2. ASSUME NEW s \in SUBSET (1..k+1) PROVE f[s] = Step(f, s)
    <3>1. CASE k + 1 \in s
      <4>1. s \ {k+1} \in SUBSET (1..k) /\ s \ {k+1} \in SUBSET (1..k+1) /\ k + 1 \notin s \ {k+1}
        BY <2>2
      <4>2. Max(s) = k + 1
        BY <2>2, <3>1, GreatestOf
      <4>3. f[s \ {k+1}] = g[s \ {k+1}]
        BY <4>1
      <4>. QED  BY <3>1, <4>2, <4>3
    <3>2. CASE k + 1 \notin s
      <4>1. s \in SUBSET (1..k)
        BY <2>2, <3>2
      <4>2. g[s] = Step(g, s)
        BY <2>1, <4>1
      <4>3. /\ s \ {Max(s)} \in SUBSET (1..k+1) /\ k + 1 \notin s \ {Max(s)}
            /\ f[s \ {Max(s)}] = g[s \ {Max(s)}]
        BY <3>2, <4>1
      <4>. QED  BY <3>2, <4>2, <4>3
    <3>. QED  BY <3>1, <3>2
  <2>3. IsFold(f, k + 1)
    <3>. HIDE DEF Step
    <3>. QED  BY <2>2
  <2>4. \E m : IsFold(m, k + 1)
    <3>. HIDE DEF IsFold, f
    <3>. QED  BY <2>3
  <2>. QED
    <3>. HIDE DEF IsFold
    <3>. QED  BY <2>4
<1>3. n \in S
  <2>. HIDE DEF S
  <2>. QED  BY <1>1, <1>2, NaturalsOf
<1>. DEFINE iter == CHOOSE g : IsFold(g, n)
<1>4. FoldLeft(KeepNew, start, L) = iter[1..n]
  BY DEF FoldLeft, MapThenFoldSet
<1>5. iter = [s \in SUBSET (1..n) |-> Step(iter, s)]
  BY <1>3
<1>. DEFINE h == [i \in 0..n |-> iter[1..i]]
<1>. HIDE DEF iter
<1>6. h[0] = start /\ h[n] = FoldLeft(KeepNew, start, L)
  <2>1. 1..0 = {} /\ 1..0 \in SUBSET (1..n)
    OBVIOUS
  <2>2. iter[1..0] = start
    BY <1>5, <2>1
  <2>. QED  BY <1>4, <2>2
<1>7. ASSUME NEW i \in 1..n PROVE h[i] = KeepNew(h[i-1], L[i])
  <2>0. i \in Nat /\ 1 <= i /\ i <= n
    OBVIOUS
  <2>1. /\ 1..i \in SUBSET (1..n) /\ 1..i # {} /\ i \in 1..i
        /\ i - 1 \in Nat /\ i - 1 \in 0..n /\ i \in 0..n
    BY <2>0
  <2>3. (1..i) \ {i} = 1..(i-1)
    OBVIOUS
  <2>2. Max(1..i) = i
    BY <2>1, GreatestOf
  <2>. QED  BY <1>5, <2>1, <2>2, <2>3
<1>. QED  BY <1>6, <1>7 DEF Deduplicate

\* So is the sorting.
LEMMA SortedIsChain ==
  ASSUME NEW L, NEW n \in Nat, DOMAIN L = 1..n
  PROVE  \E h : /\ h[0] = <<>>
                /\ h[n] = Sorted(L)
                /\ \A i \in 1..n : h[i] = Inserted(h[i-1], L[i])
<1>. DEFINE start == <<>>
            Step(g, s) == IF s = {} THEN start ELSE Inserted(g[s \ {Max(s)}], L[Max(s)])
            IsFold(g, k) == g = [s \in SUBSET (1..k) |-> Step(g, s)]
            S == {k \in Nat : \E g : IsFold(g, k)}
<1>1. 0 \in S
  <2>. DEFINE g == [s \in SUBSET (1..0) |-> start]
  <2>1. \A s \in SUBSET (1..0) : s = {}
    OBVIOUS
  <2>2. IsFold(g, 0)
    BY <2>1
  <2>. QED  BY <2>2
<1>2. ASSUME NEW k \in Nat, k \in S PROVE k + 1 \in S
  <2>1. PICK g : IsFold(g, k)
    BY <1>2
  <2>. DEFINE f == [s \in SUBSET (1..k+1) |->
                       IF k + 1 \in s THEN Inserted(g[s \ {k+1}], L[k+1]) ELSE g[s]]
  <2>2. ASSUME NEW s \in SUBSET (1..k+1) PROVE f[s] = Step(f, s)
    <3>1. CASE k + 1 \in s
      <4>1. s \ {k+1} \in SUBSET (1..k) /\ s \ {k+1} \in SUBSET (1..k+1) /\ k + 1 \notin s \ {k+1}
        BY <2>2
      <4>2. Max(s) = k + 1
        BY <2>2, <3>1, GreatestOf
      <4>3. f[s \ {k+1}] = g[s \ {k+1}]
        BY <4>1
      <4>. QED  BY <3>1, <4>2, <4>3
    <3>2. CASE k + 1 \notin s
      <4>1. s \in SUBSET (1..k)
        BY <2>2, <3>2
      <4>2. g[s] = Step(g, s)
        BY <2>1, <4>1
      <4>3. /\ s \ {Max(s)} \in SUBSET (1..k+1) /\ k + 1 \notin s \ {Max(s)}
            /\ f[s \ {Max(s)}] = g[s \ {Max(s)}]
        BY <3>2, <4>1
      <4>. QED  BY <3>2, <4>2, <4>3
    <3>. QED  BY <3>1, <3>2
  <2>3. IsFold(f, k + 1)
    <3>. HIDE DEF Step
    <3>. QED  BY <2>2
  <2>4. \E m : IsFold(m, k + 1)
    <3>. HIDE DEF IsFold, f
    <3>. QED  BY <2>3
  <2>. QED
    <3>. HIDE DEF IsFold
    <3>. QED  BY <2>4
<1>3. n \in S
  <2>. HIDE DEF S
  <2>. QED  BY <1>1, <1>2, NaturalsOf
<1>. DEFINE iter == CHOOSE g : IsFold(g, n)
<1>4. FoldLeft(Inserted, start, L) = iter[1..n]
  BY DEF FoldLeft, MapThenFoldSet
<1>5. iter = [s \in SUBSET (1..n) |-> Step(iter, s)]
  BY <1>3
<1>. DEFINE h == [i \in 0..n |-> iter[1..i]]
<1>. HIDE DEF iter
<1>6. h[0] = start /\ h[n] = FoldLeft(Inserted, start, L)
  <2>1. 1..0 = {} /\ 1..0 \in SUBSET (1..n)
    OBVIOUS
  <2>2. iter[1..0] = start
    BY <1>5, <2>1
  <2>. QED  BY <1>4, <2>2
<1>7. ASSUME NEW i \in 1..n PROVE h[i] = Inserted(h[i-1], L[i])
  <2>0. i \in Nat /\ 1 <= i /\ i <= n
    OBVIOUS
  <2>1. /\ 1..i \in SUBSET (1..n) /\ 1..i # {} /\ i \in 1..i
        /\ i - 1 \in Nat /\ i - 1 \in 0..n /\ i \in 0..n
    BY <2>0
  <2>3. (1..i) \ {i} = 1..(i-1)
    OBVIOUS
  <2>2. Max(1..i) = i
    BY <2>1, GreatestOf
  <2>. QED  BY <1>5, <2>1, <2>2, <2>3
<1>. QED  BY <1>6, <1>7 DEF Sorted

\* And so is the making of the lists.
Listed(L) == FoldLeft(Filed, NoRowsYet, L)

LEMMA ListedIsChain ==
  ASSUME NEW L, NEW n \in Nat, DOMAIN L = 1..n
  PROVE  \E h : /\ h[0] = NoRowsYet
                /\ h[n] = Listed(L)
                /\ \A i \in 1..n : h[i] = Filed(h[i-1], L[i])
<1>. DEFINE start == NoRowsYet
            Step(g, s) == IF s = {} THEN start ELSE Filed(g[s \ {Max(s)}], L[Max(s)])
            IsFold(g, k) == g = [s \in SUBSET (1..k) |-> Step(g, s)]
            S == {k \in Nat : \E g : IsFold(g, k)}
<1>1. 0 \in S
  <2>. DEFINE g == [s \in SUBSET (1..0) |-> start]
  <2>1. \A s \in SUBSET (1..0) : s = {}
    OBVIOUS
  <2>2. IsFold(g, 0)
    BY <2>1
  <2>. QED  BY <2>2
<1>2. ASSUME NEW k \in Nat, k \in S PROVE k + 1 \in S
  <2>1. PICK g : IsFold(g, k)
    BY <1>2
  <2>. DEFINE f == [s \in SUBSET (1..k+1) |->
                       IF k + 1 \in s THEN Filed(g[s \ {k+1}], L[k+1]) ELSE g[s]]
  <2>2. ASSUME NEW s \in SUBSET (1..k+1) PROVE f[s] = Step(f, s)
    <3>1. CASE k + 1 \in s
      <4>1. s \ {k+1} \in SUBSET (1..k) /\ s \ {k+1} \in SUBSET (1..k+1) /\ k + 1 \notin s \ {k+1}
        BY <2>2
      <4>2. Max(s) = k + 1
        BY <2>2, <3>1, GreatestOf
      <4>3. f[s \ {k+1}] = g[s \ {k+1}]
        BY <4>1
      <4>. QED  BY <3>1, <4>2, <4>3
    <3>2. CASE k + 1 \notin s
      <4>1. s \in SUBSET (1..k)
        BY <2>2, <3>2
      <4>2. g[s] = Step(g, s)
        BY <2>1, <4>1
      <4>3. /\ s \ {Max(s)} \in SUBSET (1..k+1) /\ k + 1 \notin s \ {Max(s)}
            /\ f[s \ {Max(s)}] = g[s \ {Max(s)}]
        BY <3>2, <4>1
      <4>. QED  BY <3>2, <4>2, <4>3
    <3>. QED  BY <3>1, <3>2
  <2>3. IsFold(f, k + 1)
    <3>. HIDE DEF Step
    <3>. QED  BY <2>2
  <2>4. \E m : IsFold(m, k + 1)
    <3>. HIDE DEF IsFold, f
    <3>. QED  BY <2>3
  <2>. QED
    <3>. HIDE DEF IsFold
    <3>. QED  BY <2>4
<1>3. n \in S
  <2>. HIDE DEF S
  <2>. QED  BY <1>1, <1>2, NaturalsOf
<1>. DEFINE iter == CHOOSE g : IsFold(g, n)
<1>4. FoldLeft(Filed, start, L) = iter[1..n]
  BY DEF FoldLeft, MapThenFoldSet
<1>5. iter = [s \in SUBSET (1..n) |-> Step(iter, s)]
  BY <1>3
<1>. DEFINE h == [i \in 0..n |-> iter[1..i]]
<1>. HIDE DEF iter
<1>6. h[0] = start /\ h[n] = FoldLeft(Filed, start, L)
  <2>1. 1..0 = {} /\ 1..0 \in SUBSET (1..n)
    OBVIOUS
  <2>2. iter[1..0] = start
    BY <1>5, <2>1
  <2>. QED  BY <1>4, <2>2
<1>7. ASSUME NEW i \in 1..n PROVE h[i] = Filed(h[i-1], L[i])
  <2>0. i \in Nat /\ 1 <= i /\ i <= n
    OBVIOUS
  <2>1. /\ 1..i \in SUBSET (1..n) /\ 1..i # {} /\ i \in 1..i
        /\ i - 1 \in Nat /\ i - 1 \in 0..n /\ i \in 0..n
    BY <2>0
  <2>3. (1..i) \ {i} = 1..(i-1)
    OBVIOUS
  <2>2. Max(1..i) = i
    BY <2>1, GreatestOf
  <2>. QED  BY <1>5, <2>1, <2>2, <2>3
<1>. QED  BY <1>6, <1>7 DEF Listed

--------------------------------------------------------------------------------
(* The removal of duplicates.                                              *)

\* A row matches another one: its text is the same, or it is near in its source.
Matches(row, k) ==
    \/ k.text = row.text
    \/ /\ Cardinality(row.words) >= ComparedWords
       /\ k.source = row.source /\ Similarity(row, k) >= NearDuplicate

Repeats(row, kept) == IsExactDuplicate(row, kept) \/ IsNearDuplicate(row, kept)

LEMMA RepeatsIsMatch ==
  ASSUME NEW row, NEW kept
  PROVE  Repeats(row, kept) <=> \E i \in DOMAIN kept : Matches(row, kept[i])
BY DEF Repeats, IsExactDuplicate, IsNearDuplicate, Matches, Range

\* No row of a list matches an earlier one.
IsClean(kept) == \A i, j \in DOMAIN kept : i < j => ~Matches(kept[j], kept[i])

\* The rows of L up to i are in the list or match a row of it.
IsCovered(L, i, kept) ==
    \A j \in 1..i : \E k \in DOMAIN kept : L[j] = kept[k] \/ Matches(L[j], kept[k])

LEMMA KeepNewKeeps ==
  ASSUME NEW S, NEW L \in Seq(S), NEW i \in 1..Len(L), NEW kept \in Seq(S),
         IsClean(kept), IsCovered(L, i - 1, kept)
  PROVE  /\ KeepNew(kept, L[i]) \in Seq(S)
         /\ IsClean(KeepNew(kept, L[i]))
         /\ IsCovered(L, i, KeepNew(kept, L[i]))
<1>. DEFINE row == L[i]
            new == Append(kept, row)
<1>0. /\ i \in Nat /\ row \in S
      /\ \A j \in 1..i : j = i \/ j \in 1..(i - 1)
  OBVIOUS
<1>1. CASE Repeats(row, kept)
  <2>1. KeepNew(kept, row) = kept
    BY <1>1 DEF KeepNew, Repeats
  <2>2. PICK k \in DOMAIN kept : Matches(row, kept[k])
    BY <1>1, RepeatsIsMatch
  <2>. HIDE DEF row
  <2>3. IsCovered(L, i, kept)
    BY <1>0, <2>2 DEF IsCovered, row
  <2>. QED  BY <2>1, <2>3 DEF row
<1>2. CASE ~Repeats(row, kept)
  <2>1. KeepNew(kept, row) = new
    BY <1>2 DEF KeepNew, Repeats
  <2>2. \A k \in DOMAIN kept : ~Matches(row, kept[k])
    BY <1>2, RepeatsIsMatch
  <2>3. /\ new \in Seq(S) /\ DOMAIN kept = 1..Len(kept) /\ Len(kept) \in Nat
        /\ DOMAIN new = 1..(Len(kept) + 1) /\ new[Len(kept) + 1] = row
        /\ \A k \in DOMAIN kept : new[k] = kept[k]
    BY <1>0
  <2>. HIDE DEF row, new
  <2>4. IsClean(new)
    <3>. SUFFICES ASSUME NEW k \in DOMAIN new, NEW j \in DOMAIN new, k < j
                  PROVE  ~Matches(new[j], new[k])
      BY DEF IsClean
    <3>1. k \in DOMAIN kept
      BY <2>3
    <3>2. CASE j \in DOMAIN kept
      BY <2>3, <3>1, <3>2 DEF IsClean
    <3>3. CASE j = Len(kept) + 1
      BY <2>2, <2>3, <3>1, <3>3
    <3>. QED  BY <2>3, <3>2, <3>3
  <2>5. IsCovered(L, i, new)
    <3>. SUFFICES ASSUME NEW j \in 1..i
                  PROVE  \E k \in DOMAIN new : L[j] = new[k] \/ Matches(L[j], new[k])
      BY DEF IsCovered
    <3>1. CASE j = i
      <4>1. Len(kept) + 1 \in DOMAIN new
        BY <2>3
      <4>. QED  BY <2>3, <3>1, <4>1 DEF row
    <3>2. CASE j \in 1..(i - 1)
      <4>1. PICK k \in DOMAIN kept : L[j] = kept[k] \/ Matches(L[j], kept[k])
        BY <3>2 DEF IsCovered
      <4>2. k \in DOMAIN new /\ new[k] = kept[k]
        BY <2>3
      <4>. QED  BY <4>1, <4>2
    <3>. QED  BY <1>0, <3>1, <3>2
  <2>. QED  BY <2>1, <2>3, <2>4, <2>5 DEF row
<1>. QED  BY <1>1, <1>2

\* What is kept is clean and covers what was there.
LEMMA DeduplicateIsRight ==
  ASSUME NEW S, NEW L \in Seq(S)
  PROVE  /\ Deduplicate(L) \in Seq(S)
         /\ IsClean(Deduplicate(L))
         /\ IsCovered(L, Len(L), Deduplicate(L))
<1>. DEFINE n == Len(L)
<1>1. n \in Nat /\ DOMAIN L = 1..n
  OBVIOUS
<1>2. PICK h : /\ h[0] = <<>> /\ h[n] = Deduplicate(L)
               /\ \A i \in 1..n : h[i] = KeepNew(h[i-1], L[i])
  BY <1>1, DeduplicateIsChain
<1>. DEFINE Right(i) == h[i] \in Seq(S) /\ IsClean(h[i]) /\ IsCovered(L, i, h[i])
            K == {i \in Nat : i <= n => Right(i)}
<1>3. 0 \in K
  <2>1. <<>> \in Seq(S) /\ DOMAIN <<>> = {} /\ 1..0 = {}
    OBVIOUS
  <2>2. IsClean(<<>>) /\ IsCovered(L, 0, <<>>)
    BY <2>1 DEF IsClean, IsCovered
  <2>. QED  BY <1>2, <2>1, <2>2
<1>4. ASSUME NEW i \in Nat, i \in K PROVE i + 1 \in K
  <2>. SUFFICES ASSUME i + 1 <= n PROVE Right(i + 1)
    OBVIOUS
  <2>1. i + 1 \in 1..n /\ (i + 1) - 1 = i /\ i <= n
    BY <1>1
  <2>2. Right(i)
    BY <1>4, <2>1
  <2>3. h[i + 1] = KeepNew(h[i], L[i + 1])
    BY <1>2, <2>1
  <2>. QED  BY <2>1, <2>2, <2>3, KeepNewKeeps
<1>5. n \in K
  <2>. HIDE DEF K
  <2>. QED  BY <1>1, <1>3, <1>4, NaturalsOf
<1>. QED  BY <1>1, <1>2, <1>5

--------------------------------------------------------------------------------
(* The lists of a review.                                                  *)

LEMMA AppendIs ==
  ASSUME NEW S, NEW L \in Seq(S), NEW e \in S
  PROVE  /\ Append(L, e) \in Seq(S)
         /\ \A i \in DOMAIN Append(L, e) :
              Append(L, e)[i] = e \/ (i \in DOMAIN L /\ Append(L, e)[i] = L[i])
<1>1. /\ Append(L, e) \in Seq(S) /\ Len(L) \in Nat
      /\ DOMAIN L = 1..Len(L) /\ DOMAIN Append(L, e) = 1..(Len(L) + 1)
      /\ Append(L, e)[Len(L) + 1] = e
      /\ \A i \in 1..Len(L) : Append(L, e)[i] = L[i]
  OBVIOUS
<1>2. PICK n, M : n \in Nat /\ n = Len(L) /\ M = Append(L, e)
  BY <1>1
<1>3. \A i \in 1..(n + 1) : i = n + 1 \/ i \in 1..n
  BY <1>2
<1>4. /\ M \in Seq(S) /\ DOMAIN L = 1..n /\ DOMAIN M = 1..(n + 1)
      /\ M[n + 1] = e /\ \A i \in 1..n : M[i] = L[i]
  BY <1>1, <1>2
<1>5. \A i \in DOMAIN M : M[i] = e \/ (i \in DOMAIN L /\ M[i] = L[i])
  BY <1>3, <1>4
<1>. QED  BY <1>2, <1>4, <1>5

LEMMA PairIs ==
  ASSUME NEW A, NEW B, NEW a \in A, NEW b \in B
  PROVE  <<a, b>> \in A \X B /\ <<a, b>>[1] = a /\ <<a, b>>[2] = b
OBVIOUS

LEMMA NothingIs ==
  ASSUME NEW S
  PROVE  <<>> \in Seq(S) /\ DOMAIN <<>> = {}
OBVIOUS

LEMMA InsertedTyped ==
  ASSUME NEW S, NEW L \in Seq(S), NEW row \in S
  PROVE  Inserted(L, row) \in Seq(S)
<1>1. PICK ahead : ahead = {i \in DOMAIN L : ~IsListedBefore(row, L[i])}
  OBVIOUS
<1>2. ahead \subseteq 1..Len(L) /\ Len(L) \in Nat
  BY <1>1
<1>3. IsFiniteSet(1..Len(L)) /\ Cardinality(1..Len(L)) = Len(L)
  <2>1. ASSUME NEW n \in Nat PROVE IsFiniteSet(1..n) /\ Cardinality(1..n) = n
    BY FS_Interval
  <2>. QED  BY <1>2, <2>1
<1>4. Cardinality(ahead) \in Nat /\ Cardinality(ahead) <= Len(L)
  BY <1>2, <1>3, FS_Subset, FS_CardinalityType
<1>5. PICK k \in 0..Len(L) : k = Cardinality(ahead)
  BY <1>2, <1>4
<1>6. SubSeq(L, 1, k) \in Seq(S) /\ SubSeq(L, k + 1, Len(L)) \in Seq(S) /\ <<row>> \in Seq(S)
  BY <1>2
<1>7. (k + 1) - 1 = k
  OBVIOUS
<1>8. Inserted(L, row) = (SubSeq(L, 1, k) \o <<row>>) \o SubSeq(L, k + 1, Len(L))
  BY <1>1, <1>5, <1>7 DEF Inserted, InsertAt
<1>. QED  BY <1>6, <1>8

LEMMA SortedTyped ==
  ASSUME NEW S, NEW L \in Seq(S)
  PROVE  Sorted(L) \in Seq(S)
<1>. DEFINE n == Len(L)
<1>1. n \in Nat /\ DOMAIN L = 1..n /\ \A i \in 1..n : L[i] \in S
  OBVIOUS
<1>2. PICK h : /\ h[0] = <<>> /\ h[n] = Sorted(L)
               /\ \A i \in 1..n : h[i] = Inserted(h[i-1], L[i])
  BY <1>1, SortedIsChain
<1>. DEFINE K == {i \in Nat : i <= n => h[i] \in Seq(S)}
<1>3. 0 \in K
  BY <1>2, NothingIs
<1>4. ASSUME NEW i \in Nat, i \in K PROVE i + 1 \in K
  <2>. SUFFICES ASSUME i + 1 <= n PROVE h[i + 1] \in Seq(S)
    OBVIOUS
  <2>1. i + 1 \in 1..n /\ (i + 1) - 1 = i /\ i <= n
    BY <1>1
  <2>2. h[i] \in Seq(S) /\ h[i + 1] = Inserted(h[i], L[i + 1])
    BY <1>2, <1>4, <2>1
  <2>. QED  BY <1>1, <2>1, <2>2, InsertedTyped
<1>5. n \in K
  <2>. HIDE DEF K
  <2>. QED  BY <1>1, <1>3, <1>4, NaturalsOf
<1>. QED  BY <1>1, <1>2, <1>5

\* The files that may have rows of the evaluation set.
EvaluationFiles ==
    {"all-candidates", "evaluation-list", "evaluation_only", "blocked-list", "blocked"}

\* A file has no rows of the evaluation set that it may not have.
KeepsApart(f, rows) ==
    f \in EvaluationFiles \/ \A i \in DOMAIN rows : rows[i].source # "gsm8k"

AllApart(files) == \A i \in DOMAIN files : KeepsApart(files[i][1], files[i][2])

LEMMA NoRowIsApart ==
  ASSUME NEW S
  PROVE  <<>> \in Seq(S) /\ \A f : KeepsApart(f, <<>>)
BY NothingIs DEF KeepsApart

LEMMA RouteOfEvaluation ==
  ASSUME NEW row
  PROVE  /\ Route(row) \in Files
         /\ row.source = "gsm8k" => FilesOf(Route(row)) \subseteq EvaluationFiles
<1>1. Route(row) \in Routes
  BY DEF Route, ReviewRoute, Routes
<1>2. ASSUME row.source = "gsm8k" PROVE Route(row) \in {"blocked", "evaluation_only"}
  BY <1>2 DEF Route, ReviewRoute
<1>3. row.source = "gsm8k" => FilesOf(Route(row)) \subseteq EvaluationFiles
  BY <1>2 DEF FilesOf, EvaluationFiles
<1>. QED  BY <1>1, <1>3 DEF Files

LEMMA FiledKeeps ==
  ASSUME NEW S, NEW row \in S, NEW files \in Seq(Files \X Seq(S)), AllApart(files)
  PROVE  Filed(files, row) \in Seq(Files \X Seq(S)) /\ AllApart(Filed(files, row))
<1>1. PICK route : route = Route(row)
  OBVIOUS
<1>2. route \in Files /\ (row.source = "gsm8k" => FilesOf(route) \subseteq EvaluationFiles)
  BY <1>1, RouteOfEvaluation
<1>3. PICK none : none = <<>> /\ none \in Seq(S) /\ KeepsApart(route, none)
  BY NoRowIsApart
<1>4. PICK opened : opened = IF \E i \in DOMAIN files : files[i][1] = route
                             THEN files ELSE Append(files, <<route, none>>)
  OBVIOUS
<1>5. opened \in Seq(Files \X Seq(S)) /\ AllApart(opened)
  <2>1. CASE opened = files
    BY <2>1
  <2>2. CASE opened = Append(files, <<route, none>>)
    <3>1. PICK X : X = Files \X Seq(S)
      OBVIOUS
    <3>2. PICK e : e = <<route, none>> /\ e \in X /\ e[1] = route /\ e[2] = none
      <4>1. route \in Files /\ none \in Seq(S)
        BY <1>2, <1>3
      <4>2. <<route, none>> \in X /\ <<route, none>>[1] = route /\ <<route, none>>[2] = none
        BY <3>1, <4>1, PairIs
      <4>. QED  BY <4>2
    <3>3. files \in Seq(X) /\ opened = Append(files, e) /\ KeepsApart(e[1], e[2])
      BY <1>3, <2>2, <3>1, <3>2
    <3>4. /\ opened \in Seq(X)
          /\ \A i \in DOMAIN opened : opened[i] = e \/ (i \in DOMAIN files /\ opened[i] = files[i])
      BY <3>2, <3>3, AppendIs
    <3>5. AllApart(opened)
      BY <3>3, <3>4 DEF AllApart
    <3>. QED  BY <3>1, <3>4, <3>5
  <2>. QED  BY <1>4, <2>1, <2>2
<1>6. PICK m \in Nat : m = Len(opened) /\ DOMAIN opened = 1..m
                       /\ \A i \in 1..m : opened[i] \in Files \X Seq(S)
  BY <1>5
<1>. DEFINE At(i) == IF opened[i][1] \in FilesOf(route)
                     THEN <<opened[i][1], Append(opened[i][2], row)>> ELSE opened[i]
<1>7. Filed(files, row) = [i \in 1..m |-> At(i)]
  BY <1>1, <1>3, <1>4, <1>6 DEF Filed
<1>8. ASSUME NEW i \in 1..m
      PROVE  At(i) \in Files \X Seq(S) /\ KeepsApart(At(i)[1], At(i)[2])
  <2>1. PICK f \in Files, rows \in Seq(S) :
           opened[i] = <<f, rows>> /\ opened[i][1] = f /\ opened[i][2] = rows
    BY <1>6
  <2>2. KeepsApart(f, rows)
    BY <1>5, <1>6, <2>1 DEF AllApart
  <2>3. CASE f \in FilesOf(route)
    <3>1. PICK more : more = Append(rows, row)
      OBVIOUS
    <3>2. /\ more \in Seq(S)
          /\ \A j \in DOMAIN more : more[j] = row \/ (j \in DOMAIN rows /\ more[j] = rows[j])
      BY <3>1, AppendIs
    <3>3. KeepsApart(f, more)
      BY <1>2, <2>2, <2>3, <3>2 DEF KeepsApart
    <3>4. At(i) = <<f, more>>
      BY <2>1, <2>3, <3>1
    <3>5. <<f, more>> \in Files \X Seq(S) /\ <<f, more>>[1] = f /\ <<f, more>>[2] = more
      BY <3>2, PairIs
    <3>. QED  BY <3>3, <3>4, <3>5
  <2>4. CASE f \notin FilesOf(route)
    BY <2>1, <2>2, <2>4
  <2>. QED  BY <2>3, <2>4
<1>. QED
  <2>. HIDE DEF At
  <2>1. PICK X : X = Files \X Seq(S)
    OBVIOUS
  <2>2. PICK made : made = [i \in 1..m |-> At(i)]
    OBVIOUS
  <2>3. made \in Seq(X) /\ DOMAIN made = 1..m /\ \A i \in 1..m : made[i] = At(i)
    BY <1>8, <2>1, <2>2
  <2>. QED  BY <1>7, <1>8, <2>1, <2>2, <2>3 DEF AllApart

LEMMA NoRowsApart ==
  ASSUME NEW S
  PROVE  NoRowsYet \in Seq(Files \X Seq(S)) /\ AllApart(NoRowsYet)
<1>1. PICK none : none = <<>> /\ none \in Seq(S) /\ \A f : KeepsApart(f, none)
  BY NoRowIsApart
<1>2. \A f \in Files : <<f, none>> \in Files \X Seq(S) /\ <<f, none>>[2] = none
  BY <1>1, PairIs
<1>3. /\ "all-candidates" \in Files /\ "review-queue" \in Files
      /\ "evaluation-list" \in Files /\ "blocked-list" \in Files
  BY DEF Files
<1>4. PICK X : X = Files \X Seq(S)
  OBVIOUS
<1>5. PICK a, b, c, d : /\ a = <<"all-candidates", none>> /\ b = <<"review-queue", none>>
                        /\ c = <<"evaluation-list", none>> /\ d = <<"blocked-list", none>>
                        /\ a \in X /\ b \in X /\ c \in X /\ d \in X
                        /\ a[2] = none /\ b[2] = none /\ c[2] = none /\ d[2] = none
  BY <1>2, <1>3, <1>4
<1>6. NoRowsYet = <<a, b, c, d>>
  BY <1>1, <1>5 DEF NoRowsYet
<1>7. /\ NoRowsYet \in Seq(X)
      /\ \A i \in DOMAIN NoRowsYet : NoRowsYet[i] \in {a, b, c, d}
  BY <1>5, <1>6
<1>. QED  BY <1>1, <1>4, <1>5, <1>7 DEF AllApart

\* Whatever the rows and the registry, the evaluation set is kept apart.
LEMMA ReviewKeepsApart ==
  ASSUME NEW S, NEW rows \in Seq(S)
  PROVE  ReviewFiles(rows) \in Seq(Files \X Seq(S)) /\ AllApart(ReviewFiles(rows))
<1>1. PICK L \in Seq(S) : L = Sorted(rows)
  BY SortedTyped
<1>2. PICK n \in Nat : DOMAIN L = 1..n /\ \A i \in 1..n : L[i] \in S
  OBVIOUS
<1>3. PICK h : /\ h[0] = NoRowsYet /\ h[n] = Listed(L)
               /\ \A i \in 1..n : h[i] = Filed(h[i-1], L[i])
  BY <1>2, ListedIsChain
<1>. DEFINE Right(i) == h[i] \in Seq(Files \X Seq(S)) /\ AllApart(h[i])
            K == {i \in Nat : i <= n => Right(i)}
<1>4. 0 \in K
  BY <1>3, NoRowsApart
<1>5. ASSUME NEW i \in Nat, i \in K PROVE i + 1 \in K
  <2>. SUFFICES ASSUME i + 1 <= n PROVE Right(i + 1)
    OBVIOUS
  <2>1. i + 1 \in 1..n /\ (i + 1) - 1 = i /\ i <= n /\ L[i + 1] \in S
    BY <1>2
  <2>2. Right(i)
    BY <1>5, <2>1
  <2>3. h[i + 1] = Filed(h[i], L[i + 1])
    BY <1>3, <2>1
  <2>. QED  BY <2>1, <2>2, <2>3, FiledKeeps
<1>6. n \in K
  <2>. HIDE DEF K
  <2>. QED  BY <1>4, <1>5, NaturalsOf
<1>7. ReviewFiles(rows) = h[n]
  BY <1>1, <1>3 DEF ReviewFiles, Listed
<1>. QED  BY <1>6, <1>7

--------------------------------------------------------------------------------
(* The files, through acquisitions, reviews and selections.                *)

IsFile(file) == file \in Seq(Rows) \cup {NoFile}

\* The inductive invariant: in what a review has written and is going to write, and
\* in the selection, the evaluation set is apart.
IngestionInv ==
    /\ TypeOK
    /\ AllApart(writing)
    /\ \A f \in Files : KeepsApart(f, RowsOf(reviewed[f]))
    /\ manifest # NoFile => \A row \in manifest : row.source # "gsm8k"

LEMMA UpstreamIsFile ==
  ASSUME NEW s \in Sources, NEW file \in Upstream[s]
  PROVE  IsFile(file)
<1>1. file \in Seq(Range(file))
  BY UpstreamAreFiles
<1>2. Upstream[s] \in Range(Upstream)
  BY DEF Range, Sources
<1>3. Range(file) \subseteq Rows
  BY <1>2 DEF Rows
<1>4. file \in Seq(Rows)
  BY <1>1, <1>3
<1>. QED  BY <1>4 DEF IsFile

LEMMA AcquiredTyped ==
  ASSUME NEW files, \A s \in Sources : IsFile(files[s])
  PROVE  AcquiredRows(files) \in Seq(Rows)
<1>1. ASSUME NEW s PROVE SourceRows(files, s) \in Seq(Rows)
  BY DEF SourceRows, RowsOf, IsFile
<1>. HIDE DEF SourceRows
<1>. QED  BY <1>1 DEF AcquiredRows

LEMMA IngestionInitHolds == Init => IngestionInv
<1>. SUFFICES ASSUME Init PROVE IngestionInv
  OBVIOUS
<1>1. \A s \in Sources : Configured[s] \in Range(Configured)
  BY SourcesAreConfigured DEF Range
<1>2. PICK none : none = <<>> /\ none \in Seq(Files \X Seq(Rows)) /\ DOMAIN none = {}
  BY NothingIs
<1>3. TypeOK
  <2>1. registry \in [Sources -> [status : Range(Configured) \cup {"prohibited"}, enabled : BOOLEAN]]
    BY <1>1 DEF Init
  <2>2. edits \in 0..MaxEdits /\ reviews \in 0..MaxReviews
    BY BoundsAreNaturals DEF Init
  <2>3. writing \in Seq(Files \X Seq(Rows))
    BY <1>2 DEF Init
  <2>. QED  BY <2>1, <2>2, <2>3 DEF Init, TypeOK
<1>4. AllApart(writing)
  BY <1>2 DEF Init, AllApart
<1>5. \A f \in Files : RowsOf(reviewed[f]) = <<>>
  BY DEF Init, RowsOf
<1>6. \A f \in Files : KeepsApart(f, <<>>)
  BY NoRowIsApart
<1>. QED  BY <1>3, <1>4, <1>5, <1>6 DEF Init, IngestionInv

LEMMA EditKeeps ==
  ASSUME IngestionInv, NEW s \in Sources, EditSource(s)
  PROVE  IngestionInv'
<1>1. Configured[s] \in Range(Configured)
  BY SourcesAreConfigured DEF Range
<1>2. registry' \in [Sources -> [status : Range(Configured) \cup {"prohibited"}, enabled : BOOLEAN]]
  BY <1>1 DEF EditSource, IngestionInv, TypeOK
<1>3. edits' \in 0..MaxEdits
  BY BoundsAreNaturals DEF EditSource, IngestionInv, TypeOK
<1>. QED  BY <1>2, <1>3 DEF EditSource, IngestionInv, TypeOK, AllApart

LEMMA AcquireKeeps ==
  ASSUME IngestionInv, NEW s \in Sources, Acquire(s)
  PROVE  IngestionInv'
<1>1. PICK file \in Upstream[s], complete \in BOOLEAN :
         /\ raw' = [raw EXCEPT ![s] = Downloaded(s, file)]
         /\ staging' = IF complete /\ s # "deepmind"
                        THEN [staging EXCEPT ![s] = raw'[s]] ELSE staging
  BY DEF Acquire
<1>2. IsFile(Downloaded(s, file))
  BY UpstreamIsFile DEF Downloaded, IngestionInv, TypeOK, IsFile
<1>3. raw' \in [Sources -> Seq(Rows) \cup {NoFile}]
  BY <1>1, <1>2 DEF IngestionInv, TypeOK, IsFile
<1>4. staging' \in [Sources -> Seq(Rows) \cup {NoFile}]
  BY <1>1, <1>3 DEF IngestionInv, TypeOK
<1>. QED  BY <1>3, <1>4 DEF Acquire, IngestionInv, TypeOK, AllApart

LEMMA BeginKeeps ==
  ASSUME IngestionInv, BeginReview
  PROVE  IngestionInv'
<1>1. PICK files : files = RefreshedStaging
  OBVIOUS
<1>2. files \in [Sources -> Seq(Rows) \cup {NoFile}]
  BY <1>1 DEF RefreshedStaging, IngestionInv, TypeOK
<1>3. AcquiredRows(files) \in Seq(Rows)
  BY <1>2, AcquiredTyped DEF IsFile
<1>4. PICK kept \in Seq(Rows) : kept = Deduplicate(AcquiredRows(files))
  BY <1>3, DeduplicateIsRight
<1>5. ReviewFiles(kept) \in Seq(Files \X Seq(Rows)) /\ AllApart(ReviewFiles(kept))
  BY ReviewKeepsApart
<1>6. PICK lists : lists = ReviewFiles(kept)
  OBVIOUS
<1>7. staging' = files /\ writing' = lists
  BY <1>1, <1>4, <1>6 DEF BeginReview
<1>8. AllApart(writing')
  BY <1>5, <1>6, <1>7 DEF AllApart
<1>9. reviews' \in 0..MaxReviews
  BY BoundsAreNaturals DEF BeginReview, IngestionInv, TypeOK
<1>. QED  BY <1>2, <1>5, <1>6, <1>7, <1>8, <1>9 DEF BeginReview, IngestionInv, TypeOK

LEMMA WriteKeeps ==
  ASSUME IngestionInv, WriteReviewFile
  PROVE  IngestionInv'
<1>1. PICK X : X = Files \X Seq(Rows)
  OBVIOUS
<1>2. writing \in Seq(X) /\ writing # <<>>
  BY <1>1 DEF WriteReviewFile, IngestionInv, TypeOK
<1>3. Head(writing) \in X /\ 1 \in DOMAIN writing /\ Head(writing) = writing[1]
  BY <1>2
<1>4. PICK f \in Files, rows \in Seq(Rows) :
         Head(writing)[1] = f /\ Head(writing)[2] = rows /\ KeepsApart(f, rows)
  BY <1>1, <1>3 DEF IngestionInv, AllApart
<1>5. reviewed' = [reviewed EXCEPT ![f] = rows]
  BY <1>4 DEF WriteReviewFile
<1>6. /\ Tail(writing) \in Seq(X)
      /\ \A i \in DOMAIN Tail(writing) : i + 1 \in DOMAIN writing
                                          /\ Tail(writing)[i] = writing[i + 1]
  BY <1>2
<1>7. writing' \in Seq(X) /\ AllApart(writing')
  BY <1>6 DEF WriteReviewFile, IngestionInv, AllApart
<1>8. KeepsApart(f, RowsOf(rows))
  BY <1>4, NoRowIsApart DEF RowsOf
<1>9. /\ reviewed' \in [Files -> Seq(Rows) \cup {NoFile}]
      /\ \A g \in Files : KeepsApart(g, RowsOf(reviewed'[g]))
  BY <1>5, <1>8 DEF IngestionInv, TypeOK
<1>. QED  BY <1>1, <1>7, <1>9 DEF WriteReviewFile, IngestionInv, TypeOK

LEMMA SelectKeeps ==
  ASSUME IngestionInv, NEW force \in BOOLEAN, SelectCandidates(force)
  PROVE  IngestionInv'
<1>1. \A row \in Selection : row.source # "gsm8k"
  BY DEF Selection, SelectionMatches
<1>2. PICK rows : rows = RowsOf(reviewed["ready_for_rewrite"])
  OBVIOUS
<1>3. rows \in Seq(Rows)
  BY <1>2 DEF RowsOf, IngestionInv, TypeOK, Files, Routes
<1>4. Selection \in SUBSET Rows
  BY <1>2, <1>3 DEF Selection, Range
<1>. QED  BY <1>1, <1>4 DEF SelectCandidates, IngestionInv, TypeOK, AllApart

LEMMA IngestionStep == IngestionInv /\ [Next]_vars => IngestionInv'
<1>. SUFFICES ASSUME IngestionInv, [Next]_vars PROVE IngestionInv'
  OBVIOUS
<1>1. ASSUME NEW s \in Sources, EditSource(s) PROVE IngestionInv'
  BY <1>1, EditKeeps
<1>2. ASSUME NEW s \in Sources, Acquire(s) PROVE IngestionInv'
  BY <1>2, AcquireKeeps
<1>3. CASE GenerateCandidates
  <2>1. staging' \in [Sources -> Seq(Rows) \cup {NoFile}]
    BY <1>3 DEF GenerateCandidates, IngestionInv, TypeOK
  <2>. QED  BY <1>3, <2>1 DEF GenerateCandidates, IngestionInv, TypeOK, AllApart
<1>4. CASE BeginReview
  BY <1>4, BeginKeeps
<1>5. CASE WriteReviewFile
  BY <1>5, WriteKeeps
<1>6. CASE StopReview
  <2>1. PICK none : none = <<>> /\ none \in Seq(Files \X Seq(Rows)) /\ DOMAIN none = {}
    BY NothingIs
  <2>. QED  BY <1>6, <2>1 DEF StopReview, IngestionInv, TypeOK, AllApart
<1>7. ASSUME NEW force \in BOOLEAN, SelectCandidates(force) PROVE IngestionInv'
  BY <1>7, SelectKeeps
<1>8. CASE UNCHANGED vars
  BY <1>8 DEF vars, IngestionInv, TypeOK, AllApart
<1>. QED  BY <1>1, <1>2, <1>3, <1>4, <1>5, <1>6, <1>7, <1>8 DEF Next

(* What the invariant says holds in every state: through acquisitions that *)
(* fail half way, edits of the registry and reviews that stop between two  *)
(* files (acquire.py, review.py, selection.py).                            *)
THEOREM IngestionInvariant == Spec => []IngestionInv
BY IngestionInitHolds, IngestionStep, PTL DEF Spec

(* Nothing of the evaluation set is in a queue, on a route towards student *)
(* content or in the selection, whatever the publishers offer and however  *)
(* the registry is edited between two reviews (map_skill, route_record).   *)
THEOREM EvaluationIsIsolatedAlways == Spec => []EvaluationIsIsolated
<1>1. IngestionInv => EvaluationIsIsolated
  BY DEF IngestionInv, KeepsApart, EvaluationFiles, EvaluationIsIsolated, Range
<1>. QED  BY <1>1, IngestionInvariant, PTL

(* What a review keeps has no duplicate in it and what it drops is one of  *)
(* something it keeps, for any files, any similarity and any order, though *)
(* similarity is not transitive (deduplicate).                             *)
THEOREM DuplicatesAreRemovedAlways == Spec => []DuplicatesAreRemoved
<1>1. IngestionInv => DuplicatesAreRemoved
  <2>. SUFFICES ASSUME IngestionInv PROVE DuplicatesAreRemoved
    OBVIOUS
  <2>1. PICK rows : rows = AcquiredRows(staging)
    OBVIOUS
  <2>2. rows \in Seq(Rows)
    BY <2>1, AcquiredTyped DEF IngestionInv, TypeOK, IsFile
  <2>3. PICK kept : kept = Deduplicate(rows)
    OBVIOUS
  <2>4. IsClean(kept) /\ IsCovered(rows, Len(rows), kept)
    BY <2>2, <2>3, DeduplicateIsRight
  <2>5. ASSUME NEW i \in DOMAIN kept, NEW j \in DOMAIN kept, i < j
        PROVE  ~IsExactDuplicate(kept[j], <<kept[i]>>) /\ ~IsNearDuplicate(kept[j], <<kept[i]>>)
    <3>1. ~Matches(kept[j], kept[i])
      BY <2>4, <2>5 DEF IsClean
    <3>. DEFINE k == kept[i]
    <3>2. <<k>> \in Seq({k}) /\ DOMAIN <<k>> = {1} /\ <<k>>[1] = k
      OBVIOUS
    <3>3. ~Repeats(kept[j], <<k>>)
      BY <3>1, <3>2, RepeatsIsMatch
    <3>. QED  BY <3>3 DEF Repeats
  <2>6. ASSUME NEW row \in Range(rows) \ Range(kept)
        PROVE  IsExactDuplicate(row, kept) \/ IsNearDuplicate(row, kept)
    <3>1. PICK j \in DOMAIN rows : row = rows[j]
      BY DEF Range
    <3>2. j \in 1..Len(rows)
      BY <2>2
    <3>3. PICK k \in DOMAIN kept : row = kept[k] \/ Matches(row, kept[k])
      BY <2>4, <3>1, <3>2 DEF IsCovered
    <3>4. row # kept[k]
      BY DEF Range
    <3>. QED  BY <3>3, <3>4, RepeatsIsMatch DEF Repeats
  <2>. QED  BY <2>1, <2>3, <2>5, <2>6 DEF DuplicatesAreRemoved
<1>. QED  BY <1>1, IngestionInvariant, PTL

================================================================================
