-------------------------- MODULE ResourcePoolProofs --------------------------
(***************************************************************************)
(* Theorems about ResourcePool for any threads, items, sizes and budgets:  *)
(* the pool's byte count is exact and within its limits, and an item has   *)
(* one owner.  The first part is about the sums and the lists the pool is  *)
(* made of.                                                                *)
(***************************************************************************)
EXTENDS ResourcePool, SequenceTheorems, FiniteSetTheorems, WellFoundedInduction, TLAPS

(* Induction, over a set in place of a predicate. *)
LEMMA NatSetInduction ==
  ASSUME NEW S, 0 \in S, \A n \in Nat : n \in S => n + 1 \in S
  PROVE  \A n \in Nat : n \in S
<1> SUFFICES ASSUME NEW n \in Nat, n \notin S PROVE FALSE
  OBVIOUS
<1> DEFINE T == Nat \ S
           Below == OpToRel(<, Nat)
<1>1. PICK x \in T : \A y \in T : ~ (<<y, x>> \in Below)
  BY NatLessThanWellFounded, WFMin
<1>2. x - 1 \in T /\ x - 1 < x
  OBVIOUS
<1>3. <<x - 1, x>> \in Below
  BY <1>2 DEF OpToRel
<1> HIDE DEF Below
<1> QED
  BY <1>1, <1>2, <1>3

LEMMA MinIsMember ==
  ASSUME NEW S, S \subseteq Nat, S # {}
  PROVE  Min(S) \in S /\ \A x \in S : Min(S) <= x
<1> DEFINE Below == OpToRel(<, Nat)
<1>1. PICK x \in S : \A y \in S : ~ (<<y, x>> \in Below)
  BY NatLessThanWellFounded, WFMin
<1>2. \A y \in S : y < x => <<y, x>> \in Below
  BY DEF OpToRel
<1> HIDE DEF Below
<1>3. \A y \in S : ~(y < x)
  BY <1>1, <1>2, Zenon
<1>4. \A y \in S : x <= y
  BY <1>3
<1> QED
  BY <1>4 DEF Min

LEMMA MaxIsMember ==
  ASSUME NEW n \in Nat, NEW S, S \subseteq 0..n, S # {}
  PROVE  Max(S) \in S /\ \A x \in S : x <= Max(S)
<1> DEFINE R == {n - x : x \in S}
<1>1. R \subseteq Nat /\ R # {}
  <2>1. \A x \in S : n - x \in Nat
    OBVIOUS
  <2> QED
    BY <2>1
<1>2. Min(R) \in R /\ \A y \in R : Min(R) <= y
  BY <1>1, MinIsMember
<1>3. PICK x \in S : Min(R) = n - x
  BY <1>2
<1>4. \A y \in S : x >= y
  BY <1>2, <1>3
<1> QED
  BY <1>4 DEF Max

-----------------------------------------------------------------------------
(* Folds over a finite set, taking out one element at a time. *)

Folded(g, S, f, c) ==
  g = [T \in SUBSET S |-> IF T = {} THEN 0 ELSE g[T \ {c[T]}] + f[c[T]]]

FoldedUpTo(g, S, f, c, n) ==
  \A T \in SUBSET S :
    Cardinality(T) <= n => g[T] = IF T = {} THEN 0 ELSE g[T \ {c[T]}] + f[c[T]]

LEMMA Shrinks ==
  ASSUME NEW S, IsFiniteSet(S), NEW T \in SUBSET S
  PROVE  /\ IsFiniteSet(T) /\ Cardinality(T) \in Nat /\ Cardinality(T) <= Cardinality(S)
         /\ Cardinality(T) = 0 <=> T = {}
         /\ \A x \in T : Cardinality(T \ {x}) = Cardinality(T) - 1
BY FS_Subset, FS_CardinalityType, FS_EmptySet, FS_RemoveElement

LEMMA FoldExists ==
  ASSUME NEW S, IsFiniteSet(S), NEW f \in [S -> Nat], NEW c, \A T \in SUBSET S : T # {} => c[T] \in T
  PROVE  \E g \in [SUBSET S -> Nat] : Folded(g, S, f, c)
<1> DEFINE N == {n \in Nat : \E g \in [SUBSET S -> Nat] : FoldedUpTo(g, S, f, c, n)}
<1>1. 0 \in N
  <2> DEFINE g == [T \in SUBSET S |-> 0]
  <2>1. g \in [SUBSET S -> Nat]
    OBVIOUS
  <2>2. FoldedUpTo(g, S, f, c, 0)
    BY Shrinks DEF FoldedUpTo
  <2> HIDE DEF g
  <2> QED
    BY <2>1, <2>2
<1>2. ASSUME NEW n \in Nat, n \in N PROVE n + 1 \in N
  <2>1. PICK g \in [SUBSET S -> Nat] : FoldedUpTo(g, S, f, c, n)
    BY <1>2
  <2> DEFINE h == [T \in SUBSET S |-> IF T = {} THEN 0 ELSE g[T \ {c[T]}] + f[c[T]]]
  <2>2. h \in [SUBSET S -> Nat]
    OBVIOUS
  <2>3. ASSUME NEW T \in SUBSET S, Cardinality(T) <= n + 1, T # {}
        PROVE  h[T] = h[T \ {c[T]}] + f[c[T]]
    <3>1. T \ {c[T]} \in SUBSET S /\ Cardinality(T \ {c[T]}) <= n
      <4>1. Cardinality(T \ {c[T]}) = Cardinality(T) - 1 /\ Cardinality(T) \in Nat
        BY <2>3, Shrinks
      <4> QED
        BY <2>3, <4>1
    <3>2. h[T \ {c[T]}] = g[T \ {c[T]}]
      BY <2>1, <3>1 DEF FoldedUpTo
    <3> QED
      BY <2>3, <3>2
  <2>4. h[{}] = 0
    OBVIOUS
  <2>5. FoldedUpTo(h, S, f, c, n + 1)
    <3> HIDE DEF h
    <3> QED
      BY <2>3, <2>4 DEF FoldedUpTo
  <2> HIDE DEF h
  <2> QED
    BY <2>2, <2>5
<1> HIDE DEF N
<1>3. Cardinality(S) \in N
  BY <1>1, <1>2, NatSetInduction, Shrinks
<1>4. PICK g \in [SUBSET S -> Nat] : FoldedUpTo(g, S, f, c, Cardinality(S))
  BY <1>3 DEF N
<1>5. \A T \in SUBSET S : g[T] = IF T = {} THEN 0 ELSE g[T \ {c[T]}] + f[c[T]]
  BY <1>4, Shrinks DEF FoldedUpTo
<1>6. g = [T \in SUBSET S |-> g[T]]
  OBVIOUS
<1>7. [T \in SUBSET S |-> g[T]] = [T \in SUBSET S |-> IF T = {} THEN 0 ELSE g[T \ {c[T]}] + f[c[T]]]
  BY <1>5, Zenon
<1> QED
  BY <1>6, <1>7 DEF Folded

LEMMA FoldType ==
  ASSUME NEW S, IsFiniteSet(S), NEW f \in [S -> Nat], NEW c, \A T \in SUBSET S : T # {} => c[T] \in T,
         NEW g, Folded(g, S, f, c)
  PROVE  g \in [SUBSET S -> Nat]
<1> DEFINE N == {n \in Nat : \A T \in SUBSET S : Cardinality(T) = n => g[T] \in Nat}
<1>1. \A T \in SUBSET S : g[T] = IF T = {} THEN 0 ELSE g[T \ {c[T]}] + f[c[T]]
  BY DEF Folded
<1>2. 0 \in N
  BY <1>1, Shrinks
<1>3. ASSUME NEW n \in Nat, n \in N PROVE n + 1 \in N
  <2>1. ASSUME NEW T \in SUBSET S, Cardinality(T) = n + 1 PROVE g[T] \in Nat
    <3>1. T # {}
      BY <2>1, Shrinks
    <3>2. Cardinality(T \ {c[T]}) = n
      BY <2>1, <3>1, Shrinks
    <3>3. g[T \ {c[T]}] \in Nat
      BY <1>3, <3>2
    <3>4. f[c[T]] \in Nat
      BY <3>1
    <3>5. g[T] = g[T \ {c[T]}] + f[c[T]]
      BY <1>1, <3>1
    <3> QED
      BY <3>3, <3>4, <3>5
  <2> QED
    BY <2>1
<1> HIDE DEF N
<1>4. \A n \in Nat : n \in N
  BY <1>2, <1>3, NatSetInduction
<1>5. \A T \in SUBSET S : g[T] \in Nat
  BY <1>4, Shrinks DEF N
<1> QED
  BY <1>5 DEF Folded

-----------------------------------------------------------------------------
(* Sums along a list. *)

PartialSums(h, n, w) ==
  /\ h \in [0..n -> Int] /\ h[0] = 0
  /\ \A i \in 1..n : h[i] = h[i - 1] + w[i]

LEMMA PartialSumsUnique ==
  ASSUME NEW n \in Nat, NEW w, NEW h, NEW k, PartialSums(h, n, w), PartialSums(k, n, w)
  PROVE  \A i \in 0..n : h[i] = k[i]
<1> DEFINE N == {i \in Nat : i \in 0..n => h[i] = k[i]}
<1>1. 0 \in N
  BY DEF PartialSums
<1>2. \A i \in Nat : i \in N => i + 1 \in N
  BY DEF PartialSums
<1> HIDE DEF N
<1>3. \A i \in Nat : i \in N
  BY <1>1, <1>2, NatSetInduction
<1> QED
  BY <1>3 DEF N

FoldedFromTheEnd(g, n, w) ==
  /\ g[{}] = 0
  /\ \A T \in SUBSET (1..n) : T # {} => g[T] = g[T \ {Max(T)}] + w[Max(T)]

LEMMA FoldIsPartialSums ==
  ASSUME NEW n \in Nat, NEW w \in [1..n -> Nat], NEW g \in [SUBSET (1..n) -> Nat], FoldedFromTheEnd(g, n, w)
  PROVE  PartialSums([i \in 0..n |-> g[1..i]], n, w)
<1> DEFINE h == [i \in 0..n |-> g[1..i]]
<1>1. h \in [0..n -> Int]
  <2>1. \A i \in 0..n : 1..i \in SUBSET (1..n)
    OBVIOUS
  <2>2. \A i \in 0..n : g[1..i] \in Nat
    BY <2>1
  <2> QED
    BY <2>2
<1>2. h[0] = 0
  <2>1. 1..0 = {}
    OBVIOUS
  <2> QED
    BY <2>1 DEF FoldedFromTheEnd
<1>3. ASSUME NEW i \in 1..n PROVE h[i] = h[i - 1] + w[i]
  <2>1. 1..i # {} /\ 1..i \subseteq 0..n /\ 1..i \in SUBSET (1..n) /\ i \in 0..n /\ i - 1 \in 0..n
    <3>1. i \in 1..i
      OBVIOUS
    <3>2. 1..i \subseteq 0..n /\ 1..i \subseteq 1..n
      OBVIOUS
    <3> QED
      BY <3>1, <3>2
  <2>2. Max(1..i) = i
    <3>1. Max(1..i) \in 1..i /\ \A x \in 1..i : x <= Max(1..i)
      BY <2>1, MaxIsMember
    <3> QED
      BY <3>1
  <2>3. (1..i) \ {i} = 1..(i - 1)
    OBVIOUS
  <2>4. g[1..i] = g[(1..i) \ {Max(1..i)}] + w[Max(1..i)]
    BY <2>1 DEF FoldedFromTheEnd
  <2> QED
    BY <2>1, <2>2, <2>3, <2>4
<1> QED
  BY <1>1, <1>2, <1>3 DEF PartialSums

Weights(s) == [i \in 1..Len(s) |-> Bytes(s[i])]

LEMMA BytesType == \A r \in Items : Bytes(r) \in Nat
BY ResourcePoolAssumption DEF Bytes

LEMMA SumUnfolds ==
  ASSUME NEW s \in Seq(Items)
  PROVE  SumOf(s) \in Nat /\ \E h : PartialSums(h, Len(s), Weights(s)) /\ SumOf(s) = h[Len(s)]
<1> DEFINE D == DOMAIN s
           c == [T \in SUBSET D |-> Max(T)]
           it == CHOOSE h : h = [T \in SUBSET D |-> IF T = {} THEN 0 ELSE h[T \ {Max(T)}] + Bytes(s[Max(T)])]
<1>1. Len(s) \in Nat /\ D = 1..Len(s) /\ Weights(s) \in [D -> Nat] /\ IsFiniteSet(D)
  BY BytesType, FS_Interval DEF Weights
<1>2. \A T \in SUBSET D : T # {} => Max(T) \in T
  BY <1>1, MaxIsMember
<1>21. \A T \in SUBSET D : T # {} => c[T] \in T
  BY <1>2
<1>3. PICK g \in [SUBSET D -> Nat] : Folded(g, D, Weights(s), c)
  BY <1>1, <1>21, FoldExists
<1>4. g = [T \in SUBSET D |-> IF T = {} THEN 0 ELSE g[T \ {Max(T)}] + Bytes(s[Max(T)])]
  BY <1>1, <1>2, <1>3 DEF Folded, Weights
<1>5. it = [T \in SUBSET D |-> IF T = {} THEN 0 ELSE it[T \ {Max(T)}] + Bytes(s[Max(T)])]
  BY <1>4, Zenon
<1>6. SumOf(s) = it[D]
  BY Zenon DEF SumOf, FoldLeft, MapThenFoldSet
<1> HIDE DEF it
<1>7. Folded(it, D, Weights(s), c)
  <2>1. \A T \in SUBSET D : T # {} => c[T] = Max(T) /\ Weights(s)[Max(T)] = Bytes(s[Max(T)])
    BY <1>1, <1>2 DEF Weights
  <2> HIDE DEF c
  <2>2. [T \in SUBSET D |-> IF T = {} THEN 0 ELSE it[T \ {Max(T)}] + Bytes(s[Max(T)])]
          = [T \in SUBSET D |-> IF T = {} THEN 0 ELSE it[T \ {c[T]}] + Weights(s)[c[T]]]
    BY <2>1
  <2> QED
    BY <1>5, <2>2, Zenon DEF Folded
<1>8. it \in [SUBSET D -> Nat]
  <2> HIDE DEF c
  <2> QED
    BY <1>1, <1>21, <1>7, FoldType
<1>9. FoldedFromTheEnd(it, Len(s), Weights(s))
  BY <1>1, <1>2, <1>5 DEF FoldedFromTheEnd, Weights
<1>10. PartialSums([i \in 0..Len(s) |-> it[1..i]], Len(s), Weights(s))
  BY <1>1, <1>8, <1>9, FoldIsPartialSums
<1> QED
  BY <1>1, <1>6, <1>8, <1>10

LEMMA SumIs ==
  ASSUME NEW s \in Seq(Items), NEW h, PartialSums(h, Len(s), Weights(s))
  PROVE  SumOf(s) = h[Len(s)]
<1>1. Len(s) \in Nat /\ Len(s) \in 0..Len(s)
  OBVIOUS
<1> QED
  BY <1>1, SumUnfolds, PartialSumsUnique

LEMMA SumEmpty == SumOf(<<>>) = 0
<1> DEFINE h == [i \in {0} |-> 0]
<1>1. <<>> \in Seq(Items) /\ Len(<<>>) = 0 /\ 0..0 = {0} /\ 1..0 = {}
  OBVIOUS
<1>2. PartialSums(h, 0, Weights(<<>>))
  BY <1>1 DEF PartialSums
<1> QED
  BY <1>1, <1>2, SumIs

LEMMA SumAppend ==
  ASSUME NEW s \in Seq(Items), NEW r \in Items
  PROVE  SumOf(Append(s, r)) = SumOf(s) + Bytes(r)
<1> DEFINE n == Len(s)
           a == Append(s, r)
<1>1. PICK h : PartialSums(h, n, Weights(s)) /\ SumOf(s) = h[n]
  BY SumUnfolds
<1> DEFINE k == [i \in 0..(n + 1) |-> IF i <= n THEN h[i] ELSE h[n] + Bytes(r)]
<1>2. a \in Seq(Items) /\ Len(a) = n + 1 /\ a[n + 1] = r /\ \A i \in 1..n : a[i] = s[i]
  OBVIOUS
<1>3. h[n] \in Int /\ Bytes(r) \in Nat /\ n \in Nat
  BY <1>1, BytesType DEF PartialSums
<1>4. PartialSums(k, n + 1, Weights(a))
  <2>1. k \in [0..(n + 1) -> Int] /\ k[0] = 0
    BY <1>1, <1>3 DEF PartialSums
  <2>2. ASSUME NEW i \in 1..(n + 1) PROVE k[i] = k[i - 1] + Weights(a)[i]
    <3>1. CASE i = n + 1
      BY <1>2, <1>3, <3>1 DEF Weights
    <3>2. CASE i # n + 1
      BY <1>1, <1>2, <1>3, <3>2 DEF Weights, PartialSums
    <3> QED
      BY <3>1, <3>2
  <2> QED
    BY <2>1, <2>2 DEF PartialSums
<1>5. SumOf(a) = k[n + 1]
  <2> HIDE DEF k
  <2> QED
    BY <1>2, <1>4, SumIs
<1> QED
  BY <1>1, <1>3, <1>5

LEMMA SumSplits ==
  ASSUME NEW s \in Seq(Items), NEW n \in 0..Len(s)
  PROVE  /\ SubSeq(s, 1, n) \in Seq(Items) /\ SubSeq(s, n + 1, Len(s)) \in Seq(Items)
         /\ SumOf(s) = SumOf(SubSeq(s, 1, n)) + SumOf(SubSeq(s, n + 1, Len(s)))
<1> DEFINE a == SubSeq(s, 1, n)
           b == SubSeq(s, n + 1, Len(s))
           m == Len(s) - n
<1>1. PICK h : PartialSums(h, Len(s), Weights(s)) /\ SumOf(s) = h[Len(s)]
  BY SumUnfolds
<1>2. a \in Seq(Items) /\ Len(a) = n /\ \A i \in 1..n : a[i] = s[i]
  BY SubSeqProperties
<1>3. b \in Seq(Items) /\ Len(b) = m /\ \A i \in 1..m : b[i] = s[n + i]
  BY SubSeqProperties
<1> DEFINE ha == [i \in 0..n |-> h[i]]
           hb == [i \in 0..m |-> h[n + i] - h[n]]
<1>4. SumOf(a) = h[n]
  <2>1. PartialSums(ha, n, Weights(a))
    <3>1. ha \in [0..n -> Int] /\ ha[0] = 0
      BY <1>1 DEF PartialSums
    <3>2. ASSUME NEW i \in 1..n PROVE ha[i] = ha[i - 1] + Weights(a)[i]
      <4>1. i \in 1..Len(s) /\ i \in 0..n /\ i - 1 \in 0..n
        OBVIOUS
      <4>2. h[i] = h[i - 1] + Weights(s)[i]
        BY <1>1, <4>1 DEF PartialSums
      <4>3. Weights(a)[i] = Weights(s)[i]
        BY <1>2, <4>1 DEF Weights
      <4> QED
        BY <4>1, <4>2, <4>3
    <3> QED
      BY <3>1, <3>2 DEF PartialSums
  <2>2. ha[n] = h[n]
    OBVIOUS
  <2> HIDE DEF ha
  <2> QED
    BY <1>2, <2>1, <2>2, SumIs
<1>5. SumOf(b) = h[Len(s)] - h[n]
  <2>1. PartialSums(hb, m, Weights(b))
    <3>1. hb \in [0..m -> Int] /\ hb[0] = 0
      BY <1>1 DEF PartialSums
    <3>2. ASSUME NEW i \in 1..m PROVE hb[i] = hb[i - 1] + Weights(b)[i]
      <4>1. n + i \in 1..Len(s) /\ n + (i - 1) = (n + i) - 1 /\ n + i - 1 \in 0..Len(s)
        OBVIOUS
      <4>2. h[n + i] = h[(n + i) - 1] + Weights(s)[n + i] /\ h[n + i - 1] \in Int /\ h[n] \in Int
        BY <1>1, <4>1 DEF PartialSums
      <4>3. Weights(b)[i] = Weights(s)[n + i] /\ Weights(b)[i] \in Nat
        BY <1>3, <4>1, BytesType, SMTT(30) DEF Weights
      <4> QED
        BY <4>1, <4>2, <4>3
    <3> QED
      BY <3>1, <3>2 DEF PartialSums
  <2>2. hb[m] = h[Len(s)] - h[n]
    OBVIOUS
  <2> HIDE DEF hb
  <2> QED
    BY <1>3, <2>1, <2>2, SumIs
<1>6. h[n] \in Int /\ h[Len(s)] \in Int
  BY <1>1 DEF PartialSums
<1> QED
  BY <1>1, <1>2, <1>3, <1>4, <1>5, <1>6

LEMMA RemoveAtProperties ==
  ASSUME NEW S, NEW s \in Seq(S), NEW i \in 1..Len(s)
  PROVE  /\ RemoveAt(s, i) \in Seq(S)
         /\ Len(RemoveAt(s, i)) = Len(s) - 1
         /\ \A k \in 1..(Len(s) - 1) : RemoveAt(s, i)[k] = s[IF k < i THEN k ELSE k + 1]
<1> DEFINE a == SubSeq(s, 1, i - 1)
           b == SubSeq(s, i + 1, Len(s))
           c == a \o b
<1>1. /\ a \in Seq(S) /\ Len(a) = i - 1
      /\ \A k \in 1..(i - 1) : a[k] = s[k]
  BY SubSeqProperties, ElementOfSeq
<1>2. /\ b \in Seq(S) /\ Len(b) = Len(s) - i
      /\ \A k \in 1..(Len(s) - i) : b[k] = s[k + i]
  BY SubSeqProperties, ElementOfSeq
<1> HIDE DEF a, b
<1>3. /\ c \in Seq(S)
      /\ Len(c) = Len(a) + Len(b)
      /\ \A k \in 1..(Len(a) + Len(b)) :
           c[k] = IF k <= Len(a) THEN a[k] ELSE b[k - Len(a)]
  BY <1>1, <1>2, ConcatProperties
<1> HIDE DEF c
<1>4. /\ Len(s) \in Nat /\ i \in Nat /\ 1 <= i /\ i <= Len(s)
      /\ Len(a) = i - 1 /\ Len(a) + Len(b) = Len(s) - 1
  BY <1>1, <1>2
<1>5. Len(c) = Len(s) - 1
  BY <1>3, <1>4
<1>6. ASSUME NEW k \in 1..(Len(s) - 1)
      PROVE  c[k] = s[IF k < i THEN k ELSE k + 1]
  <2>0. k \in Nat /\ 1 <= k /\ k <= Len(s) - 1 /\ k \in 1..(Len(a) + Len(b))
    BY <1>4
  <2>1. CASE k < i
    <3>1. k \in 1..(i - 1) /\ k <= Len(a)
      BY <1>4, <2>0, <2>1
    <3> QED
      BY <1>1, <1>3, <2>0, <2>1, <3>1
  <2>2. CASE ~(k < i)
    <3>1. ~(k <= Len(a)) /\ k - Len(a) \in 1..(Len(s) - i) /\ (k - Len(a)) + i = k + 1
      BY <1>4, <2>0, <2>2
    <3>2. c[k] = b[k - Len(a)]
      BY <1>3, <2>0, <3>1
    <3>3. b[k - Len(a)] = s[(k - Len(a)) + i]
      BY <1>2, <3>1
    <3> QED
      BY <2>2, <3>1, <3>2, <3>3
  <2> QED
    BY <2>1, <2>2
<1> QED
  BY <1>3, <1>5, <1>6 DEF RemoveAt, a, b, c

LEMMA SumRemoveAt ==
  ASSUME NEW s \in Seq(Items), NEW at \in 1..Len(s)
  PROVE  SumOf(RemoveAt(s, at)) = SumOf(s) - Bytes(s[at])
<1> DEFINE n == Len(s)
           a == RemoveAt(s, at)
<1>1. PICK h : PartialSums(h, n, Weights(s)) /\ SumOf(s) = h[n]
  BY SumUnfolds
<1> DEFINE k == [i \in 0..(n - 1) |-> IF i < at THEN h[i] ELSE h[i + 1] - Bytes(s[at])]
<1>2. a \in Seq(Items) /\ Len(a) = n - 1 /\ \A i \in 1..(n - 1) : a[i] = s[IF i < at THEN i ELSE i + 1]
  BY RemoveAtProperties
<1>3. n \in Nat \ {0} /\ Bytes(s[at]) \in Nat /\ \A i \in 1..n : Weights(s)[i] = Bytes(s[i]) /\ Bytes(s[i]) \in Nat
  BY BytesType DEF Weights
<1>4. /\ \A i \in 0..n : h[i] \in Int
      /\ h[0] = 0
      /\ \A i \in 1..n : h[i] = h[i - 1] + Bytes(s[i])
  BY <1>1, <1>3 DEF PartialSums
<1>5. PartialSums(k, n - 1, Weights(a))
  <2>1. k \in [0..(n - 1) -> Int] /\ k[0] = 0
    <3>1. \A i \in 0..(n - 1) : (IF i < at THEN h[i] ELSE h[i + 1] - Bytes(s[at])) \in Int
      BY <1>3, <1>4
    <3>2. k[0] = 0
      BY <1>3, <1>4
    <3> QED
      BY <3>1, <3>2
  <2>2. ASSUME NEW i \in 1..(n - 1) PROVE k[i] = k[i - 1] + Weights(a)[i]
    <3>1. Weights(a)[i] = Bytes(s[IF i < at THEN i ELSE i + 1])
      BY <1>2 DEF Weights
    <3>2. CASE i < at
      <4>1. k[i] = h[i] /\ k[i - 1] = h[i - 1]
        BY <3>2
      <4> QED
        BY <1>3, <1>4, <3>1, <3>2, <4>1
    <3>3. CASE i = at
      <4>1. k[i] = h[i + 1] - Bytes(s[at]) /\ k[i - 1] = h[i - 1]
        BY <3>3
      <4>2. h[i + 1] = h[i] + Bytes(s[i + 1]) /\ h[i] = h[i - 1] + Bytes(s[at])
        BY <1>4, <3>3
      <4>3. h[i - 1] \in Int /\ Bytes(s[at]) \in Nat /\ Bytes(s[i + 1]) \in Nat
        BY <1>3, <1>4
      <4>4. Weights(a)[i] = Bytes(s[i + 1])
        BY <3>1, <3>3
      <4> QED
        BY <4>1, <4>2, <4>3, <4>4
    <3>4. CASE i > at
      <4>1. k[i] = h[i + 1] - Bytes(s[at]) /\ k[i - 1] = h[i] - Bytes(s[at])
        BY <3>4
      <4>2. h[i + 1] = h[i] + Bytes(s[i + 1])
        BY <1>4
      <4> QED
        BY <1>3, <1>4, <3>1, <3>4, <4>1, <4>2, SMTT(30)
    <3> QED
      BY <3>2, <3>3, <3>4
  <2> QED
    BY <2>1, <2>2 DEF PartialSums
<1>6. SumOf(a) = k[n - 1]
  <2> HIDE DEF k
  <2> QED
    BY <1>2, <1>5, SumIs
<1>7. k[n - 1] = h[n] - Bytes(s[at])
  <2>1. CASE at = n
    BY <1>3, <1>4, <2>1
  <2>2. CASE at < n
    BY <1>3, <2>2
  <2> QED
    BY <2>1, <2>2
<1> QED
  BY <1>1, <1>6, <1>7

LEMMA TailIsRemoveAt ==
  ASSUME NEW S, NEW s \in Seq(S), s # <<>>
  PROVE  Tail(s) = RemoveAt(s, 1) /\ Head(s) = s[1] /\ 1 \in 1..Len(s)
<1>1. 1 \in 1..Len(s) /\ Head(s) = s[1]
  OBVIOUS
<1>2. Tail(s) \in Seq(S) /\ Len(Tail(s)) = Len(s) - 1 /\ \A i \in 1..(Len(s) - 1) : Tail(s)[i] = s[i + 1]
  OBVIOUS
<1>3. /\ RemoveAt(s, 1) \in Seq(S) /\ Len(RemoveAt(s, 1)) = Len(s) - 1
      /\ \A i \in 1..(Len(s) - 1) : RemoveAt(s, 1)[i] = s[i + 1]
  BY <1>1, RemoveAtProperties
<1>4. \A i \in 1..Len(Tail(s)) : Tail(s)[i] = RemoveAt(s, 1)[i]
  BY <1>2, <1>3
<1> QED
  BY <1>1, <1>2, <1>3, <1>4, SeqEqual

-----------------------------------------------------------------------------
(* Lists without repetition. *)

Distinct(s) == \A i, j \in 1..Len(s) : i # j => s[i] # s[j]

LEMMA ToSetIs ==
  ASSUME NEW S, NEW s \in Seq(S)
  PROVE  ToSet(s) \subseteq S /\ \A x : x \in ToSet(s) <=> \E i \in 1..Len(s) : s[i] = x
BY ElementOfSeq DEF ToSet

LEMMA RemoveAtDistinct ==
  ASSUME NEW S, NEW s \in Seq(S), NEW i \in 1..Len(s), Distinct(s)
  PROVE  Distinct(RemoveAt(s, i)) /\ ToSet(RemoveAt(s, i)) = ToSet(s) \ {s[i]}
<1> DEFINE a == RemoveAt(s, i)
           From(k) == IF k < i THEN k ELSE k + 1
<1>1. a \in Seq(S) /\ Len(a) = Len(s) - 1 /\ \A k \in 1..(Len(s) - 1) : a[k] = s[From(k)]
  BY RemoveAtProperties
<1>2. \A k \in 1..(Len(s) - 1) : From(k) \in 1..Len(s) /\ From(k) # i
  OBVIOUS
<1>3. \A k, l \in 1..(Len(s) - 1) : k # l => From(k) # From(l)
  OBVIOUS
<1>4. ASSUME NEW k \in 1..Len(s), k # i PROVE \E l \in 1..(Len(s) - 1) : From(l) = k
  <2>1. CASE k < i
    <3>1. k \in 1..(Len(s) - 1) /\ From(k) = k
      BY <2>1
    <3> QED
      BY <3>1
  <2>2. CASE k > i
    <3>1. k - 1 \in 1..(Len(s) - 1) /\ From(k - 1) = k
      BY <2>2
    <3> QED
      BY <3>1
  <2> QED
    BY <1>4, <2>1, <2>2
<1> HIDE DEF a, From
<1>5. Distinct(a)
  BY <1>1, <1>2, <1>3 DEF Distinct
<1>6. \A x : x \in ToSet(a) <=> \E k \in 1..(Len(s) - 1) : s[From(k)] = x
  BY <1>1, ToSetIs, SMTT(30)
<1>7. \A x : x \in ToSet(s) <=> \E k \in 1..Len(s) : s[k] = x
  BY ToSetIs
<1>8. ToSet(a) \subseteq ToSet(s) \ {s[i]}
  BY <1>2, <1>6, <1>7 DEF Distinct
<1>9. ToSet(s) \ {s[i]} \subseteq ToSet(a)
  BY <1>4, <1>6, <1>7
<1> QED
  BY <1>5, <1>8, <1>9 DEF a

LEMMA AppendDistinct ==
  ASSUME NEW S, NEW s \in Seq(S), NEW r \in S, Distinct(s), r \notin ToSet(s)
  PROVE  Distinct(Append(s, r)) /\ ToSet(Append(s, r)) = ToSet(s) \cup {r}
<1> DEFINE a == Append(s, r)
           n == Len(s)
<1>1. n \in Nat /\ a \in Seq(S) /\ Len(a) = n + 1 /\ a[n + 1] = r /\ \A k \in 1..n : a[k] = s[k]
  OBVIOUS
<1>2. 1..(n + 1) = (1..n) \cup {n + 1}
  BY <1>1
<1>3. \A k \in 1..n : s[k] # r
  BY ToSetIs
<1> HIDE DEF a
<1>4. Distinct(a)
  BY <1>1, <1>2, <1>3 DEF Distinct
<1>5. \A x : x \in ToSet(a) <=> \E k \in 1..(n + 1) : a[k] = x
  BY <1>1, ToSetIs
<1>6. \A x : x \in ToSet(s) <=> \E k \in 1..n : s[k] = x
  BY ToSetIs
<1>7. ToSet(a) = ToSet(s) \cup {r}
  BY <1>1, <1>2, <1>5, <1>6
<1> QED
  BY <1>4, <1>7 DEF a

LEMMA SubSeqDistinct ==
  ASSUME NEW S, NEW s \in Seq(S), NEW n \in 0..Len(s), Distinct(s)
  PROVE  /\ Distinct(SubSeq(s, n + 1, Len(s)))
         /\ ToSet(SubSeq(s, 1, n)) \subseteq ToSet(s) /\ ToSet(SubSeq(s, n + 1, Len(s))) \subseteq ToSet(s)
         /\ ToSet(SubSeq(s, 1, n)) \cup ToSet(SubSeq(s, n + 1, Len(s))) = ToSet(s)
         /\ ToSet(SubSeq(s, 1, n)) \cap ToSet(SubSeq(s, n + 1, Len(s))) = {}
<1> DEFINE a == SubSeq(s, 1, n)
           b == SubSeq(s, n + 1, Len(s))
           m == Len(s) - n
<1>1. a \in Seq(S) /\ Len(a) = n /\ \A i \in 1..n : a[i] = s[i]
  BY SubSeqProperties
<1>2. b \in Seq(S) /\ Len(b) = m /\ \A i \in 1..m : b[i] = s[n + i]
  BY SubSeqProperties
<1>3. \A i \in 1..m : n + i \in 1..Len(s) /\ n + i > n
  OBVIOUS
<1>4. \A i \in 1..n : i \in 1..Len(s) /\ \A j \in 1..m : i # n + j
  OBVIOUS
<1> HIDE DEF a, b
<1>5. \A x : x \in ToSet(a) <=> \E i \in 1..n : s[i] = x
  <2> SUFFICES ASSUME NEW x PROVE x \in ToSet(a) <=> \E i \in 1..n : s[i] = x
    OBVIOUS
  <2>1. x \in ToSet(a) <=> \E i \in 1..n : a[i] = x
    BY <1>1, ToSetIs
  <2>2. (\E i \in 1..n : a[i] = x) <=> (\E i \in 1..n : s[i] = x)
    BY <1>1
  <2> QED
    BY <2>1, <2>2
<1>6. \A x : x \in ToSet(b) <=> \E i \in 1..m : s[n + i] = x
  <2> SUFFICES ASSUME NEW x PROVE x \in ToSet(b) <=> \E i \in 1..m : s[n + i] = x
    OBVIOUS
  <2>1. x \in ToSet(b) <=> \E i \in 1..m : b[i] = x
    BY <1>2, ToSetIs
  <2>2. (\E i \in 1..m : b[i] = x) <=> (\E i \in 1..m : s[n + i] = x)
    BY <1>2
  <2> QED
    BY <2>1, <2>2
<1>7. \A x : x \in ToSet(s) <=> \E i \in 1..Len(s) : s[i] = x
  BY ToSetIs
<1>8. Distinct(b)
  <2>1. \A i, j \in 1..m : i # j => n + i # n + j
    OBVIOUS
  <2> QED
    BY <1>2, <1>3, <2>1 DEF Distinct
<1>9. ToSet(a) \subseteq ToSet(s) /\ ToSet(b) \subseteq ToSet(s)
  BY <1>3, <1>4, <1>5, <1>6, <1>7
<1>10. ToSet(a) \cap ToSet(b) = {}
  BY <1>3, <1>4, <1>5, <1>6 DEF Distinct
<1>11. ToSet(s) \subseteq ToSet(a) \cup ToSet(b)
  <2> SUFFICES ASSUME NEW x \in ToSet(s) PROVE x \in ToSet(a) \cup ToSet(b)
    OBVIOUS
  <2>1. PICK i \in 1..Len(s) : s[i] = x
    BY <1>7
  <2>2. CASE i <= n
    BY <1>5, <2>1, <2>2
  <2>3. CASE i > n
    <3>1. i - n \in 1..m /\ n + (i - n) = i
      BY <2>3
    <3>2. s[n + (i - n)] = x
      BY <2>1, <3>1
    <3> QED
      BY <1>6, <3>1, <3>2
  <2> QED
    BY <2>2, <2>3
<1> QED
  BY <1>8, <1>9, <1>10, <1>11 DEF a, b

-----------------------------------------------------------------------------
(* The inductive invariant. *)

Exclusive ==
  /\ Distinct(idle)
  /\ \A t \in Threads :
       /\ ToSet(idle) \cap (held[t] \cup InHand(t)) = {}
       /\ held[t] \cap InHand(t) = {}
       /\ \A u \in Threads \ {t} : (held[t] \cup InHand(t)) \cap (held[u] \cup InHand(u)) = {}

(* A put past its first checks may keep something, and what it has evicted *)
(* is not the item it returns.                                             *)
PutsInHand ==
  \A t \in Threads :
    call[t].op \in {"put", "putting"} =>
      MaxEntries > 0 /\ call[t].item \in Items /\ call[t].item \notin call[t].dying

PInv == PoolTypeOK /\ WithinLimits /\ Exclusive /\ PutsInHand

(* What the other threads own. *)
Others(t) == UNION {held[u] \cup InHand(u) : u \in Threads \ {t}}

(* A step that moves items between the pool and what t has, and may bring  *)
(* new ones, leaves every item with one owner.                             *)
LEMMA Moves ==
  ASSUME Exclusive, NEW t \in Threads, NEW New, New \cap Existing = {},
         \A u \in Threads \ {t} : held'[u] = held[u] /\ call'[u] = call[u],
         Distinct(idle'),
         ToSet(idle') \cap (held'[t] \cup InHand(t)') = {}, held'[t] \cap InHand(t)' = {},
         ToSet(idle') \cup held'[t] \cup InHand(t)' \subseteq ToSet(idle) \cup held[t] \cup InHand(t) \cup New
  PROVE  /\ Exclusive'
         /\ Existing' = ToSet(idle') \cup held'[t] \cup InHand(t)' \cup Others(t)
         /\ Existing = ToSet(idle) \cup held[t] \cup InHand(t) \cup Others(t)
         /\ Others(t) \cap (ToSet(idle) \cup held[t] \cup InHand(t)) = {}
<1>1. \A u \in Threads \ {t} : InHand(u)' = InHand(u)
  BY DEF InHand
<1>2. /\ ToSet(idle) \subseteq Existing
      /\ \A u \in Threads : held[u] \cup InHand(u) \subseteq Existing
  BY DEF Existing
<1>3. \A u \in Threads \ {t} :
        /\ (ToSet(idle) \cup held[t] \cup InHand(t) \cup New) \cap (held[u] \cup InHand(u)) = {}
        /\ held[u] \cap InHand(u) = {}
  BY <1>2 DEF Exclusive
<1>4. Exclusive'
  <2>1. \A u \in Threads : ToSet(idle') \cap (held'[u] \cup InHand(u)') = {} /\ held'[u] \cap InHand(u)' = {}
    BY <1>1, <1>3
  <2>2. ASSUME NEW u \in Threads, NEW v \in Threads \ {u}
        PROVE  (held'[u] \cup InHand(u)') \cap (held'[v] \cup InHand(v)') = {}
    <3>1. CASE u # t /\ v # t
      BY <1>1, <3>1 DEF Exclusive
    <3>2. CASE u = t
      BY <1>1, <1>3, <3>2
    <3>3. CASE v = t
      BY <1>1, <1>3, <3>3
    <3> QED
      BY <3>1, <3>2, <3>3
  <2> QED
    BY <2>1, <2>2 DEF Exclusive
<1>5. Others(t)' = Others(t)
  BY <1>1 DEF Others
<1>6. Existing = ToSet(idle) \cup held[t] \cup InHand(t) \cup Others(t)
  BY DEF Existing, Others
<1>7. Existing' = ToSet(idle') \cup held'[t] \cup InHand(t)' \cup Others(t)'
  BY DEF Existing, Others
<1>8. Others(t) \cap (ToSet(idle) \cup held[t] \cup InHand(t)) = {}
  BY <1>3 DEF Others
<1> QED
  BY <1>4, <1>5, <1>6, <1>7, <1>8

(* What is idle or being returned. *)
Returning(t) == IF call[t].op \in {"put", "putting"} THEN {call[t].item} ELSE {}
Ready == ToSet(idle) \cup UNION {Returning(t) : t \in Threads}

LEMMA ReadyMoves ==
  ASSUME NEW t \in Threads, NEW New, \A u \in Threads \ {t} : call'[u] = call[u],
         ToSet(idle') \cup Returning(t)' \subseteq ToSet(idle) \cup Returning(t) \cup New
  PROVE  Ready' \subseteq Ready \cup New
<1>1. \A u \in Threads \ {t} : Returning(u)' = Returning(u)
  BY DEF Returning
<1>2. ToSet(idle) \subseteq Ready /\ \A u \in Threads : Returning(u) \subseteq Ready
  BY DEF Ready
<1>3. \A u \in Threads : Returning(u)' \subseteq Ready \cup New
  BY <1>1, <1>2
<1> QED
  BY <1>2, <1>3 DEF Ready

LEMMA PInvStarts ==
  ASSUME PoolInit
  PROVE  PInv
<1>1. PoolTypeOK
  BY ResourcePoolAssumption DEF PoolInit, PoolTypeOK, NoCall, Calls
<1>2. WithinLimits
  BY SumEmpty, ResourcePoolAssumption DEF PoolInit, WithinLimits
<1>3. Exclusive /\ PutsInHand
  BY DEF PoolInit, Exclusive, PutsInHand, InHand, NoCall, Distinct, ToSet
<1> QED
  BY <1>1, <1>2, <1>3 DEF PInv

(* What no step but the thread's own changes of its call. *)
LEMMA CallBecomes ==
  ASSUME PoolTypeOK, NEW t \in Threads, NEW c \in Calls, call' = [call EXCEPT ![t] = c]
  PROVE  call' \in [Threads -> Calls] /\ call'[t] = c /\ \A u \in Threads \ {t} : call'[u] = call[u]
BY DEF PoolTypeOK

LEMMA FreeHasNothing ==
  ASSUME NEW t, Free(t)
  PROVE  InHand(t) = {} /\ call[t] = NoCall /\ NoCall \in Calls
BY DEF Free, InHand, NoCall, Calls

LEMMA LatestIsThere ==
  ASSUME PoolTypeOK, NEW k, Positions(k) # {}
  PROVE  (CHOOSE i \in Positions(k) : \A j \in Positions(k) : j <= i) \in 1..Len(idle)
<1>1. Positions(k) \subseteq 1..Len(idle) /\ Len(idle) \in Nat /\ Positions(k) \subseteq 0..Len(idle)
  BY DEF Positions, PoolTypeOK
<1>2. Max(Positions(k)) \in Positions(k) /\ \A j \in Positions(k) : j <= Max(Positions(k))
  BY <1>1, MaxIsMember
<1> QED
  BY <1>1, <1>2

(* Taking one item out of the list. *)
LEMMA OneLess ==
  ASSUME PInv, NEW at \in 1..Len(idle), idle' = RemoveAt(idle, at), bytes' = bytes - Bytes(idle[at]),
         UNCHANGED budget
  PROVE  /\ idle' \in Seq(Items) /\ bytes' \in Nat /\ idle[at] \in Items
         /\ Distinct(idle') /\ ToSet(idle') = ToSet(idle) \ {idle[at]} /\ idle[at] \in ToSet(idle)
         /\ WithinLimits'
<1>1. idle \in Seq(Items) /\ Distinct(idle) /\ bytes = SumOf(idle) /\ bytes <= budget /\ Len(idle) <= MaxEntries
  BY DEF PInv, PoolTypeOK, Exclusive, WithinLimits
<1>2. idle' \in Seq(Items) /\ Len(idle') = Len(idle) - 1 /\ idle[at] \in Items /\ Len(idle) \in Nat
  BY <1>1, RemoveAtProperties, ElementOfSeq
<1>3. Distinct(idle') /\ ToSet(idle') = ToSet(idle) \ {idle[at]} /\ idle[at] \in ToSet(idle)
  BY <1>1, RemoveAtDistinct, ToSetIs
<1>4. SumOf(idle') = bytes' /\ bytes' \in Nat /\ Bytes(idle[at]) \in Nat
  BY <1>1, <1>2, SumRemoveAt, SumUnfolds, BytesType
<1>5. bytes \in Nat /\ budget \in Nat /\ MaxEntries \in Nat
  BY ResourcePoolAssumption DEF PInv, PoolTypeOK
<1> QED
  BY <1>1, <1>2, <1>3, <1>4, <1>5 DEF WithinLimits

LEMMA TakeKeepsInv ==
  ASSUME PInv, NEW t \in Threads, NEW k, Free(t), Take(t, k)
  PROVE  PInv' /\ Existing' = Existing /\ Ready' \subseteq Ready
<1> DEFINE at == CHOOSE i \in Positions(k) : \A j \in Positions(k) : j <= i
<1>1. at \in 1..Len(idle)
  BY LatestIsThere DEF Take, PInv
<1>2. /\ held' = [held EXCEPT ![t] = held[t] \cup {idle[at]}]
      /\ idle' = RemoveAt(idle, at) /\ bytes' = bytes - Bytes(idle[at])
      /\ UNCHANGED <<budget, call>>
  BY DEF Take
<1> HIDE DEF at
<1>3. /\ idle' \in Seq(Items) /\ bytes' \in Nat /\ idle[at] \in Items
      /\ Distinct(idle') /\ ToSet(idle') = ToSet(idle) \ {idle[at]} /\ idle[at] \in ToSet(idle)
      /\ WithinLimits'
  BY <1>1, <1>2, OneLess
<1>4. /\ held'[t] = held[t] \cup {idle[at]} /\ \A u \in Threads \ {t} : held'[u] = held[u]
      /\ held' \in [Threads -> SUBSET Items]
  BY <1>2, <1>3 DEF PInv, PoolTypeOK
<1>5. PoolTypeOK' /\ PutsInHand'
  BY <1>2, <1>3, <1>4 DEF PInv, PoolTypeOK, PutsInHand
<1>6. InHand(t) = {} /\ InHand(t)' = {}
  BY <1>2, FreeHasNothing DEF InHand
<1>7. Exclusive' /\ Existing' = Existing
  <2>1. Exclusive /\ ToSet(idle) \cap held[t] = {}
    BY DEF PInv, Exclusive
  <2>2. /\ Exclusive'
        /\ Existing' = ToSet(idle') \cup held'[t] \cup InHand(t)' \cup Others(t)
        /\ Existing = ToSet(idle) \cup held[t] \cup InHand(t) \cup Others(t)
    <3>1. {} \cap Existing = {} /\ \A u \in Threads \ {t} : held'[u] = held[u] /\ call'[u] = call[u]
      BY <1>2, <1>4
    <3>2. ToSet(idle') \cap (held'[t] \cup InHand(t)') = {} /\ held'[t] \cap InHand(t)' = {}
      BY <1>3, <1>4, <1>6, <2>1
    <3>3. ToSet(idle') \cup held'[t] \cup InHand(t)' \subseteq ToSet(idle) \cup held[t] \cup InHand(t) \cup {}
      BY <1>3, <1>4, <1>6
    <3> QED
      BY <1>3, <2>1, <3>1, <3>2, <3>3, Moves
  <2> QED
    BY <1>3, <1>4, <1>6, <2>2
<1>8. Ready' \subseteq Ready \cup {}
  <2>1. \A u \in Threads \ {t} : call'[u] = call[u]
    BY <1>2
  <2>2. Returning(t)' = Returning(t)
    BY <1>2 DEF Returning
  <2>3. ToSet(idle') \cup Returning(t)' \subseteq ToSet(idle) \cup Returning(t) \cup {}
    BY <1>3, <2>2
  <2> QED
    BY <2>1, <2>3, ReadyMoves
<1> QED
  BY <1>3, <1>5, <1>7, <1>8 DEF PInv

(* What t owns outside the pool becomes H: items that nobody has yet may   *)
(* come in, and any may leave.                                             *)
LEMMA HeldKeeps ==
  ASSUME PInv, NEW t \in Threads, UNCHANGED <<idle, bytes, budget, call>>,
         NEW H \in SUBSET Items, H \cap Existing \subseteq held[t], held' = [held EXCEPT ![t] = H]
  PROVE  PInv' /\ Existing' = (Existing \ held[t]) \cup H
<1>1. held' \in [Threads -> SUBSET Items] /\ held'[t] = H /\ \A u \in Threads \ {t} : held'[u] = held[u]
  BY DEF PInv, PoolTypeOK
<1>2. PoolTypeOK' /\ PutsInHand' /\ WithinLimits'
  BY <1>1 DEF PInv, PoolTypeOK, PutsInHand, WithinLimits
<1>3. InHand(t)' = InHand(t)
  BY DEF InHand
<1> DEFINE New == H \ Existing
<1>4. /\ Exclusive /\ Distinct(idle') /\ ToSet(idle) \cap (held[t] \cup InHand(t)) = {}
      /\ held[t] \cap InHand(t) = {} /\ InHand(t) \subseteq Existing /\ ToSet(idle) \subseteq Existing
  BY DEF PInv, Exclusive, Existing
<1>5. H \subseteq held[t] \cup New /\ New \cap Existing = {}
  OBVIOUS
<1> HIDE DEF New
<1>6. ToSet(idle') \cap (held'[t] \cup InHand(t)') = {} /\ held'[t] \cap InHand(t)' = {}
  BY <1>1, <1>3, <1>4, <1>5
<1>7. ToSet(idle') \cup held'[t] \cup InHand(t)' \subseteq ToSet(idle) \cup held[t] \cup InHand(t) \cup New
  BY <1>1, <1>3, <1>5
<1>8. /\ Exclusive'
      /\ Existing' = ToSet(idle') \cup held'[t] \cup InHand(t)' \cup Others(t)
      /\ Existing = ToSet(idle) \cup held[t] \cup InHand(t) \cup Others(t)
      /\ Others(t) \cap (ToSet(idle) \cup held[t] \cup InHand(t)) = {}
  BY <1>1, <1>4, <1>5, <1>6, <1>7, Moves
<1>9. Existing' = (Existing \ held[t]) \cup H
  BY <1>1, <1>3, <1>4, <1>8
<1> QED
  BY <1>2, <1>8, <1>9 DEF PInv

(* An item goes from the hands of t, or from outside, into a call of t     *)
(* that destroys it or tries to keep it.                                   *)
LEMMA HandedOver ==
  ASSUME PInv, NEW t \in Threads, NEW r \in Items, Free(t), r \in held[t] \/ r \notin Existing,
         UNCHANGED <<idle, bytes, budget>>, held' = [held EXCEPT ![t] = held[t] \ {r}],
         NEW c \in Calls, call' = [call EXCEPT ![t] = c],
         \/ c.op = "none" /\ c.dying = {r}
         \/ c.op = "put" /\ c.item = r /\ c.dying = {} /\ MaxEntries > 0
  PROVE  /\ PInv' /\ Existing' = Existing \cup {r}
         /\ Ready' \subseteq Ready \cup {r} /\ (c.op = "none" => Ready' \subseteq Ready)
<1>1. /\ held' \in [Threads -> SUBSET Items] /\ \A u \in Threads \ {t} : held'[u] = held[u]
      /\ held'[t] = held[t] \ {r}
  BY DEF PInv, PoolTypeOK
<1>2. call' \in [Threads -> Calls] /\ call'[t] = c /\ \A u \in Threads \ {t} : call'[u] = call[u]
  BY CallBecomes DEF PInv
<1>3. PoolTypeOK' /\ PutsInHand' /\ WithinLimits'
  BY <1>1, <1>2 DEF PInv, PoolTypeOK, PutsInHand, WithinLimits
<1>4. InHand(t) = {} /\ InHand(t)' = {r}
  BY <1>2, FreeHasNothing DEF InHand
<1> DEFINE New == {r} \ Existing
<1>5. Exclusive' /\ Existing' = Existing \cup {r}
  <2>1. Exclusive /\ Distinct(idle') /\ ToSet(idle) \cap held[t] = {} /\ ToSet(idle) \subseteq Existing
    BY DEF PInv, Exclusive, Existing
  <2>2. ToSet(idle') \cap (held'[t] \cup InHand(t)') = {} /\ held'[t] \cap InHand(t)' = {}
    BY <1>1, <1>4, <2>1
  <2>3. ToSet(idle') \cup held'[t] \cup InHand(t)' \subseteq ToSet(idle) \cup held[t] \cup InHand(t) \cup New
    BY <1>1, <1>4
  <2>4. New \cap Existing = {}
    OBVIOUS
  <2> HIDE DEF New
  <2>5. /\ Exclusive'
        /\ Existing' = ToSet(idle') \cup held'[t] \cup InHand(t)' \cup Others(t)
        /\ Existing = ToSet(idle) \cup held[t] \cup InHand(t) \cup Others(t)
    BY <1>1, <1>2, <2>1, <2>2, <2>3, <2>4, Moves
  <2> QED
    BY <1>1, <1>4, <2>5
<1>6. Ready' \subseteq Ready \cup {r}
  <2>1. Returning(t)' \subseteq {r}
    BY <1>2 DEF Returning
  <2>2. ToSet(idle') \cup Returning(t)' \subseteq ToSet(idle) \cup Returning(t) \cup {r}
    BY <2>1
  <2> QED
    BY <1>2, <2>2, ReadyMoves
<1>7. ASSUME c.op = "none" PROVE Ready' \subseteq Ready \cup {}
  <2>1. Returning(t)' = {}
    BY <1>2, <1>7 DEF Returning
  <2>2. ToSet(idle') \cup Returning(t)' \subseteq ToSet(idle) \cup Returning(t) \cup {}
    BY <2>1
  <2> QED
    BY <1>2, <2>2, ReadyMoves
<1> QED
  BY <1>3, <1>5, <1>6, <1>7 DEF PInv

LEMMA PutStartsKeeps ==
  ASSUME PInv, NEW t \in Threads, NEW r \in Items, Free(t), r \in held[t] \/ r \notin Existing, PutStarts(t, r)
  PROVE  PInv' /\ Existing' = Existing \cup {r} /\ Ready' \subseteq Ready \cup {r}
<1> DEFINE c == IF Bytes(r) > budget \/ MaxEntries = 0
                  THEN [NoCall EXCEPT !.dying = {r}]
                  ELSE [NoCall EXCEPT !.op = "put", !.item = r]
<1>1. /\ UNCHANGED <<idle, bytes, budget>> /\ held' = [held EXCEPT ![t] = held[t] \ {r}]
      /\ call' = [call EXCEPT ![t] = c]
  BY DEF PutStarts
<1>2. /\ c \in Calls
      /\ \/ c.op = "none" /\ c.dying = {r}
         \/ c.op = "put" /\ c.item = r /\ c.dying = {} /\ MaxEntries > 0
  <2>1. MaxEntries \in Nat
    BY ResourcePoolAssumption
  <2>2. CASE Bytes(r) > budget \/ MaxEntries = 0
    BY <2>2 DEF NoCall, Calls
  <2>3. CASE ~(Bytes(r) > budget \/ MaxEntries = 0)
    <3>1. c = [op |-> "put", item |-> r, left |-> 0, need |-> 0, freed |-> 0, dying |-> {}]
      BY <2>3 DEF NoCall
    <3> HIDE DEF c
    <3> QED
      BY <2>1, <2>3, <3>1 DEF Calls
  <2> QED
    BY <2>2, <2>3
<1> HIDE DEF c
<1> QED
  BY <1>1, <1>2, HandedOver

(* An item dropped outside the pool, through a call that destroys it.      *)
LEMMA DroppedKeeps ==
  ASSUME PInv, NEW t \in Threads, NEW r \in Items, Free(t), r \in held[t] \/ r \notin Existing,
         UNCHANGED <<idle, bytes, budget>>, held' = [held EXCEPT ![t] = held[t] \ {r}],
         call' = [call EXCEPT ![t].dying = {r}]
  PROVE  PInv' /\ Existing' = Existing \cup {r} /\ Ready' \subseteq Ready
<1> DEFINE c == [NoCall EXCEPT !.dying = {r}]
<1>1. call' = [call EXCEPT ![t] = c]
  BY FreeHasNothing
<1>2. c \in Calls /\ c.op = "none" /\ c.dying = {r}
  BY DEF NoCall, Calls
<1> HIDE DEF c
<1> QED
  BY <1>1, <1>2, HandedOver

(* A call lets go of what it had in hand, or only changes its counts. *)
LEMMA CallKeeps ==
  ASSUME PInv, NEW t \in Threads, UNCHANGED <<idle, bytes, budget, held>>,
         NEW c \in Calls, call' = [call EXCEPT ![t] = c], InHand(t)' \subseteq InHand(t),
         c.op \in {"put", "putting"} =>
           call[t].op \in {"put", "putting"} /\ c.item = call[t].item /\ c.dying = {}
  PROVE  PInv' /\ Existing' = (Existing \ InHand(t)) \cup InHand(t)' /\ Ready' \subseteq Ready
<1>1. call' \in [Threads -> Calls] /\ call'[t] = c /\ \A u \in Threads \ {t} : call'[u] = call[u]
  BY CallBecomes DEF PInv
<1>2. PoolTypeOK' /\ PutsInHand' /\ WithinLimits'
  BY <1>1 DEF PInv, PoolTypeOK, PutsInHand, WithinLimits
<1>3. Exclusive' /\ Existing' = (Existing \ InHand(t)) \cup InHand(t)'
  <2>1. Exclusive /\ Distinct(idle') /\ ToSet(idle) \cap (held[t] \cup InHand(t)) = {}
        /\ held[t] \cap InHand(t) = {} /\ {} \cap Existing = {}
    BY DEF PInv, Exclusive
  <2>2. ToSet(idle') \cap (held'[t] \cup InHand(t)') = {} /\ held'[t] \cap InHand(t)' = {}
    BY <2>1
  <2>3. ToSet(idle') \cup held'[t] \cup InHand(t)' \subseteq ToSet(idle) \cup held[t] \cup InHand(t) \cup {}
    OBVIOUS
  <2>4. /\ Exclusive'
        /\ Existing' = ToSet(idle') \cup held'[t] \cup InHand(t)' \cup Others(t)
        /\ Existing = ToSet(idle) \cup held[t] \cup InHand(t) \cup Others(t)
        /\ Others(t) \cap (ToSet(idle) \cup held[t] \cup InHand(t)) = {}
    BY <1>1, <2>1, <2>2, <2>3, Moves
  <2> QED
    BY <2>1, <2>4
<1>4. Ready' \subseteq Ready \cup {}
  <2>1. Returning(t)' \subseteq Returning(t)
    BY <1>1 DEF Returning
  <2>2. ToSet(idle') \cup Returning(t)' \subseteq ToSet(idle) \cup Returning(t) \cup {}
    BY <2>1
  <2> QED
    BY <1>1, <2>2, ReadyMoves
<1> QED
  BY <1>2, <1>3, <1>4 DEF PInv

(* The oldest idle item goes into the hands of the call that evicts it. *)
LEMMA OldestGoes ==
  ASSUME PInv, NEW t \in Threads, idle # <<>>, call[t].dying = {},
         idle' = Tail(idle), bytes' = bytes - Bytes(Head(idle)), UNCHANGED <<budget, held>>,
         NEW c \in Calls, call' = [call EXCEPT ![t] = c],
         c.dying = {Head(idle)}, c.item = call[t].item,
         c.op \in {"put", "putting"} <=> call[t].op \in {"put", "putting"}
  PROVE  PInv' /\ Existing' = Existing /\ Ready' \subseteq Ready
<1>1. idle' = RemoveAt(idle, 1) /\ Head(idle) = idle[1] /\ 1 \in 1..Len(idle)
  BY TailIsRemoveAt DEF PInv, PoolTypeOK
<1>2. /\ idle' \in Seq(Items) /\ bytes' \in Nat /\ idle[1] \in Items
      /\ Distinct(idle') /\ ToSet(idle') = ToSet(idle) \ {idle[1]} /\ idle[1] \in ToSet(idle)
      /\ WithinLimits'
  BY <1>1, OneLess
<1>3. call' \in [Threads -> Calls] /\ call'[t] = c /\ \A u \in Threads \ {t} : call'[u] = call[u]
  BY CallBecomes DEF PInv
<1>4. Exclusive /\ ToSet(idle) \cap (held[t] \cup InHand(t)) = {} /\ held[t] \cap InHand(t) = {}
      /\ {} \cap Existing = {}
  BY DEF PInv, Exclusive
<1>5. PoolTypeOK' /\ PutsInHand'
  <2>1. call[t].op \in {"put", "putting"} => call[t].item # idle[1]
    BY <1>2, <1>4 DEF InHand
  <2> QED
    BY <1>1, <1>2, <1>3, <2>1 DEF PInv, PoolTypeOK, PutsInHand
<1>6. InHand(t)' = InHand(t) \cup {idle[1]}
  BY <1>1, <1>3 DEF InHand
<1>7. ToSet(idle') \cap (held'[t] \cup InHand(t)') = {} /\ held'[t] \cap InHand(t)' = {}
  BY <1>2, <1>4, <1>6
<1>8. ToSet(idle') \cup held'[t] \cup InHand(t)' \subseteq ToSet(idle) \cup held[t] \cup InHand(t) \cup {}
  BY <1>2, <1>6
<1>9. \A u \in Threads \ {t} : held'[u] = held[u] /\ call'[u] = call[u]
  BY <1>3
<1>10. /\ Exclusive'
       /\ Existing' = ToSet(idle') \cup held'[t] \cup InHand(t)' \cup Others(t)
       /\ Existing = ToSet(idle) \cup held[t] \cup InHand(t) \cup Others(t)
  BY <1>2, <1>4, <1>7, <1>8, <1>9, Moves, ZenonT(60)
<1>11. Existing' = Existing
  BY <1>2, <1>6, <1>10
<1>12. Ready' \subseteq Ready \cup {}
  <2>1. Returning(t)' = Returning(t)
    BY <1>3 DEF Returning
  <2>2. ToSet(idle') \cup Returning(t)' \subseteq ToSet(idle) \cup Returning(t) \cup {}
    BY <1>2, <2>1
  <2> QED
    BY <1>3, <2>2, ReadyMoves
<1> QED
  BY <1>2, <1>5, <1>10, <1>11, <1>12 DEF PInv

LEMMA PutEvictsKeeps ==
  ASSUME PInv, NEW t \in Threads, PutEvicts(t)
  PROVE  PInv' /\ Existing' = Existing /\ Ready' \subseteq Ready
<1> DEFINE r == call[t].item
           c == [call[t] EXCEPT !.op = "putting", !.left = Attempts(t) - 1, !.dying = {Head(idle)}]
<1>1. /\ call[t].op \in {"put", "putting"} /\ call[t].dying = {}
      /\ Attempts(t) > 0 /\ Bytes(r) <= budget /\ ~Fits(r)
      /\ idle' = Tail(idle) /\ bytes' = bytes - Bytes(Head(idle)) /\ UNCHANGED <<budget, held>>
      /\ call' = [call EXCEPT ![t].op = "putting", ![t].left = Attempts(t) - 1, ![t].dying = {Head(idle)}]
  BY DEF PutEvicts
<1>2. call[t] \in Calls /\ call \in [Threads -> Calls] /\ idle \in Seq(Items) /\ bytes = SumOf(idle)
      /\ budget \in Nat /\ MaxEntries > 0 /\ r \in Items
  BY <1>1, ResourcePoolAssumption DEF PInv, PoolTypeOK, PutsInHand, WithinLimits
<1>3. idle # <<>>
  <2>1. SUFFICES ASSUME idle = <<>> PROVE FALSE
    OBVIOUS
  <2>2. bytes = 0 /\ Len(idle) = 0 /\ Bytes(r) \in Nat
    BY <1>2, <2>1, SumEmpty, BytesType
  <2> QED
    BY <1>1, <1>2, <2>2 DEF Fits
<1>4. Head(idle) \in Items
  BY <1>2, <1>3
<1>5. Attempts(t) - 1 \in Nat
  <2>1. Attempts(t) \in Nat
    BY <1>2 DEF Attempts, Calls
  <2> QED
    BY <1>1, <2>1
<1>6. c \in Calls /\ c.op = "putting" /\ c.dying = {Head(idle)} /\ c.item = r
  BY <1>2, <1>4, <1>5 DEF Calls
<1>7. call' = [call EXCEPT ![t] = c]
  BY <1>1, <1>2
<1> HIDE DEF c
<1> QED
  BY <1>1, <1>3, <1>6, <1>7, OldestGoes

LEMMA PutEndsKeeps ==
  ASSUME PInv, NEW t \in Threads, PutEnds(t)
  PROVE  PInv' /\ Existing' = Existing /\ Ready' \subseteq Ready
<1> DEFINE r == call[t].item
<1>1. call[t].op \in {"put", "putting"} /\ call[t].dying = {} /\ UNCHANGED <<budget, held>>
  BY DEF PutEnds
<1>2. call[t] \in Calls /\ r \in Items /\ idle \in Seq(Items) /\ bytes = SumOf(idle) /\ bytes \in Nat
      /\ budget \in Nat /\ MaxEntries \in Nat /\ Bytes(r) \in Nat
  BY <1>1, ResourcePoolAssumption, BytesType DEF PInv, PoolTypeOK, PutsInHand, WithinLimits
<1>3. InHand(t) = {r}
  BY <1>1 DEF InHand
<1>4. CASE /\ Fits(r) /\ idle' = Append(idle, r) /\ bytes' = bytes + Bytes(r)
           /\ call' = [call EXCEPT ![t] = NoCall]
  <2>1. NoCall \in Calls /\ NoCall.op = "none" /\ NoCall.dying = {}
    BY DEF NoCall, Calls
  <2>2. call' \in [Threads -> Calls] /\ call'[t] = NoCall /\ \A u \in Threads \ {t} : call'[u] = call[u]
    BY <1>4, <2>1, CallBecomes DEF PInv
  <2>3. InHand(t)' = {}
    BY <2>1, <2>2 DEF InHand
  <2>4. Exclusive /\ Distinct(idle) /\ ToSet(idle) \cap (held[t] \cup InHand(t)) = {}
        /\ held[t] \cap InHand(t) = {}
    BY DEF PInv, Exclusive
  <2>5. Distinct(idle') /\ ToSet(idle') = ToSet(idle) \cup {r}
    BY <1>2, <1>3, <1>4, <2>4, AppendDistinct
  <2>6. idle' \in Seq(Items) /\ Len(idle') = Len(idle) + 1 /\ Len(idle) \in Nat
    BY <1>2, <1>4
  <2>7. SumOf(idle') = bytes'
    BY <1>2, <1>4, SumAppend
  <2>8. bytes' \in Nat /\ bytes' <= budget' /\ Len(idle') <= MaxEntries
    BY <1>1, <1>2, <1>4, <2>6 DEF Fits
  <2>9. PoolTypeOK' /\ PutsInHand' /\ WithinLimits'
    BY <1>1, <2>1, <2>2, <2>6, <2>7, <2>8 DEF PInv, PoolTypeOK, PutsInHand, WithinLimits
  <2>10. ToSet(idle') \cap (held'[t] \cup InHand(t)') = {} /\ held'[t] \cap InHand(t)' = {}
    BY <1>1, <1>3, <2>3, <2>4, <2>5
  <2>11. ToSet(idle') \cup held'[t] \cup InHand(t)' \subseteq ToSet(idle) \cup held[t] \cup InHand(t) \cup {}
    BY <1>1, <1>3, <2>3, <2>5
  <2>12. {} \cap Existing = {}
    OBVIOUS
  <2>13. /\ Exclusive'
         /\ Existing' = ToSet(idle') \cup held'[t] \cup InHand(t)' \cup Others(t)
         /\ Existing = ToSet(idle) \cup held[t] \cup InHand(t) \cup Others(t)
    BY <1>1, <2>2, <2>4, <2>5, <2>10, <2>11, <2>12, Moves
  <2>14. Existing' = Existing
    BY <1>1, <1>3, <2>3, <2>5, <2>13
  <2>15. Ready' \subseteq Ready \cup {}
    <3>1. Returning(t)' = {} /\ Returning(t) = {r}
      BY <1>1, <2>1, <2>2 DEF Returning
    <3>2. ToSet(idle') \cup Returning(t)' \subseteq ToSet(idle) \cup Returning(t) \cup {}
      BY <2>5, <3>1
    <3> QED
      BY <2>2, <3>2, ReadyMoves
  <2> QED
    BY <2>9, <2>13, <2>14, <2>15 DEF PInv
<1>5. CASE /\ ~Fits(r) /\ call' = [call EXCEPT ![t] = [NoCall EXCEPT !.dying = {r}]]
           /\ UNCHANGED <<idle, bytes>>
  <2> DEFINE c == [NoCall EXCEPT !.dying = {r}]
  <2>1. c \in Calls /\ c.op = "none" /\ c.dying = {r}
    BY <1>2 DEF NoCall, Calls
  <2>2. call' = [call EXCEPT ![t] = c]
    BY <1>5
  <2> HIDE DEF c
  <2>3. InHand(t)' = {r}
    BY <2>1, <2>2, CallBecomes DEF InHand, PInv
  <2>4. PInv' /\ Existing' = (Existing \ InHand(t)) \cup InHand(t)' /\ Ready' \subseteq Ready
    BY <1>1, <1>3, <1>5, <2>1, <2>2, <2>3, CallKeeps
  <2>5. InHand(t) \subseteq Existing
    BY DEF Existing
  <2> QED
    BY <1>3, <2>3, <2>4, <2>5
<1> QED
  BY <1>4, <1>5 DEF PutEnds

LEMMA DestroyEvictedKeeps ==
  ASSUME PInv, NEW t \in Threads, DestroyEvicted(t)
  PROVE  PInv' /\ Existing' = Existing \ call[t].dying /\ Ready' \subseteq Ready \ call[t].dying
<1> DEFINE c == [call[t] EXCEPT !.dying = {}]
<1>1. call' = [call EXCEPT ![t] = c] /\ UNCHANGED <<idle, bytes, budget, held>>
  BY DEF DestroyEvicted
<1>2. call[t] \in Calls
  BY DEF PInv, PoolTypeOK
<1>3. c \in Calls /\ c.op = call[t].op /\ c.item = call[t].item /\ c.dying = {}
  BY <1>2 DEF Calls
<1> HIDE DEF c
<1>4. InHand(t)' = InHand(t) \ call[t].dying /\ call[t].dying \subseteq InHand(t)
  <2>1. call'[t] = c
    BY <1>1, <1>3, CallBecomes DEF PInv
  <2>2. call[t].op \in {"put", "putting"} => call[t].item \notin call[t].dying
    BY DEF PInv, PutsInHand
  <2> QED
    BY <1>3, <2>1, <2>2 DEF InHand
<1>5. PInv' /\ Existing' = (Existing \ InHand(t)) \cup InHand(t)' /\ Ready' \subseteq Ready
  BY <1>1, <1>3, <1>4, CallKeeps
<1>6. InHand(t) \subseteq Existing
  BY DEF Existing
<1>7. Ready' \cap call[t].dying = {}
  <2>1. Ready' \subseteq Existing'
    BY DEF Ready, Existing, Returning, InHand
  <2> QED
    BY <1>4, <1>5, <1>6, <2>1
<1> QED
  BY <1>4, <1>5, <1>6, <1>7

LEMMA EvictStartsKeeps ==
  ASSUME PInv, NEW t \in Threads, NEW n \in Nat, Free(t), EvictStarts(t, n)
  PROVE  PInv' /\ Existing' = Existing /\ Ready' \subseteq Ready
<1> DEFINE c == [NoCall EXCEPT !.op = "evict", !.left = Len(idle), !.need = n]
<1>1. call' = [call EXCEPT ![t] = c] /\ UNCHANGED <<idle, bytes, budget, held>>
  BY DEF EvictStarts
<1>2. Len(idle) \in Nat
  BY DEF PInv, PoolTypeOK
<1>3. c \in Calls /\ c.op = "evict" /\ c.dying = {}
  BY <1>2 DEF NoCall, Calls
<1> HIDE DEF c
<1>4. InHand(t) = {} /\ InHand(t)' = {}
  BY <1>1, <1>3, CallBecomes, FreeHasNothing DEF InHand, PInv
<1>5. PInv' /\ Existing' = (Existing \ InHand(t)) \cup InHand(t)' /\ Ready' \subseteq Ready
  BY <1>1, <1>3, <1>4, CallKeeps
<1> QED
  BY <1>4, <1>5

LEMMA EvictsKeeps ==
  ASSUME PInv, NEW t \in Threads, Evicts(t)
  PROVE  PInv' /\ Existing' = Existing /\ Ready' \subseteq Ready
<1> DEFINE c == [call[t] EXCEPT !.left = @ - 1, !.freed = @ + Bytes(Head(idle)), !.dying = {Head(idle)}]
<1>1. /\ call[t].op = "evict" /\ call[t].dying = {} /\ call[t].left > 0 /\ idle # <<>>
      /\ idle' = Tail(idle) /\ bytes' = bytes - Bytes(Head(idle)) /\ UNCHANGED <<budget, held>>
      /\ call' = [call EXCEPT ![t].left = @ - 1, ![t].freed = @ + Bytes(Head(idle)),
                              ![t].dying = {Head(idle)}]
  BY DEF Evicts, EvictsOn
<1>2. call[t] \in Calls /\ call \in [Threads -> Calls] /\ idle \in Seq(Items)
  BY DEF PInv, PoolTypeOK
<1>3. Head(idle) \in Items /\ Bytes(Head(idle)) \in Nat
  BY <1>1, <1>2, BytesType
<1>4. call[t].left - 1 \in Nat /\ call[t].freed + Bytes(Head(idle)) \in Nat
  BY <1>1, <1>2, <1>3 DEF Calls
<1>5. c \in Calls /\ c.op = "evict" /\ c.dying = {Head(idle)} /\ c.item = call[t].item
  BY <1>1, <1>2, <1>3, <1>4 DEF Calls
<1>6. call' = [call EXCEPT ![t] = c]
  BY <1>1, <1>2
<1> HIDE DEF c
<1> QED
  BY <1>1, <1>5, <1>6, OldestGoes

LEMMA EvictEndsKeeps ==
  ASSUME PInv, NEW t \in Threads, EvictEnds(t)
  PROVE  PInv' /\ Existing' = Existing /\ Ready' \subseteq Ready
<1>1. /\ call' = [call EXCEPT ![t] = NoCall] /\ UNCHANGED <<idle, bytes, budget, held>>
      /\ call[t].op = "evict" /\ call[t].dying = {}
  BY DEF EvictEnds
<1>2. NoCall \in Calls /\ NoCall.op = "none" /\ NoCall.dying = {}
  BY DEF NoCall, Calls
<1>3. InHand(t) = {} /\ InHand(t)' = {}
  BY <1>1, <1>2, CallBecomes DEF InHand, PInv
<1>4. PInv' /\ Existing' = (Existing \ InHand(t)) \cup InHand(t)' /\ Ready' \subseteq Ready
  BY <1>1, <1>2, <1>3, CallKeeps
<1> QED
  BY <1>3, <1>4

(* set_budget's walk down the list always finds where to stop. *)
LEMMA OverExists ==
  ASSUME PInv, NEW b \in Nat
  PROVE  /\ Over(b) \in 0..Len(idle)
         /\ Over(b) = Len(idle) \/ bytes - SumOf(SubSeq(idle, 1, Over(b))) <= b
<1> DEFINE Stops(n) == n = Len(idle) \/ bytes - SumOf(SubSeq(idle, 1, n)) <= b
           S == {n \in 0..Len(idle) : Stops(n)}
<1>1. Len(idle) \in Nat /\ idle \in Seq(Items) /\ bytes \in Nat
  BY DEF PInv, PoolTypeOK
<1>2. S \subseteq Nat /\ Len(idle) \in S
  BY <1>1
<1>3. Min(S) \in S /\ \A m \in S : Min(S) <= m
  BY <1>2, MinIsMember
<1> DEFINE n0 == Min(S)
<1>4. \A m \in 0..(n0 - 1) : m \in 0..Len(idle) /\ m \notin S
  BY <1>1, <1>3
<1>5. \A m \in 0..(n0 - 1) : bytes - SumOf(SubSeq(idle, 1, m)) > b
  <2>1. ASSUME NEW m \in 0..(n0 - 1) PROVE bytes - SumOf(SubSeq(idle, 1, m)) > b
    <3>1. m \in 0..Len(idle) /\ ~Stops(m)
      BY <1>4
    <3>2. SumOf(SubSeq(idle, 1, m)) \in Nat
      BY <1>1, <3>1, SumSplits, SumUnfolds
    <3> QED
      BY <1>1, <3>1, <3>2
  <2> QED
    BY <2>1
<1>6. n0 \in 0..Len(idle) /\ Stops(n0)
  BY <1>3
<1> HIDE DEF n0, S
<1>7. \E n \in 0..Len(idle) :
        /\ n = Len(idle) \/ bytes - SumOf(SubSeq(idle, 1, n)) <= b
        /\ \A m \in 0..(n - 1) : bytes - SumOf(SubSeq(idle, 1, m)) > b
  BY <1>5, <1>6
<1> QED
  BY <1>7 DEF Over

LEMMA SetBudgetKeeps ==
  ASSUME PInv, NEW t \in Threads, NEW b \in Budgets, Free(t), SetBudget(t, b)
  PROVE  PInv' /\ Existing' = Existing /\ Ready' \subseteq Ready
<1> DEFINE n == Over(b)
           gone == SubSeq(idle, 1, n)
           c == [NoCall EXCEPT !.dying = ToSet(gone)]
<1>1. /\ idle' = SubSeq(idle, n + 1, Len(idle)) /\ bytes' = bytes - SumOf(gone)
      /\ budget' = b /\ UNCHANGED held
      /\ call' = [call EXCEPT ![t].dying = ToSet(gone)]
  BY DEF SetBudget
<1>2. /\ idle \in Seq(Items) /\ Len(idle) \in Nat /\ bytes \in Nat /\ bytes = SumOf(idle)
      /\ Len(idle) <= MaxEntries /\ MaxEntries \in Nat /\ b \in Nat
  BY ResourcePoolAssumption DEF PInv, PoolTypeOK, WithinLimits
<1>3. n \in 0..Len(idle) /\ (n = Len(idle) \/ bytes - SumOf(gone) <= b)
  BY <1>2, OverExists
<1> HIDE DEF n
<1>4. /\ gone \in Seq(Items) /\ idle' \in Seq(Items)
      /\ SumOf(idle) = SumOf(gone) + SumOf(idle')
      /\ SumOf(gone) \in Nat /\ SumOf(idle') \in Nat
  BY <1>1, <1>2, <1>3, SumSplits, SumUnfolds
<1>5. bytes' = SumOf(idle') /\ bytes' \in Nat
  BY <1>1, <1>2, <1>4
<1>6. Len(idle') = Len(idle) - n
  BY <1>1, <1>2, <1>3, SubSeqProperties
<1>7. bytes' <= budget'
  <2>1. CASE n = Len(idle)
    <3>1. idle' = <<>>
      <4>1. SUFFICES ASSUME idle' # <<>> PROVE FALSE
        OBVIOUS
      <4>2. Len(idle') \in Nat \ {0}
        BY <1>4, <4>1, EmptySeq
      <4> QED
        BY <1>2, <1>6, <2>1, <4>2
    <3>2. SumOf(idle') = 0
      BY <3>1, SumEmpty, Zenon
    <3>3. bytes' = 0 /\ 0 <= b /\ budget' = b
      BY <1>1, <1>2, <1>5, <3>2
    <3> QED
      BY <3>3
  <2>2. CASE bytes - SumOf(gone) <= b
    BY <1>1, <2>2
  <2> QED
    BY <1>3, <2>1, <2>2
<1>8. ToSet(gone) \subseteq Items
  BY <1>4, ToSetIs
<1>9. c \in Calls /\ c.op = "none" /\ c.dying = ToSet(gone)
  BY <1>8 DEF NoCall, Calls
<1>10. call' = [call EXCEPT ![t] = c]
  BY <1>1, FreeHasNothing
<1> HIDE DEF c
<1>11. call' \in [Threads -> Calls] /\ call'[t] = c /\ \A u \in Threads \ {t} : call'[u] = call[u]
  BY <1>9, <1>10, CallBecomes DEF PInv
<1>12. PoolTypeOK' /\ PutsInHand' /\ WithinLimits'
  <2>1. WithinLimits'
    BY <1>2, <1>3, <1>5, <1>6, <1>7 DEF WithinLimits
  <2>2. PutsInHand'
    BY <1>9, <1>11 DEF PInv, PutsInHand
  <2>3. PoolTypeOK'
    BY <1>1, <1>4, <1>5, <1>11 DEF PInv, PoolTypeOK
  <2> QED
    BY <2>1, <2>2, <2>3
<1>13. InHand(t)' = ToSet(gone)
  BY <1>9, <1>11 DEF InHand
<1>14. Exclusive /\ Distinct(idle) /\ ToSet(idle) \cap held[t] = {}
  BY DEF PInv, Exclusive
<1>15. Distinct(idle') /\ ToSet(gone) \subseteq ToSet(idle) /\ ToSet(idle') \subseteq ToSet(idle)
       /\ ToSet(gone) \cap ToSet(idle') = {}
  BY <1>1, <1>2, <1>3, <1>14, SubSeqDistinct
<1> HIDE DEF gone
<1>16. ToSet(gone) \cup ToSet(idle') = ToSet(idle)
  BY <1>1, <1>2, <1>3, <1>14, SubSeqDistinct DEF gone
<1>17. Exclusive' /\ Existing' = Existing
  <2>1. ToSet(idle') \cap (held'[t] \cup InHand(t)') = {} /\ held'[t] \cap InHand(t)' = {}
    BY <1>1, <1>13, <1>14, <1>15
  <2>2. ToSet(idle') \cup held'[t] \cup InHand(t)' \subseteq ToSet(idle) \cup held[t] \cup InHand(t) \cup {}
    BY <1>1, <1>13, <1>15
  <2>3. {} \cap Existing = {} /\ InHand(t) = {}
    BY FreeHasNothing
  <2>4. /\ Exclusive'
        /\ Existing' = ToSet(idle') \cup held'[t] \cup InHand(t)' \cup Others(t)
        /\ Existing = ToSet(idle) \cup held[t] \cup InHand(t) \cup Others(t)
    BY <1>1, <1>11, <1>14, <1>15, <2>1, <2>2, <2>3, Moves
  <2> QED
    BY <1>1, <1>13, <1>16, <2>3, <2>4
<1>18. Ready' \subseteq Ready \cup {}
  <2>1. Returning(t)' = {}
    BY <1>9, <1>11 DEF Returning
  <2>2. ToSet(idle') \cup Returning(t)' \subseteq ToSet(idle) \cup Returning(t) \cup {}
    BY <1>15, <2>1
  <2> QED
    BY <1>11, <2>2, ReadyMoves
<1> QED
  BY <1>12, <1>17, <1>18 DEF PInv

LEMMA PoolStepKeeps ==
  ASSUME PInv, NEW t \in Threads, PoolStep(t)
  PROVE  PInv'
BY PutEvictsKeeps, PutEndsKeeps, DestroyEvictedKeeps, EvictsKeeps, EvictEndsKeeps DEF PoolStep

LEMMA PInvKeeps ==
  ASSUME PInv, [PoolNext]_poolVars
  PROVE  PInv'
<1>1. CASE UNCHANGED poolVars
  BY <1>1 DEF PInv, PoolTypeOK, WithinLimits, Exclusive, PutsInHand, InHand, poolVars
<1>2. CASE PoolNext
  <2>1. PICK t \in Threads :
          \/ PoolStep(t)
          \/ /\ Free(t)
             /\ \/ \E k \in Keys : Take(t, k)
                \/ \E r \in Items : CreateOnMiss(t, r)
                \/ \E r \in held[t] : Discard(t, r) \/ PutStarts(t, r)
                \/ \E b \in Budgets : SetBudget(t, b)
                \/ \E n \in Needs : EvictStarts(t, n)
    BY <1>2 DEF PoolNext
  <2>2. CASE PoolStep(t)
    BY <2>2, PoolStepKeeps
  <2>3. ASSUME Free(t), NEW k \in Keys, Take(t, k) PROVE PInv'
    BY <2>3, TakeKeepsInv
  <2>4. ASSUME NEW r \in Items, CreateOnMiss(t, r) PROVE PInv'
    <3>1. /\ held[t] \cup {r} \in SUBSET Items /\ r \notin Existing
          /\ held' = [held EXCEPT ![t] = held[t] \cup {r}] /\ UNCHANGED <<idle, bytes, budget, call>>
      BY <2>4 DEF CreateOnMiss, PInv, PoolTypeOK
    <3> QED
      BY <3>1, HeldKeeps
  <2>5. held[t] \subseteq Items
    BY DEF PInv, PoolTypeOK
  <2>6. ASSUME NEW r \in held[t], Discard(t, r) PROVE PInv'
    <3>1. /\ held[t] \ {r} \in SUBSET Items
          /\ held' = [held EXCEPT ![t] = held[t] \ {r}] /\ UNCHANGED <<idle, bytes, budget, call>>
      BY <2>5, <2>6 DEF Discard
    <3> QED
      BY <3>1, HeldKeeps
  <2>7. ASSUME Free(t), NEW r \in held[t], PutStarts(t, r) PROVE PInv'
    BY <2>5, <2>7, PutStartsKeeps
  <2>8. ASSUME Free(t), NEW b \in Budgets, SetBudget(t, b) PROVE PInv'
    BY <2>8, SetBudgetKeeps
  <2>9. ASSUME Free(t), NEW n \in Needs, EvictStarts(t, n) PROVE PInv'
    BY <2>9, EvictStartsKeeps, ResourcePoolAssumption
  <2> QED
    BY <2>1, <2>2, <2>3, <2>4, <2>6, <2>7, <2>8, <2>9
<1> QED
  BY <1>1, <1>2

LEMMA PInvAlways == PoolSpec => []PInv
<1>1. PoolInit => PInv
  BY PInvStarts
<1>2. PInv /\ [PoolNext]_poolVars => PInv'
  BY PInvKeeps
<1> QED
  BY <1>1, <1>2, PTL DEF PoolSpec

-----------------------------------------------------------------------------
(* pool.rs: the byte count put, evict and set_budget decide from is the    *)
(* sum of what is idle, whatever threads return, take and evict in the     *)
(* gaps in which the mutex is released, and it stays within the budget of  *)
(* the moment and the entry limit.                                         *)
THEOREM ThePoolStaysWithinItsLimits == PoolSpec => []WithinLimits
<1>1. PInv => WithinLimits
  BY DEF PInv
<1> QED
  BY <1>1, PInvAlways, PTL

(* pool.rs: no resource is idle twice, idle while a thread uses it, lent   *)
(* to two threads, or destroyed by one while another has it.               *)
THEOREM EveryResourceHasOneOwner == PoolSpec => []OneOwner
<1>1. PInv => OneOwner
  BY DEF PInv, Exclusive, OneOwner, Distinct
<1> QED
  BY <1>1, PInvAlways, PTL
=============================================================================
