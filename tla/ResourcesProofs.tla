--------------------------- MODULE ResourcesProofs ---------------------------
(***************************************************************************)
(* Theorems about Resources for any threads, items, plans, limits and      *)
(* budgets: an item is in one place, the ledger is the sum of what there   *)
(* is, what is idle may be reused, and use grows only within the limit.    *)
(***************************************************************************)
EXTENDS Resources, ResourcePoolProofs

(* Sums over a finite set: whatever element is taken out, the sum falls by *)
(* its weight.                                                             *)
Additive(g, S, f) ==
  /\ g \in [SUBSET S -> Nat] /\ g[{}] = 0
  /\ \A T \in SUBSET S : \A x \in T : g[T] = g[T \ {x}] + f[x]

(* MapThenSumSet adds the sum of the rest to the weight of the element it  *)
(* takes out.                                                              *)
FoldedFirst(g, S, f, c) ==
  g = [T \in SUBSET S |-> IF T = {} THEN 0 ELSE f[c[T]] + g[T \ {c[T]}]]

LEMMA FoldFlips ==
  ASSUME NEW S, IsFiniteSet(S), NEW f \in [S -> Nat], NEW c, \A T \in SUBSET S : T # {} => c[T] \in T
  PROVE  /\ \E g : FoldedFirst(g, S, f, c)
         /\ \A h : FoldedFirst(h, S, f, c) => Folded(h, S, f, c)
<1>1. PICK g \in [SUBSET S -> Nat] : Folded(g, S, f, c)
  BY FoldExists
<1>2. \A T \in SUBSET S : g[T] = IF T = {} THEN 0 ELSE g[T \ {c[T]}] + f[c[T]]
  BY <1>1 DEF Folded
<1>3. ASSUME NEW T \in SUBSET S, T # {}
      PROVE  g[T] = f[c[T]] + g[T \ {c[T]}] /\ g[T \ {c[T]}] \in Nat /\ f[c[T]] \in Nat
  <2>1. T \ {c[T]} \in SUBSET S /\ c[T] \in S
    BY <1>3
  <2>2. g[T \ {c[T]}] \in Nat /\ f[c[T]] \in Nat
    BY <2>1
  <2>3. g[T] = g[T \ {c[T]}] + f[c[T]]
    BY <1>2, <1>3
  <2> QED
    BY <2>2, <2>3
<1>4. FoldedFirst(g, S, f, c)
  <2>1. \A T \in SUBSET S : g[T] = IF T = {} THEN 0 ELSE f[c[T]] + g[T \ {c[T]}]
    BY <1>2, <1>3
  <2>2. g = [T \in SUBSET S |-> g[T]]
    OBVIOUS
  <2>3. [T \in SUBSET S |-> g[T]] = [T \in SUBSET S |-> IF T = {} THEN 0 ELSE f[c[T]] + g[T \ {c[T]}]]
    BY <2>1, Zenon
  <2> QED
    BY <2>2, <2>3 DEF FoldedFirst
<1>5. ASSUME NEW h, FoldedFirst(h, S, f, c) PROVE h = g
  <2> DEFINE N == {n \in Nat : \A T \in SUBSET S : Cardinality(T) = n => h[T] = g[T]}
  <2>1. \A T \in SUBSET S : h[T] = IF T = {} THEN 0 ELSE f[c[T]] + h[T \ {c[T]}]
    BY <1>5 DEF FoldedFirst
  <2>2. 0 \in N
    BY <1>2, <2>1, Shrinks
  <2>3. ASSUME NEW n \in Nat, n \in N PROVE n + 1 \in N
    <3>1. ASSUME NEW T \in SUBSET S, Cardinality(T) = n + 1 PROVE h[T] = g[T]
      <4>1. T # {} /\ T \ {c[T]} \in SUBSET S
        BY <3>1, Shrinks
      <4>2. Cardinality(T \ {c[T]}) = n
        BY <3>1, <4>1, Shrinks
      <4>3. h[T \ {c[T]}] = g[T \ {c[T]}]
        BY <2>3, <4>1, <4>2
      <4>4. h[T] = f[c[T]] + h[T \ {c[T]}]
        BY <2>1, <4>1
      <4>5. g[T] = f[c[T]] + g[T \ {c[T]}]
        BY <1>3, <4>1
      <4> QED
        BY <4>3, <4>4, <4>5
    <3> QED
      BY <3>1
  <2> HIDE DEF N
  <2>4. \A n \in Nat : n \in N
    BY <2>2, <2>3, NatSetInduction
  <2>5. \A T \in SUBSET S : h[T] = g[T]
    BY <2>4, Shrinks DEF N
  <2>6. h = [T \in SUBSET S |-> h[T]]
    BY <1>5 DEF FoldedFirst
  <2>7. g = [T \in SUBSET S |-> g[T]]
    OBVIOUS
  <2>8. [T \in SUBSET S |-> h[T]] = [T \in SUBSET S |-> g[T]]
    BY <2>5, Zenon
  <2> QED
    BY <2>6, <2>7, <2>8
<1> QED
  BY <1>1, <1>4, <1>5

Chosen(T) == CHOOSE x \in T : TRUE

LEMMA FoldIsAdditive ==
  ASSUME NEW S, IsFiniteSet(S), NEW f \in [S -> Nat], NEW c, \A T \in SUBSET S : T # {} => c[T] \in T,
         NEW g, Folded(g, S, f, c)
  PROVE  Additive(g, S, f)
<1> DEFINE N == {n \in Nat : \A T \in SUBSET S : Cardinality(T) = n => \A x \in T : g[T] = g[T \ {x}] + f[x]}
<1>1. g \in [SUBSET S -> Nat]
  BY FoldType
<1>2. \A T \in SUBSET S : g[T] = IF T = {} THEN 0 ELSE g[T \ {c[T]}] + f[c[T]]
  BY DEF Folded
<1>3. 0 \in N
  BY Shrinks
<1>4. ASSUME NEW n \in Nat, n \in N PROVE n + 1 \in N
  <2>1. ASSUME NEW T \in SUBSET S, Cardinality(T) = n + 1, NEW x \in T
        PROVE  g[T] = g[T \ {x}] + f[x]
    <3> DEFINE y == c[T]
    <3>1. y \in T /\ g[T] = g[T \ {y}] + f[y]
      BY <1>2
    <3>2. CASE y = x
      BY <3>1, <3>2
    <3>3. CASE y # x
      <4>1. /\ T \ {y} \in SUBSET S /\ x \in T \ {y} /\ T \ {x} \in SUBSET S /\ y \in T \ {x}
            /\ (T \ {y}) \ {x} = (T \ {x}) \ {y} /\ (T \ {y}) \ {x} \in SUBSET S
        BY <3>1, <3>3
      <4>2. Cardinality(T \ {y}) = n /\ Cardinality(T \ {x}) = n
        BY <2>1, <3>1, Shrinks
      <4> HIDE DEF y
      <4>3. g[T \ {y}] = g[(T \ {y}) \ {x}] + f[x]
        BY <1>4, <4>1, <4>2
      <4>4. g[T \ {x}] = g[(T \ {x}) \ {y}] + f[y]
        BY <1>4, <4>1, <4>2
      <4>5. f[x] \in Nat /\ f[y] \in Nat /\ g[(T \ {y}) \ {x}] \in Nat
        BY <1>1, <3>1, <4>1
      <4>6. g[(T \ {x}) \ {y}] = g[(T \ {y}) \ {x}]
        BY <4>1
      <4>7. g[T] = (g[(T \ {y}) \ {x}] + f[x]) + f[y] /\ g[T \ {x}] = g[(T \ {y}) \ {x}] + f[y]
        BY <3>1, <4>3, <4>4, <4>6
      <4> HIDE <4>1
      <4> QED
        BY <4>5, <4>7
    <3> QED
      BY <3>2, <3>3
  <2> QED
    BY <2>1
<1> HIDE DEF N
<1>5. \A n \in Nat : n \in N
  BY <1>3, <1>4, NatSetInduction
<1>6. \A T \in SUBSET S : \A x \in T : g[T] = g[T \ {x}] + f[x]
  BY <1>5, Shrinks DEF N
<1>7. g[{}] = 0
  BY <1>2
<1> QED
  BY <1>1, <1>6, <1>7 DEF Additive

LEMMA AdditiveAgree ==
  ASSUME NEW S, IsFiniteSet(S), NEW R, NEW f, NEW e, NEW g, NEW h, Additive(g, S, f), Additive(h, R, e),
         NEW T, T \subseteq S, T \subseteq R, \A x \in T : f[x] = e[x]
  PROVE  g[T] = h[T]
<1> DEFINE N == {n \in Nat : \A U \in SUBSET T : Cardinality(U) = n => g[U] = h[U]}
<1>1. 0 \in N
  BY Shrinks DEF Additive
<1>2. ASSUME NEW n \in Nat, n \in N PROVE n + 1 \in N
  <2>1. ASSUME NEW U \in SUBSET T, Cardinality(U) = n + 1 PROVE g[U] = h[U]
    <3>1. U \in SUBSET S /\ U \in SUBSET R
      OBVIOUS
    <3>2. U # {}
      BY <2>1, <3>1, Shrinks
    <3>3. PICK x \in U : TRUE
      BY <3>2
    <3>4. Cardinality(U \ {x}) = n
      BY <2>1, <3>1, Shrinks
    <3>5. g[U \ {x}] = h[U \ {x}]
      BY <1>2, <3>4
    <3> QED
      BY <3>1, <3>5 DEF Additive
  <2> QED
    BY <2>1
<1> HIDE DEF N
<1>3. \A n \in Nat : n \in N
  BY <1>1, <1>2, NatSetInduction
<1>4. T \in SUBSET T /\ Cardinality(T) \in Nat
  BY Shrinks
<1> QED
  BY <1>3, <1>4 DEF N

-----------------------------------------------------------------------------
(* The bytes of a set of items. *)

ByteWeights(S) == [r \in S |-> Bytes(r)]

LEMMA BytesOfUnfolds ==
  ASSUME NEW S \in SUBSET Items
  PROVE  \E g : Additive(g, S, ByteWeights(S)) /\ BytesOf(S) = g[S]
<1> DEFINE c == [T \in SUBSET S |-> Chosen(T)]
           it == CHOOSE h : h = [T \in SUBSET S |-> IF T = {} THEN 0 ELSE Bytes(Chosen(T)) + h[T \ {Chosen(T)}]]
<1>1. IsFiniteSet(S) /\ ByteWeights(S) \in [S -> Nat]
  BY ResourcesAssumption, FS_Subset, BytesType DEF ByteWeights
<1>2. \A T \in SUBSET S : T # {} => Chosen(T) \in T
  BY DEF Chosen
<1>21. \A T \in SUBSET S : T # {} => c[T] \in T
  BY <1>2
<1>3. PICK g : FoldedFirst(g, S, ByteWeights(S), c)
  <2> HIDE DEF c
  <2> QED
    BY <1>1, <1>21, FoldFlips
<1>4. g = [T \in SUBSET S |-> IF T = {} THEN 0 ELSE Bytes(Chosen(T)) + g[T \ {Chosen(T)}]]
  BY <1>1, <1>2, <1>3 DEF FoldedFirst, ByteWeights
<1>5. it = [T \in SUBSET S |-> IF T = {} THEN 0 ELSE Bytes(Chosen(T)) + it[T \ {Chosen(T)}]]
  BY <1>4, Zenon
<1>6. BytesOf(S) = it[S]
  BY Zenon DEF BytesOf, MapThenSumSet, MapThenFoldSet, Chosen
<1> HIDE DEF it
<1>7. FoldedFirst(it, S, ByteWeights(S), c)
  <2>1. \A T \in SUBSET S : T # {} => c[T] = Chosen(T) /\ ByteWeights(S)[Chosen(T)] = Bytes(Chosen(T))
    BY <1>1, <1>2 DEF ByteWeights
  <2> HIDE DEF c
  <2>2. [T \in SUBSET S |-> IF T = {} THEN 0 ELSE Bytes(Chosen(T)) + it[T \ {Chosen(T)}]]
          = [T \in SUBSET S |-> IF T = {} THEN 0 ELSE ByteWeights(S)[c[T]] + it[T \ {c[T]}]]
    BY <2>1
  <2> QED
    BY <1>5, <2>2, Zenon DEF FoldedFirst
<1>8. Additive(it, S, ByteWeights(S))
  <2> HIDE DEF c
  <2>1. Folded(it, S, ByteWeights(S), c)
    BY <1>1, <1>21, <1>7, FoldFlips
  <2> QED
    BY <1>1, <1>21, <2>1, FoldIsAdditive
<1> QED
  BY <1>6, <1>8

LEMMA BytesOfAdds ==
  ASSUME NEW S \in SUBSET Items, NEW r \in Items, r \notin S
  PROVE  BytesOf(S) \in Nat /\ BytesOf(S \cup {r}) = BytesOf(S) + Bytes(r)
<1> DEFINE U == S \cup {r}
<1>1. PICK g : Additive(g, S, ByteWeights(S)) /\ BytesOf(S) = g[S]
  BY BytesOfUnfolds
<1>2. PICK h : Additive(h, U, ByteWeights(U)) /\ BytesOf(U) = h[U]
  BY BytesOfUnfolds
<1>3. IsFiniteSet(S)
  BY ResourcesAssumption, FS_Subset
<1>4. \A x \in S : ByteWeights(S)[x] = ByteWeights(U)[x]
  BY DEF ByteWeights
<1>5. S \subseteq S /\ S \subseteq U
  OBVIOUS
<1>8. Additive(h, U, ByteWeights(U)) /\ BytesOf(U) = h[U] /\ U \ {r} = S /\ ByteWeights(U)[r] = Bytes(r)
      /\ U \in SUBSET U /\ r \in U
  BY <1>2 DEF ByteWeights
<1> HIDE DEF U
<1>9. g[S] = h[S]
  BY <1>1, <1>3, <1>4, <1>5, <1>8, AdditiveAgree
<1>10. h[U] = h[S] + Bytes(r)
  BY <1>8 DEF Additive
<1>11. g[S] \in Nat
  BY <1>1, <1>5 DEF Additive
<1> QED
  BY <1>1, <1>8, <1>9, <1>10, <1>11 DEF U

LEMMA BytesOfEmpty == BytesOf({}) = 0
BY BytesOfUnfolds DEF Additive

LEMMA BytesOfType ==
  ASSUME NEW S \in SUBSET Items
  PROVE  BytesOf(S) \in Nat
<1>1. PICK g : Additive(g, S, ByteWeights(S)) /\ BytesOf(S) = g[S]
  BY BytesOfUnfolds
<1> QED
  BY <1>1 DEF Additive

LEMMA BytesOfWithout ==
  ASSUME NEW S \in SUBSET Items, NEW T \in SUBSET S
  PROVE  BytesOf(S \ T) = BytesOf(S) - BytesOf(T)
<1> DEFINE N == {n \in Nat : \A U \in SUBSET T : Cardinality(U) = n => BytesOf(S \ U) = BytesOf(S) - BytesOf(U)}
<1>0. IsFiniteSet(T)
  BY ResourcesAssumption, FS_Subset
<1>1. 0 \in N
  <2>1. ASSUME NEW U \in SUBSET T, Cardinality(U) = 0 PROVE BytesOf(S \ U) = BytesOf(S) - BytesOf(U)
    <3>1. U = {} /\ S \ U = S
      BY <1>0, <2>1, Shrinks
    <3> QED
      BY <3>1, BytesOfEmpty, BytesOfType
  <2> QED
    BY <2>1
<1>2. ASSUME NEW n \in Nat, n \in N PROVE n + 1 \in N
  <2>1. ASSUME NEW U \in SUBSET T, Cardinality(U) = n + 1 PROVE BytesOf(S \ U) = BytesOf(S) - BytesOf(U)
    <3>1. U # {}
      BY <1>0, <2>1, Shrinks
    <3>2. PICK x \in U : TRUE
      BY <3>1
    <3>3. Cardinality(U \ {x}) = n
      BY <1>0, <2>1, Shrinks
    <3>4. BytesOf(S \ (U \ {x})) = BytesOf(S) - BytesOf(U \ {x})
      BY <1>2, <3>3
    <3>5. /\ S \ (U \ {x}) = (S \ U) \cup {x} /\ U = (U \ {x}) \cup {x} /\ x \in Items
          /\ x \notin S \ U /\ x \notin U \ {x} /\ S \ U \in SUBSET Items /\ U \ {x} \in SUBSET Items
      OBVIOUS
    <3>6. BytesOf(S \ (U \ {x})) = BytesOf(S \ U) + Bytes(x) /\ BytesOf(S \ U) \in Nat
      BY <3>5, BytesOfAdds
    <3>7. BytesOf(U) = BytesOf(U \ {x}) + Bytes(x) /\ BytesOf(U \ {x}) \in Nat
      BY <3>5, BytesOfAdds
    <3>8. Bytes(x) \in Nat /\ BytesOf(S) \in Nat
      BY <3>5, BytesType, BytesOfType
    <3> QED
      BY <3>4, <3>6, <3>7, <3>8
  <2> QED
    BY <2>1
<1> HIDE DEF N
<1>3. \A n \in Nat : n \in N
  BY <1>1, <1>2, NatSetInduction
<1>4. T \in SUBSET T /\ Cardinality(T) \in Nat
  BY <1>0, Shrinks
<1> QED
  BY <1>3, <1>4 DEF N

-----------------------------------------------------------------------------
(* What all the reservations hold. *)

Remainders(p) == [t \in Threads |-> p[t].remaining]

LEMMA ReservedInUnfolds ==
  ASSUME NEW p, \A t \in Threads : p[t].remaining \in Nat
  PROVE  \E g : Additive(g, Threads, Remainders(p)) /\ ReservedIn(p) = g[Threads]
<1> DEFINE S == Threads
           c == [T \in SUBSET S |-> Chosen(T)]
           it == CHOOSE h : h = [T \in SUBSET S |-> IF T = {} THEN 0 ELSE p[Chosen(T)].remaining + h[T \ {Chosen(T)}]]
<1>1. IsFiniteSet(S) /\ Remainders(p) \in [S -> Nat]
  BY ResourcesAssumption DEF Remainders
<1>2. \A T \in SUBSET S : T # {} => Chosen(T) \in T
  BY DEF Chosen
<1>21. \A T \in SUBSET S : T # {} => c[T] \in T
  BY <1>2
<1>3. PICK g : FoldedFirst(g, S, Remainders(p), c)
  <2> HIDE DEF c
  <2> QED
    BY <1>1, <1>21, FoldFlips
<1>4. g = [T \in SUBSET S |-> IF T = {} THEN 0 ELSE p[Chosen(T)].remaining + g[T \ {Chosen(T)}]]
  BY <1>1, <1>2, <1>3 DEF FoldedFirst, Remainders
<1>5. it = [T \in SUBSET S |-> IF T = {} THEN 0 ELSE p[Chosen(T)].remaining + it[T \ {Chosen(T)}]]
  BY <1>4, Zenon
<1>6. ReservedIn(p) = it[S]
  BY Zenon DEF ReservedIn, MapThenSumSet, MapThenFoldSet, Chosen
<1> HIDE DEF it
<1>7. FoldedFirst(it, S, Remainders(p), c)
  <2>1. \A T \in SUBSET S : T # {} => c[T] = Chosen(T) /\ Remainders(p)[Chosen(T)] = p[Chosen(T)].remaining
    BY <1>1, <1>2 DEF Remainders
  <2> HIDE DEF c
  <2>2. [T \in SUBSET S |-> IF T = {} THEN 0 ELSE p[Chosen(T)].remaining + it[T \ {Chosen(T)}]]
          = [T \in SUBSET S |-> IF T = {} THEN 0 ELSE Remainders(p)[c[T]] + it[T \ {c[T]}]]
    BY <2>1
  <2> QED
    BY <1>5, <2>2, Zenon DEF FoldedFirst
<1>8. Additive(it, S, Remainders(p))
  <2> HIDE DEF c
  <2>1. Folded(it, S, Remainders(p), c)
    BY <1>1, <1>21, <1>7, FoldFlips
  <2> QED
    BY <1>1, <1>21, <2>1, FoldIsAdditive
<1> QED
  BY <1>6, <1>8

(* One thread's reservation is a part of the sum, and the only part that   *)
(* its steps change.                                                       *)
LEMMA ReservedInChanges ==
  ASSUME NEW p, \A t \in Threads : p[t].remaining \in Nat,
         NEW q, \A t \in Threads : q[t].remaining \in Nat,
         NEW t \in Threads, \A u \in Threads \ {t} : q[u].remaining = p[u].remaining
  PROVE  /\ ReservedIn(p) \in Nat /\ ReservedIn(q) \in Nat /\ p[t].remaining <= ReservedIn(p)
         /\ ReservedIn(q) = ReservedIn(p) - p[t].remaining + q[t].remaining
<1>1. PICK g : Additive(g, Threads, Remainders(p)) /\ ReservedIn(p) = g[Threads]
  BY ReservedInUnfolds
<1>2. PICK h : Additive(h, Threads, Remainders(q)) /\ ReservedIn(q) = h[Threads]
  BY ReservedInUnfolds
<1> DEFINE U == Threads \ {t}
<1>3. g[U] = h[U]
  <2>1. IsFiniteSet(Threads) /\ U \subseteq Threads
    BY ResourcesAssumption
  <2>2. \A x \in U : Remainders(p)[x] = Remainders(q)[x]
    BY DEF Remainders
  <2> QED
    BY <1>1, <1>2, <2>1, <2>2, AdditiveAgree
<1>4. g[Threads] = g[U] + p[t].remaining /\ g[U] \in Nat
  BY <1>1 DEF Additive, Remainders
<1>5. h[Threads] = h[U] + q[t].remaining /\ h[U] \in Nat
  BY <1>2 DEF Additive, Remainders
<1> QED
  BY <1>1, <1>2, <1>3, <1>4, <1>5

LEMMA ReservedInNothing ==
  ASSUME NEW p, \A t \in Threads : p[t].remaining = 0
  PROVE  ReservedIn(p) = 0
<1>1. PICK g : Additive(g, Threads, Remainders(p)) /\ ReservedIn(p) = g[Threads]
  BY ReservedInUnfolds
<1> DEFINE h == [T \in SUBSET Threads |-> 0]
<1>2. Additive(h, Threads, Remainders(p))
  BY DEF Additive, Remainders
<1>3. h[Threads] = 0
  OBVIOUS
<1> HIDE DEF h
<1>4. g[Threads] = h[Threads]
  <2>1. IsFiniteSet(Threads)
    BY ResourcesAssumption
  <2> QED
    BY <1>1, <1>2, <2>1, AdditiveAgree
<1> QED
  BY <1>1, <1>3, <1>4

-----------------------------------------------------------------------------
(* The bytes a list of descriptors asks for. *)

KeyWeights(s) == [i \in 1..Len(s) |-> SizeOf[s[i]]]

LEMMA SizeType == \A k \in Keys : SizeOf[k] \in Nat
BY ResourcePoolAssumption DEF Keys

LEMMA TotalUnfolds ==
  ASSUME NEW s \in Seq(Keys)
  PROVE  TotalSize(s) \in Nat /\ \E h : PartialSums(h, Len(s), KeyWeights(s)) /\ TotalSize(s) = h[Len(s)]
<1> DEFINE D == DOMAIN s
           c == [T \in SUBSET D |-> Max(T)]
           it == CHOOSE h : h = [T \in SUBSET D |-> IF T = {} THEN 0 ELSE h[T \ {Max(T)}] + SizeOf[s[Max(T)]]]
<1>1. Len(s) \in Nat /\ D = 1..Len(s) /\ KeyWeights(s) \in [D -> Nat] /\ IsFiniteSet(D)
  BY SizeType, FS_Interval DEF KeyWeights
<1>2. \A T \in SUBSET D : T # {} => Max(T) \in T
  BY <1>1, MaxIsMember
<1>21. \A T \in SUBSET D : T # {} => c[T] \in T
  BY <1>2
<1>3. PICK g \in [SUBSET D -> Nat] : Folded(g, D, KeyWeights(s), c)
  BY <1>1, <1>21, FoldExists
<1>4. g = [T \in SUBSET D |-> IF T = {} THEN 0 ELSE g[T \ {Max(T)}] + SizeOf[s[Max(T)]]]
  BY <1>1, <1>2, <1>3 DEF Folded, KeyWeights
<1>5. it = [T \in SUBSET D |-> IF T = {} THEN 0 ELSE it[T \ {Max(T)}] + SizeOf[s[Max(T)]]]
  BY <1>4, Zenon
<1>6. TotalSize(s) = it[D]
  BY Zenon DEF TotalSize, FoldLeft, MapThenFoldSet
<1> HIDE DEF it
<1>7. Folded(it, D, KeyWeights(s), c)
  <2>1. \A T \in SUBSET D : T # {} => c[T] = Max(T) /\ KeyWeights(s)[Max(T)] = SizeOf[s[Max(T)]]
    BY <1>1, <1>2 DEF KeyWeights
  <2> HIDE DEF c
  <2>2. [T \in SUBSET D |-> IF T = {} THEN 0 ELSE it[T \ {Max(T)}] + SizeOf[s[Max(T)]]]
          = [T \in SUBSET D |-> IF T = {} THEN 0 ELSE it[T \ {c[T]}] + KeyWeights(s)[c[T]]]
    BY <2>1
  <2> QED
    BY <1>5, <2>2, Zenon DEF Folded
<1>8. it \in [SUBSET D -> Nat]
  <2> HIDE DEF c
  <2> QED
    BY <1>1, <1>21, <1>7, FoldType
<1>9. FoldedFromTheEnd(it, Len(s), KeyWeights(s))
  BY <1>1, <1>2, <1>5 DEF FoldedFromTheEnd, KeyWeights
<1>10. PartialSums([i \in 0..Len(s) |-> it[1..i]], Len(s), KeyWeights(s))
  BY <1>1, <1>8, <1>9, FoldIsPartialSums
<1> QED
  BY <1>1, <1>6, <1>8, <1>10

LEMMA TotalEmpty == TotalSize(<<>>) = 0
<1>1. <<>> \in Seq(Keys) /\ Len(<<>>) = 0
  OBVIOUS
<1>2. PICK h : PartialSums(h, 0, KeyWeights(<<>>)) /\ TotalSize(<<>>) = h[0]
  BY <1>1, TotalUnfolds
<1> QED
  BY <1>2 DEF PartialSums

LEMMA TotalOfTail ==
  ASSUME NEW s \in Seq(Keys), s # <<>>
  PROVE  /\ Tail(s) \in Seq(Keys) /\ Head(s) \in Keys /\ SizeOf[Head(s)] \in Nat
         /\ TotalSize(Tail(s)) \in Nat /\ TotalSize(s) = SizeOf[Head(s)] + TotalSize(Tail(s))
<1> DEFINE n == Len(s)
           a == Tail(s)
<1>1. PICK h : PartialSums(h, n, KeyWeights(s)) /\ TotalSize(s) = h[n]
  BY TotalUnfolds
<1>2. /\ n \in Nat \ {0} /\ a \in Seq(Keys) /\ Len(a) = n - 1 /\ \A i \in 1..(n - 1) : a[i] = s[i + 1]
      /\ Head(s) = s[1] /\ \A i \in 1..n : s[i] \in Keys
  OBVIOUS
<1>3. PICK k : PartialSums(k, n - 1, KeyWeights(a)) /\ TotalSize(a) = k[n - 1]
  BY <1>2, TotalUnfolds
<1> HIDE DEF n, a
<1> DEFINE b == [i \in 0..(n - 1) |-> h[i + 1] - h[1]]
<1>4. \A i \in 1..n : KeyWeights(s)[i] = SizeOf[s[i]] /\ SizeOf[s[i]] \in Nat
  BY <1>2, SizeType DEF KeyWeights, n
<1>5. \A i \in 1..(n - 1) : KeyWeights(a)[i] = SizeOf[s[i + 1]]
  BY <1>2 DEF KeyWeights
<1>6. PartialSums(b, n - 1, KeyWeights(a))
  <2>1. \A i \in 0..(n - 1) : i + 1 \in 0..n /\ i + 1 \in 1..n
    BY <1>2
  <2>2. b \in [0..(n - 1) -> Int] /\ b[0] = 0
    BY <1>1, <1>2, <2>1 DEF PartialSums
  <2>3. ASSUME NEW i \in 1..(n - 1) PROVE b[i] = b[i - 1] + KeyWeights(a)[i]
    <3>1. i \in 0..(n - 1) /\ i - 1 \in 0..(n - 1) /\ i + 1 \in 1..n /\ i \in 0..n /\ i + 1 \in 0..n
          /\ (i + 1) - 1 = i /\ (i - 1) + 1 = i
      BY <1>2
    <3>2. h[i + 1] = h[i] + KeyWeights(s)[i + 1] /\ h[i] \in Int /\ h[1] \in Int
      <4>1. h \in [0..n -> Int] /\ 1 \in 0..n
        BY <1>1, <1>2 DEF PartialSums
      <4>2. h[i + 1] = h[(i + 1) - 1] + KeyWeights(s)[i + 1]
        BY <1>1, <3>1 DEF PartialSums
      <4> QED
        BY <3>1, <4>1, <4>2
    <3>3. b[i] = h[i + 1] - h[1] /\ b[i - 1] = h[i] - h[1]
      BY <3>1
    <3> QED
      BY <1>4, <1>5, <3>1, <3>2, <3>3
  <2> QED
    BY <2>2, <2>3 DEF PartialSums
<1>7. k[n - 1] = h[n] - h[1]
  <2>1. b[n - 1] = h[n] - h[1]
    BY <1>2
  <2> HIDE DEF b
  <2>2. n - 1 \in Nat /\ n - 1 \in 0..(n - 1)
    BY <1>2
  <2>3. b[n - 1] = k[n - 1]
    BY <1>3, <1>6, <2>2, PartialSumsUnique
  <2> QED
    BY <2>1, <2>3
<1>8. h[1] = SizeOf[Head(s)] /\ h[n] \in Int /\ SizeOf[Head(s)] \in Nat
  <2>1. 1 \in 1..n /\ h[1] = h[0] + KeyWeights(s)[1] /\ h[0] = 0 /\ h[n] \in Int
    BY <1>1, <1>2 DEF PartialSums
  <2> QED
    BY <1>2, <1>4, <2>1
<1>9. TotalSize(a) \in Nat
  BY <1>2, TotalUnfolds
<1> QED
  BY <1>1, <1>2, <1>3, <1>7, <1>8, <1>9 DEF a, n

-----------------------------------------------------------------------------
(* The inductive invariant. *)

FlagTypes ==
  /\ limit \in Limits \cup {{}} /\ loss \in BOOLEAN
  /\ live \subseteq Items /\ healthy \subseteq Items /\ mapped \subseteq Items
  /\ remap \in [Items -> {"none", "waiting", "ok", "err"}]

Places == live \cap (Existing \cup Remapping) = {} /\ Remapping \cap Existing = {}

(* A thread has items in hand only while it prepares or collects. *)
NothingInHand == \A t \in Threads : prep[t].phase = "none" => held[t] = {}

(* A reservation holds what its prepare has still to create, and nothing   *)
(* before it is granted and after the creation.                            *)
Promised(p) == p.remaining = IF p.phase = "create" THEN TotalSize(p.misses) ELSE 0

Sums ==
  /\ \A t \in Threads : Promised(prep[t])
  /\ reserved = ReservedIn(prep)
  /\ allocated = BytesOf(Allocated)

(* What is idle or being returned may be lent again; what is on its way    *)
(* there still has to be mapped.                                           *)
Fit(r) == r \in healthy /\ KeyOf[r] \notin Readback
Writable(r) == KeyOf[r] \in Staging => r \in mapped

Harvested(t) == IF prep[t].phase = "harvest" THEN held[t] ELSE {}
Coming == Remapping \cup UNION {Harvested(t) : t \in Threads}

Reusables ==
  /\ \A r \in Ready : Fit(r) /\ Writable(r)
  /\ \A r \in Coming : Fit(r)

RInv == TypeOK /\ PInv /\ Places /\ NothingInHand /\ Sums /\ Reusables

LEMMA ExistingItems ==
  PInv => /\ Existing \subseteq Items /\ Ready \subseteq Existing
          /\ \A t \in Threads : held[t] \subseteq Existing /\ InHand(t) \subseteq Existing
<1> SUFFICES ASSUME PInv
             PROVE  /\ Existing \subseteq Items /\ Ready \subseteq Existing
                    /\ \A t \in Threads : held[t] \subseteq Existing /\ InHand(t) \subseteq Existing
  OBVIOUS
<1>1. ToSet(idle) \subseteq Items
  BY ToSetIs DEF PInv, PoolTypeOK
<1>2. ASSUME NEW t \in Threads PROVE held[t] \cup InHand(t) \subseteq Items
  <2>1. call[t] \in Calls /\ held[t] \subseteq Items
    BY DEF PInv, PoolTypeOK
  <2>2. call[t].op \in {"put", "putting"} => call[t].item \in Items
    BY DEF PInv, PutsInHand
  <2> QED
    BY <2>1, <2>2 DEF InHand, Calls
<1>3. Existing \subseteq Items
  BY <1>1, <1>2 DEF Existing
<1>4. Ready \subseteq Existing
  BY DEF Ready, Existing, Returning, InHand
<1>5. \A t \in Threads : held[t] \subseteq Existing /\ InHand(t) \subseteq Existing
  BY DEF Existing
<1> QED
  BY <1>3, <1>4, <1>5

LEMMA ExistingItemsNext ==
  PInv' => /\ Existing' \subseteq Items /\ Ready' \subseteq Existing'
           /\ \A t \in Threads : held'[t] \subseteq Existing' /\ InHand(t)' \subseteq Existing'
<1>1. (PInv => /\ Existing \subseteq Items /\ Ready \subseteq Existing
               /\ \A t \in Threads : held[t] \subseteq Existing /\ InHand(t) \subseteq Existing)'
  BY ExistingItems, PTL
<1> QED
  BY <1>1

LEMMA PrepBecomes ==
  ASSUME TypeOK, NEW t \in Threads, NEW p \in Preparations, prep' = [prep EXCEPT ![t] = p]
  PROVE  /\ prep' \in [Threads -> Preparations] /\ prep'[t] = p
         /\ \A u \in Threads \ {t} : prep'[u] = prep[u]
         /\ ReservedIn(prep') \in Nat /\ prep[t].remaining <= ReservedIn(prep)
         /\ ReservedIn(prep') = ReservedIn(prep) - prep[t].remaining + p.remaining
<1>1. /\ prep' \in [Threads -> Preparations] /\ prep'[t] = p
      /\ \A u \in Threads \ {t} : prep'[u] = prep[u]
  BY DEF TypeOK
<1>2. \A u \in Threads : prep[u].remaining \in Nat /\ prep'[u].remaining \in Nat
  BY <1>1 DEF TypeOK, Preparations
<1>3. \A u \in Threads \ {t} : prep'[u].remaining = prep[u].remaining
  BY <1>1
<1>4. PICK q : q = prep'
  OBVIOUS
<1>5. /\ \A u \in Threads : prep[u].remaining \in Nat /\ q[u].remaining \in Nat
      /\ \A u \in Threads \ {t} : q[u].remaining = prep[u].remaining
  BY <1>2, <1>3, <1>4
<1>6. /\ ReservedIn(q) \in Nat /\ prep[t].remaining <= ReservedIn(prep)
      /\ ReservedIn(q) = ReservedIn(prep) - prep[t].remaining + q[t].remaining
  BY <1>5, ReservedInChanges
<1> QED
  BY <1>1, <1>4, <1>6

(* A step of t keeps the invariant if what it does to the items does. *)
LEMMA Assembles ==
  ASSUME RInv, NEW t \in Threads, PInv', Places', FlagTypes', Reusables', allocated' = BytesOf(Allocated'),
         NEW p \in Preparations, prep' = [prep EXCEPT ![t] = p], Promised(p),
         p.phase = "none" => held'[t] = {}, \A u \in Threads \ {t} : held'[u] = held[u],
         reserved' = reserved - prep[t].remaining + p.remaining
  PROVE  RInv'
<1>1. TypeOK /\ NothingInHand /\ Sums
  BY DEF RInv
<1>2. /\ prep' \in [Threads -> Preparations] /\ prep'[t] = p
      /\ \A u \in Threads \ {t} : prep'[u] = prep[u]
      /\ ReservedIn(prep') \in Nat
      /\ ReservedIn(prep') = ReservedIn(prep) - prep[t].remaining + p.remaining
  BY <1>1, PrepBecomes
<1>3. NothingInHand'
  BY <1>1, <1>2 DEF NothingInHand
<1>4. \A u \in Threads : Promised(prep'[u])
  BY <1>1, <1>2 DEF Sums
<1>5. reserved' = ReservedIn(prep')
  BY <1>1, <1>2 DEF Sums
<1>6. Sums'
  BY <1>4, <1>5 DEF Sums, Promised
<1>7. allocated' \in Nat
  <2>1. Allocated' \subseteq Items
    BY ExistingItemsNext DEF FlagTypes, Allocated, Remapping
  <2> QED
    BY <2>1, BytesOfType
<1>8. TypeOK'
  BY <1>2, <1>5, <1>7 DEF TypeOK, FlagTypes, PInv
<1> QED
  BY <1>3, <1>6, <1>8 DEF RInv

LEMMA ComingMoves ==
  ASSUME NEW t \in Threads, NEW New, \A u \in Threads \ {t} : prep'[u] = prep[u] /\ held'[u] = held[u],
         Remapping' \cup Harvested(t)' \subseteq Remapping \cup Harvested(t) \cup New
  PROVE  Coming' \subseteq Coming \cup New
<1>1. \A u \in Threads \ {t} : Harvested(u)' = Harvested(u)
  BY DEF Harvested
<1>2. Remapping \subseteq Coming /\ \A u \in Threads : Harvested(u) \subseteq Coming
  BY DEF Coming
<1>3. \A u \in Threads : Harvested(u)' \subseteq Coming \cup New
  BY <1>1, <1>2
<1> QED
  BY <1>2, <1>3 DEF Coming

LEMMA ReusablesStay ==
  ASSUME Reusables, PInv', NEW R, NEW C, Ready' \subseteq Ready \cup R, Coming' \subseteq Coming \cup C,
         \A r \in Existing' \cup Remapping' : (r \in healthy => r \in healthy') /\ (r \in mapped => r \in mapped'),
         \A r \in R : Fit(r) /\ (KeyOf[r] \in Staging => r \in mapped'),
         \A r \in C : Fit(r)
  PROVE  Reusables'
<1>1. Ready' \subseteq Existing' /\ \A t \in Threads : held'[t] \subseteq Existing'
  BY ExistingItemsNext
<1>2. Coming' \subseteq Existing' \cup Remapping'
  BY <1>1 DEF Coming, Harvested
<1>3. \A r \in Ready' : Fit(r)' /\ Writable(r)'
  BY <1>1 DEF Reusables, Fit, Writable
<1>4. \A r \in Coming' : Fit(r)'
  BY <1>2 DEF Reusables, Fit
<1> QED
  BY <1>3, <1>4 DEF Reusables

LEMMA ReusablesStayThere ==
  ASSUME Reusables, PInv', Ready' \subseteq Ready, Coming' \subseteq Coming,
         \A r \in Existing' \cup Remapping' : (r \in healthy => r \in healthy') /\ (r \in mapped => r \in mapped')
  PROVE  Reusables'
<1>1. Ready' \subseteq Existing' /\ \A t \in Threads : held'[t] \subseteq Existing'
  BY ExistingItemsNext
<1>2. Coming' \subseteq Existing' \cup Remapping'
  BY <1>1 DEF Coming, Harvested
<1>3. \A r \in Ready' : Fit(r)' /\ Writable(r)'
  BY <1>1 DEF Reusables, Fit, Writable
<1>4. \A r \in Coming' : Fit(r)'
  BY <1>2 DEF Reusables, Fit
<1> QED
  BY <1>3, <1>4 DEF Reusables

LEMMA PoolStays ==
  ASSUME PInv, UNCHANGED poolVars
  PROVE  PInv' /\ Existing' = Existing /\ Ready' = Ready
BY DEF PInv, PoolTypeOK, WithinLimits, Exclusive, PutsInHand, Existing, InHand, Ready, Returning, poolVars

LEMMA SamePrep ==
  ASSUME RInv, NEW t \in Threads, UNCHANGED prep
  PROVE  /\ prep[t] \in Preparations /\ prep' = [prep EXCEPT ![t] = prep[t]] /\ Promised(prep[t])
         /\ reserved \in Nat /\ prep[t].remaining \in Nat
BY DEF RInv, TypeOK, Sums, Preparations

LEMMA NotPreparingIs ==
  /\ NotPreparing \in Preparations /\ NotPreparing.phase = "none" /\ NotPreparing.remaining = 0
  /\ NotPreparing.oks = {} /\ NotPreparing.misses = <<>>
BY DEF NotPreparing, Preparations, Phases

LEMMA PromisedNothing ==
  ASSUME RInv, NEW t \in Threads
  PROVE  prep[t] \in Preparations /\ (prep[t].phase # "create" => prep[t].remaining = 0)
<1>1. prep[t] \in Preparations /\ Promised(prep[t])
  BY DEF RInv, TypeOK, Sums
<1> QED
  BY <1>1 DEF Promised

(* The steps in which items move only inside the pool and t's own hands. *)
LEMMA Carries ==
  ASSUME RInv, NEW t \in Threads, PInv', Existing' = Existing, Ready' \subseteq Ready,
         UNCHANGED <<limit, loss, allocated, live, mapped, remap>>,
         healthy \subseteq healthy', healthy' \subseteq Items, \A u \in Threads \ {t} : held'[u] = held[u],
         NEW p \in Preparations, prep' = [prep EXCEPT ![t] = p], Promised(p),
         p.phase = "none" => held'[t] = {},
         p.phase = "harvest" => prep[t].phase = "harvest" /\ held'[t] \subseteq held[t],
         reserved' = reserved - prep[t].remaining + p.remaining
  PROVE  RInv'
<1>1. TypeOK /\ Places /\ Sums /\ Reusables
  BY DEF RInv
<1>2. Remapping' = Remapping
  BY DEF Remapping
<1>3. Places'
  BY <1>1, <1>2 DEF Places
<1>4. FlagTypes'
  BY <1>1 DEF TypeOK, FlagTypes
<1>5. Coming' \subseteq Coming \cup {}
  <2>1. prep'[t] = p /\ \A u \in Threads \ {t} : prep'[u] = prep[u]
    BY <1>1, PrepBecomes
  <2>2. Remapping' \cup Harvested(t)' \subseteq Remapping \cup Harvested(t) \cup {}
    BY <1>2, <2>1 DEF Harvested
  <2> QED
    BY <2>1, <2>2, ComingMoves
<1>6. Reusables'
  BY <1>1, <1>5, ReusablesStayThere
<1>7. allocated' = BytesOf(Allocated')
  <2>1. Allocated' = Allocated
    BY <1>2 DEF Allocated
  <2> QED
    BY <1>1, <2>1 DEF Sums
<1> QED
  BY <1>3, <1>4, <1>6, <1>7, Assembles

(* The steps that touch no item: a limit, the loss of the device, a signal *)
(* of the driver, what the host does to the items it has.                  *)
LEMMA FlagsKeep ==
  ASSUME RInv, UNCHANGED <<poolVars, reserved, allocated, prep, live>>, FlagTypes', Remapping' = Remapping,
         \A r \in Items \ live : (r \in healthy => r \in healthy') /\ (r \in mapped => r \in mapped')
  PROVE  RInv'
<1>1. TypeOK /\ PInv /\ Places /\ NothingInHand /\ Sums /\ Reusables
  BY DEF RInv
<1>2. PInv' /\ Existing' = Existing /\ Ready' = Ready
  BY <1>1, PoolStays
<1>3. Places' /\ Allocated' = Allocated
  BY <1>1, <1>2 DEF Places, Allocated
<1>4. held' = held
  BY DEF poolVars
<1>5. Sums' /\ NothingInHand'
  BY <1>1, <1>3, <1>4 DEF Sums, Promised, NothingInHand
<1>6. TypeOK'
  BY <1>1, <1>2 DEF TypeOK, FlagTypes, PInv
<1>7. Coming' \subseteq Coming \cup {}
  BY <1>4 DEF Coming, Harvested
<1>8. Reusables'
  <2>1. \A r \in Existing' \cup Remapping' : (r \in healthy => r \in healthy') /\ (r \in mapped => r \in mapped')
    BY <1>1, <1>2, ExistingItems DEF Places, Remapping
  <2> QED
    BY <1>1, <1>2, <1>7, <2>1, ReusablesStayThere
<1> QED
  BY <1>2, <1>3, <1>5, <1>6, <1>8 DEF RInv

-----------------------------------------------------------------------------
(* prepare *)

LEMMA PrepareStartsKeeps ==
  ASSUME RInv, NEW t \in Threads, NEW plan \in Plans, PrepareStarts(t, plan)
  PROVE  RInv'
<1> DEFINE p == [NotPreparing EXCEPT !.phase = "take", !.todo = plan]
<1>1. /\ prep' = [prep EXCEPT ![t] = p] /\ prep[t] = NotPreparing
      /\ UNCHANGED <<poolVars, ledger, loss, flags>>
  BY DEF PrepareStarts, Quiet
<1>2. /\ p \in Preparations /\ p.phase = "take" /\ p.remaining = 0 /\ prep[t].remaining = 0
  <2>1. plan \in Seq(Keys)
    BY ResourcesAssumption
  <2> QED
    BY <1>1, <2>1, NotPreparingIs DEF Preparations, Phases
<1> HIDE DEF p
<1>3. PInv' /\ Existing' = Existing /\ Ready' \subseteq Ready
  BY <1>1, PoolStays DEF RInv
<1>4. /\ \A u \in Threads \ {t} : held'[u] = held[u]
      /\ healthy' \subseteq Items /\ UNCHANGED <<limit, loss, allocated, live, healthy, mapped, remap, reserved>>
  BY <1>1 DEF RInv, TypeOK, poolVars, ledger, flags
<1>5. reserved' = reserved - prep[t].remaining + p.remaining
  BY <1>2, <1>4 DEF RInv, TypeOK
<1> QED
  BY <1>1, <1>2, <1>3, <1>4, <1>5, Carries DEF Promised

LEMMA TakeIdleKeeps ==
  ASSUME RInv, NEW t \in Threads, TakeIdle(t)
  PROVE  RInv'
<1> DEFINE p == [prep[t] EXCEPT !.todo = Tail(@)]
<1>1. /\ prep[t].phase = "take" /\ Free(t) /\ prep[t].todo # <<>> /\ Take(t, Head(prep[t].todo))
      /\ healthy' = healthy \cup held'[t] /\ prep' = [prep EXCEPT ![t] = p]
      /\ UNCHANGED <<ledger, loss, live, mapped, remap>>
  BY DEF TakeIdle, At
<1>2. PInv' /\ Existing' = Existing /\ Ready' \subseteq Ready
  BY <1>1, TakeKeepsInv DEF RInv
<1>3. prep[t] \in Preparations /\ prep[t].remaining = 0
  BY <1>1, PromisedNothing
<1>4. p \in Preparations /\ p.phase = "take" /\ p.remaining = 0
  <2> DEFINE rest == Tail(prep[t].todo)
  <2>1. rest \in Seq(Keys)
    <3>1. prep[t].todo \in Seq(Keys)
      BY <1>3 DEF Preparations
    <3> QED
      BY <1>1, <3>1
  <2>2. p = [prep[t] EXCEPT !.todo = rest]
    OBVIOUS
  <2> HIDE DEF rest, p
  <2> QED
    BY <1>1, <1>3, <2>1, <2>2 DEF Preparations
<1> HIDE DEF p
<1>5. \A u \in Threads \ {t} : held'[u] = held[u]
  BY <1>1 DEF Take, RInv, TypeOK, PoolTypeOK
<1>6. /\ healthy \subseteq healthy' /\ healthy' \subseteq Items
      /\ UNCHANGED <<limit, loss, allocated, live, mapped, remap, reserved>>
  <2>1. held'[t] \subseteq Items
    BY <1>2 DEF PInv, PoolTypeOK
  <2> QED
    BY <1>1, <2>1 DEF RInv, TypeOK, ledger
<1>7. reserved' = reserved - prep[t].remaining + p.remaining
  BY <1>3, <1>4, <1>6 DEF RInv, TypeOK
<1> QED
  BY <1>1, <1>2, <1>4, <1>5, <1>6, <1>7, Carries DEF Promised

(* The steps of t that change its locals and the ledger, and no item. *)
LEMMA PrepOnly ==
  ASSUME RInv, NEW t \in Threads, UNCHANGED <<poolVars, loss, flags, limit, allocated>>,
         NEW p \in Preparations, prep' = [prep EXCEPT ![t] = p], Promised(p),
         p.phase = "none" => held[t] = {}, p.phase # "harvest",
         reserved' = reserved - prep[t].remaining + p.remaining
  PROVE  RInv'
<1>1. PInv' /\ Existing' = Existing /\ Ready' \subseteq Ready
  BY PoolStays DEF RInv
<1>2. /\ held' = held /\ healthy' \subseteq Items
      /\ UNCHANGED <<limit, loss, allocated, live, healthy, mapped, remap>>
  BY DEF RInv, TypeOK, poolVars, flags
<1> QED
  BY <1>1, <1>2, Carries

LEMMA TakeMissesKeeps ==
  ASSUME RInv, NEW t \in Threads, TakeMisses(t)
  PROVE  RInv'
<1> DEFINE k == Head(prep[t].todo)
           rest == Tail(prep[t].todo)
           more == Append(prep[t].misses, k)
           p == [prep[t] EXCEPT !.todo = rest, !.misses = more]
<1>1. /\ prep[t].phase = "take" /\ prep[t].todo # <<>>
      /\ prep' = [prep EXCEPT ![t].todo = Tail(@), ![t].misses = Append(@, k)]
      /\ UNCHANGED <<poolVars, ledger, loss, flags>>
  BY DEF TakeMisses, At
<1>2. prep[t] \in Preparations /\ prep[t].remaining = 0 /\ prep \in [Threads -> Preparations]
  BY <1>1, PromisedNothing DEF RInv, TypeOK
<1>3. rest \in Seq(Keys) /\ more \in Seq(Keys)
  <2>1. prep[t].todo \in Seq(Keys) /\ prep[t].misses \in Seq(Keys)
    BY <1>2 DEF Preparations
  <2> QED
    BY <1>1, <2>1
<1>4. prep' = [prep EXCEPT ![t] = p]
  BY <1>1, <1>2
<1> HIDE DEF rest, more
<1>5. p \in Preparations /\ p.phase = "take" /\ p.remaining = 0
  BY <1>1, <1>2, <1>3 DEF Preparations
<1> HIDE DEF p
<1>6. reserved' = reserved - prep[t].remaining + p.remaining
  BY <1>1, <1>2, <1>5 DEF ledger, RInv, TypeOK
<1>7. UNCHANGED <<poolVars, loss, flags, limit, allocated>>
  BY <1>1 DEF ledger
<1> QED
  BY <1>4, <1>5, <1>6, <1>7, PrepOnly DEF Promised

(* A step of t to another phase, outside of the creation. *)
LEMMA GotoKeeps ==
  ASSUME RInv, NEW t \in Threads, NEW ph \in Phases \ {"none", "create", "harvest"}, Goto(t, ph),
         prep[t].phase # "create", UNCHANGED <<poolVars, ledger, loss, flags>>
  PROVE  RInv'
<1> DEFINE p == [prep[t] EXCEPT !.phase = ph]
<1>1. prep' = [prep EXCEPT ![t] = p]
  BY DEF Goto
<1>2. prep[t] \in Preparations /\ prep[t].remaining = 0
  BY PromisedNothing
<1>3. p \in Preparations /\ p.phase = ph /\ p.remaining = 0
  BY <1>2 DEF Preparations
<1> HIDE DEF p
<1>4. reserved' = reserved - prep[t].remaining + p.remaining
  BY <1>2, <1>3 DEF ledger, RInv, TypeOK
<1>5. UNCHANGED <<poolVars, loss, flags, limit, allocated>>
  BY DEF ledger
<1>6. Promised(p) /\ p.phase # "none" /\ p.phase # "harvest"
  BY <1>3 DEF Promised
<1> QED
  BY <1>1, <1>3, <1>4, <1>5, <1>6, PrepOnly

LEMMA MissingType ==
  ASSUME RInv, NEW t \in Threads
  PROVE  Missing(t) \in Nat /\ prep[t].misses \in Seq(Keys)
<1>1. prep[t].misses \in Seq(Keys)
  BY DEF RInv, TypeOK, Preparations
<1> QED
  BY <1>1, TotalUnfolds DEF Missing

LEMMA ReserveGrantedKeeps ==
  ASSUME RInv, NEW t \in Threads, ReserveGranted(t)
  PROVE  RInv'
<1> DEFINE p == [prep[t] EXCEPT !.remaining = Missing(t), !.phase = "create"]
<1>1. /\ prep[t].phase # "create"
      /\ reserved' = reserved + Missing(t)
      /\ prep' = [prep EXCEPT ![t].remaining = Missing(t), ![t].phase = "create"]
      /\ UNCHANGED <<poolVars, loss, flags, limit, allocated>>
  BY DEF ReserveGranted, At, Grant
<1>2. prep[t] \in Preparations /\ prep[t].remaining = 0 /\ prep \in [Threads -> Preparations]
  BY <1>1, PromisedNothing DEF RInv, TypeOK
<1>3. Missing(t) \in Nat /\ reserved \in Nat
  BY MissingType DEF RInv, TypeOK
<1>4. prep' = [prep EXCEPT ![t] = p]
  BY <1>1, <1>2
<1>5. p \in Preparations /\ p.phase = "create" /\ p.remaining = Missing(t) /\ p.misses = prep[t].misses
  BY <1>2, <1>3 DEF Preparations, Phases
<1> HIDE DEF p
<1>6. Promised(p)
  BY <1>5 DEF Promised, Missing
<1>7. reserved' = reserved - prep[t].remaining + p.remaining
  BY <1>1, <1>2, <1>3, <1>5
<1> QED
  BY <1>1, <1>4, <1>5, <1>6, <1>7, PrepOnly

LEMMA ReserveEvictsKeeps ==
  ASSUME RInv, NEW t \in Threads, ReserveEvicts(t)
  PROVE  RInv'
<1> DEFINE p == [prep[t] EXCEPT !.phase = "again"]
<1>1. /\ prep[t].phase = "take" /\ Free(t) /\ limit # {} /\ EvictStarts(t, Shortfall(t))
      /\ prep' = [prep EXCEPT ![t] = p] /\ UNCHANGED <<ledger, loss, flags>>
  BY DEF ReserveEvicts, At, Goto
<1>2. Shortfall(t) \in Nat
  <2>1. limit \subseteq Nat /\ reserved \in Nat /\ allocated \in Nat /\ Missing(t) \in Nat
    BY MissingType, ResourcesAssumption DEF RInv, TypeOK
  <2>2. (CHOOSE l \in limit : TRUE) \in Nat
    BY <1>1, <2>1
  <2> QED
    BY <2>1, <2>2 DEF Shortfall, Used
<1>3. PInv' /\ Existing' = Existing /\ Ready' \subseteq Ready
  BY <1>1, <1>2, EvictStartsKeeps DEF RInv
<1>4. prep[t] \in Preparations /\ prep[t].remaining = 0
  BY <1>1, PromisedNothing
<1>5. p \in Preparations /\ p.phase = "again" /\ p.remaining = 0
  BY <1>4 DEF Preparations, Phases
<1> HIDE DEF p
<1>6. held' = held
  BY <1>1 DEF EvictStarts
<1>7. healthy' \subseteq Items /\ UNCHANGED <<limit, loss, allocated, live, healthy, mapped, remap, reserved>>
  BY <1>1 DEF RInv, TypeOK, ledger, flags
<1>8. reserved' = reserved - prep[t].remaining + p.remaining
  BY <1>4, <1>5, <1>7 DEF RInv, TypeOK
<1> QED
  BY <1>1, <1>3, <1>5, <1>6, <1>7, <1>8, Carries DEF Promised

LEMMA CreatedKeeps ==
  ASSUME RInv, NEW t \in Threads, Created(t)
  PROVE  RInv'
<1>1. /\ reserved' = reserved - prep[t].remaining
      /\ UNCHANGED <<poolVars, loss, flags, limit, allocated>>
  BY DEF Created, DropReservation
<1>2. prep[t] \in Preparations /\ prep \in [Threads -> Preparations] /\ <<>> \in Seq(Keys)
      /\ reserved \in Nat /\ prep[t].remaining \in Nat
  BY DEF RInv, TypeOK, Preparations
<1>3. CASE prep' = [prep EXCEPT ![t].phase = "verdict", ![t].remaining = 0]
  <2> DEFINE p == [prep[t] EXCEPT !.phase = "verdict", !.remaining = 0]
  <2>1. prep' = [prep EXCEPT ![t] = p]
    BY <1>2, <1>3
  <2>2. p \in Preparations /\ p.phase = "verdict" /\ p.remaining = 0
    BY <1>2 DEF Preparations, Phases
  <2> HIDE DEF p
  <2>3. reserved' = reserved - prep[t].remaining + p.remaining
    BY <1>1, <1>2, <2>2
  <2> QED
    BY <1>1, <2>1, <2>2, <2>3, PrepOnly DEF Promised
<1>4. CASE prep' = [prep EXCEPT ![t].phase = "unwind", ![t].misses = <<>>, ![t].remaining = 0]
  <2> DEFINE p == [prep[t] EXCEPT !.phase = "unwind", !.misses = <<>>, !.remaining = 0]
  <2>1. prep' = [prep EXCEPT ![t] = p]
    BY <1>2, <1>4
  <2>2. p \in Preparations /\ p.phase = "unwind" /\ p.remaining = 0
    BY <1>2 DEF Preparations, Phases
  <2> HIDE DEF p
  <2>3. reserved' = reserved - prep[t].remaining + p.remaining
    BY <1>1, <1>2, <2>2
  <2> QED
    BY <1>1, <2>1, <2>2, <2>3, PrepOnly DEF Promised
<1> QED
  BY <1>3, <1>4 DEF Created

LEMMA CreateKeeps ==
  ASSUME RInv, NEW t \in Threads, NEW r \in Items, Create(t, r)
  PROVE  RInv'
<1> DEFINE rest == Tail(prep[t].misses)
           left == prep[t].remaining - Bytes(r)
           p == [prep[t] EXCEPT !.misses = rest, !.remaining = left]
           H == held[t] \cup {r}
<1>1. /\ prep[t].phase = "create" /\ prep[t].misses # <<>> /\ r \notin Allocated
      /\ KeyOf[r] = Head(prep[t].misses)
      /\ held' = [held EXCEPT ![t] = H]
      /\ reserved' = reserved - Bytes(r) /\ allocated' = allocated + Bytes(r)
      /\ healthy' = healthy \ {r} /\ mapped \subseteq mapped' /\ mapped' \subseteq mapped \cup {r}
      /\ prep' = [prep EXCEPT ![t].misses = Tail(@), ![t].remaining = @ - Bytes(r)]
      /\ UNCHANGED <<idle, bytes, budget, call, limit, loss, live, remap>>
  BY DEF Create, At
<1>2. /\ TypeOK /\ PInv /\ Places /\ Sums /\ Reusables
      /\ prep[t] \in Preparations /\ prep \in [Threads -> Preparations] /\ Promised(prep[t])
  BY DEF RInv, TypeOK, Sums
<1>3. /\ rest \in Seq(Keys) /\ TotalSize(rest) \in Nat /\ Bytes(r) \in Nat
      /\ prep[t].remaining = Bytes(r) + TotalSize(rest)
  <2>1. prep[t].misses \in Seq(Keys)
    BY <1>2 DEF Preparations
  <2>2. prep[t].remaining = TotalSize(prep[t].misses)
    BY <1>1, <1>2 DEF Promised
  <2>3. Bytes(r) = SizeOf[Head(prep[t].misses)]
    BY <1>1 DEF Bytes
  <2> QED
    BY <1>1, <2>1, <2>2, <2>3, TotalOfTail
<1>4. prep' = [prep EXCEPT ![t] = p]
  BY <1>1, <1>2
<1>5. left = TotalSize(rest) /\ left \in Nat
  BY <1>3
<1>6. reserved' = reserved - prep[t].remaining + left
  BY <1>1, <1>3, <1>5 DEF RInv, TypeOK
<1> HIDE DEF rest, left
<1>7. p \in Preparations /\ p.phase = "create" /\ p.remaining = left /\ p.misses = rest
  BY <1>1, <1>2, <1>3, <1>5 DEF Preparations
<1> HIDE DEF p
<1>8. Promised(p)
  BY <1>5, <1>7 DEF Promised
<1>9. PInv' /\ Existing' = (Existing \ held[t]) \cup H
  <2>1. H \in SUBSET Items /\ H \cap Existing \subseteq held[t]
    BY <1>1, <1>2 DEF Allocated, PInv, PoolTypeOK
  <2> HIDE DEF H
  <2> QED
    BY <1>1, <1>2, <2>1, HeldKeeps
<1>10. Existing' = Existing \cup {r} /\ held[t] \subseteq Existing /\ Existing \subseteq Items
  BY <1>2, <1>9, ExistingItems
<1>11. Remapping' = Remapping /\ Remapping \subseteq Items /\ live \subseteq Items
  BY <1>1, <1>2 DEF Remapping, TypeOK
<1>12. r \notin Existing /\ r \notin live /\ r \notin Remapping
  BY <1>1 DEF Allocated
<1>13. Places'
  BY <1>1, <1>2, <1>10, <1>11, <1>12 DEF Places
<1>14. allocated' = BytesOf(Allocated')
  <2>1. Allocated' = Allocated \cup {r} /\ Allocated \in SUBSET Items
    BY <1>1, <1>10, <1>11 DEF Allocated
  <2>2. BytesOf(Allocated \cup {r}) = BytesOf(Allocated) + Bytes(r)
    BY <1>1, <2>1, BytesOfAdds
  <2> QED
    BY <1>1, <1>2, <2>1, <2>2 DEF Sums
<1>15. FlagTypes'
  BY <1>1, <1>2 DEF TypeOK, FlagTypes
<1>16. held' \in [Threads -> SUBSET Items] /\ \A u \in Threads \ {t} : held'[u] = held[u]
  BY <1>1, <1>9 DEF PInv, PoolTypeOK, RInv, TypeOK
<1>17. Ready' \subseteq Ready /\ Coming' \subseteq Coming \cup {}
  <2>1. Ready' = Ready
    BY <1>1 DEF Ready, Returning
  <2>2. prep'[t].phase = "create" /\ \A u \in Threads \ {t} : prep'[u] = prep[u]
    BY <1>2, <1>4, <1>7, PrepBecomes
  <2>3. Remapping' \cup Harvested(t)' \subseteq Remapping \cup Harvested(t) \cup {}
    BY <1>11, <2>2 DEF Harvested
  <2> QED
    BY <1>16, <2>1, <2>2, <2>3, ComingMoves
<1>18. Reusables'
  <2>1. Ready \subseteq Existing /\ Coming \subseteq Existing \cup Remapping
    BY <1>2, ExistingItems DEF Coming, Harvested
  <2>2. \A x \in Ready' : x \in Ready /\ x # r
    BY <1>12, <1>17, <2>1
  <2>3. \A x \in Coming' : x \in Coming /\ x # r
    BY <1>12, <1>17, <2>1
  <2> QED
    BY <1>1, <1>2, <2>2, <2>3 DEF Reusables, Fit, Writable
<1> QED
  BY <1>4, <1>6, <1>7, <1>8, <1>9, <1>13, <1>14, <1>15, <1>16, <1>18, Assembles

LEMMA AcceptedKeeps ==
  ASSUME RInv, NEW t \in Threads, Accepted(t)
  PROVE  RInv'
<1> DEFINE p == NotPreparing
<1>1. /\ prep[t].phase = "verdict" /\ held' = [held EXCEPT ![t] = {}]
      /\ live' = live \cup held[t] /\ healthy' = healthy \cup held[t]
      /\ prep' = [prep EXCEPT ![t] = p]
      /\ UNCHANGED <<idle, bytes, budget, call, limit, reserved, allocated, loss, mapped, remap>>
  BY DEF Accepted, At, ledger
<1>2. TypeOK /\ PInv /\ Places /\ Sums /\ Reusables
  BY DEF RInv
<1>3. p \in Preparations /\ p.phase = "none" /\ p.remaining = 0
  BY NotPreparingIs
<1> HIDE DEF p
<1>4. prep[t].remaining = 0
  BY <1>1, PromisedNothing
<1>5. PInv' /\ Existing' = (Existing \ held[t]) \cup {}
  <2>1. {} \in SUBSET Items /\ {} \cap Existing \subseteq held[t]
    OBVIOUS
  <2> QED
    BY <1>1, <1>2, <2>1, HeldKeeps
<1>6. held[t] \subseteq Existing /\ Existing \subseteq Items
  BY <1>2, ExistingItems
<1>7. Remapping' = Remapping
  BY <1>1 DEF Remapping
<1>8. Places' /\ Allocated' = Allocated
  BY <1>1, <1>2, <1>5, <1>6, <1>7 DEF Places, Allocated
<1>9. FlagTypes'
  BY <1>1, <1>2, <1>6 DEF TypeOK, FlagTypes
<1>10. held'[t] = {} /\ \A u \in Threads \ {t} : held'[u] = held[u]
  BY <1>1, <1>2 DEF PInv, PoolTypeOK
<1>11. Ready' = Ready
  BY <1>1 DEF Ready, Returning
<1>12. Coming' \subseteq Coming \cup {}
  <2>1. \A u \in Threads \ {t} : prep'[u] = prep[u]
    BY <1>1, <1>2, <1>3, PrepBecomes
  <2>2. Remapping' \cup Harvested(t)' \subseteq Remapping \cup Harvested(t) \cup {}
    BY <1>7, <1>10 DEF Harvested
  <2> QED
    BY <1>10, <2>1, <2>2, ComingMoves
<1>13. Reusables'
  BY <1>1, <1>2, <1>5, <1>11, <1>12, ReusablesStayThere
<1>14. reserved' = reserved - prep[t].remaining + p.remaining
  BY <1>1, <1>2, <1>3, <1>4 DEF TypeOK
<1>15. Promised(p) /\ allocated' = BytesOf(Allocated')
  BY <1>1, <1>2, <1>3, <1>8 DEF Promised, Sums
<1> QED
  BY <1>1, <1>3, <1>5, <1>8, <1>9, <1>10, <1>13, <1>14, <1>15, Assembles

-----------------------------------------------------------------------------
(* Owners that go. *)

Lendable == {r \in Items : Fit(r) /\ Writable(r)}
FitItems == {r \in Items : Fit(r)}

LEMMA DropOwnedKeeps ==
  ASSUME RInv, NEW t \in Threads, NEW r \in Items, Free(t), r \in held[t] \/ r \in live, DropOwned(t, r)
  PROVE  /\ PInv' /\ Existing' \cup Remapping' = Existing \cup Remapping \cup {r}
         /\ Remapping' \cap Existing' = {} /\ remap' \in [Items -> {"none", "waiting", "ok", "err"}]
         /\ held'[t] = held[t] \ {r} /\ \A u \in Threads \ {t} : held'[u] = held[u]
         /\ Ready' \subseteq Ready \cup Lendable /\ Remapping' \subseteq Remapping \cup FitItems
<1>1. PInv /\ Places /\ remap \in [Items -> {"none", "waiting", "ok", "err"}]
  BY DEF RInv, TypeOK
<1>2. held[t] \subseteq Existing /\ Existing \subseteq Items
  BY <1>1, ExistingItems
<1>3. r \notin Remapping /\ Remapping \cap Existing = {} /\ (r \in held[t] \/ r \notin Existing)
  BY <1>1, <1>2 DEF Places
<1>4. held \in [Threads -> SUBSET Items]
  BY <1>1 DEF PInv, PoolTypeOK
<1>5. CASE /\ ~Returnable(r) /\ call' = [call EXCEPT ![t].dying = {r}]
           /\ held' = [held EXCEPT ![t] = held[t] \ {r}] /\ UNCHANGED <<idle, bytes, budget, remap>>
  <2>1. PInv' /\ Existing' = Existing \cup {r} /\ Ready' \subseteq Ready
    BY <1>1, <1>3, <1>5, DroppedKeeps
  <2>2. Remapping' = Remapping /\ remap' = remap
    BY <1>5 DEF Remapping
  <2>3. held'[t] = held[t] \ {r} /\ \A u \in Threads \ {t} : held'[u] = held[u]
    BY <1>4, <1>5
  <2> QED
    BY <1>1, <1>3, <2>1, <2>2, <2>3
<1>6. CASE /\ Returnable(r) /\ NeedsRemap(r) /\ remap' = [remap EXCEPT ![r] = "waiting"]
           /\ held' = [held EXCEPT ![t] = held[t] \ {r}] /\ UNCHANGED <<idle, bytes, budget, call>>
  <2> DEFINE H == held[t] \ {r}
  <2>1. H \in SUBSET Items /\ H \cap Existing \subseteq held[t] /\ held' = [held EXCEPT ![t] = H]
    BY <1>2, <1>6
  <2>2. PInv' /\ Existing' = (Existing \ held[t]) \cup H
    <3> HIDE DEF H
    <3> QED
      BY <1>1, <1>6, <2>1, HeldKeeps
  <2>3. Remapping' = Remapping \cup {r} /\ remap' \in [Items -> {"none", "waiting", "ok", "err"}]
    <3>1. remap'[r] = "waiting" /\ \A x \in Items \ {r} : remap'[x] = remap[x]
      BY <1>1, <1>6
    <3> QED
      BY <1>1, <1>6, <3>1 DEF Remapping
  <2>4. Existing' = Existing \ {r}
    BY <1>2, <1>3, <2>2
  <2>5. held'[t] = held[t] \ {r} /\ \A u \in Threads \ {t} : held'[u] = held[u]
    BY <1>4, <1>6
  <2>6. Ready' = Ready
    BY <1>6 DEF Ready, Returning
  <2>7. r \in FitItems
    BY <1>6 DEF FitItems, Fit, Returnable, Reusable
  <2> QED
    BY <1>3, <2>2, <2>3, <2>4, <2>5, <2>6, <2>7
<1>7. CASE Returnable(r) /\ ~NeedsRemap(r) /\ PutStarts(t, r) /\ UNCHANGED remap
  <2>1. PInv' /\ Existing' = Existing \cup {r} /\ Ready' \subseteq Ready \cup {r}
    BY <1>1, <1>3, <1>7, PutStartsKeeps
  <2>2. Remapping' = Remapping /\ remap' = remap
    BY <1>7 DEF Remapping
  <2>3. held'[t] = held[t] \ {r} /\ \A u \in Threads \ {t} : held'[u] = held[u]
    BY <1>4, <1>7 DEF PutStarts
  <2>4. r \in Lendable
    BY <1>7 DEF Lendable, Fit, Writable, Returnable, Reusable, NeedsRemap
  <2> QED
    BY <1>1, <1>3, <2>1, <2>2, <2>3, <2>4
<1> QED
  BY <1>5, <1>6, <1>7 DEF DropOwned

LEMMA ReusablesGain ==
  ASSUME Reusables, PInv', UNCHANGED <<healthy, mapped>>,
         Ready' \subseteq Ready \cup Lendable, Coming' \subseteq Coming \cup FitItems
  PROVE  Reusables'
<1>1. \A r \in Existing' \cup Remapping' : (r \in healthy => r \in healthy') /\ (r \in mapped => r \in mapped')
  OBVIOUS
<1>2. /\ \A r \in Lendable : Fit(r) /\ (KeyOf[r] \in Staging => r \in mapped')
      /\ \A r \in FitItems : Fit(r)
  BY DEF Lendable, FitItems, Writable
<1> QED
  BY <1>1, <1>2, ReusablesStay

LEMMA DropLiveKeeps ==
  ASSUME RInv, NEW t \in Threads, NEW r \in Items, DropLive(t, r)
  PROVE  RInv'
<1> DEFINE p == prep[t]
<1>1. /\ prep[t].phase = "none" /\ Free(t) /\ r \in live /\ DropOwned(t, r) /\ live' = live \ {r}
      /\ UNCHANGED <<limit, reserved, allocated, loss, healthy, mapped, prep>>
  BY NotPreparingIs DEF DropLive, Quiet, ledger
<1>2. TypeOK /\ PInv /\ Places /\ Sums /\ Reusables /\ held[t] = {}
  BY <1>1 DEF RInv, NothingInHand
<1>3. /\ PInv' /\ Existing' \cup Remapping' = Existing \cup Remapping \cup {r}
      /\ Remapping' \cap Existing' = {} /\ remap' \in [Items -> {"none", "waiting", "ok", "err"}]
      /\ held'[t] = held[t] \ {r} /\ \A u \in Threads \ {t} : held'[u] = held[u]
      /\ Ready' \subseteq Ready \cup Lendable /\ Remapping' \subseteq Remapping \cup FitItems
  BY <1>1, DropOwnedKeeps
<1>4. Places'
  BY <1>1, <1>2, <1>3 DEF Places
<1>5. Allocated' = Allocated
  BY <1>1, <1>3 DEF Allocated
<1>6. allocated' = BytesOf(Allocated')
  BY <1>1, <1>2, <1>5 DEF Sums
<1>7. FlagTypes'
  BY <1>1, <1>2, <1>3 DEF TypeOK, FlagTypes
<1>8. Coming' \subseteq Coming \cup FitItems
  <2>1. Harvested(t)' = {}
    BY <1>1 DEF Harvested
  <2>2. Remapping' \cup Harvested(t)' \subseteq Remapping \cup Harvested(t) \cup FitItems
    BY <1>3, <2>1
  <2> QED
    BY <1>1, <1>3, <2>2, ComingMoves
<1>9. Reusables'
  BY <1>1, <1>2, <1>3, <1>8, ReusablesGain
<1>10. /\ p \in Preparations /\ prep' = [prep EXCEPT ![t] = p] /\ Promised(p)
       /\ reserved' = reserved - prep[t].remaining + p.remaining /\ held'[t] = {}
  BY <1>1, <1>2, <1>3, SamePrep
<1> HIDE DEF p
<1> QED
  BY <1>3, <1>4, <1>6, <1>7, <1>9, <1>10, Assembles

LEMMA DropBatchKeeps ==
  ASSUME RInv, NEW t \in Threads, DropBatch(t)
  PROVE  RInv'
<1>1. /\ prep[t].phase = "unwind" /\ Free(t)
      /\ UNCHANGED <<limit, reserved, allocated, loss, live, healthy, mapped>>
  BY DEF DropBatch, At, ledger
<1>2. TypeOK /\ PInv /\ Places /\ Sums /\ Reusables
  BY DEF RInv
<1>3. CASE held[t] = {} /\ prep' = [prep EXCEPT ![t] = NotPreparing] /\ UNCHANGED <<poolVars, remap>>
  <2> DEFINE p == NotPreparing
  <2>1. p \in Preparations /\ p.phase = "none" /\ p.remaining = 0 /\ prep' = [prep EXCEPT ![t] = p]
    BY <1>3, NotPreparingIs
  <2> HIDE DEF p
  <2>2. reserved' = reserved - prep[t].remaining + p.remaining
    BY <1>1, <1>2, <2>1, PromisedNothing DEF TypeOK
  <2>3. UNCHANGED <<poolVars, loss, flags, limit, allocated>>
    BY <1>1, <1>3 DEF flags
  <2> QED
    BY <1>3, <2>1, <2>2, <2>3, PrepOnly DEF Promised
<1>4. ASSUME NEW r \in held[t], DropOwned(t, r), UNCHANGED prep PROVE RInv'
  <2> DEFINE p == prep[t]
  <2>1. held[t] \subseteq Existing /\ Existing \subseteq Items
    BY <1>2, ExistingItems
  <2>2. /\ PInv' /\ Existing' \cup Remapping' = Existing \cup Remapping \cup {r}
        /\ Remapping' \cap Existing' = {} /\ remap' \in [Items -> {"none", "waiting", "ok", "err"}]
        /\ held'[t] = held[t] \ {r} /\ \A u \in Threads \ {t} : held'[u] = held[u]
        /\ Ready' \subseteq Ready \cup Lendable /\ Remapping' \subseteq Remapping \cup FitItems
    BY <1>1, <1>4, <2>1, DropOwnedKeeps
  <2>3. Existing' \cup Remapping' = Existing \cup Remapping
    BY <2>1, <2>2
  <2>4. Places' /\ Allocated' = Allocated
    BY <1>1, <1>2, <2>2, <2>3 DEF Places, Allocated
  <2>5. allocated' = BytesOf(Allocated')
    BY <1>1, <1>2, <2>4 DEF Sums
  <2>6. FlagTypes'
    BY <1>1, <1>2, <2>2 DEF TypeOK, FlagTypes
  <2>7. Coming' \subseteq Coming \cup FitItems
    <3>1. Harvested(t)' = {}
      BY <1>1, <1>4 DEF Harvested
    <3>2. Remapping' \cup Harvested(t)' \subseteq Remapping \cup Harvested(t) \cup FitItems
      BY <2>2, <3>1
    <3>3. \A u \in Threads \ {t} : prep'[u] = prep[u]
      BY <1>4
    <3> QED
      BY <2>2, <3>2, <3>3, ComingMoves
  <2>8. Reusables'
    BY <1>1, <1>2, <2>2, <2>7, ReusablesGain
  <2>9. /\ p \in Preparations /\ prep' = [prep EXCEPT ![t] = p] /\ Promised(p) /\ p.phase # "none"
        /\ reserved' = reserved - prep[t].remaining + p.remaining
    BY <1>1, <1>4, SamePrep
  <2> HIDE DEF p
  <2> QED
    BY <2>2, <2>4, <2>5, <2>6, <2>8, <2>9, Assembles
<1> QED
  BY <1>3, <1>4 DEF DropBatch

-----------------------------------------------------------------------------
(* collect *)

LEMMA CollectStartsKeeps ==
  ASSUME RInv, NEW t \in Threads, CollectStarts(t)
  PROVE  RInv'
<1> DEFINE oks == IF loss THEN {} ELSE {r \in Items : remap[r] = "ok"}
           p == [NotPreparing EXCEPT !.phase = "harvest", !.oks = oks]
           H == Signalled
<1>1. /\ prep[t].phase = "none" /\ prep[t].remaining = 0
      /\ held' = [held EXCEPT ![t] = H] /\ prep' = [prep EXCEPT ![t] = p]
      /\ remap' = [r \in Items |-> IF r \in Signalled THEN "none" ELSE remap[r]]
      /\ UNCHANGED <<idle, bytes, budget, call, limit, reserved, allocated, loss, live, healthy, mapped>>
  BY NotPreparingIs DEF CollectStarts, Quiet, ledger
<1>2. TypeOK /\ PInv /\ Places /\ Sums /\ Reusables /\ held[t] = {}
  BY <1>1 DEF RInv, NothingInHand
<1>3. oks \subseteq Items
  OBVIOUS
<1> HIDE DEF oks
<1>4. p \in Preparations /\ p.phase = "harvest" /\ p.remaining = 0
  BY <1>3, NotPreparingIs DEF Preparations, Phases
<1> HIDE DEF p
<1>5. Signalled \subseteq Remapping /\ Signalled \subseteq Items
  BY DEF Signalled, Remapping
<1>6. Remapping' = Remapping \ Signalled /\ remap' \in [Items -> {"none", "waiting", "ok", "err"}]
  BY <1>1, <1>2 DEF Remapping, TypeOK
<1>7. PInv' /\ Existing' = Existing \cup Signalled
  <2>1. H \in SUBSET Items /\ H \cap Existing \subseteq held[t]
    BY <1>2, <1>5 DEF Places
  <2>2. PInv' /\ Existing' = (Existing \ held[t]) \cup H
    <3> HIDE DEF H
    <3> QED
      BY <1>1, <1>2, <2>1, HeldKeeps
  <2> QED
    BY <1>2, <2>2
<1>8. Places' /\ Allocated' = Allocated
  BY <1>1, <1>2, <1>5, <1>6, <1>7 DEF Places, Allocated
<1>9. allocated' = BytesOf(Allocated')
  BY <1>1, <1>2, <1>8 DEF Sums
<1>10. FlagTypes'
  BY <1>1, <1>2, <1>6 DEF TypeOK, FlagTypes
<1>11. held'[t] = H /\ \A u \in Threads \ {t} : held'[u] = held[u]
  BY <1>1, <1>2 DEF PInv, PoolTypeOK
<1>12. Ready' = Ready
  BY <1>1 DEF Ready, Returning
<1>13. Coming' \subseteq Coming \cup {}
  <2>1. \A u \in Threads \ {t} : prep'[u] = prep[u]
    BY <1>1, <1>2, <1>4, PrepBecomes
  <2>2. Harvested(t)' \subseteq Signalled
    BY <1>11 DEF Harvested
  <2>3. Remapping' \cup Harvested(t)' \subseteq Remapping \cup Harvested(t) \cup {}
    BY <1>5, <1>6, <2>2
  <2> QED
    BY <1>11, <2>1, <2>3, ComingMoves
<1>14. Reusables'
  BY <1>1, <1>2, <1>7, <1>12, <1>13, ReusablesStayThere
<1>15. reserved' = reserved - prep[t].remaining + p.remaining
  BY <1>1, <1>2, <1>4 DEF TypeOK
<1> QED
  BY <1>1, <1>4, <1>7, <1>8, <1>9, <1>10, <1>11, <1>14, <1>15, Assembles DEF Promised

LEMMA HarvestKeeps ==
  ASSUME RInv, NEW t \in Threads, Harvest(t)
  PROVE  RInv'
<1>1. /\ prep[t].phase = "harvest" /\ Free(t)
      /\ UNCHANGED <<limit, reserved, allocated, loss, live, healthy, remap>>
  BY DEF Harvest, At, ledger
<1>2. TypeOK /\ PInv /\ Places /\ Sums /\ Reusables
  BY DEF RInv
<1>3. held[t] \subseteq Existing /\ Existing \subseteq Items
  BY <1>2, ExistingItems
<1>4. CASE held[t] = {} /\ prep' = [prep EXCEPT ![t] = NotPreparing] /\ UNCHANGED <<poolVars, mapped>>
  <2> DEFINE p == NotPreparing
  <2>1. p \in Preparations /\ p.phase = "none" /\ p.remaining = 0 /\ prep' = [prep EXCEPT ![t] = p]
    BY <1>4, NotPreparingIs
  <2> HIDE DEF p
  <2>2. reserved' = reserved - prep[t].remaining + p.remaining
    BY <1>1, <1>2, <2>1, PromisedNothing DEF TypeOK
  <2>3. UNCHANGED <<poolVars, loss, flags, limit, allocated>>
    BY <1>1, <1>4 DEF flags
  <2> QED
    BY <1>4, <2>1, <2>2, <2>3, PrepOnly DEF Promised
<1>5. ASSUME NEW r \in held[t], mapped' = mapped \cup {r}, PutStarts(t, r), UNCHANGED prep PROVE RInv'
  <2> DEFINE p == prep[t]
  <2>1. r \in Items /\ PInv' /\ Existing' = Existing \cup {r} /\ Ready' \subseteq Ready \cup {r}
    BY <1>1, <1>2, <1>3, <1>5, PutStartsKeeps
  <2>2. Existing' = Existing /\ Remapping' = Remapping
    BY <1>1, <1>3, <2>1 DEF Remapping
  <2>3. Places' /\ Allocated' = Allocated
    BY <1>1, <1>2, <2>2 DEF Places, Allocated
  <2>4. allocated' = BytesOf(Allocated')
    BY <1>1, <1>2, <2>3 DEF Sums
  <2>5. FlagTypes'
    BY <1>1, <1>2, <1>5, <2>1 DEF TypeOK, FlagTypes
  <2>6. held'[t] \subseteq held[t] /\ \A u \in Threads \ {t} : held'[u] = held[u]
    BY <1>2, <1>5 DEF PutStarts, PInv, PoolTypeOK
  <2>7. Coming' \subseteq Coming \cup {}
    <3>1. Remapping' \cup Harvested(t)' \subseteq Remapping \cup Harvested(t) \cup {}
      BY <1>5, <2>2, <2>6 DEF Harvested
    <3>2. \A u \in Threads \ {t} : prep'[u] = prep[u]
      BY <1>5
    <3> QED
      BY <2>6, <3>1, <3>2, ComingMoves
  <2>8. Reusables'
    <3>1. r \in Coming
      BY <1>1, <1>5 DEF Coming, Harvested
    <3>2. Fit(r) /\ r \in mapped'
      BY <1>2, <1>5, <3>1 DEF Reusables
    <3>3. Coming' \subseteq Coming \cup {r}
      BY <2>7
    <3>4. \A x \in {r} : Fit(x) /\ (KeyOf[x] \in Staging => x \in mapped')
      BY <3>2
    <3>5. \A x \in Existing' \cup Remapping' : (x \in healthy => x \in healthy') /\ (x \in mapped => x \in mapped')
      BY <1>1, <1>5
    <3> QED
      BY <1>2, <2>1, <3>3, <3>4, <3>5, ReusablesStay, ZenonT(60)
  <2>9. /\ p \in Preparations /\ prep' = [prep EXCEPT ![t] = p] /\ Promised(p) /\ p.phase # "none"
        /\ reserved' = reserved - prep[t].remaining + p.remaining
    BY <1>1, <1>5, SamePrep
  <2> HIDE DEF p
  <2> QED
    BY <2>1, <2>3, <2>4, <2>5, <2>6, <2>8, <2>9, Assembles
<1>6. ASSUME NEW r \in held[t], call' = [call EXCEPT ![t].dying = {r}],
             held' = [held EXCEPT ![t] = held[t] \ {r}], UNCHANGED <<idle, bytes, budget, mapped, prep>>
      PROVE  RInv'
  <2> DEFINE p == prep[t]
  <2>1. PInv' /\ Existing' = Existing \cup {r} /\ Ready' \subseteq Ready
    BY <1>1, <1>2, <1>3, <1>6, DroppedKeeps
  <2>2. Existing' = Existing
    BY <1>3, <2>1
  <2>3. held'[t] \subseteq held[t] /\ \A u \in Threads \ {t} : held'[u] = held[u]
    BY <1>2, <1>6 DEF PInv, PoolTypeOK
  <2>4. /\ p \in Preparations /\ prep' = [prep EXCEPT ![t] = p] /\ Promised(p) /\ p.phase # "none"
        /\ reserved' = reserved - prep[t].remaining + p.remaining
    BY <1>1, <1>6, SamePrep
  <2>5. healthy' \subseteq Items /\ UNCHANGED <<limit, loss, allocated, live, healthy, mapped, remap>>
    BY <1>1, <1>2, <1>6 DEF TypeOK
  <2> HIDE DEF p
  <2> QED
    BY <1>1, <2>1, <2>2, <2>3, <2>4, <2>5, Carries
<1> QED
  BY <1>4, <1>5, <1>6 DEF Harvest

-----------------------------------------------------------------------------
(* The pool's steps, and those of the host and the device. *)

LEMMA PoolStepsKeep ==
  ASSUME RInv, NEW t \in Threads,
         \/ PutEvicts(t) \/ PutEnds(t) \/ Evicts(t) \/ EvictEnds(t)
         \/ Free(t) /\ \E b \in Budgets : SetBudget(t, b),
         UNCHANGED <<ledger, loss, flags, prep>>
  PROVE  RInv'
<1> DEFINE p == prep[t]
<1>1. PInv' /\ Existing' = Existing /\ Ready' \subseteq Ready
  BY PutEvictsKeeps, PutEndsKeeps, EvictsKeeps, EvictEndsKeeps, SetBudgetKeeps DEF RInv
<1>2. held' = held
  BY DEF PutEvicts, PutEnds, Evicts, EvictEnds, SetBudget
<1>3. /\ p \in Preparations /\ prep' = [prep EXCEPT ![t] = p] /\ Promised(p)
      /\ reserved' = reserved - prep[t].remaining + p.remaining
  BY SamePrep DEF ledger
<1>4. healthy' \subseteq Items /\ UNCHANGED <<limit, loss, allocated, live, healthy, mapped, remap>>
  BY DEF RInv, TypeOK, ledger, flags
<1>5. p.phase = "none" => held'[t] = {}
  BY <1>2 DEF RInv, NothingInHand
<1> HIDE DEF p
<1>6. p.phase = "harvest" => prep[t].phase = "harvest" /\ held'[t] \subseteq held[t]
  BY <1>2 DEF p
<1> QED
  BY <1>1, <1>2, <1>3, <1>4, <1>5, <1>6, Carries

(* What is destroyed gives exactly its charge back. *)
LEMMA DestroyKeeps ==
  ASSUME RInv, NEW t \in Threads, Destroy(t)
  PROVE  RInv' /\ reserved' = reserved /\ allocated' <= allocated
<1> DEFINE p == prep[t]
           gone == call[t].dying
<1>1. /\ DestroyEvicted(t) /\ allocated' = allocated - BytesOf(gone)
      /\ mapped' = mapped \ gone /\ healthy' = healthy \ gone
      /\ held' = held /\ UNCHANGED <<limit, reserved, loss, live, remap, prep>>
  BY DEF Destroy, DestroyEvicted
<1>2. TypeOK /\ PInv /\ Places /\ Sums /\ Reusables
  BY DEF RInv
<1>3. PInv' /\ Existing' = Existing \ gone /\ Ready' \subseteq Ready \ gone
  BY <1>1, <1>2, DestroyEvictedKeeps
<1>4. gone \subseteq Existing /\ Existing \subseteq Items /\ \A u \in Threads : held[u] \subseteq Existing
  BY <1>2, ExistingItems DEF InHand
<1>5. Remapping' = Remapping
  BY <1>1 DEF Remapping
<1>6. Places'
  BY <1>1, <1>2, <1>3, <1>5 DEF Places
<1>7. Allocated' = Allocated \ gone /\ gone \in SUBSET Allocated /\ Allocated \in SUBSET Items
  BY <1>1, <1>2, <1>3, <1>4, <1>5 DEF Allocated, Places, TypeOK, Remapping
<1>8. BytesOf(Allocated \ gone) = BytesOf(Allocated) - BytesOf(gone) /\ BytesOf(gone) \in Nat
  BY <1>7, BytesOfWithout, BytesOfType
<1>9. allocated' = BytesOf(Allocated') /\ allocated' <= allocated
  BY <1>1, <1>2, <1>7, <1>8 DEF Sums, TypeOK
<1>10. FlagTypes'
  BY <1>1, <1>2 DEF TypeOK, FlagTypes
<1>11. Reusables'
  <2>3. Coming' \subseteq Coming
    <3>1. \A u \in Threads : Harvested(u)' = Harvested(u)
      BY <1>1 DEF Harvested
    <3> QED
      BY <1>5, <3>1 DEF Coming
  <2>4. \A r \in Existing' \cup Remapping' : (r \in healthy => r \in healthy') /\ (r \in mapped => r \in mapped')
    BY <1>1, <1>2, <1>3, <1>4, <1>5 DEF Places
  <2>5. Ready' \subseteq Ready
    BY <1>3
  <2> QED
    BY <1>2, <1>3, <2>3, <2>4, <2>5, ReusablesStayThere
<1>12. /\ p \in Preparations /\ prep' = [prep EXCEPT ![t] = p] /\ Promised(p)
       /\ reserved' = reserved - prep[t].remaining + p.remaining
  BY <1>1, SamePrep
<1>13. p.phase = "none" => held'[t] = {}
  BY <1>1 DEF RInv, NothingInHand
<1> HIDE DEF p
<1> QED
  BY <1>1, <1>3, <1>6, <1>9, <1>10, <1>11, <1>12, <1>13, Assembles

LEMMA MapSettlesKeeps ==
  ASSUME RInv, NEW r \in Items, MapSettles(r)
  PROVE  RInv'
<1>1. TypeOK
  BY DEF RInv
<1>2. PICK s \in {"ok", "err"} : remap' = [remap EXCEPT ![r] = s]
  BY DEF MapSettles
<1>3. remap[r] = "waiting" /\ UNCHANGED <<poolVars, limit, reserved, allocated, loss, live, healthy, mapped, prep>>
  BY DEF MapSettles, ledger
<1>4. remap' \in [Items -> {"none", "waiting", "ok", "err"}] /\ Remapping' = Remapping
  <2>1. remap'[r] = s /\ \A x \in Items \ {r} : remap'[x] = remap[x]
    BY <1>1, <1>2 DEF TypeOK
  <2> QED
    BY <1>1, <1>2, <1>3, <2>1 DEF TypeOK, Remapping
<1>5. FlagTypes'
  BY <1>1, <1>3, <1>4 DEF TypeOK, FlagTypes
<1> QED
  BY <1>3, <1>4, <1>5, FlagsKeep

LEMMA OthersKeep ==
  ASSUME RInv, \/ \E r \in Items : Upload(r) \/ Taint(r)
               \/ \E l \in Limits : SetLimit(l)
               \/ Lose
               \/ UNCHANGED vars
  PROVE  RInv'
<1>1. UNCHANGED <<poolVars, reserved, allocated, prep, live, remap>>
  BY DEF Upload, Taint, SetLimit, Lose, vars, poolVars, ledger, flags
<1>2. Remapping' = Remapping
  BY <1>1 DEF Remapping
<1>3. TypeOK
  BY DEF RInv
<1>4. \A r \in Items \ live : (r \in healthy => r \in healthy') /\ (r \in mapped => r \in mapped')
  BY DEF Upload, Taint, SetLimit, Lose, vars, ledger, flags
<1>5. FlagTypes'
  BY <1>1, <1>3 DEF TypeOK, FlagTypes, Upload, Taint, SetLimit, Lose, vars, ledger, flags
<1> QED
  BY <1>1, <1>2, <1>4, <1>5, FlagsKeep

LEMMA RInvStarts ==
  ASSUME Init
  PROVE  RInv
<1>1. PInv /\ Existing = {} /\ Ready = {}
  <2>1. PInv
    BY PInvStarts DEF Init
  <2>2. ToSet(idle) = {} /\ \A t \in Threads : held[t] = {} /\ InHand(t) = {} /\ Returning(t) = {}
    BY DEF Init, PoolInit, NoCall, InHand, Returning, ToSet
  <2> QED
    BY <2>1, <2>2 DEF Existing, Ready
<1>2. FlagTypes /\ Remapping = {} /\ Allocated = {} /\ live = {}
  BY <1>1 DEF Init, FlagTypes, Remapping, Allocated
<1>3. Places /\ NothingInHand
  BY <1>1, <1>2 DEF Places, NothingInHand, Init, PoolInit
<1>4. prep \in [Threads -> Preparations] /\ \A t \in Threads : prep[t] = NotPreparing
  BY NotPreparingIs DEF Init
<1>5. ReservedIn(prep) = 0
  BY <1>4, NotPreparingIs, ReservedInNothing
<1>6. Sums
  BY <1>2, <1>4, <1>5, NotPreparingIs, BytesOfEmpty DEF Sums, Promised, Init
<1>7. Reusables
  BY <1>1, <1>2, <1>4, NotPreparingIs DEF Reusables, Coming, Harvested
<1>8. TypeOK
  BY <1>1, <1>2, <1>4 DEF TypeOK, FlagTypes, PInv, Init
<1> QED
  BY <1>1, <1>3, <1>6, <1>7, <1>8 DEF RInv

LEMMA ThreadStepKeeps ==
  ASSUME RInv, NEW t \in Threads, ThreadStep(t)
  PROVE  RInv'
BY TakeIdleKeeps, TakeMissesKeeps, ReserveGrantedKeeps, ReserveEvictsKeeps, GotoKeeps, CreateKeeps,
   CreatedKeeps, AcceptedKeeps, DropBatchKeeps, HarvestKeeps, PoolStepsKeep, DestroyKeeps
   DEF ThreadStep, PoolSteps, ReserveFails, Rejected, At, Phases

LEMMA RInvKeeps ==
  ASSUME RInv, [Next]_vars
  PROVE  RInv'
<1>1. ASSUME NEW t \in Threads, ThreadStep(t) PROVE RInv'
  BY <1>1, ThreadStepKeeps
<1>2. ASSUME NEW t \in Threads, NEW plan \in Plans, PrepareStarts(t, plan) PROVE RInv'
  BY <1>2, PrepareStartsKeeps
<1>3. ASSUME NEW t \in Threads, NEW r \in Items, DropLive(t, r) PROVE RInv'
  BY <1>3, DropLiveKeeps
<1>4. ASSUME NEW t \in Threads, CollectStarts(t) PROVE RInv'
  BY <1>4, CollectStartsKeeps
<1>5. ASSUME NEW t \in Threads, NEW b \in Budgets, SetIdleBudget(t, b) PROVE RInv'
  BY <1>5, PoolStepsKeep DEF SetIdleBudget, Quiet
<1>6. ASSUME NEW r \in Items, MapSettles(r) PROVE RInv'
  BY <1>6, MapSettlesKeeps
<1>7. ASSUME \/ \E r \in Items : Upload(r) \/ Taint(r)
             \/ \E l \in Limits : SetLimit(l)
             \/ Lose
             \/ UNCHANGED vars
      PROVE RInv'
  BY <1>7, OthersKeep
<1> QED
  BY <1>1, <1>2, <1>3, <1>4, <1>5, <1>6, <1>7 DEF Next

LEMMA RInvAlways == Spec => []RInv
<1>1. Init => RInv
  BY RInvStarts
<1>2. RInv /\ [Next]_vars => RInv'
  BY RInvKeeps
<1> QED
  BY <1>1, <1>2, PTL DEF Spec

-----------------------------------------------------------------------------
(* What a step does to the use. *)

SameUse == UNCHANGED <<reserved, allocated>>

LEMMA UseType ==
  ASSUME RInv, RInv'
  PROVE  reserved \in Nat /\ allocated \in Nat /\ reserved' \in Nat /\ allocated' \in Nat
BY DEF RInv, TypeOK

(* Only reserve raises the use: creating turns what was reserved into a    *)
(* charge, and every other step gives back or leaves the ledger alone.     *)
LEMMA ThreadStepUses ==
  ASSUME RInv, RInv', NEW t \in Threads, ThreadStep(t)
  PROVE  Used' <= Used \/ \E l \in limit : Used' <= l
<1> DEFINE Goal == Used' <= Used \/ \E l \in limit : Used' <= l
<1>1. reserved \in Nat /\ allocated \in Nat /\ reserved' \in Nat /\ allocated' \in Nat
  BY UseType
<1>2. prep[t] \in Preparations /\ prep[t].remaining \in Nat /\ TypeOK
  BY SamePrep DEF RInv, TypeOK, Preparations
<1>3. ASSUME SameUse PROVE Goal
  BY <1>1, <1>3 DEF SameUse, Used
<1>4. CASE TakeIdle(t) \/ TakeMisses(t) \/ ReserveEvicts(t) \/ ReserveFails(t) \/ Accepted(t) \/ Rejected(t)
           \/ DropBatch(t) \/ Harvest(t) \/ PoolSteps(t)
  <2>1. SameUse
    BY <1>4 DEF SameUse, TakeIdle, TakeMisses, ReserveEvicts, ReserveFails, Accepted, Rejected, DropBatch,
                Harvest, PoolSteps, ledger
  <2> QED
    BY <1>3, <2>1
<1>5. CASE ReserveGranted(t)
  <2>1. Admits(Missing(t)) /\ reserved' = reserved + Missing(t) /\ allocated' = allocated
    BY <1>5 DEF ReserveGranted, Grant
  <2>2. Missing(t) \in Nat
    BY <1>2, MissingType
  <2> QED
    BY <1>1, <2>1, <2>2 DEF Admits, Used
<1>6. ASSUME NEW r \in Items, Create(t, r) PROVE Goal
  <2>1. reserved' = reserved - Bytes(r) /\ allocated' = allocated + Bytes(r)
    BY <1>6 DEF Create
  <2>2. Bytes(r) \in Nat
    BY SizeType DEF Bytes, Keys
  <2> QED
    BY <1>1, <2>1, <2>2 DEF Used
<1>7. CASE Created(t)
  <2>1. reserved' = reserved - prep[t].remaining /\ allocated' = allocated
    BY <1>7 DEF Created, DropReservation
  <2> QED
    BY <1>1, <1>2, <2>1 DEF Used
<1>8. CASE Destroy(t)
  <2>1. reserved' = reserved /\ allocated' <= allocated
    BY <1>8, DestroyKeeps
  <2>2. \A k, m, n \in Nat : m <= n => k + m <= k + n
    OBVIOUS
  <2>3. reserved' + allocated' <= reserved + allocated
    BY <1>1, <2>1, <2>2, Zenon
  <2> QED
    BY <2>3 DEF Used
<1> QED
  BY <1>4, <1>5, <1>6, <1>7, <1>8 DEF ThreadStep

LEMMA StepUses ==
  ASSUME RInv, [Next]_vars
  PROVE  Used' > Used => \E l \in limit : Used' <= l
<1> DEFINE Goal == Used' <= Used \/ \E l \in limit : Used' <= l
<1>1. RInv'
  BY RInvKeeps
<1>2. reserved \in Nat /\ allocated \in Nat /\ reserved' \in Nat /\ allocated' \in Nat
  BY <1>1, UseType
<1>3. ASSUME NEW t \in Threads, ThreadStep(t) PROVE Goal
  BY <1>1, <1>3, ThreadStepUses
<1>4. ASSUME NEW t \in Threads, \/ \E plan \in Plans : PrepareStarts(t, plan)
                                \/ \E r \in Items : DropLive(t, r)
                                \/ CollectStarts(t)
                                \/ \E b \in Budgets : SetIdleBudget(t, b)
      PROVE SameUse
  BY <1>4 DEF SameUse, PrepareStarts, DropLive, CollectStarts, SetIdleBudget, ledger
<1>5. ASSUME \/ \E r \in Items : MapSettles(r) \/ Upload(r) \/ Taint(r)
             \/ \E l \in Limits : SetLimit(l)
             \/ Lose
             \/ UNCHANGED vars
      PROVE SameUse
  BY <1>5 DEF SameUse, MapSettles, Upload, Taint, SetLimit, Lose, ledger, vars
<1>6. Goal
  <2>1. SameUse => Goal
    BY <1>2 DEF SameUse, Used
  <2> QED
    BY <1>3, <1>4, <1>5, <2>1 DEF Next
<1>7. Used \in Nat /\ Used' \in Nat
  <2>1. Used = reserved + allocated /\ Used' = reserved' + allocated'
    BY DEF Used
  <2> HIDE DEF Goal
  <2>2. \A m, n \in Nat : m + n \in Nat
    OBVIOUS
  <2> QED
    BY <1>2, <2>1, <2>2
<1> QED
  BY <1>6, <1>7

-----------------------------------------------------------------------------
(* resources.rs, pool.rs: whatever threads prepare, drop, collect and      *)
(* evict, an item is with the host, in the remap list, in the pool or in   *)
(* one thread's hands, and never in two of them.                           *)
THEOREM AnItemIsInOnePlace == Spec => []OnePlace
<1>1. RInv => OnePlace
  BY DEF RInv, Places, PInv, Exclusive, Distinct, OneOwner, OnePlace
<1> QED
  BY <1>1, RInvAlways, PTL

(* budget/admission.rs: MemoryUsage is exact at every step.  allocated is  *)
(* the bytes of the items that exist, wherever they are; reserved is what  *)
(* the unfinished prepares still hold, and that is what they have still to *)
(* create, so no Charge is made of more than its Reservation has.          *)
THEOREM TheLedgerBalances == Spec => []LedgerBalances
<1>1. RInv => LedgerBalances
  BY DEF RInv, Sums, Promised, LedgerBalances, Missing
<1> QED
  BY <1>1, RInvAlways, PTL

(* resources.rs, Owned::drop and collect: the pool holds no item that its  *)
(* error scopes did not accept, whose last work failed, that is a readback *)
(* buffer, or whose mapping is outstanding.                                *)
THEOREM WhatIsIdleMayBeReused == Spec => []IdleIsReusable
<1>1. RInv => IdleIsReusable
  BY DEF RInv, Reusables, Ready, Fit, Writable, IdleIsReusable
<1> QED
  BY <1>1, RInvAlways, PTL

(* budget/admission.rs, reserve: a step that raises what is reserved and   *)
(* allocated together leaves it within the limit of that moment, however   *)
(* many threads reserve at once.                                           *)
THEOREM UseGrowsWithinTheLimit == Spec => GrowsWithinLimit
<1>1. RInv /\ [Next]_vars => [Used' > Used => \E l \in limit : Used' <= l]_vars
  BY StepUses
<1> QED
  BY <1>1, RInvAlways, PTL DEF Spec, GrowsWithinLimit
=============================================================================
