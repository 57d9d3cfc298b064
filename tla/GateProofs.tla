----------------------------- MODULE GateProofs -----------------------------
(***************************************************************************)
(* Theorems about Gate for any finite sets of threads and any number of    *)
(* permits: the type invariant, the conservation of permits, and that a    *)
(* free permit is never stranded unless a waiter of enter_until gave up.   *)
(***************************************************************************)
EXTENDS Gate, FiniteSetTheorems, TLAPS

LEMMA ThreadsFinite == IsFiniteSet(Threads)
BY GateAssumption, FS_Union DEF Threads

LEMMA SizeIsNat == Size \in Nat /\ Size # 0
BY GateAssumption DEF Size

(* The type invariant of the gate (free is a usize that never underflows:  *)
(* every decrement in src/pool.rs is behind a test for zero).              *)
THEOREM TypeCorrect == Spec => []TypeOK
<1>1. Init => TypeOK
  BY SizeIsNat DEF Init, TypeOK
<1>2. TypeOK /\ [Next]_vars => TypeOK'
  <2> SUFFICES ASSUME TypeOK, [Next]_vars PROVE TypeOK'
    OBVIOUS
  <2> USE DEF TypeOK, Goto, Resume
  <2>1. ASSUME NEW t \in Threads, Arrive(t) PROVE TypeOK'
    BY <2>1 DEF Arrive
  <2>2. ASSUME NEW t \in Threads, KeepWaiting(t) PROVE TypeOK'
    BY <2>2 DEF KeepWaiting
  <2>3. ASSUME NEW t \in Threads, GiveUp(t) PROVE TypeOK'
    BY <2>3 DEF GiveUp
  <2>4. ASSUME NEW t \in Threads, Take(t) PROVE TypeOK'
    BY <2>4 DEF Take
  <2>5. ASSUME NEW t \in Threads, Sleep(t) PROVE TypeOK'
    BY <2>5 DEF Sleep
  <2>6. ASSUME NEW t \in Threads, TimeOut(t) PROVE TypeOK'
    BY <2>6 DEF TimeOut
  <2>7. ASSUME NEW t \in Threads, SpuriousWake(t) PROVE TypeOK'
    BY <2>7 DEF SpuriousWake
  <2>8. ASSUME NEW t \in Threads, Leave(t) PROVE TypeOK'
    BY <2>8 DEF Leave
  <2>9. CASE UNCHANGED vars
    BY <2>9 DEF vars
  <2> QED
    BY <2>1, <2>2, <2>3, <2>4, <2>5, <2>6, <2>7, <2>8, <2>9 DEF Next
<1> QED
  BY <1>1, <1>2, PTL DEF Spec

-----------------------------------------------------------------------------
(* What moving threads does to the size of the set of threads at a place.  *)

LEMMA CardEnters ==
  ASSUME NEW S, NEW T, NEW t, IsFiniteSet(S), t \notin S, T = S \cup {t}
  PROVE  IsFiniteSet(T) /\ Cardinality(T) = Cardinality(S) + 1
BY FS_AddElement

LEMMA CardLeaves ==
  ASSUME NEW S, NEW T, NEW t, IsFiniteSet(S), t \in S, T = S \ {t}
  PROVE  /\ IsFiniteSet(T) /\ Cardinality(T) = Cardinality(S) - 1
         /\ Cardinality(S) \in Nat /\ Cardinality(T) \in Nat
BY FS_RemoveElement, FS_CardinalityType

LEMMA PlacesFinite ==
  /\ IsFiniteSet(Inside) /\ Cardinality(Inside) \in Nat
  /\ IsFiniteSet(Awake) /\ Cardinality(Awake) \in Nat
<1>1. Inside \subseteq Threads /\ Awake \subseteq Threads
  BY DEF Inside, Awake, At
<1> QED
  BY <1>1, ThreadsFinite, FS_Subset, FS_CardinalityType

(* How each step that moves a thread into or out of the gate changes the   *)
(* count and the set of threads inside; the other steps change neither.    *)
LEMMA InsideSteps ==
  ASSUME TypeOK, [Next]_vars
  PROVE  \/ free' = free /\ Inside' = Inside
         \/ \E t \in Threads \ Inside : free' = free - 1 /\ Inside' = Inside \cup {t}
         \/ \E t \in Inside : free' = free + 1 /\ Inside' = Inside \ {t}
<1> USE DEF TypeOK, Goto, Resume, Inside, At
<1>1. ASSUME NEW t \in Threads, Take(t)
      PROVE  t \in Threads \ Inside /\ free' = free - 1 /\ Inside' = Inside \cup {t}
  BY <1>1 DEF Take
<1>2. ASSUME NEW t \in Threads, Leave(t)
      PROVE  t \in Inside /\ free' = free + 1 /\ Inside' = Inside \ {t}
  BY <1>2 DEF Leave, Asleep
<1>3. ASSUME NEW t \in Threads,
             \/ Arrive(t) \/ KeepWaiting(t) \/ GiveUp(t)
             \/ Sleep(t) \/ TimeOut(t) \/ SpuriousWake(t)
      PROVE  free' = free /\ Inside' = Inside
  BY <1>3 DEF Arrive, KeepWaiting, GiveUp, Sleep, TimeOut, SpuriousWake
<1>4. CASE UNCHANGED vars
  BY <1>4 DEF vars
<1> QED
  BY <1>1, <1>2, <1>3, <1>4 DEF Next

(* What is free and what the admitted jobs hold.                           *)
Balanced == free + Cardinality(Inside) = Size

(* Permits are conserved: what is free and what the admitted jobs hold     *)
(* always adds up to the size of the gate, with no underflow.              *)
THEOREM PermitConservation == Spec => []PermitsConserved
<1>1. Init => Balanced
  <2> SUFFICES ASSUME Init PROVE Balanced
    OBVIOUS
  <2>1. Inside = {}
    BY DEF Init, Inside, At
  <2> QED
    BY <2>1, FS_EmptySet, GateAssumption DEF Init, Balanced, Size
<1>2. TypeOK /\ Balanced /\ [Next]_vars => Balanced'
  <2> SUFFICES ASSUME TypeOK, Balanced, [Next]_vars
               PROVE  Balanced'
    OBVIOUS
  <2>0. IsFiniteSet(Inside) /\ Cardinality(Inside) \in Nat /\ free \in Nat
    BY PlacesFinite DEF TypeOK
  <2>1. CASE free' = free /\ Inside' = Inside
    BY <2>1 DEF Balanced
  <2>2. ASSUME NEW t \in Threads \ Inside, free' = free - 1, Inside' = Inside \cup {t}
        PROVE  Balanced'
    <3>1. Cardinality(Inside') = Cardinality(Inside) + 1
      BY <2>0, <2>2, CardEnters
    <3> QED
      BY <2>0, <2>2, <3>1 DEF Balanced
  <2>3. ASSUME NEW t \in Inside, free' = free + 1, Inside' = Inside \ {t}
        PROVE  Balanced'
    <3>1. Cardinality(Inside') = Cardinality(Inside) - 1
      BY <2>0, <2>3, CardLeaves
    <3> QED
      BY <2>0, <2>3, <3>1 DEF Balanced
  <2> QED
    BY <2>1, <2>2, <2>3, InsideSteps
<1>3. TypeOK /\ Balanced => PermitsConserved
  BY DEF Balanced, PermitsConserved
<1> QED
  BY <1>1, <1>2, <1>3, TypeCorrect, PTL DEF Spec

-----------------------------------------------------------------------------
(* No free permit is stranded: as long as no waiter has given up, each     *)
(* free permit that a sleeper could use has an awake thread of its own.    *)
(* The formula is inductive: an awake thread that takes a permit lowers    *)
(* both sides, one that falls asleep has just read free = 0, and Leave     *)
(* wakes one thread for the permit it adds.                                *)
THEOREM NoStranding == Spec => []NoStrandedPermit
<1>1. Init => NoStrandedPermit
  BY DEF Init, NoStrandedPermit, Asleep, At
<1>2. TypeOK /\ NoStrandedPermit /\ [Next]_vars => NoStrandedPermit'
  <2> SUFFICES ASSUME TypeOK, NoStrandedPermit, [Next]_vars
               PROVE  NoStrandedPermit'
    OBVIOUS
  <2>0. /\ IsFiniteSet(Awake) /\ Cardinality(Awake) \in Nat /\ free \in Nat
    BY PlacesFinite DEF TypeOK
  <2> USE DEF TypeOK, Goto, Resume, Awake, Asleep, At
  <2>1. ASSUME NEW t \in Threads, Arrive(t) PROVE NoStrandedPermit'
    <3>1. /\ t \notin Awake /\ Awake' = Awake \cup {t} /\ Asleep' = Asleep
          /\ free' = free /\ cancelled' = cancelled
      BY <2>1 DEF Arrive
    <3>2. Cardinality(Awake') = Cardinality(Awake) + 1
      BY <2>0, <3>1, CardEnters
    <3> HIDE DEF Awake, Asleep
    <3> QED
      BY <2>0, <3>1, <3>2 DEF NoStrandedPermit
  <2>2. ASSUME NEW t \in Threads, KeepWaiting(t) PROVE NoStrandedPermit'
    <3>1. /\ Awake' = Awake /\ Asleep' = Asleep
          /\ free' = free /\ cancelled' = cancelled
      BY <2>2 DEF KeepWaiting
    <3> HIDE DEF Awake, Asleep
    <3> QED
      BY <3>1 DEF NoStrandedPermit
  <2>3. ASSUME NEW t \in Threads, GiveUp(t) PROVE NoStrandedPermit'
    BY <2>3 DEF GiveUp, NoStrandedPermit
  <2>4. ASSUME NEW t \in Threads, Take(t) PROVE NoStrandedPermit'
    <3>1. /\ t \in Awake /\ Awake' = Awake \ {t} /\ Asleep' = Asleep
          /\ free' = free - 1 /\ cancelled' = cancelled
      BY <2>4 DEF Take
    <3>2. Cardinality(Awake') = Cardinality(Awake) - 1
      BY <2>0, <3>1, CardLeaves
    <3> HIDE DEF Awake, Asleep
    <3> QED
      BY <2>0, <3>1, <3>2 DEF NoStrandedPermit
  <2>5. ASSUME NEW t \in Threads, Sleep(t) PROVE NoStrandedPermit'
    <3>1. t \in Awake /\ Awake' = Awake \ {t} /\ free' = 0
      BY <2>5 DEF Sleep
    <3>2. Cardinality(Awake') \in Nat
      BY <2>0, <3>1, CardLeaves
    <3> HIDE DEF Awake, Asleep
    <3> QED
      BY <3>1, <3>2 DEF NoStrandedPermit
  <2>6. ASSUME NEW t \in Threads, TimeOut(t) \/ SpuriousWake(t)
        PROVE  NoStrandedPermit'
    <3>1. /\ t \notin Awake /\ Awake' = Awake \cup {t} /\ t \in Asleep
          /\ free' = free /\ cancelled' = cancelled
      BY <2>6 DEF TimeOut, SpuriousWake
    <3>2. Cardinality(Awake') = Cardinality(Awake) + 1
      BY <2>0, <3>1, CardEnters
    <3> HIDE DEF Awake, Asleep
    <3> QED
      BY <2>0, <3>1, <3>2 DEF NoStrandedPermit
  <2>7. ASSUME NEW t \in Threads, Leave(t) PROVE NoStrandedPermit'
    <3>1. CASE Asleep = {}
      BY <2>7, <3>1 DEF Leave, NoStrandedPermit
    <3>2. CASE Asleep # {}
      <4>1. PICK w \in Asleep : pc' = [pc EXCEPT ![t] = "outside", ![w] = Resume(w)]
        BY <2>7, <3>2 DEF Leave
      <4>2. /\ w \notin Awake /\ Awake' = Awake \cup {w}
            /\ free' = free + 1 /\ cancelled' = cancelled
        BY <2>7, <4>1 DEF Leave
      <4>3. Cardinality(Awake') = Cardinality(Awake) + 1
        BY <2>0, <4>2, CardEnters
      <4> HIDE DEF Awake, Asleep
      <4> QED
        BY <2>0, <3>2, <4>2, <4>3 DEF NoStrandedPermit
    <3> QED
      BY <3>1, <3>2
  <2>8. CASE UNCHANGED vars
    BY <2>8 DEF vars, NoStrandedPermit
  <2> QED
    BY <2>1, <2>2, <2>3, <2>4, <2>5, <2>6, <2>7, <2>8 DEF Next
<1> QED
  BY <1>1, <1>2, TypeCorrect, PTL DEF Spec
=============================================================================
