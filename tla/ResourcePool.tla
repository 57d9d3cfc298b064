---------------------------- MODULE ResourcePool ----------------------------
(***************************************************************************)
(* The pool of idle GPU resources of src/pool.rs: ResourcePool, and the    *)
(* BufferWorkspace that checks buffers out of it.                          *)
(*                                                                         *)
(* The list of idle items, oldest return first, and its byte count are     *)
(* under one mutex, which is released whenever an item has to be           *)
(* destroyed: the driver may block there.  So put and evict take the       *)
(* mutex once per item they evict, and other threads put, take and change  *)
(* the budget in between.  One action is one critical section; call[t]     *)
(* holds the locals of thread t's put or evict.                            *)
(***************************************************************************)
EXTENDS Integers, Sequences, FiniteSets, SequencesExt

CONSTANTS
  Threads,
  Items,       \* the resources that can exist at once
  KeyOf,       \* each item's Pooled::key
  SizeOf,      \* the Pooled::bytes of the items of a key
  Budgets,     \* the byte budgets set_budget is called with
  MaxEntries,  \* with_limits' max_entries
  Needs        \* what evict is asked for; {} when nobody calls it

ASSUME ResourcePoolAssumption ==
  /\ SizeOf \in [{KeyOf[r] : r \in Items} -> Nat]
  /\ Budgets \subseteq Nat /\ Budgets # {}
  /\ MaxEntries \in Nat
  /\ Needs \subseteq Nat

VARIABLES
  idle,    \* Idle.slots, least recently returned first
  bytes,   \* Idle.bytes
  budget,  \* the atomic byte budget
  held,    \* the items each thread owns outside the pool
  call     \* each thread's put or evict in progress

poolVars == <<idle, bytes, budget, held, call>>

Keys == {KeyOf[r] : r \in Items}
Bytes(r) == SizeOf[KeyOf[r]]
SumOf(s) == FoldLeft(LAMBDA n, r : n + Bytes(r), 0, s)

(* op is the call's place in the code: "put" before its first critical     *)
(* section, "putting" between two of them, "evict" between two of evict's. *)
(* dying are the items removed under the mutex and not yet destroyed.      *)
NoCall == [op |-> "none", item |-> "none", left |-> 0, need |-> 0, freed |-> 0, dying |-> {}]

Calls == [op : {"none", "put", "putting", "evict"}, item : Items \cup {"none"},
          left : Nat, need : Nat, freed : Nat, dying : SUBSET Items]

(* The threads own, the pool keeps or a call has in hand these items; any  *)
(* other item does not exist yet, or no longer.                            *)
InHand(t) == call[t].dying \cup (IF call[t].op \in {"put", "putting"} THEN {call[t].item} ELSE {})
Existing == ToSet(idle) \cup UNION {held[t] \cup InHand(t) : t \in Threads}

PoolInit ==
  /\ idle = <<>>
  /\ bytes = 0
  /\ budget \in Budgets
  /\ held = [t \in Threads |-> {}]
  /\ call = [t \in Threads |-> NoCall]

-----------------------------------------------------------------------------
Positions(k) == {i \in 1..Len(idle) : KeyOf[idle[i]] = k}

(* Faulty variant: the item is lent and stays in the list. *)
TakeKeeps(t, k) ==
  /\ Positions(k) # {}
  /\ LET at == CHOOSE i \in Positions(k) : \A j \in Positions(k) : j <= i
     IN held' = [held EXCEPT ![t] = @ \cup {idle[at]}]
  /\ UNCHANGED <<idle, bytes, budget, call>>

(* take: the most recently returned item of the key. *)
Take(t, k) ==
  /\ Positions(k) # {}
  /\ LET at == CHOOSE i \in Positions(k) : \A j \in Positions(k) : j <= i
     IN /\ held' = [held EXCEPT ![t] = @ \cup {idle[at]}]
        /\ idle' = RemoveAt(idle, at)
        /\ bytes' = bytes - Bytes(idle[at])
  /\ UNCHANGED <<budget, call>>

(* take_buffer and take_texture create what take does not find. *)
CreateOnMiss(t, r) ==
  /\ r \notin Existing
  /\ Positions(KeyOf[r]) = {}
  /\ held' = [held EXCEPT ![t] = @ \cup {r}]
  /\ UNCHANGED <<idle, bytes, budget, call>>

(* An item dropped outside the pool: an incomplete workspace. *)
Discard(t, r) ==
  /\ held' = [held EXCEPT ![t] = @ \ {r}]
  /\ UNCHANGED <<idle, bytes, budget, call>>

(* put looks at the budget before it takes the mutex: an item that can     *)
(* never fit is dropped, and so is every item when nothing may be kept.    *)
PutStarts(t, r) ==
  /\ held' = [held EXCEPT ![t] = @ \ {r}]
  /\ call' = [call EXCEPT ![t] =
       IF Bytes(r) > budget \/ MaxEntries = 0
         THEN [NoCall EXCEPT !.dying = {r}]
         ELSE [NoCall EXCEPT !.op = "put", !.item = r]]
  /\ UNCHANGED <<idle, bytes, budget>>

Fits(r) == Bytes(r) <= budget /\ bytes <= budget - Bytes(r) /\ Len(idle) < MaxEntries

(* Faulty variant: the loop has no bound. *)
AttemptsUnbounded(t) == 1

(* The evictions this put may still make: at first as many as there are    *)
(* idle items when it takes the mutex.                                     *)
Attempts(t) == IF call[t].op = "put" THEN Len(idle) ELSE call[t].left

(* Faulty variant: the latest return goes first. *)
PutEvictsNewest(t) ==
  /\ call[t].op \in {"put", "putting"}
  /\ call[t].dying = {}
  /\ LET r == call[t].item
     IN /\ Attempts(t) > 0
        /\ Bytes(r) <= budget
        /\ ~Fits(r)
        /\ call' = [call EXCEPT ![t].op = "putting", ![t].left = Attempts(t) - 1,
                                ![t].dying = {Last(idle)}]
  /\ bytes' = bytes - Bytes(Last(idle))
  /\ idle' = Front(idle)
  /\ UNCHANGED <<budget, held>>

(* One round of put's loop under the mutex: the oldest item goes, unless   *)
(* the new one fits, can no longer fit, or the attempts are used up.       *)
PutEvicts(t) ==
  /\ call[t].op \in {"put", "putting"}
  /\ call[t].dying = {}
  /\ LET r == call[t].item
     IN /\ Attempts(t) > 0
        /\ Bytes(r) <= budget
        /\ ~Fits(r)
        /\ call' = [call EXCEPT ![t].op = "putting", ![t].left = Attempts(t) - 1,
                                ![t].dying = {Head(idle)}]
  /\ bytes' = bytes - Bytes(Head(idle))
  /\ idle' = Tail(idle)
  /\ UNCHANGED <<budget, held>>

(* The end of put, in the critical section in which its loop ended: keep   *)
(* the item if it fits by now, else drop it.                               *)
PutEnds(t) ==
  /\ call[t].op \in {"put", "putting"}
  /\ call[t].dying = {}
  /\ LET r == call[t].item
     IN /\ Attempts(t) = 0 \/ Bytes(r) > budget \/ Fits(r)
        /\ \/ /\ Fits(r)
              /\ idle' = Append(idle, r)
              /\ bytes' = bytes + Bytes(r)
              /\ call' = [call EXCEPT ![t] = NoCall]
           \/ /\ ~Fits(r)
              /\ call' = [call EXCEPT ![t] = [NoCall EXCEPT !.dying = {r}]]
              /\ UNCHANGED <<idle, bytes>>
  /\ UNCHANGED <<budget, held>>

(* What is evicted is destroyed with the mutex released. *)
DestroyEvicted(t) ==
  /\ call[t].dying # {}
  /\ call' = [call EXCEPT ![t].dying = {}]
  /\ UNCHANGED <<idle, bytes, budget, held>>

-----------------------------------------------------------------------------
(* The number of items at the old end that a budget of b evicts. *)
Over(b) ==
  CHOOSE n \in 0..Len(idle) :
    /\ n = Len(idle) \/ bytes - SumOf(SubSeq(idle, 1, n)) <= b
    /\ \A m \in 0..(n - 1) : bytes - SumOf(SubSeq(idle, 1, m)) > b

(* Faulty variant: the budget is stored and the mutex released before the  *)
(* idle items are looked at, as a later put would.                         *)
SetBudgetOnly(t, b) ==
  /\ budget' = b
  /\ UNCHANGED <<idle, bytes, held, call>>

(* set_budget stores the budget and evicts down to it in one critical      *)
(* section.                                                                *)
SetBudget(t, b) ==
  /\ budget' = b
  /\ call' = [call EXCEPT ![t].dying = ToSet(SubSeq(idle, 1, Over(b)))]
  /\ bytes' = bytes - SumOf(SubSeq(idle, 1, Over(b)))
  /\ idle' = SubSeq(idle, Over(b) + 1, Len(idle))
  /\ UNCHANGED held

(* evict reads the number of idle items first, and then takes the oldest   *)
(* one at a time until enough is freed.                                    *)
EvictStarts(t, n) ==
  /\ call' = [call EXCEPT ![t] = [NoCall EXCEPT !.op = "evict", !.left = Len(idle), !.need = n]]
  /\ UNCHANGED <<idle, bytes, budget, held>>

(* Faulty variant: one item too many. *)
EvictsOnInclusive(t) == call[t].left > 0 /\ call[t].freed <= call[t].need /\ idle # <<>>

EvictsOn(t) == call[t].left > 0 /\ call[t].freed < call[t].need /\ idle # <<>>

Evicts(t) ==
  /\ call[t].op = "evict"
  /\ call[t].dying = {}
  /\ EvictsOn(t)
  /\ call' = [call EXCEPT ![t].left = @ - 1, ![t].freed = @ + Bytes(Head(idle)),
                          ![t].dying = {Head(idle)}]
  /\ bytes' = bytes - Bytes(Head(idle))
  /\ idle' = Tail(idle)
  /\ UNCHANGED <<budget, held>>

EvictEnds(t) ==
  /\ call[t].op = "evict"
  /\ call[t].dying = {}
  /\ ~EvictsOn(t)
  /\ call' = [call EXCEPT ![t] = NoCall]
  /\ UNCHANGED <<idle, bytes, budget, held>>

-----------------------------------------------------------------------------
Free(t) == call[t] = NoCall

PoolStep(t) == PutEvicts(t) \/ PutEnds(t) \/ DestroyEvicted(t) \/ Evicts(t) \/ EvictEnds(t)

PoolNext ==
  \E t \in Threads :
    \/ PoolStep(t)
    \/ /\ Free(t)
       /\ \/ \E k \in Keys : Take(t, k)
          \/ \E r \in Items : CreateOnMiss(t, r)
          \/ \E r \in held[t] : Discard(t, r) \/ PutStarts(t, r)
          \/ \E b \in Budgets : SetBudget(t, b)
          \/ \E n \in Needs : EvictStarts(t, n)

PoolSpec == PoolInit /\ [][PoolNext]_poolVars

(* A thread inside put or evict goes on. *)
FairPoolSpec == PoolSpec /\ \A t \in Threads : WF_poolVars(PoolStep(t))

-----------------------------------------------------------------------------
PoolTypeOK ==
  /\ idle \in Seq(Items)
  /\ bytes \in Nat
  /\ budget \in Budgets
  /\ held \in [Threads -> SUBSET Items]
  /\ call \in [Threads -> Calls]

(* The byte count that every decision is made from is the sum of what is   *)
(* idle, and it is within the budget of this moment: a budget lowered      *)
(* while a put is between two critical sections is never followed by a     *)
(* return above it.                                                        *)
WithinLimits ==
  /\ bytes = SumOf(idle)
  /\ bytes <= budget
  /\ Len(idle) <= MaxEntries

(* No item is in two hands: idle once, lent to one thread, or being        *)
(* returned or destroyed by one.  "Only a resource its owner knows to be   *)
(* unshared may be put back".  Checked with the types.                     *)
OneOwner ==
  /\ PoolTypeOK
  /\ \A i, j \in 1..Len(idle) : i # j => idle[i] # idle[j]
  /\ \A t \in Threads :
       /\ ToSet(idle) \cap (held[t] \cup InHand(t)) = {}
       /\ held[t] \cap InHand(t) = {}
       /\ \A u \in Threads \ {t} : (held[t] \cup InHand(t)) \cap (held[u] \cup InHand(u)) = {}

(* A put ends although other threads return items all the while: "bound    *)
(* retries to the initial idle count so concurrent returns cannot keep     *)
(* this caller evicting indefinitely"; and evict ends likewise.            *)
CallsEnd == \A t \in Threads : ~Free(t) ~> Free(t)
=============================================================================
