------------------------------ MODULE Resources ------------------------------
(***************************************************************************)
(* The managed resources of a device: Resources, Owned, Prepared and Batch *)
(* of src/resources.rs, over the ledger of src/budget/admission.rs         *)
(* (MemoryBudget, Reservation, Charge) and the pool of src/pool.rs, which  *)
(* is ResourcePool itself, step by step.                                   *)
(*                                                                         *)
(* Threads prepare batches, collect remaps and drop owners concurrently.   *)
(* prepare takes what the pool has, reserves the bytes of what is missing, *)
(* evicts idle items if they do not fit, creates, and waits for the error  *)
(* scopes.  An item is charged from its creation to its destruction,       *)
(* wherever it is.  prep[t] holds the locals of thread t's prepare or      *)
(* collect; held[t] the items they have in hand.                           *)
(***************************************************************************)
EXTENDS ResourcePool, FiniteSetsExt

CONSTANTS
  Staging,   \* the keys of staging buffers: mapped when idle
  Readback,  \* the keys that are never reused
  Plans,     \* the descriptor lists prepare is called with
  Limits     \* the allowances of set_limit: {n}, or {} for None

ASSUME ResourcesAssumption ==
  /\ \A l \in Limits : l \subseteq Nat /\ Cardinality(l) <= 1
  /\ Staging \cap Readback = {}
  /\ Plans \subseteq Seq(Keys)
  /\ IsFiniteSet(Items) /\ IsFiniteSet(Threads)

VARIABLES
  limit, reserved, allocated,       \* MemoryUsage
  loss,                             \* the device is lost
  live,                             \* accepted items in the host's hands
  healthy,                          \* items whose Owned has its healthy flag
  mapped,                           \* staging items that are mapped
  remap,                            \* the remaps list: each item's signal
  prep                              \* each thread's prepare or collect

ledger == <<limit, reserved, allocated>>
flags == <<live, healthy, mapped, remap>>
vars == <<idle, bytes, budget, held, call, limit, reserved, allocated, loss,
          live, healthy, mapped, remap, prep>>

BytesOf(S) == MapThenSumSet(Bytes, S)
Remapping == {r \in Items : remap[r] # "none"}

(* Every allocation there is. *)
Allocated == Existing \cup live \cup Remapping

(* todo are the descriptors to look up, misses those to create, remaining  *)
(* what the reservation still holds, oks the mapped items of a collect.    *)
NotPreparing == [phase |-> "none", todo |-> <<>>, misses |-> <<>>, remaining |-> 0, oks |-> {}]

Phases == {"none", "take", "again", "create", "verdict", "unwind", "harvest"}

Preparations == [phase : Phases, todo : Seq(Keys), misses : Seq(Keys), remaining : Nat, oks : SUBSET Items]

Quiet(t) == prep[t] = NotPreparing /\ Free(t)
At(t, p) == prep[t].phase = p /\ Free(t)
Goto(t, p) == prep' = [prep EXCEPT ![t].phase = p]

Init ==
  /\ PoolInit
  /\ budget = 0
  /\ limit = {} /\ reserved = 0 /\ allocated = 0
  /\ loss = FALSE
  /\ live = {} /\ healthy = {} /\ mapped = {}
  /\ remap = [r \in Items |-> "none"]
  /\ prep = [t \in Threads |-> NotPreparing]

-----------------------------------------------------------------------------
(* The ledger: the operations of MemoryBudget and Reservation.             *)

Used == reserved + allocated
ReservedIn(p) == MapThenSumSet(LAMBDA t : p[t].remaining, Threads)
TotalSize(ks) == FoldLeft(LAMBDA n, k : n + SizeOf[k], 0, ks)
Missing(t) == TotalSize(prep[t].misses)

(* Faulty variant: what others have reserved and not yet created does not  *)
(* count.                                                                  *)
AdmitsIgnoringReserved(n) == n = 0 \/ \E l \in limit : allocated + n <= l

(* reserve grants nothing at all to anybody, and more only within a limit. *)
Admits(n) == n = 0 \/ \E l \in limit : Used + n <= l

Grant(t, n) ==
  /\ Admits(n)
  /\ reserved' = reserved + n
  /\ prep' = [prep EXCEPT ![t].remaining = n, ![t].phase = "create"]
  /\ UNCHANGED <<limit, allocated>>

(* Faulty variant: only what was charged is given back. *)
KeepReservation(t) == UNCHANGED <<limit, reserved, allocated>>

(* Reservation::drop returns what was not charged. *)
DropReservation(t) ==
  /\ reserved' = reserved - prep[t].remaining
  /\ UNCHANGED <<limit, allocated>>

SetLimit(l) ==
  /\ limit' = l
  /\ UNCHANGED <<poolVars, reserved, allocated, loss, flags, prep>>

-----------------------------------------------------------------------------
(* prepare *)

PrepareStarts(t, plan) ==
  /\ Quiet(t)
  /\ ~loss
  /\ prep' = [prep EXCEPT ![t] = [NotPreparing EXCEPT !.phase = "take", !.todo = plan]]
  /\ UNCHANGED <<poolVars, ledger, loss, flags>>

(* Each descriptor is served by the pool, in a critical section of its     *)
(* own, or missing.                                                        *)
TakeIdle(t) ==
  /\ At(t, "take")
  /\ prep[t].todo # <<>>
  /\ Head(prep[t].todo) \notin Readback
  /\ Take(t, Head(prep[t].todo))
  /\ healthy' = healthy \cup held'[t]
  /\ prep' = [prep EXCEPT ![t].todo = Tail(@)]
  /\ UNCHANGED <<ledger, loss, live, mapped, remap>>

TakeMisses(t) ==
  /\ At(t, "take")
  /\ prep[t].todo # <<>>
  /\ LET k == Head(prep[t].todo)
     IN /\ k \in Readback \/ Positions(k) = {}
        /\ prep' = [prep EXCEPT ![t].todo = Tail(@), ![t].misses = Append(@, k)]
  /\ UNCHANGED <<poolVars, ledger, loss, flags>>

(* All misses are reserved at once, before anything is created. *)
ReserveGranted(t) ==
  /\ \/ At(t, "take") /\ prep[t].todo = <<>>
     \/ At(t, "again")
  /\ Grant(t, Missing(t))
  /\ UNCHANGED <<poolVars, loss, flags>>

(* Faulty variant: the request is left out of what has to be freed.        *)
ShortfallOfUsed(t) ==
  LET l == CHOOSE l \in limit : TRUE
  IN IF Used > l THEN Used - l ELSE 0

(* How much idle memory must go to make room, saturating at 0. *)
Shortfall(t) ==
  LET l == CHOOSE l \in limit : TRUE
  IN IF Used + Missing(t) > l THEN Used + Missing(t) - l ELSE 0

(* Over the limit: evict other idle items, then try once more. *)
ReserveEvicts(t) ==
  /\ At(t, "take")
  /\ prep[t].todo = <<>>
  /\ ~Admits(Missing(t))
  /\ limit # {}
  /\ EvictStarts(t, Shortfall(t))
  /\ Goto(t, "again")
  /\ UNCHANGED <<ledger, loss, flags>>

(* No limit, or still over it: the batch is dropped. *)
ReserveFails(t) ==
  /\ \/ At(t, "take") /\ prep[t].todo = <<>> /\ limit = {}
     \/ At(t, "again")
  /\ ~Admits(Missing(t))
  /\ Goto(t, "unwind")
  /\ UNCHANGED <<poolVars, ledger, loss, flags>>

(* A missing item is created under the scopes and charged; new staging     *)
(* buffers are mapped at creation.  Nothing new is healthy yet.            *)
Create(t, r) ==
  /\ At(t, "create")
  /\ prep[t].misses # <<>>
  /\ r \notin Allocated
  /\ KeyOf[r] = Head(prep[t].misses)
  /\ held' = [held EXCEPT ![t] = @ \cup {r}]
  /\ reserved' = reserved - Bytes(r)
  /\ allocated' = allocated + Bytes(r)
  /\ mapped' = IF KeyOf[r] \in Staging THEN mapped \cup {r} ELSE mapped
  /\ healthy' = healthy \ {r}
  /\ prep' = [prep EXCEPT ![t].misses = Tail(@), ![t].remaining = @ - Bytes(r)]
  /\ UNCHANGED <<idle, bytes, budget, call, limit, loss, live, remap>>

(* Creation is over, or the driver panicked in it: the closure's           *)
(* reservation is dropped.                                                 *)
Created(t) ==
  /\ At(t, "create")
  /\ \/ prep[t].misses = <<>> /\ prep' = [prep EXCEPT ![t].phase = "verdict", ![t].remaining = 0]
     \/ prep[t].misses # <<>>
        /\ prep' = [prep EXCEPT ![t].phase = "unwind", ![t].misses = <<>>, ![t].remaining = 0]
  /\ DropReservation(t)
  /\ UNCHANGED <<poolVars, loss, flags>>

(* The scopes accepted all of the batch: it goes to the host. *)
Accepted(t) ==
  /\ At(t, "verdict")
  /\ live' = live \cup held[t]
  /\ healthy' = healthy \cup held[t]
  /\ held' = [held EXCEPT ![t] = {}]
  /\ prep' = [prep EXCEPT ![t] = NotPreparing]
  /\ UNCHANGED <<idle, bytes, budget, call, ledger, loss, mapped, remap>>

(* The scopes rejected it, or the Prepared is dropped unpolled. *)
Rejected(t) ==
  /\ At(t, "verdict")
  /\ Goto(t, "unwind")
  /\ UNCHANGED <<poolVars, ledger, loss, flags>>

-----------------------------------------------------------------------------
(* Owned::drop *)

(* Faulty variant: the flag of an owner whose work failed is not asked. *)
ReusableIfKey(r) == KeyOf[r] \notin Readback

Reusable(r) == r \in healthy /\ KeyOf[r] \notin Readback

(* What may go back: the idle budget and the loss are read with no lock    *)
(* held.                                                                   *)
Returnable(r) == Reusable(r) /\ Bytes(r) <= budget /\ budget # 0 /\ ~loss

NeedsRemap(r) == KeyOf[r] \in Staging /\ r \notin mapped

(* The last owner of r goes.                                               *)
DropOwned(t, r) ==
  \/ /\ ~Returnable(r)
     /\ call' = [call EXCEPT ![t].dying = {r}]
     /\ held' = [held EXCEPT ![t] = @ \ {r}]
     /\ UNCHANGED <<idle, bytes, budget, remap>>
  \/ /\ Returnable(r) /\ NeedsRemap(r)
     /\ remap' = [remap EXCEPT ![r] = "waiting"]
     /\ held' = [held EXCEPT ![t] = @ \ {r}]
     /\ UNCHANGED <<idle, bytes, budget, call>>
  \/ /\ Returnable(r) /\ ~NeedsRemap(r)
     /\ PutStarts(t, r)
     /\ UNCHANGED remap

(* The host or a completed lease drops an item it was given. *)
DropLive(t, r) ==
  /\ Quiet(t)
  /\ r \in live
  /\ DropOwned(t, r)
  /\ live' = live \ {r}
  /\ UNCHANGED <<ledger, loss, healthy, mapped, prep>>

(* A failed prepare drops its batch, one owner after the other. *)
DropBatch(t) ==
  /\ At(t, "unwind")
  /\ \/ /\ held[t] = {}
        /\ prep' = [prep EXCEPT ![t] = NotPreparing]
        /\ UNCHANGED <<poolVars, remap>>
     \/ /\ \E r \in held[t] : DropOwned(t, r)
        /\ UNCHANGED prep
  /\ UNCHANGED <<ledger, loss, live, healthy, mapped>>

-----------------------------------------------------------------------------
(* The remaps, and Resources::collect *)

(* The callback of map_async, or its drop: the device is lost, or the      *)
(* mapping failed.                                                         *)
MapSettles(r) ==
  /\ remap[r] = "waiting"
  /\ \E s \in {"err"} \cup (IF loss THEN {} ELSE {"ok"}) : remap' = [remap EXCEPT ![r] = s]
  /\ UNCHANGED <<poolVars, ledger, loss, live, healthy, mapped, prep>>

Signalled == {r \in Items : remap[r] \in {"ok", "err"}}

(* Faulty variant: the signals are taken and the entries stay listed.      *)
CollectKeeps(t) ==
  /\ Quiet(t)
  /\ Signalled # {}
  /\ held' = [held EXCEPT ![t] = Signalled]
  /\ prep' = [prep EXCEPT ![t] =
       [NotPreparing EXCEPT !.phase = "harvest",
                            !.oks = IF loss THEN {} ELSE {r \in Items : remap[r] = "ok"}]]
  /\ remap' = [r \in Items |-> IF r \in Signalled THEN "waiting" ELSE remap[r]]
  /\ UNCHANGED <<idle, bytes, budget, call, ledger, loss, live, healthy, mapped>>

(* Everything that has a signal leaves the list under its lock; of those,  *)
(* the mapped ones return unless the device is lost by then.               *)
CollectStarts(t) ==
  /\ Quiet(t)
  /\ Signalled # {}
  /\ held' = [held EXCEPT ![t] = Signalled]
  /\ prep' = [prep EXCEPT ![t] =
       [NotPreparing EXCEPT !.phase = "harvest",
                            !.oks = IF loss THEN {} ELSE {r \in Items : remap[r] = "ok"}]]
  /\ remap' = [r \in Items |-> IF r \in Signalled THEN "none" ELSE remap[r]]
  /\ UNCHANGED <<idle, bytes, budget, call, ledger, loss, live, healthy, mapped>>

Harvest(t) ==
  /\ At(t, "harvest")
  /\ \/ /\ held[t] = {}
        /\ prep' = [prep EXCEPT ![t] = NotPreparing]
        /\ UNCHANGED <<poolVars, mapped>>
     \/ \E r \in held[t] \cap prep[t].oks :
          /\ mapped' = mapped \cup {r}
          /\ PutStarts(t, r)
          /\ UNCHANGED prep
     \/ \E r \in held[t] \ prep[t].oks :
          /\ call' = [call EXCEPT ![t].dying = {r}]
          /\ held' = [held EXCEPT ![t] = @ \ {r}]
          /\ UNCHANGED <<idle, bytes, budget, mapped, prep>>
  /\ UNCHANGED <<ledger, loss, live, healthy, remap>>

-----------------------------------------------------------------------------
(* The pool's steps; what it destroys gives its charge back. *)

PoolSteps(t) ==
  /\ PutEvicts(t) \/ PutEnds(t) \/ Evicts(t) \/ EvictEnds(t)
  /\ UNCHANGED <<ledger, loss, flags, prep>>

Destroy(t) ==
  /\ DestroyEvicted(t)
  /\ allocated' = allocated - BytesOf(call[t].dying)
  /\ mapped' = mapped \ call[t].dying
  /\ healthy' = healthy \ call[t].dying
  /\ UNCHANGED <<limit, reserved, loss, live, remap, prep>>

SetIdleBudget(t, b) ==
  /\ Quiet(t)
  /\ SetBudget(t, b)
  /\ UNCHANGED <<ledger, loss, flags, prep>>

(* Buffer::upload fills and unmaps a mapped staging buffer. *)
Upload(r) ==
  /\ r \in live
  /\ KeyOf[r] \in Staging
  /\ r \in mapped
  /\ mapped' = mapped \ {r}
  /\ UNCHANGED <<poolVars, ledger, loss, live, healthy, remap, prep>>

(* A lease that completed with an error taints what it kept. *)
Taint(r) ==
  /\ r \in live
  /\ healthy' = healthy \ {r}
  /\ UNCHANGED <<poolVars, ledger, loss, live, mapped, remap, prep>>

Lose ==
  /\ ~loss
  /\ loss' = TRUE
  /\ UNCHANGED <<poolVars, ledger, flags, prep>>

ThreadStep(t) ==
  \/ TakeIdle(t) \/ TakeMisses(t) \/ ReserveGranted(t) \/ ReserveEvicts(t) \/ ReserveFails(t)
  \/ \E r \in Items : Create(t, r)
  \/ Created(t) \/ Accepted(t) \/ Rejected(t) \/ DropBatch(t) \/ Harvest(t)
  \/ PoolSteps(t) \/ Destroy(t)

Next ==
  \/ \E t \in Threads :
       \/ ThreadStep(t)
       \/ \E plan \in Plans : PrepareStarts(t, plan)
       \/ \E r \in Items : DropLive(t, r)
       \/ CollectStarts(t)
       \/ \E b \in Budgets : SetIdleBudget(t, b)
  \/ \E r \in Items : MapSettles(r) \/ Upload(r) \/ Taint(r)
  \/ \E l \in Limits : SetLimit(l)
  \/ Lose

Spec == Init /\ [][Next]_vars

-----------------------------------------------------------------------------
TypeOK ==
  /\ PoolTypeOK
  /\ limit \in Limits \cup {{}} /\ reserved \in Nat /\ allocated \in Nat
  /\ loss \in BOOLEAN
  /\ live \subseteq Items /\ healthy \subseteq Items /\ mapped \subseteq Items
  /\ remap \in [Items -> {"none", "waiting", "ok", "err"}]
  /\ prep \in [Threads -> Preparations]

(* The ledger says what there is: whatever fails, and wherever an item is  *)
(* (lent, idle, being remapped, evicted and not yet destroyed), it is      *)
(* charged once; what is reserved is what unfinished prepares hold, enough *)
(* for all they have still to create.                                      *)
LedgerBalances ==
  /\ \A t \in Threads : prep[t].phase = "create" => prep[t].remaining = Missing(t)
  /\ reserved = ReservedIn(prep)
  /\ allocated = BytesOf(Allocated)

(* Use grows only within the limit of that moment: two prepares never get  *)
(* the same headroom.                                                      *)
GrowsWithinLimit ==
  [][Used' > Used => \E l \in limit : Used' <= l]_vars

(* What the pool lends was accepted by its error scopes, belongs to no     *)
(* failed work, may be reused, and is mapped if its taker must write it:   *)
(* "Failed or indeterminate work must not return an allocation to the      *)
(* reusable pool".                                                         *)
IdleIsReusable ==
  \A r \in ToSet(idle) :
    /\ r \in healthy
    /\ KeyOf[r] \notin Readback
    /\ KeyOf[r] \in Staging => r \in mapped

(* An item is in one place only, however its owners, the remap list and    *)
(* the pool hand it on.  Checked with the types.                           *)
OnePlace ==
  /\ TypeOK
  /\ OneOwner
  /\ live \cap (Existing \cup Remapping) = {}
  /\ Remapping \cap Existing = {}
=============================================================================
