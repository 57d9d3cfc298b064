----------------------------- MODULE VramWatch -----------------------------
(***************************************************************************)
(* The live figures of the driver, and the watch that rations them:        *)
(* src/vram.rs.  One VramWatch is shared by the watching threads; its      *)
(* query runs under its lock, and may unwind.                              *)
(*                                                                         *)
(* A machine's `gpus` are the wgpu adapters of the process: the card, the  *)
(* handle wgpu compares (unique within one instance only), the backend and *)
(* what its driver offers: Vulkan 1.1, a valid LUID, the budget extension. *)
(* Time passes in ticks; an age is counted up to Every, where it is old.   *)
(***************************************************************************)
EXTENDS Cards

CONSTANTS
  Every,       \* the interval of the watch
  MaxPanics    \* bound: how often a query unwinds

ASSUME VramWatchAssumption ==
  /\ Every \in Nat \ {0} /\ MaxPanics \in Nat
  /\ \A m \in Machines :
       /\ 0 \notin DOMAIN m.gpus    \* 0 is no adapter
       /\ \A g \in DOMAIN m.gpus : m.gpus[g].card \in DOMAIN m.cards

VARIABLES
  watch,     \* WatchState: device, budget, the age of the reading, failing
  holder,    \* the thread that holds its lock, as an option
  phase,     \* where each watching thread is
  asking,    \* the adapter it asks about
  given,     \* what the last call returned, and to whom
  origin,    \* history: the adapter, the age and the value of the last reading
  torn,      \* history: the reading is another device's, a query for this one unwound
  panics

watchVars == <<watch, holder, phase, asking, given, origin, torn, panics>>

NotRead == [gpu |-> 0, age |-> 0, budget |-> None]
NotGiven == [gpu |-> 0, budget |-> None, from |-> NotRead, torn |-> FALSE]

WatchInit ==
  /\ watch = [device |-> None, budget |-> None, age |-> None, failing |-> FALSE]
  /\ holder = None
  /\ phase = [t \in Threads |-> "idle"]
  /\ asking = [t \in Threads |-> 0]
  /\ given = NotGiven
  /\ origin = NotRead
  /\ torn = FALSE
  /\ panics = 0

Gpu(g) == machine.gpus[g]

-----------------------------------------------------------------------------
(* Who an adapter is, and what its driver says. *)

(* phys_id: the LUID the adapter had when wgpu enumerated it, the UUID of  *)
(* a Vulkan device whose driver has no valid LUID, or nothing.             *)
PhysId(g) ==
  LET a == Gpu(g)
      hasIds == machine.os \in {"windows", "linux"} /\ a.api = "vulkan" /\ a.vk11
  IN IF (machine.os = "windows" /\ a.api = "dx12") \/ (hasIds /\ a.luid)
     THEN [kind |-> "Luid", id |-> <<a.card, 0>>]
     ELSE IF hasIds
     THEN [kind |-> "Uuid", id |-> <<a.card>>]
     ELSE [kind |-> "Unknown", id |-> <<>>]

(* Faulty variant: the handle alone is compared. *)
KeyOfHandle(g) == [handle |-> Gpu(g).handle, phys |-> 0]

AdapterKey(g) == [handle |-> Gpu(g).handle, phys |-> PhysId(g)]

(* VK_EXT_memory_budget may be asked for, and is there. *)
BudgetChainable(g) == Gpu(g).vk11 /\ Gpu(g).ext

(* The largest device-local heap, the first of equals. *)
LocalHeap(c) ==
  LET heaps == Desc(c).heaps
      local == {h \in DOMAIN heaps : heaps[h].local}
      largest == {h \in local : \A k \in local : heaps[k].size <= heaps[h].size}
  IN IF local = {} THEN None ELSE Some(heaps[Min(largest)].size)

(* VramQuerier::query: the adapter that has the LUID now, the largest heap *)
(* of the Vulkan device, or the working set of the Metal device.           *)
Query(g) ==
  LET c == Gpu(g).card
      Left(size) == [used |-> Desc(c).own, budget |-> Minus(size, card[c].used)]
  IN CASE machine.os = "windows" ->
            LET found == {k \in Cards : "dxgi" \in up /\ card[k].there /\ PhysId(g).kind = "Luid"
                                        /\ card[k].luid = PhysId(g).id}
            IN IF found = {} THEN None
               ELSE LET k == Min(found) IN Some([used |-> Desc(k).own, budget |-> Minus(Size(k), card[k].used)])
       [] machine.os = "linux" ->
            IF Gpu(g).api # "vulkan" \/ ~BudgetChainable(g) \/ ~card[c].there \/ LocalHeap(c) = None THEN None
            ELSE LET left == Left(LocalHeap(c)[1]) IN IF left.budget = 0 THEN None ELSE Some(left)
       [] machine.os = "macos" ->
            IF card[c].there THEN Some([used |-> Desc(c).own, budget |-> Desc(c).workingSet]) ELSE None

BudgetFromContext(g) == LET info == Query(g) IN IF info = None THEN None ELSE Some(info[1].budget)

(* live_headroom of budget.rs *)
LiveHeadroom(g) ==
  LET info == Query(g) IN IF info = None THEN None ELSE Some(Minus(info[1].budget, info[1].used))

-----------------------------------------------------------------------------
(* VramWatch::budget_with. *)

WatchAsk(t) ==
  /\ phase[t] = "idle"
  /\ phase' = [phase EXCEPT ![t] = "lock"]
  /\ \E g \in DOMAIN machine.gpus : asking' = [asking EXCEPT ![t] = g]
  /\ UNCHANGED <<watch, holder, given, origin, torn, panics>>

Same(t) == watch.device = Some(AdapterKey(asking[t]))
Recent == watch.age # None /\ watch.age[1] < Every

Gives(t, budget, from, isTorn) ==
  /\ given' = [gpu |-> asking[t], budget |-> budget, from |-> from, torn |-> isTorn]
  /\ phase' = [phase EXCEPT ![t] = "idle"]
  /\ asking' = [asking EXCEPT ![t] = 0]

(* The cached reading is of this device and recent enough. *)
Hit(t) ==
  /\ phase[t] = "lock"
  /\ holder = None
  /\ Same(t) /\ Recent
  /\ Gives(t, watch.budget, origin, torn)
  /\ UNCHANGED <<watch, holder, origin, torn, panics>>

(* It is not: the watch is the new device's from here on, and the query    *)
(* runs with the lock held.                                                *)
Miss(t) ==
  /\ phase[t] = "lock"
  /\ holder = None
  /\ ~(Same(t) /\ Recent)
  /\ holder' = Some(t)
  /\ watch' = IF Same(t) THEN watch
              ELSE [watch EXCEPT !.device = Some(AdapterKey(asking[t])), !.failing = FALSE]
  /\ phase' = [phase EXCEPT ![t] = "query"]
  /\ UNCHANGED <<asking, given, origin, torn, panics>>

(* The query returns. A failed one is kept as long as any other. *)
Reads(t) ==
  /\ phase[t] = "query"
  /\ LET budget == BudgetFromContext(asking[t])
     IN /\ watch' = [watch EXCEPT !.budget = budget, !.age = Some(0), !.failing = (budget = None)]
        /\ origin' = [gpu |-> asking[t], age |-> 0, budget |-> budget]
        /\ Gives(t, budget, origin', FALSE)
  /\ torn' = FALSE
  /\ holder' = None
  /\ UNCHANGED panics

(* The query unwinds. The lock is poisoned, which the next caller ignores. *)
Unwinds(t) ==
  /\ phase[t] = "query"
  /\ panics < MaxPanics
  /\ panics' = panics + 1
  /\ holder' = None
  /\ phase' = [phase EXCEPT ![t] = "idle"]
  /\ asking' = [asking EXCEPT ![t] = 0]
  /\ torn' = (origin.gpu # 0 /\ AdapterKey(origin.gpu) # AdapterKey(asking[t]))
  /\ UNCHANGED <<watch, given, origin>>

Tick ==
  /\ watch.age # None
  /\ watch.age[1] < Every \/ origin.age < Every
  /\ watch' = [watch EXCEPT !.age = Some(AtMost(watch.age[1] + 1, Every))]
  /\ origin' = [origin EXCEPT !.age = AtMost(origin.age + 1, Every)]
  /\ UNCHANGED <<holder, phase, asking, given, torn, panics>>

WatchStep(t) == Hit(t) \/ Miss(t) \/ Reads(t) \/ Unwinds(t)
=============================================================================
