-------------------------- MODULE CardMemoryProofs --------------------------
(***************************************************************************)
(* Theorems about CardMemory for any threads, machines, slots, intervals   *)
(* and bounds: the watch answers with its last reading, of the card it was *)
(* asked about unless a query unwound, what exists of a shared buffer is   *)
(* exactly what its view holds, whose usage and sensors a reading may      *)
(* have, and a plan stays within what there was.                           *)
(***************************************************************************)
EXTENDS CardMemory, FiniteSetTheorems, WellFoundedInduction, TLAPS

-----------------------------------------------------------------------------
(* Which variables a step leaves alone. *)

WatchMoves ==
  \/ UNCHANGED watchVars
  \/ Tick
  \/ \E t \in machine.watchers : WatchAsk(t) \/ WatchStep(t)

SharedMoves ==
  \/ UNCHANGED sharedVars
  \/ OwnerStep
  \/ \E t \in machine.sharers : Export(t) \/ Import(t) \/ SharingStep(t)

(* The machine is built once; a step is one of the watch, of the shared    *)
(* buffers, or of neither.                                                 *)
LEMMA StepMoves ==
  ASSUME [Next]_vars
  PROVE  machine' = machine /\ WatchMoves /\ SharedMoves
<1>1. CASE Changes /\ UNCHANGED <<statsVars, watchVars, sharedVars, plan>>
  BY <1>1 DEF Changes, Load, Leave, Return, Falter, Change, WatchMoves, SharedMoves
<1>2. CASE \E t \in Threads : Runs(t)
  BY <1>2 DEF Runs, world, WatchMoves, SharedMoves
<1>3. CASE \E t \in machine.planners : AskMemory(t) /\ UNCHANGED <<world, watchVars, sharedVars>>
  BY <1>3 DEF world, WatchMoves, SharedMoves
<1>4. CASE \E t \in machine.planners : Plan(t) /\ UNCHANGED <<world, watchVars, sharedVars>>
  BY <1>4 DEF world, WatchMoves, SharedMoves
<1>5. CASE \E t \in machine.watchers :
             (WatchAsk(t) \/ WatchStep(t)) /\ UNCHANGED <<world, statsVars, sharedVars, plan>>
  BY <1>5 DEF world, WatchMoves, SharedMoves
<1>6. CASE Tick /\ UNCHANGED <<world, statsVars, sharedVars, plan>>
  BY <1>6 DEF world, WatchMoves, SharedMoves
<1>7. CASE \E t \in machine.sharers :
             (Export(t) \/ Import(t) \/ SharingStep(t)) /\ UNCHANGED <<world, statsVars, watchVars, plan>>
  BY <1>7 DEF world, WatchMoves, SharedMoves
<1>8. CASE OwnerStep /\ UNCHANGED <<world, statsVars, watchVars, plan>>
  BY <1>8 DEF world, WatchMoves, SharedMoves
<1>9. CASE UNCHANGED vars
  BY <1>9 DEF vars, world, WatchMoves, SharedMoves
<1> QED
  BY <1>1, <1>2, <1>3, <1>4, <1>5, <1>6, <1>7, <1>8, <1>9 DEF Next

-----------------------------------------------------------------------------
(* The watch. *)

(* Every adapter, thread and age is one there is. *)
WatchTypes ==
  /\ machine \in Machines
  /\ holder \in {None} \cup {Some(t) : t \in Threads}
  /\ phase \in [Threads -> {"idle", "lock", "query"}]
  /\ asking \in [Threads -> {0} \cup DOMAIN machine.gpus]
  /\ watch = [device |-> watch.device, budget |-> watch.budget, age |-> watch.age, failing |-> watch.failing]
  /\ origin = [gpu |-> origin.gpu, age |-> origin.age, budget |-> origin.budget]
  /\ origin.age \in 0..Every

(* What the watch holds is its last reading, whatever unwound since.       *)
HoldsLast ==
  /\ watch.budget = origin.budget
  /\ watch.age = IF origin.gpu = 0 THEN None ELSE Some(origin.age)

(* Whose name is on it: of the last reading, as long as no query for       *)
(* another device unwound; and of the adapter asked about while a query    *)
(* runs under the lock.                                                    *)
NamedAfterLast == (holder = None /\ ~torn /\ origin.gpu # 0) => watch.device = Some(AdapterKey(origin.gpu))
QueryIsLocked ==
  \A t \in Threads : phase[t] = "query" => holder = Some(t) /\ watch.device = Some(AdapterKey(asking[t]))
(* A call asks about an adapter, and a locked watch is being queried. *)
AsksForOne == \A t \in Threads : phase[t] # "idle" => asking[t] # 0
HolderQueries == \A t \in Threads : holder = Some(t) => phase[t] = "query"

WInv == WatchTypes /\ HoldsLast /\ NamedAfterLast /\ QueryIsLocked /\ HolderQueries /\ AsksForOne /\ FreshForItsCard

(* Adapters with one key and a physical identity are one card. *)
LEMMA KeyIsCard ==
  ASSUME NEW a, NEW b, AdapterKey(a) = AdapterKey(b), PhysId(b).kind # "Unknown"
  PROVE  Gpu(a).card = Gpu(b).card
<1>1. PhysId(a) = PhysId(b)
  BY DEF AdapterKey
<1>2. CASE PhysId(b).kind = "Luid"
  <2>1. PhysId(a).id = <<Gpu(a).card, 0>> /\ PhysId(b).id = <<Gpu(b).card, 0>>
    BY <1>1, <1>2 DEF PhysId
  <2> QED
    BY <1>1, <2>1
<1>3. CASE PhysId(b).kind = "Uuid"
  <2>1. PhysId(a).id = <<Gpu(a).card>> /\ PhysId(b).id = <<Gpu(b).card>>
    BY <1>1, <1>3 DEF PhysId
  <2> QED
    BY <1>1, <2>1
<1> QED
  BY <1>2, <1>3 DEF PhysId

LEMMA WatchStarts ==
  ASSUME Init
  PROVE  WInv
<1>1. 0 \in 0..Every
  BY VramWatchAssumption
<1>2. WatchTypes
  BY <1>1 DEF Init, CardsInit, WatchInit, WatchTypes, NotRead, None
<1> QED
  BY <1>2 DEF Init, WatchInit, WInv, HoldsLast, NamedAfterLast, QueryIsLocked, HolderQueries,
              AsksForOne, FreshForItsCard, NotRead, NotGiven, None, Some

(* Every step of the watch keeps what WInv says of it. *)
LEMMA WatchKeeps ==
  ASSUME WInv, WatchMoves, machine' = machine
  PROVE  WInv'
<1> USE DEF WInv
<1>0. machine.watchers \subseteq Threads
  BY CardMemoryAssumption DEF WatchTypes
<1>1. CASE UNCHANGED watchVars
  BY <1>1 DEF watchVars, WatchTypes, HoldsLast, NamedAfterLast, QueryIsLocked, HolderQueries, AsksForOne,
              FreshForItsCard, AdapterKey, PhysId, Gpu
<1>2. CASE Tick
  <2>1. origin.gpu # 0 /\ watch.age[1] = origin.age
    BY <1>2 DEF Tick, HoldsLast, None, Some
  <2>2. /\ origin'.gpu = origin.gpu /\ origin'.budget = origin.budget
        /\ origin'.age = AtMost(origin.age + 1, Every)
        /\ watch'.device = watch.device /\ watch'.budget = watch.budget
        /\ watch'.age = Some(AtMost(origin.age + 1, Every))
    BY <1>2, <2>1 DEF Tick
  <2>3. origin'.age \in 0..Every
    BY <2>2, VramWatchAssumption DEF WatchTypes, AtMost
  <2> QED
    BY <1>2, <2>1, <2>2, <2>3 DEF Tick, WatchTypes, HoldsLast, NamedAfterLast, QueryIsLocked, HolderQueries,
       AsksForOne, FreshForItsCard, AdapterKey, PhysId, Gpu, Some
<1>3. ASSUME NEW t \in Threads, WatchAsk(t)
      PROVE  WInv'
  <2>1. PICK g \in DOMAIN machine.gpus : asking' = [asking EXCEPT ![t] = g]
    BY <1>3 DEF WatchAsk
  <2>2. /\ phase' = [phase EXCEPT ![t] = "lock"] /\ phase[t] = "idle"
        /\ UNCHANGED <<watch, holder, given, origin, torn>>
    BY <1>3 DEF WatchAsk
  <2>3. WatchTypes'
    BY <2>1, <2>2 DEF WatchTypes
  <2>4. \A u \in Threads : phase'[u] = "query" => phase[u] = "query" /\ asking'[u] = asking[u]
    BY <2>1, <2>2 DEF WatchTypes
  <2>5. QueryIsLocked'
    BY <2>2, <2>4 DEF QueryIsLocked, AdapterKey, PhysId, Gpu
  <2>6. HolderQueries'
    BY <2>2 DEF WatchTypes, HolderQueries
  <2>7. AsksForOne'
    <3>1. g # 0
      BY VramWatchAssumption DEF WatchTypes
    <3> QED
      BY <2>1, <2>2, <3>1 DEF WatchTypes, AsksForOne
  <2>8. HoldsLast' /\ NamedAfterLast' /\ FreshForItsCard'
    BY <2>2 DEF HoldsLast, NamedAfterLast, FreshForItsCard, AdapterKey, PhysId, Gpu
  <2> QED
    BY <2>3, <2>5, <2>6, <2>7, <2>8
<1>4. ASSUME NEW t \in Threads, Hit(t)
      PROVE  WInv'
  <2>1. /\ holder = None /\ Same(t) /\ Recent /\ phase[t] = "lock"
        /\ given' = [gpu |-> asking[t], budget |-> watch.budget, from |-> origin, torn |-> torn]
        /\ phase' = [phase EXCEPT ![t] = "idle"] /\ asking' = [asking EXCEPT ![t] = 0]
        /\ UNCHANGED <<watch, holder, origin, torn>>
    BY <1>4 DEF Hit, Gives
  <2>2. origin.gpu # 0 /\ origin.age < Every /\ watch.budget = origin.budget
    BY <2>1 DEF Recent, HoldsLast, None, Some
  <2>3. ~torn => AdapterKey(asking[t]) = AdapterKey(origin.gpu)
    BY <2>1, <2>2 DEF Same, NamedAfterLast, Some
  <2>4. (~torn /\ PhysId(asking[t]).kind # "Unknown") => Gpu(origin.gpu).card = Gpu(asking[t]).card
    BY <2>3, KeyIsCard
  <2>5. FreshForItsCard'
    <3>1. /\ given'.gpu = asking[t] /\ given'.budget = watch.budget
          /\ given'.from = origin /\ given'.torn = torn
      BY <2>1
    <3> QED
      BY <2>2, <2>3, <2>4, <3>1 DEF FreshForItsCard, AdapterKey, PhysId, Gpu
  <2>6. WatchTypes'
    BY <2>1 DEF WatchTypes
  <2>7. \A u \in Threads : phase'[u] = "query" => phase[u] = "query" /\ asking'[u] = asking[u]
    BY <2>1 DEF WatchTypes
  <2>8. QueryIsLocked' /\ HolderQueries'
    BY <2>1, <2>7 DEF QueryIsLocked, HolderQueries, WatchTypes, None, Some
  <2>9. AsksForOne'
    BY <2>1 DEF WatchTypes, AsksForOne
  <2>10. HoldsLast' /\ NamedAfterLast'
    BY <2>1 DEF HoldsLast, NamedAfterLast, AdapterKey, PhysId, Gpu
  <2> QED
    BY <2>5, <2>6, <2>8, <2>9, <2>10
<1>5. ASSUME NEW t \in Threads, Miss(t)
      PROVE  WInv'
  <2>1. /\ phase[t] = "lock" /\ holder = None /\ holder' = Some(t)
        /\ phase' = [phase EXCEPT ![t] = "query"]
        /\ UNCHANGED <<asking, given, origin, torn>>
    BY <1>5 DEF Miss
  <2>2. watch'.device = Some(AdapterKey(asking[t])) /\ watch'.budget = watch.budget /\ watch'.age = watch.age
    BY <1>5 DEF Miss, Same, WatchTypes
  <2>3. WatchTypes'
    <3>1. watch' = [device |-> watch'.device, budget |-> watch'.budget, age |-> watch'.age, failing |-> watch'.failing]
      BY <1>5 DEF Miss, WatchTypes
    <3> QED
      BY <2>1, <3>1 DEF WatchTypes
  <2>4. \A u \in Threads : phase[u] # "query"
    BY <2>1 DEF QueryIsLocked, None, Some
  <2>5. \A u \in Threads : phase'[u] = "query" <=> u = t
    BY <2>1, <2>4 DEF WatchTypes
  <2>6. QueryIsLocked' /\ HolderQueries'
    <3>1. \A g : AdapterKey(g)' = AdapterKey(g)
      BY DEF AdapterKey, PhysId, Gpu
    <3>2. QueryIsLocked'
      BY <2>1, <2>2, <2>5, <3>1 DEF QueryIsLocked
    <3>3. HolderQueries'
      BY <2>1, <2>5 DEF HolderQueries, Some
    <3> QED
      BY <3>2, <3>3
  <2>7. NamedAfterLast'
    BY <2>1 DEF NamedAfterLast, None, Some
  <2>8. HoldsLast'
    BY <2>1, <2>2 DEF HoldsLast
  <2>9. FreshForItsCard'
    BY <2>1 DEF FreshForItsCard, AdapterKey, PhysId, Gpu
  <2>10. AsksForOne'
    BY <2>1 DEF WatchTypes, AsksForOne
  <2> QED
    BY <2>3, <2>6, <2>7, <2>8, <2>9, <2>10
<1>6. ASSUME NEW t \in Threads, Reads(t)
      PROVE  WInv'
  <2> DEFINE budget == BudgetFromContext(asking[t])
  <2>1. /\ phase[t] = "query" /\ holder' = None /\ torn' = FALSE
        /\ watch' = [watch EXCEPT !.budget = budget, !.age = Some(0), !.failing = (budget = None)]
        /\ origin' = [gpu |-> asking[t], age |-> 0, budget |-> budget]
        /\ given' = [gpu |-> asking[t], budget |-> budget, from |-> origin', torn |-> FALSE]
        /\ phase' = [phase EXCEPT ![t] = "idle"] /\ asking' = [asking EXCEPT ![t] = 0]
    BY <1>6 DEF Reads, Gives
  <2> HIDE DEF budget
  <2>2. holder = Some(t) /\ watch.device = Some(AdapterKey(asking[t]))
    BY <2>1 DEF QueryIsLocked
  <2>3. watch'.device = watch.device /\ watch'.budget = budget /\ watch'.age = Some(0)
    BY <2>1 DEF WatchTypes
  <2>4. origin'.gpu = asking[t] /\ origin'.age = 0 /\ origin'.budget = budget
    BY <2>1
  <2>5. WatchTypes'
    <3>1. watch' = [device |-> watch'.device, budget |-> watch'.budget, age |-> watch'.age, failing |-> watch'.failing]
      BY <2>1 DEF WatchTypes
    <3>2. origin' = [gpu |-> origin'.gpu, age |-> origin'.age, budget |-> origin'.budget]
      BY <2>1
    <3> QED
      BY <2>1, <2>4, <3>1, <3>2, VramWatchAssumption DEF WatchTypes
  <2>6. \A u \in Threads : phase[u] = "query" => u = t
    BY <2>2 DEF QueryIsLocked, Some
  <2>7. \A u \in Threads : phase'[u] # "query"
    BY <2>1, <2>6 DEF WatchTypes
  <2>8. QueryIsLocked' /\ HolderQueries'
    BY <2>1, <2>7 DEF QueryIsLocked, HolderQueries, None, Some
  <2>9. HoldsLast'
    BY <2>1, <2>3, <2>4 DEF HoldsLast, AsksForOne
  <2>10. AsksForOne'
    BY <2>1 DEF WatchTypes, AsksForOne
  <2>11. NamedAfterLast'
    BY <2>2, <2>3, <2>4 DEF NamedAfterLast, AdapterKey, PhysId, Gpu
  <2>12. FreshForItsCard'
    <3>1. given'.gpu = asking[t] /\ given'.budget = budget /\ given'.from = origin'
      BY <2>1
    <3>2. asking[t] # 0 /\ 0 < Every
      BY <2>1, VramWatchAssumption DEF AsksForOne
    <3> QED
      BY <2>4, <3>1, <3>2 DEF FreshForItsCard, AdapterKey, PhysId, Gpu
  <2> QED
    BY <2>5, <2>8, <2>9, <2>10, <2>11, <2>12
<1>7. ASSUME NEW t \in Threads, Unwinds(t)
      PROVE  WInv'
  <2>1. /\ phase[t] = "query" /\ holder' = None
        /\ torn' = (origin.gpu # 0 /\ AdapterKey(origin.gpu) # AdapterKey(asking[t]))
        /\ phase' = [phase EXCEPT ![t] = "idle"] /\ asking' = [asking EXCEPT ![t] = 0]
        /\ UNCHANGED <<watch, given, origin>>
    BY <1>7 DEF Unwinds
  <2>2. holder = Some(t) /\ watch.device = Some(AdapterKey(asking[t]))
    BY <2>1 DEF QueryIsLocked
  <2>3. WatchTypes'
    BY <2>1 DEF WatchTypes
  <2>4. \A u \in Threads : phase[u] = "query" => u = t
    BY <2>2 DEF QueryIsLocked, Some
  <2>5. \A u \in Threads : phase'[u] # "query"
    BY <2>1, <2>4 DEF WatchTypes
  <2>6. QueryIsLocked' /\ HolderQueries'
    BY <2>1, <2>5 DEF QueryIsLocked, HolderQueries, None, Some
  <2>7. NamedAfterLast'
    BY <2>1, <2>2 DEF NamedAfterLast, AdapterKey, PhysId, Gpu
  <2>8. HoldsLast' /\ FreshForItsCard'
    BY <2>1 DEF HoldsLast, FreshForItsCard, AdapterKey, PhysId, Gpu
  <2>9. AsksForOne'
    BY <2>1 DEF WatchTypes, AsksForOne
  <2> QED
    BY <2>3, <2>6, <2>7, <2>8, <2>9
<1> QED
  BY <1>0, <1>1, <1>2, <1>3, <1>4, <1>5, <1>6, <1>7 DEF WatchMoves, WatchStep

(* The watch answers with its last reading, less than the interval old,    *)
(* for any threads, adapters and unwinding queries.  Where the answer is   *)
(* not torn by a query that unwound after the re-key (vram.rs:558-562) it  *)
(* is a reading under the asked adapter's key, and of its card where the   *)
(* backend tells a physical identity.                                      *)
THEOREM WatchIsFresh == Spec => []FreshForItsCard
<1>1. Init => WInv
  BY WatchStarts
<1>2. WInv /\ [Next]_vars => WInv'
  BY StepMoves, WatchKeeps
<1>3. WInv => FreshForItsCard
  BY DEF WInv
<1> QED
  BY <1>1, <1>2, <1>3, PTL DEF Spec

-----------------------------------------------------------------------------
(* The shared buffers. *)

Views == [buffer : BOOLEAN, memory : BOOLEAN, handle : BOOLEAN, wgpu : {"none", "live", "dropped"}, busy : BOOLEAN]
Calls == [what : {"none", "export", "import"},
          at : {"none", "create", "require", "allocate", "bind", "handle", "wrap"},
          slot : {None} \cup {Some(s) : s \in Slots}, of : {None} \cup {Some(s) : s \in Slots}]

(* Every view and every call has its form. *)
SharedTypes == machine \in Machines /\ slot \in [Slots -> Views] /\ sharing \in [Threads -> Calls]

(* What exists of a view while a call builds it, stage by stage, and what  *)
(* exists of one that nobody builds.                                       *)
Built(v, at) ==
  /\ v.wgpu = "none" /\ ~v.busy
  /\ v.buffer <=> (at # "create")
  /\ v.memory <=> (at \in {"bind", "handle", "wrap"})
  /\ v.handle => at = "wrap"
Whole(v) ==
  /\ v.buffer <=> (v.wgpu # "none")
  /\ v.memory <=> (v.wgpu # "none")
  /\ v.busy => v.wgpu # "none"

(* One call at most builds a view, and it has made what its stage says. *)
OneMaker == \A s \in Slots, t, u \in Threads : Makes(t, s) /\ Makes(u, s) => t = u
MadeSoFar == \A s \in Slots, t \in Threads : Makes(t, s) => Built(slot[s], sharing[t].at)
LeftWhole == \A s \in Slots : (\A t \in Threads : ~Makes(t, s)) => Whole(slot[s])

SInv == SharedTypes /\ OneMaker /\ MadeSoFar /\ LeftWhole

(* The invariant gives the property. *)
LEMMA SharedFollows ==
  ASSUME SInv
  PROVE  SharedIsExact
<1> SUFFICES ASSUME NEW s \in Slots
             PROVE  /\ (\A t \in Threads : ~Makes(t, s)) =>
                         slot[s].buffer = (slot[s].wgpu # "none") /\ slot[s].memory = (slot[s].wgpu # "none")
                    /\ slot[s].busy => slot[s].memory
                    /\ (slot[s].handle /\ ~slot[s].memory) => \A t \in Threads : ~Makes(t, s)
  BY DEF SharedIsExact
<1>1. slot[s] \in Views
  BY DEF SInv, SharedTypes
<1>2. slot[s].buffer \in BOOLEAN /\ slot[s].memory \in BOOLEAN
  BY <1>1 DEF Views
<1>3. CASE \A t \in Threads : ~Makes(t, s)
  <2>1. Whole(slot[s])
    BY <1>3 DEF SInv, LeftWhole
  <2> QED
    BY <1>2, <1>3, <2>1 DEF Whole
<1>4. CASE \E t \in Threads : Makes(t, s)
  <2>1. PICK t \in Threads : Makes(t, s)
    BY <1>4
  <2>2. Built(slot[s], sharing[t].at)
    BY <2>1 DEF SInv, MadeSoFar
  <2> QED
    BY <1>2, <1>4, <2>2 DEF Built
<1> QED
  BY <1>3, <1>4

LEMMA SharedStarts ==
  ASSUME Init
  PROVE  SInv
<1>1. SharedTypes
  BY DEF Init, CardsInit, SharedInit, SharedTypes, Empty, NoCall, Views, Calls
<1>2. \A s \in Slots, t \in Threads : ~Makes(t, s)
  BY DEF Init, SharedInit, Makes, NoCall, None, Some
<1>3. \A s \in Slots : Whole(slot[s])
  BY DEF Init, SharedInit, Whole, Empty
<1> QED
  BY <1>1, <1>2, <1>3 DEF SInv, OneMaker, MadeSoFar, LeftWhole

(* A call that goes on to its next stage with what that stage needs. *)
LEMMA CallGoesOn ==
  ASSUME SInv, machine' = machine, NEW t \in Threads, NEW s \in Slots, Makes(t, s),
         NEW v \in Views, NEW at \in {"create", "require", "allocate", "bind", "handle", "wrap"},
         Proceeds(t, s, v, at), Built(v, at)
  PROVE  SInv'
<1> USE DEF SInv
<1>1. slot' = [slot EXCEPT ![s] = v] /\ sharing' = [sharing EXCEPT ![t].at = at]
  BY DEF Proceeds
<1>2. sharing[t] \in Calls
  BY DEF SharedTypes
<1>3. /\ slot' \in [Slots -> Views] /\ slot'[s] = v
      /\ \A r \in Slots : r # s => slot'[r] = slot[r]
  BY <1>1 DEF SharedTypes
<1>4. /\ sharing' \in [Threads -> Calls] /\ sharing'[t].at = at
      /\ \A u \in Threads : sharing'[u].slot = sharing[u].slot
      /\ \A u \in Threads : u # t => sharing'[u] = sharing[u]
  BY <1>1, <1>2 DEF SharedTypes, Calls
<1>5. \A u \in Threads, r \in Slots : Makes(u, r)' <=> Makes(u, r)
  BY <1>4 DEF Makes
<1>6. \A r \in Slots : Makes(t, r) => r = s
  BY DEF Makes, Some
<1>7. \A u \in Threads : Makes(u, s) => u = t
  BY DEF OneMaker
<1>8. SharedTypes' /\ OneMaker'
  BY <1>3, <1>4, <1>5 DEF SharedTypes, OneMaker
<1>9. MadeSoFar'
  BY <1>3, <1>4, <1>5, <1>6, <1>7 DEF MadeSoFar
<1>10. LeftWhole'
  BY <1>3, <1>5 DEF LeftWhole
<1> QED
  BY <1>8, <1>9, <1>10

(* A call that ends, with a view that is whole. *)
LEMMA CallEnds ==
  ASSUME SInv, machine' = machine, NEW t \in Threads, NEW s \in Slots, Makes(t, s),
         NEW v \in Views, slot' = [slot EXCEPT ![s] = v], sharing' = [sharing EXCEPT ![t] = NoCall], Whole(v)
  PROVE  SInv'
<1> USE DEF SInv
<1>1. NoCall \in Calls /\ \A r : NoCall.slot # Some(r)
  BY DEF NoCall, Calls, None, Some
<1>2. /\ slot' \in [Slots -> Views] /\ slot'[s] = v
      /\ \A r \in Slots : r # s => slot'[r] = slot[r]
  BY DEF SharedTypes
<1>3. /\ sharing' \in [Threads -> Calls] /\ sharing'[t] = NoCall
      /\ \A u \in Threads : u # t => sharing'[u] = sharing[u]
  BY <1>1 DEF SharedTypes
<1>4. \A u \in Threads, r \in Slots : Makes(u, r)' <=> (Makes(u, r) /\ u # t)
  BY <1>1, <1>3 DEF Makes
<1>5. \A r \in Slots : Makes(t, r) => r = s
  BY DEF Makes, Some
<1>6. \A u \in Threads : Makes(u, s) => u = t
  BY DEF OneMaker
<1>7. SharedTypes' /\ OneMaker'
  BY <1>2, <1>3, <1>4 DEF SharedTypes, OneMaker
<1>8. MadeSoFar'
  BY <1>2, <1>3, <1>4, <1>6 DEF MadeSoFar
<1>9. LeftWhole'
  BY <1>2, <1>4, <1>5 DEF LeftWhole
<1> QED
  BY <1>7, <1>8, <1>9

(* The owner's steps: on a view that nobody builds, and that stays whole. *)
LEMMA OwnerKeeps ==
  ASSUME SInv, machine' = machine, NEW s \in Slots, \A t \in Threads : ~Makes(t, s),
         NEW v \in Views, slot' = [slot EXCEPT ![s] = v], sharing' = sharing, Whole(v)
  PROVE  SInv'
<1> USE DEF SInv
<1>1. /\ slot' \in [Slots -> Views] /\ slot'[s] = v
      /\ \A r \in Slots : r # s => slot'[r] = slot[r]
  BY DEF SharedTypes
<1>2. \A u \in Threads, r \in Slots : Makes(u, r)' <=> Makes(u, r)
  BY DEF Makes
<1> QED
  BY <1>1, <1>2 DEF SharedTypes, OneMaker, MadeSoFar, LeftWhole

(* A call begins on an empty view that nobody builds. *)
LEMMA CallBegins ==
  ASSUME SInv, machine' = machine, NEW t \in Threads, NEW s \in Slots, NEW call \in Calls,
         call.slot = Some(s), call.at = "create", Begin(t, s, call)
  PROVE  SInv'
<1> USE DEF SInv
<1>1. /\ slot[s] = Empty /\ slot' = slot
      /\ sharing[t] = NoCall /\ sharing' = [sharing EXCEPT ![t] = call]
      /\ \A u \in Threads : ~Makes(u, s)
  BY DEF Begin
<1>2. /\ sharing' \in [Threads -> Calls] /\ sharing'[t] = call
      /\ \A u \in Threads : u # t => sharing'[u] = sharing[u]
  BY <1>1 DEF SharedTypes
<1>3. \A r : Makes(t, r)' <=> r = s
  BY <1>2 DEF Makes, Some
<1>4. \A u \in Threads, r \in Slots : u # t => (Makes(u, r)' <=> Makes(u, r))
  BY <1>2 DEF Makes
<1>5. \A r : ~Makes(t, r)
  BY <1>1 DEF Makes, NoCall, None, Some
<1>6. Built(Empty, "create")
  BY DEF Built, Empty
<1>7. SharedTypes'
  BY <1>1, <1>2 DEF SharedTypes
<1>8. OneMaker'
  BY <1>1, <1>3, <1>4 DEF OneMaker
<1>9. MadeSoFar'
  BY <1>1, <1>2, <1>3, <1>4, <1>6 DEF MadeSoFar
<1>10. LeftWhole'
  BY <1>1, <1>3, <1>4, <1>5 DEF LeftWhole
<1> QED
  BY <1>7, <1>8, <1>9, <1>10

(* One step of a call: it goes on, or ends with nothing left behind. *)
LEMMA CallKeeps ==
  ASSUME SInv, machine' = machine, NEW t \in Threads, SharingStep(t)
  PROVE  SInv'
<1>1. PICK s \in Slots : \/ CreateBuffer(t, s) \/ GetRequirements(t, s) \/ Allocate(t, s)
                         \/ Bind(t, s) \/ GetHandle(t, s) \/ Wrap(t, s)
  BY DEF SharingStep
<1>2. Makes(t, s)
  BY <1>1 DEF CreateBuffer, GetRequirements, Allocate, Bind, GetHandle, Wrap, At
<1>3. slot[s] \in Views /\ Built(slot[s], sharing[t].at)
  BY <1>2 DEF SInv, SharedTypes, MadeSoFar
<1> DEFINE bare == [slot[s] EXCEPT !.buffer = FALSE, !.memory = FALSE]
<1>4. ASSUME sharing[t].at # "wrap"
      PROVE  bare \in Views /\ Whole(bare)
  BY <1>3 DEF Views, Built, Whole
<1>5. CASE CreateBuffer(t, s)
  <2> DEFINE v == [slot[s] EXCEPT !.buffer = TRUE]
  <2> DEFINE next == IF sharing[t].what = "export" THEN "require" ELSE "allocate"
  <2>1. sharing[t].at = "create"
    BY <1>5 DEF CreateBuffer, At
  <2>2. v \in Views /\ Built(v, next)
    BY <1>3, <2>1 DEF Views, Built
  <2>3. Whole(slot[s])
    BY <1>3, <2>1 DEF Views, Built, Whole
  <2>4. CASE Proceeds(t, s, v, next)
    BY <1>2, <2>2, <2>4, CallGoesOn
  <2>5. CASE Refuses(t, s, slot[s])
    BY <1>2, <1>3, <2>3, <2>5, CallEnds DEF Refuses
  <2> QED
    BY <1>5, <2>4, <2>5 DEF CreateBuffer
<1>6. CASE GetRequirements(t, s)
  <2>1. sharing[t].at = "require"
    BY <1>6 DEF GetRequirements, At
  <2>2. Built(slot[s], "allocate")
    BY <1>3, <2>1 DEF Built
  <2> DEFINE v == [slot[s] EXCEPT !.buffer = FALSE]
  <2>3. v \in Views /\ Whole(v)
    BY <1>3, <2>1 DEF Views, Built, Whole
  <2>4. CASE Proceeds(t, s, slot[s], "allocate")
    BY <1>2, <1>3, <2>2, <2>4, CallGoesOn
  <2>5. CASE Refuses(t, s, v)
    BY <1>2, <2>3, <2>5, CallEnds DEF Refuses
  <2> QED
    BY <1>6, <2>4, <2>5 DEF GetRequirements
<1>7. CASE Allocate(t, s)
  <2>1. sharing[t].at = "allocate"
    BY <1>7 DEF Allocate, At
  <2> DEFINE v == [slot[s] EXCEPT !.memory = TRUE]
  <2> DEFINE w == [slot[s] EXCEPT !.buffer = FALSE]
  <2>2. v \in Views /\ Built(v, "bind")
    BY <1>3, <2>1 DEF Views, Built
  <2>3. w \in Views /\ Whole(w)
    BY <1>3, <2>1 DEF Views, Built, Whole
  <2>4. CASE Proceeds(t, s, v, "bind")
    BY <1>2, <2>2, <2>4, CallGoesOn
  <2>5. CASE Refuses(t, s, w)
    BY <1>2, <2>3, <2>5, CallEnds DEF Refuses
  <2> QED
    BY <1>7, <2>4, <2>5 DEF Allocate
<1>8. CASE Bind(t, s)
  <2> DEFINE next == IF sharing[t].what = "export" THEN "handle" ELSE "wrap"
  <2>1. sharing[t].at = "bind"
    BY <1>8 DEF Bind, At
  <2>2. Built(slot[s], next)
    BY <1>3, <2>1 DEF Built
  <2>3. CASE Proceeds(t, s, slot[s], next)
    BY <1>2, <1>3, <2>2, <2>3, CallGoesOn
  <2>4. CASE Refuses(t, s, bare)
    BY <1>2, <1>4, <2>1, <2>4, CallEnds DEF Refuses
  <2> QED
    BY <1>8, <2>3, <2>4 DEF Bind
<1>9. CASE GetHandle(t, s)
  <2>1. sharing[t].at = "handle"
    BY <1>9 DEF GetHandle, At
  <2> DEFINE v == [slot[s] EXCEPT !.handle = TRUE]
  <2>2. v \in Views /\ Built(v, "wrap")
    BY <1>3, <2>1 DEF Views, Built
  <2>3. CASE Proceeds(t, s, v, "wrap")
    BY <1>2, <2>2, <2>3, CallGoesOn
  <2>4. CASE Refuses(t, s, bare)
    BY <1>2, <1>4, <2>1, <2>4, CallEnds DEF Refuses
  <2> QED
    BY <1>9, <2>3, <2>4 DEF GetHandle
<1>10. CASE Wrap(t, s)
  <2>1. sharing[t].at = "wrap"
    BY <1>10 DEF Wrap, At
  <2> DEFINE v == [slot[s] EXCEPT !.wgpu = "live"]
  <2>2. v \in Views /\ Whole(v)
    BY <1>3, <2>1 DEF Views, Built, Whole
  <2>3. slot' = [slot EXCEPT ![s] = v] /\ sharing' = [sharing EXCEPT ![t] = NoCall]
    BY <1>10 DEF Wrap
  <2> QED
    BY <1>2, <2>2, <2>3, CallEnds
<1> QED
  BY <1>1, <1>5, <1>6, <1>7, <1>8, <1>9, <1>10

(* One step of an owner. What wgpu has is built by nobody. *)
LEMMA OwnerStepKeeps ==
  ASSUME SInv, machine' = machine, OwnerStep
  PROVE  SInv'
<1>1. PICK s \in Slots : Use(s) \/ Finish(s) \/ DropView(s) \/ DropOwned(s) \/ CloseHandle(s)
  BY DEF OwnerStep
<1>2. slot[s] \in Views
  BY DEF SInv, SharedTypes
<1>3. \A t \in Threads : Makes(t, s) => slot[s].wgpu = "none" /\ ~slot[s].busy
  BY DEF SInv, MadeSoFar, Built
<1>4. \A t \in Threads : ~Makes(t, s)
  BY <1>1, <1>3 DEF Use, Finish, DropView, DropOwned, CloseHandle
<1>5. Whole(slot[s])
  BY <1>4 DEF SInv, LeftWhole
<1>6. CASE Use(s)
  <2> DEFINE v == [slot[s] EXCEPT !.busy = TRUE]
  <2>1. slot' = [slot EXCEPT ![s] = v] /\ sharing' = sharing
    BY <1>6 DEF Use
  <2>2. v \in Views /\ Whole(v)
    BY <1>2, <1>5, <1>6 DEF Views, Whole, Use
  <2> QED
    BY <1>4, <2>1, <2>2, OwnerKeeps
<1>7. CASE Finish(s)
  <2> DEFINE v == [slot[s] EXCEPT !.busy = FALSE]
  <2>1. slot' = [slot EXCEPT ![s] = v] /\ sharing' = sharing
    BY <1>7 DEF Finish
  <2>2. v \in Views /\ Whole(v)
    BY <1>2, <1>5 DEF Views, Whole
  <2> QED
    BY <1>4, <2>1, <2>2, OwnerKeeps
<1>8. CASE DropView(s)
  <2> DEFINE v == [slot[s] EXCEPT !.wgpu = "dropped"]
  <2>1. slot' = [slot EXCEPT ![s] = v] /\ sharing' = sharing
    BY <1>8 DEF DropView
  <2>2. v \in Views /\ Whole(v)
    BY <1>2, <1>5, <1>8 DEF Views, Whole, DropView
  <2> QED
    BY <1>4, <2>1, <2>2, OwnerKeeps
<1>9. CASE DropOwned(s)
  <2> DEFINE v == [slot[s] EXCEPT !.wgpu = "none", !.buffer = FALSE, !.memory = FALSE]
  <2>1. slot' = [slot EXCEPT ![s] = v] /\ sharing' = sharing
    BY <1>9, <1>2 DEF DropOwned, SInv, SharedTypes
  <2>2. v \in Views /\ Whole(v)
    BY <1>2, <1>9 DEF Views, Whole, DropOwned
  <2> QED
    BY <1>4, <2>1, <2>2, OwnerKeeps
<1>10. CASE CloseHandle(s)
  <2> DEFINE v == [slot[s] EXCEPT !.handle = FALSE]
  <2>1. slot' = [slot EXCEPT ![s] = v] /\ sharing' = sharing
    BY <1>10 DEF CloseHandle
  <2>2. v \in Views /\ Whole(v)
    BY <1>2, <1>5 DEF Views, Whole
  <2> QED
    BY <1>4, <2>1, <2>2, OwnerKeeps
<1> QED
  BY <1>1, <1>6, <1>7, <1>8, <1>9, <1>10

LEMMA SharedKeeps ==
  ASSUME SInv, SharedMoves, machine' = machine
  PROVE  SInv'
<1>0. machine.sharers \subseteq Threads
  BY CardMemoryAssumption DEF SInv, SharedTypes
<1>1. CASE UNCHANGED sharedVars
  BY <1>1 DEF sharedVars, SInv, SharedTypes, OneMaker, MadeSoFar, LeftWhole, Makes
<1>2. CASE OwnerStep
  BY <1>2, OwnerStepKeeps
<1>3. ASSUME NEW t \in Threads, Export(t) \/ Import(t)
      PROVE  SInv'
  <2>1. PICK s \in Slots, call \in Calls : call.slot = Some(s) /\ call.at = "create" /\ Begin(t, s, call)
    BY <1>3 DEF Export, Import, Calls
  <2> QED
    BY <2>1, CallBegins
<1>4. ASSUME NEW t \in Threads, SharingStep(t)
      PROVE  SInv'
  BY <1>4, CallKeeps
<1> QED
  BY <1>0, <1>1, <1>2, <1>3, <1>4 DEF SharedMoves

(* What exists of a shared buffer outside of a call is exactly what its    *)
(* view holds, for any threads and views and whatever calls are refused,   *)
(* in any order of the calls, the drops and the queue.                     *)
THEOREM SharedStaysExact == Spec => []SharedIsExact
<1>1. Init => SInv
  BY SharedStarts
<1>2. SInv /\ [Next]_vars => SInv'
  BY StepMoves, SharedKeeps
<1>3. SInv => SharedIsExact
  BY SharedFollows
<1> QED
  BY <1>1, <1>2, <1>3, PTL DEF Spec

-----------------------------------------------------------------------------
(* Lists and the sets they list. *)

(* As many images as elements, when no two have the same. *)
IsOneToOne(f, S, T) ==
  /\ \A x \in S : f[x] \in T
  /\ \A y \in T : \E x \in S : f[x] = y
  /\ \A x, y \in S : f[x] = f[y] => x = y

(* A finite set and its image under such a function have one size. *)
LEMMA ImageIsAsLarge ==
  ASSUME NEW S, IsFiniteSet(S), NEW T, NEW f, IsOneToOne(f, S, T)
  PROVE  IsFiniteSet(T) /\ Cardinality(T) = Cardinality(S)
<1> DEFINE g == [x \in S |-> f[x]]
<1>1. g \in Surjection(S, T)
  BY DEF Surjection, IsOneToOne
<1>2. g \in Injection(S, T)
  BY DEF Injection, IsInjective, IsOneToOne
<1> HIDE DEF g
<1> QED
  BY <1>1, <1>2, FS_Surjection

(* Ranks: R[i] are the elements not after i in a total order of K. *)
Order(R, K) ==
  /\ R \in [K -> SUBSET K]
  /\ \A i \in K : i \in R[i]
  /\ \A i, j \in K : i \in R[j] \/ j \in R[i]
  /\ \A i, j \in K : i \in R[j] => R[i] \subseteq R[j]
  /\ \A i, j \in K : i \in R[j] /\ j \in R[i] => i = j

(* The element that has k elements up to it, for each k. *)
Ranked(R, K) == [k \in 1..Cardinality(K) |-> CHOOSE i \in K : Cardinality(R[i]) = k]

(* In a finite total order the ranks are the numbers up to its size, each  *)
(* taken once and in order.                                                *)
LEMMA RanksCount ==
  ASSUME NEW K, IsFiniteSet(K), NEW R, Order(R, K)
  PROVE  /\ \A i \in K : Cardinality(R[i]) \in 1..Cardinality(K)
         /\ \A i, j \in K : Cardinality(R[i]) <= Cardinality(R[j]) <=> i \in R[j]
         /\ \A i, j \in K : Cardinality(R[i]) = Cardinality(R[j]) => i = j
<1>1. \A i \in K : IsFiniteSet(R[i]) /\ Cardinality(R[i]) \in Nat /\ Cardinality(R[i]) <= Cardinality(K)
  BY FS_Subset, FS_CardinalityType DEF Order
<1>2. \A i \in K : Cardinality(R[i]) # 0
  BY <1>1, FS_EmptySet DEF Order
<1>3. Cardinality(K) \in Nat
  BY FS_CardinalityType
<1>4. \A i \in K : Cardinality(R[i]) \in 1..Cardinality(K)
  BY <1>1, <1>2, <1>3
<1>5. ASSUME NEW i \in K, NEW j \in K, i \in R[j]
      PROVE  Cardinality(R[i]) <= Cardinality(R[j]) /\ (Cardinality(R[i]) = Cardinality(R[j]) => i = j)
  <2>1. R[i] \in SUBSET R[j] /\ IsFiniteSet(R[j])
    BY <1>1, <1>5 DEF Order
  <2>2. Cardinality(R[i]) <= Cardinality(R[j]) /\ (Cardinality(R[j]) = Cardinality(R[i]) => R[j] = R[i])
    BY <2>1, FS_Subset
  <2>3. R[i] = R[j] => i = j
    BY <1>5 DEF Order
  <2> QED
    BY <2>2, <2>3
<1>6. ASSUME NEW i \in K, NEW j \in K, Cardinality(R[i]) <= Cardinality(R[j])
      PROVE  i \in R[j]
  <2>1. CASE j \in R[i]
    <3>1. Cardinality(R[j]) <= Cardinality(R[i]) /\ (Cardinality(R[j]) = Cardinality(R[i]) => j = i)
      BY <1>5, <2>1
    <3>2. i = j
      BY <1>1, <1>6, <3>1
    <3> QED
      BY <3>2 DEF Order
  <2> QED
    BY <2>1 DEF Order
<1>7. ASSUME NEW i \in K, NEW j \in K, Cardinality(R[i]) = Cardinality(R[j])
      PROVE  i = j
  <2>1. i \in R[j]
    BY <1>1, <1>6, <1>7
  <2> QED
    BY <1>5, <1>7, <2>1
<1> QED
  BY <1>4, <1>5, <1>6, <1>7

(* Ranked lists every element once, in the order. *)
LEMMA RanksEnumerate ==
  ASSUME NEW K, IsFiniteSet(K), NEW R, Order(R, K)
  PROVE  LET n == Cardinality(K)
             e == Ranked(R, K)
         IN /\ n \in Nat /\ e \in [1..n -> K]
            /\ \A i \in K : \E k \in 1..n : e[k] = i
            /\ \A k, l \in 1..n : k <= l <=> e[k] \in R[e[l]]
<1> DEFINE n == Cardinality(K)
           e == Ranked(R, K)
           f == [i \in K |-> Cardinality(R[i])]
<1>1. /\ \A i \in K : Cardinality(R[i]) \in 1..n
      /\ \A i, j \in K : Cardinality(R[i]) <= Cardinality(R[j]) <=> i \in R[j]
      /\ \A i, j \in K : Cardinality(R[i]) = Cardinality(R[j]) => i = j
  BY RanksCount
<1>2. n \in Nat /\ IsFiniteSet(1..n) /\ Cardinality(1..n) = n
  <2>1. n \in Nat
    BY FS_CardinalityType
  <2> QED
    BY <2>1, FS_Interval
<1>3. f \in Injection(K, 1..n)
  BY <1>1 DEF Injection, IsInjective
<1>4. f \in Surjection(K, 1..n)
  BY <1>2, <1>3, FS_Injection
<1>5. \A k \in 1..n : \E i \in K : Cardinality(R[i]) = k
  BY <1>4 DEF Surjection
<1> HIDE DEF n
<1>6. \A k \in 1..n : e[k] \in K /\ Cardinality(R[e[k]]) = k
  BY <1>5 DEF Ranked, n
<1>7. e \in [1..n -> K]
  BY <1>6 DEF Ranked, n
<1> HIDE DEF e
<1>8. \A i \in K : \E k \in 1..n : e[k] = i
  BY <1>1, <1>6
<1>9. \A k, l \in 1..n : k <= l <=> e[k] \in R[e[l]]
  BY <1>1, <1>6
<1> QED
  BY <1>2, <1>7, <1>8, <1>9 DEF n, e

(* The numbers up to n are n. *)
LEMMA UpTo == \A n \in Nat : IsFiniteSet(1..n) /\ Cardinality(1..n) = n
BY FS_Interval

(* The places a list is made of, in their order. *)
Enumerates(e, n, kept) ==
  /\ n \in Nat /\ n = Cardinality(kept) /\ e \in [1..n -> kept]
  /\ \A i \in kept : \E k \in 1..n : e[k] = i

(* Picked goes through the places kept in ascending order. *)
PickedBy(e, n, s, kept) ==
  /\ Enumerates(e, n, kept)
  /\ Picked(s, kept) = [k \in 1..n |-> s[e[k]]]
  /\ \A k, l \in 1..n : k <= l <=> e[k] <= e[l]

(* Picked, which Filter is made of, keeps exactly the places kept and      *)
(* their order.                                                            *)
LEMMA PickedIs ==
  ASSUME NEW S, NEW s \in Seq(S), NEW kept \in SUBSET DOMAIN s
  PROVE  \E n, e : PickedBy(e, n, s, kept)
<1> DEFINE R == [i \in kept |-> {j \in kept : j <= i}]
           n == Cardinality(kept)
           e == Ranked(R, kept)
<1>1. IsFiniteSet(kept) /\ kept \subseteq Int
  <2>1. DOMAIN s = 1..Len(s) /\ Len(s) \in Nat
    OBVIOUS
  <2>2. IsFiniteSet(DOMAIN s)
    BY <2>1, FS_Interval
  <2> QED
    BY <2>1, <2>2, FS_Subset
<1>2. \A i \in kept : R[i] = {j \in kept : j <= i}
  OBVIOUS
<1>3. R \in [kept -> SUBSET kept]
  OBVIOUS
<1> HIDE DEF R
<1>4. Order(R, kept)
  BY <1>1, <1>2, <1>3 DEF Order
<1>5. /\ n \in Nat /\ e \in [1..n -> kept]
      /\ \A i \in kept : \E k \in 1..n : e[k] = i
      /\ \A k, l \in 1..n : k <= l <=> e[k] \in R[e[l]]
  BY <1>1, <1>4, RanksEnumerate
<1>6. \A k \in 1..n : e[k] = CHOOSE i \in kept : Cardinality({j \in kept : j <= i}) = k
  <2>1. \A i \in kept : Cardinality(R[i]) = Cardinality({j \in kept : j <= i})
    BY <1>2
  <2> QED
    BY <2>1 DEF Ranked
<1>7. Picked(s, kept) = [k \in 1..n |-> s[e[k]]]
  <2>1. Picked(s, kept) = [k \in 1..n |-> s[CHOOSE i \in kept : Cardinality({j \in kept : j <= i}) = k]]
    BY Zenon DEF Picked
  <2> HIDE DEF n, e
  <2> QED
    BY <1>6, <2>1
<1> HIDE DEF n, e
<1>8. \A k, l \in 1..n : k <= l <=> e[k] <= e[l]
  BY <1>2, <1>5
<1> QED
  BY <1>5, <1>7, <1>8 DEF PickedBy, Enumerates, n

(* Sorted goes through all places, the larger card first and of equals the *)
(* earlier.                                                                *)
SortedBy(e, n, s) ==
  /\ Enumerates(e, n, DOMAIN s)
  /\ Sorted(s) = [k \in 1..n |-> s[e[k]]]
  /\ \A k, l \in 1..n :
       k <= l <=> (Size(s[e[k]]) > Size(s[e[l]]) \/ (Size(s[e[k]]) = Size(s[e[l]]) /\ e[k] <= e[l]))

(* Sorted is a stable sort: windows.rs sorts adapters by size with one. *)
LEMMA SortedIs ==
  ASSUME NEW S, NEW s \in Seq(S), \A i \in DOMAIN s : Size(s[i]) \in Nat
  PROVE  \E n, e : SortedBy(e, n, s)
<1> DEFINE K == DOMAIN s
           Before(i) == {j \in DOMAIN s : Size(s[j]) > Size(s[i]) \/ (Size(s[j]) = Size(s[i]) /\ j <= i)}
           R == [i \in K |-> Before(i)]
           n == Cardinality(K)
           e == Ranked(R, K)
<1>1. K = 1..Len(s) /\ Len(s) \in Nat
  OBVIOUS
<1>2. IsFiniteSet(K) /\ K \subseteq Int /\ n = Len(s)
  <2>1. IsFiniteSet(1..Len(s)) /\ Cardinality(1..Len(s)) = Len(s)
    BY <1>1, UpTo
  <2> QED
    BY <1>1, <2>1
<1>3. \A i \in K : R[i] = {j \in K : Size(s[j]) > Size(s[i]) \/ (Size(s[j]) = Size(s[i]) /\ j <= i)}
  OBVIOUS
<1>4. R \in [K -> SUBSET K]
  OBVIOUS
<1> HIDE DEF R
<1>5. Order(R, K)
  <2>1. \A i, j \in K : j \in R[i] <=> (Size(s[j]) > Size(s[i]) \/ (Size(s[j]) = Size(s[i]) /\ j <= i))
    BY <1>3
  <2> HIDE DEF K
  <2>2. \A i \in K : Size(s[i]) \in Nat /\ i \in Int
    BY <1>2 DEF K
  <2> HIDE DEF n
  <2>3. \A i \in K : i \in R[i]
    BY <2>1, <2>2
  <2>4. \A i, j \in K : i \in R[j] \/ j \in R[i]
    BY <2>1, <2>2
  <2>5. \A i, j \in K : i \in R[j] /\ j \in R[i] => i = j
    BY <2>1, <2>2
  <2>6. ASSUME NEW i \in K, NEW j \in K, i \in R[j] PROVE R[i] \subseteq R[j]
    <3>1. ASSUME NEW k \in K, k \in R[i] PROVE k \in R[j]
      BY <2>1, <2>2, <2>6, <3>1
    <3> QED
      BY <1>4, <3>1
  <2> QED
    BY <1>4, <2>3, <2>4, <2>5, <2>6 DEF Order
<1>6. /\ n \in Nat /\ e \in [1..n -> K]
      /\ \A i \in K : \E k \in 1..n : e[k] = i
      /\ \A k, l \in 1..n : k <= l <=> e[k] \in R[e[l]]
  BY <1>2, <1>5, RanksEnumerate
<1>7. \A k \in 1..n : e[k] = CHOOSE i \in DOMAIN s : Cardinality(Before(i)) = k
  <2>1. \A i \in K : Cardinality(R[i]) = Cardinality(Before(i))
    BY <1>3
  <2> QED
    BY <2>1 DEF Ranked
<1>8. Sorted(s) = [k \in 1..n |-> s[e[k]]]
  <2>1. Sorted(s) = [k \in DOMAIN s |-> s[CHOOSE i \in DOMAIN s : Cardinality(Before(i)) = k]]
    BY Zenon DEF Sorted
  <2>2. DOMAIN s = 1..n
    BY <1>1, <1>2
  <2>3. Sorted(s) = [k \in 1..n |-> s[CHOOSE i \in DOMAIN s : Cardinality(Before(i)) = k]]
    BY <2>1, <2>2
  <2>4. [k \in 1..n |-> s[CHOOSE i \in DOMAIN s : Cardinality(Before(i)) = k]] = [k \in 1..n |-> s[e[k]]]
    <3> DEFINE h == [k \in 1..n |-> CHOOSE i \in DOMAIN s : Cardinality(Before(i)) = k]
    <3>1. \A k \in 1..n : h[k] = e[k]
      BY <1>7
    <3>2. [k \in 1..n |-> s[CHOOSE i \in DOMAIN s : Cardinality(Before(i)) = k]] = [k \in 1..n |-> s[h[k]]]
      OBVIOUS
    <3> HIDE DEF Before, n, e, h
    <3> QED
      BY <3>1, <3>2
  <2> HIDE DEF Before, n, e
  <2> QED
    BY <2>3, <2>4
<1>9. \A k, l \in 1..n :
        e[k] \in R[e[l]] <=>
          (Size(s[e[k]]) > Size(s[e[l]]) \/ (Size(s[e[k]]) = Size(s[e[l]]) /\ e[k] <= e[l]))
  <2>1. \A i, j \in K : j \in R[i] <=> (Size(s[j]) > Size(s[i]) \/ (Size(s[j]) = Size(s[i]) /\ j <= i))
    BY <1>3
  <2>2. \A k \in 1..n : e[k] \in K
    BY <1>6
  <2> HIDE DEF n, e, K
  <2> QED
    BY <2>1, <2>2
<1> HIDE DEF n, e
<1> QED
  BY <1>6, <1>8, <1>9 DEF SortedBy, Enumerates, n

(* The lists of cards: each of N once, one before the other as le has it.  *)
Lists(q, N, le) ==
  /\ EachOnce(q, N)
  /\ \A i, j \in DOMAIN q : i <= j <=> <<q[i], q[j]>> \in le

(* The order in which a list names its elements. *)
Along(s, N) == {p \in N \X N : \E i, j \in DOMAIN s : i <= j /\ s[i] = p[1] /\ s[j] = p[2]}

(* What is picked from a list in some order is in that order. *)
LEMMA ListsPart ==
  ASSUME NEW q, NEW N, NEW le, Lists(q, N, le), NEW kept \in SUBSET DOMAIN q
  PROVE  Lists(Picked(q, kept), {q[i] : i \in kept}, le)
<1>0. q \in Seq(N)
  BY DEF Lists, EachOnce
<1>1. PICK n, e : PickedBy(e, n, q, kept)
  BY <1>0, PickedIs
<1> DEFINE p == Picked(q, kept)
           M == {q[i] : i \in kept}
<1>2. p = [k \in 1..n |-> q[e[k]]] /\ n \in Nat /\ \A k \in 1..n : e[k] \in kept
  BY <1>1 DEF PickedBy, Enumerates
<1> HIDE DEF p
<1>3. \A k \in 1..n : p[k] \in M
  BY <1>2
<1>4. p \in Seq(M) /\ DOMAIN p = 1..n
  <2> HIDE DEF M
  <2> QED
    BY <1>2, <1>3
<1>5. \A c \in M : \E k \in DOMAIN p : p[k] = c
  <2>1. ASSUME NEW i \in kept PROVE \E k \in 1..n : p[k] = q[i]
    BY <1>1, <1>2 DEF PickedBy, Enumerates
  <2> QED
    BY <1>4, <2>1
<1>6. ASSUME NEW k \in 1..n, NEW l \in 1..n, p[k] = p[l] PROVE k = l
  <2>1. e[k] \in DOMAIN q /\ e[l] \in DOMAIN q /\ q[e[k]] = q[e[l]]
    BY <1>2, <1>6
  <2>2. e[k] = e[l]
    BY <2>1 DEF Lists, EachOnce
  <2>3. e[k] \in Int
    BY <1>0, <2>1
  <2>4. k <= l /\ l <= k
    BY <1>1, <2>2, <2>3 DEF PickedBy
  <2> QED
    BY <1>2, <2>4
<1>7. \A k, l \in 1..n : k <= l <=> <<p[k], p[l]>> \in le
  BY <1>1, <1>2 DEF PickedBy, Lists
<1> QED
  BY <1>4, <1>5, <1>6, <1>7 DEF Lists, EachOnce, p

(* A list without repetitions is in its own order. *)
LEMMA ListsItself ==
  ASSUME NEW N, NEW s, EachOnce(s, N)
  PROVE  Lists(s, N, Along(s, N))
<1>1. s \in Seq(N) /\ \A i, j \in DOMAIN s : s[i] = s[j] => i = j
  BY DEF EachOnce
<1>2. \A i, j \in DOMAIN s : i <= j => <<s[i], s[j]>> \in Along(s, N)
  BY <1>1 DEF Along
<1>3. \A i, j \in DOMAIN s : <<s[i], s[j]>> \in Along(s, N) => i <= j
  BY <1>1 DEF Along
<1> QED
  BY <1>2, <1>3 DEF Lists

(* The largest first, and of equals the first of the system's list. *)
LargestFirst(N) ==
  {p \in N \X N : Size(p[1]) > Size(p[2]) \/ (Size(p[1]) = Size(p[2]) /\ p \in Along(machine.order, Cards))}

(* Sorted in the system's order, a list is in the order LargestFirst. *)
LEMMA ListsSorted ==
  ASSUME NEW s, NEW N \in SUBSET Cards, Lists(s, N, Along(machine.order, Cards)),
         \A c \in Cards : Size(c) \in Nat
  PROVE  Lists(Sorted(s), N, LargestFirst(Cards))
<1>1. s \in Seq(N) /\ \A i \in DOMAIN s : s[i] \in Cards
  BY DEF Lists, EachOnce
<1>2. PICK n, e : SortedBy(e, n, s)
  BY <1>1, SortedIs
<1> DEFINE p == Sorted(s)
<1>3. p = [k \in 1..n |-> s[e[k]]] /\ n \in Nat /\ \A k \in 1..n : e[k] \in DOMAIN s
  BY <1>2 DEF SortedBy, Enumerates
<1> HIDE DEF p
<1>4. \A k \in 1..n : p[k] \in N
  BY <1>1, <1>3
<1>5. p \in Seq(N) /\ DOMAIN p = 1..n
  BY <1>3, <1>4
<1>6. \A c \in N : \E k \in DOMAIN p : p[k] = c
  <2>1. \A i \in DOMAIN s : \E k \in 1..n : p[k] = s[i]
    BY <1>2, <1>3 DEF SortedBy, Enumerates
  <2> QED
    BY <1>5, <2>1 DEF Lists, EachOnce
<1>7. \A k, l \in 1..n :
        k <= l <=> (Size(p[k]) > Size(p[l]) \/ (Size(p[k]) = Size(p[l]) /\ e[k] <= e[l]))
  BY <1>2, <1>3 DEF SortedBy
<1>8. \A k, l \in 1..n : e[k] <= e[l] <=> <<p[k], p[l]>> \in Along(machine.order, Cards)
  BY <1>3 DEF Lists
<1>9. \A k, l \in 1..n : k <= l <=> <<p[k], p[l]>> \in LargestFirst(Cards)
  <2>1. \A k, l \in 1..n : p[k] \in Cards /\ p[l] \in Cards
    BY <1>4
  <2> QED
    BY <1>7, <1>8, <2>1 DEF LargestFirst
<1>10. ASSUME NEW k \in 1..n, NEW l \in 1..n, p[k] = p[l] PROVE k = l
  <2>1. e[k] \in DOMAIN s /\ e[l] \in DOMAIN s /\ s[e[k]] = s[e[l]]
    BY <1>3, <1>10
  <2>2. e[k] = e[l] /\ e[k] \in Int
    BY <1>1, <2>1 DEF Lists, EachOnce
  <2>3. Size(p[k]) = Size(p[l])
    BY <1>10
  <2>4. k <= l /\ l <= k
    BY <1>7, <2>2, <2>3
  <2> QED
    BY <1>3, <2>4
<1> QED
  BY <1>5, <1>6, <1>9, <1>10 DEF Lists, EachOnce, p

(* The elements a list has up to one of them. *)
UpIn(x, N, le) == {c \in N : <<c, x>> \in le}

(* A card's place in a list is the number of cards not after it. *)
LEMMA ListsRank ==
  ASSUME NEW q, NEW N, NEW le, Lists(q, N, le), NEW k \in DOMAIN q
  PROVE  IsFiniteSet(UpIn(q[k], N, le)) /\ Cardinality(UpIn(q[k], N, le)) = k
<1>1. q \in Seq(N) /\ k \in Nat /\ k \in 1..Len(q) /\ DOMAIN q = 1..Len(q)
  BY DEF Lists, EachOnce
<1>2. \A i, j \in 1..k : q[i] = q[j] => i = j
  BY <1>1 DEF Lists, EachOnce
<1>3. IsFiniteSet(1..k) /\ Cardinality(1..k) = k
  BY <1>1, UpTo
<1> DEFINE T == {c \in N : <<c, q[k]>> \in le}
<1>4. ASSUME NEW i \in 1..k PROVE q[i] \in T
  BY <1>1, <1>4 DEF Lists
<1>5. ASSUME NEW c \in T PROVE \E i \in 1..k : q[i] = c
  <2>1. PICK i \in DOMAIN q : q[i] = c
    BY DEF Lists, EachOnce
  <2>2. i <= k
    BY <2>1 DEF Lists
  <2> QED
    BY <1>1, <2>1, <2>2
<1> HIDE DEF T
<1>6. IsOneToOne(q, 1..k, T)
  BY <1>2, <1>4, <1>5 DEF IsOneToOne
<1>7. IsFiniteSet(T) /\ Cardinality(T) = Cardinality(1..k)
  BY <1>3, <1>6, ImageIsAsLarge
<1> QED
  BY <1>3, <1>7 DEF T, UpIn

(* Two orders of the same list are one order of its cards. *)
LEMMA ListsAgree ==
  ASSUME NEW q, NEW N, NEW le, NEW ge, Lists(q, N, le), Lists(q, N, ge), NEW c \in N, NEW d \in N
  PROVE  <<c, d>> \in le <=> <<c, d>> \in ge
<1>1. PICK i, j \in DOMAIN q : q[i] = c /\ q[j] = d
  BY DEF Lists, EachOnce
<1> QED
  BY <1>1 DEF Lists

(* BySize is Sorted; its choice is from one. *)
LEMMA SortIs == \A s : BySize(s) = Sorted(s)
BY DEF BySize

-----------------------------------------------------------------------------
(* The machine. *)

(* What a machine is. *)
LEMMA MachineIs ==
  ASSUME machine \in Machines
  PROVE  /\ machine.os \in {"windows", "linux", "macos"}
         /\ IsFiniteSet(Cards) /\ Cards \subseteq Nat
         /\ \A c \in Cards : Desc(c) \in CardDescs /\ Size(c) \in Nat
         /\ \A c, d \in Cards : SameKind(Desc(c), Desc(d))
         /\ EachOnce(machine.order, Cards) /\ EachOnce(machine.pci, Cards)
         /\ machine.ram \in Nat /\ machine.free \in Nat /\ machine.free <= machine.ram
<1>1. machine.cards \in Seq(CardDescs)
  BY CardsAssumption
<1>2. Cards = 1..Len(machine.cards) /\ Len(machine.cards) \in Nat
  BY <1>1 DEF Cards
<1>3. IsFiniteSet(Cards) /\ Cards \subseteq Nat
  BY <1>2, UpTo
<1>4. \A c \in Cards : Desc(c) \in CardDescs
  BY <1>1 DEF Cards, Desc
<1>5. \A c \in Cards : Size(c) \in Nat
  BY <1>4 DEF CardDescs, Size, Unified
<1> QED
  BY <1>3, <1>4, <1>5, CardsAssumption DEF Cards, Desc

(* What changes of a card. *)
CardStates == [there : BOOLEAN, luid : Nat \X Nat, used : Nat]

(* A machine there is, and a card's LUID names the card. *)
WorldIs ==
  /\ machine \in Machines
  /\ card \in [Cards -> CardStates]
  /\ \A c \in Cards : card[c].luid[1] = c

(* The machine starts so. *)
LEMMA WorldStarts ==
  ASSUME Init
  PROVE  WorldIs
<1>1. machine \in Machines
  BY DEF Init, CardsInit
<1> QED
  BY <1>1, MachineIs DEF Init, CardsInit, WorldIs, CardStates

(* It stays so; and a card that has left never has its first LUID again. *)
LEMMA WorldKeeps ==
  ASSUME WorldIs, Changes
  PROVE  WorldIs' /\ machine' = machine /\ \A c \in Cards : NeverLeft(c)' => NeverLeft(c)
<1>1. machine' = machine /\ Cards' = Cards /\ \A c \in Cards : Size(c) \in Nat
  BY MachineIs DEF Changes, Load, Leave, Return, Falter, Change, Cards, WorldIs
<1>2. ASSUME NEW c \in Cards, NEW v \in CardStates, card' = [card EXCEPT ![c] = v], v.luid[1] = c,
             v.there => ((card[c].there /\ v.luid = card[c].luid) \/ v.luid[2] # 0)
      PROVE  WorldIs' /\ \A d \in Cards : NeverLeft(d)' => NeverLeft(d)
  <2>1. card' \in [Cards -> CardStates] /\ card'[c] = v /\ \A d \in Cards : d # c => card'[d] = card[d]
    BY <1>2 DEF WorldIs
  <2>2. NeverLeft(c)' => NeverLeft(c)
    <3>1. v.luid = <<c, 0>> => v.luid[2] = 0
      OBVIOUS
    <3> QED
      BY <1>1, <1>2, <2>1, <3>1 DEF NeverLeft
  <2> QED
    BY <1>1, <1>2, <2>1, <2>2 DEF WorldIs, NeverLeft
<1>3. ASSUME NEW c \in Cards, Load(c)
      PROVE  WorldIs' /\ \A d \in Cards : NeverLeft(d)' => NeverLeft(d)
  <2>1. PICK used \in {0, Size(c) \div 2, Size(c)} : card' = [card EXCEPT ![c].used = used]
    BY <1>3 DEF Load
  <2>2. card[c] \in CardStates /\ card[c].there /\ used \in Nat
    BY <1>1, <1>3, <2>1 DEF Load, WorldIs
  <2> DEFINE v == [card[c] EXCEPT !.used = used]
  <2>3. v \in CardStates /\ v.there = card[c].there /\ v.luid = card[c].luid /\ v.luid[1] = c
    BY <2>2 DEF CardStates, WorldIs
  <2>4. card' = [card EXCEPT ![c] = v]
    BY <2>1 DEF WorldIs
  <2> HIDE DEF v
  <2> QED
    BY <1>2, <2>2, <2>3, <2>4
<1>4. ASSUME NEW c \in Cards, Leave(c)
      PROVE  WorldIs' /\ \A d \in Cards : NeverLeft(d)' => NeverLeft(d)
  <2>1. card' = [card EXCEPT ![c].there = FALSE, ![c].used = 0] /\ card[c] \in CardStates
    BY <1>4 DEF Leave, WorldIs
  <2> DEFINE v == [card[c] EXCEPT !.there = FALSE, !.used = 0]
  <2>2. v \in CardStates /\ ~v.there /\ v.luid[1] = c
    BY <2>1 DEF CardStates, WorldIs
  <2>3. card' = [card EXCEPT ![c] = v]
    BY <2>1 DEF WorldIs
  <2> HIDE DEF v
  <2> QED
    BY <1>2, <2>2, <2>3
<1>5. ASSUME NEW c \in Cards, Return(c)
      PROVE  WorldIs' /\ \A d \in Cards : NeverLeft(d)' => NeverLeft(d)
  <2> DEFINE luid == <<c, card[c].luid[2] + 1>>
             v == [card[c] EXCEPT !.there = TRUE, !.luid = luid]
  <2>1. card' = [card EXCEPT ![c].there = TRUE, ![c].luid = luid] /\ card[c] \in CardStates
    BY <1>5 DEF Return, WorldIs
  <2>2. luid \in Nat \X Nat /\ luid[1] = c /\ luid[2] # 0
    <3>1. c \in Nat /\ card[c].luid[2] \in Nat
      BY <2>1, MachineIs DEF CardStates, WorldIs
    <3> QED
      BY <3>1
  <2> HIDE DEF luid
  <2>3. v \in CardStates /\ v.luid = luid
    BY <2>1, <2>2 DEF CardStates
  <2>4. card' = [card EXCEPT ![c] = v]
    BY <2>1 DEF WorldIs
  <2> HIDE DEF v
  <2> QED
    BY <1>2, <2>2, <2>3, <2>4
<1>6. ASSUME NEW i \in machine.falters, Falter(i)
      PROVE  WorldIs' /\ \A d \in Cards : NeverLeft(d)' => NeverLeft(d)
  BY <1>1, <1>6 DEF Falter, WorldIs, NeverLeft
<1> QED
  BY <1>1, <1>3, <1>4, <1>5, <1>6 DEF Changes

-----------------------------------------------------------------------------
(* The order NVML counts in, and the order Windows counts in. *)

(* The cards of a model, and those none of which has come or gone. *)
OfName(name) == {c \in Cards : Desc(c).name = name}
(* No card of this model has come or gone. *)
Steady(name) == \A c \in OfName(name) : NeverLeft(c)

(* What NVML found when it was loaded: NVIDIA's cards, every one of them   *)
(* that has been there since, in the order of the bus.                     *)
Loaded(devices, D) ==
  /\ D \subseteq Cards /\ Lists(devices, D, Along(machine.pci, Cards))
  /\ \A c \in D : Desc(c).name.vendor = "nvidia"
  /\ \A c \in Cards : Desc(c).name.vendor = "nvidia" /\ NeverLeft(c) => c \in D

(* Where Windows numbers a model as NVML does, the two orders agree on it. *)
LEMMA OrdersAgree ==
  ASSUME WorldIs, NEW name, Aligned(name), NEW c \in OfName(name), NEW d \in OfName(name)
  PROVE  <<c, d>> \in LargestFirst(Cards) <=> <<c, d>> \in Along(machine.pci, Cards)
<1> DEFINE T == OfName(name)
           s == Sorted(machine.order)
           p == machine.pci
           S == {i \in DOMAIN s : Desc(s[i]).name = name}
           P == {i \in DOMAIN p : Desc(p[i]).name = name}
<1>1. EachOnce(machine.order, Cards) /\ EachOnce(p, Cards) /\ \A x \in Cards : Size(x) \in Nat
  BY MachineIs DEF WorldIs
<1>2. Lists(s, Cards, LargestFirst(Cards))
  BY <1>1, ListsItself, ListsSorted
<1>3. Lists(p, Cards, Along(p, Cards))
  BY <1>1, ListsItself
<1>4. Picked(s, S) = Picked(p, P)
  <2>1. Filter(BySize(machine.order), LAMBDA x : Desc(x).name = name) = Filter(p, LAMBDA x : Desc(x).name = name)
    BY DEF Aligned
  <2>2. Filter(p, LAMBDA x : Desc(x).name = name) = Picked(p, P)
    BY DEF Filter
  <2>3. BySize(machine.order) = s
    BY SortIs
  <2>4. \A list : Filter(list, LAMBDA x : Desc(x).name = name)
                  = Picked(list, {i \in DOMAIN list : Desc(list[i]).name = name})
    BY DEF Filter
  <2> QED
    BY <2>1, <2>2, <2>3, <2>4
<1>5. {s[i] : i \in S} = T
  BY <1>2 DEF Lists, EachOnce, OfName
<1>6. {p[i] : i \in P} = T
  BY <1>3 DEF Lists, EachOnce, OfName
<1>7. Lists(Picked(s, S), T, LargestFirst(Cards))
  BY <1>2, <1>5, ListsPart
<1>8. Lists(Picked(s, S), T, Along(p, Cards))
  BY <1>3, <1>4, <1>6, ListsPart
<1> HIDE DEF T, S
<1> QED
  BY <1>7, <1>8, ListsAgree DEF T

(* The part of a list that is kept, where the rest is only filtered out.   *)
LEMMA FilterHandles ==
  ASSUME NEW D, Loaded(nvml'.devices, D)
  PROVE  Handles = <<>> \/ Lists(Handles, {c \in D : card[c].there}, Along(machine.pci, Cards))
<1> DEFINE q == nvml'.devices
           kept == {i \in DOMAIN q : card[q[i]].there}
<1>1. Lists(q, D, Along(machine.pci, Cards))
  BY DEF Loaded
<1>2. Handles = <<>> \/ Handles = Picked(q, kept)
  BY DEF Handles, Filter
<1>3. {q[i] : i \in kept} = {c \in D : card[c].there}
  BY <1>1 DEF Lists, EachOnce
<1>4. Lists(Picked(q, kept), {q[i] : i \in kept}, Along(machine.pci, Cards))
  BY <1>1, ListsPart
<1> QED
  BY <1>2, <1>3, <1>4

(* The devices of a model that has been there since NVML was loaded. *)
LEMMA MatchingIs ==
  ASSUME WorldIs, NEW D, Loaded(nvml'.devices, D), NEW name, name.vendor = "nvidia", Steady(name),
         name = [vendor |-> name.vendor, model |-> name.model],
         Handles # <<>>
  PROVE  Lists(Picked(Handles, {i \in DOMAIN Handles : Desc(Handles[i]).name.model = name.model}), OfName(name),
               Along(machine.pci, Cards))
<1> DEFINE H == {c \in D : card[c].there}
           kept == {i \in DOMAIN Handles : Desc(Handles[i]).name.model = name.model}
<1>1. Lists(Handles, H, Along(machine.pci, Cards))
  BY FilterHandles
<1>3. \A c \in D : Desc(c).name.model = name.model <=> Desc(c).name = name
  <2>1. \A c \in D : Desc(c).name = [vendor |-> "nvidia", model |-> Desc(c).name.model]
    BY MachineIs DEF Loaded, WorldIs, CardDescs
  <2> QED
    BY <2>1
<1>4. OfName(name) = {c \in H : Desc(c).name.model = name.model}
  BY <1>3 DEF OfName, Steady, Loaded, NeverLeft
<1>5. {Handles[i] : i \in kept} = OfName(name)
  BY <1>1, <1>4 DEF Lists, EachOnce
<1> HIDE DEF kept
<1> QED
  BY <1>1, <1>5, ListsPart DEF kept

(* As many twins are named before a card as NVML has before it. *)
LEMMA OrdinalIs ==
  ASSUME WorldIs, NEW name, Aligned(name), NEW q, NEW N \in SUBSET Cards, Lists(q, N, LargestFirst(Cards)),
         OfName(name) \subseteq N, NEW i \in DOMAIN q, Desc(q[i]).name = name,
         NEW list, DOMAIN list = DOMAIN q, \A j \in DOMAIN q : list[j].name = Desc(q[j]).name,
         NEW m, Lists(m, OfName(name), Along(machine.pci, Cards))
  PROVE  Ordinal(list, i) \in Nat /\ Ordinal(list, i) + 1 \in DOMAIN m /\ m[Ordinal(list, i) + 1] = q[i]
<1> DEFINE T == OfName(name)
           B == {j \in 1..i - 1 : list[j].name = list[i].name}
           A == {j \in 1..i : Desc(q[j]).name = name}
           C == {c \in T : <<c, q[i]>> \in Along(machine.pci, Cards)}
<1>1. q \in Seq(N) /\ i \in 1..Len(q) /\ DOMAIN q = 1..Len(q) /\ Len(q) \in Nat /\ q[i] \in T
  BY DEF Lists, EachOnce, OfName
<1>2. IsFiniteSet(A) /\ IsFiniteSet(B)
  <2>1. IsFiniteSet(1..i) /\ IsFiniteSet(1..i - 1)
    BY <1>1, UpTo
  <2> QED
    BY <2>1, FS_Subset
<1>3. A = B \cup {i} /\ i \notin B
  <2>1. \A j \in 1..i : j \in DOMAIN q /\ list[j].name = Desc(q[j]).name
    BY <1>1
  <2>2. \A j \in 1..i : j \in 1..i - 1 \/ j = i
    BY <1>1
  <2>3. \A j \in 1..i - 1 : j \in 1..i /\ j # i
    BY <1>1
  <2> QED
    BY <1>1, <2>1, <2>2, <2>3
<1>4. Cardinality(A) = Cardinality(B) + 1 /\ Cardinality(B) \in Nat
  <2> HIDE DEF A, B
  <2> QED
    BY <1>2, <1>3, FS_AddElement, FS_CardinalityType
<1>5. IsOneToOne(q, A, C)
  <2>1. ASSUME NEW j \in A PROVE q[j] \in C
    <3>1. j \in DOMAIN q /\ j <= i /\ q[j] \in T
      BY <1>1, <2>1 DEF OfName
    <3>2. <<q[j], q[i]>> \in LargestFirst(Cards)
      BY <1>1, <3>1 DEF Lists
    <3> QED
      BY <1>1, <3>1, <3>2, OrdersAgree
  <2>2. ASSUME NEW c \in C PROVE \E j \in A : q[j] = c
    <3>1. PICK j \in DOMAIN q : q[j] = c
      BY DEF Lists, EachOnce
    <3>2. <<c, q[i]>> \in LargestFirst(Cards)
      BY <1>1, OrdersAgree
    <3>3. j <= i
      BY <1>1, <3>1, <3>2 DEF Lists
    <3> QED
      BY <1>1, <3>1, <3>3 DEF OfName
  <2>3. \A j, k \in A : q[j] = q[k] => j = k
    <3>1. \A j \in A : j \in DOMAIN q
      BY <1>1
    <3> HIDE DEF A
    <3> QED
      BY <3>1 DEF Lists, EachOnce
  <2> HIDE DEF A, C
  <2> QED
    BY <2>1, <2>2, <2>3 DEF IsOneToOne
<1>6. Cardinality(C) = Cardinality(A)
  <2> HIDE DEF A, C
  <2> QED
    BY <1>2, <1>5, ImageIsAsLarge
<1>7. PICK k \in DOMAIN m : m[k] = q[i]
  <2>1. \A c \in OfName(name) : \E k \in DOMAIN m : m[k] = c
    BY DEF Lists, EachOnce
  <2>2. q[i] \in OfName(name)
    BY <1>1
  <2> QED
    BY <2>1, <2>2
<1>8. Cardinality(C) = k
  <2>1. Cardinality(UpIn(m[k], OfName(name), Along(machine.pci, Cards))) = k
    BY <1>7, ListsRank
  <2>2. C = UpIn(m[k], OfName(name), Along(machine.pci, Cards))
    BY <1>7 DEF UpIn
  <2> HIDE DEF C
  <2> QED
    BY <2>1, <2>2
<1>9. Ordinal(list, i) = Cardinality(B)
  BY DEF Ordinal
<1> HIDE DEF A, B, C
<1> QED
  BY <1>4, <1>6, <1>7, <1>8, <1>9

(* The device matched to a card by its model and its ordinal is that card. *)
LEMMA MatchIsOwn ==
  ASSUME WorldIs, NEW D, Loaded(nvml'.devices, D), NEW name, name.vendor = "nvidia", Steady(name), Aligned(name),
         NEW q, NEW N \in SUBSET Cards, Lists(q, N, LargestFirst(Cards)), OfName(name) \subseteq N,
         NEW i \in DOMAIN q, Desc(q[i]).name = name,
         NEW list, DOMAIN list = DOMAIN q, \A j \in DOMAIN q : list[j].name = Desc(q[j]).name
  PROVE  DeviceMatching(name, Ordinal(list, i)) \in {None, Some(q[i])}
<1> DEFINE m == Filter(Handles, LAMBDA c : Desc(c).name.model = name.model)
           o == Ordinal(list, i)
<1>1. DeviceMatching(name, o) =
        IF o < Len(m) THEN Some(m[o + 1]) ELSE IF Len(nvml'.devices) = 1 /\ o = 0 THEN Handles ELSE None
  BY DEF DeviceMatching
<1>2. CASE Handles = <<>>
  <2>1. m = Picked(<<>>, {})
    BY <1>2 DEF Filter
  <2>3. m = <<>>
    <3>1. Cardinality({}) = 0
      BY FS_EmptySet
    <3> QED
      BY <2>1, <3>1 DEF Picked
  <2>4. o \in Nat
    <3>1. IsFiniteSet(1..i - 1)
      <4>1. i \in Nat /\ i - 1 \in Nat
        BY DEF Lists, EachOnce
      <4> QED
        BY <4>1, UpTo
    <3> QED
      BY <3>1, FS_Subset, FS_CardinalityType DEF Ordinal
  <2>5. ~(o < Len(m))
    BY <2>3, <2>4
  <2>6. DeviceMatching(name, o) \in {None, Some(q[i])}
    <3> HIDE DEF m, o
    <3> QED
      BY <1>1, <1>2, <2>5 DEF None
  <2> QED
    BY <2>6
<1>3. CASE Handles # <<>>
  <2>1. name = [vendor |-> name.vendor, model |-> name.model]
    <3>1. q[i] \in Cards
      BY DEF Lists, EachOnce
    <3>2. Desc(q[i]) \in CardDescs
      BY <3>1, MachineIs DEF WorldIs
    <3> QED
      BY <3>2 DEF CardDescs
  <2>2. Lists(m, OfName(name), Along(machine.pci, Cards))
    <3>1. m = Picked(Handles, {j \in DOMAIN Handles : Desc(Handles[j]).name.model = name.model})
      BY DEF Filter
    <3> HIDE DEF m
    <3> QED
      BY <1>3, <2>1, <3>1, MatchingIs
  <2> HIDE DEF m
  <2>3. o \in Nat /\ o + 1 \in DOMAIN m /\ m[o + 1] = q[i]
    BY <2>2, OrdinalIs
  <2>4. o < Len(m)
    BY <2>2, <2>3 DEF Lists, EachOnce
  <2>5. DeviceMatching(name, o) = Some(q[i])
    <3> HIDE DEF o
    <3> QED
      BY <1>1, <2>3, <2>4 DEF Some
  <2> QED
    BY <2>5
<1> QED
  BY <1>2, <1>3

-----------------------------------------------------------------------------
(* Numbers and sums. *)

(* Induction, over a set in place of a predicate. *)
LEMMA NatSetInduction ==
  ASSUME NEW S, 0 \in S, \A n \in Nat : n \in S => n + 1 \in S
  PROVE  \A n \in Nat : n \in S
<1> SUFFICES ASSUME NEW n \in Nat, n \notin S PROVE FALSE
  OBVIOUS
<1> DEFINE T == Nat \ S
           Below == OpToRel(<, Nat)
<1>1. PICK x \in T : \A y \in T : ~ (<<y, x>> \in Below)
  BY NatLessThanWellFounded, WFMin
<1>2. x - 1 \in T /\ x - 1 < x
  OBVIOUS
<1>3. <<x - 1, x>> \in Below
  BY <1>2 DEF OpToRel
<1> HIDE DEF Below
<1> QED
  BY <1>1, <1>2, <1>3

(* A finite set of numbers has a largest. *)
LEMMA Shrinks ==
  ASSUME NEW S, IsFiniteSet(S), NEW T \in SUBSET S
  PROVE  /\ IsFiniteSet(T) /\ Cardinality(T) \in Nat /\ Cardinality(T) <= Cardinality(S)
         /\ Cardinality(T) = 0 <=> T = {}
         /\ \A x \in T : Cardinality(T \ {x}) = Cardinality(T) - 1
BY FS_Subset, FS_CardinalityType, FS_EmptySet, FS_RemoveElement

(* The maximum of a finite set of numbers is in it, and none is larger. *)
LEMMA LargestExists ==
  ASSUME NEW S \in SUBSET Nat, IsFiniteSet(S), S # {}
  PROVE  Max(S) \in S /\ \A x \in S : x <= Max(S)
<1> DEFINE HasMax(T) == \E m \in T : \A x \in T : x <= m
           N == {n \in Nat : \A T \in SUBSET S : Cardinality(T) = n /\ T # {} => HasMax(T)}
<1>1. 0 \in N
  BY Shrinks
<1>2. ASSUME NEW n \in Nat, n \in N PROVE n + 1 \in N
  <2>1. ASSUME NEW T \in SUBSET S, Cardinality(T) = n + 1, T # {} PROVE HasMax(T)
    <3>1. PICK y \in T : TRUE
      BY <2>1
    <3>2. T \ {y} \in SUBSET S /\ Cardinality(T \ {y}) = n
      <4>1. Cardinality(T \ {y}) = Cardinality(T) - 1
        BY <3>1, Shrinks
      <4> QED
        BY <2>1, <4>1
    <3>3. CASE T \ {y} = {}
      BY <3>1, <3>3
    <3>4. CASE T \ {y} # {}
      <4>1. PICK m \in T \ {y} : \A x \in T \ {y} : x <= m
        BY <1>2, <3>2, <3>4
      <4>2. CASE y <= m
        BY <4>1, <4>2
      <4>3. CASE m <= y
        <5>1. \A x \in T \ {y} : x \in Nat /\ x <= y
          BY <4>1, <4>3
        <5> QED
          BY <5>1
      <4> QED
        BY <4>2, <4>3
    <3> QED
      BY <3>3, <3>4
  <2> HIDE DEF HasMax
  <2> QED
    BY <2>1
<1> HIDE DEF N
<1>3. Cardinality(S) \in N
  BY <1>1, <1>2, NatSetInduction, Shrinks
<1>4. \E m \in S : \A x \in S : m >= x
  BY <1>3 DEF N
<1> QED
  BY <1>4 DEF Max

-----------------------------------------------------------------------------
(* A sum over a finite set takes out one element after the other. *)

(* g[T] is f summed over T, one chosen element after the other. *)
Folded(g, S, f, c) ==
  g = [T \in SUBSET S |-> IF T = {} THEN 0 ELSE f[c[T]] + g[T \ {c[T]}]]

(* The same for the sets of at most n elements. *)
FoldedUpTo(g, S, f, c, n) ==
  \A T \in SUBSET S :
    Cardinality(T) <= n => g[T] = IF T = {} THEN 0 ELSE f[c[T]] + g[T \ {c[T]}]

(* There is such a g, whatever is chosen. *)
LEMMA FoldExists ==
  ASSUME NEW S, IsFiniteSet(S), NEW f \in [S -> Nat], NEW c, \A T \in SUBSET S : T # {} => c[T] \in T
  PROVE  \E g \in [SUBSET S -> Nat] : Folded(g, S, f, c)
<1> DEFINE N == {n \in Nat : \E g \in [SUBSET S -> Nat] : FoldedUpTo(g, S, f, c, n)}
<1>1. 0 \in N
  <2> DEFINE g == [T \in SUBSET S |-> 0]
  <2>1. g \in [SUBSET S -> Nat]
    OBVIOUS
  <2>2. FoldedUpTo(g, S, f, c, 0)
    BY Shrinks DEF FoldedUpTo
  <2> HIDE DEF g
  <2> QED
    BY <2>1, <2>2
<1>2. ASSUME NEW n \in Nat, n \in N PROVE n + 1 \in N
  <2>1. PICK g \in [SUBSET S -> Nat] : FoldedUpTo(g, S, f, c, n)
    BY <1>2
  <2> DEFINE h == [T \in SUBSET S |-> IF T = {} THEN 0 ELSE f[c[T]] + g[T \ {c[T]}]]
  <2>2. h \in [SUBSET S -> Nat]
    OBVIOUS
  <2>3. ASSUME NEW T \in SUBSET S, Cardinality(T) <= n + 1, T # {}
        PROVE  h[T] = f[c[T]] + h[T \ {c[T]}]
    <3>1. T \ {c[T]} \in SUBSET S /\ Cardinality(T \ {c[T]}) <= n
      <4>1. Cardinality(T \ {c[T]}) = Cardinality(T) - 1 /\ Cardinality(T) \in Nat
        BY <2>3, Shrinks
      <4> QED
        BY <2>3, <4>1
    <3>2. h[T \ {c[T]}] = g[T \ {c[T]}]
      BY <2>1, <3>1 DEF FoldedUpTo
    <3> QED
      BY <2>3, <3>2
  <2>4. h[{}] = 0
    OBVIOUS
  <2>5. FoldedUpTo(h, S, f, c, n + 1)
    <3> HIDE DEF h
    <3> QED
      BY <2>3, <2>4 DEF FoldedUpTo
  <2> HIDE DEF h
  <2> QED
    BY <2>2, <2>5
<1> HIDE DEF N
<1>3. Cardinality(S) \in N
  BY <1>1, <1>2, NatSetInduction, Shrinks
<1>4. PICK g \in [SUBSET S -> Nat] : FoldedUpTo(g, S, f, c, Cardinality(S))
  BY <1>3 DEF N
<1>5. \A T \in SUBSET S : g[T] = IF T = {} THEN 0 ELSE f[c[T]] + g[T \ {c[T]}]
  BY <1>4, Shrinks DEF FoldedUpTo
<1>6. g = [T \in SUBSET S |-> g[T]]
  OBVIOUS
<1>7. [T \in SUBSET S |-> g[T]] = [T \in SUBSET S |-> IF T = {} THEN 0 ELSE f[c[T]] + g[T \ {c[T]}]]
  BY <1>5, Zenon
<1> QED
  BY <1>6, <1>7 DEF Folded

(* Its values are numbers. *)
LEMMA FoldType ==
  ASSUME NEW S, IsFiniteSet(S), NEW f \in [S -> Nat], NEW c, \A T \in SUBSET S : T # {} => c[T] \in T,
         NEW g, Folded(g, S, f, c)
  PROVE  g \in [SUBSET S -> Nat]
<1> DEFINE N == {n \in Nat : \A T \in SUBSET S : Cardinality(T) = n => g[T] \in Nat}
<1>1. \A T \in SUBSET S : g[T] = IF T = {} THEN 0 ELSE f[c[T]] + g[T \ {c[T]}]
  BY DEF Folded
<1>2. 0 \in N
  BY <1>1, Shrinks
<1>3. ASSUME NEW n \in Nat, n \in N PROVE n + 1 \in N
  <2>1. ASSUME NEW T \in SUBSET S, Cardinality(T) = n + 1 PROVE g[T] \in Nat
    <3>1. T # {}
      BY <2>1, Shrinks
    <3>2. Cardinality(T \ {c[T]}) = n
      BY <2>1, <3>1, Shrinks
    <3>3. g[T \ {c[T]}] \in Nat
      BY <1>3, <3>2
    <3>4. f[c[T]] \in Nat
      BY <3>1
    <3>5. g[T] = f[c[T]] + g[T \ {c[T]}]
      BY <1>1, <3>1
    <3> QED
      BY <3>3, <3>4, <3>5
  <2> QED
    BY <2>1
<1> HIDE DEF N
<1>4. \A n \in Nat : n \in N
  BY <1>2, <1>3, NatSetInduction
<1>5. \A T \in SUBSET S : g[T] \in Nat
  BY <1>4, Shrinks DEF N
<1> QED
  BY <1>5 DEF Folded

(* The values of instances. *)
Chosen(T) == CHOOSE x \in T : TRUE

(* The sum of a finite set of instances is a number, that of none is zero  *)
(* and that of one is its value.                                           *)
LEMMA SumIs ==
  ASSUME NEW S, IsFiniteSet(S), \A x \in S : x.value \in Nat
  PROVE  Sum(S) \in Nat /\ \A x : S = {x} => Sum(S) = x.value
<1> DEFINE c == [T \in SUBSET S |-> Chosen(T)]
           f == [x \in S |-> x.value]
           it == CHOOSE h : h = [T \in SUBSET S |-> IF T = {} THEN 0 ELSE Chosen(T).value + h[T \ {Chosen(T)}]]
<1>1. f \in [S -> Nat]
  OBVIOUS
<1>2. \A T \in SUBSET S : T # {} => Chosen(T) \in T
  BY DEF Chosen
<1>3. \A T \in SUBSET S : T # {} => c[T] \in T
  BY <1>2
<1>4. PICK g : Folded(g, S, f, c)
  <2> HIDE DEF c, f
  <2> QED
    BY <1>1, <1>3, FoldExists
<1>5. \A T \in SUBSET S : T # {} => c[T] = Chosen(T) /\ f[Chosen(T)] = Chosen(T).value
  BY <1>2
<1> HIDE DEF c, f
<1>6. \A h : h = [T \in SUBSET S |-> IF T = {} THEN 0 ELSE f[c[T]] + h[T \ {c[T]}]] <=>
             h = [T \in SUBSET S |-> IF T = {} THEN 0 ELSE Chosen(T).value + h[T \ {Chosen(T)}]]
  BY <1>5
<1>7. it = [T \in SUBSET S |-> IF T = {} THEN 0 ELSE Chosen(T).value + it[T \ {Chosen(T)}]]
  <2>1. g = [T \in SUBSET S |-> IF T = {} THEN 0 ELSE f[c[T]] + g[T \ {c[T]}]]
    BY <1>4 DEF Folded
  <2>2. g = [T \in SUBSET S |-> IF T = {} THEN 0 ELSE Chosen(T).value + g[T \ {Chosen(T)}]]
    BY <1>6, <2>1, Zenon
  <2> QED
    BY <2>2, Zenon
<1>8. Sum(S) = it[S]
  BY Zenon DEF Sum, MapThenSumSet, MapThenFoldSet, Chosen
<1> HIDE DEF it
<1>9. Folded(it, S, f, c)
  BY <1>6, <1>7, Zenon DEF Folded
<1>10. it \in [SUBSET S -> Nat]
  BY <1>1, <1>3, <1>9, FoldType
<1>11. ASSUME NEW x, S = {x} PROVE it[S] = x.value
  <2>1. Chosen(S) = x /\ S \ {x} = {} /\ x \in S
    BY <1>11 DEF Chosen
  <2>2. it[S] = x.value + it[{}] /\ it[{}] = 0
    BY <1>7, <1>11, <2>1
  <2> QED
    BY <2>1, <2>2
<1> QED
  BY <1>8, <1>10, <1>11

-----------------------------------------------------------------------------
(* The adapters a thread keeps. *)

(* A list of cards as OpenAll makes it: in its order, and with every card  *)
(* of an NVIDIA model that is steady and in it.                            *)
Covers(q, N) ==
  /\ N \subseteq Cards /\ Lists(q, N, LargestFirst(Cards))
  /\ \A c \in N : Desc(c).name.vendor = "nvidia" /\ Steady(Desc(c).name) => OfName(Desc(c).name) \subseteq N

(* A cached adapter. *)
Adapter == [of : Cards, luid : Nat \X Nat]
(* The cards of a list of adapters. *)
CardsOf(list) == [k \in DOMAIN list |-> list[k].of]
(* The adapters a thread has cached, if any, are as OpenAll made them. *)
AdaptersAre(list) ==
  /\ list \in Seq(Adapter)
  /\ list # <<>> => \E N : Covers(CardsOf(list), N)

(* The empty list is in any order. *)
LEMMA ListsNothing ==
  ASSUME NEW le
  PROVE  Lists(<<>>, {}, le)
BY DEF Lists, EachOnce

(* OpenAll makes them so: its filters keep or drop the twins of an NVIDIA  *)
(* model together.                                                         *)
LEMMA OpenAllIs ==
  ASSUME WorldIs
  PROVE  AdaptersAre(OpenAll)
<1> DEFINE o == machine.order
           le == Along(o, Cards)
           listed == IF "dxgi" \in up THEN Filter(o, IsListed) ELSE <<>>
           discrete == Filter(listed, LAMBDA c : ~Unified(c))
           part == IF discrete = <<>> THEN listed ELSE discrete
           kept == BySize(part)
           Steadily(N) == \A c \in N : Desc(c).name.vendor = "nvidia" /\ Steady(Desc(c).name) => OfName(Desc(c).name) \subseteq N
<1>1. /\ EachOnce(o, Cards) /\ \A c \in Cards : Size(c) \in Nat /\ Desc(c) \in CardDescs
      /\ \A c, d \in Cards : SameKind(Desc(c), Desc(d))
  BY MachineIs DEF WorldIs
<1>2. Lists(o, Cards, le)
  BY <1>1, ListsItself
<1>3. PICK L \in SUBSET Cards : Lists(listed, L, le) /\ Steadily(L)
  <2>1. CASE "dxgi" \in up
    <3> DEFINE K == {i \in DOMAIN o : IsListed(o[i])}
               M == {o[i] : i \in K}
    <3>1. listed = Picked(o, K)
      BY <2>1 DEF Filter
    <3>2. Lists(Picked(o, K), M, le)
      BY <1>2, ListsPart
    <3>3. M = {c \in Cards : IsListed(c)}
      BY <1>2 DEF Lists, EachOnce
    <3>4. Steadily({c \in Cards : IsListed(c)})
      <4>1. ASSUME NEW c \in Cards, IsListed(c), Desc(c).name.vendor = "nvidia", Steady(Desc(c).name),
                   NEW d \in OfName(Desc(c).name)
            PROVE  IsListed(d)
        <5>1. d \in Cards /\ card[d].there /\ Desc(d).name = Desc(c).name
          BY <4>1 DEF OfName, Steady, NeverLeft
        <5>2. SameKind(Desc(c), Desc(d)) /\ Desc(c) \in CardDescs /\ Desc(d) \in CardDescs
          BY <1>1, <5>1
        <5>3. /\ Desc(c).dedicated \in Nat /\ Desc(d).dedicated \in Nat
              /\ Desc(c).shared \in Nat /\ Desc(d).shared \in Nat
          BY <5>2 DEF CardDescs
        <5>4. ~Desc(d).software
          BY <4>1, <5>1, <5>2 DEF SameKind, IsListed
        <5>5. Size(d) > 0
          BY <4>1, <5>1, <5>2, <5>3 DEF SameKind, IsListed, Size, Unified
        <5> QED
          BY <5>1, <5>4, <5>5 DEF IsListed
      <4> QED
        BY <4>1 DEF OfName
    <3> HIDE DEF M, listed
    <3> QED
      BY <3>1, <3>2, <3>3, <3>4
  <2>2. CASE ~("dxgi" \in up)
    BY <2>2, ListsNothing
  <2> QED
    BY <2>1, <2>2
<1> HIDE DEF listed
<1>4. PICK D \in SUBSET Cards : Lists(discrete, D, le) /\ Steadily(D)
  <2> DEFINE K == {i \in DOMAIN listed : ~Unified(listed[i])}
             M == {listed[i] : i \in K}
  <2>1. discrete = Picked(listed, K)
    BY DEF Filter
  <2>2. Lists(Picked(listed, K), M, le)
    BY <1>3, ListsPart
  <2>3. M = {c \in L : ~Unified(c)}
    BY <1>3 DEF Lists, EachOnce
  <2>4. Steadily({c \in L : ~Unified(c)})
    BY <1>1, <1>3 DEF OfName, SameKind, Unified
  <2> HIDE DEF M, discrete
  <2> QED
    BY <2>1, <2>2, <2>3, <2>4
<1> HIDE DEF discrete
<1>5. PICK N \in SUBSET Cards : Lists(part, N, le) /\ Steadily(N)
  BY <1>3, <1>4
<1> HIDE DEF part
<1>6. Lists(kept, N, LargestFirst(Cards))
  BY <1>1, <1>5, SortIs, ListsSorted
<1> HIDE DEF kept
<1>7. kept \in Seq(N)
  BY <1>6 DEF Lists, EachOnce
<1>8. OpenAll = [k \in DOMAIN kept |-> [of |-> kept[k], luid |-> card[kept[k]].luid]]
  BY DEF OpenAll, kept, part, discrete, listed
<1>9. OpenAll \in Seq(Adapter)
  <2>1. \A k \in DOMAIN kept : kept[k] \in Cards /\ card[kept[k]].luid \in Nat \X Nat
    BY <1>7 DEF WorldIs, CardStates
  <2>2. \A k \in DOMAIN kept : [of |-> kept[k], luid |-> card[kept[k]].luid] \in Adapter
    BY <2>1 DEF Adapter
  <2>3. DOMAIN kept = 1..Len(kept) /\ Len(kept) \in Nat
    BY <1>7
  <2> QED
    BY <1>8, <2>2, <2>3
<1>10. CardsOf(OpenAll) = kept
  <2>1. CardsOf(OpenAll) = [k \in DOMAIN kept |-> kept[k]]
    BY <1>8 DEF CardsOf
  <2> QED
    BY <1>7, <2>1
<1> QED
  BY <1>5, <1>6, <1>9, <1>10 DEF AdaptersAre, Covers

-----------------------------------------------------------------------------
(* NVML. *)

(* NVML has found what it found when it was loaded. *)
NvmlIs == nvml.state \in {"unset", "none", "some"} /\ (nvml.state = "some" => \E D : Loaded(nvml.devices, D))

(* Loading it finds that, whatever the machine is like by then. *)
LEMMA LoadNvmlIs ==
  ASSUME WorldIs, NvmlIs
  PROVE  LoadNvml.state \in {"none", "some"} /\ (LoadNvml.state = "some" => \E D : Loaded(LoadNvml.devices, D))
<1> DEFINE p == machine.pci
           K == {i \in DOMAIN p : Desc(p[i]).name.vendor = "nvidia" /\ card[p[i]].there}
           D == {p[i] : i \in K}
           found == Filter(p, LAMBDA c : Desc(c).name.vendor = "nvidia" /\ card[c].there)
<1>1. EachOnce(p, Cards)
  BY MachineIs DEF WorldIs
<1>2. Lists(p, Cards, Along(p, Cards))
  BY <1>1, ListsItself
<1>3. found = Picked(p, K)
  BY DEF Filter
<1>4. Lists(Picked(p, K), D, Along(p, Cards))
  BY <1>2, ListsPart
<1>5. D = {c \in Cards : Desc(c).name.vendor = "nvidia" /\ card[c].there}
  BY <1>2 DEF Lists, EachOnce
<1> HIDE DEF D
<1>6. Loaded(found, D)
  <2> HIDE DEF found
  <2> QED
    BY <1>3, <1>4, <1>5 DEF Loaded, NeverLeft
<1>7. LoadNvml = IF nvml.state # "unset" THEN nvml
                 ELSE IF "nvml" \in up THEN [state |-> "some", devices |-> found]
                 ELSE [state |-> "none", devices |-> <<>>]
  BY DEF LoadNvml
<1> HIDE DEF found
<1> QED
  BY <1>6, <1>7 DEF NvmlIs

-----------------------------------------------------------------------------
(* What PDH reports. *)

(* The image of a finite set is finite. *)
LEMMA ImageIsFinite ==
  ASSUME NEW S, IsFiniteSet(S), NEW f, DOMAIN f = S
  PROVE  IsFiniteSet({f[x] : x \in S})
<1> DEFINE T == {f[x] : x \in S}
           g == [x \in S |-> f[x]]
<1>1. g \in Surjection(S, T)
  BY DEF Surjection
<1> HIDE DEF g, T
<1>2. IsFiniteSet(T)
  BY <1>1, FS_Surjection
<1> QED
  BY <1>2 DEF T

(* The counters PDH is asked for. *)
Counters == {"dedicated", "shared", "engine"}

(* The instances of a card are finitely many and carry its LUID. *)
LEMMA InstancesOfAre ==
  ASSUME WorldIs, NEW counter \in Counters, NEW c \in Cards
  PROVE  /\ IsFiniteSet(InstancesOf(counter, c))
         /\ \A i \in InstancesOf(counter, c) : i.value \in Nat /\ i.luid = card[c].luid
<1>1. card[c].used \in Nat /\ Desc(c).spill \in Nat /\ Desc(c).work \in Seq([engine : STRING, value : Nat])
  BY MachineIs DEF WorldIs, CardDescs, CardStates
<1>2. CASE counter # "engine"
  <2> DEFINE n == IF counter = "shared" THEN IF Unified(c) THEN card[c].used ELSE Desc(c).spill
                  ELSE IF Unified(c) THEN 0 ELSE card[c].used
             x == [luid |-> card[c].luid, value |-> n]
  <2>1. InstancesOf(counter, c) = {x}
    BY <1>2 DEF InstancesOf, Counters
  <2>2. n \in Nat
    BY <1>1
  <2> HIDE DEF n
  <2>3. x.value \in Nat /\ x.luid = card[c].luid
    BY <2>2
  <2> HIDE DEF x
  <2> QED
    BY <2>1, <2>3, FS_Singleton
<1>4. CASE counter = "engine"
  <2> DEFINE I == IF card[c].used = 0 THEN {} ELSE DOMAIN Desc(c).work
             f == [i \in I |-> [luid |-> card[c].luid, engine |-> Desc(c).work[i].engine,
                                value |-> Desc(c).work[i].value, id |-> i]]
  <2>1. IsFiniteSet(I)
    <3>1. IsFiniteSet(DOMAIN Desc(c).work)
      <4>1. DOMAIN Desc(c).work = 1..Len(Desc(c).work) /\ Len(Desc(c).work) \in Nat
        BY <1>1
      <4> QED
        BY <4>1, UpTo
    <3> QED
      BY <3>1, FS_EmptySet
  <2>2. \A i \in I : f[i].value \in Nat /\ f[i].luid = card[c].luid
    <3>1. \A i \in DOMAIN Desc(c).work : Desc(c).work[i] \in [engine : STRING, value : Nat]
      <4> DEFINE w == Desc(c).work
                 R == [engine : STRING, value : Nat]
      <4>1. w \in Seq(R)
        BY <1>1
      <4> HIDE DEF w, R
      <4>2. \A i \in DOMAIN w : w[i] \in R
        BY <4>1
      <4> QED
        BY <4>2 DEF w, R
    <3>2. \A i \in I : i \in DOMAIN Desc(c).work
      OBVIOUS
    <3> HIDE DEF I
    <3> QED
      BY <3>1, <3>2
  <2>3. InstancesOf(counter, c) = {f[i] : i \in I}
    BY <1>4 DEF InstancesOf
  <2>4. DOMAIN f = I
    OBVIOUS
  <2> HIDE DEF I, f
  <2> QED
    BY <2>1, <2>2, <2>3, <2>4, ImageIsFinite
<1> QED
  BY <1>2, <1>4

(* So are those of a counter; and those with one LUID are of one card. *)
LEMMA InstancesAre ==
  ASSUME WorldIs, NEW counter \in Counters
  PROVE  /\ IsFiniteSet(Instances(counter))
         /\ \A i \in Instances(counter) : i.value \in Nat
         /\ \A i : i \in Instances(counter) <=> \E c \in Present : i \in InstancesOf(counter, c)
<1> DEFINE f == [c \in Present |-> InstancesOf(counter, c)]
<1>1. Instances(counter) = UNION {f[c] : c \in Present}
  <2>1. Instances(counter) = UNION {InstancesOf(counter, c) : c \in Present}
    BY Zenon DEF Instances
  <2>2. {InstancesOf(counter, c) : c \in Present} = {f[c] : c \in Present}
    OBVIOUS
  <2> QED
    BY <2>1, <2>2
<1>2. IsFiniteSet(Present)
  BY MachineIs, FS_Subset DEF WorldIs, Present
<1>3. \A c \in Present : IsFiniteSet(f[c])
  BY InstancesOfAre DEF Present
<1>4. IsFiniteSet({f[c] : c \in Present})
  <2>1. DOMAIN f = Present
    OBVIOUS
  <2> HIDE DEF f
  <2> QED
    BY <1>2, <2>1, ImageIsFinite
<1>5. IsFiniteSet(UNION {f[c] : c \in Present})
  <2> HIDE DEF f
  <2> QED
    BY <1>3, <1>4, FS_UNION
<1>6. \A i : i \in Instances(counter) <=> \E c \in Present : i \in InstancesOf(counter, c)
  BY <1>1
<1> QED
  BY <1>1, <1>5, <1>6, InstancesOfAre DEF Present

(* The counter that measures a card, and what it says of it. *)
Measure(c) == IF Unified(c) THEN "shared" ELSE "dedicated"

(* What a card's memory in use is measured with. *)
LEMMA MeasureIs ==
  ASSUME WorldIs, NEW c \in Present
  PROVE  {i \in Instances(Measure(c)) : i.luid = card[c].luid} = {[luid |-> card[c].luid, value |-> card[c].used]}
<1>1. Measure(c) \in Counters /\ c \in Cards
  BY DEF Measure, Counters, Present
<1>2. InstancesOf(Measure(c), c) = {[luid |-> card[c].luid, value |-> card[c].used]}
  BY DEF Measure, InstancesOf
<1>3. ASSUME NEW d \in Present, d # c, NEW i \in InstancesOf(Measure(c), d)
      PROVE  i.luid # card[c].luid
  BY <1>1, <1>3, InstancesOfAre DEF Present, WorldIs
<1>4. \A i \in InstancesOf(Measure(c), c) : i.luid = card[c].luid
  BY <1>1, InstancesOfAre
<1> QED
  BY <1>1, <1>2, <1>3, <1>4, InstancesAre

(* The memory of a LUID is a number, unknown only when PDH reports         *)
(* nothing.                                                                *)
LEMMA MemoryUsedIs ==
  ASSUME WorldIs, NEW counter \in {"dedicated", "shared"}, NEW luid
  PROVE  /\ MemoryUsed(counter, luid) \in Seq(Nat)
         /\ MemoryUsed(counter, luid) = None <=> Present = {}
<1> DEFINE S == {i \in Instances(counter) : i.luid = luid}
<1>1. counter \in Counters
  BY DEF Counters
<1>2. IsFiniteSet(S) /\ \A i \in S : i.value \in Nat
  BY <1>1, InstancesAre, FS_Subset
<1>3. Sum(S) \in Nat
  <2> HIDE DEF S
  <2> QED
    BY <1>2, SumIs
<1>4. MemoryUsed(counter, luid) = IF Instances(counter) = {} THEN None ELSE Some(Sum(S))
  BY DEF MemoryUsed, OfLuid, None, Some
<1>5. Instances(counter) = {} <=> Present = {}
  <2>1. \A c \in Present : InstancesOf(counter, c) # {}
    BY DEF InstancesOf
  <2> QED
    BY <1>1, <2>1, InstancesAre
<1> HIDE DEF S
<1> QED
  BY <1>3, <1>4, <1>5 DEF None, Some

(* What is summed for a present card's LUID is that card's memory, and no  *)
(* other card's (windows.rs matches instances to adapters by LUID).        *)
LEMMA MeasuredIs ==
  ASSUME WorldIs, NEW c \in Present
  PROVE  MemoryUsed(Measure(c), card[c].luid) = Some(card[c].used)
<1> DEFINE x == [luid |-> card[c].luid, value |-> card[c].used]
           S == {i \in Instances(Measure(c)) : i.luid = card[c].luid}
<1>1. S = {x}
  BY MeasureIs
<1>2. card[c].used \in Nat
  BY DEF Present, WorldIs, CardStates
<1>3. Sum(S) = card[c].used
  <2>1. IsFiniteSet({x}) /\ \A i \in {x} : i.value \in Nat
    <3>1. x.value \in Nat
      BY <1>2
    <3> HIDE DEF x
    <3> QED
      BY <3>1, FS_Singleton
  <2>2. Sum({x}) = x.value
    <3> HIDE DEF x
    <3> QED
      BY <2>1, SumIs
  <2> QED
    BY <1>1, <2>2
<1>4. Instances(Measure(c)) # {}
  BY <1>1
<1>5. MemoryUsed(Measure(c), card[c].luid) = Some(Sum(S))
  BY <1>4 DEF MemoryUsed, OfLuid, None, Some
<1> HIDE DEF S
<1> QED
  BY <1>3, <1>5

(* What the busiest engine does is a percentage, however many processes    *)
(* are summed.                                                             *)
LEMMA BusiestIs ==
  ASSUME WorldIs, NEW luid
  PROVE  /\ BusiestEngine(luid) \in Seq(Nat) /\ OrElse(BusiestEngine(luid), 0) \in 0..100
         /\ Present = {} => BusiestEngine(luid) = None
<1> DEFINE mine == OfLuid("engine", luid)[1]
           types == {EngineType(i.engine) : i \in mine}
           Busy(e) == Sum({i \in mine : EngineType(i.engine) = e})
           S == {0} \cup {Busy(e) : e \in types}
           n == AtMost(100, Max(S))
<1>1. "engine" \in Counters
  BY DEF Counters
<1>2. ASSUME Instances("engine") # {}
      PROVE  IsFiniteSet(mine) /\ \A i \in mine : i.value \in Nat
  <2>1. mine = {i \in Instances("engine") : i.luid = luid}
    BY <1>2 DEF OfLuid, Some
  <2> QED
    BY <1>1, <2>1, InstancesAre, FS_Subset
<1>3. BusiestEngine(luid) = IF OfLuid("engine", luid) = None THEN None ELSE Some(n)
  BY Zenon DEF BusiestEngine
<1>31. OfLuid("engine", luid) = None <=> Instances("engine") = {}
  BY DEF OfLuid, None, Some
<1>4. Present = {} => Instances("engine") = {}
  BY <1>1, InstancesAre
<1>5. ASSUME Instances("engine") # {}
      PROVE  n \in 0..100
  <2>1. \A e : IsFiniteSet({i \in mine : EngineType(i.engine) = e}) /\ \A i \in {j \in mine : EngineType(j.engine) = e} : i.value \in Nat
    <3> HIDE DEF mine
    <3> QED
      BY <1>2, <1>5, FS_Subset
  <2>2. \A e : Busy(e) \in Nat
    <3> HIDE DEF mine
    <3> QED
      BY <2>1, SumIs
  <2> DEFINE ty == [i \in mine |-> EngineType(i.engine)]
             b == [e \in types |-> Busy(e)]
  <2>3. IsFiniteSet({ty[i] : i \in mine})
    <3>1. DOMAIN ty = mine
      OBVIOUS
    <3> HIDE DEF ty, mine
    <3> QED
      BY <1>2, <1>5, <3>1, ImageIsFinite
  <2>4. types = {ty[i] : i \in mine}
    OBVIOUS
  <2>5. IsFiniteSet({b[e] : e \in types})
    <3>1. DOMAIN b = types /\ IsFiniteSet(types)
      BY <2>3, <2>4
    <3> HIDE DEF b, types
    <3> QED
      BY <3>1, ImageIsFinite
  <2>6. S = {0} \cup {b[e] : e \in types}
    OBVIOUS
  <2>7. S \in SUBSET Nat
    <3>1. \A e \in types : b[e] \in Nat
      BY <2>2
    <3> HIDE DEF S, b, types
    <3> QED
      BY <2>6, <3>1
  <2>8. IsFiniteSet(S)
    <3> HIDE DEF S, b, types
    <3> QED
      BY <2>5, <2>6, FS_Singleton, FS_Union
  <2>9. 0 \in S
    OBVIOUS
  <2> HIDE DEF S
  <2>10. Max(S) \in S /\ \A x \in S : x <= Max(S)
    BY <2>7, <2>8, <2>9, LargestExists
  <2>11. Max(S) \in Nat
    BY <2>7, <2>10
  <2> QED
    BY <2>11 DEF AtMost
<1> HIDE DEF n
<1>6. CASE Instances("engine") = {}
  BY <1>3, <1>31, <1>6 DEF None, OrElse
<1>7. CASE Instances("engine") # {}
  <2>1. BusiestEngine(luid) = <<n>> /\ n \in 0..100
    BY <1>3, <1>31, <1>5, <1>7 DEF Some
  <2>2. <<n>> \in Seq(Nat) /\ <<n>> # <<>> /\ <<n>>[1] = n
    BY <2>1
  <2> QED
    BY <1>4, <1>7, <2>1, <2>2 DEF None, OrElse
<1> QED
  BY <1>6, <1>7

-----------------------------------------------------------------------------
(* Parts of lists. *)

(* Optional values, and the parts of a list. *)
LEMMA Options ==
  /\ \A S : None \in Seq(S)
  /\ \A S : \A v \in S : Some(v) \in Seq(S)
  /\ \A v : Some(v) # None /\ Some(v)[1] = v
  /\ \A v, d : OrElse(Some(v), d) = v
  /\ \A d : OrElse(None, d) = d
BY DEF None, Some, OrElse

(* What is picked is from the list, and nothing only when no place is      *)
(* kept.                                                                   *)
LEMMA PickedFrom ==
  ASSUME NEW S, NEW s \in Seq(S), NEW kept \in SUBSET DOMAIN s
  PROVE  /\ Picked(s, kept) \in Seq(S)
         /\ \A k \in DOMAIN Picked(s, kept) : \E i \in kept : Picked(s, kept)[k] = s[i]
         /\ kept = {} <=> Picked(s, kept) = <<>>
<1>1. PICK n, e : PickedBy(e, n, s, kept)
  BY PickedIs
<1>2. /\ Picked(s, kept) = [k \in 1..n |-> s[e[k]]] /\ n \in Nat /\ \A k \in 1..n : e[k] \in kept
      /\ \A i \in kept : \E k \in 1..n : e[k] = i
  BY <1>1 DEF PickedBy, Enumerates
<1>3. \A k \in 1..n : s[e[k]] \in S
  BY <1>2
<1>4. kept = {} <=> n = 0
  <2>1. n # 0 => 1 \in 1..n
    BY <1>2
  <2>2. n = 0 => 1..n = {}
    BY <1>2
  <2> QED
    BY <1>2, <2>1, <2>2
<1>5. n = 0 <=> [k \in 1..n |-> s[e[k]]] = <<>>
  <2>1. CASE n = 0
    BY <2>1
  <2>2. CASE n # 0
    <3>1. 1 \in DOMAIN [k \in 1..n |-> s[e[k]]]
      BY <1>2, <2>2
    <3> QED
      BY <2>2, <3>1
  <2> QED
    BY <2>1, <2>2
<1> DEFINE p == Picked(s, kept)
<1>6. p = [k \in 1..n |-> s[e[k]]] /\ n \in Nat
  BY <1>2
<1> HIDE DEF p
<1>7. p \in Seq(S) /\ DOMAIN p = 1..n
  <2>1. DOMAIN p = 1..n
    BY <1>6
  <2>2. \A k \in 1..n : p[k] \in S
    BY <1>3, <1>6
  <2>3. p \in [1..n -> S]
    BY <1>6, <2>2
  <2> QED
    BY <1>6, <2>1, <2>3
<1>8. \A k \in DOMAIN p : \E i \in kept : p[k] = s[i]
  BY <1>2, <1>6
<1>9. kept = {} <=> p = <<>>
  BY <1>4, <1>5, <1>6
<1> QED
  BY <1>7, <1>8, <1>9 DEF p

(* From no place nothing is picked. *)
LEMMA PickedNone == \A s : Picked(s, {}) = <<>>
<1>1. Cardinality({}) = 0
  BY FS_EmptySet
<1> QED
  BY <1>1 DEF Picked

(* From every place, the list. *)
LEMMA PickedAll ==
  ASSUME NEW S, NEW s \in Seq(S)
  PROVE  Picked(s, DOMAIN s) = s /\ Picked(s, {}) = <<>>
<1>1. DOMAIN s = 1..Len(s) /\ Len(s) \in Nat
  OBVIOUS
<1> DEFINE n == Len(s)
<1>2. Cardinality(DOMAIN s) = n
  BY <1>1, UpTo
<1>3. ASSUME NEW i \in 1..n PROVE Cardinality({j \in DOMAIN s : j <= i}) = i
  <2>1. {j \in DOMAIN s : j <= i} = 1..i /\ i \in Nat
    BY <1>1
  <2> QED
    BY <2>1, UpTo
<1>4. \A k \in 1..n : (CHOOSE i \in DOMAIN s : Cardinality({j \in DOMAIN s : j <= i}) = k) = k
  BY <1>1, <1>3
<1>5. Picked(s, DOMAIN s) = [k \in 1..n |-> s[CHOOSE i \in DOMAIN s : Cardinality({j \in DOMAIN s : j <= i}) = k]]
  BY <1>2 DEF Picked
<1>6. [k \in 1..n |-> s[CHOOSE i \in DOMAIN s : Cardinality({j \in DOMAIN s : j <= i}) = k]] = [k \in 1..n |-> s[k]]
  <2> DEFINE e == [k \in 1..n |-> CHOOSE i \in DOMAIN s : Cardinality({j \in DOMAIN s : j <= i}) = k]
  <2>1. \A k \in 1..n : e[k] = k
    BY <1>4
  <2>2. [k \in 1..n |-> s[CHOOSE i \in DOMAIN s : Cardinality({j \in DOMAIN s : j <= i}) = k]] = [k \in 1..n |-> s[e[k]]]
    OBVIOUS
  <2> HIDE DEF e, n
  <2> QED
    BY <2>1, <2>2
<1>7. s = [k \in 1..n |-> s[k]]
  BY <1>1
<1> QED
  BY <1>5, <1>6, <1>7, PickedNone

-----------------------------------------------------------------------------
(* Readings. *)

(* The readings there may be. *)
Readings ==
  [of : Cards, truth : CardStates, name : [vendor : STRING, model : STRING], util : Seq(Nat), used : Seq(Nat),
   total : Seq(Nat), spilled : Seq(Nat), sensors : Seq(Cards)]

(* The LUID a list of adapters has of a card is the one it was read with. *)
Current(list, r) == \A i \in DOMAIN list : list[i].of = r.of => list[i].luid = r.truth.luid

(* A reading is of its card; its sensors are. *)
TruthOf(list, r) ==
  /\ r \in Readings /\ r.name = Desc(r.of).name
  /\ (r.used # None /\ r.truth.there /\ Current(list, r)) => r.used[1] = r.truth.used
  /\ OrElse(r.util, 0) \in 0..100
  /\ machine.os # "macos" => OrElse(r.total, 0) \in {0, Size(r.of)}

(* The sensors of card c may be given to a reading of this name: it is an  *)
(* NVIDIA card of its model, or there is no other that never left.         *)
MayBeOf(c, name) ==
  /\ IsNvidia(c)
  /\ \/ Desc(c).name.model = name.model
     \/ \A d \in Cards : IsNvidia(d) /\ NeverLeft(d) => d = c

(* A reading's sensors are such a card's, and where the numbering of its   *)
(* model agrees they are of its card.                                      *)
SensesOwn(r) ==
  r.sensors # None =>
    /\ MayBeOf(r.sensors[1], r.name)
    /\ (r.name.vendor = "nvidia" /\ Aligned(r.name) /\ Steady(r.name)) => r.sensors = Some(r.of)

(* What a reading says is what it was made of. *)
LEMMA ReadingIs ==
  ASSUME WorldIs, NEW c \in Cards, NEW util \in Seq(Nat), NEW used \in Seq(Nat), NEW total \in Seq(Nat),
         NEW spilled \in Seq(Nat), NEW sensors \in Seq(Cards)
  PROVE  LET r == Reading(c, util, used, total, spilled, sensors)
         IN /\ r \in Readings /\ r.of = c /\ r.truth = card[c] /\ r.name = Desc(c).name
            /\ r.util = util /\ r.used = used /\ r.total = total /\ r.sensors = sensors
<1>1. card[c] \in CardStates /\ Desc(c).name \in [vendor : STRING, model : STRING]
  BY MachineIs DEF WorldIs, CardDescs
<1> QED
  BY <1>1 DEF Reading, Readings

(* A sample is true of its adapter's card. Which card is sampled does not  *)
(* decide whether it is empty.                                             *)
LEMMA SampleIs ==
  ASSUME WorldIs, NEW collected \in BOOLEAN, NEW list \in Seq(Adapter), NEW i \in DOMAIN list
  PROVE  LET r == Sample(collected, list[i])
         IN /\ TruthOf(list, r) /\ r.of = list[i].of /\ r.sensors = None
            /\ IsEmpty(r) <=> (~collected \/ Present = {})
            /\ OrElse(r.total, 0) = Size(r.of)
<1> DEFINE a == list[i]
           c == a.of
           r == Sample(collected, a)
           used == MemoryUsed(Measure(c), a.luid)
           busy == BusiestEngine(a.luid)
           spill == IF Unified(c) THEN None ELSE MemoryUsed("shared", a.luid)
<1>1. a \in Adapter
  OBVIOUS
<1>2. c \in Cards
  BY <1>1 DEF Adapter
<1>3. Size(c) \in Nat /\ Some(Size(c)) \in Seq(Nat) /\ None \in Seq(Nat) /\ None \in Seq(Cards)
  BY <1>2, MachineIs, Options DEF WorldIs
<1>4. /\ used \in Seq(Nat) /\ (used = None <=> Present = {})
      /\ spill \in Seq(Nat)
  BY <1>3, MemoryUsedIs DEF Measure
<1>5. busy \in Seq(Nat) /\ OrElse(busy, 0) \in 0..100 /\ (Present = {} => busy = None)
  BY BusiestIs
<1>6. CASE ~collected
  <2>1. r = Reading(c, None, None, Some(Size(c)), None, None)
    BY <1>6 DEF Sample
  <2>2. /\ r \in Readings /\ r.of = c /\ r.name = Desc(c).name /\ r.util = None /\ r.used = None
        /\ r.total = Some(Size(c)) /\ r.sensors = None
    BY <1>2, <1>3, <2>1, ReadingIs
  <2> HIDE DEF r
  <2>3. OrElse(r.util, 0) = 0 /\ OrElse(r.total, 0) = Size(r.of)
    BY <2>2, Options
  <2> QED
    BY <1>6, <2>2, <2>3 DEF TruthOf, IsEmpty, r
<1>7. CASE collected
  <2>1. r = Reading(c, busy, used, Some(Size(c)), spill, None)
    BY <1>7 DEF Sample, Measure
  <2> HIDE DEF used, busy, spill
  <2>2. /\ r \in Readings /\ r.of = c /\ r.truth = card[c] /\ r.name = Desc(c).name /\ r.util = busy /\ r.used = used
        /\ r.total = Some(Size(c)) /\ r.sensors = None
    <3>1. /\ c \in Cards /\ busy \in Seq(Nat) /\ used \in Seq(Nat) /\ Some(Size(c)) \in Seq(Nat)
          /\ spill \in Seq(Nat) /\ None \in Seq(Cards)
      BY <1>2, <1>3, <1>4, <1>5
    <3> HIDE DEF r, c, a
    <3> QED
      BY <2>1, <3>1, ReadingIs
  <2> HIDE DEF r
  <2>3. OrElse(r.total, 0) = Size(r.of)
    BY <2>2, Options
  <2>4. ASSUME r.used # None, r.truth.there, Current(list, r)
        PROVE  r.used[1] = r.truth.used
    <3>1. c \in Present /\ a.luid = card[c].luid
      BY <1>2, <2>2, <2>4 DEF Present, Current
    <3>2. used = Some(card[c].used)
      BY <3>1, MeasuredIs DEF used
    <3> QED
      BY <2>2, <3>2, Options
  <2> QED
    BY <1>4, <1>5, <1>7, <2>2, <2>3, <2>4 DEF TruthOf, IsEmpty, r
<1> QED
  BY <1>6, <1>7

-----------------------------------------------------------------------------
(* Lists of readings. *)

(* One sample of each of the adapters a. *)
Sampled(list, a) == \E collected \in BOOLEAN : list = [i \in DOMAIN a |-> Sample(collected, a[i])]

(* A list of samples is true, and of its adapters in their order. *)
LEMMA SamplesAre ==
  ASSUME WorldIs, NEW a \in Seq(Adapter), NEW list, Sampled(list, a)
  PROVE  /\ list \in Seq(Readings) /\ DOMAIN list = DOMAIN a
         /\ \A i \in DOMAIN list : TruthOf(a, list[i]) /\ list[i].of = a[i].of /\ list[i].sensors = None
         /\ \A i, j \in DOMAIN list : IsEmpty(list[i]) => IsEmpty(list[j])
<1>1. PICK collected \in BOOLEAN : list = [i \in DOMAIN a |-> Sample(collected, a[i])]
  BY DEF Sampled
<1>2. \A i \in DOMAIN a : list[i] = Sample(collected, a[i])
  BY <1>1
<1>3. \A i \in DOMAIN a : /\ TruthOf(a, list[i]) /\ list[i].of = a[i].of /\ list[i].sensors = None
                          /\ IsEmpty(list[i]) <=> (~collected \/ Present = {})
  BY <1>2, SampleIs
<1>4. \A i \in DOMAIN a : Sample(collected, a[i]) \in Readings
  BY <1>2, <1>3 DEF TruthOf
<1>5. DOMAIN a = 1..Len(a) /\ Len(a) \in Nat
  OBVIOUS
<1>6. list \in Seq(Readings) /\ DOMAIN list = DOMAIN a
  BY <1>1, <1>4, <1>5
<1>7. \A i, j \in DOMAIN list : IsEmpty(list[i]) => IsEmpty(list[j])
  BY <1>3, <1>6
<1> QED
  BY <1>3, <1>6, <1>7

(* Dropping the empty samples drops all or none, which keeps the order of  *)
(* the adapters for the ordinals NVML is asked with.                       *)
LEMMA AllOrNone ==
  ASSUME WorldIs, NEW a \in Seq(Adapter), NEW list, Sampled(list, a)
  PROVE  Filter(list, LAMBDA x : ~IsEmpty(x)) \in {<<>>, list}
<1> DEFINE kept == {i \in DOMAIN list : ~IsEmpty(list[i])}
<1>1. Filter(list, LAMBDA x : ~IsEmpty(x)) = Picked(list, kept)
  BY DEF Filter
<1>2. list \in Seq(Readings) /\ (kept = {} \/ kept = DOMAIN list)
  BY SamplesAre
<1>3. Picked(list, kept) \in {<<>>, list}
  <2> HIDE DEF kept
  <2> QED
    BY <1>2, PickedAll, PickedNone
<1> QED
  BY <1>1, <1>3

(* Every reading of a list is true of its card. *)
AllTrue(a, list) == list \in Seq(Readings) /\ \A i \in DOMAIN list : TruthOf(a, list[i])
(* No two readings of one name have the same sensors. *)
AreShared(list, i, j) == i # j /\ list[j].name = list[i].name /\ list[i].sensors # None /\ list[j].sensors = list[i].sensors
NoneShared(list) == \A i, j \in DOMAIN list : ~AreShared(list, i, j)

(* Every reading of a list has sensors of its own. *)
AllOwn(list) == (\A i \in DOMAIN list : SensesOwn(list[i])) /\ NoneShared(list)

(* The sensors NVML adds. *)
Enriched(rich, list) ==
  rich = [i \in DOMAIN list |-> [list[i] EXCEPT !.sensors = DeviceMatching(list[i].name, Ordinal(list, i))]]

(* The devices NVML answers for are NVIDIA cards it was loaded with, each  *)
(* of them once.                                                           *)
LEMMA HandlesAre ==
  ASSUME NEW D, Loaded(nvml'.devices, D) \/ Handles = <<>>
  PROVE  /\ Handles \in Seq(Cards) /\ \A k \in DOMAIN Handles : IsNvidia(Handles[k])
         /\ \A k, l \in DOMAIN Handles : Handles[k] = Handles[l] => k = l
         /\ Handles # <<>> => \A k \in DOMAIN Handles : Handles[k] \in D
<1>1. CASE Handles = <<>>
  BY <1>1
<1>2. CASE Handles # <<>>
  <2>1. /\ Lists(Handles, {c \in D : card[c].there}, Along(machine.pci, Cards)) /\ D \subseteq Cards
        /\ \A c \in D : IsNvidia(c)
    BY <1>2, FilterHandles DEF Loaded, IsNvidia
  <2> QED
    BY <2>1 DEF Lists, EachOnce
<1> QED
  BY <1>1, <1>2

(* The device matched to a name and an ordinal may be of that name, and is *)
(* matched to no other ordinal of it.                                      *)
LEMMA MatchedIs ==
  ASSUME NEW D, Loaded(nvml'.devices, D) \/ Handles = <<>>, NEW name, NEW o \in Nat
  PROVE  /\ DeviceMatching(name, o) \in Seq(Cards)
         /\ DeviceMatching(name, o) # None =>
              /\ MayBeOf(DeviceMatching(name, o)[1], name)
              /\ \A p \in Nat : p # o => DeviceMatching(name, p) # DeviceMatching(name, o)
<1> DEFINE H == Handles
           kept == {j \in DOMAIN H : Desc(H[j]).name.model = name.model}
           m == Picked(H, kept)
           only == Len(nvml'.devices) = 1
<1>1. /\ H \in Seq(Cards) /\ \A k \in DOMAIN H : IsNvidia(H[k])
      /\ \A k, l \in DOMAIN H : H[k] = H[l] => k = l
      /\ H # <<>> => \A k \in DOMAIN H : H[k] \in D
  BY HandlesAre
<1>2. \A p : DeviceMatching(name, p) = IF p < Len(m) THEN Some(m[p + 1]) ELSE IF only /\ p = 0 THEN H ELSE None
  <2>1. Filter(Handles, LAMBDA c : Desc(c).name.model = name.model) = m
    BY DEF Filter
  <2>2. \A p : DeviceMatching(name, p) =
          IF p < Len(Filter(Handles, LAMBDA c : Desc(c).name.model = name.model))
          THEN Some(Filter(Handles, LAMBDA c : Desc(c).name.model = name.model)[p + 1])
          ELSE IF only /\ p = 0 THEN H ELSE None
    BY DEF DeviceMatching
  <2> HIDE DEF m, only, H
  <2> QED
    BY <2>1, <2>2
<1>3. m \in Seq(Cards) /\ \A k \in DOMAIN m : \E j \in kept : m[k] = H[j]
  BY <1>1, PickedFrom
<1>4. \A k, l \in DOMAIN m : m[k] = m[l] => k = l
  <2>1. PICK n, e : PickedBy(e, n, H, kept)
    BY <1>1, PickedIs
  <2>2. m = [k \in 1..n |-> H[e[k]]] /\ n \in Nat /\ \A k \in 1..n : e[k] \in kept /\ e[k] \in Nat
    BY <1>1, <2>1 DEF PickedBy, Enumerates
  <2>3. \A k, l \in 1..n : k <= l <=> e[k] <= e[l]
    BY <2>1 DEF PickedBy
  <2> HIDE DEF m
  <2>4. \A k, l \in 1..n : m[k] = m[l] => e[k] = e[l]
    BY <1>1, <2>2
  <2> QED
    BY <2>2, <2>3, <2>4
<1>5. ASSUME only, H # <<>>
      PROVE  H = <<H[1]>> /\ \A d \in Cards : IsNvidia(d) /\ NeverLeft(d) => d = H[1]
  <2>1. /\ Lists(nvml'.devices, D, Along(machine.pci, Cards))
        /\ \A c \in Cards : IsNvidia(c) /\ NeverLeft(c) => c \in D
    BY <1>5 DEF Loaded, IsNvidia
  <2>2. D = {nvml'.devices[1]}
    <3>1. DOMAIN nvml'.devices = {1}
      BY <1>5, <2>1 DEF Lists, EachOnce
    <3> QED
      BY <2>1, <3>1 DEF Lists, EachOnce
  <2>3. \A k \in DOMAIN H : H[k] = nvml'.devices[1] /\ k = 1
    <3>1. 1 \in DOMAIN H
      BY <1>1, <1>5
    <3> QED
      BY <1>1, <1>5, <2>2, <3>1
  <2> HIDE DEF H
  <2>4. Len(H) = 1 /\ H = <<H[1]>>
    <3>1. DOMAIN H = 1..Len(H) /\ Len(H) \in Nat /\ Len(H) # 0
      BY <1>1, <1>5
    <3>2. Len(H) \in DOMAIN H
      BY <3>1
    <3>3. Len(H) = 1
      BY <2>3, <3>2
    <3> QED
      BY <1>1, <3>3
  <2> QED
    BY <1>5, <1>1, <2>1, <2>2, <2>3, <2>4
<1> HIDE DEF m, only, H
<1>6. CASE o < Len(m)
  <2>1. o + 1 \in DOMAIN m /\ DeviceMatching(name, o) = Some(m[o + 1])
    BY <1>2, <1>3, <1>6
  <2>2. MayBeOf(m[o + 1], name)
    BY <1>1, <1>3, <2>1 DEF MayBeOf
  <2>3. ASSUME NEW p \in Nat, p # o PROVE DeviceMatching(name, p) # Some(m[o + 1])
    <3>1. CASE p < Len(m)
      BY <1>2, <1>3, <1>4, <2>1, <2>3, <3>1, Options
    <3>2. CASE ~(p < Len(m))
      BY <1>2, <1>3, <1>6, <3>2, Options
    <3> QED
      BY <3>1, <3>2
  <2> QED
    BY <1>3, <2>1, <2>2, <2>3, Options
<1>7. CASE ~(o < Len(m))
  <2>1. DeviceMatching(name, o) = IF only /\ o = 0 THEN H ELSE None
    BY <1>2, <1>7
  <2>2. ASSUME only, o = 0, H # <<>>
        PROVE  MayBeOf(H[1], name) /\ \A p \in Nat : p # o => DeviceMatching(name, p) # H
    <3>1. 1 \in DOMAIN H /\ IsNvidia(H[1])
      BY <1>1, <2>2
    <3>2. \A p \in Nat : p # o => DeviceMatching(name, p) = None
      BY <1>2, <1>3, <1>7, <2>2
    <3> QED
      BY <1>5, <2>2, <3>1, <3>2 DEF MayBeOf, None
  <2> QED
    BY <1>1, <2>1, <2>2, Options DEF None
<1> QED
  BY <1>6, <1>7

(* Enriching true samples leaves them true, with sensors of their own.     *)
LEMMA EnrichedAre ==
  ASSUME WorldIs, NEW D, Loaded(nvml'.devices, D) \/ Handles = <<>>, NEW a, AdaptersAre(a), a # <<>>,
         NEW list, AllTrue(a, list), DOMAIN list = DOMAIN a, \A i \in DOMAIN list : list[i].of = a[i].of,
         NEW rich, Enriched(rich, list)
  PROVE  AllTrue(a, rich) /\ AllOwn(rich)
<1>0. list \in Seq(Readings) /\ \A i \in DOMAIN list : list[i] \in Readings /\ list[i].name = Desc(list[i].of).name
  BY DEF AllTrue, TruthOf
<1>1. PICK N : Covers(CardsOf(a), N)
  BY DEF AdaptersAre
<1> DEFINE q == CardsOf(a)
           found(i) == DeviceMatching(list[i].name, Ordinal(list, i))
<1>2. /\ DOMAIN q = DOMAIN list /\ \A i \in DOMAIN list : q[i] = list[i].of /\ list[i].name = Desc(q[i]).name
  BY <1>0 DEF CardsOf
<1>3. N \in SUBSET Cards /\ Lists(q, N, LargestFirst(Cards))
  BY <1>1 DEF Covers
<1> HIDE DEF q
<1>4. ASSUME NEW i \in DOMAIN list
      PROVE  Ordinal(list, i) \in Nat
  <2>1. i \in Nat /\ i - 1 \in Nat
    BY <1>0
  <2>2. IsFiniteSet(1..i - 1)
    BY <2>1, UpTo
  <2> QED
    BY <2>2, FS_Subset, FS_CardinalityType DEF Ordinal
<1>5. ASSUME NEW i \in DOMAIN list
      PROVE  TruthOf(a, rich[i]) /\ SensesOwn(rich[i])
  <2> DEFINE r == list[i]
             x == found(i)
             e == [r EXCEPT !.sensors = x]
  <2>1. rich[i] = e
    BY DEF Enriched
  <2>2. x \in Seq(Cards) /\ (x # None => MayBeOf(x[1], r.name))
    BY <1>4, MatchedIs
  <2>3. r \in Readings /\ TruthOf(a, r)
    BY DEF AllTrue, TruthOf
  <2>4. ASSUME r.name.vendor = "nvidia", Aligned(r.name), Steady(r.name)
        PROVE  x \in {None, Some(r.of)}
    <3>1. CASE Handles = <<>>
      <4> DEFINE m == Filter(Handles, LAMBDA c : Desc(c).name.model = r.name.model)
      <4>1. m = Picked(<<>>, {})
        BY <3>1 DEF Filter
      <4>2. m = <<>>
        BY <4>1, PickedNone
      <4>3. Ordinal(list, i) \in Nat
        BY <1>4
      <4>4. ~(Ordinal(list, i) < Len(m))
        BY <4>2, <4>3
      <4>5. x = IF Ordinal(list, i) < Len(m) THEN Some(m[Ordinal(list, i) + 1])
                ELSE IF Len(nvml'.devices) = 1 /\ Ordinal(list, i) = 0 THEN Handles ELSE None
        BY DEF DeviceMatching
      <4> HIDE DEF m, x
      <4> QED
        BY <3>1, <4>4, <4>5 DEF None
    <3>2. CASE Handles # <<>>
      <4>1. Loaded(nvml'.devices, D)
        BY <3>2
      <4>2. i \in DOMAIN q /\ Desc(q[i]).name = r.name /\ q[i] = r.of /\ q[i] \in N
        BY <1>2, <1>3 DEF Lists, EachOnce
      <4>3. OfName(r.name) \subseteq N
        BY <1>1, <2>4, <4>2 DEF Covers
      <4> HIDE DEF r
      <4>4. DeviceMatching(r.name, Ordinal(list, i)) \in {None, Some(q[i])}
        BY <1>2, <1>3, <2>4, <4>1, <4>2, <4>3, MatchIsOwn
      <4> QED
        BY <4>2, <4>4 DEF r
    <3> QED
      BY <3>1, <3>2
  <2> HIDE DEF r, x
  <2>5. /\ e \in Readings /\ e.of = r.of /\ e.truth = r.truth /\ e.name = r.name /\ e.util = r.util
        /\ e.used = r.used /\ e.total = r.total /\ e.sensors = x
    BY <2>2, <2>3 DEF Readings
  <2> HIDE DEF e
  <2>6. TruthOf(a, e)
    BY <2>3, <2>5 DEF TruthOf, Current
  <2>7. SensesOwn(e)
    BY <2>2, <2>4, <2>5 DEF SensesOwn
  <2> QED
    BY <2>1, <2>6, <2>7
<1>6. rich \in Seq(Readings)
  <2>1. \A i \in DOMAIN list : rich[i] \in Readings
    BY <1>5 DEF TruthOf
  <2>2. DOMAIN list = 1..Len(list) /\ Len(list) \in Nat /\ DOMAIN rich = DOMAIN list
    BY <1>0 DEF Enriched
  <2>3. rich = [i \in DOMAIN list |-> rich[i]]
    BY DEF Enriched
  <2> HIDE DEF found
  <2> QED
    BY <2>1, <2>2, <2>3
<1>7. ASSUME NEW i \in DOMAIN list, NEW j \in DOMAIN list, i < j, list[j].name = list[i].name
      PROVE  Ordinal(list, i) # Ordinal(list, j)
  <2> DEFINE B(k) == {l \in 1..k - 1 : list[l].name = list[k].name}
  <2>1. i \in Nat /\ j \in Nat /\ i - 1 \in Nat /\ j - 1 \in Nat
    BY <1>0
  <2>2. IsFiniteSet(B(i)) /\ IsFiniteSet(B(j))
    BY <2>1, UpTo, FS_Subset
  <2>3. B(i) \subseteq B(j) /\ i \in B(j) /\ i \notin B(i)
    BY <1>7, <2>1
  <2>4. Ordinal(list, i) = Cardinality(B(i)) /\ Ordinal(list, j) = Cardinality(B(j))
    BY DEF Ordinal
  <2> HIDE DEF B
  <2>5. Cardinality(B(i)) # Cardinality(B(j))
    BY <2>2, <2>3, FS_Subset
  <2> QED
    BY <2>4, <2>5
<1>8. NoneShared(rich)
  <2> SUFFICES ASSUME NEW i \in DOMAIN list, NEW j \in DOMAIN list, AreShared(rich, i, j)
               PROVE  FALSE
    BY DEF NoneShared, Enriched
  <2>1. \A k \in DOMAIN list : rich[k].name = list[k].name /\ rich[k].sensors = found(k)
    BY <1>0 DEF Enriched, Readings
  <2> HIDE DEF found
  <2>2. list[j].name = list[i].name /\ found(i) # None /\ found(j) = found(i) /\ i # j
    BY <2>1 DEF AreShared
  <2>3. Ordinal(list, i) # Ordinal(list, j)
    <3>1. i < j \/ j < i
      BY <1>0, <2>2
    <3> QED
      BY <1>7, <2>2, <3>1
  <2> QED
    BY <1>4, <2>2, <2>3, MatchedIs DEF found
<1> QED
  BY <1>5, <1>6, <1>8 DEF AllTrue, AllOwn, Enriched

(* What the DRM and IOKit publish is a percentage. *)
LEMMA PercentIs == \A c : Percent(c) \in Seq(Nat) /\ OrElse(Percent(c), 0) \in 0..100
<1> TAKE c
<1> DEFINE n == IF card[c].used = 0 THEN 0 ELSE 50
<1>1. Percent(c) = Some(n) /\ n \in Nat /\ n \in 0..100
  BY DEF Percent
<1> HIDE DEF n
<1>2. Some(n) \in Seq(Nat) /\ OrElse(Some(n), 0) = n
  BY <1>1, Options
<1> QED
  BY <1>1, <1>2

(* A reading of what a card is now. *)
LEMMA ReadingIsTrue ==
  ASSUME WorldIs, NEW a, NEW c \in Cards, NEW util \in Seq(Nat), OrElse(util, 0) \in 0..100,
         NEW used \in {None, Some(card[c].used)}, NEW total \in Seq(Nat),
         machine.os # "macos" => OrElse(total, 0) \in {0, Size(c)},
         NEW sensors \in {None, Some(c)}, sensors # None => IsNvidia(c)
  PROVE  /\ Reading(c, util, used, total, None, sensors) \in Readings
         /\ Reading(c, util, used, total, None, sensors).sensors = sensors
         /\ TruthOf(a, Reading(c, util, used, total, None, sensors))
         /\ SensesOwn(Reading(c, util, used, total, None, sensors))
<1> DEFINE r == Reading(c, util, used, total, None, sensors)
<1>1. card[c].used \in Nat
  BY DEF WorldIs, CardStates
<1>2. used \in Seq(Nat) /\ None \in Seq(Nat) /\ sensors \in Seq(Cards) /\ (used # None => used[1] = card[c].used)
  BY <1>1, Options
<1>3. /\ r \in Readings /\ r.of = c /\ r.truth = card[c] /\ r.name = Desc(c).name
      /\ r.util = util /\ r.used = used /\ r.total = total /\ r.sensors = sensors
  BY <1>2, ReadingIs
<1> HIDE DEF r
<1>4. TruthOf(a, r)
  BY <1>2, <1>3 DEF TruthOf
<1>5. SensesOwn(r)
  <2>1. r.sensors # None => r.sensors[1] = c /\ r.sensors = Some(r.of)
    BY <1>3, Options
  <2> QED
    BY <1>3, <2>1 DEF SensesOwn, MayBeOf
<1> QED
  BY <1>3, <1>4, <1>5 DEF r

(* A function of a list's places is a list. *)
LEMMA MapIsSeq ==
  ASSUME NEW S, NEW s, NEW T, s \in Seq(T), NEW f, DOMAIN f = DOMAIN s, \A i \in DOMAIN s : f[i] \in S
  PROVE  f \in Seq(S) \/ f # [i \in DOMAIN s |-> f[i]]
<1>1. DOMAIN s = 1..Len(s) /\ Len(s) \in Nat
  OBVIOUS
<1> QED
  BY <1>1

(* What Linux makes of the handles. *)
NvmlListed(list) ==
  list = [i \in DOMAIN Handles |->
    Reading(Handles[i], Percent(Handles[i]), Some(card[Handles[i]].used), Some(Size(Handles[i])), None, Some(Handles[i]))]

(* It is true of them. *)
LEMMA NvmlReadingsAre ==
  ASSUME WorldIs, NEW D, Loaded(nvml'.devices, D) \/ Handles = <<>>, NEW a,
         NEW list, NvmlListed(list)
  PROVE  AllTrue(a, list) /\ AllOwn(list)
<1>1. /\ Handles \in Seq(Cards) /\ \A k \in DOMAIN Handles : IsNvidia(Handles[k])
      /\ \A k, l \in DOMAIN Handles : Handles[k] = Handles[l] => k = l
  BY HandlesAre
<1>2. ASSUME NEW i \in DOMAIN Handles
      PROVE  list[i] \in Readings /\ TruthOf(a, list[i]) /\ SensesOwn(list[i]) /\ list[i].sensors = Some(Handles[i])
  <2> DEFINE c == Handles[i]
  <2>1. c \in Cards /\ IsNvidia(c)
    BY <1>1
  <2>2. Size(c) \in Nat /\ Some(Size(c)) \in Seq(Nat) /\ OrElse(Some(Size(c)), 0) = Size(c)
    BY <2>1, MachineIs, Options DEF WorldIs
  <2>3. list[i] = Reading(c, Percent(c), Some(card[c].used), Some(Size(c)), None, Some(c))
    BY DEF NvmlListed
  <2>4. c = Handles[i]
    OBVIOUS
  <2> HIDE DEF c
  <2>5. /\ Reading(c, Percent(c), Some(card[c].used), Some(Size(c)), None, Some(c)) \in Readings
        /\ Reading(c, Percent(c), Some(card[c].used), Some(Size(c)), None, Some(c)).sensors = Some(c)
        /\ TruthOf(a, Reading(c, Percent(c), Some(card[c].used), Some(Size(c)), None, Some(c)))
        /\ SensesOwn(Reading(c, Percent(c), Some(card[c].used), Some(Size(c)), None, Some(c)))
    BY <2>1, <2>2, PercentIs, ReadingIsTrue
  <2> QED
    BY <2>3, <2>4, <2>5
<1>3. list = [i \in DOMAIN Handles |-> list[i]] /\ DOMAIN list = DOMAIN Handles
  BY DEF NvmlListed
<1>4. list \in Seq(Readings)
  BY <1>1, <1>2, <1>3, MapIsSeq
<1>5. NoneShared(list)
  BY <1>1, <1>2, <1>3, Options DEF NoneShared, AreShared
<1> QED
  BY <1>2, <1>3, <1>4, <1>5 DEF AllTrue, AllOwn

(* What Linux adds of the cards of the DRM. *)
DrmListed(list, before, found) == list = before \o [i \in DOMAIN found |-> DrmCard(found[i])]

(* It is true of them, and leaves true what NVML read. *)
LEMMA DrmReadingsAre ==
  ASSUME WorldIs, machine.os # "macos", NEW a, NEW before, AllTrue(a, before), AllOwn(before),
         NEW found, found = IF "drm" \in up THEN Filter(machine.pci, IsPublished) ELSE <<>>,
         NEW list, DrmListed(list, before, found)
  PROVE  AllTrue(a, list) /\ AllOwn(list)
<1> DEFINE kept == {i \in DOMAIN machine.pci : IsPublished(machine.pci[i])}
           drm == [i \in DOMAIN found |-> DrmCard(found[i])]
<1>1. machine.pci \in Seq(Cards)
  BY MachineIs DEF WorldIs, EachOnce
<1>2. Filter(machine.pci, IsPublished) = Picked(machine.pci, kept)
  BY DEF Filter
<1>3. Picked(machine.pci, kept) \in Seq(Cards)
  BY <1>1, PickedFrom
<1>4. found \in Seq(Cards)
  BY <1>2, <1>3
<1>5. ASSUME NEW i \in DOMAIN found
      PROVE  drm[i] \in Readings /\ TruthOf(a, drm[i]) /\ SensesOwn(drm[i]) /\ drm[i].sensors = None
  <2> DEFINE c == found[i]
             util == IF "busy" \in Desc(c).published THEN Percent(c) ELSE None
             used == IF "memory" \in Desc(c).published THEN Some(card[c].used) ELSE None
             total == IF "memory" \in Desc(c).published THEN Some(Desc(c).dedicated) ELSE None
  <2>1. c \in Cards
    BY <1>4
  <2>2. Desc(c).dedicated \in Nat
    BY <2>1, MachineIs DEF WorldIs, CardDescs
  <2>3. total \in Seq(Nat) /\ OrElse(total, 0) \in {0, Size(c)}
    <3>1. Some(Desc(c).dedicated) \in Seq(Nat) /\ OrElse(Some(Desc(c).dedicated), 0) = Desc(c).dedicated
      BY <2>2, Options
    <3>2. None \in Seq(Nat) /\ OrElse(None, 0) = 0
      BY Options
    <3>3. Desc(c).dedicated \in {0, Size(c)}
      BY DEF Size, Unified
    <3> HIDE DEF c
    <3> QED
      BY <3>1, <3>2, <3>3
  <2>4. util \in Seq(Nat) /\ OrElse(util, 0) \in 0..100
    <3>1. Percent(c) \in Seq(Nat) /\ OrElse(Percent(c), 0) \in 0..100
      BY PercentIs
    <3>2. None \in Seq(Nat) /\ OrElse(None, 0) = 0
      BY Options
    <3>3. util = Percent(c) \/ util = None
      OBVIOUS
    <3> HIDE DEF util
    <3> QED
      BY <3>1, <3>2, <3>3
  <2>5. used \in {None, Some(card[c].used)}
    OBVIOUS
  <2>6. drm[i] = Reading(c, util, used, total, None, None)
    BY DEF DrmCard
  <2>7. None \in {None, Some(c)}
    OBVIOUS
  <2> HIDE DEF c, util, used, total, drm
  <2>8. /\ Reading(c, util, used, total, None, None) \in Readings
        /\ TruthOf(a, Reading(c, util, used, total, None, None))
        /\ SensesOwn(Reading(c, util, used, total, None, None))
        /\ Reading(c, util, used, total, None, None).sensors = None
    BY <2>1, <2>3, <2>4, <2>5, <2>7, ReadingIsTrue
  <2> QED
    BY <2>6, <2>8
<1>6. drm \in Seq(Readings)
  <2>1. drm = [i \in DOMAIN found |-> drm[i]] /\ DOMAIN drm = DOMAIN found
    OBVIOUS
  <2> HIDE DEF drm
  <2> QED
    BY <1>4, <1>5, <2>1, MapIsSeq
<1>7. DOMAIN drm = DOMAIN found
  OBVIOUS
<1> HIDE DEF drm
<1>8. before \in Seq(Readings) /\ list = before \o drm
  BY DEF AllTrue, drm, DrmListed
<1>9. list \in Seq(Readings)
  <2>1. before \o drm \in Seq(Readings)
    BY <1>6, <1>8
  <2> QED
    BY <1>8, <2>1
<1>10. \A i \in DOMAIN list : (i \in DOMAIN before /\ list[i] = before[i]) \/ \E j \in DOMAIN drm : list[i] = drm[j]
  <2>1. ASSUME NEW i \in DOMAIN list, i \notin DOMAIN before
        PROVE  i - Len(before) \in DOMAIN drm /\ list[i] = drm[i - Len(before)]
    BY <1>6, <1>8, <2>1
  <2>2. \A i \in DOMAIN before : list[i] = before[i]
    BY <1>6, <1>8
  <2> QED
    BY <2>1, <2>2
<1>11. NoneShared(list)
  BY <1>5, <1>7, <1>10 DEF AllOwn, NoneShared, AreShared
<1> QED
  BY <1>5, <1>7, <1>9, <1>10, <1>11 DEF AllTrue, AllOwn

-----------------------------------------------------------------------------
(* Memory figures. *)

(* What a figure calls free is what its card had left. *)
FreeIsTrue(a, info) ==
  /\ info.free \in Nat
  /\ (info.known /\ info.free > 0 /\ info.truth.there /\ Current(a, info)) =>
       info.free = IF machine.os = "macos" THEN machine.free ELSE Size(info.of) - info.truth.used

(* The memory figure os.rs makes of a true reading is true. *)
LEMMA InfoIsTrue ==
  ASSUME WorldIs, machine.os # "macos", NEW a, NEW r, TruthOf(a, r)
  PROVE  InfoOf(r).total \in Nat /\ FreeIsTrue(a, InfoOf(r))
<1> DEFINE total == OrElse(r.total, 0)
           i == InfoOf(r)
<1>1. r \in Readings /\ total \in {0, Size(r.of)}
  BY DEF TruthOf
<1>2. r.of \in Cards /\ r.used \in Seq(Nat)
  BY <1>1 DEF Readings
<1>3. total \in Nat
  BY <1>1, <1>2, MachineIs DEF WorldIs
<1> HIDE DEF total
<1>4. /\ i.of = r.of /\ i.truth = r.truth /\ i.total = total /\ i.known = (r.used # None)
      /\ i.free = Minus(total, OrElse(r.used, 0))
  BY DEF InfoOf, Info, total
<1> HIDE DEF i
<1>6. OrElse(r.used, 0) \in Nat
  BY <1>2 DEF OrElse, None
<1>7. i.free \in Nat
  BY <1>3, <1>4, <1>6 DEF Minus
<1>5. ASSUME i.known, i.free > 0, i.truth.there, Current(a, i)
      PROVE  i.free = Size(i.of) - i.truth.used
  <2>1. r.used # None /\ r.truth.there /\ Current(a, r)
    BY <1>4, <1>5 DEF Current
  <2>2. r.used[1] = r.truth.used
    BY <2>1 DEF TruthOf
  <2>3. r.used[1] \in Nat
    BY <1>2, <2>1 DEF None
  <2>4. i.free = Minus(total, r.truth.used)
    BY <1>4, <2>1, <2>2 DEF OrElse
  <2>5. total > r.truth.used
    BY <1>3, <1>5, <2>2, <2>3, <2>4 DEF Minus
  <2>6. total = Size(r.of)
    <3>1. total # 0
      BY <1>3, <2>2, <2>3, <2>5
    <3> QED
      BY <1>1, <3>1 DEF total
  <2> QED
    BY <1>4, <2>4, <2>5, <2>6 DEF Minus
<1> QED
  BY <1>3, <1>4, <1>5, <1>7 DEF FreeIsTrue, i

(* Every memory figure is made of one of the readings. *)
LEMMA InfosAre ==
  ASSUME NEW list \in Seq(Readings)
  PROVE  \E n \in Nat :
           /\ DOMAIN InfosOf(list) = 1..n /\ InfosOf(list) = [i \in 1..n |-> InfosOf(list)[i]]
           /\ \A i \in 1..n : \E j \in DOMAIN list : InfosOf(list)[i] = InfoOf(list[j])
<1> DEFINE kept == {i \in DOMAIN list : OrElse(list[i].total, 0) > 0}
           sized == Picked(list, kept)
<1>1. Filter(list, LAMBDA r : OrElse(r.total, 0) > 0) = sized
  BY DEF Filter
<1>2. InfosOf(list) = [i \in DOMAIN sized |-> InfoOf(sized[i])]
  BY <1>1 DEF InfosOf
<1>3. sized \in Seq(Readings) /\ \A k \in DOMAIN sized : \E i \in kept : sized[k] = list[i]
  <2>1. kept \in SUBSET DOMAIN list
    OBVIOUS
  <2> HIDE DEF kept
  <2> QED
    BY <2>1, PickedFrom
<1>4. \A i \in kept : i \in DOMAIN list
  OBVIOUS
<1> HIDE DEF sized, kept
<1>5. DOMAIN sized = 1..Len(sized) /\ Len(sized) \in Nat
  BY <1>3
<1>6. \A i \in DOMAIN sized : \E j \in DOMAIN list : InfosOf(list)[i] = InfoOf(list[j])
  BY <1>2, <1>3, <1>4
<1>7. DOMAIN InfosOf(list) = 1..Len(sized) /\ InfosOf(list) = [i \in 1..Len(sized) |-> InfosOf(list)[i]]
  BY <1>2, <1>5
<1> QED
  BY <1>5, <1>6, <1>7

(* The primary GPU is one of those with a size. *)
LEMMA LargestIs ==
  ASSUME NEW n \in Nat \ {0}, NEW infos, infos = [i \in 1..n |-> infos[i]], \A i \in 1..n : infos[i].total \in Nat
  PROVE  \E i \in 1..n : Largest(infos)[1] = infos[i]
<1> DEFINE f == [i \in 1..n |-> infos[i].total]
           T == {f[i] : i \in 1..n}
           I == {i \in DOMAIN infos : \A j \in DOMAIN infos : infos[j].total <= infos[i].total}
           m == Max(I)
           S == {infos[i] : i \in 1..n}
           kept == {i \in DOMAIN infos : infos[i] = infos[m]}
<1>1. DOMAIN infos = 1..n /\ 1 \in 1..n /\ IsFiniteSet(1..n)
  BY UpTo
<1>2. \A i \in 1..n : f[i] \in Nat /\ f[i] = infos[i].total
  OBVIOUS
<1>3. IsFiniteSet(T)
  <2>1. DOMAIN f = 1..n
    OBVIOUS
  <2> HIDE DEF f
  <2> QED
    BY <1>1, <2>1, ImageIsFinite
<1>4. T \in SUBSET Nat /\ f[1] \in T
  <2> HIDE DEF f
  <2> QED
    BY <1>1, <1>2
<1>5. Max(T) \in T /\ \A x \in T : x <= Max(T)
  <2> HIDE DEF T
  <2> QED
    BY <1>3, <1>4, LargestExists
<1>6. PICK k \in 1..n : f[k] = Max(T)
  BY <1>5
<1>7. \A j \in 1..n : f[j] <= f[k]
  <2> HIDE DEF f
  <2> QED
    BY <1>5, <1>6
<1>8. k \in I
  BY <1>1, <1>2, <1>7
<1>9. I \in SUBSET Nat /\ IsFiniteSet(I)
  <2>1. I \subseteq 1..n
    BY <1>1
  <2> HIDE DEF I
  <2> QED
    BY <1>1, <2>1, FS_Subset
<1>10. m \in 1..n
  <2>1. m \in I
    <3> HIDE DEF I
    <3> QED
      BY <1>8, <1>9, LargestExists
  <2> QED
    BY <1>1, <2>1
<1>11. infos \in Seq(S)
  <2>1. \A i \in 1..n : infos[i] \in S
    OBVIOUS
  <2> HIDE DEF S
  <2> QED
    BY <2>1
<1>12. Largest(infos) = Picked(infos, kept)
  BY DEF Largest, Filter
<1> HIDE DEF m, S, I
<1>13. m \in kept
  BY <1>1, <1>10
<1>14. /\ Picked(infos, kept) \in Seq(S) /\ Picked(infos, kept) # <<>>
       /\ \A l \in DOMAIN Picked(infos, kept) : \E i \in kept : Picked(infos, kept)[l] = infos[i]
  <2>1. kept \in SUBSET DOMAIN infos
    OBVIOUS
  <2> HIDE DEF kept
  <2> QED
    <3>1. /\ Picked(infos, kept) \in Seq(S)
          /\ \A l \in DOMAIN Picked(infos, kept) : \E i \in kept : Picked(infos, kept)[l] = infos[i]
          /\ kept = {} <=> Picked(infos, kept) = <<>>
      BY <1>11, <2>1, PickedFrom
    <3> QED
      BY <1>13, <3>1
<1>15. 1 \in DOMAIN Picked(infos, kept)
  <2> HIDE DEF kept
  <2> QED
    BY <1>14
<1>16. PICK i \in kept : Picked(infos, kept)[1] = infos[i]
  <2> HIDE DEF kept
  <2> QED
    BY <1>14, <1>15
<1>17. i \in 1..n
  BY <1>1
<1> QED
  BY <1>12, <1>16, <1>17

-----------------------------------------------------------------------------
(* What holds of a thread, and goes on to hold. *)

(* What a call may be for. *)
Kinds == {"stats", "memory", "memory of all"}

(* Where a call is: with adapters a, at s, for k, having read rs. *)
StepIs(a, s, k, rs) ==
  /\ s # "idle" => k \in Kinds
  /\ s \in {"list", "collect", "enrich"} => machine.os = "windows"
  /\ s \in {"collect", "enrich"} => a # <<>>
  /\ s \in {"nvml", "drm"} => machine.os = "linux"
  /\ s = "iokit" => machine.os = "macos" /\ k # "memory"
  /\ s = "profiler" => machine.os = "macos" /\ k = "memory"
  /\ s = "enrich" => (rs = <<>> \/ (DOMAIN rs = DOMAIN a /\ \A i \in DOMAIN rs : rs[i].of = a[i].of))

(* What an answer promises, with adapters a cached. *)
AnswerIs(a, an) ==
  /\ an.to = "stats" => AllTrue(a, an.list) /\ AllOwn(an.list)
  /\ an.to = "memory" => an.list = <<>> \/ FreeIsTrue(a, an.list[1])

(* All of it together. *)
Fits(a, s, k, rs, an) ==
  /\ AdaptersAre(a) /\ StepIs(a, s, k, rs)
  /\ AllTrue(a, rs) /\ AllOwn(rs)
  /\ AnswerIs(a, an)

(* It holds of a thread. *)
ThreadIs(t) == Fits(adapters[t], step[t], asked[t], readings[t], answer[t])

(* The machine is as built; and what has come or gone has. *)
Onward == machine' = machine /\ \A c \in Cards : NeverLeft(c)' => NeverLeft(c)

(* Onward, cards keep their descriptions and the orders agree as before. *)
LEMMA NamesKeep ==
  ASSUME Onward
  PROVE  /\ Cards' = Cards
         /\ \A name : /\ (Aligned(name)' <=> Aligned(name))
                      /\ OfName(name)' = OfName(name)
                      /\ Steady(name)' => Steady(name)
         /\ \A c : Desc(c)' = Desc(c) /\ Size(c)' = Size(c)
<1>1. machine' = machine
  BY DEF Onward
<1>2. Cards' = Cards /\ \A c : Desc(c)' = Desc(c) /\ Size(c)' = Size(c) /\ Unified(c)' = Unified(c)
  BY <1>1 DEF Cards, Desc, Size, Unified
<1>3. \A name : OfName(name)' = OfName(name)
  BY <1>2 DEF OfName
<1>4. \A name : Steady(name)' => Steady(name)
  BY <1>2, <1>3 DEF Steady, Onward, OfName
<1>5. \A name : Aligned(name)' <=> Aligned(name)
  BY <1>1 DEF Aligned, Filter, Picked, BySize, Sorted, Size, Unified, Desc
<1> QED
  BY <1>2, <1>3, <1>4, <1>5

(* What was true of the readings stays true of them. *)
LEMMA ReadingsKeep ==
  ASSUME Onward
  PROVE  /\ \A a, list : AllTrue(a, list) => AllTrue(a, list)'
         /\ \A list : AllOwn(list) => AllOwn(list)'
         /\ \A a, info : FreeIsTrue(a, info) => FreeIsTrue(a, info)'
         /\ \A a, s, k, rs : StepIs(a, s, k, rs) => StepIs(a, s, k, rs)'
<1>1. machine' = machine
  BY DEF Onward
<1>2. Readings' = Readings
  BY NamesKeep DEF Readings
<1>3. \A a, r : TruthOf(a, r) => TruthOf(a, r)'
  BY <1>1, <1>2, NamesKeep DEF TruthOf
<1>4. \A r : SensesOwn(r) => SensesOwn(r)'
  <2>1. \A c, name : MayBeOf(c, name) => MayBeOf(c, name)'
    BY NamesKeep DEF MayBeOf, IsNvidia, Onward
  <2> QED
    BY <2>1, NamesKeep DEF SensesOwn
<1>5. \A a, list : AllTrue(a, list) => AllTrue(a, list)'
  BY <1>2, <1>3 DEF AllTrue
<1>6. \A list : AllOwn(list) => AllOwn(list)'
  BY <1>4 DEF AllOwn, NoneShared, AreShared
<1>7. \A a, info : FreeIsTrue(a, info) => FreeIsTrue(a, info)'
  BY <1>1, NamesKeep DEF FreeIsTrue
<1>8. \A a, s, k, rs : StepIs(a, s, k, rs) => StepIs(a, s, k, rs)'
  BY <1>1 DEF StepIs
<1> QED
  BY <1>5, <1>6, <1>7, <1>8

(* Cached adapters stay as OpenAll made them. *)
LEMMA AdaptersKeep ==
  ASSUME Onward
  PROVE  \A a : AdaptersAre(a) => AdaptersAre(a)'
<1>1. machine' = machine
  BY DEF Onward
<1>2. LargestFirst(Cards)' = LargestFirst(Cards)
  BY <1>1, NamesKeep DEF LargestFirst, Along
<1>3. \A q, N : Covers(q, N) => Covers(q, N)'
  BY <1>2, NamesKeep DEF Covers
<1>4. \A a : CardsOf(a)' = CardsOf(a)
  BY DEF CardsOf
<1>5. Adapter' = Adapter
  BY NamesKeep DEF Adapter
<1> QED
  BY <1>3, <1>4, <1>5 DEF AdaptersAre

(* A thread that does nothing still fits. *)
LEMMA FitsKeeps ==
  ASSUME Onward, NEW a, NEW s, NEW k, NEW rs, NEW an, Fits(a, s, k, rs, an)
  PROVE  Fits(a, s, k, rs, an)'
<1>1. AnswerIs(a, an)'
  BY ReadingsKeep DEF Fits, AnswerIs
<1> QED
  BY <1>1, ReadingsKeep, AdaptersKeep DEF Fits

(* What NVML found when it was loaded is still that. *)
LEMMA NvmlKeeps ==
  ASSUME Onward, NEW state, NEW devices, state \in {"unset", "none", "some"},
         state = "some" => \E D : Loaded(devices, D)
  PROVE  state = "some" => \E D : Loaded(devices, D)'
<1>1. machine' = machine /\ \A c \in Cards : NeverLeft(c)' => NeverLeft(c)
  BY DEF Onward
<1>2. \A D : Loaded(devices, D) => Loaded(devices, D)'
  BY <1>1, NamesKeep DEF Loaded, Along
<1> QED
  BY <1>2

(* What was true with no adapters is with any. *)
LEMMA LaterAdapters ==
  ASSUME NEW a, NEW an, AnswerIs(<<>>, an)
  PROVE  AnswerIs(a, an)
<1>1. \A r : Current(<<>>, r)
  BY DEF Current
<1>2. \A r : TruthOf(<<>>, r) => TruthOf(a, r)
  BY <1>1 DEF TruthOf
<1>3. \A list : AllTrue(<<>>, list) => AllTrue(a, list)
  BY <1>2 DEF AllTrue
<1>4. \A info : FreeIsTrue(<<>>, info) => FreeIsTrue(a, info)
  BY <1>1 DEF FreeIsTrue
<1> QED
  BY <1>3, <1>4 DEF AnswerIs

(* Nothing is true of no reading. *)
LEMMA NothingRead == \A a : AllTrue(a, <<>>) /\ AllOwn(<<>>)
<1>1. <<>> \in Seq(Readings) /\ DOMAIN <<>> = {}
  OBVIOUS
<1> QED
  BY <1>1 DEF AllTrue, AllOwn, NoneShared

-----------------------------------------------------------------------------
(* A step of one thread. *)

(* A step of one thread changes what is that thread's. *)
Domains ==
  /\ adapters = [t \in Threads |-> adapters[t]] /\ DOMAIN step = Threads /\ DOMAIN asked = Threads
  /\ DOMAIN readings = Threads /\ DOMAIN answer = Threads

(* Thread t alone takes a step. *)
Alone(t) ==
  /\ Domains'
  /\ \A u \in Threads : u # t => /\ adapters'[u] = adapters[u] /\ step'[u] = step[u] /\ asked'[u] = asked[u]
                                 /\ readings'[u] = readings[u] /\ answer'[u] = answer[u]

(* What it has then; of the world as it is. *)
FitsNext(t) == Fits(adapters'[t], step'[t], asked'[t], readings'[t], answer'[t])
(* What NVML has then. *)
NvmlNext == nvml'.state \in {"unset", "none", "some"} /\ (nvml'.state = "some" => \E D : Loaded(nvml'.devices, D))

(* A call that goes on with true readings fits. *)
LEMMA GoesOn ==
  ASSUME Domains, NEW t \in Threads, NEW p, NEW list, GoOn(t, p, list),
         NEW a, AdaptersAre(a), AnswerIs(a, answer[t]), adapters' = [adapters EXCEPT ![t] = a],
         AllTrue(a, list), AllOwn(list), StepIs(a, p, asked[t], list)
  PROVE  FitsNext(t) /\ Alone(t)
<1>1. /\ step' = [step EXCEPT ![t] = p] /\ readings' = [readings EXCEPT ![t] = list]
      /\ asked' = asked /\ answer' = answer
  BY DEF GoOn, Goto
<1>2. Alone(t)
  BY <1>1 DEF Alone, Domains
<1>3. adapters'[t] = a /\ step'[t] = p /\ asked'[t] = asked[t] /\ readings'[t] = list /\ answer'[t] = answer[t]
  BY <1>1 DEF Domains
<1> QED
  BY <1>2, <1>3 DEF FitsNext, Fits

(* A call that returns what its answer promises fits. *)
LEMMA ReturnsWith ==
  ASSUME Domains, NEW t \in Threads, NEW list, Returns(t, list),
         NEW a, AdaptersAre(a), AnswerIs(a, [to |-> asked[t], list |-> list]), adapters' = [adapters EXCEPT ![t] = a]
  PROVE  FitsNext(t) /\ Alone(t)
<1> DEFINE an == [to |-> asked[t], list |-> list]
<1>1. /\ step' = [step EXCEPT ![t] = "idle"] /\ readings' = [readings EXCEPT ![t] = <<>>]
      /\ asked' = [asked EXCEPT ![t] = "nobody"] /\ answer' = [answer EXCEPT ![t] = an]
  BY DEF Returns, Goto
<1> HIDE DEF an
<1>2. Alone(t)
  BY <1>1 DEF Alone, Domains
<1>3. adapters'[t] = a /\ step'[t] = "idle" /\ asked'[t] = "nobody" /\ readings'[t] = <<>> /\ answer'[t] = an
  BY <1>1 DEF Domains
<1>4. StepIs(a, "idle", "nobody", <<>>)
  BY DEF StepIs
<1>5. AnswerIs(a, an)
  BY DEF an
<1> QED
  BY <1>2, <1>3, <1>4, <1>5, NothingRead DEF FitsNext, Fits

(* A call begins with a backend of its system. *)
LEMMA FirstStepIs ==
  ASSUME WorldIs, NEW a, NEW k \in Kinds
  PROVE  StepIs(a, FirstStep(k), k, <<>>)
<1>1. machine.os \in {"windows", "linux", "macos"}
  BY MachineIs DEF WorldIs
<1> QED
  BY <1>1 DEF StepIs, FirstStep, Kinds

(* A call whose readings are complete fits, whether it returns them, makes *)
(* figures of them or starts again for the primary GPU.                    *)
LEMMA Concludes ==
  ASSUME WorldIs, Domains, NEW t \in Threads, NEW list, Conclude(t, list),
         NEW a, AdaptersAre(a), AnswerIs(a, answer[t]), adapters' = [adapters EXCEPT ![t] = a],
         AllTrue(a, list), AllOwn(list), asked[t] \in Kinds, asked[t] = "memory" => machine.os # "macos"
  PROVE  FitsNext(t) /\ Alone(t)
<1> DEFINE infos == InfosOf(list)
<1>1. CASE asked[t] = "stats"
  <2>1. Returns(t, list)
    BY <1>1 DEF Conclude
  <2>2. AnswerIs(a, [to |-> asked[t], list |-> list])
    BY <1>1 DEF AnswerIs
  <2> QED
    BY <2>1, <2>2, ReturnsWith
<1>2. CASE asked[t] = "memory"
  <2> DEFINE found == IF infos = <<>> THEN <<>> ELSE <<Largest(infos)[1]>>
  <2>1. Returns(t, found)
    BY <1>2 DEF Conclude
  <2>2. found = <<>> \/ FreeIsTrue(a, found[1])
    <3>0. list \in Seq(Readings) /\ \A j \in DOMAIN list : TruthOf(a, list[j])
      BY DEF AllTrue
    <3>1. PICK n \in Nat :
            /\ DOMAIN infos = 1..n /\ infos = [i \in 1..n |-> infos[i]]
            /\ \A i \in 1..n : \E j \in DOMAIN list : infos[i] = InfoOf(list[j])
      BY <3>0, InfosAre
    <3> HIDE DEF infos
    <3>2. \A i \in 1..n : infos[i].total \in Nat /\ FreeIsTrue(a, infos[i])
      BY <1>2, <3>0, <3>1, InfoIsTrue
    <3>3. CASE n = 0
      <4>1. infos = <<>>
        BY <3>1, <3>3
      <4> QED
        BY <4>1
    <3>4. CASE n # 0
      <4>1. PICK i \in 1..n : Largest(infos)[1] = infos[i]
        BY <3>1, <3>2, <3>4, LargestIs
      <4>2. <<Largest(infos)[1]>>[1] = infos[i]
        BY <4>1
      <4> QED
        BY <3>2, <4>2
    <3> QED
      BY <3>3, <3>4
  <2> HIDE DEF found
  <2>3. AnswerIs(a, [to |-> asked[t], list |-> found])
    BY <1>2, <2>2 DEF AnswerIs
  <2> QED
    BY <2>1, <2>3, ReturnsWith
<1>3. CASE asked[t] = "memory of all" /\ infos # <<>>
  <2>1. Returns(t, infos)
    BY <1>3 DEF Conclude
  <2> HIDE DEF infos
  <2>2. AnswerIs(a, [to |-> asked[t], list |-> infos])
    BY <1>3 DEF AnswerIs
  <2> QED
    BY <2>1, <2>2, ReturnsWith
<1>4. CASE asked[t] = "memory of all" /\ infos = <<>>
  <2>1. /\ step' = [step EXCEPT ![t] = FirstStep("memory")] /\ asked' = [asked EXCEPT ![t] = "memory"]
        /\ readings' = [readings EXCEPT ![t] = <<>>] /\ answer' = answer
    BY <1>4 DEF Conclude, Goto
  <2>2. Alone(t)
    BY <2>1 DEF Alone, Domains
  <2>3. /\ adapters'[t] = a /\ step'[t] = FirstStep("memory") /\ asked'[t] = "memory" /\ readings'[t] = <<>>
        /\ answer'[t] = answer[t]
    BY <2>1 DEF Domains
  <2>4. StepIs(a, FirstStep("memory"), "memory", <<>>)
    BY FirstStepIs DEF Kinds
  <2> QED
    BY <2>2, <2>3, <2>4, NothingRead DEF FitsNext, Fits
<1> QED
  BY <1>1, <1>2, <1>3, <1>4 DEF Kinds

-----------------------------------------------------------------------------
(* The steps. *)

(* A call begins. *)
LEMMA AskFits ==
  ASSUME WorldIs, Domains, NEW t \in Threads, ThreadIs(t), NEW what \in Kinds, Ask(t, what)
  PROVE  FitsNext(t) /\ Alone(t) /\ nvml' = nvml
<1>1. /\ step' = [step EXCEPT ![t] = FirstStep(what)] /\ asked' = [asked EXCEPT ![t] = what]
      /\ adapters' = adapters /\ readings' = readings /\ answer' = answer /\ nvml' = nvml
  BY DEF Ask, Goto
<1>2. Alone(t)
  BY <1>1 DEF Alone, Domains
<1>3. /\ adapters'[t] = adapters[t] /\ step'[t] = FirstStep(what) /\ asked'[t] = what
      /\ readings'[t] = readings[t] /\ answer'[t] = answer[t]
  BY <1>1 DEF Domains
<1>4. StepIs(adapters[t], FirstStep(what), what, readings[t])
  <2>1. FirstStep(what) # "enrich"
    BY DEF FirstStep
  <2> QED
    BY <2>1, FirstStepIs DEF StepIs
<1> QED
  BY <1>1, <1>2, <1>3, <1>4 DEF FitsNext, Fits, ThreadIs

(* The adapters are listed, or found cached. *)
LEMMA ListFits ==
  ASSUME WorldIs, Domains, NEW t \in Threads, ThreadIs(t), ListAdapters(t)
  PROVE  FitsNext(t) /\ Alone(t) /\ nvml' = nvml
<1> DEFINE a == IF adapters[t] = <<>> THEN OpenAll ELSE adapters[t]
<1>1. /\ step[t] = "list" /\ adapters' = [adapters EXCEPT ![t] = a] /\ nvml' = nvml
      /\ IF a = <<>> THEN Conclude(t, <<>>) ELSE GoOn(t, "collect", <<>>)
  BY DEF ListAdapters
<1>2. AdaptersAre(a)
  BY OpenAllIs DEF ThreadIs, Fits
<1>3. AnswerIs(a, answer[t])
  BY LaterAdapters DEF ThreadIs, Fits
<1>4. asked[t] \in Kinds /\ machine.os = "windows"
  BY <1>1 DEF ThreadIs, Fits, StepIs
<1> HIDE DEF a
<1>5. CASE a = <<>>
  BY <1>1, <1>2, <1>3, <1>4, <1>5, NothingRead, Concludes
<1>6. CASE a # <<>>
  <2>1. StepIs(a, "collect", asked[t], <<>>)
    BY <1>4, <1>6 DEF StepIs
  <2> QED
    BY <1>1, <1>2, <1>3, <1>6, <2>1, NothingRead, GoesOn
<1> QED
  BY <1>5, <1>6

(* PDH is collected. *)
LEMMA CollectFits ==
  ASSUME WorldIs, Domains, NEW t \in Threads, ThreadIs(t), Collect(t)
  PROVE  FitsNext(t) /\ Alone(t) /\ nvml' = nvml
<1> DEFINE a == adapters[t]
           collected == Opens(t) /\ "pdh" \in up
           list == [i \in DOMAIN a |-> Sample(collected, a[i])]
           r == list[1]
           info == [InfoOf(r) EXCEPT !.shared = Desc(r.of).shared]
           full == Filter(list, LAMBDA x : ~IsEmpty(x))
<1>1. /\ step[t] = "collect" /\ adapters' = adapters /\ nvml' = nvml
      /\ IF asked[t] = "memory" THEN Returns(t, <<info>>) ELSE GoOn(t, "enrich", full)
  BY DEF Collect
<1>2. /\ AdaptersAre(a) /\ a \in Seq(Adapter) /\ a # <<>> /\ AnswerIs(a, answer[t])
      /\ asked[t] \in Kinds /\ machine.os = "windows"
  BY <1>1 DEF ThreadIs, Fits, StepIs, AdaptersAre
<1>3. adapters' = [adapters EXCEPT ![t] = a]
  BY <1>1 DEF Domains
<1>4. /\ list \in Seq(Readings)
      /\ \A i \in DOMAIN list : TruthOf(a, list[i]) /\ list[i].of = a[i].of /\ list[i].sensors = None
      /\ full \in {<<>>, list}
  <2>0. Sampled(list, a)
    BY DEF Sampled
  <2> HIDE DEF collected, a, list
  <2>2. /\ list \in Seq(Readings)
        /\ \A i \in DOMAIN list : TruthOf(a, list[i]) /\ list[i].of = a[i].of /\ list[i].sensors = None
    BY <1>2, <2>0, SamplesAre
  <2>3. full \in {<<>>, list}
    BY <1>2, <2>0, AllOrNone
  <2> QED
    BY <2>2, <2>3
<1>5. DOMAIN list = DOMAIN a
  OBVIOUS
<1> HIDE DEF a, list, full, info
<1>6. CASE asked[t] = "memory"
  <2>1. 1 \in DOMAIN list
    BY <1>2, <1>5
  <2>2. FreeIsTrue(a, InfoOf(r))
    BY <1>2, <1>4, <2>1, InfoIsTrue
  <2>3. FreeIsTrue(a, info)
    <3>1. /\ info.of = InfoOf(r).of /\ info.truth = InfoOf(r).truth /\ info.free = InfoOf(r).free
          /\ info.known = InfoOf(r).known
      BY DEF info, InfoOf, Info
    <3> QED
      BY <2>2, <3>1 DEF FreeIsTrue, Current
  <2>4. AnswerIs(a, [to |-> asked[t], list |-> <<info>>])
    BY <1>6, <2>3 DEF AnswerIs
  <2> QED
    BY <1>1, <1>2, <1>3, <1>6, <2>4, ReturnsWith
<1>7. CASE asked[t] # "memory"
  <2>1. AllTrue(a, list) /\ AllOwn(list)
    BY <1>4 DEF AllTrue, AllOwn, SensesOwn, NoneShared, AreShared
  <2>2. AllTrue(a, full) /\ AllOwn(full)
    BY <1>4, <2>1, NothingRead
  <2>3. StepIs(a, "enrich", asked[t], full)
    BY <1>2, <1>4, <1>5 DEF StepIs
  <2> QED
    BY <1>1, <1>2, <1>3, <1>7, <2>2, <2>3, GoesOn
<1> QED
  BY <1>6, <1>7

(* What NVML answers with once it is loaded. *)
LEMMA NvmlLoads ==
  ASSUME WorldIs, NvmlIs, nvml' = LoadNvml
  PROVE  NvmlNext /\ \E D : Loaded(nvml'.devices, D) \/ Handles = <<>>
<1>1. NvmlNext
  BY LoadNvmlIs DEF NvmlNext
<1>2. CASE nvml'.state = "some"
  BY <1>1, <1>2 DEF NvmlNext
<1>3. CASE nvml'.state # "some"
  <2>1. Handles = <<>>
    BY <1>3 DEF Handles
  <2> QED
    BY <1>1, <2>1
<1> QED
  BY <1>1, <1>2, <1>3

(* NVML's sensors are added. *)
LEMMA EnrichFits ==
  ASSUME WorldIs, NvmlIs, Domains, NEW t \in Threads, ThreadIs(t), Enrich(t)
  PROVE  FitsNext(t) /\ Alone(t) /\ NvmlNext
<1> DEFINE a == adapters[t]
           list == readings[t]
           rich == [i \in DOMAIN list |-> [list[i] EXCEPT !.sensors = DeviceMatching(list[i].name, Ordinal(list, i))]]
<1>1. /\ step[t] = "enrich" /\ adapters' = adapters /\ Conclude(t, rich)
      /\ nvml' = IF list = <<>> THEN nvml ELSE LoadNvml
  BY DEF Enrich
<1>2. /\ AdaptersAre(a) /\ a # <<>> /\ AnswerIs(a, answer[t]) /\ asked[t] \in Kinds /\ machine.os = "windows"
      /\ AllTrue(a, list)
      /\ list = <<>> \/ (DOMAIN list = DOMAIN a /\ \A i \in DOMAIN list : list[i].of = a[i].of)
  BY <1>1 DEF ThreadIs, Fits, StepIs
<1>3. adapters' = [adapters EXCEPT ![t] = a]
  BY <1>1 DEF Domains
<1>4. Enriched(rich, list)
  BY DEF Enriched
<1>5. AllTrue(a, rich) /\ AllOwn(rich) /\ NvmlNext
  <2>1. CASE list = <<>>
    <3>1. rich = <<>>
      BY <1>4, <2>1 DEF Enriched
    <3> HIDE DEF rich, list
    <3> QED
      BY <1>1, <2>1, <3>1, NothingRead DEF NvmlIs, NvmlNext
  <2>2. CASE list # <<>>
    <3>1. NvmlNext /\ \E D : Loaded(nvml'.devices, D) \/ Handles = <<>>
      BY <1>1, <2>2, NvmlLoads
    <3> HIDE DEF rich, list, a
    <3>2. PICK D : Loaded(nvml'.devices, D) \/ Handles = <<>>
      BY <3>1
    <3> QED
      BY <1>2, <1>4, <2>2, <3>1, <3>2, EnrichedAre
  <2> QED
    BY <2>1, <2>2
<1> HIDE DEF rich, list, a
<1> QED
  BY <1>1, <1>2, <1>3, <1>5, Concludes

(* The devices of NVML are read. *)
LEMMA QueryNvmlFits ==
  ASSUME WorldIs, NvmlIs, Domains, NEW t \in Threads, ThreadIs(t), QueryNvml(t)
  PROVE  FitsNext(t) /\ Alone(t) /\ NvmlNext
<1> DEFINE a == adapters[t]
           list == [i \in DOMAIN Handles |->
                      Reading(Handles[i], Percent(Handles[i]), Some(card[Handles[i]].used), Some(Size(Handles[i])), None, Some(Handles[i]))]
<1>1. step[t] = "nvml" /\ adapters' = adapters /\ GoOn(t, "drm", list) /\ nvml' = LoadNvml
  BY DEF QueryNvml
<1>2. NvmlListed(list)
  BY DEF NvmlListed
<1>3. AdaptersAre(a) /\ AnswerIs(a, answer[t]) /\ asked[t] \in Kinds /\ machine.os = "linux"
  BY <1>1 DEF ThreadIs, Fits, StepIs
<1>4. adapters' = [adapters EXCEPT ![t] = a]
  BY <1>1 DEF Domains
<1>5. NvmlNext /\ \E D : Loaded(nvml'.devices, D) \/ Handles = <<>>
  BY <1>1, NvmlLoads
<1> HIDE DEF list, a
<1>6. AllTrue(a, list) /\ AllOwn(list)
  BY <1>2, <1>5, NvmlReadingsAre
<1>7. StepIs(a, "drm", asked[t], list)
  BY <1>3 DEF StepIs
<1> QED
  BY <1>1, <1>3, <1>4, <1>5, <1>6, <1>7, GoesOn

(* The cards of the DRM are read. *)
LEMMA QueryDrmFits ==
  ASSUME WorldIs, Domains, NEW t \in Threads, ThreadIs(t), QueryDrm(t)
  PROVE  FitsNext(t) /\ Alone(t) /\ nvml' = nvml
<1> DEFINE a == adapters[t]
           found == IF "drm" \in up THEN Filter(machine.pci, IsPublished) ELSE <<>>
           list == readings[t] \o [i \in DOMAIN found |-> DrmCard(found[i])]
<1>1. step[t] = "drm" /\ adapters' = adapters /\ nvml' = nvml /\ Conclude(t, list)
  BY DEF QueryDrm
<1>2. /\ AdaptersAre(a) /\ AnswerIs(a, answer[t]) /\ asked[t] \in Kinds /\ machine.os = "linux"
      /\ AllTrue(a, readings[t]) /\ AllOwn(readings[t])
  BY <1>1 DEF ThreadIs, Fits, StepIs
<1>3. adapters' = [adapters EXCEPT ![t] = a]
  BY <1>1 DEF Domains
<1>4. DrmListed(list, readings[t], found)
  BY DEF DrmListed
<1>5. AllTrue(a, list) /\ AllOwn(list)
  <2>1. found = IF "drm" \in up THEN Filter(machine.pci, IsPublished) ELSE <<>>
    OBVIOUS
  <2> HIDE DEF list, a, found
  <2> QED
    BY <1>2, <1>4, <2>1, DrmReadingsAre
<1> HIDE DEF list, a
<1> QED
  BY <1>1, <1>2, <1>3, <1>5, Concludes

(* Two elements make a list. *)
LEMMA PairIs == ASSUME NEW S, NEW x \in S, NEW y \in S PROVE <<x, y>> \in Seq(S)
OBVIOUS

(* The classes IOKit is asked for. *)
LEMMA ClassesAre == ACCELERATOR_CLASSES \in Seq({"IOAccelerator", "AGXAccelerator"})
BY PairIs DEF ACCELERATOR_CLASSES

(* IOKit is read. *)
LEMMA QueryIokitFits ==
  ASSUME WorldIs, Domains, NEW t \in Threads, ThreadIs(t), QueryIokit(t)
  PROVE  FitsNext(t) /\ Alone(t) /\ nvml' = nvml
<1> DEFINE a == adapters[t]
           answering == Filter(ACCELERATOR_CLASSES, LAMBDA k :
                          "iokit" \in up /\ Services(k) # <<>> /\ Desc(Services(k)[1]).published # {})
           kept == {i \in DOMAIN ACCELERATOR_CLASSES :
                      "iokit" \in up /\ Services(ACCELERATOR_CLASSES[i]) # <<>>
                        /\ Desc(Services(ACCELERATOR_CLASSES[i])[1]).published # {}}
           c == Services(answering[1])[1]
           util == IF "busy" \in Desc(c).published THEN Percent(c) ELSE None
           used == IF "memory" \in Desc(c).published THEN Some(card[c].used) ELSE None
           total == IF Unified(c) /\ "sysctl" \in up THEN Some(machine.ram) ELSE None
           r == Reading(c, util, used, total, None, None)
           list == IF answering = <<>> THEN <<>> ELSE <<r>>
<1>1. step[t] = "iokit" /\ adapters' = adapters /\ nvml' = nvml /\ Conclude(t, list)
  BY DEF QueryIokit
<1>2. /\ AdaptersAre(a) /\ AnswerIs(a, answer[t]) /\ asked[t] \in Kinds /\ machine.os = "macos" /\ asked[t] # "memory"
  BY <1>1 DEF ThreadIs, Fits, StepIs
<1>3. adapters' = [adapters EXCEPT ![t] = a]
  BY <1>1 DEF Domains
<1>4. ASSUME answering # <<>>
      PROVE  c \in Cards
  <2>1. answering = Picked(ACCELERATOR_CLASSES, kept)
    <3> DEFINE Ok(k) == "iokit" \in up /\ Services(k) # <<>> /\ Desc(Services(k)[1]).published # {}
    <3>1. answering = Filter(ACCELERATOR_CLASSES, Ok) /\ kept = {i \in DOMAIN ACCELERATOR_CLASSES : Ok(ACCELERATOR_CLASSES[i])}
      OBVIOUS
    <3> HIDE DEF Ok, answering, kept
    <3>2. Filter(ACCELERATOR_CLASSES, Ok) = Picked(ACCELERATOR_CLASSES, {i \in DOMAIN ACCELERATOR_CLASSES : Ok(ACCELERATOR_CLASSES[i])})
      BY DEF Filter
    <3> QED
      BY <3>1, <3>2
  <2>2. ACCELERATOR_CLASSES \in Seq({"IOAccelerator", "AGXAccelerator"})
    BY ClassesAre
  <2>3. kept \in SUBSET DOMAIN ACCELERATOR_CLASSES
    OBVIOUS
  <2>4. \A i \in kept : Services(ACCELERATOR_CLASSES[i]) # <<>>
    OBVIOUS
  <2>5. \E i \in kept : answering[1] = ACCELERATOR_CLASSES[i]
    <3> HIDE DEF kept, answering
    <3>1. answering \in Seq({"IOAccelerator", "AGXAccelerator"}) /\ \A k \in DOMAIN answering : \E i \in kept : answering[k] = ACCELERATOR_CLASSES[i]
      BY <2>1, <2>2, <2>3, PickedFrom
    <3>2. 1 \in DOMAIN answering
      BY <1>4, <3>1
    <3> QED
      BY <3>1, <3>2
  <2> HIDE DEF kept, answering
  <2>6. Services(answering[1]) # <<>>
    BY <2>4, <2>5
  <2> DEFINE class == answering[1]
             those == {i \in DOMAIN machine.order : card[machine.order[i]].there /\ class \in Desc(machine.order[i]).classes}
  <2>7. Services(class) = Picked(machine.order, those)
    BY DEF Services, Filter
  <2>8. machine.order \in Seq(Cards)
    BY MachineIs DEF WorldIs, EachOnce
  <2>9. Services(class) \in Seq(Cards)
    BY <2>7, <2>8, PickedFrom
  <2> QED
    BY <2>6, <2>9
<1> HIDE DEF answering, c
<1>5. AllTrue(a, list) /\ AllOwn(list)
  <2>1. CASE answering = <<>>
    BY <2>1, NothingRead
  <2>2. CASE answering # <<>>
    <3>1. c \in Cards
      BY <1>4, <2>2
    <3>2. util \in Seq(Nat) /\ OrElse(util, 0) \in 0..100
      <4>1. Percent(c) \in Seq(Nat) /\ OrElse(Percent(c), 0) \in 0..100
        BY PercentIs
      <4>2. None \in Seq(Nat) /\ OrElse(None, 0) = 0
        BY Options
      <4>3. util = Percent(c) \/ util = None
        OBVIOUS
      <4> HIDE DEF util
      <4> QED
        BY <4>1, <4>2, <4>3
    <3>3. total \in Seq(Nat)
      BY MachineIs, Options DEF WorldIs
    <3>4. used \in {None, Some(card[c].used)}
      OBVIOUS
    <3> HIDE DEF util, total, used
    <3>5. r \in Readings /\ TruthOf(a, r) /\ SensesOwn(r)
      BY <1>2, <3>1, <3>2, <3>3, <3>4, ReadingIsTrue
    <3>6. list = <<r>>
      BY <2>2
    <3> HIDE DEF r, list
    <3>7. list \in Seq(Readings) /\ DOMAIN list = {1} /\ list[1] = r
      BY <3>5, <3>6
    <3> QED
      BY <3>5, <3>7 DEF AllTrue, AllOwn, NoneShared, AreShared
  <2> QED
    BY <2>1, <2>2
<1> HIDE DEF list, a
<1> QED
  BY <1>1, <1>2, <1>3, <1>5, Concludes

(* system_profiler and vm_stat are read, which say nothing of what is in   *)
(* use.                                                                    *)
LEMMA QueryProfilerFits ==
  ASSUME WorldIs, Domains, NEW t \in Threads, ThreadIs(t), QueryProfiler(t)
  PROVE  FitsNext(t) /\ Alone(t) /\ nvml' = nvml
<1> DEFINE a == adapters[t]
           free == IF "vm_stat" \in up THEN machine.free ELSE 0
<1>1. step[t] = "profiler" /\ adapters' = adapters /\ nvml' = nvml
  BY DEF QueryProfiler
<1>2. AdaptersAre(a) /\ AnswerIs(a, answer[t]) /\ asked[t] = "memory" /\ machine.os = "macos"
  BY <1>1 DEF ThreadIs, Fits, StepIs
<1>3. adapters' = [adapters EXCEPT ![t] = a]
  BY <1>1 DEF Domains
<1>4. \/ \E c : Returns(t, <<Info(c, card[c], Desc(c).dedicated, 0, FALSE, 0, FALSE)>>)
      \/ \E c : Returns(t, <<Info(c, card[c], machine.ram, free, free > 0, 0, TRUE)>>)
      \/ Returns(t, <<>>)
  BY DEF QueryProfiler
<1>5. machine.free \in Nat
  BY MachineIs DEF WorldIs
<1>6. \A c : FreeIsTrue(a, Info(c, card[c], Desc(c).dedicated, 0, FALSE, 0, FALSE))
  BY DEF FreeIsTrue, Info
<1>7. \A c : FreeIsTrue(a, Info(c, card[c], machine.ram, free, free > 0, 0, TRUE))
  BY <1>2, <1>5 DEF FreeIsTrue, Info
<1>8. \A info : FreeIsTrue(a, info) => AnswerIs(a, [to |-> asked[t], list |-> <<info>>])
  BY <1>2 DEF AnswerIs
<1>9. AnswerIs(a, [to |-> asked[t], list |-> <<>>])
  BY <1>2 DEF AnswerIs
<1> HIDE DEF a, free
<1>10. ASSUME NEW info, FreeIsTrue(a, info), Returns(t, <<info>>)
       PROVE  FitsNext(t) /\ Alone(t)
  BY <1>2, <1>3, <1>8, <1>10, ReturnsWith
<1>11. ASSUME Returns(t, <<>>)
       PROVE  FitsNext(t) /\ Alone(t)
  BY <1>2, <1>3, <1>9, <1>11, ReturnsWith
<1> QED
  BY <1>1, <1>4, <1>6, <1>7, <1>10, <1>11

-----------------------------------------------------------------------------
(* The readings are true of their cards. *)

(* The inductive invariant of the statistics. *)
StatsInv == WorldIs /\ NvmlIs /\ Domains /\ \A t \in Threads : ThreadIs(t)

(* A thread lists its adapters once. *)
AdaptersStay == \A t \in Threads : adapters'[t] = adapters[t] \/ adapters[t] = <<>>

(* It holds at the start. *)
LEMMA StatsStart ==
  ASSUME Init
  PROVE  StatsInv
<1>1. WorldIs
  BY WorldStarts
<1>2. NvmlIs /\ Domains
  BY DEF Init, StatsInit, NvmlIs, Domains
<1>3. ASSUME NEW t \in Threads PROVE ThreadIs(t)
  <2>1. adapters[t] = <<>> /\ step[t] = "idle" /\ asked[t] = "nobody" /\ readings[t] = <<>> /\ answer[t] = NoAnswer
    BY DEF Init, StatsInit
  <2>2. AdaptersAre(<<>>)
    BY DEF AdaptersAre
  <2>3. StepIs(<<>>, "idle", "nobody", <<>>)
    BY DEF StepIs
  <2>4. AnswerIs(<<>>, NoAnswer)
    BY DEF AnswerIs, NoAnswer
  <2> QED
    BY <2>1, <2>2, <2>3, <2>4, NothingRead DEF ThreadIs, Fits
<1> QED
  BY <1>1, <1>2, <1>3 DEF StatsInv

(* A machine that stands still is onward. *)
LEMMA WorldRests ==
  ASSUME WorldIs, UNCHANGED world
  PROVE  WorldIs' /\ Onward
BY DEF world, WorldIs, Onward, Cards, NeverLeft

(* The statistics are left alone, whatever the machine does. *)
LEMMA StatsRest ==
  ASSUME StatsInv, WorldIs', Onward, UNCHANGED statsVars
  PROVE  StatsInv' /\ AdaptersStay
<1>1. /\ adapters' = adapters /\ step' = step /\ asked' = asked /\ readings' = readings /\ answer' = answer
      /\ nvml' = nvml
  BY DEF statsVars
<1>2. NvmlIs'
  BY <1>1, NvmlKeeps DEF StatsInv, NvmlIs
<1>3. Domains'
  BY <1>1 DEF StatsInv, Domains
<1>4. ASSUME NEW t \in Threads PROVE ThreadIs(t)'
  <2>1. Fits(adapters[t], step[t], asked[t], readings[t], answer[t])
    BY DEF StatsInv, ThreadIs
  <2>2. \A a, s, k, rs, an : Fits(a, s, k, rs, an) => Fits(a, s, k, rs, an)'
    BY FitsKeeps
  <2> QED
    BY <1>1, <2>1, <2>2 DEF ThreadIs
<1> QED
  BY <1>1, <1>2, <1>3, <1>4 DEF StatsInv, AdaptersStay

(* One thread takes a step, and the machine stands still. *)
LEMMA StatsMove ==
  ASSUME StatsInv, UNCHANGED world, NEW t \in Threads, FitsNext(t), Alone(t), NvmlNext
  PROVE  StatsInv'
<1>1. WorldIs' /\ Onward
  BY WorldRests DEF StatsInv
<1>2. NvmlIs'
  BY <1>1, NvmlKeeps DEF NvmlNext, NvmlIs
<1>3. Domains'
  BY DEF Alone
<1>4. ASSUME NEW u \in Threads PROVE ThreadIs(u)'
  <2>1. Fits(adapters'[u], step'[u], asked'[u], readings'[u], answer'[u])
    BY DEF StatsInv, ThreadIs, FitsNext, Alone
  <2>2. \A a, s, k, rs, an : Fits(a, s, k, rs, an) => Fits(a, s, k, rs, an)'
    BY <1>1, FitsKeeps
  <2> QED
    BY <2>1, <2>2 DEF ThreadIs
<1> QED
  BY <1>1, <1>2, <1>3, <1>4 DEF StatsInv

(* Every step of a call keeps the invariant. *)
LEMMA RunsKeep ==
  ASSUME StatsInv, NEW t \in Threads, Runs(t)
  PROVE  StatsInv' /\ AdaptersStay
<1>1. UNCHANGED world /\ WorldIs /\ NvmlIs /\ Domains /\ ThreadIs(t)
  BY DEF Runs, StatsInv
<1>2. nvml' = nvml => NvmlNext
  BY <1>1 DEF NvmlIs, NvmlNext
<1>3. FitsNext(t) /\ Alone(t) /\ NvmlNext
  <2>1. CASE Polls(t)
    <3>1. PICK what \in {"stats", "memory of all"} : Ask(t, what)
      BY <2>1 DEF Polls
    <3> QED
      BY <1>1, <1>2, <3>1, AskFits DEF Kinds
  <2>2. CASE ListAdapters(t)
    BY <1>1, <1>2, <2>2, ListFits
  <2>3. CASE Collect(t)
    BY <1>1, <1>2, <2>3, CollectFits
  <2>4. CASE Enrich(t)
    BY <1>1, <2>4, EnrichFits
  <2>5. CASE QueryNvml(t)
    BY <1>1, <2>5, QueryNvmlFits
  <2>6. CASE QueryDrm(t)
    BY <1>1, <1>2, <2>6, QueryDrmFits
  <2>7. CASE QueryIokit(t)
    BY <1>1, <1>2, <2>7, QueryIokitFits
  <2>8. CASE QueryProfiler(t)
    BY <1>1, <1>2, <2>8, QueryProfilerFits
  <2> QED
    BY <2>1, <2>2, <2>3, <2>4, <2>5, <2>6, <2>7, <2>8 DEF Runs, StatsStep
<1>4. AdaptersStay
  <2>1. adapters' = adapters \/ ListAdapters(t)
    BY DEF Runs, Polls, Ask, StatsStep, Collect, Enrich, QueryNvml, QueryDrm, QueryIokit, QueryProfiler
  <2>2. CASE ListAdapters(t)
    <3>1. adapters'[t] = adapters[t] \/ adapters[t] = <<>>
      BY <1>1, <2>2 DEF ListAdapters, Domains
    <3> QED
      BY <1>3, <3>1 DEF Alone, AdaptersStay
  <2> QED
    BY <2>1, <2>2 DEF AdaptersStay
<1> QED
  BY <1>1, <1>3, <1>4, StatsMove

(* So does every step there is. *)
LEMMA StatsKeep ==
  ASSUME StatsInv, [Next]_vars
  PROVE  StatsInv' /\ Onward /\ AdaptersStay
<1>1. CASE Changes /\ UNCHANGED <<statsVars, watchVars, sharedVars, plan>>
  <2>1. WorldIs' /\ Onward
    BY <1>1, WorldKeeps DEF StatsInv, Onward
  <2>2. UNCHANGED statsVars
    BY <1>1
  <2> QED
    BY <2>1, <2>2, StatsRest
<1>2. CASE \E t \in Threads : Runs(t)
  <2>1. UNCHANGED world
    BY <1>2 DEF Runs, world
  <2> QED
    BY <1>2, <2>1, RunsKeep, WorldRests DEF StatsInv
<1>3. CASE \E t \in machine.planners : AskMemory(t) /\ UNCHANGED <<world, watchVars, sharedVars>>
  <2>1. UNCHANGED world
    BY <1>3 DEF world
  <2>2. PICK t \in machine.planners : AskMemory(t)
    BY <1>3
  <2>3. t \in Threads /\ WorldIs /\ Domains /\ ThreadIs(t) /\ Ask(t, "memory") /\ "memory" \in Kinds
    BY <2>2, CardMemoryAssumption DEF StatsInv, WorldIs, AskMemory, Kinds
  <2>4. FitsNext(t) /\ Alone(t) /\ nvml' = nvml
    BY <2>3, AskFits
  <2>5. NvmlNext
    BY <2>4 DEF StatsInv, NvmlIs, NvmlNext
  <2>6. AdaptersStay
    BY <2>3 DEF Ask, AdaptersStay
  <2> QED
    BY <2>1, <2>3, <2>4, <2>5, <2>6, StatsMove, WorldRests
<1>4. CASE \E t \in machine.planners : Plan(t) /\ UNCHANGED <<world, watchVars, sharedVars>>
  <2>1. UNCHANGED world
    BY <1>4 DEF world
  <2>2. PICK t \in machine.planners : Plan(t)
    BY <1>4
  <2>3. t \in Threads /\ WorldIs /\ Domains /\ ThreadIs(t)
    BY <2>2, CardMemoryAssumption DEF StatsInv, WorldIs
  <2>4. /\ adapters' = adapters /\ step' = step /\ asked' = asked /\ readings' = readings /\ nvml' = nvml
        /\ answer' = [answer EXCEPT ![t] = NoAnswer]
    BY <2>2 DEF Plan
  <2>5. Alone(t)
    BY <2>3, <2>4 DEF Alone, Domains
  <2>6. FitsNext(t)
    <3>1. answer'[t] = NoAnswer
      BY <2>3, <2>4 DEF Domains
    <3>2. AnswerIs(adapters[t], NoAnswer)
      BY DEF AnswerIs, NoAnswer
    <3> QED
      BY <2>3, <2>4, <3>1, <3>2 DEF FitsNext, ThreadIs, Fits
  <2>7. NvmlNext
    BY <2>4 DEF StatsInv, NvmlIs, NvmlNext
  <2> QED
    BY <2>1, <2>3, <2>4, <2>5, <2>6, <2>7, StatsMove, WorldRests DEF AdaptersStay
<1>5. CASE UNCHANGED world /\ UNCHANGED statsVars
  BY <1>5, StatsRest, WorldRests DEF StatsInv
<1>6. CASE \E t \in machine.watchers :
             (WatchAsk(t) \/ WatchStep(t)) /\ UNCHANGED <<world, statsVars, sharedVars, plan>>
  BY <1>5, <1>6 DEF world, statsVars
<1>7. CASE Tick /\ UNCHANGED <<world, statsVars, sharedVars, plan>>
  BY <1>5, <1>7 DEF world, statsVars
<1>8. CASE \E t \in machine.sharers :
             (Export(t) \/ Import(t) \/ SharingStep(t)) /\ UNCHANGED <<world, statsVars, watchVars, plan>>
  BY <1>5, <1>8 DEF world, statsVars
<1>9. CASE OwnerStep /\ UNCHANGED <<world, statsVars, watchVars, plan>>
  BY <1>5, <1>9 DEF world, statsVars
<1>10. CASE UNCHANGED vars
  BY <1>5, <1>10 DEF vars
<1> QED
  BY <1>1, <1>2, <1>3, <1>4, <1>6, <1>7, <1>8, <1>9, <1>10 DEF Next

(* The answers it speaks of are the ones the two properties do. *)
LEMMA OwnFollows ==
  ASSUME StatsInv
  PROVE  UsageIsOwn /\ SensorsAreOwn
<1>1. ASSUME NEW t \in Threads, answer[t].to = "stats", NEW i \in DOMAIN answer[t].list
      PROVE  /\ TruthOf(adapters[t], answer[t].list[i]) /\ SensesOwn(answer[t].list[i])
             /\ NoneShared(answer[t].list)
  BY <1>1 DEF StatsInv, ThreadIs, Fits, AnswerIs, AllTrue, AllOwn
<1>2. UsageIsOwn
  <2>1. \A t, r : Current(adapters[t], r) <=> LuidIsCurrent(t, r)
    BY DEF Current, LuidIsCurrent
  <2> QED
    BY <1>1, <2>1 DEF UsageIsOwn, TruthOf
<1>3. SensorsAreOwn
  <2> SUFFICES ASSUME NEW t \in Threads, answer[t].to = "stats", NEW i \in DOMAIN answer[t].list,
                      answer[t].list[i].sensors # None
               PROVE  LET r == answer[t].list[i]
                          sensed == r.sensors[1]
                      IN /\ MayBeOf(sensed, r.name)
                         /\ \A j \in DOMAIN answer[t].list :
                              (j # i /\ answer[t].list[j].name = r.name) => answer[t].list[j].sensors # r.sensors
                         /\ (/\ r.name.vendor = "nvidia"
                             /\ Aligned(r.name)
                             /\ \A c \in Cards : Desc(c).name = r.name => NeverLeft(c)) => sensed = r.of
    BY DEF SensorsAreOwn, MayBeOf
  <2> DEFINE r == answer[t].list[i]
  <2>1. SensesOwn(r) /\ NoneShared(answer[t].list)
    BY <1>1
  <2>2. \A j \in DOMAIN answer[t].list : (j # i /\ answer[t].list[j].name = r.name) => answer[t].list[j].sensors # r.sensors
    BY <2>1 DEF NoneShared, AreShared
  <2>3. (\A c \in Cards : Desc(c).name = r.name => NeverLeft(c)) => Steady(r.name)
    BY DEF Steady, OfName
  <2>4. r.sensors # None
    OBVIOUS
  <2> HIDE DEF r
  <2>5. r.sensors = Some(r.of) => r.sensors[1] = r.of
    BY Options
  <2>6. /\ MayBeOf(r.sensors[1], r.name)
        /\ (/\ r.name.vendor = "nvidia"
            /\ Aligned(r.name)
            /\ \A c \in Cards : Desc(c).name = r.name => NeverLeft(c)) => r.sensors[1] = r.of
    BY <2>1, <2>3, <2>4, <2>5 DEF SensesOwn
  <2> QED
    BY <2>2, <2>6 DEF r
<1> QED
  BY <1>2, <1>3

(* No reading of stats::query_all carries another card's memory or a       *)
(* utilisation above 100, for any machine, threads and number of changes,  *)
(* as long as its card is there under the LUID that was cached.            *)
THEOREM UsageStaysOwn == Spec => []UsageIsOwn
<1>1. Init => StatsInv
  BY StatsStart
<1>2. StatsInv /\ [Next]_vars => StatsInv'
  BY StatsKeep
<1>3. StatsInv => UsageIsOwn
  BY OwnFollows
<1> QED
  BY <1>1, <1>2, <1>3, PTL DEF Spec

(* Whatever sensors a reading has, for any machine, threads and changes,   *)
(* they are an NVIDIA card's, of the reading's model unless there is no    *)
(* other NVIDIA card that never left, and no other reading of the name has *)
(* them; and they are of the reading's own card where that is an NVIDIA    *)
(* card whose model is numbered alike and has lost none.                   *)
THEOREM SensorsStayOwn == Spec => []SensorsAreOwn
<1>1. Init => StatsInv
  BY StatsStart
<1>2. StatsInv /\ [Next]_vars => StatsInv'
  BY StatsKeep
<1>3. StatsInv => SensorsAreOwn
  BY OwnFollows
<1> QED
  BY <1>1, <1>2, <1>3, PTL DEF Spec

-----------------------------------------------------------------------------
(* The figures a plan is made of. *)

(* The least of a set of numbers is in it. *)
LEMMA LeastIs ==
  ASSUME NEW S \in SUBSET Nat, S # {}
  PROVE  Min(S) \in S
<1> DEFINE Below == OpToRel(<, Nat)
<1>1. PICK x \in S : \A y \in S : ~ (<<y, x>> \in Below)
  BY NatLessThanWellFounded, WFMin
<1>2. \A y \in S : y < x => <<y, x>> \in Below
  BY DEF OpToRel
<1> HIDE DEF Below
<1>3. \A y \in S : x <= y
  <2>1. \A y \in S : ~ (y < x)
    BY <1>1, <1>2
  <2>2. \A y, z \in Nat : ~ (y < z) => z <= y
    OBVIOUS
  <2> QED
    BY <2>1, <2>2
<1> QED
  BY <1>3 DEF Min

(* An optional number. *)
Amounts == {None} \cup {Some(n) : n \in Nat}

(* The size of the largest local heap is a number, when there is one. *)
LEMMA HeapIs ==
  ASSUME WorldIs, NEW c \in Cards
  PROVE  LocalHeap(c) \in Amounts
<1> DEFINE heaps == Desc(c).heaps
           local == {h \in DOMAIN heaps : heaps[h].local}
           largest == {h \in local : \A k \in local : heaps[k].size <= heaps[h].size}
           sizes == {heaps[h].size : h \in local}
<1>1. heaps \in Seq([local : BOOLEAN, size : Nat])
  BY MachineIs DEF WorldIs, CardDescs
<1>2. DOMAIN heaps = 1..Len(heaps) /\ Len(heaps) \in Nat /\ \A h \in DOMAIN heaps : heaps[h].size \in Nat
  <2> DEFINE Heap == [local : BOOLEAN, size : Nat]
  <2>1. \A x \in Heap : x.size \in Nat
    OBVIOUS
  <2> HIDE DEF heaps, Heap
  <2>2. heaps \in Seq(Heap)
    BY <1>1 DEF Heap
  <2> QED
    BY <2>1, <2>2
<1>3. LocalHeap(c) = IF local = {} THEN None ELSE Some(heaps[Min(largest)].size)
  BY DEF LocalHeap
<1> HIDE DEF heaps
<1>4. IsFiniteSet(local) /\ local \subseteq Nat
  BY <1>2, UpTo, FS_Subset
<1>5. sizes \in SUBSET Nat /\ IsFiniteSet(sizes) /\ (local # {} => sizes # {})
  <2> DEFINE f == [h \in local |-> heaps[h].size]
  <2>1. DOMAIN f = local /\ sizes = {f[h] : h \in local}
    OBVIOUS
  <2>2. DOMAIN f = local /\ IsFiniteSet(local)
    BY <1>4
  <2> HIDE DEF f, local
  <2>3. IsFiniteSet({f[h] : h \in local})
    BY <2>2, ImageIsFinite
  <2> QED
    BY <1>2, <2>1, <2>3 DEF local
<1>6. CASE local # {}
  <2>1. Max(sizes) \in sizes /\ \A n \in sizes : n <= Max(sizes)
    <3> HIDE DEF sizes, local
    <3> QED
      BY <1>5, <1>6, LargestExists
  <2>2. largest # {} /\ largest \subseteq local
    BY <2>1
  <2>3. Min(largest) \in local
    <3> HIDE DEF largest, local
    <3> QED
      BY <1>4, <2>2, LeastIs
  <2> QED
    BY <1>2, <1>3, <1>6, <2>3 DEF Amounts
<1> QED
  BY <1>3, <1>6 DEF Amounts

(* So is the live headroom, when the driver answers. *)
LEMMA HeadroomIs ==
  ASSUME WorldIs, NEW g \in DOMAIN machine.gpus
  PROVE  LiveHeadroom(g) \in Amounts
<1> DEFINE c == Gpu(g).card
           info == Query(g)
           Info2 == [used : Nat, budget : Nat]
<1>1. c \in Cards
  BY VramWatchAssumption DEF WorldIs, Gpu, Cards
<1>2. \A k \in Cards : Desc(k).own \in Nat /\ Desc(k).workingSet \in Nat /\ Size(k) \in Nat /\ card[k].used \in Nat
  BY MachineIs DEF WorldIs, CardDescs, CardStates
<1>3. \A a, b \in Nat : Minus(a, b) \in Nat
  BY DEF Minus
<1>4. info \in {None} \cup {Some(v) : v \in Info2}
  <2>1. CASE machine.os = "windows"
    <3> DEFINE found == {k \in Cards : "dxgi" \in up /\ card[k].there /\ PhysId(g).kind = "Luid" /\ card[k].luid = PhysId(g).id}
               k == Min(found)
               v == [used |-> Desc(k).own, budget |-> Minus(Size(k), card[k].used)]
    <3>1. info = IF found = {} THEN None ELSE Some(v)
      BY <2>1 DEF Query
    <3>2. found # {} => k \in Cards
      <4>1. found \in SUBSET Nat /\ found \subseteq Cards
        BY MachineIs DEF WorldIs
      <4> HIDE DEF found
      <4> QED
        BY <4>1, LeastIs
    <3> HIDE DEF k, found
    <3>3. k \in Cards => v \in Info2
      BY <1>2, <1>3
    <3> HIDE DEF v, Info2, info
    <3> QED
      BY <3>1, <3>2, <3>3
  <2>2. CASE machine.os = "linux"
    <3> DEFINE v == [used |-> Desc(c).own, budget |-> Minus(LocalHeap(c)[1], card[c].used)]
    <3>1. info \in {None, Some(v)} /\ (info = Some(v) => LocalHeap(c) # None)
      BY <2>2 DEF Query, None, Some
    <3>2. LocalHeap(c) # None => LocalHeap(c)[1] \in Nat
      BY <1>1, HeapIs DEF Amounts, Some
    <3>3. LocalHeap(c) # None => v \in Info2
      BY <1>1, <1>2, <1>3, <3>2
    <3> HIDE DEF v, Info2, info, c
    <3> QED
      BY <3>1, <3>3
  <2>3. CASE machine.os = "macos"
    <3> DEFINE v == [used |-> Desc(c).own, budget |-> Desc(c).workingSet]
    <3>1. info \in {None, Some(v)}
      BY <2>3 DEF Query
    <3>2. v \in Info2
      BY <1>1, <1>2
    <3> HIDE DEF v, Info2, info, c
    <3> QED
      BY <3>1, <3>2
  <2> QED
    BY <2>1, <2>2, <2>3, MachineIs DEF WorldIs
<1>5. LiveHeadroom(g) = IF info = None THEN None ELSE Some(Minus(info[1].budget, info[1].used))
  BY DEF LiveHeadroom
<1> HIDE DEF info
<1>6. CASE info = None
  BY <1>5, <1>6 DEF Amounts
<1>7. CASE info # None
  <2>1. PICK v \in Info2 : info = Some(v)
    BY <1>4, <1>7
  <2>2. info[1] = v /\ v.budget \in Nat /\ v.used \in Nat
    BY <2>1 DEF Some
  <2>3. Minus(v.budget, v.used) \in Nat
    BY <1>3, <2>2
  <2>4. LiveHeadroom(g) = Some(Minus(v.budget, v.used))
    BY <1>5, <1>7, <2>2
  <2> QED
    BY <2>3, <2>4 DEF Amounts
<1> QED
  BY <1>6, <1>7

-----------------------------------------------------------------------------
(* The formulas of a plan. *)

(* plan_vram divides no more than the share of the headroom. *)
LEMMA PlanVramIs ==
  ASSUME NEW headroom \in Amounts, NEW unified, NEW fixed \in Nat, NEW tile \in Nat \ {0},
         NEW planned, planned = PlanVram(headroom, unified, fixed, tile), planned # None
  PROVE  fixed + planned[1].decode + planned[1].atlas <= VramBudgetFrom(headroom[1], unified)
<1> DEFINE share == VramBudgetFrom(headroom[1], unified)
           decode == Clamp(share \div POOL_DIV, POOL_MIN, POOL_MAX)
           atlas == Minus(share, fixed + decode)
           v == [atlas |-> atlas, decode |-> decode]
<1>1. planned = IF headroom = None \/ atlas < tile THEN None ELSE Some(v)
  BY DEF PlanVram
<1>2. headroom # None /\ ~ (atlas < tile) /\ planned = Some(v)
  <2> HIDE DEF atlas, v
  <2> QED
    BY <1>1
<1>3. headroom[1] \in Nat
  BY <1>2 DEF Amounts, Some
<1>4. share \in Nat
  BY <1>3 DEF VramBudgetFrom, VRAM_SHARE, VRAM_SHARE_UNIFIED
<1>5. decode \in Nat
  <2> HIDE DEF share
  <2>1. share \div 16 \in Nat
    BY <1>4
  <2> QED
    BY <2>1 DEF Clamp, AtMost, POOL_DIV, POOL_MIN, POOL_MAX
<1>6. planned[1].decode = decode /\ planned[1].atlas = atlas
  <2>1. v.decode = decode /\ v.atlas = atlas
    BY DEF v
  <2> HIDE DEF v
  <2>2. planned[1] = v
    BY <1>2 DEF Some
  <2> QED
    BY <2>1, <2>2
<1> HIDE DEF decode, share
<1>7. atlas = share - (fixed + decode)
  BY <1>2, <1>4, <1>5 DEF Minus
<1> HIDE DEF atlas
<1>8. fixed + decode + atlas <= share
  BY <1>4, <1>5, <1>7
<1> QED
  BY <1>6, <1>8 DEF share

(* ram_budget_from never gives out the reserve, nor, unless it is a share  *)
(* of the installed memory, what is not free.                              *)
LEMMA RamBudgetIs ==
  ASSUME NEW total \in Nat, NEW avail \in Nat, avail <= total, NEW policy \in {"installed", "available", "min"},
         NEW fraction \in Nat, NEW reserve \in Nat
  PROVE  LET b == RamBudgetFrom(total, avail, policy, fraction, reserve)
         IN b <= Minus(total, reserve) /\ (policy # "installed" => b <= Minus(avail, reserve))
<1> DEFINE Share(base) == AtMost((base * Clamp(fraction, 0, 100)) \div 100, Minus(base, reserve))
           b == RamBudgetFrom(total, avail, policy, fraction, reserve)
<1>1. Minus(total, reserve) \in Nat /\ Minus(avail, reserve) \in Nat /\ Minus(avail, reserve) <= Minus(total, reserve)
  BY DEF Minus
<1>2. \A x, y \in Int : AtMost(x, y) \in Int /\ AtMost(x, y) <= x /\ AtMost(x, y) <= y
  BY DEF AtMost
<1>3. Clamp(fraction, 0, 100) \in Int
  BY DEF Clamp, AtMost
<1>4. \A base \in Nat : (base * Clamp(fraction, 0, 100)) \div 100 \in Int
  <2> DEFINE f == Clamp(fraction, 0, 100)
  <2> HIDE DEF f
  <2>1. \A base \in Nat : base * f \in Int
    BY <1>3 DEF f
  <2>2. \A x \in Int : x \div 100 \in Int
    OBVIOUS
  <2> QED
    BY <2>1, <2>2 DEF f
<1>5. \A base \in Nat : Minus(base, reserve) \in Int => Share(base) \in Int /\ Share(base) <= Minus(base, reserve)
  BY <1>2, <1>4
<1>6. b = CASE policy = "installed" -> Share(total)
            [] policy = "available" -> Share(avail)
            [] policy = "min" -> AtMost(Share(total), Minus(avail, reserve))
  BY DEF RamBudgetFrom
<1>7. Share(total) \in Int /\ Share(total) <= Minus(total, reserve) /\ Share(avail) \in Int /\ Share(avail) <= Minus(avail, reserve)
  BY <1>1, <1>5
<1> DEFINE st == Share(total)
           sa == Share(avail)
           mt == Minus(total, reserve)
           ma == Minus(avail, reserve)
<1>8. /\ st \in Int /\ sa \in Int /\ mt \in Nat /\ ma \in Nat /\ st <= mt /\ sa <= ma /\ ma <= mt
      /\ b = CASE policy = "installed" -> st [] policy = "available" -> sa [] policy = "min" -> AtMost(st, ma)
  BY <1>1, <1>6, <1>7
<1> HIDE DEF st, sa, mt, ma, b
<1>9. CASE policy = "installed"
  BY <1>8, <1>9 DEF b, mt
<1>10. CASE policy = "available"
  <2>1. b = sa /\ sa <= mt
    BY <1>8, <1>10
  <2> QED
    BY <1>8, <2>1 DEF b, mt, ma
<1>11. CASE policy = "min"
  <2>1. b = AtMost(st, ma) /\ AtMost(st, ma) <= ma /\ AtMost(st, ma) <= mt
    BY <1>2, <1>8, <1>11
  <2> QED
    BY <2>1 DEF b, mt, ma
<1> QED
  BY <1>9, <1>10, <1>11 DEF b

(* An image that need not be tiled fits one texture and one binding. *)
LEMMA TilingIs ==
  ASSUME NEW limits \in [texture : Nat, binding : Nat], NEW total, NEW available, NEW width \in Nat, NEW height \in Nat,
         TilingReason(FromWgpuLimits(limits, total, available), width, height, 16) = "none",
         ValidateDims(limits, width, height) # "ZeroSize"
  PROVE  ValidateDims(limits, width, height) = "ok" /\ ImageBytes(width, height, 16) <= limits.binding
<1> DEFINE w == FromWgpuLimits(limits, total, available)
<1>1. w.dim = limits.texture /\ w.binding = limits.binding
  BY DEF FromWgpuLimits
<1> HIDE DEF w
<1>2. TilingReasonRows(w, width, height, width * 16) = "none"
  BY DEF TilingReason, w
<1>3. ~ (width > limits.texture \/ height > limits.texture) /\ ~ ((width * 16) * height > limits.binding)
  BY <1>1, <1>2 DEF TilingReasonRows
<1>4. ValidateDims(limits, width, height) = "ok"
  BY <1>3 DEF ValidateDims
<1>5. (width * 16) * height = width * height * 16 /\ (width * 16) * height \in Nat
  OBVIOUS
<1>6. limits.binding \in Nat
  OBVIOUS
<1> QED
  BY <1>3, <1>4, <1>5, <1>6 DEF ImageBytes

-----------------------------------------------------------------------------
(* What a plan keeps to. *)

(* What a plan of job j, made from the adapters a, keeps to. *)
DriverHolds(job, p) ==
  (p.vram # None /\ job.tile > 0) =>
    ImageBytes(job.width, job.height, 16) + p.vram[1].decode + p.vram[1].atlas <= VramBudgetFrom(p.headroom[1], p.unified)

(* What a figure's card had left when it was sampled. *)
LeftOf(info) == IF machine.os = "macos" THEN machine.free ELSE Size(info.of) - info.truth.used

(* The budget of the system's figures is within the share of what is left. *)
SystemHolds(a, p) ==
  (/\ p.budget # None
   /\ p.from[1].known /\ p.from[1].free > 0 /\ p.from[1].truth.there /\ Current(a, p.from[1])) =>
      p.budget[1] <= VramBudgetFrom(LeftOf(p.from[1]), p.from[1].unified)

(* The RAM budget is within what there is outside of the reserve. *)
RamHolds(job, p) ==
  (p.ram # None /\ job.over = None) =>
    /\ p.ram[1] <= Minus(machine.ram, job.reserve)
    /\ job.policy # "installed" => p.ram[1] <= Minus(machine.free, job.reserve)

(* An untiled image fits one texture and one binding. *)
ImageHolds(job, p) ==
  (p.tiling = "none" /\ p.image # "ZeroSize") =>
    p.image = "ok" /\ ImageBytes(job.width, job.height, 16) <= machine.limits.binding

(* A plan keeps to all of it. *)
PlanHolds(a, p) ==
  p # NoPlan =>
    /\ DriverHolds(machine.jobs[p.job], p) /\ SystemHolds(a, p)
    /\ RamHolds(machine.jobs[p.job], p) /\ ImageHolds(machine.jobs[p.job], p)

(* Every plan does. *)
PlansHold == DOMAIN plan = Threads /\ \A t \in Threads : PlanHolds(adapters[t], plan[t])

(* A plan made keeps to it whatever the machine does next. *)
LEMMA HoldsKeeps ==
  ASSUME Onward, NEW a, NEW b, b = a \/ a = <<>>, NEW p, PlanHolds(a, p)
  PROVE  PlanHolds(b, p)'
<1>1. machine' = machine /\ \A c : Size(c)' = Size(c)
  BY NamesKeep DEF Onward
<1>2. Current(b, p.from[1]) => Current(a, p.from[1])
  BY DEF Current
<1>3. SystemHolds(a, p) => SystemHolds(b, p)'
  BY <1>1, <1>2 DEF SystemHolds, LeftOf
<1>4. \A job : (RamHolds(job, p) => RamHolds(job, p)') /\ (ImageHolds(job, p) => ImageHolds(job, p)')
  BY <1>1 DEF RamHolds, ImageHolds
<1> QED
  BY <1>1, <1>3, <1>4 DEF PlanHolds

(* vram_budget of a true figure holds. *)
LEMMA BudgetHolds ==
  ASSUME WorldIs, NEW a, NEW list, list = <<>> \/ FreeIsTrue(a, list[1]),
         NEW p, p.from = list, p.budget = VramBudget(list)
  PROVE  SystemHolds(a, p)
<1> DEFINE info == list[1]
<1> SUFFICES ASSUME p.budget # None, info.known, info.free > 0, info.truth.there, Current(a, info)
             PROVE  p.budget[1] <= VramBudgetFrom(LeftOf(info), info.unified)
  BY DEF SystemHolds
<1>1. list # <<>> /\ p.budget = Some(VramBudgetFrom(Headroom(info), info.unified))
  BY DEF VramBudget
<1>2. info.free \in Nat /\ info.free = LeftOf(info)
  BY <1>1 DEF FreeIsTrue, LeftOf
<1>3. Headroom(info) = LeftOf(info)
  BY <1>2 DEF Headroom
<1>4. VramBudgetFrom(LeftOf(info), info.unified) \in Int
  <2> DEFINE left == LeftOf(info)
  <2>1. left \in Nat
    BY <1>2
  <2> HIDE DEF left
  <2> QED
    BY <2>1 DEF VramBudgetFrom, VRAM_SHARE, VRAM_SHARE_UNIFIED, left
<1>5. p.budget[1] = VramBudgetFrom(LeftOf(info), info.unified)
  BY <1>1, <1>3 DEF Some
<1> QED
  BY <1>4, <1>5

(* A new plan keeps to it, as its answer is true. *)
LEMMA PlanMakes ==
  ASSUME StatsInv, PlansHold, NEW t \in Threads, Plan(t)
  PROVE  PlanHolds(adapters[t], plan'[t]) /\ plan' = [plan EXCEPT ![t] = plan'[t]]
<1>1. PICK j \in DOMAIN machine.jobs, g \in DOMAIN machine.gpus :
        LET job == machine.jobs[j]
            limits == FromWgpuLimits(machine.limits, machine.ram, machine.free)
            headroom == LiveHeadroom(g)
            ram == IF "ram" \in up THEN Some([total |-> machine.ram, avail |-> machine.free]) ELSE None
        IN plan' = [plan EXCEPT ![t] =
             [job |-> j, headroom |-> headroom, unified |-> Unified(Gpu(g).card), from |-> answer[t].list,
              budget |-> VramBudget(answer[t].list),
              ram |-> RamBudgetOr(job.over, ram, job.policy, job.fraction, job.reserve),
              vram |-> PlanVram(headroom, Unified(Gpu(g).card), ImageBytes(job.width, job.height, 16), job.tile),
              tiling |-> TilingReason(limits, job.width, job.height, 16),
              image |-> ValidateDims(machine.limits, job.width, job.height)]]
  BY DEF Plan
<1> DEFINE job == machine.jobs[j]
           limits == FromWgpuLimits(machine.limits, machine.ram, machine.free)
           headroom == LiveHeadroom(g)
           unified == Unified(Gpu(g).card)
           ram == IF "ram" \in up THEN Some([total |-> machine.ram, avail |-> machine.free]) ELSE None
           pixels == ImageBytes(job.width, job.height, 16)
           p == [job |-> j, headroom |-> headroom, unified |-> unified, from |-> answer[t].list,
                 budget |-> VramBudget(answer[t].list),
                 ram |-> RamBudgetOr(job.over, ram, job.policy, job.fraction, job.reserve),
                 vram |-> PlanVram(headroom, unified, pixels, job.tile),
                 tiling |-> TilingReason(limits, job.width, job.height, 16),
                 image |-> ValidateDims(machine.limits, job.width, job.height)]
<1>2. plan' = [plan EXCEPT ![t] = p] /\ plan'[t] = p
  <2>1. plan' = [plan EXCEPT ![t] = p]
    BY <1>1
  <2> HIDE DEF p
  <2> QED
    BY <2>1 DEF PlansHold
<1>3. /\ p.job = j /\ p.headroom = headroom /\ p.unified = unified /\ p.from = answer[t].list
      /\ p.budget = VramBudget(answer[t].list)
      /\ p.ram = RamBudgetOr(job.over, ram, job.policy, job.fraction, job.reserve)
      /\ p.vram = PlanVram(headroom, unified, pixels, job.tile)
      /\ p.tiling = TilingReason(limits, job.width, job.height, 16)
      /\ p.image = ValidateDims(machine.limits, job.width, job.height)
  OBVIOUS
<1>4. /\ job.width \in Nat /\ job.height \in Nat /\ job.tile \in Nat /\ job.reserve \in Nat /\ job.fraction \in Nat
      /\ job.policy \in {"installed", "available", "min"}
  <2>1. machine.jobs[j] \in Jobs
    BY CardMemoryAssumption DEF StatsInv, WorldIs
  <2> HIDE DEF p
  <2> QED
    BY <2>1 DEF Jobs
<1>5. /\ machine.ram \in Nat /\ machine.free \in Nat /\ machine.free <= machine.ram
      /\ machine.limits \in [texture : Nat, binding : Nat]
  BY MachineIs, CardMemoryAssumption DEF StatsInv, WorldIs
<1>6. headroom \in Amounts
  BY HeadroomIs DEF StatsInv
<1> HIDE DEF p, headroom, unified, job
<1>7. DriverHolds(job, p)
  <2>1. pixels \in Nat
    BY <1>4 DEF ImageBytes
  <2> HIDE DEF pixels
  <2>2. ASSUME p.vram # None, job.tile > 0
        PROVE  pixels + p.vram[1].decode + p.vram[1].atlas <= VramBudgetFrom(headroom[1], unified)
    BY <1>3, <1>4, <1>6, <2>1, <2>2, PlanVramIs
  <2> QED
    BY <1>3, <2>2 DEF DriverHolds, pixels
<1>8. SystemHolds(adapters[t], p)
  <2>1. answer[t].to = "memory"
    BY DEF Plan
  <2>2. answer[t].list = <<>> \/ FreeIsTrue(adapters[t], answer[t].list[1])
    BY <2>1 DEF StatsInv, ThreadIs, Fits, AnswerIs
  <2> QED
    BY <1>3, <2>2, BudgetHolds DEF StatsInv
<1>9. RamHolds(job, p)
  <2> SUFFICES ASSUME p.ram # None, job.over = None
               PROVE  /\ p.ram[1] <= Minus(machine.ram, job.reserve)
                      /\ job.policy # "installed" => p.ram[1] <= Minus(machine.free, job.reserve)
    BY DEF RamHolds
  <2>1. "ram" \in up /\ ram = Some([total |-> machine.ram, avail |-> machine.free])
    BY <1>3 DEF RamBudgetOr
  <2>2. ram # None /\ ram[1].total = machine.ram /\ ram[1].avail = machine.free
    BY <2>1 DEF Some, None
  <2> HIDE DEF ram
  <2>3. p.ram = Some(RamBudgetFrom(machine.ram, machine.free, job.policy, job.fraction, job.reserve))
    BY <1>3, <2>2 DEF RamBudgetOr
  <2>4. p.ram[1] = RamBudgetFrom(machine.ram, machine.free, job.policy, job.fraction, job.reserve)
    BY <2>3 DEF Some
  <2> QED
    BY <1>4, <1>5, <2>4, RamBudgetIs
<1>10. ImageHolds(job, p)
  BY <1>3, <1>4, <1>5, TilingIs DEF ImageHolds
<1>11. PlanHolds(adapters[t], p)
  BY <1>3, <1>7, <1>8, <1>9, <1>10 DEF PlanHolds, job
<1> QED
  BY <1>2, <1>11

(* Every step keeps the plans so. *)
LEMMA PlansKeep ==
  ASSUME StatsInv, PlansHold, [Next]_vars
  PROVE  PlansHold'
<1>1. Onward /\ AdaptersStay
  BY StatsKeep
<1>2. \A a, b, p : (b = a \/ a = <<>>) /\ PlanHolds(a, p) => PlanHolds(b, p)'
  BY <1>1, HoldsKeeps
<1>3. ASSUME plan' = plan PROVE PlansHold'
  <2>1. ASSUME NEW u \in Threads PROVE PlanHolds(adapters[u], plan[u])'
    BY <1>1, <1>2, <1>3 DEF PlansHold, AdaptersStay
  <2> QED
    BY <1>3, <2>1 DEF PlansHold
<1>4. ASSUME NEW t \in Threads, NEW p, plan' = [plan EXCEPT ![t] = p], PlanHolds(adapters[t], p)
      PROVE  PlansHold'
  <2>1. DOMAIN plan' = Threads /\ plan'[t] = p /\ \A u \in Threads : u # t => plan'[u] = plan[u]
    BY <1>4 DEF PlansHold
  <2>2. ASSUME NEW u \in Threads PROVE PlanHolds(adapters[u], plan[u])'
    <3>1. PlanHolds(adapters[u], plan'[u])
      BY <1>4, <2>1 DEF PlansHold
    <3> QED
      BY <1>1, <1>2, <3>1 DEF AdaptersStay
  <2> QED
    BY <2>1, <2>2 DEF PlansHold
<1>5. \A t \in machine.planners : t \in Threads
  BY CardMemoryAssumption DEF StatsInv, WorldIs
<1>6. CASE \E t \in machine.planners : AskMemory(t)
  <2>1. PICK t \in machine.planners : plan' = [plan EXCEPT ![t] = NoPlan]
    BY <1>6 DEF AskMemory
  <2>2. PlanHolds(adapters[t], NoPlan)
    BY DEF PlanHolds
  <2> QED
    BY <1>4, <1>5, <2>1, <2>2
<1>7. CASE \E t \in machine.planners : Plan(t)
  <2>1. PICK t \in machine.planners : Plan(t)
    BY <1>7
  <2> QED
    BY <1>4, <1>5, <2>1, PlanMakes
<1> QED
  BY <1>3, <1>6, <1>7 DEF Next, Runs, vars

(* What they keep to is PlanFits. *)
LEMMA PlanFollows ==
  ASSUME PlansHold
  PROVE  PlanFits
<1>1. \A t, info : Current(adapters[t], info) <=> LuidIsCurrent(t, info)
  BY DEF Current, LuidIsCurrent
<1>2. ASSUME NEW t \in Threads, plan[t] # NoPlan
      PROVE  /\ DriverHolds(machine.jobs[plan[t].job], plan[t]) /\ SystemHolds(adapters[t], plan[t])
             /\ RamHolds(machine.jobs[plan[t].job], plan[t]) /\ ImageHolds(machine.jobs[plan[t].job], plan[t])
  BY <1>2 DEF PlansHold, PlanHolds
<1> QED
  BY <1>1, <1>2 DEF PlanFits, DriverHolds, SystemHolds, RamHolds, ImageHolds, LeftOf

(* For any machine, threads and jobs: what budget.rs plans stays within    *)
(* the share of the memory that was left when the figures were read, the   *)
(* reserve is left alone, and an image that is not tiled fits.             *)
THEOREM PlansStayWithin == Spec => []PlanFits
<1>1. Init => StatsInv /\ PlansHold
  BY StatsStart DEF Init, PlansHold, PlanHolds
<1>2. (StatsInv /\ PlansHold) /\ [Next]_vars => (StatsInv /\ PlansHold)'
  BY StatsKeep, PlansKeep
<1>3. PlansHold => PlanFits
  BY PlanFollows
<1> QED
  BY <1>1, <1>2, <1>3, PTL DEF Spec
=============================================================================
