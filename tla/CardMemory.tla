----------------------------- MODULE CardMemory -----------------------------
(***************************************************************************)
(* What one process knows and shares of the memory of its cards: GpuStats, *)
(* VramWatch, Budgets and SharedBuffers over one changing machine.         *)
(*                                                                         *)
(* A machine says which threads sample, plan, watch and share.  A sampler  *)
(* polls the statistics and the memory figures; a planner asks for the     *)
(* primary GPU's memory and plans one job with it and with the driver's    *)
(* live headroom; the others use the watch and the shared buffers.         *)
(***************************************************************************)
EXTENDS GpuStats, Budgets, VramWatch, SharedBuffers

(* One image to be processed in tiles, within a RAM budget: a stated one,  *)
(* or a share of what there is.                                            *)
Jobs ==
  [width : Nat, height : Nat, tile : Nat, over : Seq(Nat), policy : {"installed", "available", "min"},
   fraction : Nat, reserve : Nat]

ASSUME CardMemoryAssumption ==
  \A m \in Machines :
    /\ m.samplers \cup m.planners \cup m.watchers \cup m.sharers \subseteq Threads
    /\ \A j \in DOMAIN m.jobs : m.jobs[j] \in Jobs
    /\ m.limits \in [texture : Nat, binding : Nat]

VARIABLE plan    \* what each planner planned last

vars == <<world, statsVars, watchVars, sharedVars, plan>>

NoPlan == [job |-> 0]

Init ==
  /\ CardsInit /\ StatsInit /\ WatchInit /\ SharedInit
  /\ plan = [t \in Threads |-> NoPlan]

(* vram_budget over the answer of os::query, ram_budget_or, and for a job  *)
(* of the machine whether one dispatch and one texture hold it and how     *)
(* plan_vram divides the live headroom.                                    *)
Plan(t) ==
  /\ answer[t].to = "memory"
  /\ \E j \in DOMAIN machine.jobs, g \in DOMAIN machine.gpus :
       LET job == machine.jobs[j]
           limits == FromWgpuLimits(machine.limits, machine.ram, machine.free)
           headroom == LiveHeadroom(g)
           ram == IF "ram" \in up THEN Some([total |-> machine.ram, avail |-> machine.free]) ELSE None
       IN plan' = [plan EXCEPT ![t] =
            [job |-> j, headroom |-> headroom, unified |-> Unified(Gpu(g).card), from |-> answer[t].list,
             budget |-> VramBudget(answer[t].list),
             ram |-> RamBudgetOr(job.over, ram, job.policy, job.fraction, job.reserve),
             vram |-> PlanVram(headroom, Unified(Gpu(g).card), ImageBytes(job.width, job.height, 16), job.tile),
             tiling |-> TilingReason(limits, job.width, job.height, 16),
             image |-> ValidateDims(machine.limits, job.width, job.height)]]
  /\ answer' = [answer EXCEPT ![t] = NoAnswer]
  /\ UNCHANGED <<adapters, counters, nvml, step, asked, readings>>

(* os::query, after which the last plan is forgotten. *)
AskMemory(t) == answer[t] = NoAnswer /\ Ask(t, "memory") /\ plan' = [plan EXCEPT ![t] = NoPlan]

Polls(t) == t \in machine.samplers /\ \E what \in {"stats", "memory of all"} : Ask(t, what)

Runs(t) == UNCHANGED <<world, watchVars, sharedVars, plan>> /\ (Polls(t) \/ StatsStep(t))

Next ==
  \/ Changes /\ UNCHANGED <<statsVars, watchVars, sharedVars, plan>>
  \/ \E t \in Threads : Runs(t)
  \/ \E t \in machine.planners : AskMemory(t) /\ UNCHANGED <<world, watchVars, sharedVars>>
  \/ \E t \in machine.planners : Plan(t) /\ UNCHANGED <<world, watchVars, sharedVars>>
  \/ \E t \in machine.watchers : (WatchAsk(t) \/ WatchStep(t)) /\ UNCHANGED <<world, statsVars, sharedVars, plan>>
  \/ Tick /\ UNCHANGED <<world, statsVars, sharedVars, plan>>
  \/ \E t \in machine.sharers : (Export(t) \/ Import(t) \/ SharingStep(t)) /\ UNCHANGED <<world, statsVars, watchVars, plan>>
  \/ OwnerStep /\ UNCHANGED <<world, statsVars, watchVars, plan>>

(* Threads run, and a sampler polls again and again. *)
Fairness == \A t \in Threads : WF_vars(Runs(t))

Spec == Init /\ [][Next]_vars
FairSpec == Spec /\ Fairness

-----------------------------------------------------------------------------
(* Windows numbers the cards of a model as NVML does: DXGI's order, with   *)
(* the larger first, is the order on the bus.                              *)
Aligned(name) ==
  LET OfModel(c) == Desc(c).name = name
  IN Filter(BySize(machine.order), OfModel) = Filter(machine.pci, OfModel)

NeverLeft(c) == card[c].there /\ card[c].luid = <<c, 0>>

(* The thread's cached LUID of this card was the card's when it was read.  *)
LuidIsCurrent(t, r) == \A i \in DOMAIN adapters[t] : adapters[t][i].of = r.of => adapters[t][i].luid = r.truth.luid

(* The memory in use that a reading names is that card's alone, whatever   *)
(* other cards, threads and failing interfaces there are, and its          *)
(* utilisation is a percentage.  Not so once the card has left or its      *)
(* cached LUID is dead, which reads as an idle card (windows.rs:72).       *)
UsageIsOwn ==
  \A t \in Threads : answer[t].to = "stats" =>
    \A i \in DOMAIN answer[t].list :
      LET r == answer[t].list[i]
      IN /\ (r.used # None /\ r.truth.there /\ LuidIsCurrent(t, r)) => r.used[1] = r.truth.used
         /\ OrElse(r.util, 0) \in 0..100

IsNvidia(c) == Desc(c).name.vendor = "nvidia"

(* The sensors NVML adds to a reading, whatever its vendor, are those of   *)
(* an NVIDIA card, and of the reading's model unless no other NVIDIA card  *)
(* has been there all along: never of one card of several that is only     *)
(* some other model.  Two readings of one name never have the sensors of   *)
(* one card.  And the sensors of a reading are of the card it names where  *)
(* that is an NVIDIA card, no card of its model has come or gone, and      *)
(* Windows numbers the twins as NVML does (windows.rs:175-177).  The last  *)
(* excludes the readings of other vendors' cards, which the code gives the *)
(* sensors of an only NVIDIA device (nvml.rs:281-283) although they are    *)
(* said to be None on an AMD or Intel GPU (stats.rs:114-118).              *)
SensorsAreOwn ==
  \A t \in Threads : answer[t].to = "stats" =>
    \A i \in DOMAIN answer[t].list :
      LET r == answer[t].list[i]
          sensed == r.sensors[1]
      IN r.sensors # None =>
           /\ IsNvidia(sensed)
           /\ \/ Desc(sensed).name.model = r.name.model
              \/ \A c \in Cards : IsNvidia(c) /\ NeverLeft(c) => c = sensed
           /\ \A j \in DOMAIN answer[t].list :
                (j # i /\ answer[t].list[j].name = r.name) => answer[t].list[j].sensors # r.sensors
           /\ (/\ r.name.vendor = "nvidia"
               /\ Aligned(r.name)
               /\ \A c \in Cards : Desc(c).name = r.name => NeverLeft(c)) => sensed = r.of

(* A plan holds in what there was when it was made.  Targets, decode pool  *)
(* and atlas together stay within the share of the live headroom; the      *)
(* budget made from the system's figures within the share of what that     *)
(* card really had left, where the system knew (an unknown or a full card  *)
(* is planned as an empty one, budget.rs:157-161); the RAM budget within   *)
(* what is free and the reserve outside of it.  An image that is not tiled *)
(* fits one binding and one texture.  A tile of no bytes is exempt.        *)
PlanFits ==
  \A t \in Threads : plan[t] # NoPlan =>
    LET p == plan[t]
        job == machine.jobs[p.job]
        pixels == ImageBytes(job.width, job.height, 16)
    IN /\ (p.vram # None /\ job.tile > 0) =>
            pixels + p.vram[1].decode + p.vram[1].atlas <= VramBudgetFrom(p.headroom[1], p.unified)
       /\ p.budget # None =>
            LET info == p.from[1]
                left == IF machine.os = "macos" THEN machine.free ELSE Size(info.of) - info.truth.used
            IN (info.known /\ info.free > 0 /\ info.truth.there /\ LuidIsCurrent(t, info)) =>
                 p.budget[1] <= VramBudgetFrom(left, info.unified)
       /\ (p.ram # None /\ job.over = None) =>
            /\ p.ram[1] <= Minus(machine.ram, job.reserve)
            /\ job.policy # "installed" => p.ram[1] <= Minus(machine.free, job.reserve)
       /\ (p.tiling = "none" /\ p.image # "ZeroSize") =>
            p.image = "ok" /\ pixels <= machine.limits.binding

(* The watch answers with the last reading, and one less than the interval *)
(* old, whatever unwound.  It is a reading of the adapter that was asked   *)
(* about - of its handle and, where the backend tells one, of its physical *)
(* card, also when two instances of wgpu gave the same handle to two cards *)
(* and threads take turns (vram.rs:485-487).  Not so for an answer that is *)
(* torn: the code re-keys before it queries (vram.rs:558-562), so a query  *)
(* for a new device that unwinds leaves the old device's recent reading    *)
(* under the new one's name.  Adapters without a physical identity are     *)
(* told apart by the handle alone (vram.rs:383-385).                       *)
FreshForItsCard ==
  given.gpu # 0 =>
    /\ given.from.gpu # 0 /\ given.from.age < Every
    /\ given.budget = given.from.budget
    /\ ~given.torn =>
         /\ AdapterKey(given.from.gpu) = AdapterKey(given.gpu)
         /\ PhysId(given.gpu).kind # "Unknown" => Gpu(given.from.gpu).card = Gpu(given.gpu).card

(* Outside of a call a view has its buffer and its memory exactly while    *)
(* wgpu has its hal buffer: no failed call leaves an object behind         *)
(* (external.rs:404), commands wgpu knows of keep the memory they use,     *)
(* which rests on wgpu's own tracking (OwnerStep), and a view that was     *)
(* never finished has no handle.                                           *)
SharedIsExact ==
  \A s \in Slots :
    /\ (\A t \in Threads : ~Makes(t, s)) =>
         slot[s].buffer = (slot[s].wgpu # "none") /\ slot[s].memory = (slot[s].wgpu # "none")
    /\ slot[s].busy => slot[s].memory
    /\ (slot[s].handle /\ ~slot[s].memory) => \A t \in Threads : ~Makes(t, s)

(* A card whose memory its backend can see. *)
Visible(c) ==
  /\ card[c].there
  /\ \/ machine.os = "windows" /\ IsListed(c)
     \/ machine.os = "linux" /\ ("memory" \in Desc(c).published \/ \E i \in DOMAIN nvml.devices : nvml.devices[i] = c)
     \/ machine.os = "macos" /\ Desc(c).published # {} /\ \E class \in Desc(c).classes : Services(class)[1] = c

Healthy == up = machine.interfaces /\ \E c \in Cards : Visible(c)

(* A failed probe does not poison the backend (windows.rs:64-65): once the *)
(* interfaces answer and a card is visible for good, a sampler's answers   *)
(* become and stay non-empty, whatever failed before.  A card NVML did not *)
(* see when it was loaded is never visible (nvml.rs:168-176).              *)
AnswersOnceHealthy ==
  \A t \in Threads :
    <>[](t \in machine.samplers /\ Healthy) => <>[](answer[t].list # <<>>)
=============================================================================
