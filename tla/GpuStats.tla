------------------------------ MODULE GpuStats ------------------------------
(***************************************************************************)
(* The readings of the system's GPUs: stats::query_all over the backends   *)
(* src/stats/windows.rs, nvml.rs, drm.rs and apple.rs, and the memory      *)
(* figures src/os.rs makes of them.                                        *)
(*                                                                         *)
(* On Windows each thread caches the adapters and the PDH query it opened; *)
(* NVML is loaded once for the process.  A call asks one interface after   *)
(* the other, and the machine changes in between.                          *)
(*                                                                         *)
(* A name is a record of vendor and model: two cards of one model have the *)
(* same name.  The sensors NVML adds (temperature, power, clocks, fan,     *)
(* driver) are one field, the card they are of.  `of` and `truth` say of   *)
(* which card a reading is and how that card was when it was sampled; the  *)
(* code has no such fields, and no step depends on them.                   *)
(***************************************************************************)
EXTENDS Cards

VARIABLES
  adapters,   \* ADAPTERS of each thread, <<>> while there are none
  counters,   \* COUNTERS of each thread: is the PDH query open
  nvml,       \* NVML: "unset", "none" or "some", with the devices it found
  step,       \* where each thread is
  asked,      \* what it was called for
  readings,   \* what the call has read so far
  answer      \* what its last call returned

statsVars == <<adapters, counters, nvml, step, asked, readings, answer>>
calls == <<step, asked, readings, answer>>

NoAnswer == [to |-> "nobody", list |-> <<>>]

StatsInit ==
  /\ adapters = [t \in Threads |-> <<>>]
  /\ counters = [t \in Threads |-> FALSE]
  /\ nvml = [state |-> "unset", devices |-> <<>>]
  /\ step = [t \in Threads |-> "idle"]
  /\ asked = [t \in Threads |-> "nobody"]
  /\ readings = [t \in Threads |-> <<>>]
  /\ answer = [t \in Threads |-> NoAnswer]

Goto(t, p) == step' = [step EXCEPT ![t] = p]

(* The call goes on at p with what it has read. *)
GoOn(t, p, list) ==
  /\ Goto(t, p)
  /\ readings' = [readings EXCEPT ![t] = list]
  /\ UNCHANGED <<asked, answer>>

Returns(t, list) ==
  /\ Goto(t, "idle")
  /\ answer' = [answer EXCEPT ![t] = [to |-> asked[t], list |-> list]]
  /\ asked' = [asked EXCEPT ![t] = "nobody"]
  /\ readings' = [readings EXCEPT ![t] = <<>>]

FirstStep(what) ==
  IF machine.os = "windows" THEN "list"
  ELSE IF machine.os = "linux" THEN "nvml"
  ELSE IF what = "memory" THEN "profiler" ELSE "iokit"

(* stats::query_all, os::query_all and os::query. *)
Ask(t, what) ==
  /\ step[t] = "idle"
  /\ Goto(t, FirstStep(what))
  /\ asked' = [asked EXCEPT ![t] = what]
  /\ UNCHANGED <<adapters, counters, nvml, readings, answer>>

-----------------------------------------------------------------------------
(* Memory figures. *)

Reading(c, util, used, total, spilled, sensors) ==
  [of |-> c, truth |-> card[c], name |-> Desc(c).name, util |-> util, used |-> used,
   total |-> total, spilled |-> spilled, sensors |-> sensors]

Info(of, truth, total, free, known, shared, unified) ==
  [of |-> of, truth |-> truth, total |-> total, free |-> free, known |-> known,
   shared |-> shared, unified |-> unified]

(* What is not known to be used counts as free. *)
InfoOf(r) ==
  LET total == OrElse(r.total, 0)
  IN Info(r.of, r.truth, total, Minus(total, OrElse(r.used, 0)), r.used # None,
          OrElse(r.spilled, 0), machine.os # "linux" /\ Unified(r.of))

InfosOf(list) ==
  LET sized == Filter(list, LAMBDA r : OrElse(r.total, 0) > 0)
  IN [i \in DOMAIN sized |-> InfoOf(sized[i])]

(* max_by_key returns the last of the largest. *)
Largest(infos) ==
  Filter(infos, LAMBDA g :
    g = infos[Max({i \in DOMAIN infos : \A j \in DOMAIN infos : infos[j].total <= infos[i].total})])

(* The readings are complete.  os::query_all asks again, for the primary   *)
(* GPU, when none of them has a size.                                      *)
Conclude(t, list) ==
  LET infos == InfosOf(list)
  IN CASE asked[t] = "stats" -> Returns(t, list)
       [] asked[t] = "memory" -> Returns(t, IF infos = <<>> THEN <<>> ELSE <<Largest(infos)[1]>>)
       [] asked[t] = "memory of all" ->
            IF infos # <<>> THEN Returns(t, infos)
            ELSE /\ Goto(t, FirstStep("memory"))
                 /\ asked' = [asked EXCEPT ![t] = "memory"]
                 /\ readings' = [readings EXCEPT ![t] = <<>>]
                 /\ UNCHANGED answer

-----------------------------------------------------------------------------
(* Windows: DXGI names and sizes the adapters, PDH samples them.           *)

IsListed(c) == card[c].there /\ ~Desc(c).software /\ Size(c) > 0

(* A stable sort, the largest first. *)
Sorted(cards) ==
  LET Before(i) == {j \in DOMAIN cards :
                      Size(cards[j]) > Size(cards[i]) \/ (Size(cards[j]) = Size(cards[i]) /\ j <= i)}
  IN [k \in DOMAIN cards |-> cards[CHOOSE i \in DOMAIN cards : Cardinality(Before(i)) = k]]

BySize(cards) == CHOOSE q \in {Sorted(list) : list \in {cards}} : TRUE

(* The hardware adapters, or the discrete ones alone when there are any.   *)
OpenAll ==
  LET listed == IF "dxgi" \in up THEN Filter(machine.order, IsListed) ELSE <<>>
      discrete == Filter(listed, LAMBDA c : ~Unified(c))
      kept == BySize(IF discrete = <<>> THEN listed ELSE discrete)
  IN [k \in DOMAIN kept |-> [of |-> kept[k], luid |-> card[kept[k]].luid]]

ListAdapters(t) ==
  /\ step[t] = "list"
  /\ LET list == IF adapters[t] = <<>> THEN OpenAll ELSE adapters[t]
     IN /\ adapters' = [adapters EXCEPT ![t] = list]
        /\ IF list = <<>> THEN Conclude(t, <<>>) ELSE GoOn(t, "collect", <<>>)
  /\ UNCHANGED <<counters, nvml>>

(* The instances PDH reports of a counter for one adapter: its memory, and *)
(* one per process and engine at work on it.                               *)
InstancesOf(counter, c) ==
  CASE counter = "dedicated" -> {[luid |-> card[c].luid, value |-> IF Unified(c) THEN 0 ELSE card[c].used]}
    [] counter = "shared" -> {[luid |-> card[c].luid, value |-> IF Unified(c) THEN card[c].used ELSE Desc(c).spill]}
    [] counter = "engine" ->
         {[luid |-> card[c].luid, engine |-> Desc(c).work[i].engine, value |-> Desc(c).work[i].value, id |-> i] :
            i \in IF card[c].used = 0 THEN {} ELSE DOMAIN Desc(c).work}

Present == {c \in Cards : card[c].there}
Instances(counter) == UNION {InstancesOf(counter, c) : c \in Present}

Sum(instances) == MapThenSumSet(LAMBDA i : i.value, instances)

(* Faulty variant: the instances of every adapter are summed.              *)
OfAnyLuid(counter, luid) ==
  IF Instances(counter) = {} THEN None ELSE Some(Instances(counter))

(* The instances of one adapter; None when PDH reports none at all.        *)
OfLuid(counter, luid) ==
  IF Instances(counter) = {} THEN None
  ELSE Some({i \in Instances(counter) : i.luid = luid})

MemoryUsed(counter, luid) ==
  LET mine == OfLuid(counter, luid) IN IF mine = None THEN None ELSE Some(Sum(mine[1]))

KnownEngines == {"3D", "Copy", "Compute", "VideoDecode", "VideoEncode", "VideoProcessing", "Security", "Graphics_1"}
EngineType(e) == IF e \in KnownEngines THEN e ELSE "other"

(* Engines run side by side: the busiest type is what the card is busy.    *)
BusiestEngine(luid) ==
  LET mine == OfLuid("engine", luid)
      types == {EngineType(i.engine) : i \in mine[1]}
      Busy(e) == Sum({i \in mine[1] : EngineType(i.engine) = e})
  IN IF mine = None THEN None ELSE Some(AtMost(100, Max({0} \cup {Busy(e) : e \in types})))

(* One adapter of a collected query; nothing when PDH does not answer.     *)
Sample(collected, a) ==
  IF ~collected THEN Reading(a.of, None, None, Some(Size(a.of)), None, None)
  ELSE IF Unified(a.of)
  THEN Reading(a.of, BusiestEngine(a.luid), MemoryUsed("shared", a.luid), Some(Size(a.of)), None, None)
  ELSE Reading(a.of, BusiestEngine(a.luid), MemoryUsed("dedicated", a.luid), Some(Size(a.of)),
               MemoryUsed("shared", a.luid), None)

IsEmpty(r) == r.util = None /\ r.used = None

(* Faulty variant: a failed probe of PDH is not repeated.                  *)
OpensOnce(t) == counters[t] \/ ("pdh" \in up /\ answer[t] = NoAnswer)

(* Counters::open, when there is no query yet. *)
Opens(t) == counters[t] \/ "pdh" \in up

(* adapter_memory samples the first adapter only. *)
Collect(t) ==
  /\ step[t] = "collect"
  /\ counters' = [counters EXCEPT ![t] = Opens(t)]
  /\ LET collected == Opens(t) /\ "pdh" \in up
         list == [i \in DOMAIN adapters[t] |-> Sample(collected, adapters[t][i])]
         r == list[1]
     IN IF asked[t] = "memory"
        THEN Returns(t, <<[InfoOf(r) EXCEPT !.shared = Desc(r.of).shared]>>)
        ELSE GoOn(t, "enrich", Filter(list, LAMBDA x : ~IsEmpty(x)))
  /\ UNCHANGED <<adapters, nvml>>

-----------------------------------------------------------------------------
(* NVML. *)

(* The library is loaded at the first use and never again. *)
LoadNvml ==
  IF nvml.state # "unset" THEN nvml
  ELSE IF "nvml" \in up
  THEN [state |-> "some", devices |-> Filter(machine.pci, LAMBDA c : Desc(c).name.vendor = "nvidia" /\ card[c].there)]
  ELSE [state |-> "none", devices |-> <<>>]

(* The devices whose handle NVML returns. *)
Handles ==
  IF nvml'.state = "some" /\ "nvml" \in up THEN Filter(nvml'.devices, LAMBDA c : card[c].there) ELSE <<>>

(* The ordinal-th of the model, or the only device there is. *)
DeviceMatching(name, ordinal) ==
  LET matching == Filter(Handles, LAMBDA c : Desc(c).name.model = name.model)
  IN IF ordinal < Len(matching) THEN Some(matching[ordinal + 1])
     ELSE IF Len(nvml'.devices) = 1 /\ ordinal = 0 THEN Handles
     ELSE None

(* Faulty variant: the ordinal counts adapters of any name.                *)
OrdinalInList(list, i) == i - 1

(* How many readings before this one have its name. *)
Ordinal(list, i) == Cardinality({j \in 1..i - 1 : list[j].name = list[i].name})

Enrich(t) ==
  /\ step[t] = "enrich"
  /\ nvml' = IF readings[t] = <<>> THEN nvml ELSE LoadNvml
  /\ LET list == readings[t]
     IN Conclude(t, [i \in DOMAIN list |-> [list[i] EXCEPT !.sensors = DeviceMatching(list[i].name, Ordinal(list, i))]])
  /\ UNCHANGED <<adapters, counters>>

(* Linux: every device of NVML, then every card of the DRM that publishes  *)
(* what it does.                                                           *)
Percent(c) == Some(IF card[c].used = 0 THEN 0 ELSE 50)

QueryNvml(t) ==
  /\ step[t] = "nvml"
  /\ nvml' = LoadNvml
  /\ GoOn(t, "drm", [i \in DOMAIN Handles |->
       Reading(Handles[i], Percent(Handles[i]), Some(card[Handles[i]].used), Some(Size(Handles[i])), None, Some(Handles[i]))])
  /\ UNCHANGED <<adapters, counters>>

IsPublished(c) == card[c].there /\ Desc(c).published # {}

DrmCard(c) ==
  Reading(c, IF "busy" \in Desc(c).published THEN Percent(c) ELSE None,
             IF "memory" \in Desc(c).published THEN Some(card[c].used) ELSE None,
             IF "memory" \in Desc(c).published THEN Some(Desc(c).dedicated) ELSE None, None, None)

QueryDrm(t) ==
  /\ step[t] = "drm"
  /\ LET found == IF "drm" \in up THEN Filter(machine.pci, IsPublished) ELSE <<>>
     IN Conclude(t, readings[t] \o [i \in DOMAIN found |-> DrmCard(found[i])])
  /\ UNCHANGED <<adapters, counters, nvml>>

-----------------------------------------------------------------------------
(* macOS. *)

ACCELERATOR_CLASSES == <<"IOAccelerator", "AGXAccelerator">>

Services(class) == Filter(machine.order, LAMBDA c : card[c].there /\ class \in Desc(c).classes)

(* The first service of the first class that has statistics; the size only *)
(* when it is the system's own memory.                                     *)
QueryIokit(t) ==
  /\ step[t] = "iokit"
  /\ LET answering == Filter(ACCELERATOR_CLASSES, LAMBDA k :
                        "iokit" \in up /\ Services(k) # <<>> /\ Desc(Services(k)[1]).published # {})
     IN IF answering = <<>> THEN Conclude(t, <<>>)
        ELSE LET c == Services(answering[1])[1]
             IN Conclude(t, <<Reading(c, IF "busy" \in Desc(c).published THEN Percent(c) ELSE None,
                              IF "memory" \in Desc(c).published THEN Some(card[c].used) ELSE None,
                              IF Unified(c) /\ "sysctl" \in up THEN Some(machine.ram) ELSE None, None, None)>>)
  /\ UNCHANGED <<adapters, counters, nvml>>

(* macos_query: the last VRAM line of system_profiler, whose free figure   *)
(* is unknown, else the system's memory and what vm_stat counts as free.   *)
QueryProfiler(t) ==
  /\ step[t] = "profiler"
  /\ LET shown == IF "system_profiler" \in up THEN Filter(machine.order, LAMBDA c : card[c].there) ELSE <<>>
         sized == Filter(shown, LAMBDA c : ~Unified(c))
         last == IF sized = <<>> THEN machine.order[1] ELSE sized[Len(sized)]
         free == IF "vm_stat" \in up THEN machine.free ELSE 0
     IN IF sized # <<>>
        THEN Returns(t, <<Info(last, card[last], Desc(last).dedicated, 0, FALSE, 0, FALSE)>>)
        ELSE IF "sysctl" \in up
        THEN Returns(t, <<Info(last, card[last], machine.ram, free, free > 0, 0, TRUE)>>)
        ELSE Returns(t, <<>>)
  /\ UNCHANGED <<adapters, counters, nvml>>

-----------------------------------------------------------------------------
StatsStep(t) ==
  \/ ListAdapters(t) \/ Collect(t) \/ Enrich(t)
  \/ QueryNvml(t) \/ QueryDrm(t)
  \/ QueryIokit(t) \/ QueryProfiler(t)
=============================================================================
