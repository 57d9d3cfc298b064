------------------------------- MODULE Devices -------------------------------
(***************************************************************************)
(* The process-wide devices: shared_device, compute_device_status and      *)
(* auto_compute_device of src/lib.rs, the pin of src/pin.rs, and the       *)
(* queues that src/shared_vk.rs and src/compute_vk.rs open.                *)
(*                                                                         *)
(* Each device is the content of a OnceLock: the first caller negotiates,  *)
(* callers that come meanwhile wait, and an initialiser that unwinds       *)
(* leaves the lock empty.  auto_compute_device negotiates inside its own   *)
(* lock the content of another.  Devices are created under a mutex.        *)
(*                                                                         *)
(* Queue families are numbered as Vulkan does; a queue is <<family,        *)
(* index>>, and {} stands for a queue that was not reserved.               *)
(***************************************************************************)
EXTENDS Naturals, Sequences, FiniteSets, FiniteSetsExt

CONSTANTS
  Threads,
  Machines,  \* the adapters a process may find
  MaxPanics  \* bound: how often wgpu may panic while it negotiates

Cells == {"shared", "compute", "auto"}

(* wgpu-hal renders on the first queue of family 0. *)
WGPU_FAMILY == 0
Main == <<WGPU_FAMILY, 0>>

(* A machine is its adapter: whether it is a software rasterizer, whether  *)
(* Vulkan reaches it, whether it has the core video extensions and, with   *)
(* Vulkan 1.3, optical flow, and what its queue families can do.           *)
ASSUME DevicesAssumption ==
  /\ MaxPanics \in Nat
  /\ \A m \in Machines :
       /\ WGPU_FAMILY \in DOMAIN m.families
       /\ DOMAIN m.families \subseteq Nat
       /\ \A f \in DOMAIN m.families : m.families[f].count \in Nat \ {0}

VARIABLES
  machine,   \* the adapter this process finds
  pinned,    \* the module that contains the crate can no longer be unmapped
  cell,      \* the OnceLocks: "unset", "running", "some" or "none"
  creating,  \* {the thread that holds DEVICE_CREATION}, or {}
  devices,   \* the devices opened, with the queues they asked for and hand out
  panics,
  pc,        \* where each thread is
  asked,     \* the function each thread called
  want       \* the cell it negotiates or waits for

locks == <<pinned, cell, creating>>
vars == <<machine, locks, devices, panics, pc, asked, want>>

Init ==
  /\ machine \in Machines
  /\ pinned = FALSE
  /\ cell = [c \in Cells |-> "unset"]
  /\ creating = {}
  /\ devices = <<>>
  /\ panics = 0
  /\ pc = [t \in Threads |-> "idle"]
  /\ asked = [t \in Threads |-> "shared"]
  /\ want = [t \in Threads |-> "shared"]

Goto(t, p) == pc' = [pc EXCEPT ![t] = p]

(* The call is over, and with it what it asked for. *)
Leave(t) ==
  /\ Goto(t, "idle")
  /\ asked' = [asked EXCEPT ![t] = "shared"]
  /\ want' = [want EXCEPT ![t] = "shared"]

-----------------------------------------------------------------------------
(* Which queues a device asks for. *)

Families == DOMAIN machine.families
Can(what) == {f \in Families : what \in machine.families[f].can}

(* Faulty variant: the decoder's family may be handed out again.           *)
ComputeFamilyOfDecoder(decode) ==
  LET usable == Can("compute") \ {WGPU_FAMILY}
      own == usable \ Can("graphics")
  IN IF own # {} THEN {Min(own)} ELSE IF usable # {} THEN {Min(usable)} ELSE {}

(* A family with no graphics first, then any that nobody else submits to.  *)
ComputeFamily(decode) ==
  LET usable == Can("compute") \ {WGPU_FAMILY, decode}
      own == usable \ Can("graphics")
  IN IF own # {} THEN {Min(own)} ELSE IF usable # {} THEN {Min(usable)} ELSE {}

DecodeFamily == IF Can("decode") = {} THEN {} ELSE {Min(Can("decode"))}

(* The compute queue for whoever reads decoded pictures: a family of its   *)
(* own, else the second queue of wgpu's family, else none.                 *)
ComputeQueue(decode) ==
  IF ComputeFamily(decode) # {} THEN {<<f, 0>> : f \in ComputeFamily(decode)}
  ELSE IF machine.families[WGPU_FAMILY].count >= 2 THEN {<<WGPU_FAMILY, 1>>} ELSE {}

(* How many queues of each family vkCreateDevice is asked for: one entry   *)
(* per family, and a second queue in wgpu's own only by a longer entry.    *)
Requested(decode) ==
  [f \in Families |->
     IF f = WGPU_FAMILY THEN IF ComputeQueue(decode) = {<<WGPU_FAMILY, 1>>} THEN 2 ELSE 1
     ELSE IF f \in {decode} \cup ComputeFamily(decode) THEN 1 ELSE 0]

SharedDevice(decode) ==
  [of |-> "shared", requested |-> Requested(decode), main |-> Main,
   decode |-> {<<decode, 0>>}, compute |-> ComputeQueue(decode), flow |-> {}]

(* optical_flow_family and wants_optical_flow: never wgpu's own family.    *)
FlowFamily ==
  LET found == Can("flow") \ {WGPU_FAMILY}
  IN IF machine.flow /\ found # {} THEN {Min(found)} ELSE {}

ComputeDevice ==
  [of |-> "compute",
   requested |-> [f \in Families |-> IF f \in {WGPU_FAMILY} \cup FlowFamily THEN 1 ELSE 0],
   main |-> Main, decode |-> {}, compute |-> {}, flow |-> {<<f, 0>> : f \in FlowFamily}]

PlainDevice(c) ==
  [of |-> c, requested |-> [f \in Families |-> IF f = WGPU_FAMILY THEN 1 ELSE 0],
   main |-> Main, decode |-> {}, compute |-> {}, flow |-> {}]

-----------------------------------------------------------------------------
(* The calls. *)

Call(t) ==
  /\ pc[t] = "idle"
  /\ \E c \in Cells : asked' = [asked EXCEPT ![t] = c] /\ want' = [want EXCEPT ![t] = c]
  /\ Goto(t, "get")
  /\ UNCHANGED <<machine, locks, devices, panics>>

(* The lock is full: its content is the answer, to auto_compute_device as  *)
(* well as to a caller.                                                    *)
Found(t) ==
  /\ pc[t] = "get"
  /\ cell[want[t]] \in {"some", "none"}
  /\ IF want[t] = asked[t] THEN Leave(t) ELSE Goto(t, "decide") /\ UNCHANGED <<asked, want>>
  /\ UNCHANGED <<machine, locks, devices, panics>>

(* Faulty variant: auto negotiates under DEVICE_CREATION.                  *)
StartLocked(t) ==
  /\ pc[t] = "get"
  /\ cell[want[t]] = "unset"
  /\ cell' = [cell EXCEPT ![want[t]] = "running"]
  /\ want[t] = "auto" => creating = {}
  /\ creating' = IF want[t] = "auto" THEN {t} ELSE creating
  /\ want' = [want EXCEPT ![t] = IF @ = "auto" THEN "compute" ELSE @]
  /\ Goto(t, IF want[t] = "auto" THEN "get" ELSE "pin")
  /\ UNCHANGED <<machine, pinned, devices, panics, asked>>

(* The lock is empty: this thread fills it, and for auto asks for the      *)
(* compute device first.                                                   *)
Start(t) ==
  /\ pc[t] = "get"
  /\ cell[want[t]] = "unset"
  /\ cell' = [cell EXCEPT ![want[t]] = "running"]
  /\ want' = [want EXCEPT ![t] = IF @ = "auto" THEN "compute" ELSE @]
  /\ Goto(t, IF want[t] = "auto" THEN "get" ELSE "pin")
  /\ UNCHANGED <<machine, pinned, creating, devices, panics, asked>>

(* The closure returns: the answer is cached, the negative one too.        *)
Settle(t, answer) ==
  /\ cell' = [cell EXCEPT ![want[t]] = answer]
  /\ Goto(t, "get")

Pin(t) ==
  /\ pc[t] = "pin"
  /\ pinned' = TRUE
  /\ Goto(t, "adapter")
  /\ UNCHANGED <<machine, cell, creating, devices, panics, asked, want>>

(* The system may refuse, also a module that is pinned already.            *)
PinFails(t) ==
  /\ pc[t] = "pin"
  /\ Settle(t, "none")
  /\ UNCHANGED <<machine, pinned, creating, devices, panics, asked, want>>

FindAdapter(t) ==
  /\ pc[t] = "adapter"
  /\ Goto(t, "lock")
  /\ UNCHANGED <<machine, locks, devices, panics, asked, want>>

NoAdapter(t) ==
  /\ pc[t] = "adapter"
  /\ Settle(t, "none")
  /\ UNCHANGED <<machine, pinned, creating, devices, panics, asked, want>>

(* Faulty variant: the mutex of each device is its own.                    *)
LockOwn(t) ==
  /\ pc[t] = "lock"
  /\ creating' = {t}
  /\ Goto(t, IF want[t] = "shared" THEN "open_shared" ELSE "open")
  /\ UNCHANGED <<machine, pinned, cell, devices, panics, asked, want>>

(* DEVICE_CREATION, a poisoned one too.                                    *)
Lock(t) ==
  /\ pc[t] = "lock"
  /\ creating = {}
  /\ creating' = {t}
  /\ Goto(t, IF want[t] = "shared" THEN "open_shared" ELSE "open")
  /\ UNCHANGED <<machine, pinned, cell, devices, panics, asked, want>>

(* open_shared, in the order of its early returns.                         *)
Refuses(why) ==
  CASE why = "not vulkan"    -> ~machine.vulkan
    [] why = "no extensions" -> machine.vulkan /\ ~machine.video
    [] why = "no family"     -> machine.vulkan /\ machine.video /\ DecodeFamily = {}
    [] why = "wgpu family"   -> machine.vulkan /\ machine.video /\ DecodeFamily = {WGPU_FAMILY}
    [] why = "driver"        -> machine.vulkan /\ machine.video /\ DecodeFamily \notin {{}, {WGPU_FAMILY}}

Reasons == {"not vulkan", "no extensions", "no family", "wgpu family", "driver"}

(* A raw device that wgpu then refuses to adopt is destroyed: "driver".    *)
SharedRefused(t) ==
  /\ pc[t] = "open_shared"
  /\ \E why \in Reasons : Refuses(why)
  /\ Goto(t, "open")
  /\ UNCHANGED <<machine, locks, devices, panics, asked, want>>

OpenShared(t) ==
  /\ pc[t] = "open_shared"
  /\ Refuses("driver")
  /\ \E decode \in DecodeFamily : devices' = Append(devices, SharedDevice(decode))
  /\ Goto(t, "opened")
  /\ UNCHANGED <<machine, locks, panics, asked, want>>

(* request_max_device, and open_compute on a Vulkan adapter.               *)
Open(t) ==
  /\ pc[t] = "open"
  /\ devices' = Append(devices, IF want[t] = "compute" /\ machine.vulkan THEN ComputeDevice
                                                                     ELSE PlainDevice(want[t]))
  /\ Goto(t, "opened")
  /\ UNCHANGED <<machine, locks, panics, asked, want>>

(* The guard is dropped as the closure returns, with a device or without.  *)
OpenEnds(t) ==
  /\ pc[t] \in {"opened", "open"}
  /\ creating' = creating \ {t}
  /\ Settle(t, IF pc[t] = "opened" THEN "some" ELSE "none")
  /\ UNCHANGED <<machine, pinned, devices, panics, asked, want>>

(* auto_compute_device refuses a software rasterizer.                      *)
Decide(t) ==
  /\ pc[t] = "decide"
  /\ cell' = [cell EXCEPT !["auto"] = IF cell["compute"] = "some" /\ ~machine.software THEN "some" ELSE "none"]
  /\ Leave(t)
  /\ UNCHANGED <<machine, pinned, creating, devices, panics>>

(* wgpu panics: the guard is dropped, every lock this thread was filling   *)
(* is empty again, and the panic leaves the call.                          *)
Unwind(t) ==
  /\ pc[t] \in {"adapter", "open_shared", "open"}
  /\ panics < MaxPanics
  /\ panics' = panics + 1
  /\ creating' = creating \ {t}
  /\ cell' = [c \in Cells |-> IF c \in {want[t], asked[t]} THEN "unset" ELSE cell[c]]
  /\ Leave(t)
  /\ UNCHANGED <<machine, pinned, devices>>

-----------------------------------------------------------------------------
Step(t) ==
  \/ Found(t) \/ Start(t) \/ Pin(t) \/ PinFails(t) \/ FindAdapter(t) \/ NoAdapter(t) \/ Lock(t)
  \/ SharedRefused(t) \/ OpenShared(t) \/ Open(t) \/ OpenEnds(t) \/ Decide(t) \/ Unwind(t)

Next == \E t \in Threads : Call(t) \/ Step(t)

(* A thread that called goes on.                                           *)
Spec == Init /\ [][Next]_vars /\ \A t \in Threads : WF_vars(Step(t))

-----------------------------------------------------------------------------
Queues(d) == {d.main} \cup d.decode \cup d.compute \cup d.flow

(* No two users of a device submit to one queue, which Vulkan wants        *)
(* externally synchronised; every queue handed out was asked for, and no   *)
(* more were asked for than the family has; a reader of decoded pictures   *)
(* gets a queue of its own whenever the adapter has one, and one without   *)
(* graphics if possible (compute_family, open_shared, open_compute).       *)
QueuesAreOwn ==
  \A i \in DOMAIN devices :
    LET d == devices[i]
        taken == {WGPU_FAMILY} \cup {q[1] : q \in d.decode}
        free == Can("compute") \ taken
    IN /\ Cardinality(Queues(d)) = 1 + Cardinality(d.decode) + Cardinality(d.compute) + Cardinality(d.flow)
       /\ \A q \in Queues(d) : q[2] < d.requested[q[1]]
       /\ \A f \in Families : d.requested[f] <= machine.families[f].count
       /\ d.decode # {} =>
            /\ d.compute = {} => free = {} /\ machine.families[WGPU_FAMILY].count < 2
            /\ free \ Can("graphics") # {} => \A q \in d.compute : q[1] \in free \ Can("graphics")

(* Each device is negotiated once, in a pinned module, one device at a     *)
(* time (wgpu issue 10234), although a panic may empty a lock and callers  *)
(* come through two of them; what a caller is given exists, and Auto is    *)
(* never given a software rasterizer.                                      *)
OneNegotiation ==
  /\ \A i, j \in DOMAIN devices : devices[i].of = devices[j].of => i = j
  /\ devices # <<>> => pinned
  /\ Cardinality({t \in Threads : pc[t] \in {"open_shared", "open", "opened"}}) <= 1
  /\ \A c \in {"shared", "compute"} :
       cell[c] = "some" => \E i \in DOMAIN devices : devices[i].of = c
  /\ cell["auto"] = "some" => cell["compute"] = "some" /\ ~machine.software

(* Every call returns: nobody waits for a lock whose filler waits for him, *)
(* and a panic frees what its thread held.                                 *)
CallsEnd == \A t \in Threads : pc[t] # "idle" ~> pc[t] = "idle"
=============================================================================
