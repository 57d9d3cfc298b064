--------------------------- MODULE SharedBuffers ---------------------------
(***************************************************************************)
(* Memory shared with another Vulkan device of the process or with another *)
(* process, by NT handle: src/external.rs.                                 *)
(*                                                                         *)
(* A slot is one side's view: the VkBuffer, its VkDeviceMemory, the wgpu   *)
(* buffer made of them and, on the exporting side, the handle.  Every      *)
(* driver call may fail.  wgpu destroys a dropped buffer when the commands *)
(* it knows to use it are done, and only then calls back.                  *)
(***************************************************************************)
EXTENDS Cards

CONSTANTS
  Slots,
  MaxFaults    \* bound: how often the driver refuses

ASSUME SharedBuffersAssumption == MaxFaults \in Nat

VARIABLES
  slot,      \* what exists of each view
  sharing,   \* the call each thread is in: export or import, where, for which slot
  faults

sharedVars == <<slot, sharing, faults>>

Empty == [buffer |-> FALSE, memory |-> FALSE, handle |-> FALSE, wgpu |-> "none", busy |-> FALSE]
NoCall == [what |-> "none", at |-> "none", slot |-> None, of |-> None]

SharedInit ==
  /\ slot = [s \in Slots |-> Empty]
  /\ sharing = [t \in Threads |-> NoCall]
  /\ faults = 0

(* A call builds this slot's objects, or borrows its handle. *)
Makes(t, s) == sharing[t].slot = Some(s)
Borrows(t, s) == sharing[t].of = Some(s)

Proceeds(t, s, objects, at) ==
  /\ slot' = [slot EXCEPT ![s] = objects]
  /\ sharing' = [sharing EXCEPT ![t].at = at]
  /\ UNCHANGED faults

(* The call returns an error, with these objects left. *)
Refuses(t, s, objects) ==
  /\ faults < MaxFaults
  /\ faults' = faults + 1
  /\ slot' = [slot EXCEPT ![s] = objects]
  /\ sharing' = [sharing EXCEPT ![t] = NoCall]

Begin(t, s, call) ==
  /\ sharing[t] = NoCall
  /\ slot[s] = Empty
  /\ \A u \in Threads : ~Makes(u, s)
  /\ sharing' = [sharing EXCEPT ![t] = call]
  /\ UNCHANGED <<slot, faults>>

Export(t) ==
  \E s \in Slots : Begin(t, s, [what |-> "export", at |-> "create", slot |-> Some(s), of |-> None])

(* The importer borrows the handle for the call. *)
Import(t) ==
  \E s, e \in Slots :
    /\ slot[e].handle
    /\ \A u \in Threads : ~Makes(u, e)
    /\ Begin(t, s, [what |-> "import", at |-> "create", slot |-> Some(s), of |-> Some(e)])

At(t, s, at) == Makes(t, s) /\ sharing[t].at = at

CreateBuffer(t, s) ==
  /\ At(t, s, "create")
  /\ \/ Proceeds(t, s, [slot[s] EXCEPT !.buffer = TRUE],
                 IF sharing[t].what = "export" THEN "require" ELSE "allocate")
     \/ Refuses(t, s, slot[s])

(* A device-local memory type that takes the buffer. *)
GetRequirements(t, s) ==
  /\ At(t, s, "require")
  /\ \/ Proceeds(t, s, slot[s], "allocate")
     \/ Refuses(t, s, [slot[s] EXCEPT !.buffer = FALSE])

(* Faulty variant: the buffer is left behind when the memory is refused.   *)
AllocateOrLeave(t, s) ==
  /\ At(t, s, "allocate")
  /\ \/ Proceeds(t, s, [slot[s] EXCEPT !.memory = TRUE], "bind")
     \/ Refuses(t, s, slot[s])

Allocate(t, s) ==
  /\ At(t, s, "allocate")
  /\ \/ Proceeds(t, s, [slot[s] EXCEPT !.memory = TRUE], "bind")
     \/ Refuses(t, s, [slot[s] EXCEPT !.buffer = FALSE])

Bind(t, s) ==
  /\ At(t, s, "bind")
  /\ \/ Proceeds(t, s, slot[s], IF sharing[t].what = "export" THEN "handle" ELSE "wrap")
     \/ Refuses(t, s, [slot[s] EXCEPT !.buffer = FALSE, !.memory = FALSE])

(* From here on the objects are Owned's: an error drops it. *)
GetHandle(t, s) ==
  /\ At(t, s, "handle")
  /\ \/ Proceeds(t, s, [slot[s] EXCEPT !.handle = TRUE], "wrap")
     \/ Refuses(t, s, [slot[s] EXCEPT !.buffer = FALSE, !.memory = FALSE])

Wrap(t, s) ==
  /\ At(t, s, "wrap")
  /\ slot' = [slot EXCEPT ![s].wgpu = "live"]
  /\ sharing' = [sharing EXCEPT ![t] = NoCall]
  /\ UNCHANGED faults

SharingStep(t) ==
  \E s \in Slots :
    \/ CreateBuffer(t, s) \/ GetRequirements(t, s) \/ Allocate(t, s)
    \/ Bind(t, s) \/ GetHandle(t, s) \/ Wrap(t, s)

-----------------------------------------------------------------------------
(* The owner of a view. *)

(* It submits commands that wgpu knows to use the buffer; acquire and      *)
(* release need the view as well, and make and change nothing of it.       *)
Use(s) ==
  /\ slot[s].wgpu = "live" /\ ~slot[s].busy
  /\ slot' = [slot EXCEPT ![s].busy = TRUE]
  /\ UNCHANGED <<sharing, faults>>

Finish(s) ==
  /\ slot[s].busy
  /\ slot' = [slot EXCEPT ![s].busy = FALSE]
  /\ UNCHANGED <<sharing, faults>>

DropView(s) ==
  /\ slot[s].wgpu = "live"
  /\ slot' = [slot EXCEPT ![s].wgpu = "dropped"]
  /\ UNCHANGED <<sharing, faults>>

(* wgpu destroys its hal buffer and with it Owned. *)
DropOwned(s) ==
  /\ slot[s].wgpu = "dropped" /\ ~slot[s].busy
  /\ slot' = [slot EXCEPT ![s].wgpu = "none", ![s].buffer = FALSE, ![s].memory = FALSE]
  /\ UNCHANGED <<sharing, faults>>

(* Export is dropped; nobody borrows its handle. *)
CloseHandle(s) ==
  /\ slot[s].handle
  /\ \A t \in Threads : ~Borrows(t, s) /\ ~Makes(t, s)
  /\ slot' = [slot EXCEPT ![s].handle = FALSE]
  /\ UNCHANGED <<sharing, faults>>

OwnerStep == \E s \in Slots : Use(s) \/ Finish(s) \/ DropView(s) \/ DropOwned(s) \/ CloseHandle(s)
=============================================================================
