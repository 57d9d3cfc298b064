---------------------------- MODULE DevicesProofs ----------------------------
(***************************************************************************)
(* Theorems about Devices for any threads, adapters and number of panics:  *)
(* each device is negotiated once, one at a time, and no two users of a    *)
(* device submit to one queue.                                             *)
(*                                                                         *)
(* The first rests on who fills which lock and who creates; the second on  *)
(* what a device is opened with, which no later step changes.              *)
(***************************************************************************)
EXTENDS Devices, FiniteSetTheorems, SequenceTheorems, WellFoundedInduction, TLAPS

Negotiating == {"pin", "adapter", "lock", "open_shared", "open", "opened"}
Creating == {"open_shared", "open", "opened"}
Opened == [of : {"shared", "compute"}, requested : [Families -> Nat], main : Nat \X Nat,
           decode : SUBSET (Nat \X Nat), compute : SUBSET (Nat \X Nat), flow : SUBSET (Nat \X Nat)]

Types ==
  /\ machine \in Machines
  /\ pinned \in BOOLEAN
  /\ cell \in [Cells -> {"unset", "running", "some", "none"}]
  /\ creating \in SUBSET Threads
  /\ devices \in Seq(Opened)
  /\ panics \in Nat
  /\ pc \in [Threads -> {"idle", "get", "decide"} \cup Negotiating]
  /\ asked \in [Threads -> Cells]
  /\ want \in [Threads -> Cells]

(* auto_compute_device asks for the compute device before it decides, and  *)
(* negotiates nothing itself.                                              *)
Asks ==
  \A t \in Threads :
    /\ want[t] = asked[t] \/ (asked[t] = "auto" /\ want[t] = "compute")
    /\ pc[t] \in Negotiating => want[t] # "auto"
    /\ pc[t] = "open_shared" => want[t] = "shared"
    /\ pc[t] = "decide" => asked[t] = "auto" /\ want[t] = "compute"

(* A lock that is being filled has one filler.                             *)
Fills(t, c) ==
  \/ pc[t] \in Negotiating /\ want[t] = c
  \/ c = "auto" /\ asked[t] = "auto" /\ want[t] = "compute"
OneFiller ==
  \A t \in Threads, c \in Cells :
    Fills(t, c) => cell[c] = "running" /\ \A u \in Threads : Fills(u, c) => u = t

(* Who creates holds DEVICE_CREATION, in a pinned module.                  *)
OneCreator == \A t \in Threads : pc[t] \in Creating => creating = {t}
InPinned ==
  /\ \A t \in Threads : pc[t] \in Negotiating \ {"pin"} => pinned
  /\ devices # <<>> => pinned

(* There is a device where a lock has one or its filler has just opened it,*)
(* nowhere else, and one at most.                                          *)
HasDevice(c) == \E i \in DOMAIN devices : devices[i].of = c
Exist ==
  \A c \in {"shared", "compute"} :
    HasDevice(c) <=> cell[c] = "some" \/ \E t \in Threads : pc[t] = "opened" /\ want[t] = c
Unique == \A i, j \in DOMAIN devices : devices[i].of = devices[j].of => i = j

AutoDecided == cell["auto"] = "some" => cell["compute"] = "some" /\ ~machine.software

(* What QueuesAreOwn says of one device.                                   *)
Sound(d) ==
  LET taken == {WGPU_FAMILY} \cup {q[1] : q \in d.decode}
      free == Can("compute") \ taken
  IN /\ Cardinality(Queues(d)) = 1 + Cardinality(d.decode) + Cardinality(d.compute) + Cardinality(d.flow)
     /\ \A q \in Queues(d) : q[2] < d.requested[q[1]]
     /\ \A f \in Families : d.requested[f] <= machine.families[f].count
     /\ d.decode # {} =>
          /\ d.compute = {} => free = {} /\ machine.families[WGPU_FAMILY].count < 2
          /\ free \ Can("graphics") # {} => \A q \in d.compute : q[1] \in free \ Can("graphics")
AllSound == \A i \in DOMAIN devices : Sound(devices[i])

Locks == Asks /\ OneFiller /\ OneCreator /\ InPinned /\ Exist /\ Unique /\ AutoDecided
IInv == Types /\ Locks /\ AllSound

-----------------------------------------------------------------------------
LEMMA InvStarts ==
  ASSUME Init
  PROVE  IInv
<1>1. Types
  BY DevicesAssumption, EmptySeq DEF Init, Types, Cells
<1>2. devices = <<>> /\ DOMAIN devices = {}
  BY DEF Init
<1>3. Asks /\ OneFiller /\ OneCreator
  BY DEF Init, Asks, OneFiller, Fills, OneCreator, Negotiating, Creating
<1>4. InPinned /\ Exist /\ Unique /\ AutoDecided /\ AllSound
  BY <1>2 DEF Init, InPinned, Exist, HasDevice, Unique, AutoDecided, AllSound, Negotiating, Cells
<1> QED
  BY <1>1, <1>3, <1>4 DEF IInv, Locks

-----------------------------------------------------------------------------
(* Who fills and who creates, step by step. *)

LEMMA CallKeeps ==
  ASSUME Types, Locks, NEW t \in Threads, Call(t)
  PROVE  Types' /\ Locks'
<1> USE DEF locks
<1>1. PICK c \in Cells : asked' = [asked EXCEPT ![t] = c] /\ want' = [want EXCEPT ![t] = c]
  BY DEF Call
<1>2. /\ pc[t] = "idle" /\ pc' = [pc EXCEPT ![t] = "get"]
      /\ UNCHANGED <<machine, pinned, cell, creating, devices, panics>>
  BY DEF Call, Goto
<1>3. /\ pc'[t] = "get" /\ asked'[t] = c /\ want'[t] = c
      /\ \A u \in Threads : u # t => pc'[u] = pc[u] /\ asked'[u] = asked[u] /\ want'[u] = want[u]
  BY <1>1, <1>2 DEF Types
<1>4. Types'
  BY <1>1, <1>2 DEF Types, Opened, Families
<1>5. Asks' /\ OneFiller' /\ OneCreator'
  BY <1>2, <1>3 DEF Locks, Asks, OneFiller, Fills, OneCreator, Negotiating, Creating
<1>6. InPinned' /\ Exist' /\ Unique' /\ AutoDecided'
  BY <1>2, <1>3 DEF Locks, InPinned, Exist, HasDevice, Unique, AutoDecided, Negotiating
<1> QED
  BY <1>4, <1>5, <1>6 DEF Locks

LEMMA LeaveKeeps ==
  ASSUME Types, Locks, NEW t \in Threads, Leave(t), pc[t] = "get", want[t] = asked[t],
         UNCHANGED <<machine, locks, devices, panics>>
  PROVE  Types' /\ Locks'
<1> USE DEF locks
<1>1. /\ pc' = [pc EXCEPT ![t] = "idle"] /\ asked' = [asked EXCEPT ![t] = "shared"]
      /\ want' = [want EXCEPT ![t] = "shared"]
  BY DEF Leave, Goto
<1>2. /\ pc'[t] = "idle" /\ asked'[t] = "shared" /\ want'[t] = "shared"
      /\ \A u \in Threads : u # t => pc'[u] = pc[u] /\ asked'[u] = asked[u] /\ want'[u] = want[u]
  BY <1>1 DEF Types
<1>3. Types'
  BY <1>1 DEF Types, Opened, Families, Cells
<1>4. Asks' /\ OneFiller' /\ OneCreator'
  BY <1>2 DEF Locks, Asks, OneFiller, Fills, OneCreator, Negotiating, Creating
<1>5. InPinned' /\ Exist' /\ Unique' /\ AutoDecided'
  BY <1>2 DEF Locks, InPinned, Exist, HasDevice, Unique, AutoDecided, Negotiating
<1> QED
  BY <1>3, <1>4, <1>5 DEF Locks

(* The thread goes from one place of its negotiation to another.           *)
LEMMA MovesKeep ==
  ASSUME Types, Locks, NEW t \in Threads, NEW p \in Negotiating \ {"opened"}, Goto(t, p),
         pc[t] \in Negotiating \ {"opened"}, p = "open_shared" => want[t] = "shared",
         pinned' \in BOOLEAN, pinned => pinned', p # "pin" => pinned',
         creating' \in SUBSET Threads,
         \/ UNCHANGED creating /\ (p \in Creating => pc[t] \in Creating)
         \/ creating = {} /\ creating' = {t},
         UNCHANGED <<machine, cell, devices, panics, asked, want>>
  PROVE  Types' /\ Locks'
<1>1. pc'[t] = p /\ \A u \in Threads : u # t => pc'[u] = pc[u]
  BY DEF Types, Goto
<1>2. Types'
  BY DEF Types, Goto, Opened, Families
<1>3. Asks' /\ OneFiller'
  BY <1>1 DEF Locks, Asks, OneFiller, Fills, Negotiating
<1>4. OneCreator'
  BY <1>1 DEF Locks, OneCreator, Creating
<1>5. InPinned'
  BY <1>1 DEF Locks, InPinned, Negotiating
<1>6. Exist' /\ Unique' /\ AutoDecided'
  BY <1>1 DEF Locks, Exist, HasDevice, Unique, AutoDecided
<1> QED
  BY <1>2, <1>3, <1>4, <1>5, <1>6 DEF Locks

LEMMA FoundKeeps ==
  ASSUME Types, Locks, NEW t \in Threads, Found(t)
  PROVE  Types' /\ Locks'
<1> USE DEF locks
<1>1. /\ pc[t] = "get" /\ cell[want[t]] \in {"some", "none"}
      /\ UNCHANGED <<machine, locks, devices, panics>>
  BY DEF Found
<1>2. CASE want[t] = asked[t]
  BY <1>1, <1>2, LeaveKeeps DEF Found
<1>3. CASE want[t] # asked[t]
  <2>1. pc' = [pc EXCEPT ![t] = "decide"] /\ UNCHANGED <<asked, want>>
    BY <1>3 DEF Found, Goto
  <2>2. pc'[t] = "decide" /\ \A u \in Threads : u # t => pc'[u] = pc[u]
    BY <2>1 DEF Types
  <2>3. Types'
    BY <1>1, <2>1 DEF Types, Opened, Families
  <2>4. Asks' /\ OneFiller' /\ OneCreator'
    BY <1>1, <1>3, <2>1, <2>2 DEF Locks, Asks, OneFiller, Fills, OneCreator, Negotiating, Creating
  <2>5. InPinned' /\ Exist' /\ Unique' /\ AutoDecided'
    BY <1>1, <2>1, <2>2 DEF Locks, InPinned, Exist, HasDevice, Unique, AutoDecided, Negotiating
  <2> QED
    BY <2>3, <2>4, <2>5 DEF Locks
<1> QED
  BY <1>2, <1>3

(* An empty lock has no filler; now this thread is it.                     *)
LEMMA StartKeeps ==
  ASSUME Types, Locks, NEW t \in Threads, Start(t)
  PROVE  Types' /\ Locks'
<1> DEFINE c == want[t]
           w == IF c = "auto" THEN "compute" ELSE c
           p == IF c = "auto" THEN "get" ELSE "pin"
<1>1. /\ pc[t] = "get" /\ cell[c] = "unset" /\ cell' = [cell EXCEPT ![c] = "running"]
      /\ want' = [want EXCEPT ![t] = w] /\ pc' = [pc EXCEPT ![t] = p]
      /\ UNCHANGED <<machine, pinned, creating, devices, panics, asked>>
  BY DEF Start, Goto
<1>2. /\ c \in Cells /\ pc'[t] = p /\ want'[t] = w /\ cell'[c] = "running"
      /\ \A u \in Threads : u # t => pc'[u] = pc[u] /\ want'[u] = want[u]
      /\ \A d \in Cells : d # c => cell'[d] = cell[d]
  BY <1>1 DEF Types
<1>3. Types'
  BY <1>1, <1>2 DEF Types, Opened, Families, Cells, Negotiating
<1>4. Asks'
  BY <1>1, <1>2 DEF Locks, Asks, Negotiating
<1>5. \A u \in Threads : ~Fills(u, c)
  BY <1>1, <1>2 DEF Locks, OneFiller
<1>6. \A d \in Cells, u \in Threads : Fills(u, d)' <=> Fills(u, d) \/ (u = t /\ d = c)
  BY <1>1, <1>2 DEF Locks, Asks, Fills, Negotiating, Cells
<1>7. OneFiller'
  BY <1>1, <1>2, <1>5, <1>6 DEF Locks, OneFiller
<1>8. OneCreator' /\ InPinned'
  BY <1>1, <1>2 DEF Locks, OneCreator, InPinned, Creating, Negotiating
<1>9. Exist' /\ Unique' /\ AutoDecided'
  BY <1>1, <1>2 DEF Locks, Exist, HasDevice, Unique, AutoDecided, Cells
<1> QED
  BY <1>3, <1>4, <1>7, <1>8, <1>9 DEF Locks

(* The filler settles its lock: with a device if and only if it opened one.*)
LEMMA SettleKeeps ==
  ASSUME Types, Locks, NEW t \in Threads, NEW answer \in {"some", "none"}, Settle(t, answer),
         pc[t] \in Negotiating, answer = "some" <=> pc[t] = "opened",
         \/ UNCHANGED creating
         \/ pc[t] \in Creating /\ creating' = creating \ {t},
         UNCHANGED <<machine, pinned, devices, panics, asked, want>>
  PROVE  Types' /\ Locks'
<1> DEFINE c == want[t]
<1>1. cell' = [cell EXCEPT ![c] = answer] /\ pc' = [pc EXCEPT ![t] = "get"]
  BY DEF Settle, Goto
<1>2. /\ c \in {"shared", "compute"} /\ cell[c] = "running" /\ Fills(t, c)
      /\ pc'[t] = "get" /\ cell'[c] = answer
      /\ \A u \in Threads : u # t => pc'[u] = pc[u]
      /\ \A d \in Cells : d # c => cell'[d] = cell[d]
  BY <1>1 DEF Types, Locks, Asks, OneFiller, Fills, Cells
<1>3. \A u \in Threads : u # t => ~Fills(u, c)
  BY <1>2 DEF Locks, OneFiller, Cells
<1>4. Types'
  BY <1>1 DEF Types, Opened, Families
<1>5. Asks'
  BY <1>2 DEF Locks, Asks, Negotiating
<1>6. \A d \in Cells, u \in Threads : Fills(u, d)' => Fills(u, d) /\ d # c
  BY <1>2, <1>3 DEF Locks, Asks, Fills, Negotiating
<1>7. OneFiller'
  BY <1>2, <1>6 DEF Locks, OneFiller
<1>8. OneCreator' /\ InPinned'
  BY <1>2 DEF Locks, OneCreator, InPinned, Creating, Negotiating
<1>9. Exist'
  <2> SUFFICES ASSUME NEW d \in {"shared", "compute"}
               PROVE  HasDevice(d)' <=> cell'[d] = "some" \/ \E u \in Threads : pc'[u] = "opened" /\ want'[u] = d
    BY DEF Exist
  <2>1. HasDevice(d)' <=> HasDevice(d)
    BY DEF HasDevice
  <2>2. HasDevice(d) <=> cell[d] = "some" \/ \E u \in Threads : pc[u] = "opened" /\ want[u] = d
    BY DEF Locks, Exist
  <2>3. CASE d # c
    BY <1>2, <2>1, <2>2, <2>3 DEF Cells
  <2>4. CASE d = c
    <3>1. \A u \in Threads : u # t => ~(pc[u] = "opened" /\ want[u] = c)
      BY <1>3 DEF Fills, Negotiating
    <3> QED
      BY <1>2, <2>1, <2>2, <2>4, <3>1
  <2> QED
    BY <2>3, <2>4
<1>10. Unique' /\ AutoDecided'
  BY <1>2 DEF Locks, Unique, AutoDecided, Cells
<1> QED
  BY <1>4, <1>5, <1>7, <1>8, <1>9, <1>10 DEF Locks

(* The creator opens the device of the lock it fills, which has none yet.  *)
LEMMA OpensKeep ==
  ASSUME Types, Locks, NEW t \in Threads, NEW d \in Opened, d.of = want[t],
         pc[t] \in {"open_shared", "open"}, Goto(t, "opened"),
         devices' = Append(devices, d),
         UNCHANGED <<machine, locks, panics, asked, want>>
  PROVE  Types' /\ Locks'
<1> USE DEF locks
<1>1. /\ pc'[t] = "opened" /\ \A u \in Threads : u # t => pc'[u] = pc[u]
      /\ pc' \in [Threads -> {"idle", "get", "decide"} \cup Negotiating]
  BY DEF Types, Goto, Negotiating
<1>2. /\ devices' \in Seq(Opened) /\ Len(devices') = Len(devices) + 1
      /\ DOMAIN devices = 1 .. Len(devices) /\ DOMAIN devices' = 1 .. Len(devices')
      /\ \A i \in 1 .. Len(devices) : devices'[i] = devices[i]
      /\ devices'[Len(devices) + 1] = d /\ Len(devices) \in Nat
  BY AppendProperties, LenProperties DEF Types
<1>3. Types'
  BY <1>1, <1>2 DEF Types, Opened, Families
<1>4. Asks' /\ OneFiller' /\ OneCreator'
  BY <1>1 DEF Locks, Asks, OneFiller, Fills, OneCreator, Negotiating, Creating
<1>5. InPinned' /\ AutoDecided'
  BY <1>1 DEF Locks, InPinned, AutoDecided, Negotiating
<1>6. want[t] \in {"shared", "compute"} /\ ~HasDevice(want[t])
  <2>1. want[t] \in {"shared", "compute"} /\ Fills(t, want[t])
    BY DEF Types, Locks, Asks, Fills, Negotiating, Cells
  <2>2. cell[want[t]] = "running" /\ \A u \in Threads : pc[u] = "opened" => want[u] # want[t]
    BY <2>1 DEF Locks, OneFiller, Fills, Negotiating, Cells
  <2> QED
    BY <2>1, <2>2 DEF Locks, Exist
<1>7. \A c \in {"shared", "compute"} : HasDevice(c)' <=> HasDevice(c) \/ c = want[t]
  BY <1>2 DEF HasDevice
<1>8. Exist'
  BY <1>1, <1>6, <1>7 DEF Locks, Exist
<1>9. Unique'
  BY <1>2, <1>6 DEF Locks, Unique, HasDevice
<1> QED
  BY <1>3, <1>4, <1>5, <1>8, <1>9 DEF Locks

(* AutoDecided is settled by its own filler, from a settled compute device.       *)
LEMMA DecideKeeps ==
  ASSUME Types, Locks, NEW t \in Threads, Decide(t)
  PROVE  Types' /\ Locks'
<1>1. PICK answer \in {"some", "none"} :
        /\ cell' = [cell EXCEPT !["auto"] = answer]
        /\ answer = "some" => cell["compute"] = "some" /\ ~machine.software
  BY DEF Decide
<1>2. /\ pc[t] = "decide" /\ pc' = [pc EXCEPT ![t] = "idle"]
      /\ asked' = [asked EXCEPT ![t] = "shared"] /\ want' = [want EXCEPT ![t] = "shared"]
      /\ UNCHANGED <<machine, pinned, creating, devices, panics>>
  BY DEF Decide, Leave, Goto
<1>3. /\ pc'[t] = "idle" /\ asked'[t] = "shared" /\ want'[t] = "shared"
      /\ \A u \in Threads : u # t => pc'[u] = pc[u] /\ asked'[u] = asked[u] /\ want'[u] = want[u]
      /\ cell'["auto"] = answer /\ \A c \in Cells : c # "auto" => cell'[c] = cell[c]
  BY <1>1, <1>2 DEF Types, Cells
<1>4. Types'
  BY <1>1, <1>2 DEF Types, Opened, Families, Cells
<1>5. Fills(t, "auto")
  BY <1>2 DEF Locks, Asks, Fills
<1>6. \A c \in Cells, u \in Threads : Fills(u, c)' => Fills(u, c) /\ c # "auto"
  BY <1>3, <1>5 DEF Locks, Asks, OneFiller, Fills, Negotiating, Cells
<1>7. OneFiller' /\ Asks'
  BY <1>3, <1>6 DEF Locks, OneFiller, Asks, Negotiating
<1>8. OneCreator' /\ InPinned'
  BY <1>2, <1>3 DEF Locks, OneCreator, InPinned, Creating, Negotiating
<1>9. Exist' /\ Unique' /\ AutoDecided'
  BY <1>1, <1>2, <1>3 DEF Locks, Exist, HasDevice, Unique, AutoDecided, Cells
<1> QED
  BY <1>4, <1>7, <1>8, <1>9 DEF Locks

(* A panic empties what its thread was filling, before it opened anything. *)
LEMMA UnwindKeeps ==
  ASSUME Types, Locks, NEW t \in Threads, Unwind(t)
  PROVE  Types' /\ Locks'
<1> DEFINE mine == {want[t], asked[t]}
<1>1. /\ pc[t] \in {"adapter", "open_shared", "open"} /\ panics' = panics + 1
      /\ creating' = creating \ {t}
      /\ cell' = [c \in Cells |-> IF c \in mine THEN "unset" ELSE cell[c]]
      /\ pc' = [pc EXCEPT ![t] = "idle"]
      /\ asked' = [asked EXCEPT ![t] = "shared"] /\ want' = [want EXCEPT ![t] = "shared"]
      /\ UNCHANGED <<machine, pinned, devices>>
  BY DEF Unwind, Leave, Goto
<1>2. /\ pc'[t] = "idle" /\ asked'[t] = "shared" /\ want'[t] = "shared"
      /\ \A u \in Threads : u # t => pc'[u] = pc[u] /\ asked'[u] = asked[u] /\ want'[u] = want[u]
  BY <1>1 DEF Types
<1>3. Types'
  BY <1>1 DEF Types, Opened, Families, Cells
<1>4. \A c \in mine : c \in Cells /\ Fills(t, c)
  BY <1>1 DEF Types, Locks, Asks, Fills, Negotiating
<1>5. \A c \in mine : cell[c] = "running" /\ \A u \in Threads : u # t => ~Fills(u, c)
  BY <1>4 DEF Locks, OneFiller
<1>6. \A c \in Cells, u \in Threads : Fills(u, c)' => Fills(u, c) /\ c \notin mine
  BY <1>2, <1>5 DEF Fills, Negotiating
<1>7. OneFiller'
  BY <1>1, <1>6 DEF Locks, OneFiller
<1>8. Asks' /\ OneCreator' /\ InPinned'
  BY <1>1, <1>2 DEF Locks, Asks, OneCreator, InPinned, Creating, Negotiating
<1>9. Exist' /\ Unique'
  BY <1>1, <1>2, <1>5 DEF Locks, Exist, HasDevice, Unique, Cells
<1>10. AutoDecided'
  BY <1>1, <1>5 DEF Locks, AutoDecided, Cells
<1> QED
  BY <1>3, <1>7, <1>8, <1>9, <1>10 DEF Locks

-----------------------------------------------------------------------------
(* What a device is opened with. *)

LEMMA MinIsMember ==
  ASSUME NEW S, S \subseteq Nat, S # {}
  PROVE  Min(S) \in S
<1> DEFINE Below == OpToRel(<, Nat)
<1>1. PICK x \in S : \A y \in S : ~ (<<y, x>> \in Below)
  BY NatLessThanWellFounded, WFMin
<1>2. \A y \in S : y < x => <<y, x>> \in Below
  BY DEF OpToRel
<1> HIDE DEF Below
<1>3. \A y \in S : ~(y < x)
  BY <1>1, <1>2, Zenon
<1>4. \A y \in S : x <= y
  BY <1>3
<1> QED
  BY <1>4 DEF Min

LEMMA TwoOf ==
  ASSUME NEW a, NEW b, a # b
  PROVE  IsFiniteSet({a, b}) /\ Cardinality({a, b}) = 2
<1>1. IsFiniteSet({a}) /\ Cardinality({a}) = 1
  BY FS_Singleton
<1>2. {a, b} = {a} \cup {b} /\ b \notin {a}
  OBVIOUS
<1> QED
  BY <1>1, <1>2, FS_AddElement

LEMMA ThreeOf ==
  ASSUME NEW a, NEW b, NEW c, a # b, c # a, c # b
  PROVE  Cardinality({a, b} \cup {c}) = 3
<1>1. IsFiniteSet({a, b}) /\ Cardinality({a, b}) = 2 /\ c \notin {a, b}
  BY TwoOf
<1> QED
  BY <1>1, FS_AddElement

LEMMA FamiliesKnown ==
  ASSUME machine \in Machines
  PROVE  /\ Families \subseteq Nat /\ WGPU_FAMILY \in Families
         /\ \A f \in Families : machine.families[f].count \in Nat \ {0}
         /\ \A what : Can(what) \subseteq Families
BY DevicesAssumption DEF Families, Can

(* The three ways a reader of decoded pictures gets a queue, or none.      *)
LEMMA ComputeChoice ==
  ASSUME machine \in Machines, NEW decode
  PROVE  LET usable == Can("compute") \ {WGPU_FAMILY, decode} IN
         \/ \E f \in usable :
              /\ ComputeFamily(decode) = {f} /\ ComputeQueue(decode) = {<<f, 0>>}
              /\ usable \ Can("graphics") # {} => f \in usable \ Can("graphics")
         \/ /\ ComputeFamily(decode) = {} /\ ComputeQueue(decode) = {<<WGPU_FAMILY, 1>>}
            /\ usable = {} /\ machine.families[WGPU_FAMILY].count >= 2
         \/ /\ ComputeFamily(decode) = {} /\ ComputeQueue(decode) = {}
            /\ usable = {} /\ machine.families[WGPU_FAMILY].count < 2
<1> DEFINE usable == Can("compute") \ {WGPU_FAMILY, decode}
           own == usable \ Can("graphics")
<1>1. usable \subseteq Nat /\ own \subseteq Nat
  BY FamiliesKnown
<1>2. CASE own # {}
  <2>1. Min(own) \in own
    BY <1>1, <1>2, MinIsMember
  <2>2. ComputeFamily(decode) = {Min(own)}
    BY <1>2 DEF ComputeFamily
  <2>3. ComputeQueue(decode) = {<<Min(own), 0>>}
    BY <2>2 DEF ComputeQueue
  <2> QED
    BY <2>1, <2>2, <2>3
<1>3. CASE own = {} /\ usable # {}
  <2>1. Min(usable) \in usable
    BY <1>1, <1>3, MinIsMember
  <2>2. ComputeFamily(decode) = {Min(usable)}
    BY <1>3 DEF ComputeFamily
  <2>3. ComputeQueue(decode) = {<<Min(usable), 0>>}
    BY <2>2 DEF ComputeQueue
  <2> QED
    BY <1>3, <2>1, <2>2, <2>3
<1>4. CASE usable = {}
  <2>1. own = {}
    BY <1>4
  <2>2. ComputeFamily(decode) = {}
    BY <1>4, <2>1 DEF ComputeFamily
  <2>3. machine.families[WGPU_FAMILY].count \in Nat
    BY FamiliesKnown
  <2> QED
    BY <1>4, <2>2, <2>3 DEF ComputeQueue
<1> QED
  BY <1>2, <1>3, <1>4

LEMMA SharedIsSound ==
  ASSUME machine \in Machines, NEW decode \in DecodeFamily, Refuses("driver")
  PROVE  SharedDevice(decode) \in Opened /\ Sound(SharedDevice(decode))
<1> DEFINE d == SharedDevice(decode)
           usable == Can("compute") \ {WGPU_FAMILY, decode}
           w == WGPU_FAMILY
<1>1. decode \in Families /\ decode # w /\ decode \in Nat
  <2>1. Can("decode") # {} /\ decode = Min(Can("decode")) /\ DecodeFamily = {decode}
    BY DEF DecodeFamily
  <2>2. decode \in Can("decode")
    BY <2>1, FamiliesKnown, MinIsMember
  <2>3. DecodeFamily # {w}
    BY DEF Refuses
  <2> QED
    BY <2>1, <2>2, <2>3, FamiliesKnown
<1>2. /\ d.of = "shared" /\ d.requested = Requested(decode) /\ d.main = <<0, 0>>
      /\ d.decode = {<<decode, 0>>} /\ d.compute = ComputeQueue(decode) /\ d.flow = {}
  BY DEF SharedDevice, Main, WGPU_FAMILY
<1>3. {WGPU_FAMILY} \cup {q[1] : q \in d.decode} = {w, decode}
  BY <1>2
<1>4. Queues(d) = {<<0, 0>>, <<decode, 0>>} \cup ComputeQueue(decode)
  BY <1>2 DEF Queues
<1>5. <<0, 0>> # <<decode, 0>>
  BY <1>1 DEF WGPU_FAMILY
<1>6. Cardinality(d.decode) = 1 /\ Cardinality(d.flow) = 0
  BY <1>2, FS_Singleton, FS_EmptySet, ZenonT(60)
<1> HIDE DEF d
<1>7. CASE \E f \in usable :
             /\ ComputeFamily(decode) = {f} /\ ComputeQueue(decode) = {<<f, 0>>}
             /\ usable \ Can("graphics") # {} => f \in usable \ Can("graphics")
  <2>1. PICK f \in usable :
          /\ ComputeFamily(decode) = {f} /\ ComputeQueue(decode) = {<<f, 0>>}
          /\ usable \ Can("graphics") # {} => f \in usable \ Can("graphics")
    BY <1>7
  <2>2. f \in Families /\ f \in Nat /\ f # w /\ f # decode
    BY FamiliesKnown
  <2>3. Cardinality(Queues(d)) = 3 /\ Cardinality(d.compute) = 1
    <3>1. <<f, 0>> # <<0, 0>> /\ <<f, 0>> # <<decode, 0>>
      BY <2>2 DEF WGPU_FAMILY
    <3>2. Cardinality({<<0, 0>>, <<decode, 0>>} \cup {<<f, 0>>}) = 3
      BY <1>5, <3>1, ThreeOf
    <3> QED
      BY <1>2, <1>4, <2>1, <3>2, FS_Singleton
  <2>4. Requested(decode) = [g \in Families |-> IF g \in {w, f, decode} THEN 1 ELSE 0]
    <3>1. <<f, 0>> # <<WGPU_FAMILY, 1>>
      OBVIOUS
    <3>2. ComputeQueue(decode) # {<<WGPU_FAMILY, 1>>}
      BY <2>1, <3>1
    <3> QED
      BY <2>1, <2>2, <3>2 DEF Requested
  <2>5. d \in Opened
    BY <1>1, <1>2, <2>1, <2>2, <2>4 DEF d, Opened, SharedDevice, Main, WGPU_FAMILY
  <2>6. \A q \in Queues(d) : q[2] < d.requested[q[1]]
    BY <1>1, <1>2, <1>4, <2>1, <2>2, <2>4, FamiliesKnown DEF WGPU_FAMILY
  <2>7. \A g \in Families : d.requested[g] <= machine.families[g].count
    BY <1>2, <2>4, FamiliesKnown
  <2>8. usable \ Can("graphics") # {} => \A q \in d.compute : q[1] \in usable \ Can("graphics")
    BY <1>2, <2>1
  <2>9. d.compute # {}
    BY <1>2, <2>1, ZenonT(60)
  <2> QED
    BY <1>3, <1>6, <2>3, <2>5, <2>6, <2>7, <2>8, <2>9 DEF Sound, d
<1>8. CASE /\ ComputeFamily(decode) = {} /\ ComputeQueue(decode) = {<<WGPU_FAMILY, 1>>}
           /\ usable = {} /\ machine.families[WGPU_FAMILY].count >= 2
  <2>1. Cardinality(Queues(d)) = 3 /\ Cardinality(d.compute) = 1
    <3>1. <<0, 1>> # <<0, 0>> /\ <<0, 1>> # <<decode, 0>>
      OBVIOUS
    <3>2. Cardinality({<<0, 0>>, <<decode, 0>>} \cup {<<0, 1>>}) = 3
      BY <1>5, <3>1, ThreeOf
    <3> QED
      BY <1>2, <1>4, <1>8, <3>2, FS_Singleton DEF WGPU_FAMILY
  <2>2. Requested(decode) = [g \in Families |-> IF g = w THEN 2 ELSE IF g = decode THEN 1 ELSE 0]
    BY <1>8 DEF Requested
  <2>3. d \in Opened
    BY <1>1, <1>2, <1>8, <2>2 DEF d, Opened, SharedDevice, Main, WGPU_FAMILY
  <2>4. \A q \in Queues(d) : q[2] < d.requested[q[1]]
    BY <1>1, <1>2, <1>4, <1>8, <2>2, FamiliesKnown DEF WGPU_FAMILY
  <2>5. \A g \in Families : d.requested[g] <= machine.families[g].count
    BY <1>2, <1>8, <2>2, FamiliesKnown
  <2>6. d.compute # {}
    BY <1>2, <1>8
  <2> QED
    BY <1>3, <1>6, <1>8, <2>1, <2>3, <2>4, <2>5, <2>6 DEF Sound, d
<1>9. CASE /\ ComputeFamily(decode) = {} /\ ComputeQueue(decode) = {}
           /\ usable = {} /\ machine.families[WGPU_FAMILY].count < 2
  <2>1. Cardinality(Queues(d)) = 2 /\ Cardinality(d.compute) = 0
    <3>1. Cardinality({<<0, 0>>, <<decode, 0>>}) = 2
      BY <1>5, TwoOf
    <3>2. Queues(d) = {<<0, 0>>, <<decode, 0>>}
      BY <1>4, <1>9
    <3> QED
      BY <1>2, <1>9, <3>1, <3>2, FS_EmptySet
  <2>2. Requested(decode) = [g \in Families |-> IF g \in {w, decode} THEN 1 ELSE 0]
    <3>1. ComputeQueue(decode) # {<<WGPU_FAMILY, 1>>}
      BY <1>9
    <3> QED
      BY <1>9, <3>1 DEF Requested
  <2>3. d \in Opened
    BY <1>1, <1>2, <1>9, <2>2 DEF d, Opened, SharedDevice, Main, WGPU_FAMILY
  <2>4. \A q \in Queues(d) : q[2] < d.requested[q[1]]
    BY <1>1, <1>2, <1>4, <1>9, <2>2, FamiliesKnown DEF WGPU_FAMILY
  <2>5. \A g \in Families : d.requested[g] <= machine.families[g].count
    BY <1>2, <2>2, FamiliesKnown
  <2> QED
    BY <1>2, <1>3, <1>6, <1>9, <2>1, <2>3, <2>4, <2>5 DEF Sound, d
<1> QED
  BY <1>7, <1>8, <1>9, ComputeChoice

LEMMA ComputeIsSound ==
  ASSUME machine \in Machines
  PROVE  ComputeDevice \in Opened /\ Sound(ComputeDevice) /\ ComputeDevice.of = "compute"
<1> DEFINE d == ComputeDevice
<1>1. /\ d.of = "compute" /\ d.main = <<0, 0>> /\ d.decode = {} /\ d.compute = {}
      /\ d.requested = [f \in Families |-> IF f \in {WGPU_FAMILY} \cup FlowFamily THEN 1 ELSE 0]
      /\ d.flow = {<<f, 0>> : f \in FlowFamily}
  BY DEF ComputeDevice, Main, WGPU_FAMILY
<1>2. Cardinality(d.decode) = 0 /\ Cardinality(d.compute) = 0
  BY <1>1, FS_EmptySet
<1>3. \A f \in Families : d.requested[f] <= machine.families[f].count
  BY <1>1, FamiliesKnown
<1>4. CASE FlowFamily = {}
  <2>1. Queues(d) = {<<0, 0>>} /\ d.flow = {}
    BY <1>1, <1>4 DEF Queues
  <2>2. Cardinality(Queues(d)) = 1 /\ Cardinality(d.flow) = 0
    BY <2>1, FS_Singleton, FS_EmptySet
  <2>3. \A q \in Queues(d) : q[2] < d.requested[q[1]]
    BY <1>1, <2>1, FamiliesKnown DEF WGPU_FAMILY
  <2>4. d \in Opened
    BY <1>1, <2>1 DEF Opened, ComputeDevice, Main, WGPU_FAMILY
  <2> QED
    BY <1>1, <1>2, <1>3, <2>2, <2>3, <2>4 DEF Sound
<1>5. CASE FlowFamily # {}
  <2>1. PICK f : FlowFamily = {f} /\ f \in Families /\ f \in Nat /\ f # WGPU_FAMILY
    <3> DEFINE found == Can("flow") \ {WGPU_FAMILY}
    <3>1. found # {} /\ FlowFamily = {Min(found)}
      BY <1>5 DEF FlowFamily
    <3>2. Min(found) \in found
      BY <3>1, FamiliesKnown, MinIsMember
    <3> QED
      BY <3>1, <3>2, FamiliesKnown
  <2>2. d.flow = {<<f, 0>>} /\ Queues(d) = {<<0, 0>>} \cup {<<f, 0>>}
    BY <1>1, <2>1 DEF Queues
  <2>3. Cardinality(Queues(d)) = 2 /\ Cardinality(d.flow) = 1
    <3>1. <<0, 0>> # <<f, 0>>
      BY <2>1 DEF WGPU_FAMILY
    <3>2. Cardinality({<<0, 0>>, <<f, 0>>}) = 2
      BY <3>1, TwoOf
    <3>3. Queues(d) = {<<0, 0>>, <<f, 0>>}
      BY <2>2
    <3> QED
      BY <2>2, <3>2, <3>3, FS_Singleton
  <2>4. \A q \in Queues(d) : q[2] < d.requested[q[1]]
    BY <1>1, <2>1, <2>2, FamiliesKnown DEF WGPU_FAMILY
  <2>5. d \in Opened
    BY <1>1, <2>1, <2>2 DEF Opened, ComputeDevice, Main, WGPU_FAMILY
  <2> QED
    BY <1>1, <1>2, <1>3, <2>3, <2>4, <2>5 DEF Sound
<1> QED
  BY <1>1, <1>4, <1>5

LEMMA PlainIsSound ==
  ASSUME machine \in Machines, NEW c \in {"shared", "compute"}
  PROVE  PlainDevice(c) \in Opened /\ Sound(PlainDevice(c)) /\ PlainDevice(c).of = c
<1> DEFINE d == PlainDevice(c)
<1>1. /\ d.of = c /\ d.main = <<0, 0>> /\ d.decode = {} /\ d.compute = {} /\ d.flow = {}
      /\ d.requested = [f \in Families |-> IF f = WGPU_FAMILY THEN 1 ELSE 0]
  BY DEF PlainDevice, Main, WGPU_FAMILY
<1>2. Queues(d) = {<<0, 0>>}
  BY <1>1 DEF Queues
<1>3. /\ Cardinality(d.decode) = 0 /\ Cardinality(d.compute) = 0 /\ Cardinality(d.flow) = 0
      /\ Cardinality(Queues(d)) = 1
  BY <1>1, <1>2, FS_Singleton, FS_EmptySet
<1>4. \A f \in Families : d.requested[f] <= machine.families[f].count
  BY <1>1, FamiliesKnown
<1>5. \A q \in Queues(d) : q[2] < d.requested[q[1]]
  BY <1>1, <1>2, FamiliesKnown DEF WGPU_FAMILY
<1>6. d \in Opened
  BY <1>1 DEF Opened, PlainDevice, Main, WGPU_FAMILY
<1> QED
  BY <1>1, <1>3, <1>4, <1>5, <1>6 DEF Sound

-----------------------------------------------------------------------------
(* Every step. *)

LEMMA SoundnessStays ==
  ASSUME AllSound, UNCHANGED <<machine, devices>>
  PROVE  AllSound'
BY DEF AllSound, Sound, Can, Families

LEMMA OpensSound ==
  ASSUME Types, AllSound, NEW d \in Opened, Sound(d), devices' = Append(devices, d), UNCHANGED machine
  PROVE  AllSound'
<1>1. /\ Len(devices') = Len(devices) + 1 /\ Len(devices) \in Nat
      /\ DOMAIN devices = 1 .. Len(devices) /\ DOMAIN devices' = 1 .. Len(devices')
      /\ \A i \in 1 .. Len(devices) : devices'[i] = devices[i]
      /\ devices'[Len(devices) + 1] = d
  BY AppendProperties, LenProperties DEF Types
<1>2. \A i \in DOMAIN devices' : Sound(devices'[i])
  <2> SUFFICES ASSUME NEW i \in DOMAIN devices'
               PROVE  Sound(devices'[i])
    OBVIOUS
  <2>1. CASE i \in DOMAIN devices
    BY <1>1, <2>1 DEF AllSound
  <2>2. CASE i = Len(devices) + 1
    BY <1>1, <2>2
  <2> QED
    BY <1>1, <2>1, <2>2
<1>3. \A i \in DOMAIN devices' : Sound(devices[i])' <=> Sound(devices'[i])
  BY DEF Sound, Can, Families
<1> QED
  BY <1>2, <1>3 DEF AllSound

LEMMA OpenSharedKeeps ==
  ASSUME IInv, NEW t \in Threads, OpenShared(t)
  PROVE  IInv'
<1>1. PICK decode \in DecodeFamily : devices' = Append(devices, SharedDevice(decode))
  BY DEF OpenShared
<1>2. /\ pc[t] = "open_shared" /\ Refuses("driver") /\ Goto(t, "opened")
      /\ UNCHANGED <<machine, locks, panics, asked, want>>
  BY DEF OpenShared
<1>3. SharedDevice(decode) \in Opened /\ Sound(SharedDevice(decode))
  BY <1>2, SharedIsSound DEF IInv, Types
<1>4. want[t] = "shared" /\ SharedDevice(decode).of = "shared"
  BY <1>2 DEF IInv, Locks, Asks, SharedDevice
<1> QED
  BY <1>1, <1>2, <1>3, <1>4, OpensKeep, OpensSound DEF IInv

LEMMA OpenKeeps ==
  ASSUME IInv, NEW t \in Threads, Open(t)
  PROVE  IInv'
<1> DEFINE d == IF want[t] = "compute" /\ machine.vulkan THEN ComputeDevice ELSE PlainDevice(want[t])
<1>1. /\ devices' = Append(devices, d) /\ pc[t] = "open" /\ Goto(t, "opened")
      /\ UNCHANGED <<machine, locks, panics, asked, want>>
  BY DEF Open
<1>2. want[t] \in {"shared", "compute"}
  BY <1>1 DEF IInv, Types, Locks, Asks, Negotiating, Cells
<1>3. d \in Opened /\ Sound(d) /\ d.of = want[t]
  BY <1>2, ComputeIsSound, PlainIsSound DEF IInv, Types
<1> QED
  BY <1>1, <1>3, OpensKeep, OpensSound DEF IInv

LEMMA InvKeeps ==
  ASSUME IInv, [Next]_vars
  PROVE  IInv'
<1> USE DEF locks
<1>1. ASSUME NEW t \in Threads, Pin(t) \/ FindAdapter(t) \/ Lock(t) \/ SharedRefused(t)
      PROVE  IInv'
  <2> USE DEF IInv
  <2>1. PICK p \in Negotiating \ {"opened"} :
          /\ Goto(t, p) /\ pc[t] \in Negotiating \ {"opened"}
          /\ p = "open_shared" => want[t] = "shared"
          /\ pinned' \in BOOLEAN /\ (pinned => pinned') /\ (p # "pin" => pinned')
          /\ creating' \in SUBSET Threads
          /\ \/ UNCHANGED creating /\ (p \in Creating => pc[t] \in Creating)
             \/ creating = {} /\ creating' = {t}
          /\ UNCHANGED <<machine, cell, devices, panics, asked, want>>
    BY <1>1 DEF Pin, FindAdapter, Lock, SharedRefused, Negotiating, Creating, Types, Locks, InPinned, Goto
  <2> QED
    BY <2>1, MovesKeep, SoundnessStays
<1>2. ASSUME NEW t \in Threads, PinFails(t) \/ NoAdapter(t) \/ OpenEnds(t)
      PROVE  IInv'
  <2> USE DEF IInv
  <2>1. PICK answer \in {"some", "none"} :
          /\ Settle(t, answer) /\ pc[t] \in Negotiating
          /\ answer = "some" <=> pc[t] = "opened"
          /\ UNCHANGED creating \/ (pc[t] \in Creating /\ creating' = creating \ {t})
          /\ UNCHANGED <<machine, pinned, devices, panics, asked, want>>
    BY <1>2 DEF PinFails, NoAdapter, OpenEnds, Negotiating, Creating
  <2> QED
    BY <2>1, SettleKeeps, SoundnessStays
<1>3. ASSUME NEW t \in Threads, Call(t) \/ Found(t) \/ Start(t) \/ Decide(t) \/ Unwind(t)
      PROVE  IInv'
  <2>1. UNCHANGED <<machine, devices>>
    BY <1>3 DEF Call, Found, Start, Decide, Unwind
  <2> QED
    BY <1>3, <2>1, CallKeeps, FoundKeeps, StartKeeps, DecideKeeps, UnwindKeeps, SoundnessStays DEF IInv
<1>4. CASE UNCHANGED vars
  <2>1. Types' /\ AllSound'
    BY <1>4, SoundnessStays DEF vars, IInv, Types, Opened, Families
  <2>2. Locks'
    BY <1>4 DEF vars, IInv, Locks, Asks, OneFiller, Fills, OneCreator, InPinned, Exist, HasDevice, Unique, AutoDecided
  <2> QED
    BY <2>1, <2>2 DEF IInv
<1> QED
  BY <1>1, <1>2, <1>3, <1>4, OpenSharedKeeps, OpenKeeps DEF Next, Step

(* The invariant holds of every behaviour. *)
THEOREM Invariant == Spec => []IInv
<1>1. Init => IInv
  BY InvStarts
<1>2. IInv /\ [Next]_vars => IInv'
  BY InvKeeps
<1> QED
  BY <1>1, <1>2, PTL DEF Spec

-----------------------------------------------------------------------------
(* What the run checks, for every set of threads and every adapter.        *)

(* Each device is negotiated once, in a pinned module, by one thread at a  *)
(* time: the filler of a lock is unique and opens a device only where      *)
(* there is none, and a panic comes before its device exists.              *)
THEOREM NegotiatedOnce == Spec => []OneNegotiation
<1>1. ASSUME IInv PROVE OneNegotiation
  <2> USE <1>1 DEF IInv, Locks
  <2>1. Cardinality({t \in Threads : pc[t] \in Creating}) <= 1
    <3> DEFINE C == {t \in Threads : pc[t] \in Creating}
    <3>1. CASE C = {}
      BY <3>1, FS_EmptySet
    <3>2. CASE C # {}
      <4>1. PICK t \in Threads : pc[t] \in Creating
        BY <3>2
      <4>2. C = {t}
        BY <4>1 DEF OneCreator
      <4>3. Cardinality({t}) = 1
        BY FS_Singleton
      <4> QED
        BY <4>2, <4>3
    <3> QED
      BY <3>1, <3>2
  <2>2. \A c \in {"shared", "compute"} : cell[c] = "some" => \E i \in DOMAIN devices : devices[i].of = c
    BY DEF Exist, HasDevice
  <2>3. /\ \A i, j \in DOMAIN devices : devices[i].of = devices[j].of => i = j
        /\ devices # <<>> => pinned
        /\ cell["auto"] = "some" => cell["compute"] = "some" /\ ~machine.software
    BY DEF Unique, InPinned, AutoDecided
  <2> QED
    BY <2>1, <2>2, <2>3 DEF OneNegotiation, Creating
<1> QED
  BY <1>1, Invariant, PTL

(* No two users of a device submit to one queue, no queue is handed out    *)
(* that was not asked for, and a reader of decoded pictures gets a queue   *)
(* of its own wherever the adapter has one: whatever its families are.     *)
THEOREM QueuesStayOwn == Spec => []QueuesAreOwn
<1>1. IInv => QueuesAreOwn
  BY DEF IInv, AllSound, Sound, QueuesAreOwn
<1> QED
  BY <1>1, Invariant, PTL
=============================================================================
