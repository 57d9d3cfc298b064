------------------------------- MODULE Cards -------------------------------
(***************************************************************************)
(* The machine the memory figures are about: its graphics cards, and the   *)
(* interfaces of the system that answer for them.  All of it is outside    *)
(* the repository.  A machine says what is built in and which threads of   *)
(* the process do what (see MCCardMemory); `card` is what other processes  *)
(* and the user change, and `up` is the set of interfaces that answer.     *)
(* Memory is counted in MiB.                                               *)
(***************************************************************************)
EXTENDS Integers, Sequences, FiniteSets, FiniteSetsExt

CONSTANTS
  Threads,
  Machines,     \* the machines considered
  MaxChanges    \* bound: how often the machine changes

(* What is built into a card: its memory, the memory other processes spill *)
(* and this one owns, what the DRM and IOKit publish of it, the engines    *)
(* other processes keep busy, and the heaps of its Vulkan device.          *)
CardDescs ==
  [name : [vendor : STRING, model : STRING], software : BOOLEAN,
   dedicated : Nat, shared : Nat, spill : Nat, own : Nat, workingSet : Nat,
   published : SUBSET STRING, classes : SUBSET STRING,
   work : Seq([engine : STRING, value : Nat]), heaps : Seq([local : BOOLEAN, size : Nat])]

(* The list names each of the cards once. *)
EachOnce(list, cards) ==
  /\ list \in Seq(cards)
  /\ \A c \in cards : \E i \in DOMAIN list : list[i] = c
  /\ \A i, j \in DOMAIN list : list[i] = list[j] => i = j

(* NVIDIA's cards of one model are of one kind: all hardware, and with     *)
(* memory of their own or without.                                         *)
SameKind(c, d) ==
  (c.name = d.name /\ c.name.vendor = "nvidia") =>
    /\ c.software = d.software
    /\ c.dedicated = 0 <=> d.dedicated = 0
    /\ c.shared = 0 <=> d.shared = 0

ASSUME CardsAssumption ==
  /\ MaxChanges \in Nat
  /\ \A m \in Machines :
       /\ m.os \in {"windows", "linux", "macos"}
       /\ m.cards \in Seq(CardDescs)
       /\ \A c, d \in DOMAIN m.cards : SameKind(m.cards[c], m.cards[d])
       /\ EachOnce(m.order, DOMAIN m.cards) /\ EachOnce(m.pci, DOMAIN m.cards)
       /\ m.ram \in Nat /\ m.free \in Nat /\ m.free <= m.ram

VARIABLES
  machine,
  card,      \* card -> is it there, its LUID, the memory in use on it
  up,        \* the interfaces that answer at present
  changes    \* how often the machine has changed

world == <<machine, card, up, changes>>

(* An optional value is a sequence of at most one element. *)
None == <<>>
Some(v) == <<v>>
OrElse(option, default) == IF option = None THEN default ELSE option[1]

(* What a list has at the places kept, in their order. *)
Picked(list, kept) ==
  [k \in 1..Cardinality(kept) |-> list[CHOOSE i \in kept : Cardinality({j \in kept : j <= i}) = k]]

(* The part of a list that passes a test.  Each choice is from a set of    *)
(* one: TLC evaluates a list, and its places, once where they are bound.   *)
Filter(list, Ok(_)) ==
  LET Kept(s) == {i \in DOMAIN s : Ok(s[i])}
      Passed(s) == CHOOSE q \in {Picked(s, kept) : kept \in {Kept(s)}} : TRUE
  IN CHOOSE q \in {Passed(s) : s \in {list}} : TRUE

AtMost(a, b) == IF a < b THEN a ELSE b

(* u64::saturating_sub *)
Minus(a, b) == IF a > b THEN a - b ELSE 0

Cards == DOMAIN machine.cards
Desc(c) == machine.cards[c]

(* What a figure of the whole card is measured against: its own memory, or *)
(* the system memory it may address when it has none.                      *)
Unified(c) == Desc(c).dedicated = 0
Size(c) == IF Unified(c) THEN Desc(c).shared ELSE Desc(c).dedicated

CardsInit ==
  /\ machine \in Machines
  /\ card = [c \in Cards |-> [there |-> TRUE, luid |-> <<c, 0>>, used |-> 0]]
  /\ up = machine.interfaces
  /\ changes = 0

Change == changes < MaxChanges /\ changes' = changes + 1 /\ UNCHANGED machine

(* Other processes use more or less of a card. *)
Load(c) ==
  /\ Change
  /\ card[c].there
  /\ \E used \in {0, Size(c) \div 2, Size(c)} \ {card[c].used} : card' = [card EXCEPT ![c].used = used]
  /\ UNCHANGED up

(* A card is removed, or its driver stops. *)
Leave(c) ==
  /\ Change
  /\ card[c].there
  /\ card' = [card EXCEPT ![c].there = FALSE, ![c].used = 0]
  /\ UNCHANGED up

(* It comes back, and the system gives it a new LUID. *)
Return(c) ==
  /\ Change
  /\ ~card[c].there
  /\ card' = [card EXCEPT ![c].there = TRUE, ![c].luid = <<c, card[c].luid[2] + 1>>]
  /\ UNCHANGED up

(* An interface stops or starts to answer. *)
Falter(i) ==
  /\ Change
  /\ up' = IF i \in up THEN up \ {i} ELSE up \cup {i}
  /\ UNCHANGED card

Changes ==
  \/ \E c \in Cards : Load(c)
  \/ \E c \in Cards : Leave(c)
  \/ \E c \in Cards : Return(c)
  \/ \E i \in machine.falters : Falter(i)
=============================================================================
