---------------------------- MODULE MCResourcePool ----------------------------
(***************************************************************************)
(* An instance of ResourcePool for TLC, and what put, evict and set_budget *)
(* amount to when nobody interferes: a history variable remembers the idle *)
(* list each call began with, until another thread changes the pool.       *)
(***************************************************************************)
EXTENDS ResourcePool

CONSTANTS a1, a2, b1, c1, ka, kb, kc

MCKeyOf == [r \in Items |-> IF r \in {a1, a2} THEN ka ELSE IF r = b1 THEN kb ELSE kc]
MCSizeOf == [k \in Keys |-> IF k = ka THEN 1 ELSE IF k = kb THEN 2 ELSE 3]

VARIABLE before  \* the idle list when t's call began, or Disturbed

Disturbed == <<"disturbed">>

MCInit == PoolInit /\ before = [t \in Threads |-> <<>>]

Before(t) ==
  IF call'[t] = NoCall THEN <<>>
  ELSE IF Free(t) THEN idle
  ELSE IF call[t] = call'[t] /\ <<idle, budget>>' # <<idle, budget>> THEN Disturbed
  ELSE before[t]

MCNext == PoolNext /\ before' = [t \in Threads |-> Before(t)]

MCSpec == MCInit /\ [][MCNext]_<<poolVars, before>>
            /\ \A t \in Threads : WF_poolVars(PoolStep(t))

-----------------------------------------------------------------------------
(* The longest new end of a list that satisfies a bound. *)
Newest(s, Ok(_)) ==
  LET from == CHOOSE i \in 1..(Len(s) + 1) :
                /\ Ok(SubSeq(s, i, Len(s))) \/ i = Len(s) + 1
                /\ \A j \in 1..(i - 1) : ~Ok(SubSeq(s, j, Len(s)))
  IN SubSeq(s, from, Len(s))

(* What a least-recently-returned cache is after one return: as much of    *)
(* the newest as leaves room for the new item, or all of it if that item   *)
(* can never fit.                                                          *)
Lru(s, r) ==
  IF Bytes(r) > budget \/ MaxEntries = 0 THEN s
  ELSE Append(Newest(s, LAMBDA e : SumOf(e) + Bytes(r) <= budget /\ Len(e) < MaxEntries), r)

(* An undisturbed put evicts the oldest items, no more than it must, and   *)
(* keeps what it was given: "evicting the least recently returned ones     *)
(* beyond the budget; one larger than the whole budget is dropped".  An    *)
(* undisturbed evict frees, from the oldest on, what it was asked for, or  *)
(* everything, and stops at the first item that makes it enough.           *)
UndisturbedIsLru ==
  [][\A t \in Threads : before[t] # Disturbed =>
       /\ PutEnds(t) => idle' = Lru(IF call[t].op = "put" THEN idle ELSE before[t], call[t].item)
       /\ EvictEnds(t) =>
            idle' = Newest(before[t], LAMBDA e : SumOf(before[t]) - SumOf(e) >= call[t].need)]_poolVars
=============================================================================
