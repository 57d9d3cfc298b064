----------------------------- MODULE MCResources -----------------------------
(***************************************************************************)
(* An instance of Resources for TLC: plain items of one byte, a staging    *)
(* buffer of two bytes and a readback buffer of one byte.  The history     *)
(* variable alone tells that since t began to evict for a prepare, nobody  *)
(* else touched the pool or the ledger.                                    *)
(***************************************************************************)
EXTENDS Resources, TLC

CONSTANTS t1, t2, p1, p2, s1, r1, plain, staging, readback

MCKeyOf == [r \in Items |-> IF r = s1 THEN staging ELSE IF r = r1 THEN readback ELSE plain]
MCSizeOf == [k \in {plain, staging, readback} |-> IF k = staging THEN 2 ELSE 1]
MCPlans == {<<plain>>, <<staging>>, <<plain, readback>>}
MCLimits == {{}, {1}, {2}}
Symmetry == Permutations(Threads) \cup Permutations({p1, p2})

VARIABLE alone

MCInit == Init /\ alone = [t \in Threads |-> FALSE]

Alone(t) ==
  /\ prep'[t].phase = "again"
  /\ prep[t].phase = "again" => alone[t]
  /\ <<call[t], prep[t]>>' # <<call[t], prep[t]>> \/ <<idle, ledger>>' = <<idle, ledger>>

MCNext == Next /\ alone' = [t \in Threads |-> Alone(t)]

MCSpec == MCInit /\ [][MCNext]_<<vars, alone>>

(* An undisturbed prepare is refused only after everything idle was given  *)
(* up for it: what it needs is in use, being remapped or over the limit.   *)
RefusedOnlyWhenFull ==
  [][\A t \in Threads :
       At(t, "again") /\ alone[t] /\ prep'[t].phase = "unwind" => idle = <<>>]_vars
=============================================================================
