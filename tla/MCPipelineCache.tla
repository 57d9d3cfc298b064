--------------------------- MODULE MCPipelineCache ---------------------------
(* Instances of PipelineCache for TLC. *)
EXTENDS PipelineCache, TLC

CONSTANTS p1, p2, c1, c2, t1, t2, t3, sa, sb

(* One device in each process; the first is used by two threads. *)
OnePerProcess == [c \in Caches |-> IF c = c1 THEN p1 ELSE p2]

(* shared_device and compute_device of one process, on one adapter. *)
BothInOne == [c \in Caches |-> p1]

MCCacheOf == [t \in Threads |-> IF t = t3 THEN c2 ELSE c1]

(* The threads of the first device, and the shaders, are interchangeable. *)
Symmetry == Permutations({t1, t2}) \cup Permutations(Shaders)
=============================================================================
