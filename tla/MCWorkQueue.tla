----------------------------- MODULE MCWorkQueue -----------------------------
(* Instances of WorkQueue for TLC. *)
EXTENDS WorkQueue

(* Safety runs only: jobs are interchangeable. *)
Symmetry == Permutations(Jobs)
=============================================================================
