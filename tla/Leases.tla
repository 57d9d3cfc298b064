-------------------------------- MODULE Leases --------------------------------
(***************************************************************************)
(* What WorkQueue promises to the owner of a WorkLease (the contract above *)
(* trait WorkLease and struct WorkQueue, src/wait/work.rs), with no queue, *)
(* no callbacks, no scopes and no recovery.                                *)
(*                                                                         *)
(* A job's leases are released exactly once: aborted before its commands   *)
(* could run, or completed after they can no longer run, or completed with *)
(* the loss of the device.  A success is reported only for work whose      *)
(* leases were told of its submission.                                     *)
(***************************************************************************)
CONSTANT Jobs

VARIABLES
  lease,      \* "recorded", then "aborted" or "held", then "ok", "failed" or "lost"
  committed,  \* the jobs whose leases were told: submitted
  running,    \* the jobs whose commands the GPU may still execute
  loss        \* the device is lost

vars == <<lease, committed, running, loss>>

Init ==
  /\ lease = [j \in Jobs |-> "recorded"]
  /\ committed = [j \in Jobs |-> FALSE]
  /\ running = {}
  /\ loss = FALSE

Move(j, from, to) == lease[j] = from /\ lease' = [lease EXCEPT ![j] = to]

Abort(j) == Move(j, "recorded", "aborted") /\ UNCHANGED <<committed, running, loss>>

Own(j) == Move(j, "recorded", "held") /\ UNCHANGED <<committed, running, loss>>

Start(j) ==
  /\ lease[j] = "held"
  /\ j \notin running
  /\ running' = running \cup {j}
  /\ UNCHANGED <<lease, committed, loss>>

Commit(j) ==
  /\ lease[j] = "held"
  /\ committed' = [committed EXCEPT ![j] = TRUE]
  /\ UNCHANGED <<lease, running, loss>>

Retire(j) == running' = running \ {j} /\ UNCHANGED <<lease, committed, loss>>

(* completed(Ok) *)
Succeed(j) ==
  /\ j \notin running
  /\ Move(j, "held", "ok")
  /\ committed' = [committed EXCEPT ![j] = TRUE]
  /\ UNCHANGED <<running, loss>>

(* completed(Err) of work that is known to have retired *)
Fail(j) ==
  /\ j \notin running
  /\ Move(j, "held", "failed")
  /\ UNCHANGED <<committed, running, loss>>

Lose == loss' = TRUE /\ UNCHANGED <<lease, committed, running>>

(* completed(Err(DeviceLost)) of everything held *)
Release ==
  /\ loss
  /\ lease' = [j \in Jobs |-> IF lease[j] = "held" THEN "lost" ELSE lease[j]]
  /\ UNCHANGED <<committed, running, loss>>

Next ==
  \/ \E j \in Jobs : \/ Abort(j) \/ Own(j) \/ Start(j) \/ Commit(j)
                     \/ Retire(j) \/ Succeed(j) \/ Fail(j)
  \/ Lose
  \/ Release

Spec == Init /\ [][Next]_vars
=============================================================================
