-------------------------------- MODULE Gate --------------------------------
(***************************************************************************)
(* The admission gate of src/pool.rs: Gate, Permit and OwnedPermit.        *)
(*                                                                         *)
(* A gate is a mutex around a count of free permits and one condition      *)
(* variable.  Two kinds of thread wait on that one variable: a Blocker     *)
(* calls enter or enter_owned and sleeps with no timeout; a Poller calls   *)
(* enter_until, sleeps for at most 10 ms at a time, and asks its           *)
(* keep_waiting closure, outside the lock, before every attempt.           *)
(*                                                                         *)
(* Everything a thread does between taking the mutex and releasing it is   *)
(* one step.  pc[t] says where thread t is:                                *)
(*   "outside"  it holds no permit and asks for none                       *)
(*   "check"    about to ask keep_waiting (Pollers only)                   *)
(*   "lock"     about to look at the count under the mutex                 *)
(*   "asleep"   in the condition variable's wait set                       *)
(*   "inside"   it holds a permit                                          *)
(***************************************************************************)
EXTENDS Naturals, FiniteSets

CONSTANTS
  Blockers,    \* threads that enter with no way to give up
  Pollers,     \* threads that enter_until
  Cancellers,  \* the Pollers whose keep_waiting may answer FALSE
  Permits      \* the argument of Gate::new

ASSUME GateAssumption ==
  /\ IsFiniteSet(Blockers)
  /\ IsFiniteSet(Pollers)
  /\ Blockers \cap Pollers = {}
  /\ Cancellers \subseteq Pollers
  /\ Permits \in Nat

VARIABLES
  free,      \* the count under the mutex
  pc,        \* where each thread is
  cancelled  \* history: some enter_until has returned None

vars == <<free, pc, cancelled>>

Threads == Blockers \cup Pollers

At(l) == {t \in Threads : pc[t] = l}
Asleep == At("asleep")
Inside == At("inside")
Awake == At("check") \cup At("lock")  \* will look at the count, or give up

(* Gate::new: a gate admits at least one job. *)
Size == IF Permits = 0 THEN 1 ELSE Permits

(* Where a sleeper resumes: cv.wait re-takes the mutex and re-reads the    *)
(* count, enter_until goes round its loop.                                 *)
Resume(t) == IF t \in Blockers THEN "lock" ELSE "check"

Goto(t, l) == pc' = [pc EXCEPT ![t] = l]

-----------------------------------------------------------------------------
Init ==
  /\ free = Size
  /\ pc = [t \in Threads |-> "outside"]
  /\ cancelled = FALSE

Arrive(t) ==
  /\ pc[t] = "outside"
  /\ Goto(t, Resume(t))
  /\ UNCHANGED <<free, cancelled>>

KeepWaiting(t) ==
  /\ pc[t] = "check"
  /\ Goto(t, "lock")
  /\ UNCHANGED <<free, cancelled>>

(* Faulty variant: the permit guard is built before keep_waiting is asked, *)
(* so giving up drops it.                                                  *)
GiveUpDropsPermit(t) ==
  /\ t \in Cancellers
  /\ pc[t] = "check"
  /\ Goto(t, "outside")
  /\ cancelled' = TRUE
  /\ free' = free + 1

(* keep_waiting answered FALSE: enter_until returns None. *)
GiveUp(t) ==
  /\ t \in Cancellers
  /\ pc[t] = "check"
  /\ Goto(t, "outside")
  /\ cancelled' = TRUE
  /\ UNCHANGED free

(* Faulty variant: wait_free waits once (if) instead of in a loop (while), *)
(* and takes a permit that a third thread took first.                      *)
TakeUnchecked(t) ==
  /\ pc[t] = "lock"
  /\ free' = free - 1
  /\ Goto(t, "inside")
  /\ UNCHANGED cancelled

Take(t) ==
  /\ pc[t] = "lock"
  /\ free # 0
  /\ free' = free - 1
  /\ Goto(t, "inside")
  /\ UNCHANGED cancelled

Sleep(t) ==
  /\ pc[t] = "lock"
  /\ free = 0
  /\ Goto(t, "asleep")
  /\ UNCHANGED <<free, cancelled>>

(* The 10 ms of wait_timeout passed without a notification. *)
TimeOut(t) ==
  /\ t \in Pollers
  /\ pc[t] = "asleep"
  /\ Goto(t, "check")
  /\ UNCHANGED <<free, cancelled>>

(* A condition variable may wake a thread nobody notified. *)
SpuriousWake(t) ==
  /\ t \in Blockers
  /\ pc[t] = "asleep"
  /\ Goto(t, "lock")
  /\ UNCHANGED <<free, cancelled>>

(* Faulty variant: the permit is counted and no sleeper is notified. *)
LeaveUnnotified(t) ==
  /\ pc[t] = "inside"
  /\ free' = free + 1
  /\ Goto(t, "outside")
  /\ UNCHANGED cancelled

(* A permit is dropped: count it and notify_one, which wakes any one       *)
(* sleeper or, with none, nobody.                                          *)
Leave(t) ==
  /\ pc[t] = "inside"
  /\ free' = free + 1
  /\ \/ /\ Asleep = {}
        /\ Goto(t, "outside")
     \/ \E w \in Asleep :
          pc' = [pc EXCEPT ![t] = "outside", ![w] = Resume(w)]
  /\ UNCHANGED cancelled

Next ==
  \E t \in Threads :
    \/ Arrive(t) \/ KeepWaiting(t) \/ GiveUp(t)
    \/ Take(t) \/ Sleep(t) \/ TimeOut(t) \/ SpuriousWake(t) \/ Leave(t)

(***************************************************************************)
(* A started thread runs on and a wait with a timeout ends; an admitted    *)
(* job drops its permit sooner or later.  Nothing obliges a thread to      *)
(* arrive, a closure to answer FALSE, or a wait to end spuriously.         *)
(***************************************************************************)
Fairness ==
  \A t \in Threads :
    /\ WF_vars(KeepWaiting(t) \/ GiveUp(t))
    /\ WF_vars(Take(t) \/ Sleep(t))
    /\ WF_vars(TimeOut(t))
    /\ WF_vars(Leave(t))

Spec == Init /\ [][Next]_vars

FairSpec == Spec /\ Fairness

-----------------------------------------------------------------------------
TypeOK ==
  /\ free \in Nat
  /\ pc \in [Threads -> {"outside", "check", "lock", "asleep", "inside"}]
  /\ cancelled \in BOOLEAN

(* Every permit is either free or held by exactly one admitted job: no     *)
(* interleaving of arrivals, timeouts, cancellations and drops loses or    *)
(* mints one (enter, enter_until, leave and the two Drop impls), and free, *)
(* a usize, never underflows. Includes the types.                          *)
PermitsConserved == TypeOK /\ free + Cardinality(Inside) = Size

(* While a thread sleeps, every free permit has a thread of its own on the *)
(* way to look at the count: leave's single notify_one is enough as long   *)
(* as no notified waiter walks away.                                       *)
NoStrandedPermit ==
  cancelled \/ Asleep = {} \/ free <= Cardinality(Awake)

(* Until a waiter gives up, a thread blocked in enter does not stay asleep *)
(* while a permit stays free.                                              *)
ReleasedUnlessCancelled ==
  \A b \in Blockers :
    (pc[b] = "asleep" /\ free # 0 /\ ~cancelled)
      ~> (pc[b] # "asleep" \/ free = 0 \/ cancelled)

(* The documented contract of enter, with no exception for the waiters     *)
(* beside it: "Wait until a job may run, and admit it".                    *)
BlockedIsReleased ==
  \A b \in Blockers :
    (pc[b] = "asleep" /\ free # 0) ~> (pc[b] # "asleep" \/ free = 0)
=============================================================================
