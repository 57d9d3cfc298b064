----------------------------- MODULE Submissions -----------------------------
(***************************************************************************)
(* Submitting and waiting: submit, wait, map_read, Notify, block and       *)
(* Validation of src/wait.rs.                                              *)
(*                                                                         *)
(* Every thread makes one request of its own (a plain submission, one      *)
(* under error scopes, or a map_async) and then waits for its own or,      *)
(* since a Submission can be cloned, for another's, or drops it.  A waiter *)
(* polls the device itself, and nobody polls for it: the callbacks that    *)
(* are due run inside that poll or inside some thread's submit.  A request *)
(* is named by the thread that makes it.  A step ends where a lock is      *)
(* released or the driver is called.                                       *)
(***************************************************************************)
EXTENDS Naturals, FiniteSets

CONSTANTS
  Threads,
  Mixes     \* which requests meet: the kinds the threads may have together

Kinds == {"plain", "checked", "map"}

ASSUME SubmissionsAssumption ==
  /\ IsFiniteSet(Threads)
  /\ Mixes \subseteq [Threads -> Kinds]

VARIABLES
  pc,        \* where each thread is
  kind,      \* what each thread requests
  bind,      \* {the thread that holds BIND}, or {}
  tail,      \* submissions on the queue
  done,      \* how many of them have retired
  at,        \* the position of each request's commands; 0 before
  callback,  \* each request's Notify: its phase, the position it waits for, what
             \* finish reports, Option timed, and {the thread that runs it}
  inFlight,  \* SubmitStats.in_flight of the one label
  signal,    \* each request's recorded outcome
  scope,     \* what the error scopes of a request will say
  validation,\* ValidationState: {the thread that took the future}, and the outcome
  target,    \* the request each thread waits for
  result     \* what the wait returned

gpu == <<tail, done, at>>
waiting == <<kind, validation, target, result>>
vars == <<pc, bind, gpu, callback, inFlight, signal, scope, waiting>>

Timed(s) == kind[s] # "map"

(* Where block starts each round: the error scopes come before the signal. *)
Look(s) == IF kind[s] = "checked" THEN "validate" ELSE "observe"

(* t is inside a callback, that of another's request or of its own.        *)
Busy(t) == \E s \in Threads : t \in callback[s].runner

Goto(t, p) == pc' = [pc EXCEPT ![t] = p]

Return(t, r) ==
  /\ result' = [result EXCEPT ![t] = r]
  /\ Goto(t, "end")

Init ==
  /\ pc = [t \in Threads |-> "idle"]
  /\ kind \in Mixes
  /\ bind = {}
  /\ tail = 0 /\ done = 0 /\ at = [t \in Threads |-> 0]
  /\ callback = [t \in Threads |-> [phase |-> "none", bound |-> 0, says |-> "none",
                                  timed |-> Timed(t), runner |-> {}]]
  /\ inFlight = 0
  /\ signal = [t \in Threads |-> "none"]
  /\ scope = [t \in Threads |-> IF kind[t] = "checked" THEN "open" ELSE "ok"]
  /\ validation = [t \in Threads |-> [taken |-> {}, outcome |-> "none"]]
  /\ target = [t \in Threads |-> t]
  /\ result = [t \in Threads |-> "none"]

-----------------------------------------------------------------------------
(* The environment. *)

GpuRetires ==
  /\ done < tail
  /\ done' = done + 1
  /\ UNCHANGED <<pc, bind, tail, at, callback, inFlight, signal, scope, waiting>>

(* The driver's verdict on the commands of s, some time after they went    *)
(* out.                                                                    *)
ScopeSettles(s) ==
  /\ scope[s] = "open"
  /\ at[s] # 0
  /\ \E verdict \in {"ok", "rejected"} : scope' = [scope EXCEPT ![s] = verdict]
  /\ UNCHANGED <<pc, bind, gpu, callback, inFlight, signal, waiting>>

-----------------------------------------------------------------------------
(* submit_to and map_read. *)

(* The submission is counted before its Notify exists.                     *)
Count(t) ==
  /\ pc[t] = "idle" /\ Timed(t)
  /\ inFlight' = inFlight + 1
  /\ callback' = [callback EXCEPT ![t].phase = "made"]
  /\ Goto(t, "counted")
  /\ UNCHANGED <<bind, gpu, signal, scope, waiting>>

(* Faulty variant: BIND is not taken.                                      *)
SubmitUnbound(t) ==
  /\ pc[t] = "counted"
  /\ tail' = tail + 1
  /\ at' = [at EXCEPT ![t] = tail']
  /\ Goto(t, "submitted")
  /\ UNCHANGED <<bind, done, callback, inFlight, signal, scope, waiting>>

(* queue.submit with BIND held.                                            *)
Submit(t) ==
  /\ pc[t] = "counted"
  /\ bind = {}
  /\ bind' = {t}
  /\ tail' = tail + 1
  /\ at' = [at EXCEPT ![t] = tail']
  /\ Goto(t, "submitted")
  /\ UNCHANGED <<done, callback, inFlight, signal, scope, waiting>>

(* A panic before or after the commands went out: BIND is released, then   *)
(* the Notify is dropped uncalled by the unwinding thread.                 *)
Unwind(t) ==
  /\ \/ pc[t] = "counted" /\ bind = {}
     \/ pc[t] = "submitted" /\ ~Busy(t)
  /\ bind' = bind \ {t}
  /\ callback' = [callback EXCEPT ![t].phase = "finish", ![t].says = "dropped", ![t].runner = {t}]
  /\ Goto(t, "unwinding")
  /\ UNCHANGED <<gpu, inFlight, signal, scope, waiting>>

(* on_submitted_work_done waits for whatever was submitted last.           *)
Register(t) ==
  /\ pc[t] = "submitted" /\ ~Busy(t)
  /\ callback' = [callback EXCEPT ![t].phase = "registered", ![t].bound = tail]
  /\ bind' = bind \ {t}
  /\ Goto(t, "ready")
  /\ UNCHANGED <<gpu, inFlight, signal, scope, waiting>>

(* map_async waits for the last use of the buffer, here the last           *)
(* submission; map_read then blocks on a signal nobody else holds.         *)
MapAsync(t) ==
  /\ pc[t] = "idle" /\ ~Timed(t)
  /\ callback' = [callback EXCEPT ![t].phase = "registered", ![t].bound = tail]
  /\ at' = [at EXCEPT ![t] = tail]
  /\ Goto(t, "observe")
  /\ UNCHANGED <<bind, tail, done, inFlight, signal, scope, waiting>>

-----------------------------------------------------------------------------
(* Notify.  finish first takes the time, then records the outcome and      *)
(* wakes the waiters.  A callback that was called finishes once more when  *)
(* it is dropped.                                                          *)

Runs(t, s, phase) == t \in callback[s].runner /\ callback[s].phase = phase

(* Faulty variant: the time is read but not taken.                         *)
TakeTimeKeeps(t, s) ==
  /\ Runs(t, s, "finish")
  /\ inFlight' = IF callback[s].timed /\ inFlight > 0 THEN inFlight - 1 ELSE inFlight
  /\ callback' = [callback EXCEPT ![s].phase = "record"]
  /\ UNCHANGED <<pc, bind, gpu, signal, scope, waiting>>

TakeTime(t, s) ==
  /\ Runs(t, s, "finish")
  /\ inFlight' = IF callback[s].timed /\ inFlight > 0 THEN inFlight - 1 ELSE inFlight
  /\ callback' = [callback EXCEPT ![s].phase = "record", ![s].timed = FALSE]
  /\ UNCHANGED <<pc, bind, gpu, signal, scope, waiting>>

(* After the first finish of a called Notify comes its drop.               *)
Finished(s) ==
  IF callback[s].says = "dropped"
  THEN [callback EXCEPT ![s].phase = "gone", ![s].runner = {}]
  ELSE [callback EXCEPT ![s].phase = "finish", ![s].says = "dropped"]

Woken(s) == [u \in Threads |-> IF pc[u] = "asleep" /\ target[u] = s THEN Look(s) ELSE pc[u]]

(* Faulty variant: the last outcome stays.                                 *)
RecordLast(t, s) ==
  /\ Runs(t, s, "record")
  /\ signal' = [signal EXCEPT ![s] = callback[s].says]
  /\ callback' = Finished(s)
  /\ pc' = Woken(s)
  /\ UNCHANGED <<bind, gpu, inFlight, scope, waiting>>

Record(t, s) ==
  /\ Runs(t, s, "record")
  /\ signal' = [signal EXCEPT ![s] = IF @ = "none" THEN callback[s].says ELSE @]
  /\ callback' = Finished(s)
  /\ pc' = Woken(s)
  /\ UNCHANGED <<bind, gpu, inFlight, scope, waiting>>

-----------------------------------------------------------------------------
(* wait: choose a submission, then block on it. *)

Submitted(s) ==
  /\ Timed(s)
  /\ pc[s] \notin {"idle", "counted", "submitted", "unwinding"}
  /\ result[s] # "panicked"

Unwound(t) ==
  /\ pc[t] = "unwinding" /\ ~Busy(t)
  /\ Return(t, "panicked")
  /\ UNCHANGED <<bind, gpu, callback, inFlight, signal, scope, kind, validation, target>>

Wait(t) ==
  /\ pc[t] = "ready"
  /\ \E s \in Threads :
       /\ Submitted(s)
       /\ target' = [target EXCEPT ![t] = s]
       /\ Goto(t, Look(s))
  /\ UNCHANGED <<bind, gpu, callback, inFlight, signal, scope, kind, validation, result>>

Forget(t) ==
  /\ pc[t] = "ready"
  /\ Return(t, "unasked")
  /\ UNCHANGED <<bind, gpu, callback, inFlight, signal, scope, kind, validation, target>>

(* Validation::poll: a settled outcome is returned as it is; a future that *)
(* another waiter took out counts as pending; else this one takes it.      *)
Settled(t, outcome) == IF outcome = "ok" THEN Goto(t, "observe") /\ UNCHANGED result
                       ELSE Return(t, outcome)

(* Faulty variant: a future another waiter took out counts as accepted.    *)
ValidateBusyPasses(t) ==
  /\ pc[t] = "validate"
  /\ LET v == validation[target[t]] IN
       \/ /\ v.outcome # "none" /\ Settled(t, v.outcome)
          /\ UNCHANGED validation
       \/ /\ v.outcome = "none" /\ v.taken # {} /\ Goto(t, "observe")
          /\ UNCHANGED <<validation, result>>
       \/ /\ v.outcome = "none" /\ v.taken = {} /\ Goto(t, "ask")
          /\ validation' = [validation EXCEPT ![target[t]].taken = {t}]
          /\ UNCHANGED result
  /\ UNCHANGED <<bind, gpu, callback, inFlight, signal, scope, kind, target>>

Validate(t) ==
  /\ pc[t] = "validate"
  /\ LET v == validation[target[t]] IN
       \/ /\ v.outcome # "none" /\ Settled(t, v.outcome)
          /\ UNCHANGED validation
       \/ /\ v.outcome = "none" /\ v.taken # {} /\ Goto(t, "poll")
          /\ UNCHANGED <<validation, result>>
       \/ /\ v.outcome = "none" /\ v.taken = {} /\ Goto(t, "ask")
          /\ validation' = [validation EXCEPT ![target[t]].taken = {t}]
          /\ UNCHANGED result
  /\ UNCHANGED <<bind, gpu, callback, inFlight, signal, scope, kind, target>>

(* The future is polled outside the lock; what it says, a panic of its own *)
(* included, is stored under it.                                           *)
Ask(t) ==
  /\ pc[t] = "ask"
  /\ LET s == target[t] IN
       \/ /\ scope[s] = "open" /\ Goto(t, "poll")
          /\ validation' = [validation EXCEPT ![s].taken = {}]
          /\ UNCHANGED result
       \/ \E outcome \in ({scope[s]} \ {"open"}) \cup {"rejected"} :
            /\ validation' = [validation EXCEPT ![s] = [taken |-> {}, outcome |-> outcome]]
            /\ Settled(t, outcome)
  /\ UNCHANGED <<bind, gpu, callback, inFlight, signal, scope, kind, target>>

Observe(t) ==
  /\ pc[t] = "observe"
  /\ LET outcome == signal[target[t]] IN
       IF outcome = "none" THEN Goto(t, "poll") /\ UNCHANGED result
                           ELSE Return(t, outcome)
  /\ UNCHANGED <<bind, gpu, callback, inFlight, signal, scope, kind, validation, target>>

Due(s) == callback[s].phase = "registered" /\ callback[s].bound <= done

(* A poll calls what is due, one callback after the other, and so may a    *)
(* queue.submit while it holds BIND; of a device that is gone they are     *)
(* dropped instead.                                                        *)
Call(t, s) ==
  /\ pc[t] \in {"poll", "submitted"} /\ ~Busy(t)
  /\ callback[s].phase = "registered"
  /\ \E says \in {"dropped"} \cup (IF ~Due(s) THEN {} ELSE IF Timed(s) THEN {"ok"} ELSE {"ok", "unmapped"}) :
       callback' = [callback EXCEPT ![s].phase = "finish", ![s].says = says, ![s].runner = {t}]
  /\ UNCHANGED <<pc, bind, gpu, inFlight, signal, scope, waiting>>

PollFails(t) ==
  /\ pc[t] = "poll" /\ ~Busy(t)
  /\ Return(t, "poll")
  /\ UNCHANGED <<bind, gpu, callback, inFlight, signal, scope, kind, validation, target>>

Sleep(t) ==
  /\ pc[t] = "poll" /\ ~Busy(t)
  /\ \A s \in Threads : ~Due(s)
  /\ LET s == target[t] IN
       Goto(t, IF signal[s] = "none" \/ kind[s] = "checked" THEN "asleep" ELSE Look(s))
  /\ UNCHANGED <<bind, gpu, callback, inFlight, signal, scope, waiting>>

(* Faulty variant: wait instead of wait_timeout.                           *)
TimeoutNever(t) ==
  /\ pc[t] = "asleep" /\ signal[target[t]] # "none"
  /\ Goto(t, Look(target[t]))
  /\ UNCHANGED <<bind, gpu, callback, inFlight, signal, scope, waiting>>

Timeout(t) ==
  /\ pc[t] = "asleep"
  /\ Goto(t, Look(target[t]))
  /\ UNCHANGED <<bind, gpu, callback, inFlight, signal, scope, waiting>>

-----------------------------------------------------------------------------
Step(t) ==
  \/ Count(t) \/ Submit(t) \/ Unwind(t) \/ Register(t) \/ MapAsync(t)
  \/ \E s \in Threads : TakeTime(t, s) \/ Record(t, s) \/ Call(t, s)
  \/ Unwound(t) \/ Wait(t) \/ Forget(t)
  \/ Validate(t) \/ Ask(t) \/ Observe(t) \/ PollFails(t) \/ Sleep(t) \/ Timeout(t)

Next ==
  \/ \E t \in Threads : Step(t)
  \/ GpuRetires
  \/ \E s \in Threads : ScopeSettles(s)

Fairness ==
  /\ \A t \in Threads : WF_vars(Step(t))
  /\ WF_vars(GpuRetires)
  /\ \A s \in Threads : WF_vars(ScopeSettles(s))

Spec == Init /\ [][Next]_vars /\ Fairness

-----------------------------------------------------------------------------
Outcomes == {"none", "ok", "dropped", "unmapped"}

(* Every variable has its type; there are no more submissions than         *)
(* threads, and BIND has one holder at most.                               *)
TypeOK ==
  /\ pc \in [Threads -> {"idle", "counted", "submitted", "ready", "unwinding",
                         "validate", "ask", "observe", "poll", "asleep", "end"}]
  /\ kind \in Mixes
  /\ bind \in SUBSET Threads /\ Cardinality(bind) <= 1
  /\ tail \in 0 .. Cardinality(Threads) /\ done \in 0 .. tail
  /\ at \in [Threads -> 0 .. tail]
  /\ callback \in [Threads -> [phase : {"none", "made", "registered", "finish", "record", "gone"},
                               bound : 0 .. tail, says : Outcomes, timed : BOOLEAN,
                               runner : SUBSET Threads]]
  /\ inFlight \in 0 .. Cardinality(Threads)
  /\ signal \in [Threads -> Outcomes]
  /\ scope \in [Threads -> {"open", "ok", "rejected"}]
  /\ validation \in [Threads -> [taken : SUBSET Threads, outcome : {"none", "ok", "rejected"}]]
  /\ target \in [Threads -> Threads]
  /\ result \in [Threads -> (Outcomes \cup {"rejected", "poll", "panicked", "unasked"})]

(* A callback waits for its own commands, not for those of a submit that   *)
(* another thread slips in between queue.submit and the registration: what *)
(* BIND is for (wait.rs, submit_to).                                       *)
BoundToItself ==
  \A s \in Threads : callback[s].phase = "registered" => callback[s].bound = at[s]

(* in_flight counts the submissions that have no outcome yet, whatever     *)
(* path ends them: a callback that ran, one dropped uncalled, a submit     *)
(* that panicked.  Whoever sees an outcome finds the submission already    *)
(* taken off (Notify::finish).  Checked with the types.                    *)
InFlightIsExact ==
  /\ TypeOK
  /\ inFlight = Cardinality({s \in Threads : callback[s].phase # "none" /\ callback[s].timed})
  /\ \A s \in Threads : signal[s] # "none" => ~callback[s].timed

(* A wait that returns Ok speaks of a request whose commands have retired  *)
(* and whose error scopes accepted them, also when several waiters share   *)
(* the submission and pass its scope future around.                        *)
WaitTellsTruth ==
  \A t \in Threads :
    LET s == target[t] IN
    result[t] = "ok" => at[s] <= done /\ scope[s] = "ok" /\ (Timed(s) => at[s] > 0)

(* Two waiters on one submission return the same outcome, unless a poll of *)
(* their own failed: the first outcome stays.                              *)
WaitersAgree ==
  \A t, u \in Threads :
    /\ target[t] = target[u]
    /\ {result[t], result[u]} \cap {"none", "poll", "panicked", "unasked"} = {}
    => result[t] = result[u]

(* Every request ends and every wait returns: BIND comes free although a   *)
(* submit may unwind under it, and the condition variable alone would not  *)
(* do, since callbacks run only when somebody polls and a settled error    *)
(* scope notifies nobody (submit_to, block's wait_timeout).                *)
RequestsReturn == \A t \in Threads : pc[t] # "idle" ~> pc[t] = "end"
=============================================================================
