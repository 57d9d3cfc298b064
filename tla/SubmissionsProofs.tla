-------------------------- MODULE SubmissionsProofs --------------------------
(***************************************************************************)
(* Theorems about Submissions for any finite set of threads and any mix of *)
(* requests: a callback waits for its own commands, in_flight is exact, a  *)
(* wait that returns Ok tells the truth, and waiters agree.                *)
(*                                                                         *)
(* The state falls in two halves.  RInv is about the request a thread      *)
(* makes, up to the outcome its Notify records; WInv is about the wait,    *)
(* which reads the outcome and the error scopes.                           *)
(***************************************************************************)
EXTENDS Submissions, FiniteSetTheorems, TLAPS

Places == {"idle", "counted", "submitted", "ready", "unwinding",
           "validate", "ask", "observe", "poll", "asleep", "end"}
Early == {"idle", "counted", "submitted"}
WaitPlaces == {"validate", "ask", "observe", "poll", "asleep", "end"}

Records == [phase : {"none", "made", "registered", "finish", "record", "gone"},
            bound : Nat, says : Outcomes, timed : BOOLEAN, runner : SUBSET Threads]

-----------------------------------------------------------------------------
(* The request. *)

RTypes ==
  /\ pc \in [Threads -> Places]
  /\ kind \in [Threads -> Kinds]
  /\ bind \in SUBSET Threads
  /\ tail \in Nat /\ done \in Nat /\ done <= tail
  /\ at \in [Threads -> Nat]
  /\ callback \in [Threads -> Records]
  /\ inFlight \in Nat
  /\ signal \in [Threads -> Outcomes]

(* Positions are those of submissions. *)
Positions == \A s \in Threads : at[s] <= tail /\ callback[s].bound <= tail

(* What there is of a request at each place of its thread's submit; with   *)
(* BIND held, nobody submits after it.                                     *)
Unborn == \A s \in Threads : pc[s] = "idle" => callback[s].phase = "none" /\ callback[s].timed = Timed(s)
Unsent == \A s \in Threads : pc[s] \in {"idle", "counted"} => at[s] = 0
Unanswered == \A s \in Threads : pc[s] \in Early => callback[s].says = "none" /\ signal[s] = "none"
Unregistered ==
  \A s \in Threads : pc[s] \in {"counted", "submitted"} => Timed(s) /\ callback[s].phase = "made"
Bound ==
  /\ \A s \in Threads : pc[s] = "submitted" => bind = {s} /\ at[s] = tail /\ tail > 0
  /\ bind # {} => \E s \in Threads : bind = {s} /\ pc[s] = "submitted"

(* A registered callback waits for commands that went out, its own; one    *)
(* that says Ok, and an outcome that does, speak of commands that retired. *)
Went(s) == Timed(s) => at[s] > 0
Registered == \A s \in Threads : callback[s].phase = "registered" => callback[s].bound = at[s] /\ Went(s)
OkRetired ==
  \A s \in Threads : callback[s].says = "ok" \/ signal[s] = "ok" => at[s] <= done /\ Went(s)

(* The time is taken before the outcome is recorded, and once; a map_async *)
(* is never timed.  What is about to be recorded is an outcome.            *)
Taken ==
  \A s \in Threads :
    /\ callback[s].phase \in {"record", "gone"} \/ signal[s] # "none" \/ ~Timed(s) => ~callback[s].timed
    /\ callback[s].phase \in {"finish", "record"} => callback[s].says # "none"

(* The counters. *)
Counted == {s \in Threads : callback[s].phase # "none" /\ callback[s].timed}
Sent == {s \in Threads : Timed(s) /\ at[s] # 0}
Counters == inFlight = Cardinality(Counted) /\ tail = Cardinality(Sent)

RInv == /\ RTypes /\ Positions /\ Unborn /\ Unsent /\ Unanswered /\ Unregistered /\ Bound
        /\ Registered /\ OkRetired /\ Taken /\ Counters

-----------------------------------------------------------------------------
(* The wait. *)

WTypes ==
  /\ kind \in Mixes
  /\ scope \in [Threads -> {"open", "ok", "rejected"}]
  /\ validation \in [Threads -> [taken : SUBSET Threads, outcome : {"none", "ok", "rejected"}]]
  /\ target \in [Threads -> Threads]
  /\ result \in [Threads -> (Outcomes \cup {"rejected", "poll", "panicked", "unasked"})]

Checked(s) == kind[s] = "checked"

(* Until it waits, a thread's request is its own; until it returns it has  *)
(* no result.                                                              *)
OwnFirst == \A t \in Threads : pc[t] \notin WaitPlaces => target[t] = t
NoResult == \A t \in Threads : pc[t] # "end" => result[t] = "none"

(* Only a checked submission has scopes to settle.  One waiter at a time   *)
(* holds its future, and none once there is an outcome.                    *)
Scopes == \A s \in Threads : (~Checked(s) => scope[s] = "ok") /\ (validation[s].outcome = "ok" => scope[s] = "ok")
Asking ==
  \A t \in Threads : pc[t] = "ask" =>
    Checked(target[t]) /\ validation[target[t]] = [taken |-> {t}, outcome |-> "none"]
Validating == \A t \in Threads : pc[t] = "validate" => Checked(target[t])

(* The scopes come before the signal. *)
Observing == \A t \in Threads : pc[t] = "observe" /\ Checked(target[t]) => validation[target[t]].outcome = "ok"

(* What a wait returned is what was recorded of its target. *)
Told ==
  \A t \in Threads :
    /\ result[t] \in {"ok", "dropped", "unmapped"} =>
         /\ signal[target[t]] = result[t]
         /\ Checked(target[t]) => validation[target[t]].outcome = "ok"
    /\ result[t] = "rejected" => Checked(target[t]) /\ validation[target[t]].outcome = "rejected"

WInv == /\ WTypes /\ OwnFirst /\ NoResult /\ Scopes /\ Asking /\ Validating /\ Observing /\ Told

IInv == RInv /\ WInv

-----------------------------------------------------------------------------
(* Initially. *)

LEMMA KindsKnown ==
  ASSUME kind \in Mixes
  PROVE  kind \in [Threads -> Kinds]
BY SubmissionsAssumption

LEMMA InvStarts ==
  ASSUME Init
  PROVE  IInv
<1>1. RTypes
  BY KindsKnown DEF Init, RTypes, Places, Records, Outcomes, Timed
<1>2. Positions /\ Unborn /\ Unsent /\ Unanswered /\ Unregistered /\ Bound
  BY DEF Init, Positions, Unborn, Unsent, Unanswered, Unregistered, Bound, Early
<1>3. Registered /\ OkRetired /\ Taken
  BY DEF Init, Registered, OkRetired, Taken
<1>4. Counters
  <2>1. Counted = {} /\ Sent = {}
    BY DEF Init, Counted, Sent
  <2> QED
    BY <2>1, FS_EmptySet DEF Init, Counters
<1>5. WTypes
  BY DEF Init, WTypes, Outcomes
<1>6. OwnFirst /\ NoResult /\ Scopes /\ Asking /\ Validating /\ Observing /\ Told
  BY DEF Init, OwnFirst, NoResult, Scopes, Asking, Validating, Observing, Told, Checked, WaitPlaces
<1> QED
  BY <1>1, <1>2, <1>3, <1>4, <1>5, <1>6 DEF IInv, RInv, WInv

-----------------------------------------------------------------------------
(* Frames: what a step of one half does to the other. *)

(* The request side does not care where a thread is in its wait.           *)
LEMMA RequestFrame ==
  ASSUME RInv, pc' \in [Threads -> Places],
         \A s \in Threads : pc'[s] = pc[s] \/ (pc[s] \notin Early /\ pc'[s] \notin Early),
         UNCHANGED <<kind, bind, gpu, callback, inFlight, signal>>
  PROVE  RInv'
<1> USE DEF RInv, gpu, Timed, Early
<1>1. RTypes' /\ Positions'
  BY DEF RTypes, Positions
<1>2. Unborn' /\ Unsent' /\ Unanswered' /\ Unregistered' /\ Bound'
  BY DEF Unborn, Unsent, Unanswered, Unregistered, Bound
<1>3. Registered' /\ OkRetired' /\ Taken'
  BY DEF Registered, OkRetired, Taken, Went
<1>4. Counters'
  BY DEF Counters, Counted, Sent
<1> QED
  BY <1>1, <1>2, <1>3, <1>4

(* The waits do not care how a request comes to its outcome, as long as    *)
(* an outcome stays and whoever begins to wait looks at the scopes first.  *)
LEMMA WaitFrame ==
  ASSUME WInv, UNCHANGED <<waiting, scope>>,
         \A s \in Threads : signal[s] # "none" => signal'[s] = signal[s],
         \A s \in Threads :
            \/ pc'[s] = pc[s]
            \/ pc[s] \notin WaitPlaces /\ pc'[s] \notin WaitPlaces
            \/ pc[s] # "end" /\ pc'[s] = Look(target[s])
  PROVE  WInv'
<1> USE DEF WInv, waiting, Checked, WaitPlaces
<1>1. WTypes' /\ Scopes'
  BY DEF WTypes, Scopes
<1>2. OwnFirst' /\ NoResult'
  BY DEF OwnFirst, NoResult, Look
<1>3. Asking' /\ Validating' /\ Observing'
  BY DEF Asking, Validating, Observing, Look
<1>4. Told'
  BY DEF Told, WTypes
<1> QED
  BY <1>1, <1>2, <1>3, <1>4

-----------------------------------------------------------------------------
(* The steps of the request. *)

LEMMA Sizes ==
  /\ IsFiniteSet(Counted) /\ Cardinality(Counted) \in Nat
  /\ IsFiniteSet(Sent) /\ Cardinality(Sent) \in Nat
<1>1. Counted \subseteq Threads /\ Sent \subseteq Threads
  BY DEF Counted, Sent
<1> QED
  BY <1>1, SubmissionsAssumption, FS_Subset, FS_CardinalityType

LEMMA CountKeeps ==
  ASSUME RInv, NEW t \in Threads, Count(t)
  PROVE  RInv'
<1> USE DEF RInv, Count, Goto, gpu, waiting, Timed
<1>1. /\ pc' = [pc EXCEPT ![t] = "counted"] /\ callback' = [callback EXCEPT ![t].phase = "made"]
      /\ pc[t] = "idle" /\ Timed(t) /\ inFlight' = inFlight + 1
      /\ UNCHANGED <<kind, bind, tail, done, at, signal>>
  OBVIOUS
<1>2. RTypes'
  BY <1>1 DEF RTypes, Places, Records
<1>3. /\ callback[t].phase = "none" /\ callback[t].timed
      /\ callback'[t] = [callback[t] EXCEPT !.phase = "made"]
      /\ \A s \in Threads : s # t => callback'[s] = callback[s] /\ pc'[s] = pc[s]
  BY <1>1 DEF Unborn, RTypes
<1>4. /\ callback'[t].phase = "made" /\ callback'[t].bound = callback[t].bound
      /\ callback'[t].says = callback[t].says /\ callback'[t].timed = callback[t].timed
  BY <1>3, ZenonT(60) DEF RTypes, Records
<1>5. pc'[t] = "counted"
  BY <1>1 DEF RTypes
<1> HIDE DEF Count
<1>6. Positions' /\ Unborn' /\ Unsent' /\ Unanswered' /\ Unregistered' /\ Bound'
  BY <1>1, <1>3, <1>4, <1>5 DEF Positions, Unborn, Unsent, Unanswered, Unregistered, Bound, Early, RTypes
<1>7. Registered' /\ OkRetired' /\ Taken'
  BY <1>1, <1>3, <1>4, <1>5 DEF Registered, OkRetired, Taken, Went, RTypes, Unanswered, Early
<1>8. Counters'
  <2>1. t \notin Counted /\ Counted' = Counted \cup {t}
    BY <1>1, <1>3, <1>4 DEF Counted
  <2>2. Sent' = Sent
    BY <1>1 DEF Sent
  <2> QED
    BY <1>1, <2>1, <2>2, Sizes, FS_AddElement DEF Counters
<1> QED
  BY <1>2, <1>6, <1>7, <1>8

LEMMA SubmitKeeps ==
  ASSUME RInv, NEW t \in Threads, Submit(t)
  PROVE  RInv'
<1> USE DEF RInv, gpu, waiting, Timed
<1>1. /\ pc' = [pc EXCEPT ![t] = "submitted"] /\ pc[t] = "counted" /\ bind = {} /\ bind' = {t}
      /\ tail' = tail + 1 /\ at' = [at EXCEPT ![t] = tail + 1]
      /\ UNCHANGED <<kind, done, callback, inFlight, signal>>
  BY DEF Submit, Goto
<1>2. RTypes'
  BY <1>1 DEF RTypes, Places
<1>3. /\ pc'[t] = "submitted" /\ at'[t] = tail + 1 /\ at[t] = 0 /\ tail \in Nat /\ Timed(t)
      /\ callback[t].phase = "made" /\ callback[t].says = "none" /\ signal[t] = "none"
      /\ \A s \in Threads : s # t => pc'[s] = pc[s] /\ at'[s] = at[s]
  BY <1>1 DEF RTypes, Unsent, Unregistered, Unanswered, Early
<1>4. \A s \in Threads : pc[s] # "submitted"
  BY <1>1 DEF Bound
<1>5. Positions' /\ Unborn' /\ Unsent' /\ Unanswered' /\ Unregistered' /\ Bound'
  BY <1>1, <1>3, <1>4 DEF Positions, Unborn, Unsent, Unanswered, Unregistered, Bound, Early, RTypes, Records
<1>6. Registered' /\ OkRetired' /\ Taken'
  BY <1>1, <1>3 DEF Registered, OkRetired, Taken, Went, RTypes
<1>7. Counters'
  <2>1. Counted' = Counted
    BY <1>1 DEF Counted
  <2>2. t \notin Sent /\ Sent' = Sent \cup {t}
    BY <1>1, <1>3 DEF Sent
  <2> QED
    BY <1>1, <2>1, <2>2, Sizes, FS_AddElement DEF Counters
<1> QED
  BY <1>2, <1>5, <1>6, <1>7

LEMMA UnwindKeeps ==
  ASSUME RInv, NEW t \in Threads, Unwind(t)
  PROVE  RInv'
<1> USE DEF RInv, gpu, waiting, Timed
<1>1. /\ (pc[t] = "counted" /\ bind = {}) \/ pc[t] = "submitted"
      /\ pc' = [pc EXCEPT ![t] = "unwinding"] /\ bind' = bind \ {t}
      /\ callback' = [callback EXCEPT ![t].phase = "finish", ![t].says = "dropped", ![t].runner = {t}]
      /\ UNCHANGED <<kind, tail, done, at, inFlight, signal>>
  BY DEF Unwind, Goto
<1>2. /\ pc'[t] = "unwinding" /\ Timed(t) /\ callback[t].phase = "made"
      /\ \A s \in Threads : s # t => callback'[s] = callback[s] /\ pc'[s] = pc[s]
  BY <1>1 DEF Unregistered, RTypes
<1>3. /\ callback'[t].phase = "finish" /\ callback'[t].bound = callback[t].bound
      /\ callback'[t].says = "dropped" /\ callback'[t].timed = callback[t].timed
      /\ callback' \in [Threads -> Records]
  <2>1. callback[t] \in Records /\ callback \in [Threads -> Records]
    BY DEF RTypes
  <2>2. /\ callback'[t].phase = "finish" /\ callback'[t].bound = callback[t].bound
        /\ callback'[t].says = "dropped" /\ callback'[t].timed = callback[t].timed
        /\ callback'[t] \in Records
    BY <1>1, <2>1 DEF Records, Outcomes
  <2>3. callback' = [callback EXCEPT ![t] = callback'[t]]
    BY <1>1, <2>1
  <2> QED
    BY <2>1, <2>2, <2>3
<1>4. bind' = {} /\ \A s \in Threads : pc'[s] # "submitted"
  BY <1>1, <1>2 DEF Bound
<1>5. RTypes'
  BY <1>1, <1>3 DEF RTypes, Places
<1>6. Positions' /\ Unborn' /\ Unsent' /\ Unanswered' /\ Unregistered' /\ Bound'
  BY <1>1, <1>2, <1>3, <1>4 DEF Positions, Unborn, Unsent, Unanswered, Unregistered, Bound, Early
<1>7. Registered' /\ OkRetired' /\ Taken'
  BY <1>1, <1>2, <1>3 DEF Registered, OkRetired, Taken, Went
<1>8. Counters'
  <2>1. Counted' = Counted /\ Sent' = Sent
    BY <1>1, <1>2, <1>3 DEF Counted, Sent
  <2> QED
    BY <1>1, <2>1 DEF Counters
<1> QED
  BY <1>5, <1>6, <1>7, <1>8

(* With BIND held, the last submission is the thread's own.                *)
LEMMA RegisterKeeps ==
  ASSUME RInv, NEW t \in Threads, Register(t)
  PROVE  RInv'
<1> USE DEF RInv, gpu, waiting, Timed
<1>1. /\ pc[t] = "submitted" /\ pc' = [pc EXCEPT ![t] = "ready"] /\ bind' = bind \ {t}
      /\ callback' = [callback EXCEPT ![t].phase = "registered", ![t].bound = tail]
      /\ UNCHANGED <<kind, tail, done, at, inFlight, signal>>
  BY DEF Register, Goto
<1>2. /\ pc'[t] = "ready" /\ Timed(t) /\ callback[t].phase = "made" /\ at[t] = tail /\ tail > 0
      /\ \A s \in Threads : s # t => callback'[s] = callback[s] /\ pc'[s] = pc[s]
  BY <1>1 DEF Unregistered, Bound, RTypes
<1>3. /\ callback'[t].phase = "registered" /\ callback'[t].bound = tail
      /\ callback'[t].says = callback[t].says /\ callback'[t].timed = callback[t].timed
      /\ callback' \in [Threads -> Records]
  <2>1. callback[t] \in Records /\ callback \in [Threads -> Records] /\ tail \in Nat
    BY DEF RTypes
  <2>2. /\ callback'[t].phase = "registered" /\ callback'[t].bound = tail
        /\ callback'[t].says = callback[t].says /\ callback'[t].timed = callback[t].timed
        /\ callback'[t] \in Records
    BY <1>1, <2>1 DEF Records
  <2>3. callback' = [callback EXCEPT ![t] = callback'[t]]
    BY <1>1, <2>1
  <2> QED
    BY <2>1, <2>2, <2>3
<1>4. bind' = {} /\ \A s \in Threads : pc'[s] # "submitted"
  BY <1>1, <1>2 DEF Bound
<1>5. RTypes'
  BY <1>1, <1>3 DEF RTypes, Places
<1>6. Positions' /\ Unborn' /\ Unsent' /\ Unanswered' /\ Unregistered' /\ Bound'
  BY <1>1, <1>2, <1>3, <1>4 DEF Positions, Unborn, Unsent, Unanswered, Unregistered, Bound, Early, RTypes
<1>7. Registered' /\ OkRetired' /\ Taken'
  BY <1>1, <1>2, <1>3 DEF Registered, OkRetired, Taken, Went
<1>8. Counters'
  <2>1. Counted' = Counted /\ Sent' = Sent
    BY <1>1, <1>2, <1>3 DEF Counted, Sent
  <2> QED
    BY <1>1, <2>1 DEF Counters
<1> QED
  BY <1>5, <1>6, <1>7, <1>8

LEMMA MapAsyncKeeps ==
  ASSUME RInv, NEW t \in Threads, MapAsync(t)
  PROVE  RInv'
<1> USE DEF RInv, gpu, waiting, Timed
<1>1. /\ pc[t] = "idle" /\ ~Timed(t) /\ pc' = [pc EXCEPT ![t] = "observe"]
      /\ callback' = [callback EXCEPT ![t].phase = "registered", ![t].bound = tail]
      /\ at' = [at EXCEPT ![t] = tail]
      /\ UNCHANGED <<kind, bind, tail, done, inFlight, signal>>
  BY DEF MapAsync, Goto
<1>2. /\ pc'[t] = "observe" /\ callback[t].phase = "none" /\ ~callback[t].timed /\ at'[t] = tail
      /\ callback[t].says = "none" /\ signal[t] = "none"
      /\ \A s \in Threads : s # t => callback'[s] = callback[s] /\ pc'[s] = pc[s] /\ at'[s] = at[s]
  BY <1>1 DEF Unborn, Unanswered, Early, RTypes
<1>3. /\ callback'[t].phase = "registered" /\ callback'[t].bound = tail
      /\ callback'[t].says = callback[t].says /\ callback'[t].timed = callback[t].timed
      /\ callback' \in [Threads -> Records]
  <2>1. callback[t] \in Records /\ callback \in [Threads -> Records] /\ tail \in Nat
    BY DEF RTypes
  <2>2. /\ callback'[t].phase = "registered" /\ callback'[t].bound = tail
        /\ callback'[t].says = callback[t].says /\ callback'[t].timed = callback[t].timed
        /\ callback'[t] \in Records
    BY <1>1, <2>1 DEF Records
  <2>3. callback' = [callback EXCEPT ![t] = callback'[t]]
    BY <1>1, <2>1
  <2> QED
    BY <2>1, <2>2, <2>3
<1>4. RTypes'
  BY <1>1, <1>3 DEF RTypes, Places
<1>5. Positions' /\ Unborn' /\ Unsent' /\ Unanswered' /\ Unregistered' /\ Bound'
  BY <1>1, <1>2, <1>3 DEF Positions, Unborn, Unsent, Unanswered, Unregistered, Bound, Early, RTypes
<1>6. Registered' /\ OkRetired' /\ Taken'
  BY <1>1, <1>2, <1>3 DEF Registered, OkRetired, Taken, Went
<1>7. Counters'
  <2>1. Counted' = Counted /\ Sent' = Sent
    BY <1>1, <1>2, <1>3 DEF Counted, Sent
  <2> QED
    BY <1>1, <2>1 DEF Counters
<1> QED
  BY <1>4, <1>5, <1>6, <1>7

-----------------------------------------------------------------------------
(* The steps of its Notify. *)

(* A registered callback is called when its own commands have retired, or  *)
(* dropped whenever.                                                       *)
LEMMA CallKeeps ==
  ASSUME RInv, NEW t \in Threads, NEW s \in Threads, Call(t, s)
  PROVE  RInv'
<1> USE DEF RInv, gpu, waiting, Timed
<1>1. PICK says \in {"dropped"} \cup (IF ~Due(s) THEN {} ELSE IF Timed(s) THEN {"ok"} ELSE {"ok", "unmapped"}) :
        callback' = [callback EXCEPT ![s].phase = "finish", ![s].says = says, ![s].runner = {t}]
  BY DEF Call
<1>2. callback[s].phase = "registered" /\ UNCHANGED <<pc, kind, bind, tail, done, at, inFlight, signal>>
  BY DEF Call
<1>3. says \in {"ok", "unmapped", "dropped"} /\ (says = "ok" => at[s] <= done /\ Went(s))
  BY <1>1, <1>2 DEF Due, Registered
<1>4. /\ callback'[s].phase = "finish" /\ callback'[s].bound = callback[s].bound
      /\ callback'[s].says = says /\ callback'[s].timed = callback[s].timed
      /\ \A r \in Threads : r # s => callback'[r] = callback[r]
      /\ callback' \in [Threads -> Records]
  <2>1. callback[s] \in Records /\ callback \in [Threads -> Records]
    BY DEF RTypes
  <2>2. /\ callback'[s].phase = "finish" /\ callback'[s].bound = callback[s].bound
        /\ callback'[s].says = says /\ callback'[s].timed = callback[s].timed
        /\ \A r \in Threads : r # s => callback'[r] = callback[r]
        /\ callback'[s] \in Records
    BY <1>1, <1>3, <2>1 DEF Records, Outcomes
  <2>3. callback' = [callback EXCEPT ![s] = callback'[s]]
    BY <1>1, <1>3, <2>1
  <2> QED
    BY <2>1, <2>2, <2>3
<1>5. RTypes'
  BY <1>2, <1>4 DEF RTypes
<1>6. pc[s] \notin Early
  BY <1>2 DEF Unborn, Unregistered, Early
<1>7. Positions' /\ Unborn' /\ Unsent' /\ Unanswered' /\ Unregistered' /\ Bound'
  BY <1>2, <1>4, <1>6 DEF Positions, Unborn, Unsent, Unanswered, Unregistered, Bound, Early
<1>8. Registered' /\ OkRetired' /\ Taken'
  BY <1>2, <1>3, <1>4 DEF Registered, OkRetired, Taken, Went
<1>9. Counters'
  <2>1. Counted' = Counted /\ Sent' = Sent
    BY <1>2, <1>4 DEF Counted, Sent
  <2> QED
    BY <1>2, <2>1 DEF Counters
<1> QED
  BY <1>5, <1>7, <1>8, <1>9

(* The first finish takes one off in_flight, a later one nothing.          *)
LEMMA TakingKeeps ==
  ASSUME RInv, NEW t \in Threads, NEW s \in Threads, TakeTime(t, s)
  PROVE  RInv'
<1> USE DEF RInv, gpu, waiting, Timed
<1>1. /\ callback[s].phase = "finish"
      /\ inFlight' = IF callback[s].timed /\ inFlight > 0 THEN inFlight - 1 ELSE inFlight
      /\ callback' = [callback EXCEPT ![s].phase = "record", ![s].timed = FALSE]
      /\ UNCHANGED <<pc, kind, bind, tail, done, at, signal>>
  BY DEF TakeTime, Runs
<1>2. /\ callback'[s].phase = "record" /\ callback'[s].bound = callback[s].bound
      /\ callback'[s].says = callback[s].says /\ ~callback'[s].timed
      /\ \A r \in Threads : r # s => callback'[r] = callback[r]
      /\ callback' \in [Threads -> Records]
  <2>1. callback[s] \in Records /\ callback \in [Threads -> Records]
    BY DEF RTypes
  <2>2. /\ callback'[s].phase = "record" /\ callback'[s].bound = callback[s].bound
        /\ callback'[s].says = callback[s].says /\ ~callback'[s].timed
        /\ \A r \in Threads : r # s => callback'[r] = callback[r]
        /\ callback'[s] \in Records
    BY <1>1, <2>1 DEF Records
  <2>3. callback' = [callback EXCEPT ![s] = callback'[s]]
    BY <1>1, <2>1
  <2> QED
    BY <2>1, <2>2, <2>3
<1>3. RTypes'
  BY <1>1, <1>2 DEF RTypes
<1>4. pc[s] \notin Early
  BY <1>1 DEF Unborn, Unregistered, Early
<1>5. Positions' /\ Unborn' /\ Unsent' /\ Unanswered' /\ Unregistered' /\ Bound'
  <2>1. Positions' /\ Unsent' /\ Unanswered' /\ Unregistered' /\ Bound'
    BY <1>1, <1>2, <1>4 DEF Positions, Unsent, Unanswered, Unregistered, Bound, Early
  <2>2. Unborn'
    BY <1>1, <1>2, <1>4 DEF Unborn, Early
  <2> QED
    BY <2>1, <2>2
<1>6. Registered' /\ OkRetired' /\ Taken'
  BY <1>1, <1>2 DEF Registered, OkRetired, Taken, Went
<1>7. Counters'
  <2>1. Counted' = Counted \ {s} /\ Sent' = Sent
    BY <1>1, <1>2 DEF Counted, Sent
  <2>2. CASE callback[s].timed
    <3>1. s \in Counted
      BY <1>1, <2>2 DEF Counted
    <3>2. Cardinality(Counted \ {s}) = Cardinality(Counted) - 1 /\ Cardinality(Counted \ {s}) \in Nat
      BY <3>1, Sizes, FS_RemoveElement, FS_CardinalityType
    <3> QED
      BY <1>1, <2>1, <2>2, <3>2, Sizes DEF Counters
  <2>3. CASE ~callback[s].timed
    <3>1. Counted \ {s} = Counted
      BY <2>3 DEF Counted
    <3> QED
      BY <1>1, <2>1, <2>3, <3>1 DEF Counters
  <2> QED
    BY <2>2, <2>3
<1> QED
  BY <1>3, <1>5, <1>6, <1>7

(* The first outcome is recorded, and the sleepers on it look again.       *)
LEMMA RecordKeeps ==
  ASSUME RInv, NEW t \in Threads, NEW s \in Threads, Record(t, s)
  PROVE  RInv'
<1> USE DEF RInv, gpu, waiting, Timed
<1>1. /\ callback[s].phase = "record" /\ callback' = Finished(s) /\ pc' = Woken(s)
      /\ signal' = [signal EXCEPT ![s] = IF signal[s] = "none" THEN callback[s].says ELSE signal[s]]
      /\ UNCHANGED <<kind, bind, tail, done, at, inFlight>>
  BY DEF Record, Runs
<1>2. /\ pc' \in [Threads -> Places]
      /\ \A u \in Threads : pc'[u] = pc[u] \/ (pc[u] \notin Early /\ pc'[u] \notin Early)
  BY <1>1 DEF Woken, Look, RTypes, Places, Early
<1>3. /\ callback'[s].phase \in {"gone", "finish"} /\ callback'[s].bound = callback[s].bound
      /\ callback'[s].says = "dropped" /\ callback'[s].timed = callback[s].timed
      /\ \A r \in Threads : r # s => callback'[r] = callback[r]
      /\ callback' \in [Threads -> Records]
  <2>1. callback[s] \in Records /\ callback \in [Threads -> Records]
    BY DEF RTypes
  <2>2. /\ callback'[s].phase \in {"gone", "finish"} /\ callback'[s].bound = callback[s].bound
        /\ callback'[s].says = "dropped" /\ callback'[s].timed = callback[s].timed
        /\ \A r \in Threads : r # s => callback'[r] = callback[r]
        /\ callback'[s] \in Records
    BY <1>1, <2>1 DEF Records, Finished, Outcomes
  <2>3. callback' = [callback EXCEPT ![s] = callback'[s]]
    BY <1>1, <2>1 DEF Finished
  <2> QED
    BY <2>1, <2>2, <2>3
<1>4. /\ signal'[s] = IF signal[s] = "none" THEN callback[s].says ELSE signal[s]
      /\ \A r \in Threads : r # s => signal'[r] = signal[r]
      /\ signal' \in [Threads -> Outcomes]
  BY <1>1 DEF RTypes, Records
<1>5. RTypes'
  BY <1>1, <1>2, <1>3, <1>4 DEF RTypes
<1>6. pc[s] \notin Early /\ ~callback[s].timed
  BY <1>1 DEF Unborn, Unregistered, Early, Taken
<1>7. Positions' /\ Unborn' /\ Unsent' /\ Unanswered' /\ Unregistered' /\ Bound'
  BY <1>1, <1>2, <1>3, <1>4, <1>6 DEF Positions, Unborn, Unsent, Unanswered, Unregistered, Bound, Early
<1>8. Registered' /\ OkRetired' /\ Taken'
  BY <1>1, <1>3, <1>4, <1>6 DEF Registered, OkRetired, Taken, Went
<1>9. Counters'
  <2>1. Counted' = Counted /\ Sent' = Sent
    BY <1>1, <1>3, <1>6 DEF Counted, Sent
  <2> QED
    BY <1>1, <2>1 DEF Counters
<1> QED
  BY <1>5, <1>7, <1>8, <1>9

LEMMA RetireKeeps ==
  ASSUME RInv, GpuRetires
  PROVE  RInv'
<1> USE DEF RInv, gpu, waiting, Timed
<1>1. done < tail /\ done' = done + 1 /\ UNCHANGED <<pc, kind, bind, tail, at, callback, inFlight, signal>>
  BY DEF GpuRetires
<1>2. RTypes' /\ OkRetired'
  BY <1>1 DEF RTypes, OkRetired, Went
<1>3. Positions' /\ Unborn' /\ Unsent' /\ Unanswered' /\ Unregistered' /\ Bound' /\ Registered' /\ Taken'
  BY <1>1 DEF Positions, Unborn, Unsent, Unanswered, Unregistered, Bound, Registered, Taken, Went
<1>4. Counters'
  BY <1>1 DEF Counters, Counted, Sent
<1> QED
  BY <1>2, <1>3, <1>4

-----------------------------------------------------------------------------
(* The steps of the wait. *)

(* To the request, all of them are a thread going on in its wait.          *)
LEMMA MovesKeepRequest ==
  ASSUME RInv, NEW t \in Threads, NEW p \in Places \ Early, pc[t] \notin Early, Goto(t, p),
         UNCHANGED <<kind, bind, gpu, callback, inFlight, signal>>
  PROVE  RInv'
<1>1. pc \in [Threads -> Places] /\ pc' = [pc EXCEPT ![t] = p]
  BY DEF RInv, RTypes, Goto
<1>2. pc' \in [Threads -> Places] /\ pc'[t] = p /\ \A s \in Threads : s # t => pc'[s] = pc[s]
  BY <1>1
<1> QED
  BY <1>2, RequestFrame

(* A thread goes on with nothing found out.                                *)
LEMMA MovesKeepWait ==
  ASSUME IInv, NEW t \in Threads, NEW p \in {"validate", "observe", "poll", "asleep"},
         pc[t] \in WaitPlaces \ {"end"}, Goto(t, p),
         p = "validate" => Checked(target[t]),
         p = "observe" /\ Checked(target[t]) => validation[target[t]].outcome = "ok",
         UNCHANGED <<waiting, scope, signal>>
  PROVE  WInv'
<1>1. pc \in [Threads -> Places]
  BY DEF IInv, RInv, RTypes
<1>2. pc'[t] = p /\ \A s \in Threads : s # t => pc'[s] = pc[s]
  BY <1>1 DEF Goto
<1> USE DEF IInv, WInv, waiting, Checked, WaitPlaces
<1>3. WTypes' /\ Scopes'
  BY DEF WTypes, Scopes
<1>4. OwnFirst' /\ NoResult'
  BY <1>2 DEF OwnFirst, NoResult
<1>5. Asking' /\ Validating' /\ Observing'
  BY <1>2 DEF Asking, Validating, Observing
<1>6. Told'
  BY DEF Told
<1> QED
  BY <1>3, <1>4, <1>5, <1>6

(* A thread returns what it was told, or that it was told nothing.         *)
LEMMA ReturnsKeepWait ==
  ASSUME IInv, NEW t \in Threads, NEW r \in Outcomes \cup {"rejected", "poll", "panicked", "unasked"},
         pc[t] # "end", Return(t, r),
         r \in {"ok", "dropped", "unmapped"} =>
           signal[target[t]] = r /\ (Checked(target[t]) => validation[target[t]].outcome = "ok"),
         r = "rejected" => Checked(target[t]) /\ validation[target[t]].outcome = "rejected",
         UNCHANGED <<kind, validation, target, scope, signal>>
  PROVE  WInv'
<1>1. pc \in [Threads -> Places] /\ WTypes
  BY DEF IInv, RInv, RTypes, WInv
<1>2. /\ pc'[t] = "end" /\ \A s \in Threads : s # t => pc'[s] = pc[s]
      /\ result'[t] = r /\ \A s \in Threads : s # t => result'[s] = result[s]
  BY <1>1 DEF Goto, Return, WTypes
<1> USE DEF IInv, WInv, Checked, WaitPlaces
<1>3. WTypes'
  BY <1>1 DEF WTypes, Return
<1>4. Scopes'
  BY DEF Scopes
<1>5. OwnFirst' /\ NoResult'
  BY <1>2 DEF OwnFirst, NoResult
<1>6. Asking' /\ Validating' /\ Observing'
  BY <1>2 DEF Asking, Validating, Observing
<1>7. Told'
  BY <1>2 DEF Told
<1> QED
  BY <1>3, <1>4, <1>5, <1>6, <1>7

LEMMA UnwoundKeeps ==
  ASSUME IInv, NEW t \in Threads, Unwound(t)
  PROVE  IInv'
<1> USE DEF Unwound, Return
<1>1. RInv'
  BY MovesKeepRequest DEF IInv, Places, Early
<1>2. WInv'
  BY ReturnsKeepWait
<1> QED
  BY <1>1, <1>2 DEF IInv

LEMMA ForgetKeeps ==
  ASSUME IInv, NEW t \in Threads, Forget(t)
  PROVE  IInv'
<1> USE DEF Forget, Return
<1>1. RInv'
  BY MovesKeepRequest DEF IInv, Places, Early
<1>2. WInv'
  BY ReturnsKeepWait
<1> QED
  BY <1>1, <1>2 DEF IInv

LEMMA PollFailsKeeps ==
  ASSUME IInv, NEW t \in Threads, PollFails(t)
  PROVE  IInv'
<1> USE DEF PollFails, Return
<1>1. RInv'
  BY MovesKeepRequest DEF IInv, Places, Early
<1>2. WInv'
  BY ReturnsKeepWait
<1> QED
  BY <1>1, <1>2 DEF IInv

(* From here on a thread waits for the submission it chose.                *)
LEMMA WaitKeeps ==
  ASSUME IInv, NEW t \in Threads, Wait(t)
  PROVE  IInv'
<1>1. PICK s \in Threads : target' = [target EXCEPT ![t] = s] /\ Goto(t, Look(s))
  BY DEF Wait
<1>2. pc[t] = "ready" /\ UNCHANGED <<bind, gpu, callback, inFlight, signal, scope, kind, validation, result>>
  BY DEF Wait
<1>3. RInv'
  BY <1>1, <1>2, MovesKeepRequest DEF IInv, Places, Early, Look
<1>4. /\ pc'[t] = Look(s) /\ target'[t] = s /\ result[t] = "none"
      /\ \A u \in Threads : u # t => pc'[u] = pc[u] /\ target'[u] = target[u]
  BY <1>1, <1>2 DEF IInv, RInv, RTypes, WInv, WTypes, Goto, NoResult
<1> USE DEF WInv, Checked, WaitPlaces
<1>5. WTypes' /\ Scopes'
  BY <1>1, <1>2 DEF IInv, WTypes, Scopes
<1>6. OwnFirst' /\ NoResult'
  BY <1>2, <1>4 DEF IInv, OwnFirst, NoResult, Look
<1>7. Asking' /\ Validating' /\ Observing'
  BY <1>2, <1>4 DEF IInv, Asking, Validating, Observing, Look
<1>8. Told'
  BY <1>2, <1>4 DEF IInv, Told
<1> QED
  BY <1>3, <1>5, <1>6, <1>7, <1>8 DEF IInv

(* Who takes the future out holds it alone.                                *)
LEMMA ValidateKeeps ==
  ASSUME IInv, NEW t \in Threads, Validate(t)
  PROVE  IInv'
<1> DEFINE s == target[t]
<1>1. pc[t] = "validate" /\ UNCHANGED <<bind, gpu, callback, inFlight, signal, scope, kind, target>>
  BY DEF Validate
<1>2. s \in Threads /\ Checked(s) /\ validation[s].outcome \in {"none", "ok", "rejected"}
  BY <1>1 DEF IInv, WInv, WTypes, Validating
<1>3. \/ validation[s].outcome # "none" /\ Settled(t, validation[s].outcome) /\ UNCHANGED validation
      \/ Goto(t, "poll") /\ UNCHANGED <<validation, result>>
      \/ /\ validation[s].outcome = "none" /\ validation[s].taken = {} /\ Goto(t, "ask")
         /\ validation' = [validation EXCEPT ![s].taken = {t}]
         /\ UNCHANGED result
  BY DEF Validate
<1>4. CASE validation[s].outcome # "none" /\ Settled(t, validation[s].outcome) /\ UNCHANGED validation
  <2>1. CASE validation[s].outcome = "ok"
    <3>1. Goto(t, "observe") /\ UNCHANGED result
      BY <1>4, <2>1 DEF Settled
    <3> QED
      BY <1>1, <1>4, <2>1, <3>1, MovesKeepRequest, MovesKeepWait DEF IInv, Places, Early, WaitPlaces, waiting
  <2>2. CASE validation[s].outcome = "rejected"
    <3>1. Return(t, "rejected") /\ Goto(t, "end")
      BY <1>4, <2>2 DEF Settled, Return
    <3> QED
      BY <1>1, <1>2, <1>4, <2>2, <3>1, MovesKeepRequest, ReturnsKeepWait DEF IInv, Places, Early
  <2> QED
    BY <1>2, <1>4, <2>1, <2>2
<1>5. CASE Goto(t, "poll") /\ UNCHANGED <<validation, result>>
  BY <1>1, <1>5, MovesKeepRequest, MovesKeepWait DEF IInv, Places, Early, WaitPlaces, waiting
<1>6. CASE /\ validation[s].outcome = "none" /\ validation[s].taken = {} /\ Goto(t, "ask")
           /\ validation' = [validation EXCEPT ![s].taken = {t}]
           /\ UNCHANGED result
  <2>1. RInv'
    BY <1>1, <1>6, MovesKeepRequest DEF IInv, Places, Early
  <2>2. /\ pc'[t] = "ask" /\ \A u \in Threads : u # t => pc'[u] = pc[u]
        /\ validation'[s].taken = {t} /\ validation'[s].outcome = "none"
        /\ \A u \in Threads : u # s => validation'[u] = validation[u]
        /\ validation'[s] = [taken |-> {t}, outcome |-> "none"]
    BY <1>2, <1>6 DEF IInv, RInv, RTypes, WInv, WTypes, Goto
  <2>3. WTypes'
    <3>1. validation' = [validation EXCEPT ![s] = [taken |-> {t}, outcome |-> "none"]]
      BY <1>2, <1>6, <2>2 DEF IInv, WInv, WTypes
    <3> QED
      BY <1>1, <1>6, <3>1 DEF IInv, WInv, WTypes
  <2> USE DEF IInv, WInv, Checked, WaitPlaces
  <2>4. OwnFirst' /\ NoResult'
    BY <1>1, <1>6, <2>2 DEF OwnFirst, NoResult
  <2>5. Scopes' /\ Validating'
    BY <1>1, <1>2, <1>6, <2>2 DEF Scopes, Validating
  <2>6. \A u \in Threads : target[u] \in Threads
    BY DEF WTypes
  <2>7. Asking'
    <3> SUFFICES ASSUME NEW u \in Threads, pc'[u] = "ask", u # t
                 PROVE  /\ Checked(target[u])
                        /\ validation'[target[u]] = [taken |-> {u}, outcome |-> "none"]
      BY <1>1, <1>2, <2>2 DEF Asking
    <3>1. Checked(target[u]) /\ validation[target[u]] = [taken |-> {u}, outcome |-> "none"]
      BY <2>2 DEF Asking
    <3>2. target[u] # s
      BY <1>6, <3>1
    <3> QED
      BY <2>2, <2>6, <3>1, <3>2
  <2>8. Observing'
    BY <1>1, <1>2, <1>6, <2>2, <2>6 DEF Observing
  <2>9. Told'
    BY <1>1, <1>2, <1>6, <2>2, <2>6 DEF Told
  <2> QED
    BY <2>1, <2>3, <2>4, <2>5, <2>7, <2>8, <2>9
<1> QED
  BY <1>3, <1>4, <1>5, <1>6

(* Only the holder of the future writes the outcome, and what it says is   *)
(* what the scopes said, or worse.                                         *)
LEMMA AskKeeps ==
  ASSUME IInv, NEW t \in Threads, Ask(t)
  PROVE  IInv'
<1> DEFINE s == target[t]
<1>1. pc[t] = "ask" /\ UNCHANGED <<bind, gpu, callback, inFlight, signal, scope, kind, target>>
  BY DEF Ask
<1>2. /\ s \in Threads /\ Checked(s) /\ validation[s] = [taken |-> {t}, outcome |-> "none"]
      /\ scope[s] \in {"open", "ok", "rejected"}
  BY <1>1 DEF IInv, WInv, WTypes, Asking
<1>3. PICK o \in {"none", "ok", "rejected"}, p \in {"poll", "observe", "end"} :
         /\ validation' = [validation EXCEPT ![s] = [taken |-> {}, outcome |-> o]]
         /\ Goto(t, p) /\ (o = "ok" => scope[s] = "ok")
         /\ \/ o = "none" /\ p = "poll" /\ UNCHANGED result
            \/ o = "ok" /\ p = "observe" /\ UNCHANGED result
            \/ o = "rejected" /\ p = "end" /\ result' = [result EXCEPT ![t] = "rejected"]
  <2>1. \/ /\ Goto(t, "poll") /\ UNCHANGED result
           /\ validation' = [validation EXCEPT ![s].taken = {}]
        \/ \E outcome \in ({scope[s]} \ {"open"}) \cup {"rejected"} :
             /\ validation' = [validation EXCEPT ![s] = [taken |-> {}, outcome |-> outcome]]
             /\ Settled(t, outcome)
    BY DEF Ask
  <2>2. CASE /\ Goto(t, "poll") /\ UNCHANGED result
             /\ validation' = [validation EXCEPT ![s].taken = {}]
    <3>1. validation'[s] = [validation[s] EXCEPT !.taken = {}]
      BY <1>2, <2>2 DEF IInv, WInv, WTypes
    <3>2. validation'[s] = [taken |-> {}, outcome |-> "none"]
      BY <1>2, <3>1
    <3>3. validation' = [validation EXCEPT ![s] = validation'[s]]
      BY <1>2, <2>2 DEF IInv, WInv, WTypes
    <3> QED
      BY <2>2, <3>2, <3>3
  <2>3. CASE \E outcome \in ({scope[s]} \ {"open"}) \cup {"rejected"} :
               /\ validation' = [validation EXCEPT ![s] = [taken |-> {}, outcome |-> outcome]]
               /\ Settled(t, outcome)
    <3>1. PICK outcome \in ({scope[s]} \ {"open"}) \cup {"rejected"} :
            /\ validation' = [validation EXCEPT ![s] = [taken |-> {}, outcome |-> outcome]]
            /\ Settled(t, outcome)
      BY <2>3
    <3>2. CASE outcome = "ok"
      BY <3>1, <3>2 DEF Settled
    <3>3. CASE outcome = "rejected"
      BY <3>1, <3>3 DEF Settled, Return
    <3> QED
      BY <1>2, <3>2, <3>3
  <2> QED
    BY <2>1, <2>2, <2>3
<1>4. RInv'
  BY <1>1, <1>3, MovesKeepRequest DEF IInv, Places, Early
<1>5. /\ pc'[t] = p /\ \A u \in Threads : u # t => pc'[u] = pc[u]
      /\ validation'[s].outcome = o
      /\ \A u \in Threads : u # s => validation'[u] = validation[u]
  BY <1>2, <1>3 DEF IInv, RInv, RTypes, WInv, WTypes, Goto
<1>6. result'[t] = (IF o = "rejected" THEN "rejected" ELSE result[t]) /\ result[t] = "none"
      /\ \A u \in Threads : u # t => result'[u] = result[u]
  BY <1>1, <1>3 DEF IInv, WInv, WTypes, NoResult
<1>7. \A u \in Threads : target[u] \in Threads
  BY DEF IInv, WInv, WTypes
<1>8. WTypes'
  BY <1>1, <1>2, <1>3 DEF IInv, WInv, WTypes
<1> USE DEF IInv, WInv, Checked, WaitPlaces
<1>9. OwnFirst' /\ NoResult'
  BY <1>1, <1>3, <1>5, <1>6 DEF OwnFirst, NoResult
<1>10. Scopes' /\ Validating'
  BY <1>1, <1>2, <1>3, <1>5 DEF Scopes, Validating
<1>11. Asking'
  <2> SUFFICES ASSUME NEW u \in Threads, u # t, pc[u] = "ask"
               PROVE  /\ Checked(target[u])
                      /\ validation'[target[u]] = [taken |-> {u}, outcome |-> "none"]
    BY <1>1, <1>3, <1>5 DEF Asking
  <2>1. Checked(target[u]) /\ validation[target[u]] = [taken |-> {u}, outcome |-> "none"]
    BY DEF Asking
  <2>2. target[u] # s
    BY <1>2, <2>1
  <2> QED
    BY <1>5, <1>7, <2>1, <2>2
<1>12. Observing'
  BY <1>1, <1>2, <1>3, <1>5, <1>7 DEF Observing
<1>13. Told'
  <2> SUFFICES ASSUME NEW u \in Threads
               PROVE  /\ result'[u] \in {"ok", "dropped", "unmapped"} =>
                           /\ signal[target[u]] = result'[u]
                           /\ Checked(target[u]) => validation'[target[u]].outcome = "ok"
                      /\ result'[u] = "rejected" =>
                           Checked(target[u]) /\ validation'[target[u]].outcome = "rejected"
    BY <1>1 DEF Told
  <2>1. CASE u = t
    BY <1>2, <1>3, <1>5, <1>6, <2>1
  <2>2. CASE u # t
    BY <1>2, <1>5, <1>6, <1>7, <2>2 DEF Told
  <2> QED
    BY <2>1, <2>2
<1> QED
  BY <1>4, <1>8, <1>9, <1>10, <1>11, <1>12, <1>13

LEMMA ObserveKeeps ==
  ASSUME IInv, NEW t \in Threads, Observe(t)
  PROVE  IInv'
<1> DEFINE s == target[t]
<1>1. pc[t] = "observe" /\ UNCHANGED <<bind, gpu, callback, inFlight, signal, scope, kind, validation, target>>
  BY DEF Observe
<1>2. s \in Threads /\ signal[s] \in Outcomes /\ (Checked(s) => validation[s].outcome = "ok")
  BY <1>1 DEF IInv, RInv, RTypes, WInv, WTypes, Observing
<1>3. CASE signal[s] = "none"
  <2>1. Goto(t, "poll") /\ UNCHANGED result
    BY <1>3 DEF Observe
  <2> QED
    BY <1>1, <2>1, MovesKeepRequest, MovesKeepWait DEF IInv, Places, Early, WaitPlaces, waiting
<1>4. CASE signal[s] # "none"
  <2>1. Return(t, signal[s]) /\ Goto(t, "end")
    BY <1>4 DEF Observe, Return
  <2>2. RInv'
    BY <1>1, <2>1, MovesKeepRequest DEF IInv, Places, Early
  <2>3. WInv'
    BY <1>1, <1>2, <2>1, ReturnsKeepWait DEF Outcomes
  <2> QED
    BY <2>2, <2>3 DEF IInv
<1> QED
  BY <1>3, <1>4

(* A sleeper looks at the scopes first again.                              *)
LEMMA SleepKeeps ==
  ASSUME IInv, NEW t \in Threads, Sleep(t) \/ Timeout(t)
  PROVE  IInv'
<1>1. /\ pc[t] \in {"poll", "asleep"}
      /\ UNCHANGED <<bind, gpu, callback, inFlight, signal, scope, waiting>>
  BY DEF Sleep, Timeout
<1>2. PICK p \in {"validate", "observe", "asleep"} :
        /\ Goto(t, p) /\ (p = "validate" => Checked(target[t]))
        /\ p = "observe" => ~Checked(target[t])
  <2>1. CASE Sleep(t)
    BY <2>1 DEF Sleep, Look, Checked
  <2>2. CASE Timeout(t)
    BY <2>2 DEF Timeout, Look, Checked
  <2> QED
    BY <2>1, <2>2
<1> QED
  BY <1>1, <1>2, MovesKeepRequest, MovesKeepWait DEF IInv, Places, Early, WaitPlaces, waiting

(* A verdict comes before anybody stored an outcome.                       *)
LEMMA ScopeKeeps ==
  ASSUME IInv, NEW s \in Threads, ScopeSettles(s)
  PROVE  IInv'
<1>1. /\ scope[s] = "open"
      /\ UNCHANGED <<pc, bind, gpu, callback, inFlight, signal, kind, validation, target, result>>
  BY DEF ScopeSettles, waiting
<1>2. PICK verdict \in {"ok", "rejected"} : scope' = [scope EXCEPT ![s] = verdict]
  BY DEF ScopeSettles
<1>3. RInv'
  BY <1>1, RequestFrame DEF IInv, RInv, RTypes
<1>4. /\ scope'[s] = verdict /\ \A u \in Threads : u # s => scope'[u] = scope[u]
      /\ scope' \in [Threads -> {"open", "ok", "rejected"}]
  BY <1>2 DEF IInv, WInv, WTypes
<1> USE DEF IInv, WInv, Checked
<1>5. WTypes' /\ OwnFirst' /\ NoResult'
  BY <1>1, <1>4 DEF WTypes, OwnFirst, NoResult
<1>6. Scopes'
  BY <1>1, <1>4 DEF Scopes
<1>7. Asking' /\ Validating' /\ Observing' /\ Told'
  BY <1>1 DEF Asking, Validating, Observing, Told
<1> QED
  BY <1>3, <1>5, <1>6, <1>7

-----------------------------------------------------------------------------
(* Every step. *)

(* What the steps of a request are to the waits. *)
LEMMA RequestKeepsWait ==
  ASSUME IInv, NEW t \in Threads,
         \/ Count(t) \/ Submit(t) \/ Unwind(t) \/ Register(t) \/ MapAsync(t)
         \/ \E s \in Threads : TakeTime(t, s) \/ Record(t, s) \/ Call(t, s)
  PROVE  WInv'
<1>1. pc \in [Threads -> Places] /\ signal \in [Threads -> Outcomes]
  BY DEF IInv, RInv, RTypes
<1> USE DEF IInv, WaitPlaces, waiting
<1>2. CASE Count(t) \/ Submit(t) \/ Unwind(t) \/ Register(t)
  <2>1. PICK p \in {"counted", "submitted", "unwinding", "ready"} :
          pc' = [pc EXCEPT ![t] = p] /\ pc[t] \in {"idle", "counted", "submitted"}
          /\ UNCHANGED <<waiting, scope, signal>>
    BY <1>2 DEF Count, Submit, Unwind, Register, Goto
  <2> QED
    BY <1>1, <2>1, WaitFrame
<1>3. CASE MapAsync(t)
  <2>1. /\ pc' = [pc EXCEPT ![t] = "observe"] /\ pc[t] = "idle" /\ ~Timed(t)
        /\ UNCHANGED <<waiting, scope, signal>>
    BY <1>3 DEF MapAsync, Goto
  <2>2. target[t] = t
    BY <2>1 DEF WInv, OwnFirst
  <2>3. Look(target[t]) = "observe"
    BY <2>1, <2>2 DEF Look, Timed
  <2> QED
    BY <1>1, <2>1, <2>3, WaitFrame
<1>4. ASSUME NEW s \in Threads, TakeTime(t, s) \/ Call(t, s)
      PROVE  WInv'
  <2>1. UNCHANGED <<pc, waiting, scope, signal>>
    BY <1>4 DEF TakeTime, Call
  <2> QED
    BY <2>1, WaitFrame
<1>5. ASSUME NEW s \in Threads, Record(t, s)
      PROVE  WInv'
  <2>1. /\ signal' = [signal EXCEPT ![s] = IF signal[s] = "none" THEN callback[s].says ELSE signal[s]]
        /\ pc' = Woken(s) /\ UNCHANGED <<waiting, scope>>
    BY <1>5 DEF Record
  <2>2. \A u \in Threads : signal[u] # "none" => signal'[u] = signal[u]
    BY <1>1, <2>1
  <2>3. \A u \in Threads : pc'[u] = pc[u] \/ (pc[u] # "end" /\ pc'[u] = Look(target[u]))
    BY <1>1, <2>1 DEF Woken
  <2> QED
    BY <2>1, <2>2, <2>3, WaitFrame
<1> QED
  BY <1>2, <1>3, <1>4, <1>5

LEMMA InvKeeps ==
  ASSUME IInv, [Next]_vars
  PROVE  IInv'
<1>1. ASSUME NEW t \in Threads,
             \/ Count(t) \/ Submit(t) \/ Unwind(t) \/ Register(t) \/ MapAsync(t)
             \/ \E s \in Threads : TakeTime(t, s) \/ Record(t, s) \/ Call(t, s)
      PROVE  IInv'
  <2>1. RInv'
    BY <1>1, CountKeeps, SubmitKeeps, UnwindKeeps, RegisterKeeps, MapAsyncKeeps,
       TakingKeeps, RecordKeeps, CallKeeps DEF IInv
  <2>2. WInv'
    BY <1>1, RequestKeepsWait
  <2> QED
    BY <2>1, <2>2 DEF IInv
<1>2. ASSUME NEW t \in Threads,
             \/ Unwound(t) \/ Wait(t) \/ Forget(t) \/ Validate(t) \/ Ask(t)
             \/ Observe(t) \/ PollFails(t) \/ Sleep(t) \/ Timeout(t)
      PROVE  IInv'
  BY <1>2, UnwoundKeeps, WaitKeeps, ForgetKeeps, ValidateKeeps, AskKeeps, ObserveKeeps,
     PollFailsKeeps, SleepKeeps
<1>3. CASE GpuRetires
  <2>1. UNCHANGED <<pc, waiting, scope, signal>>
    BY <1>3 DEF GpuRetires
  <2> QED
    BY <1>3, <2>1, RetireKeeps, WaitFrame DEF IInv
<1>4. ASSUME NEW s \in Threads, ScopeSettles(s)
      PROVE  IInv'
  BY <1>4, ScopeKeeps
<1>5. CASE UNCHANGED vars
  <2>1. UNCHANGED <<pc, kind, bind, gpu, callback, inFlight, signal, waiting, scope>>
    BY <1>5 DEF vars, waiting
  <2> QED
    BY <2>1, RequestFrame, WaitFrame DEF IInv, RInv, RTypes, waiting
<1> QED
  BY <1>1, <1>2, <1>3, <1>4, <1>5 DEF Next, Step

(* The invariant holds of every behaviour. *)
THEOREM Invariant == Spec => []IInv
<1>1. Init => IInv
  BY InvStarts
<1>2. IInv /\ [Next]_vars => IInv'
  BY InvKeeps
<1> QED
  BY <1>1, <1>2, PTL DEF Spec

-----------------------------------------------------------------------------
(* What the runs check, for every set of threads.                          *)

(* A callback waits for its own commands and for nothing a submit of       *)
(* another thread slipped in: whoever sits between queue.submit and the    *)
(* registration holds BIND, so the last submission is its own.             *)
THEOREM CallbacksWaitForTheirOwn == Spec => []BoundToItself
<1>1. IInv => BoundToItself
  BY DEF IInv, RInv, Registered, BoundToItself
<1> QED
  BY <1>1, Invariant, PTL

LEMMA Types ==
  ASSUME IInv
  PROVE  TypeOK
<1>1. IsFiniteSet(Threads) /\ Cardinality(Threads) \in Nat
  BY SubmissionsAssumption, FS_CardinalityType
<1>2. Cardinality(bind) <= 1
  <2>1. CASE bind = {}
    BY <2>1, FS_EmptySet
  <2>2. CASE \E s \in Threads : bind = {s}
    BY <2>2, FS_Singleton
  <2> QED
    BY <2>1, <2>2 DEF IInv, RInv, Bound
<1>3. tail \in 0 .. Cardinality(Threads) /\ inFlight \in 0 .. Cardinality(Threads)
  <2>1. Sent \subseteq Threads /\ Counted \subseteq Threads
    BY DEF Sent, Counted
  <2>2. Cardinality(Sent) <= Cardinality(Threads) /\ Cardinality(Counted) <= Cardinality(Threads)
    BY <2>1, SubmissionsAssumption, FS_Subset
  <2> QED
    BY <1>1, <2>2 DEF IInv, RInv, RTypes, Counters
<1>4. done \in 0 .. tail /\ at \in [Threads -> 0 .. tail]
  BY DEF IInv, RInv, RTypes, Positions
<1>5. callback \in [Threads -> [phase : {"none", "made", "registered", "finish", "record", "gone"},
                                bound : 0 .. tail, says : Outcomes, timed : BOOLEAN,
                                runner : SUBSET Threads]]
  BY DEF IInv, RInv, RTypes, Records, Positions
<1> QED
  BY <1>2, <1>3, <1>4, <1>5 DEF TypeOK, IInv, RInv, WInv, RTypes, WTypes, Places

(* The variables have their types, in_flight is the number of submissions  *)
(* without an outcome, and an outcome is seen with the time already taken, *)
(* whichever path ends a submission.                                       *)
THEOREM InFlightStaysExact == Spec => []InFlightIsExact
<1>1. IInv => InFlightIsExact
  BY Types DEF IInv, RInv, Counters, Counted, Taken, InFlightIsExact
<1> QED
  BY <1>1, Invariant, PTL

(* A wait that returns Ok tells the truth: the commands have retired and   *)
(* the error scopes accepted them, however the scope future went from      *)
(* waiter to waiter.                                                       *)
THEOREM WaitsTellTheTruth == Spec => []WaitTellsTruth
<1>1. ASSUME IInv PROVE WaitTellsTruth
  <2>1. SUFFICES ASSUME NEW t \in Threads, result[t] = "ok"
                 PROVE  LET s == target[t] IN
                        at[s] <= done /\ scope[s] = "ok" /\ (Timed(s) => at[s] > 0)
    BY DEF WaitTellsTruth
  <2> DEFINE s == target[t]
  <2>2. s \in Threads /\ signal[s] = "ok" /\ (Checked(s) => validation[s].outcome = "ok")
    BY <1>1, <2>1 DEF IInv, WInv, WTypes, Told
  <2>3. scope[s] = "ok"
    BY <1>1, <2>2 DEF IInv, WInv, Scopes
  <2>4. at[s] <= done /\ Went(s)
    BY <1>1, <2>2 DEF IInv, RInv, OkRetired
  <2> QED
    BY <2>3, <2>4 DEF Went
<1> QED
  BY <1>1, Invariant, PTL

(* Two waiters on one submission that were told anything were told the     *)
(* same: both read the one signal, after the one validation outcome.       *)
THEOREM WaitersStayAgreed == Spec => []WaitersAgree
<1>1. ASSUME IInv PROVE WaitersAgree
  <2>1. SUFFICES ASSUME NEW t \in Threads, NEW u \in Threads, target[t] = target[u],
                        {result[t], result[u]} \cap {"none", "poll", "panicked", "unasked"} = {}
                 PROVE  result[t] = result[u]
    BY DEF WaitersAgree
  <2>2. /\ result[t] \in {"ok", "dropped", "unmapped", "rejected"}
        /\ result[u] \in {"ok", "dropped", "unmapped", "rejected"}
    BY <1>1, <2>1 DEF IInv, WInv, WTypes, Outcomes
  <2> QED
    BY <1>1, <2>1, <2>2 DEF IInv, WInv, Told
<1> QED
  BY <1>1, Invariant, PTL
=============================================================================
