------------------------------ MODULE WorkQueue ------------------------------
(***************************************************************************)
(* The bounded owner of submitted GPU work: WorkQueue, PendingWork and     *)
(* RecordedWork of src/wait/work.rs, over submit_checked, Submission and   *)
(* Notify of src/wait.rs.                                                  *)
(*                                                                         *)
(* A job is one RecordedWork with the leases that keep its resources.  One *)
(* owner thread calls try_submit, collect, wait_for_slots, shutdown and    *)
(* finally drops the queue.  Around it move the GPU, other submitters on   *)
(* the same queue, callbacks that any polling thread fires or wgpu drops,  *)
(* error scopes that settle, and the loss of the device.                   *)
(*                                                                         *)
(* The GPU queue is in order, so a submission is a position on it: tail    *)
(* counts what was submitted, done what has retired.  The owner's calls    *)
(* are cut where another thread's step can change what the next line       *)
(* reads; local holds the locals of the call in progress.                  *)
(***************************************************************************)
EXTENDS Naturals, Sequences, SequencesExt

CONSTANTS
  Jobs,        \* the works recorded during the run
  Capacity,    \* WorkQueue::new's capacity
  MaxForeign,  \* bound: submissions by others on the same queue
  Faults,      \* which faults the drivers may show, a subset of AllFaults
  Calls,       \* which of AllCalls the owner makes
  Browser      \* wasm32: scopes settle later, QueueEmpty proves nothing

AllFaults == {"panic", "reject", "drop", "fence", "poll", "pollpanic", "loss"}
AllCalls == {"submit", "collect", "slots", "shutdown", "drop"}

ASSUME WorkQueueAssumption ==
  /\ Capacity \in Nat \ {0}
  /\ MaxForeign \in Nat
  /\ Faults \subseteq AllFaults
  /\ Calls \subseteq AllCalls
  /\ Browser \in BOOLEAN

VARIABLES
  tail, done, foreign,  \* the GPU queue, and how many submissions are others'
  loss,                 \* WorkContext's first loss reason is set
  lease,                \* what became of each job's leases
  work,                 \* PendingWork.completion
  fence,                \* PendingWork.recovery
  failure,              \* PendingWork.failure
  committed,            \* PendingWork.committed: WorkLease::submitted was called
  pending,              \* WorkQueue.pending, oldest first
  poisoned, pollFault,  \* WorkQueue.poisoned and poll_fault
  local                 \* the owner's call in progress

gpu == <<tail, done, foreign>>
entries == <<lease, work, fence, failure, committed>>
queue == <<pending, poisoned, pollFault>>
vars == <<tail, done, foreign, loss, lease, work, fence, failure, committed,
          pending, poisoned, pollFault, local>>

-----------------------------------------------------------------------------
(* A Submission: the queue position of its commands (0: they never         *)
(* landed), the position its completion callback waits for (0: none is     *)
(* registered), its signal, and its owned error scopes ("none": it owns    *)
(* none).                                                                  *)
Submissions == [at : Nat, bound : Nat, sig : {"none", "ok", "dropped"},
                scope : {"none", "open", "ok", "err"}]

NoSubmission == [at |-> 0, bound |-> 0, sig |-> "none", scope |-> "none"]

(* Faulty variant: the signal alone decides. *)
StatusOfSignal(s) == s.sig

(* Submission::status: the scopes first, then the signal. *)
Status(s) ==
  CASE s.scope = "open" -> "none"
    [] s.scope = "err"  -> "rejected"
    [] OTHER            -> s.sig

ScopesSettled(j) == work[j].scope # "open" /\ fence[j].scope # "open"

(* What the scopes around a submission say once they settle, and as they   *)
(* are popped: a browser's scopes are open then.                           *)
Verdicts(fault) == {"ok"} \cup (IF fault \in Faults THEN {"err"} ELSE {})
ScopeResults(fault) == IF Browser THEN {"open"} ELSE Verdicts(fault)

Held == {j \in Jobs : lease[j] = "held"}
Settled == {"ok", "failed", "lost"}
Failing(j) == failure[j] # "none"

Pcs == {"idle", "poll", "observe", "settle", "return", "submit", "bind", "finish", "gone"}

(* Between calls. *)
Idle == [pc |-> "idle", call |-> "collect", index |-> 1, empty |-> FALSE,
         seen |-> "none", error |-> "none"]

Goto(p) == local' = [local EXCEPT !.pc = p]

Init ==
  /\ tail = 0 /\ done = 0 /\ foreign = 0
  /\ loss = FALSE
  /\ lease = [j \in Jobs |-> "recorded"]
  /\ work = [j \in Jobs |-> NoSubmission]
  /\ fence = [j \in Jobs |-> NoSubmission]
  /\ failure = [j \in Jobs |-> "none"]
  /\ committed = [j \in Jobs |-> FALSE]
  /\ pending = <<>>
  /\ poisoned = FALSE
  /\ pollFault = FALSE
  /\ local = Idle

-----------------------------------------------------------------------------
(* The environment. *)

(* The event loop of a browser runs only between the owner's calls. *)
OthersRun == Browser => local.pc = "idle"

GpuRetires ==
  /\ ~loss
  /\ done < tail
  /\ done' = done + 1
  /\ UNCHANGED <<tail, foreign, loss, entries, queue, local>>

ForeignSubmit ==
  /\ OthersRun
  /\ foreign < MaxForeign
  /\ foreign' = foreign + 1
  /\ tail' = tail + 1
  /\ UNCHANGED <<done, loss, entries, queue, local>>

(* Some thread's poll runs a callback whose position has retired, or the   *)
(* callback is dropped uncalled: after retirement (a surface is being      *)
(* configured) or because the device is lost.  Notify records which.       *)
SignalsNow(s) ==
  IF s.bound = 0 \/ s.sig # "none" THEN {}
  ELSE {sig \in {"ok", "dropped"} :
          \/ s.bound <= done /\ (sig = "dropped" => "drop" \in Faults)
          \/ loss /\ sig = "dropped"}

Callback(j) ==
  /\ OthersRun
  /\ \/ /\ \E sig \in SignalsNow(work[j]) : work' = [work EXCEPT ![j].sig = sig]
        /\ UNCHANGED fence
     \/ /\ \E sig \in SignalsNow(fence[j]) : fence' = [fence EXCEPT ![j].sig = sig]
        /\ UNCHANGED work
  /\ UNCHANGED <<gpu, loss, lease, failure, committed, queue, local>>

(* A browser resolves an error-scope promise. *)
ScopeSettles(j) ==
  /\ OthersRun
  /\ \/ /\ work[j].scope = "open"
        /\ \E x \in Verdicts("reject") : work' = [work EXCEPT ![j].scope = x]
        /\ UNCHANGED fence
     \/ /\ fence[j].scope = "open"
        /\ \E x \in Verdicts("fence") : fence' = [fence EXCEPT ![j].scope = x]
        /\ UNCHANGED work
  /\ UNCHANGED <<gpu, loss, lease, failure, committed, queue, local>>

(* The host's device-loss callback: WorkContext::mark_lost keeps the first *)
(* reason.                                                                 *)
Lose ==
  /\ "loss" \in Faults
  /\ ~loss
  /\ loss' = TRUE
  /\ UNCHANGED <<gpu, entries, queue, local>>

(* RecordedWork::drop, by whoever still holds the recording. *)
Abandon(j) ==
  /\ local.pc = "idle"
  /\ lease[j] = "recorded"
  /\ lease' = [lease EXCEPT ![j] = "aborted"]
  /\ UNCHANGED <<gpu, loss, work, fence, failure, committed, queue, local>>

-----------------------------------------------------------------------------
(* collect *)

(* A call begins: each of them starts by collecting.  A browser's event    *)
(* loop must not be blocked, so only the calls that never wait are made.   *)
Call(c) ==
  /\ local.pc = "idle"
  /\ Browser => c \in {"submit", "collect"}
  /\ c = "submit" => \E j \in Jobs : lease[j] = "recorded"
  /\ c = "shutdown" => pending # <<>>
  /\ local' = [Idle EXCEPT !.call = c,
                           !.pc = IF c = "drop" /\ pending = <<>> THEN "gone" ELSE "poll"]
  /\ UNCHANGED <<gpu, loss, entries, queue>>

(* terminal_loss: the loss releases every lease, retired or not. *)
TerminalLoss ==
  /\ local.pc = "poll"
  /\ loss
  /\ lease' = [j \in Jobs |-> IF j \in ToSet(pending) THEN "lost" ELSE lease[j]]
  /\ pending' = <<>>
  /\ poisoned' = TRUE
  /\ local' = [local EXCEPT !.pc = "return", !.error = "lost"]
  /\ UNCHANGED <<gpu, loss, work, fence, failure, committed, pollFault>>

(* A poll that panicked once is never repeated; one that failed otherwise  *)
(* is only reported.                                                       *)
PollFails ==
  /\ local.pc = "poll"
  /\ ~loss
  /\ \/ pollFault /\ UNCHANGED <<poisoned, pollFault>>
     \/ ~pollFault /\ "poll" \in Faults /\ UNCHANGED <<poisoned, pollFault>>
     \/ ~pollFault /\ "pollpanic" \in Faults /\ poisoned' = TRUE /\ pollFault' = TRUE
  /\ local' = [local EXCEPT !.pc = "return", !.error = "poll"]
  /\ UNCHANGED <<gpu, loss, entries, pending>>

(* Faulty variant: the latch of a panicked poll is not consulted. *)
PollAgain ==
  /\ local.pc = "poll"
  /\ ~loss
  /\ local' = [local EXCEPT !.pc = "observe", !.index = 1, !.error = "none",
                            !.empty = (done = tail /\ ~Browser)]
  /\ UNCHANGED <<gpu, loss, entries, queue>>

(* The device is polled once; QueueEmpty tells that everything submitted   *)
(* so far has retired.                                                     *)
Poll ==
  /\ local.pc = "poll"
  /\ ~loss
  /\ ~pollFault
  /\ local' = [local EXCEPT !.pc = "observe", !.index = 1, !.error = "none",
                            !.empty = (done = tail /\ ~Browser)]
  /\ UNCHANGED <<gpu, loss, entries, queue>>

(* recover: an empty submission whose callback proves that everything      *)
(* before it retired.  It may be rejected or panic, which leaves an        *)
(* observer that never signals, or (a panic in the scopes) nothing.        *)
Recover(j) ==
  \/ \E x \in ScopeResults("fence") :
       /\ tail' = tail + 1
       /\ fence' = [fence EXCEPT ![j] =
                      [at |-> tail + 1, bound |-> tail + 1, sig |-> "none", scope |-> x]]
  \/ /\ "fence" \in Faults
     /\ \E x \in ScopeResults("fence") \cup {"none"} :
          fence' = [fence EXCEPT ![j] = [NoSubmission EXCEPT !.scope = x]]
     /\ UNCHANGED tail

Current == pending[local.index]

(* Work whose scopes have accepted it and that has not failed is           *)
(* committed; an Err is a failure.                                         *)
Accepts(j) == ~Failing(j) /\ work[j].scope = "ok"
Fails(status) == status \in {"rejected", "dropped"}

(* The first half of collect's loop body: commit work whose scopes         *)
(* accepted it, and take note of a first failure.                          *)
Observe ==
  /\ local.pc = "observe"
  /\ local.index <= Len(pending)
  /\ LET j == Current
         status == Status(work[j])
     IN /\ committed' = [committed EXCEPT ![j] = @ \/ Accepts(j)]
        /\ \/ /\ Failing(j) \/ ~Fails(status)
              /\ UNCHANGED <<failure, poisoned, tail, fence>>
           \/ /\ ~Failing(j) /\ Fails(status)
              /\ failure' = [failure EXCEPT ![j] = status]
              /\ poisoned' = TRUE
              /\ IF local.empty THEN UNCHANGED <<tail, fence>> ELSE Recover(j)
        /\ local' = [local EXCEPT !.pc = "settle", !.seen = status]
  /\ UNCHANGED <<done, foreign, loss, lease, work, pending, pollFault>>

(* Faulty variants: settled scopes are taken for retirement; only a fence  *)
(* is.                                                                     *)
RetiredOnceScoped(j) == ScopesSettled(j)
RetiredByFenceOnly(j) == ScopesSettled(j) /\ Status(fence[j]) = "ok"

(* Retirement is proved by the queue having been empty when it was polled, *)
(* or by the recovery fence, and only once every scope has settled.        *)
Retired(j) == ScopesSettled(j) /\ (local.empty \/ Status(fence[j]) = "ok")

(* Faulty variant: any retired failure counts as a dropped callback. *)
RecoveredAny(j) == Retired(j) /\ ~loss /\ work[j].scope = "ok"

(* A callback dropped by wgpu although the work was accepted and retired.  *)
Recovered(j) ==
  /\ Retired(j)
  /\ failure[j] = "dropped"
  /\ ~loss
  /\ work[j].scope = "ok"

(* What completed is told, or "none" while the leases stay held. *)
Outcome(j) ==
  IF ~Failing(j) THEN local.seen
  ELSE IF Recovered(j) THEN "ok"
  ELSE IF Retired(j) THEN "failed"
  ELSE "none"

(* Faulty variant: Vec::swap_remove. *)
SwapRemoved(s, i) == IF i = Len(s) THEN Front(s) ELSE [Front(s) EXCEPT ![i] = Last(s)]

(* Vec::remove keeps the order of the others. *)
Removed(s, i) == RemoveAt(s, i)

(* The second half of the loop body: step past the entry, or settle it and *)
(* drop it, its signals and its recovery with it.                          *)
Settle ==
  /\ local.pc = "settle"
  /\ LET j == Current
         outcome == Outcome(j)
     IN /\ committed' = [committed EXCEPT ![j] = @ \/ Recovered(j)]
        /\ \/ /\ outcome = "none"
              /\ local' = [local EXCEPT !.pc = "observe", !.index = @ + 1, !.seen = "none"]
              /\ UNCHANGED <<lease, work, fence, failure, pending>>
           \/ /\ outcome # "none"
              /\ lease' = [lease EXCEPT ![j] = outcome]
              /\ work' = [work EXCEPT ![j].bound = 0, ![j].sig = "none"]
              /\ fence' = [fence EXCEPT ![j] = NoSubmission]
              /\ failure' = [failure EXCEPT ![j] = "none"]
              /\ pending' = Removed(pending, local.index)
              /\ local' = [local EXCEPT !.pc = "observe", !.seen = "none",
                             !.error = IF outcome = "failed" THEN "failed" ELSE @]
  /\ UNCHANGED <<gpu, loss, poisoned, pollFault>>

(* Faulty variant: the flag is never cleared. *)
CollectEndsPoisoned ==
  /\ local.pc = "observe"
  /\ local.index > Len(pending)
  /\ Goto("return")
  /\ UNCHANGED <<gpu, loss, entries, queue>>

(* The queue stays poisoned while some failure lacks its proof. *)
CollectEnds ==
  /\ local.pc = "observe"
  /\ local.index > Len(pending)
  /\ poisoned' = \E j \in ToSet(pending) : Failing(j)
  /\ Goto("return")
  /\ UNCHANGED <<gpu, loss, entries, pending, pollFault>>

-----------------------------------------------------------------------------
(* What each call does with the result of collect. *)

Returns == local' = Idle

CollectReturns ==
  /\ local.pc = "return"
  /\ local.call = "collect"
  /\ Returns
  /\ UNCHANGED <<gpu, loss, entries, queue>>

(* wait_for_slots ends with an error, with the slots, poisoned or when its *)
(* time is up, and otherwise sleeps a slice and collects again.            *)
SlotsReturns ==
  /\ local.pc = "return"
  /\ local.call = "slots"
  /\ \/ Returns
     \/ /\ local.error = "none" /\ ~poisoned /\ pending # <<>>
        /\ local' = [Idle EXCEPT !.call = "slots", !.pc = "poll"]
  /\ UNCHANGED <<gpu, loss, entries, queue>>

(* shutdown gives up only on a poll error; Drop never gives up.  With      *)
(* nothing pending both are done.                                          *)
ShutdownReturns ==
  /\ local.pc = "return"
  /\ local.call \in {"shutdown", "drop"}
  /\ \/ /\ pending = <<>>
        /\ IF local.call = "drop" THEN local' = [Idle EXCEPT !.pc = "gone"] ELSE Returns
     \/ /\ pending # <<>> /\ local.call = "shutdown" /\ local.error = "poll"
        /\ Returns
     \/ /\ pending # <<>> /\ ~(local.call = "shutdown" /\ local.error = "poll")
        /\ local' = [Idle EXCEPT !.call = local.call, !.pc = "poll"]
  /\ UNCHANGED <<gpu, loss, entries, queue>>

(* Faulty variant: a poisoned queue accepts work. *)
RefusedUnlessPoisoned == local.error # "none" \/ Len(pending) >= Capacity

(* Faulty variant: a full queue takes one more. *)
RefusedWhenOver == local.error # "none" \/ poisoned \/ Len(pending) > Capacity

(* try_submit gives the work back: Poll, Poisoned or Busy. *)
Refused == local.error # "none" \/ poisoned \/ Len(pending) >= Capacity

SubmitRefused ==
  /\ local.pc = "return"
  /\ local.call = "submit"
  /\ Refused
  /\ Returns
  /\ UNCHANGED <<gpu, loss, entries, queue>>

(* An encoding the scopes are known to have rejected aborts here. *)
SubmitAborts(j) ==
  /\ local.pc = "return"
  /\ local.call = "submit"
  /\ ~Refused
  /\ "reject" \in Faults
  /\ lease[j] = "recorded"
  /\ lease' = [lease EXCEPT ![j] = "aborted"]
  /\ Returns
  /\ UNCHANGED <<gpu, loss, work, fence, failure, committed, queue>>

(* The pending owner is installed before the driver is called. *)
Install(j) ==
  /\ local.pc = "return"
  /\ local.call = "submit"
  /\ ~Refused
  /\ lease[j] = "recorded"
  /\ lease' = [lease EXCEPT ![j] = "held"]
  /\ pending' = Append(pending, j)
  /\ Goto("submit")
  /\ UNCHANGED <<gpu, loss, work, fence, failure, committed, poisoned, pollFault>>

(* queue.submit lands the commands, drops what the scopes reject, or       *)
(* unwinds (Notify then signals Dropped).                                  *)
Submit ==
  /\ local.pc = "submit"
  /\ LET j == Last(pending)
     IN \/ /\ tail' = tail + 1
           /\ work' = [work EXCEPT ![j].at = tail + 1]
           /\ Goto("bind")
        \/ /\ "reject" \in Faults /\ ~Browser
           /\ work' = [work EXCEPT ![j].scope = "err"]
           /\ Goto("bind")
           /\ UNCHANGED tail
        \/ /\ "panic" \in Faults
           /\ work' = [work EXCEPT ![j].sig = "dropped"]
           /\ local' = [local EXCEPT !.pc = "finish", !.error = "panicked"]
           /\ UNCHANGED tail
  /\ UNCHANGED <<done, foreign, loss, lease, fence, failure, committed, queue>>

(* Faulty variant: unwinding drops the work, which aborts its leases. *)
BindAborts ==
  /\ local.pc = "bind"
  /\ LET j == Last(pending)
     IN \/ /\ work' = [work EXCEPT ![j].bound = tail]
           /\ Goto("finish")
           /\ UNCHANGED <<lease, pending>>
        \/ /\ "panic" \in Faults
           /\ lease' = [lease EXCEPT ![j] = "aborted"]
           /\ pending' = Front(pending)
           /\ Returns
           /\ UNCHANGED work
  /\ UNCHANGED <<gpu, loss, fence, failure, committed, poisoned, pollFault>>

(* on_submitted_work_done attaches the callback to whatever was submitted  *)
(* last by now, or unwinds.                                                *)
Bind ==
  /\ local.pc = "bind"
  /\ LET j == Last(pending)
     IN \/ /\ work' = [work EXCEPT ![j].bound = tail]
           /\ Goto("finish")
        \/ /\ "panic" \in Faults
           /\ work' = [work EXCEPT ![j].sig = "dropped"]
           /\ local' = [local EXCEPT !.pc = "finish", !.error = "panicked"]
  /\ UNCHANGED <<gpu, loss, lease, fence, failure, committed, queue>>

(* The scopes are popped and try_submit commits the work, leaves it to     *)
(* collect, or starts its recovery.                                        *)
SubmitFinishes ==
  /\ local.pc = "finish"
  /\ LET j == Last(pending)
     IN \E x \in IF work[j].scope = "none" THEN ScopeResults("reject") ELSE {work[j].scope} :
          /\ work' = [work EXCEPT ![j].scope = x]
          /\ \/ /\ local.error = "none" /\ x # "err"
                /\ committed' = [committed EXCEPT ![j] = (x = "ok")]
                /\ UNCHANGED <<failure, poisoned, tail, fence>>
             \/ /\ local.error = "panicked" \/ x = "err"
                /\ failure' = [failure EXCEPT ![j] =
                      IF local.error = "panicked" THEN "panicked" ELSE "rejected"]
                /\ poisoned' = TRUE
                /\ Recover(j)
                /\ UNCHANGED committed
  /\ Returns
  /\ UNCHANGED <<done, foreign, loss, lease, pending, pollFault>>

(* The queue was dropped: nothing more happens to its jobs. *)
Gone ==
  /\ local.pc = "gone"
  /\ UNCHANGED vars

-----------------------------------------------------------------------------
OwnerStep ==
  \/ TerminalLoss \/ PollFails \/ Poll
  \/ Observe \/ Settle \/ CollectEnds
  \/ CollectReturns \/ SlotsReturns \/ ShutdownReturns
  \/ SubmitRefused \/ \E j \in Jobs : SubmitAborts(j) \/ Install(j)
  \/ Submit \/ Bind \/ SubmitFinishes

Next ==
  \/ GpuRetires \/ ForeignSubmit \/ Lose
  \/ \E j \in Jobs : Callback(j) \/ ScopeSettles(j) \/ Abandon(j)
  \/ \E c \in Calls : Call(c)
  \/ OwnerStep
  \/ Gone

Spec == Init /\ [][Next]_vars

(***************************************************************************)
(* The GPU retires what it was given, a callback is eventually run or      *)
(* dropped by some poll, a browser settles its promises, a call that began *)
(* goes on, and a host that holds the queue keeps collecting (its render   *)
(* loop; shutdown and Drop collect in a loop of their own).  Callbacks and  *)
(* scopes need strong fairness because a browser's event loop runs only    *)
(* between the owner's calls.                                              *)
(***************************************************************************)
Fairness ==
  /\ WF_vars(GpuRetires)
  /\ \A j \in Jobs : SF_vars(Callback(j)) /\ SF_vars(ScopeSettles(j))
  /\ WF_vars(OwnerStep)
  /\ WF_vars(Call("collect"))

FairSpec == Spec /\ Fairness

-----------------------------------------------------------------------------
(* The types, and the capacity: what settles during the collect that       *)
(* try_submit begins with makes room, and nothing else does.               *)
QueueTypeOK ==
  /\ tail \in Nat /\ done \in 0..tail /\ foreign \in 0..MaxForeign
  /\ loss \in BOOLEAN
  /\ lease \in [Jobs -> {"recorded", "held", "aborted"} \cup Settled]
  /\ work \in [Jobs -> Submissions]
  /\ fence \in [Jobs -> Submissions]
  /\ failure \in [Jobs -> {"none", "dropped", "rejected", "panicked"}]
  /\ committed \in [Jobs -> BOOLEAN]
  /\ pending \in Seq(Jobs) /\ Len(pending) <= Capacity
  /\ poisoned \in BOOLEAN
  /\ pollFault \in BOOLEAN
  /\ local \in [pc : Pcs, call : AllCalls, index : Nat \ {0}, empty : BOOLEAN,
                seen : {"none", "ok", "rejected", "dropped"},
                error : {"none", "failed", "poll", "lost", "panicked"}]

(* Leases are given back only when the GPU is known to be done with them,  *)
(* whatever became of callbacks, scopes and recovery fences: "unknown      *)
(* retirement is never interpreted as permission to release/reuse          *)
(* attachments".  Only the loss of the device releases the others.         *)
SettledHasRetired ==
  \A j \in Jobs :
    /\ lease[j] \in {"ok", "failed"} => work[j].at <= done
    /\ lease[j] = "lost" => loss
    /\ lease[j] \in {"recorded", "aborted"} => work[j].at = 0

(* "A failed outcome must never recycle a resource as a successful         *)
(* result": a lease that completed with Ok was told of its submission, its *)
(* scopes accepted the commands, and the commands ran.                     *)
SuccessIsReal ==
  \A j \in Jobs :
    lease[j] = "ok" => committed[j] /\ work[j].scope = "ok" /\ work[j].at # 0

(* pending holds exactly the held jobs, each once, oldest first: the order *)
(* wait_for_slots and pause rely on to sleep on the oldest submission.     *)
PendingIsFifo ==
  /\ ToSet(pending) = Held
  /\ \A a, b \in 1..Len(pending) :
       a < b => /\ pending[a] # pending[b]
                /\ work[pending[b]].at # 0 => work[pending[a]].at < work[pending[b]].at

(* Between calls, and until the device is lost, the queue is poisoned      *)
(* exactly while a failed submission awaits its proof or polling broke.    *)
PoisonedWhileInDoubt ==
  local.pc = "idle" /\ ~loss
    => (poisoned <=> pollFault \/ \E j \in ToSet(pending) : Failing(j))

(* No commands reach the GPU while an earlier submission is in doubt. *)
NoSubmitInDoubt ==
  [][\A j \in Jobs : work[j].at = 0 /\ work'[j].at # 0
       => ~pollFault /\ \A k \in ToSet(pending) : ~Failing(k)]_vars

(* Once a poll panicked, leases are released by the loss of the device and *)
(* by nothing else: fatal polling is never interpreted as retirement.      *)
FatalPollIsLatched ==
  [][pollFault => pollFault' /\ \A j \in Held : lease'[j] \in {"held", "lost"}]_vars

(* The queue keeps the promise of Leases to every job. *)
Contract == INSTANCE Leases WITH running <- {j \in Jobs : done < work[j].at}
KeepsContract == Contract!Spec

(* Every owned job is eventually settled, with dropped callbacks, rejected *)
(* or panicking submissions and failed recovery fences: the proof that     *)
(* releases it (an empty queue at the latest) always comes.                *)
EverySubmissionSettles ==
  \A j \in Jobs : lease[j] = "held" ~> lease[j] \in Settled

(* shutdown and Drop return. *)
TeardownEnds ==
  local.call \in {"shutdown", "drop"} ~> local.pc \in {"idle", "gone"}
=============================================================================
