--------------------------- MODULE WorkQueueProofs ---------------------------
(***************************************************************************)
(* Theorems about WorkQueue for any jobs, capacity, faults and calls, in a *)
(* browser or not: no lease is released while the GPU may still run its    *)
(* commands, the queue implements Leases, and its successes, its order,    *)
(* its poisoning and its latch are what its owner may rely on.             *)
(***************************************************************************)
EXTENDS WorkQueue, SequenceTheorems, TLAPS

-----------------------------------------------------------------------------
(* The sequences pending goes through. *)

LEMMA RemoveAtProperties ==
  ASSUME NEW S, NEW s \in Seq(S), NEW i \in 1..Len(s)
  PROVE  /\ RemoveAt(s, i) \in Seq(S)
         /\ Len(RemoveAt(s, i)) = Len(s) - 1
         /\ \A k \in 1..(Len(s) - 1) : RemoveAt(s, i)[k] = s[IF k < i THEN k ELSE k + 1]
<1> DEFINE a == SubSeq(s, 1, i - 1)
           b == SubSeq(s, i + 1, Len(s))
           c == a \o b
<1>1. /\ a \in Seq(S) /\ Len(a) = i - 1
      /\ \A k \in 1..(i - 1) : a[k] = s[k]
  BY SubSeqProperties, ElementOfSeq
<1>2. /\ b \in Seq(S) /\ Len(b) = Len(s) - i
      /\ \A k \in 1..(Len(s) - i) : b[k] = s[k + i]
  BY SubSeqProperties, ElementOfSeq
<1> HIDE DEF a, b
<1>3. /\ c \in Seq(S)
      /\ Len(c) = Len(a) + Len(b)
      /\ \A k \in 1..(Len(a) + Len(b)) :
           c[k] = IF k <= Len(a) THEN a[k] ELSE b[k - Len(a)]
  BY <1>1, <1>2, ConcatProperties
<1> HIDE DEF c
<1>4. /\ Len(s) \in Nat /\ i \in Nat /\ 1 <= i /\ i <= Len(s)
      /\ Len(a) = i - 1 /\ Len(a) + Len(b) = Len(s) - 1
  BY <1>1, <1>2
<1>5. Len(c) = Len(s) - 1
  BY <1>3, <1>4
<1>6. ASSUME NEW k \in 1..(Len(s) - 1)
      PROVE  c[k] = s[IF k < i THEN k ELSE k + 1]
  <2>0. k \in Nat /\ 1 <= k /\ k <= Len(s) - 1 /\ k \in 1..(Len(a) + Len(b))
    BY <1>4
  <2>1. CASE k < i
    <3>1. k \in 1..(i - 1) /\ k <= Len(a)
      BY <1>4, <2>0, <2>1
    <3> QED
      BY <1>1, <1>3, <2>0, <2>1, <3>1
  <2>2. CASE ~(k < i)
    <3>1. ~(k <= Len(a)) /\ k - Len(a) \in 1..(Len(s) - i) /\ (k - Len(a)) + i = k + 1
      BY <1>4, <2>0, <2>2
    <3>2. c[k] = b[k - Len(a)]
      BY <1>3, <2>0, <3>1
    <3>3. b[k - Len(a)] = s[(k - Len(a)) + i]
      BY <1>2, <3>1
    <3> QED
      BY <2>2, <3>1, <3>2, <3>3
  <2> QED
    BY <2>1, <2>2
<1> QED
  BY <1>3, <1>5, <1>6 DEF RemoveAt, a, b, c

-----------------------------------------------------------------------------
(* The inductive invariant.  Its parts are what the code relies on where   *)
(* it releases a lease.                                                    *)

(* pending holds held jobs only, each once, and the entry a call works on  *)
(* is there.                                                               *)
Owned ==
  /\ \A i \in 1..Len(pending) : lease[pending[i]] = "held"
  /\ \A a, b \in 1..Len(pending) : a # b => pending[a] # pending[b]
  /\ local.pc \in {"submit", "bind", "finish"} => pending # <<>>
  /\ local.pc = "settle" => local.index <= Len(pending)

(* A callback waits for a position no earlier than that of its commands,   *)
(* and a fence comes after the work it recovers.                           *)
Positions ==
  \A j \in Jobs :
    /\ work[j].at <= tail
    /\ work[j].bound # 0 => work[j].at <= work[j].bound
    /\ fence[j].bound # 0 => work[j].at <= fence[j].bound

(* So a callback that was called, of the work or of its fence, proves that *)
(* the work retired.                                                       *)
SignalsProve ==
  \A j \in Jobs :
    work[j].sig = "ok" \/ fence[j].sig = "ok" => work[j].at <= done

(* Nothing waits for commands that have not been submitted. *)
Fresh(j) ==
  /\ work[j].bound = 0 /\ work[j].sig # "ok"
  /\ fence[j].bound = 0 /\ fence[j].sig # "ok"

RecordedIsFresh ==
  \A j \in Jobs :
    lease[j] = "recorded" \/ (local.pc = "submit" /\ j = Last(pending)) => Fresh(j)

(* queue_empty is read once and stays a proof for the rest of collect. *)
EmptyProves ==
  local.pc \in {"observe", "settle"} /\ local.empty => \A j \in Jobs : work[j].at <= done

(* So does the status that the first half of the loop body saw. *)
SeenProves ==
  local.pc = "settle" =>
    /\ local.seen = "ok" => work[pending[local.index]].at <= done
    /\ ~Failing(pending[local.index]) => local.seen \in {"none", "ok"}

IInv ==
  /\ QueueTypeOK /\ Owned /\ Positions /\ SignalsProve
  /\ RecordedIsFresh /\ EmptyProves /\ SeenProves
  /\ SettledHasRetired

Locals == [pc : Pcs, call : AllCalls, index : Nat \ {0}, empty : BOOLEAN,
           seen : {"none", "ok", "rejected", "dropped"},
           error : {"none", "failed", "poll", "lost", "panicked"}]

LEMMA IdleIsLocal == Idle \in Locals
BY DEF Idle, Locals, Pcs, AllCalls

-----------------------------------------------------------------------------
LEMMA InitHolds == Init => IInv
<1> SUFFICES ASSUME Init PROVE IInv
  OBVIOUS
<1>1. QueueTypeOK
  <2>1. work \in [Jobs -> Submissions] /\ fence \in [Jobs -> Submissions]
    BY DEF Init, NoSubmission, Submissions
  <2>2. local \in Locals
    BY IdleIsLocal DEF Init
  <2>3. pending \in Seq(Jobs) /\ Len(pending) <= Capacity
    BY WorkQueueAssumption DEF Init
  <2>4. tail \in Nat /\ done \in 0..tail /\ foreign \in 0..MaxForeign
    BY WorkQueueAssumption DEF Init
  <2> QED
    BY <2>1, <2>2, <2>3, <2>4 DEF Init, QueueTypeOK, Locals
<1>2. Owned /\ Positions /\ SignalsProve /\ RecordedIsFresh
  BY DEF Init, NoSubmission, Idle, Owned, Positions, SignalsProve, RecordedIsFresh, Fresh
<1>3. EmptyProves /\ SeenProves /\ SettledHasRetired
  BY DEF Init, NoSubmission, Idle, EmptyProves, SeenProves, SettledHasRetired
<1> QED
  BY <1>1, <1>2, <1>3 DEF IInv

-----------------------------------------------------------------------------
(* What the steps that touch submissions do to them, entry by entry. *)

LEMMA CallbackEffect ==
  ASSUME NEW j \in Jobs, Callback(j)
  PROVE  \/ /\ UNCHANGED fence
            /\ \E sig \in {"ok", "dropped"} :
                 /\ work' = [work EXCEPT ![j].sig = sig]
                 /\ work[j].bound # 0
                 /\ sig = "ok" => work[j].bound <= done
         \/ /\ UNCHANGED work
            /\ \E sig \in {"ok", "dropped"} :
                 /\ fence' = [fence EXCEPT ![j].sig = sig]
                 /\ fence[j].bound # 0
                 /\ sig = "ok" => fence[j].bound <= done
<1>1. ASSUME NEW s, NEW sig \in SignalsNow(s)
      PROVE  sig \in {"ok", "dropped"} /\ s.bound # 0 /\ (sig = "ok" => s.bound <= done)
  BY <1>1 DEF SignalsNow
<1>2. CASE (\E sig \in SignalsNow(work[j]) : work' = [work EXCEPT ![j].sig = sig]) /\ UNCHANGED fence
  BY <1>1, <1>2
<1>3. CASE (\E sig \in SignalsNow(fence[j]) : fence' = [fence EXCEPT ![j].sig = sig]) /\ UNCHANGED work
  BY <1>1, <1>3
<1> QED
  BY <1>2, <1>3 DEF Callback

LEMMA RecoverEffect ==
  ASSUME NEW j \in Jobs, Recover(j), tail \in Nat
  PROVE  \E s \in Submissions :
           /\ fence' = [fence EXCEPT ![j] = s]
           /\ s.sig = "none"
           /\ \/ s.bound = tail + 1 /\ tail' = tail + 1
              \/ s.bound = 0 /\ tail' = tail
<1>0. ScopeResults("fence") \subseteq {"open", "ok", "err"}
  BY DEF ScopeResults, Verdicts
<1>1. ASSUME NEW x \in ScopeResults("fence"), tail' = tail + 1,
             fence' = [fence EXCEPT ![j] =
                        [at |-> tail + 1, bound |-> tail + 1, sig |-> "none", scope |-> x]]
      PROVE  \E s \in Submissions :
               /\ fence' = [fence EXCEPT ![j] = s]
               /\ s.sig = "none" /\ s.bound = tail + 1
  <2> DEFINE s == [at |-> tail + 1, bound |-> tail + 1, sig |-> "none", scope |-> x]
  <2>1. s \in Submissions /\ s.sig = "none" /\ s.bound = tail + 1
    BY <1>0 DEF Submissions
  <2> QED
    BY <1>1, <2>1
<1>2. ASSUME NEW x \in ScopeResults("fence") \cup {"none"},
             fence' = [fence EXCEPT ![j] = [NoSubmission EXCEPT !.scope = x]]
      PROVE  \E s \in Submissions :
               /\ fence' = [fence EXCEPT ![j] = s]
               /\ s.sig = "none" /\ s.bound = 0
  <2> DEFINE s == [NoSubmission EXCEPT !.scope = x]
  <2>1. s \in Submissions /\ s.sig = "none" /\ s.bound = 0
    BY <1>0 DEF Submissions, NoSubmission
  <2> QED
    BY <1>2, <2>1
<1> QED
  BY <1>1, <1>2 DEF Recover

LEMMA CurrentIsJob ==
  ASSUME QueueTypeOK, local.index <= Len(pending)
  PROVE  local.index \in 1..Len(pending) /\ Current \in Jobs
<1>1. local.index \in 1..Len(pending) /\ pending \in Seq(Jobs)
  BY DEF QueueTypeOK
<1> QED
  BY <1>1, ElementOfSeq DEF Current

LEMMA LastIsJob ==
  ASSUME QueueTypeOK, pending # <<>>
  PROVE  Len(pending) \in 1..Len(pending) /\ Last(pending) \in Jobs
<1>1. pending \in Seq(Jobs) /\ Len(pending) \in Nat /\ Len(pending) # 0
  BY EmptySeq DEF QueueTypeOK
<1>2. Len(pending) \in 1..Len(pending)
  BY <1>1
<1> QED
  BY <1>1, <1>2, ElementOfSeq DEF Last

(* How a call ends, or goes round its loop. *)
LEMMA ReturnEffect ==
  ASSUME CollectReturns \/ SlotsReturns \/ ShutdownReturns \/ SubmitRefused
  PROVE  \/ local' = Idle
         \/ \E c \in {"slots", local.call} : local' = [Idle EXCEPT !.call = c, !.pc = "poll"]
         \/ local' = [Idle EXCEPT !.pc = "gone"]
BY DEF CollectReturns, SlotsReturns, ShutdownReturns, SubmitRefused, Returns

LEMMA ScopeEffect ==
  ASSUME NEW j \in Jobs, ScopeSettles(j)
  PROVE  \E x \in {"ok", "err"} :
           \/ work' = [work EXCEPT ![j].scope = x] /\ UNCHANGED fence
           \/ fence' = [fence EXCEPT ![j].scope = x] /\ UNCHANGED work
BY DEF ScopeSettles, Verdicts

(* The loop body looks at one entry and, if it has just failed, starts its *)
(* recovery.                                                               *)
LEMMA ObserveEffect ==
  ASSUME QueueTypeOK, Observe
  PROVE  /\ Current \in Jobs
         /\ local' = [local EXCEPT !.pc = "settle", !.seen = Status(work[Current])]
         /\ committed' = [committed EXCEPT ![Current] = @ \/ Accepts(Current)]
         /\ \/ /\ Failing(Current) \/ ~Fails(Status(work[Current]))
               /\ UNCHANGED <<failure, poisoned, tail, fence>>
            \/ /\ Fails(Status(work[Current]))
               /\ failure' = [failure EXCEPT ![Current] = Status(work[Current])]
               /\ poisoned' = TRUE
               /\ UNCHANGED <<tail, fence>> \/ Recover(Current)
BY CurrentIsJob DEF Observe

(* An entry is stepped past, or leaves the list with its submission and    *)
(* its fence.                                                              *)
LEMMA SettleEffect ==
  ASSUME QueueTypeOK, Owned, Settle
  PROVE  /\ Current \in Jobs
         /\ committed' = [committed EXCEPT ![Current] = @ \/ Recovered(Current)]
         /\ \/ /\ local' = [local EXCEPT !.pc = "observe", !.index = @ + 1, !.seen = "none"]
               /\ UNCHANGED <<lease, work, fence, failure, pending>>
            \/ /\ Outcome(Current) # "none"
               /\ lease' = [lease EXCEPT ![Current] = Outcome(Current)]
               /\ work' = [work EXCEPT ![Current].bound = 0, ![Current].sig = "none"]
               /\ fence' = [fence EXCEPT ![Current] = NoSubmission]
               /\ failure' = [failure EXCEPT ![Current] = "none"]
               /\ pending' = RemoveAt(pending, local.index)
               /\ local' = [local EXCEPT !.pc = "observe", !.seen = "none",
                              !.error = IF Outcome(Current) = "failed" THEN "failed" ELSE @]
BY CurrentIsJob DEF Settle, Owned, Removed

LEMMA SubmitEffect ==
  ASSUME QueueTypeOK, Owned, Submit
  PROVE  /\ Last(pending) \in Jobs
         /\ \/ /\ tail' = tail + 1
               /\ work' = [work EXCEPT ![Last(pending)].at = tail + 1]
               /\ local' = [local EXCEPT !.pc = "bind"]
            \/ /\ tail' = tail
               /\ work' = [work EXCEPT ![Last(pending)].scope = "err"]
               /\ local' = [local EXCEPT !.pc = "bind"]
            \/ /\ tail' = tail
               /\ work' = [work EXCEPT ![Last(pending)].sig = "dropped"]
               /\ local' = [local EXCEPT !.pc = "finish", !.error = "panicked"]
BY LastIsJob DEF Submit, Owned, Goto

LEMMA BindEffect ==
  ASSUME QueueTypeOK, Owned, Bind
  PROVE  /\ Last(pending) \in Jobs
         /\ \/ /\ work' = [work EXCEPT ![Last(pending)].bound = tail]
               /\ local' = [local EXCEPT !.pc = "finish"]
            \/ /\ work' = [work EXCEPT ![Last(pending)].sig = "dropped"]
               /\ local' = [local EXCEPT !.pc = "finish", !.error = "panicked"]
BY LastIsJob DEF Bind, Owned, Goto

LEMMA FinishEffect ==
  ASSUME QueueTypeOK, Owned, SubmitFinishes
  PROVE  /\ Last(pending) \in Jobs
         /\ local' = Idle
         /\ \E x \in {"open", "ok", "err"} :
              /\ work[Last(pending)].scope \in {"none", x}
              /\ work' = [work EXCEPT ![Last(pending)].scope = x]
              /\ \/ /\ committed' = [committed EXCEPT ![Last(pending)] = (x = "ok")]
                    /\ local.error = "none" /\ x # "err"
                    /\ UNCHANGED <<failure, poisoned, tail, fence>>
                 \/ /\ failure' = [failure EXCEPT ![Last(pending)] =
                         IF local.error = "panicked" THEN "panicked" ELSE "rejected"]
                    /\ poisoned' = TRUE
                    /\ Recover(Last(pending))
                    /\ UNCHANGED committed
<1> DEFINE j == Last(pending)
<1>1. j \in Jobs /\ work[j] \in Submissions
  BY LastIsJob DEF SubmitFinishes, Owned, QueueTypeOK
<1>2. work[j].scope \in {"none", "open", "ok", "err"}
  BY <1>1 DEF Submissions
<1>3. ScopeResults("reject") \subseteq {"open", "ok", "err"}
  BY DEF ScopeResults, Verdicts
<1>4. PICK x \in IF work[j].scope = "none" THEN ScopeResults("reject") ELSE {work[j].scope} :
        /\ work' = [work EXCEPT ![j].scope = x]
        /\ \/ /\ local.error = "none" /\ x # "err"
              /\ committed' = [committed EXCEPT ![j] = (x = "ok")]
              /\ UNCHANGED <<failure, poisoned, tail, fence>>
           \/ /\ failure' = [failure EXCEPT ![j] =
                   IF local.error = "panicked" THEN "panicked" ELSE "rejected"]
              /\ poisoned' = TRUE
              /\ Recover(j)
              /\ UNCHANGED committed
  BY DEF SubmitFinishes
<1>5. x \in {"open", "ok", "err"} /\ work[j].scope \in {"none", x}
  BY <1>2, <1>3, <1>4
<1>6. local' = Idle
  BY DEF SubmitFinishes, Returns
<1> QED
  BY <1>1, <1>4, <1>5, <1>6

(* How a step moves on: the program counter and some other locals change. *)
Goes(l, p) ==
  \/ l = [local EXCEPT !.pc = p]
  \/ \E e : l = [local EXCEPT !.pc = p, !.error = e]
  \/ \E s : l = [local EXCEPT !.pc = p, !.seen = s]
  \/ \E s, e : l = [local EXCEPT !.pc = p, !.seen = s, !.error = e]
  \/ \E i, s : l = [local EXCEPT !.pc = p, !.index = i, !.seen = s]
  \/ \E i, m, e : l = [local EXCEPT !.pc = p, !.index = i, !.error = e, !.empty = m]

LEMMA GoesThere == ASSUME local \in Locals, NEW l, NEW p, Goes(l, p) PROVE l.pc = p
<1>1. local = [pc |-> local.pc, call |-> local.call, index |-> local.index,
               empty |-> local.empty, seen |-> local.seen, error |-> local.error]
  BY DEF Locals
<1>2. CASE l = [local EXCEPT !.pc = p]
  BY <1>1, <1>2
<1>3. ASSUME NEW e, l = [local EXCEPT !.pc = p, !.error = e] PROVE l.pc = p
  BY <1>1, <1>3
<1>4. ASSUME NEW s, l = [local EXCEPT !.pc = p, !.seen = s] PROVE l.pc = p
  BY <1>1, <1>4
<1>5. ASSUME NEW s, NEW e, l = [local EXCEPT !.pc = p, !.seen = s, !.error = e] PROVE l.pc = p
  BY <1>1, <1>5
<1>6. ASSUME NEW i, NEW s, l = [local EXCEPT !.pc = p, !.index = i, !.seen = s] PROVE l.pc = p
  BY <1>1, <1>6
<1>7. ASSUME NEW i, NEW m, NEW e,
             l = [local EXCEPT !.pc = p, !.index = i, !.error = e, !.empty = m] PROVE l.pc = p
  BY <1>1, <1>7
<1> QED
  BY <1>2, <1>3, <1>4, <1>5, <1>6, <1>7 DEF Goes

(* Where each step of the owner leaves its call. *)
LEMMA Places ==
  ASSUME QueueTypeOK, Owned
  PROVE  /\ \A c \in Calls : Call(c) => local'.pc \in {"poll", "gone"}
         /\ TerminalLoss \/ PollFails \/ CollectEnds => local'.pc = "return"
         /\ Poll \/ Settle => local'.pc = "observe"
         /\ Observe => local'.pc = "settle"
         /\ CollectReturns \/ SlotsReturns \/ ShutdownReturns \/ SubmitRefused
              => local'.pc \in {"idle", "poll", "gone"}
         /\ \A j \in Jobs : SubmitAborts(j) => local'.pc = "idle"
         /\ \A j \in Jobs : Install(j) => local'.pc = "submit"
         /\ Submit \/ Bind => local'.pc \in {"bind", "finish"}
         /\ SubmitFinishes => local'.pc = "idle"
<1>0. local \in Locals
  BY DEF QueueTypeOK, Locals
<1>1. ASSUME NEW c \in Calls, Call(c) PROVE local'.pc \in {"poll", "gone"}
  BY <1>1 DEF Call, Idle
<1>2. TerminalLoss \/ PollFails \/ CollectEnds => Goes(local', "return")
  BY Zenon DEF TerminalLoss, PollFails, CollectEnds, Goto, Goes
<1>3. Poll \/ Settle => Goes(local', "observe")
  <2>1. ASSUME Poll PROVE Goes(local', "observe")
    BY <2>1, Zenon DEF Poll, Goes
  <2>2. ASSUME Settle PROVE Goes(local', "observe")
    <3>1. \/ local' = [local EXCEPT !.pc = "observe", !.index = @ + 1, !.seen = "none"]
          \/ local' = [local EXCEPT !.pc = "observe", !.seen = "none",
                         !.error = IF Outcome(Current) = "failed" THEN "failed" ELSE @]
      BY <2>2, SettleEffect, Zenon
    <3>2. CASE local' = [local EXCEPT !.pc = "observe", !.index = @ + 1, !.seen = "none"]
      BY <3>2, Zenon DEF Goes
    <3>3. CASE local' = [local EXCEPT !.pc = "observe", !.seen = "none",
                           !.error = IF Outcome(Current) = "failed" THEN "failed" ELSE @]
      BY <3>3, Zenon DEF Goes
    <3> QED
      BY <3>1, <3>2, <3>3
  <2> QED
    BY <2>1, <2>2
<1>4. Observe => Goes(local', "settle")
  BY ObserveEffect, Zenon DEF Goes
<1>5. CollectReturns \/ SlotsReturns \/ ShutdownReturns \/ SubmitRefused
        => local'.pc \in {"idle", "poll", "gone"}
  <2>1. Idle \in Locals /\ Idle.pc = "idle"
    BY IdleIsLocal DEF Idle
  <2>2. ASSUME NEW c, local' = [Idle EXCEPT !.call = c, !.pc = "poll"]
        PROVE  local'.pc = "poll"
    BY <2>2 DEF Idle
  <2>3. local' = [Idle EXCEPT !.pc = "gone"] => local'.pc = "gone"
    BY DEF Idle
  <2>4. ASSUME CollectReturns \/ SlotsReturns \/ ShutdownReturns \/ SubmitRefused
        PROVE  local'.pc \in {"idle", "poll", "gone"}
    BY <2>1, <2>2, <2>3, <2>4, ReturnEffect, Zenon
  <2> QED
    BY <2>4
<1>6. ASSUME NEW j \in Jobs, SubmitAborts(j) PROVE local'.pc = "idle"
  BY <1>6 DEF SubmitAborts, Returns, Idle
<1>7. ASSUME NEW j \in Jobs, Install(j) PROVE Goes(local', "submit")
  BY <1>7, Zenon DEF Install, Goto, Goes
<1>8. Submit \/ Bind => Goes(local', "bind") \/ Goes(local', "finish")
  <2>1. Submit => Goes(local', "bind") \/ Goes(local', "finish")
    BY SubmitEffect, Zenon DEF Goes
  <2>2. Bind => Goes(local', "finish")
    BY BindEffect, Zenon DEF Goes
  <2> QED
    BY <2>1, <2>2
<1>9. SubmitFinishes => local'.pc = "idle"
  BY DEF SubmitFinishes, Returns, Idle
<1>10. \A p : Goes(local', p) => local'.pc = p
  BY <1>0, GoesThere
<1> QED
  BY <1>1, <1>2, <1>3, <1>4, <1>5, <1>6, <1>7, <1>8, <1>9, <1>10

-----------------------------------------------------------------------------
(* The type invariant is kept. *)

LEMMA Forgotten ==
  ASSUME work \in [Jobs -> Submissions], NEW j \in Jobs,
         work' = [work EXCEPT ![j].bound = 0, ![j].sig = "none"]
  PROVE  /\ work' \in [Jobs -> Submissions]
         /\ work'[j].at = work[j].at /\ work'[j].scope = work[j].scope
         /\ work'[j].bound = 0 /\ work'[j].sig = "none"
         /\ \A k \in Jobs \ {j} : work'[k] = work[k]
<1> DEFINE w == [work EXCEPT ![j].bound = 0]
<1>1. /\ w \in [Jobs -> Submissions]
      /\ w[j].at = work[j].at /\ w[j].scope = work[j].scope /\ w[j].bound = 0
      /\ \A k \in Jobs \ {j} : w[k] = work[k]
  BY DEF Submissions
<1>2. work' = [w EXCEPT ![j].sig = "none"]
  OBVIOUS
<1> HIDE DEF w
<1>3. /\ DOMAIN work' = Jobs /\ work' = [k \in Jobs |-> work'[k]]
      /\ work'[j] = [w[j] EXCEPT !.sig = "none"]
      /\ \A k \in Jobs \ {j} : work'[k] = w[k]
  BY <1>1, <1>2
<1>4. w[j] \in Submissions
  BY <1>1
<1>5. /\ work'[j] \in Submissions
      /\ work'[j].at = w[j].at /\ work'[j].scope = w[j].scope
      /\ work'[j].bound = w[j].bound /\ work'[j].sig = "none"
  BY <1>3, <1>4 DEF Submissions
<1> QED
  BY <1>1, <1>3, <1>5

LEMMA PollTypes ==
  ASSUME local \in Locals, NEW empty \in BOOLEAN,
         local' = [local EXCEPT !.pc = "observe", !.index = 1, !.error = "none",
                                !.empty = empty]
  PROVE  local' \in Locals
<1>1. /\ local.call \in AllCalls
      /\ local.seen \in {"none", "ok", "rejected", "dropped"}
      /\ local' = [pc |-> "observe", call |-> local.call, index |-> 1, empty |-> empty,
                   seen |-> local.seen, error |-> "none"]
  BY DEF Locals
<1> QED
  BY <1>1 DEF Locals, Pcs

LEMMA RecoverTypes ==
  ASSUME QueueTypeOK, NEW j \in Jobs, Recover(j)
  PROVE  fence' \in [Jobs -> Submissions] /\ tail' \in Nat /\ tail <= tail'
<1>1. fence \in [Jobs -> Submissions] /\ tail \in Nat
  BY DEF QueueTypeOK
<1>2. PICK s \in Submissions :
        /\ fence' = [fence EXCEPT ![j] = s]
        /\ \/ s.bound = tail + 1 /\ tail' = tail + 1
           \/ s.bound = 0 /\ tail' = tail
  BY <1>1, RecoverEffect
<1> QED
  BY <1>1, <1>2

LEMMA TypeStep ==
  ASSUME IInv, [Next]_vars
  PROVE  QueueTypeOK'
<1>0. QueueTypeOK /\ Owned /\ SeenProves
  BY DEF IInv
<1>a. /\ tail \in Nat /\ done \in 0..tail /\ foreign \in 0..MaxForeign
      /\ work \in [Jobs -> Submissions] /\ fence \in [Jobs -> Submissions]
      /\ local \in Locals
  BY <1>0 DEF QueueTypeOK, Locals
<1>b. /\ lease \in [Jobs -> {"recorded", "held", "aborted"} \cup Settled]
      /\ failure \in [Jobs -> {"none", "dropped", "rejected", "panicked"}]
      /\ committed \in [Jobs -> BOOLEAN]
      /\ pending \in Seq(Jobs) /\ Len(pending) <= Capacity
  BY <1>0 DEF QueueTypeOK
<1>1. CASE GpuRetires
  <2>1. done' \in 0..tail'
    BY <1>1, <1>a DEF GpuRetires
  <2> QED
    BY <1>0, <1>1, <2>1 DEF GpuRetires, QueueTypeOK, entries, queue
<1>2. CASE ForeignSubmit
  <2>1. tail' \in Nat /\ done' \in 0..tail' /\ foreign' \in 0..MaxForeign
    BY <1>2, <1>a, WorkQueueAssumption DEF ForeignSubmit
  <2> QED
    BY <1>0, <1>2, <2>1 DEF ForeignSubmit, QueueTypeOK, entries, queue
<1>3. CASE Lose
  BY <1>0, <1>3 DEF Lose, QueueTypeOK, gpu, entries, queue
<1>4. ASSUME NEW j \in Jobs, Callback(j) \/ ScopeSettles(j) PROVE QueueTypeOK'
  <2>1. \/ \E x \in {"ok", "dropped"} :
             \/ work' = [work EXCEPT ![j].sig = x] /\ fence' = fence
             \/ fence' = [fence EXCEPT ![j].sig = x] /\ work' = work
        \/ \E x \in {"ok", "err"} :
             \/ work' = [work EXCEPT ![j].scope = x] /\ fence' = fence
             \/ fence' = [fence EXCEPT ![j].scope = x] /\ work' = work
    BY <1>4, CallbackEffect, ScopeEffect
  <2>2. work' \in [Jobs -> Submissions] /\ fence' \in [Jobs -> Submissions]
    BY <1>a, <2>1 DEF Submissions
  <2> QED
    BY <1>0, <1>4, <2>2 DEF Callback, ScopeSettles, QueueTypeOK, gpu, queue
<1>5. ASSUME NEW j \in Jobs, Abandon(j) PROVE QueueTypeOK'
  <2>1. lease' \in [Jobs -> {"recorded", "held", "aborted"} \cup Settled]
    BY <1>5, <1>b DEF Abandon
  <2> QED
    BY <1>0, <1>5, <2>1 DEF Abandon, QueueTypeOK, gpu, queue
<1>6. ASSUME NEW c \in Calls, Call(c) PROVE QueueTypeOK'
  <2>1. local' \in Locals
    <3>1. \E p \in {"gone", "poll"} : local' = [Idle EXCEPT !.call = c, !.pc = p]
      BY <1>6 DEF Call
    <3>2. c \in AllCalls
      BY WorkQueueAssumption
    <3> QED
      BY <3>1, <3>2, IdleIsLocal DEF Locals, Pcs
  <2> QED
    BY <1>0, <1>6, <2>1 DEF Call, QueueTypeOK, Locals, gpu, entries, queue
<1>7. CASE TerminalLoss
  <2>1. local' \in Locals
    BY <1>7, <1>a DEF TerminalLoss, Locals, Pcs
  <2>2. lease' \in [Jobs -> {"recorded", "held", "aborted"} \cup Settled]
    BY <1>7, <1>b DEF TerminalLoss, Settled
  <2>3. pending' \in Seq(Jobs) /\ Len(pending') <= Capacity
    BY <1>7, WorkQueueAssumption DEF TerminalLoss
  <2> QED
    BY <1>0, <1>7, <2>1, <2>2, <2>3 DEF TerminalLoss, QueueTypeOK, Locals, gpu
<1>8. CASE PollFails \/ Poll \/ CollectEnds
  <2>1. local' \in Locals
    <3>1. CASE Poll
      <4> DEFINE empty == done = tail /\ ~Browser
      <4>1. empty \in BOOLEAN
        BY WorkQueueAssumption
      <4>2. local' = [local EXCEPT !.pc = "observe", !.index = 1, !.error = "none",
                                   !.empty = empty]
        BY <3>1 DEF Poll
      <4> HIDE DEF empty
      <4> QED
        BY <1>a, <4>1, <4>2, PollTypes
    <3>2. CASE PollFails \/ CollectEnds
      BY <1>a, <3>2 DEF PollFails, CollectEnds, Goto, Locals, Pcs
    <3> QED
      BY <1>8, <3>1, <3>2
  <2>2. poisoned' \in BOOLEAN /\ pollFault' \in BOOLEAN
    BY <1>0, <1>8 DEF PollFails, Poll, CollectEnds, QueueTypeOK, queue
  <2>3. UNCHANGED <<gpu, loss, entries, pending>>
    BY <1>8 DEF PollFails, Poll, CollectEnds, queue
  <2> QED
    BY <1>0, <2>1, <2>2, <2>3 DEF QueueTypeOK, Locals, gpu, entries
<1>9. CASE Observe
  <2> DEFINE seen == Status(work[Current])
  <2>1. seen \in {"none", "ok", "rejected", "dropped"}
    <3>1. work[Current] \in Submissions
      BY <1>0, <1>9, <1>a, ObserveEffect
    <3> QED
      BY <3>1 DEF Status, Submissions
  <2> HIDE DEF seen
  <2>2. /\ local' = [local EXCEPT !.pc = "settle", !.seen = seen]
        /\ Current \in Jobs
        /\ committed' = [committed EXCEPT ![Current] = @ \/ Accepts(Current)]
        /\ \/ UNCHANGED <<failure, poisoned, tail, fence>>
           \/ /\ Fails(seen)
              /\ failure' = [failure EXCEPT ![Current] = seen]
              /\ poisoned' = TRUE
              /\ UNCHANGED <<tail, fence>> \/ Recover(Current)
    BY <1>0, <1>9, ObserveEffect DEF seen
  <2>3. local' \in Locals
    BY <1>a, <2>1, <2>2 DEF Locals, Pcs
  <2>4. fence' \in [Jobs -> Submissions] /\ tail' \in Nat /\ tail <= tail'
    BY <1>0, <1>a, <2>2, RecoverTypes
  <2>5. /\ failure' \in [Jobs -> {"none", "dropped", "rejected", "panicked"}]
        /\ poisoned' \in BOOLEAN
    BY <1>0, <1>b, <2>2 DEF Fails, QueueTypeOK
  <2>6. committed' \in [Jobs -> BOOLEAN]
    BY <1>b, <2>2 DEF Accepts
  <2>7. done' \in 0..tail' /\ UNCHANGED <<foreign, loss, lease, work, pending, pollFault>>
    BY <1>9, <1>a, <2>4 DEF Observe
  <2> QED
    BY <1>0, <2>3, <2>4, <2>5, <2>6, <2>7 DEF QueueTypeOK, Locals
<1>10. CASE Settle
  <2> DEFINE outcome == Outcome(Current)
  <2>0. Current \in Jobs /\ local.pc = "settle" /\ Current = pending[local.index]
    BY <1>0, <1>10, SettleEffect DEF Settle, Current
  <2>1. outcome \in {"none", "ok", "failed"}
    BY <1>0, <2>0 DEF Outcome, SeenProves
  <2> HIDE DEF outcome
  <2>2. /\ committed' = [committed EXCEPT ![Current] = @ \/ Recovered(Current)]
        /\ \/ /\ local' = [local EXCEPT !.pc = "observe", !.index = @ + 1, !.seen = "none"]
              /\ UNCHANGED <<lease, work, fence, failure, pending>>
           \/ /\ outcome # "none"
              /\ lease' = [lease EXCEPT ![Current] = outcome]
              /\ work' = [work EXCEPT ![Current].bound = 0, ![Current].sig = "none"]
              /\ fence' = [fence EXCEPT ![Current] = NoSubmission]
              /\ failure' = [failure EXCEPT ![Current] = "none"]
              /\ pending' = RemoveAt(pending, local.index)
              /\ local' = [local EXCEPT !.pc = "observe", !.seen = "none",
                             !.error = IF outcome = "failed" THEN "failed" ELSE @]
    BY <1>0, <1>10, SettleEffect DEF outcome
  <2>3. local' \in Locals
    <3>1. CASE local' = [local EXCEPT !.pc = "observe", !.index = @ + 1, !.seen = "none"]
      <4>1. local.index + 1 \in Nat \ {0}
        BY <1>a DEF Locals
      <4> QED
        BY <1>a, <3>1, <4>1 DEF Locals, Pcs
    <3>2. CASE local' = [local EXCEPT !.pc = "observe", !.seen = "none",
                           !.error = IF outcome = "failed" THEN "failed" ELSE @]
      BY <1>a, <3>2 DEF Locals, Pcs
    <3> QED
      BY <2>2, <3>1, <3>2
  <2>4. lease' \in [Jobs -> {"recorded", "held", "aborted"} \cup Settled]
    BY <1>b, <2>0, <2>1, <2>2 DEF Settled
  <2>5. work' \in [Jobs -> Submissions]
    <3>1. CASE work' = [work EXCEPT ![Current].bound = 0, ![Current].sig = "none"]
      BY <1>a, <2>0, <3>1, Forgotten
    <3>2. CASE UNCHANGED work
      BY <1>a, <3>2
    <3> QED
      BY <2>2, <3>1, <3>2
  <2>6. fence' \in [Jobs -> Submissions]
    <3>1. NoSubmission \in Submissions
      BY DEF NoSubmission, Submissions
    <3> QED
      BY <1>a, <2>0, <2>2, <3>1
  <2>7. failure' \in [Jobs -> {"none", "dropped", "rejected", "panicked"}]
    BY <1>b, <2>0, <2>2
  <2>8. committed' \in [Jobs -> BOOLEAN]
    BY <1>b, <2>0, <2>2 DEF Recovered
  <2>9. pending' \in Seq(Jobs) /\ Len(pending') <= Capacity
    <3>1. local.index \in 1..Len(pending) /\ Len(pending) \in Nat
      BY <1>0, <1>b, <2>0, CurrentIsJob DEF Owned
    <3>2. /\ RemoveAt(pending, local.index) \in Seq(Jobs)
          /\ Len(RemoveAt(pending, local.index)) = Len(pending) - 1
      BY <1>b, <3>1, RemoveAtProperties
    <3> QED
      BY <1>b, <2>2, <3>1, <3>2, WorkQueueAssumption
  <2>10. UNCHANGED <<gpu, loss, poisoned, pollFault>>
    BY <1>10 DEF Settle
  <2> QED
    BY <1>0, <2>3, <2>4, <2>5, <2>6, <2>7, <2>8, <2>9, <2>10 DEF QueueTypeOK, Locals, gpu
<1>11. CASE CollectReturns \/ SlotsReturns \/ ShutdownReturns \/ SubmitRefused
  <2>1. local' \in Locals
    <3>1. local.call \in AllCalls
      BY <1>a DEF Locals
    <3> QED
      BY <1>11, <3>1, ReturnEffect, IdleIsLocal DEF Locals, Pcs, AllCalls
  <2> QED
    BY <1>0, <1>11, <2>1 DEF CollectReturns, SlotsReturns, ShutdownReturns, SubmitRefused,
                             QueueTypeOK, Locals, gpu, entries, queue
<1>12. ASSUME NEW j \in Jobs, SubmitAborts(j) PROVE QueueTypeOK'
  <2>1. local' \in Locals
    BY <1>12, IdleIsLocal DEF SubmitAborts, Returns
  <2>2. lease' \in [Jobs -> {"recorded", "held", "aborted"} \cup Settled]
    BY <1>12, <1>b DEF SubmitAborts
  <2> QED
    BY <1>0, <1>12, <2>1, <2>2 DEF SubmitAborts, QueueTypeOK, Locals, gpu, queue
<1>13. ASSUME NEW j \in Jobs, Install(j) PROVE QueueTypeOK'
  <2>1. local' \in Locals
    BY <1>13, <1>a DEF Install, Goto, Locals, Pcs
  <2>2. lease' \in [Jobs -> {"recorded", "held", "aborted"} \cup Settled]
    BY <1>13, <1>b DEF Install
  <2>3. pending' \in Seq(Jobs) /\ Len(pending') <= Capacity
    <3>1. ~(Len(pending) >= Capacity) /\ pending' = Append(pending, j)
      BY <1>13 DEF Install, Refused
    <3>2. pending' \in Seq(Jobs) /\ Len(pending') = Len(pending) + 1 /\ Len(pending) \in Nat
      BY <1>b, <3>1, AppendProperties
    <3> QED
      BY <3>1, <3>2, WorkQueueAssumption
  <2> QED
    BY <1>0, <1>13, <2>1, <2>2, <2>3 DEF Install, QueueTypeOK, Locals, gpu
<1>14. CASE Submit
  <2> DEFINE j == Last(pending)
  <2>1. /\ j \in Jobs
        /\ \/ /\ tail' = tail + 1
              /\ work' = [work EXCEPT ![j].at = tail + 1]
              /\ local' = [local EXCEPT !.pc = "bind"]
           \/ /\ tail' = tail
              /\ work' = [work EXCEPT ![j].scope = "err"]
              /\ local' = [local EXCEPT !.pc = "bind"]
           \/ /\ tail' = tail
              /\ work' = [work EXCEPT ![j].sig = "dropped"]
              /\ local' = [local EXCEPT !.pc = "finish", !.error = "panicked"]
    BY <1>0, <1>14, SubmitEffect
  <2> HIDE DEF j
  <2>2. local' \in Locals
    BY <1>a, <2>1 DEF Locals, Pcs
  <2>3. work' \in [Jobs -> Submissions]
    BY <1>a, <2>1, SMTT(30) DEF Submissions
  <2>4. tail' \in Nat /\ done' \in 0..tail'
    BY <1>14, <1>a, <2>1 DEF Submit
  <2> QED
    BY <1>0, <1>14, <2>2, <2>3, <2>4 DEF Submit, QueueTypeOK, Locals, queue
<1>15. CASE Bind
  <2> DEFINE j == Last(pending)
  <2>1. /\ j \in Jobs
        /\ \/ /\ work' = [work EXCEPT ![j].bound = tail]
              /\ local' = [local EXCEPT !.pc = "finish"]
           \/ /\ work' = [work EXCEPT ![j].sig = "dropped"]
              /\ local' = [local EXCEPT !.pc = "finish", !.error = "panicked"]
    BY <1>0, <1>15, BindEffect
  <2> HIDE DEF j
  <2>2. local' \in Locals
    BY <1>a, <2>1 DEF Locals, Pcs
  <2>3. work' \in [Jobs -> Submissions]
    BY <1>a, <2>1, SMTT(30) DEF Submissions
  <2> QED
    BY <1>0, <1>15, <2>2, <2>3 DEF Bind, QueueTypeOK, Locals, gpu, queue
<1>16. CASE SubmitFinishes
  <2> DEFINE j == Last(pending)
  <2>1. PICK x \in {"open", "ok", "err"} :
          /\ work' = [work EXCEPT ![j].scope = x]
          /\ \/ /\ committed' = [committed EXCEPT ![j] = (x = "ok")]
                /\ UNCHANGED <<failure, poisoned, tail, fence>>
             \/ /\ failure' = [failure EXCEPT ![j] =
                     IF local.error = "panicked" THEN "panicked" ELSE "rejected"]
                /\ poisoned' = TRUE
                /\ Recover(j)
                /\ UNCHANGED committed
    BY <1>0, <1>16, FinishEffect
  <2>2. j \in Jobs /\ local' = Idle
    BY <1>0, <1>16, FinishEffect
  <2> HIDE DEF j
  <2>3. work' \in [Jobs -> Submissions]
    BY <1>a, <2>1, <2>2 DEF Submissions
  <2>4. fence' \in [Jobs -> Submissions] /\ tail' \in Nat /\ tail <= tail'
    BY <1>0, <1>a, <2>1, <2>2, RecoverTypes
  <2>5. /\ failure' \in [Jobs -> {"none", "dropped", "rejected", "panicked"}]
        /\ poisoned' \in BOOLEAN
    BY <1>0, <1>b, <2>1, <2>2 DEF QueueTypeOK
  <2>6. committed' \in [Jobs -> BOOLEAN]
    BY <1>b, <2>1, <2>2
  <2>7. done' \in 0..tail' /\ UNCHANGED <<foreign, loss, lease, pending, pollFault>>
    BY <1>16, <1>a, <2>4 DEF SubmitFinishes
  <2>8. local' \in Locals
    BY <2>2, IdleIsLocal
  <2> QED
    BY <1>0, <2>3, <2>4, <2>5, <2>6, <2>7, <2>8 DEF QueueTypeOK, Locals
<1>17. CASE Gone \/ UNCHANGED vars
  BY <1>0, <1>17 DEF Gone, vars, QueueTypeOK
<1> QED
  BY <1>1, <1>2, <1>3, <1>4, <1>5, <1>6, <1>7, <1>8, <1>9, <1>10, <1>11, <1>12,
     <1>13, <1>14, <1>15, <1>16, <1>17 DEF Next, OwnerStep

-----------------------------------------------------------------------------
(* The list of pending and the leases. *)

LEMMA OwnedStep ==
  ASSUME IInv, [Next]_vars
  PROVE  Owned'
<1>0. QueueTypeOK /\ Owned
  BY DEF IInv
<1>a. /\ lease \in [Jobs -> {"recorded", "held", "aborted"} \cup Settled]
      /\ pending \in Seq(Jobs) /\ Len(pending) \in Nat /\ local \in Locals
  BY <1>0 DEF QueueTypeOK, Locals
<1>1. CASE /\ UNCHANGED <<lease, pending>>
           /\ local'.pc \in {"submit", "bind", "finish"} => pending # <<>>
           /\ local'.pc = "settle" => local'.index <= Len(pending)
  BY <1>0, <1>1 DEF Owned
<1>2. CASE GpuRetires \/ ForeignSubmit \/ Lose \/ Gone \/ UNCHANGED vars
  BY <1>0, <1>1, <1>2 DEF GpuRetires, ForeignSubmit, Lose, Gone, vars, entries, queue, Owned
<1>3. ASSUME NEW j \in Jobs, Callback(j) \/ ScopeSettles(j) PROVE Owned'
  BY <1>0, <1>1, <1>3 DEF Callback, ScopeSettles, queue, Owned
<1>4. ASSUME NEW c \in Calls, Call(c) PROVE Owned'
  <2>1. local'.pc \in {"gone", "poll"}
    BY <1>0, <1>4, Places
  <2> QED
    BY <1>1, <1>4, <2>1 DEF Call, entries, queue
<1>5. CASE PollFails \/ Poll \/ CollectEnds
  <2>1. local'.pc \in {"return", "observe"}
    BY <1>0, <1>5, Places
  <2> QED
    BY <1>1, <1>5, <2>1 DEF PollFails, Poll, CollectEnds, entries, queue
<1>6. CASE CollectReturns \/ SlotsReturns \/ ShutdownReturns \/ SubmitRefused
  <2>1. local'.pc \in {"idle", "poll", "gone"}
    BY <1>0, <1>6, Places
  <2> QED
    BY <1>1, <1>6, <2>1 DEF CollectReturns, SlotsReturns, ShutdownReturns, SubmitRefused,
                            entries, queue
<1>7. CASE Observe
  <2>1. local'.pc = "settle" /\ local'.index = local.index
    BY <1>0, <1>7, <1>a, ObserveEffect DEF Locals
  <2> QED
    BY <1>1, <1>7, <2>1 DEF Observe
<1>8. CASE Submit \/ Bind
  <2>1. local'.pc \in {"bind", "finish"} /\ pending # <<>>
    BY <1>0, <1>8, Places DEF Owned, Submit, Bind
  <2> QED
    BY <1>1, <1>8, <2>1 DEF Submit, Bind, queue
<1>9. CASE SubmitFinishes
  <2>1. local'.pc = "idle"
    BY <1>0, <1>9, Places
  <2> QED
    BY <1>1, <1>9, <2>1 DEF SubmitFinishes
<1>10. ASSUME NEW j \in Jobs, Abandon(j) \/ SubmitAborts(j) PROVE Owned'
  <2>1. lease[j] = "recorded" /\ lease' = [lease EXCEPT ![j] = "aborted"] /\ pending' = pending
    BY <1>10 DEF Abandon, SubmitAborts, queue
  <2>2. local'.pc \in {"idle", "gone"}
    BY <1>10 DEF Abandon, SubmitAborts, Returns, Idle
  <2>3. \A i \in 1..Len(pending) : pending[i] \in Jobs /\ pending[i] # j
    BY <1>0, <1>a, <2>1, ElementOfSeq DEF Owned
  <2> QED
    BY <1>0, <1>a, <2>1, <2>2, <2>3 DEF Owned
<1>11. CASE TerminalLoss
  <2>1. pending' = <<>> /\ local'.pc = "return"
    BY <1>11, <1>a DEF TerminalLoss, Locals
  <2> QED
    BY <2>1 DEF Owned
<1>12. CASE Settle
  <2>1. CASE UNCHANGED <<lease, pending>>
    <3>1. local'.pc = "observe"
      BY <1>0, <1>12, <1>a, SettleEffect DEF Locals
    <3> QED
      BY <1>1, <2>1, <3>1
  <2>2. CASE ~UNCHANGED <<lease, pending>>
    <3> DEFINE n == local.index
    <3>1. n \in 1..Len(pending) /\ Current = pending[n] /\ Current \in Jobs
      BY <1>0, <1>12, CurrentIsJob DEF Settle, Owned, Current
    <3>2. /\ lease' = [lease EXCEPT ![Current] = Outcome(Current)]
          /\ pending' = RemoveAt(pending, n)
          /\ local'.pc = "observe"
      BY <1>0, <1>12, <1>a, <2>2, SettleEffect DEF Locals
    <3>3. /\ Len(pending') = Len(pending) - 1
          /\ \A k \in 1..(Len(pending) - 1) : pending'[k] = pending[IF k < n THEN k ELSE k + 1]
      BY <1>a, <3>1, <3>2, RemoveAtProperties
    <3>4. ASSUME NEW k \in 1..Len(pending')
          PROVE  \E i \in 1..Len(pending) : i # n /\ pending'[k] = pending[i] /\ (i = k \/ i = k + 1)
                                            /\ (k < n <=> i = k)
      <4>1. k \in 1..(Len(pending) - 1) /\ k \in Nat /\ n \in Nat
        BY <1>a, <3>1, <3>3
      <4>2. CASE k < n
        BY <1>a, <3>3, <4>1, <4>2
      <4>3. CASE ~(k < n)
        <5>1. k + 1 \in 1..Len(pending) /\ k + 1 # n /\ k + 1 # k
          BY <1>a, <4>1, <4>3
        <5>2. pending'[k] = pending[k + 1]
          BY <3>3, <4>1, <4>3
        <5> QED
          BY <4>3, <5>1, <5>2
      <4> QED
        BY <4>2, <4>3
    <3>5. \A k \in 1..Len(pending') : lease'[pending'[k]] = "held"
      <4> SUFFICES ASSUME NEW k \in 1..Len(pending') PROVE lease'[pending'[k]] = "held"
        OBVIOUS
      <4>1. PICK i \in 1..Len(pending) : i # n /\ pending'[k] = pending[i]
        BY <3>4
      <4>2. pending[i] # Current /\ lease[pending[i]] = "held" /\ pending[i] \in Jobs
        BY <1>0, <1>a, <3>1, <4>1, ElementOfSeq DEF Owned
      <4> QED
        BY <1>a, <3>2, <4>1, <4>2
    <3>6. \A a, b \in 1..Len(pending') : a # b => pending'[a] # pending'[b]
      <4> SUFFICES ASSUME NEW a \in 1..Len(pending'), NEW b \in 1..Len(pending'), a # b
                   PROVE  pending'[a] # pending'[b]
        OBVIOUS
      <4>1. PICK i \in 1..Len(pending) : /\ i # n /\ pending'[a] = pending[i]
                                         /\ i = a \/ i = a + 1
                                         /\ a < n <=> i = a
        BY <3>4
      <4>2. PICK l \in 1..Len(pending) : /\ l # n /\ pending'[b] = pending[l]
                                         /\ l = b \/ l = b + 1
                                         /\ b < n <=> l = b
        BY <3>4
      <4>3. i # l
        BY <1>a, <3>1, <3>3, <4>1, <4>2
      <4> QED
        BY <1>0, <4>1, <4>2, <4>3 DEF Owned
    <3> QED
      BY <3>2, <3>5, <3>6 DEF Owned
  <2> QED
    BY <2>1, <2>2
<1>13. ASSUME NEW j \in Jobs, Install(j) PROVE Owned'
  <2>1. /\ lease[j] = "recorded" /\ lease' = [lease EXCEPT ![j] = "held"]
        /\ pending' = Append(pending, j) /\ local'.pc = "submit"
    BY <1>13, <1>a DEF Install, Goto, Locals
  <2>2. /\ Len(pending') = Len(pending) + 1 /\ pending' # <<>>
        /\ pending'[Len(pending) + 1] = j
        /\ \A i \in 1..Len(pending) : pending'[i] = pending[i]
    BY <1>a, <2>1, AppendProperties
  <2>3. \A i \in 1..Len(pending) : pending[i] \in Jobs /\ pending[i] # j /\ lease'[pending[i]] = "held"
    BY <1>0, <1>a, <2>1, ElementOfSeq DEF Owned
  <2>4. \A i \in 1..Len(pending') : i = Len(pending) + 1 \/ i \in 1..Len(pending)
    BY <1>a, <2>2
  <2>5. \A i \in 1..Len(pending') : lease'[pending'[i]] = "held"
    BY <1>a, <2>1, <2>2, <2>3, <2>4
  <2>6. \A a, b \in 1..Len(pending') : a # b => pending'[a] # pending'[b]
    BY <1>0, <2>2, <2>3, <2>4 DEF Owned
  <2> QED
    BY <2>1, <2>2, <2>5, <2>6 DEF Owned
<1> QED
  BY <1>2, <1>3, <1>4, <1>5, <1>6, <1>7, <1>8, <1>9, <1>10, <1>11, <1>12, <1>13 DEF Next, OwnerStep

-----------------------------------------------------------------------------
(* What one step can do to the submission and the fence of one job.        *)

(* Nothing, or a callback whose position has retired is called.            *)
Signals(k) ==
  /\ work'[k].at = work[k].at
  /\ work'[k].bound = work[k].bound
  /\ fence'[k].bound = fence[k].bound
  /\ work'[k].sig = "ok" => work[k].sig = "ok" \/ (work[k].bound # 0 /\ work[k].bound <= done)
  /\ fence'[k].sig = "ok" => fence[k].sig = "ok" \/ (fence[k].bound # 0 /\ fence[k].bound <= done)

(* A fence goes out behind everything submitted so far, or does not. *)
Recovers(k) ==
  /\ lease[k] = "held" /\ local.pc \in {"observe", "finish"}
  /\ work'[k].at = work[k].at
  /\ work'[k].bound = work[k].bound
  /\ work'[k].sig = work[k].sig
  /\ fence'[k].bound = 0 \/ (fence'[k].bound = tail + 1 /\ tail' = tail + 1)
  /\ fence'[k].sig = "none"

(* The entry is dropped with its callbacks. *)
Forgets(k) ==
  /\ lease[k] = "held" /\ local.pc = "settle"
  /\ work'[k].at = work[k].at
  /\ work'[k].bound = 0 /\ work'[k].sig = "none"
  /\ fence'[k].bound = 0 /\ fence'[k].sig = "none"

(* The commands go out. *)
Lands(k) ==
  /\ lease[k] = "held" /\ local.pc = "submit" /\ k = Last(pending) /\ local'.pc # "submit"
  /\ work'[k].at = tail + 1 /\ tail' = tail + 1
  /\ work'[k].bound = work[k].bound /\ work'[k].sig = work[k].sig
  /\ UNCHANGED fence

(* The callback is attached to the last submission. *)
Binds(k) ==
  /\ lease[k] = "held" /\ local.pc = "bind"
  /\ work'[k].at = work[k].at
  /\ work'[k].bound = tail /\ work'[k].sig = work[k].sig
  /\ UNCHANGED fence

Moves ==
  /\ tail <= tail' /\ done <= done'
  /\ \A k \in Jobs : Signals(k) \/ Recovers(k) \/ Forgets(k) \/ Lands(k) \/ Binds(k)

LEMMA LastIsHeld ==
  ASSUME IInv, local.pc \in {"submit", "bind", "finish"}
  PROVE  Last(pending) \in Jobs /\ lease[Last(pending)] = "held"
<1>1. QueueTypeOK /\ Owned /\ pending # <<>>
  BY DEF IInv, Owned
<1>2. Len(pending) \in 1..Len(pending) /\ Last(pending) \in Jobs
  BY <1>1, LastIsJob
<1> QED
  BY <1>1, <1>2 DEF Owned, Last

LEMMA CurrentIsHeld ==
  ASSUME IInv, Observe \/ Settle
  PROVE  Current \in Jobs /\ lease[Current] = "held" /\ Current = pending[local.index]
<1>1. QueueTypeOK /\ Owned /\ local.index <= Len(pending)
  BY DEF IInv, Owned, Observe, Settle
<1>2. local.index \in 1..Len(pending) /\ Current \in Jobs
  BY <1>1, CurrentIsJob
<1> QED
  BY <1>1, <1>2 DEF Owned, Current

LEMMA StepMoves ==
  ASSUME IInv, [Next]_vars
  PROVE  Moves
<1>0. QueueTypeOK /\ Owned
  BY DEF IInv
<1>a. /\ tail \in Nat /\ done \in 0..tail
      /\ work \in [Jobs -> Submissions] /\ fence \in [Jobs -> Submissions]
      /\ local \in Locals
  BY <1>0 DEF QueueTypeOK, Locals
<1>1. CASE tail <= tail' /\ done <= done' /\ UNCHANGED <<work, fence>>
  BY <1>1 DEF Moves, Signals
<1>2. CASE GpuRetires \/ ForeignSubmit
  BY <1>a, <1>1, <1>2 DEF GpuRetires, ForeignSubmit, entries
<1>3. CASE UNCHANGED <<gpu, entries>> \/ UNCHANGED <<gpu, work, fence>>
  BY <1>a, <1>1, <1>3 DEF gpu, entries
<1>4. CASE \/ Lose \/ (\E c \in Calls : Call(c)) \/ TerminalLoss \/ PollFails \/ Poll \/ CollectEnds
           \/ CollectReturns \/ SlotsReturns \/ ShutdownReturns \/ SubmitRefused
           \/ (\E j \in Jobs : Abandon(j) \/ SubmitAborts(j) \/ Install(j)) \/ Gone
           \/ UNCHANGED vars
  BY <1>3, <1>4 DEF Lose, Call, TerminalLoss, PollFails, Poll, CollectEnds, CollectReturns,
       SlotsReturns, ShutdownReturns, SubmitRefused, Abandon, SubmitAborts, Install, Gone,
       vars, gpu, entries
<1>5. ASSUME NEW j \in Jobs, Callback(j) PROVE Moves
  <2>1. tail' = tail /\ done' = done
    BY <1>5 DEF Callback, gpu
  <2>2. \A k \in Jobs : Signals(k)
    <3>1. CASE /\ UNCHANGED fence
               /\ \E sig \in {"ok", "dropped"} :
                    /\ work' = [work EXCEPT ![j].sig = sig]
                    /\ work[j].bound # 0
                    /\ sig = "ok" => work[j].bound <= done
      BY <1>a, <3>1 DEF Signals, Submissions
    <3>2. CASE /\ UNCHANGED work
               /\ \E sig \in {"ok", "dropped"} :
                    /\ fence' = [fence EXCEPT ![j].sig = sig]
                    /\ fence[j].bound # 0
                    /\ sig = "ok" => fence[j].bound <= done
      BY <1>a, <3>2 DEF Signals, Submissions
    <3> QED
      BY <1>5, <3>1, <3>2, CallbackEffect
  <2> QED
    BY <1>a, <2>1, <2>2 DEF Moves
<1>6. ASSUME NEW j \in Jobs, ScopeSettles(j) PROVE Moves
  <2>1. tail' = tail /\ done' = done
    BY <1>6 DEF ScopeSettles, gpu
  <2>2. \A k \in Jobs : Signals(k)
    BY <1>6, <1>a, ScopeEffect, SMTT(30) DEF Signals, Submissions
  <2> QED
    BY <1>a, <2>1, <2>2 DEF Moves
<1>7. CASE Observe
  <2>1. Current \in Jobs /\ lease[Current] = "held" /\ local.pc = "observe"
    BY <1>7, CurrentIsHeld DEF Observe
  <2>2. done' = done /\ UNCHANGED work
    BY <1>7 DEF Observe
  <2>3. UNCHANGED <<tail, fence>> \/ Recover(Current)
    BY <1>0, <1>7, ObserveEffect
  <2>4. CASE Recover(Current)
    <3>1. PICK s \in Submissions :
            /\ fence' = [fence EXCEPT ![Current] = s]
            /\ s.sig = "none"
            /\ \/ s.bound = tail + 1 /\ tail' = tail + 1
               \/ s.bound = 0 /\ tail' = tail
      BY <1>a, <2>1, <2>4, RecoverEffect
    <3>2. Recovers(Current) /\ \A k \in Jobs \ {Current} : Signals(k)
      BY <1>a, <2>1, <2>2, <3>1 DEF Recovers, Signals
    <3> QED
      BY <1>a, <2>2, <3>1, <3>2 DEF Moves
  <2> QED
    BY <1>a, <1>1, <2>2, <2>3, <2>4
<1>8. CASE Settle
  <2>1. Current \in Jobs /\ lease[Current] = "held" /\ local.pc = "settle"
    BY <1>8, CurrentIsHeld DEF Settle
  <2>2. tail' = tail /\ done' = done
    BY <1>8 DEF Settle, gpu
  <2>3. \/ UNCHANGED <<work, fence>>
        \/ /\ work' = [work EXCEPT ![Current].bound = 0, ![Current].sig = "none"]
           /\ fence' = [fence EXCEPT ![Current] = NoSubmission]
    BY <1>0, <1>8, SettleEffect
  <2>4. CASE /\ work' = [work EXCEPT ![Current].bound = 0, ![Current].sig = "none"]
             /\ fence' = [fence EXCEPT ![Current] = NoSubmission]
    <3>1. /\ work'[Current].at = work[Current].at
          /\ work'[Current].bound = 0 /\ work'[Current].sig = "none"
          /\ \A k \in Jobs \ {Current} : work'[k] = work[k]
      BY <1>a, <2>1, <2>4, Forgotten
    <3>2. Forgets(Current) /\ \A k \in Jobs \ {Current} : Signals(k)
      BY <1>a, <2>1, <2>4, <3>1 DEF Forgets, Signals, NoSubmission
    <3> QED
      BY <1>a, <2>2, <3>2 DEF Moves
  <2> QED
    BY <1>a, <1>1, <2>2, <2>3, <2>4
<1>9. CASE Submit \/ Bind
  <2> DEFINE j == Last(pending)
  <2>1. j \in Jobs /\ lease[j] = "held" /\ done' = done /\ UNCHANGED fence
    BY <1>9, LastIsHeld DEF Submit, Bind, gpu
  <2>2. CASE Submit
    <3>1. \/ /\ tail' = tail + 1 /\ work' = [work EXCEPT ![j].at = tail + 1]
             /\ local' = [local EXCEPT !.pc = "bind"]
          \/ /\ tail' = tail
             /\ \/ work' = [work EXCEPT ![j].scope = "err"]
                \/ work' = [work EXCEPT ![j].sig = "dropped"]
      BY <1>0, <2>2, SubmitEffect
    <3>2. local.pc = "submit" /\ j = Last(pending)
      BY <2>2 DEF Submit
    <3> HIDE DEF j
    <3>3. CASE tail' = tail /\ \/ work' = [work EXCEPT ![j].scope = "err"]
                               \/ work' = [work EXCEPT ![j].sig = "dropped"]
      BY <1>a, <2>1, <3>3 DEF Moves, Signals, Submissions
    <3>4. CASE /\ tail' = tail + 1 /\ work' = [work EXCEPT ![j].at = tail + 1]
               /\ local' = [local EXCEPT !.pc = "bind"]
      <4>1. local'.pc # "submit"
        BY <1>a, <3>4 DEF Locals
      <4>2. Lands(j)
        BY <1>a, <2>1, <3>2, <3>4, <4>1 DEF Lands, Submissions
      <4>3. \A k \in Jobs \ {j} : Signals(k)
        BY <1>a, <2>1, <3>4 DEF Signals
      <4> QED
        BY <1>a, <2>1, <3>4, <4>2, <4>3 DEF Moves
    <3> QED
      BY <3>1, <3>3, <3>4
  <2>3. CASE Bind
    <3>1. \/ work' = [work EXCEPT ![j].bound = tail]
          \/ work' = [work EXCEPT ![j].sig = "dropped"]
      BY <1>0, <2>3, BindEffect
    <3>2. local.pc = "bind" /\ tail' = tail
      BY <2>3 DEF Bind, gpu
    <3> HIDE DEF j
    <3>3. CASE work' = [work EXCEPT ![j].sig = "dropped"]
      BY <1>a, <2>1, <3>2, <3>3 DEF Moves, Signals, Submissions
    <3>4. CASE work' = [work EXCEPT ![j].bound = tail]
      <4>1. Binds(j)
        BY <1>a, <2>1, <3>2, <3>4 DEF Binds, Submissions
      <4>2. \A k \in Jobs \ {j} : Signals(k)
        BY <1>a, <2>1, <3>4 DEF Signals
      <4> QED
        BY <1>a, <2>1, <3>2, <4>1, <4>2 DEF Moves
    <3> QED
      BY <3>1, <3>3, <3>4
  <2> QED
    BY <1>9, <2>2, <2>3
<1>10. CASE SubmitFinishes
  <2> DEFINE j == Last(pending)
  <2>1. j \in Jobs /\ lease[j] = "held" /\ done' = done /\ local.pc = "finish"
    BY <1>10, LastIsHeld DEF SubmitFinishes
  <2>2. PICK x \in {"open", "ok", "err"} :
          /\ work' = [work EXCEPT ![j].scope = x]
          /\ UNCHANGED <<tail, fence>> \/ Recover(j)
    BY <1>0, <1>10, FinishEffect
  <2> HIDE DEF j
  <2>3. \A k \in Jobs : /\ work'[k].at = work[k].at /\ work'[k].bound = work[k].bound
                        /\ work'[k].sig = work[k].sig
    BY <1>a, <2>1, <2>2 DEF Submissions
  <2>4. CASE UNCHANGED <<tail, fence>>
    BY <1>a, <2>1, <2>3, <2>4 DEF Moves, Signals
  <2>5. CASE Recover(j)
    <3>1. PICK s \in Submissions :
            /\ fence' = [fence EXCEPT ![j] = s]
            /\ s.sig = "none"
            /\ \/ s.bound = tail + 1 /\ tail' = tail + 1
               \/ s.bound = 0 /\ tail' = tail
      BY <1>a, <2>1, <2>5, RecoverEffect
    <3>2. Recovers(j) /\ \A k \in Jobs \ {j} : Signals(k)
      BY <1>a, <2>1, <2>3, <3>1 DEF Recovers, Signals
    <3> QED
      BY <1>a, <2>1, <3>1, <3>2 DEF Moves
  <2> QED
    BY <2>2, <2>4, <2>5
<1> QED
  BY <1>2, <1>4, <1>5, <1>6, <1>7, <1>8, <1>9, <1>10 DEF Next, OwnerStep

-----------------------------------------------------------------------------
(* Positions, and what a signal proves. *)

LEMMA PositionsStep ==
  ASSUME IInv, [Next]_vars
  PROVE  Positions' /\ SignalsProve'
<1>0. QueueTypeOK /\ QueueTypeOK' /\ Moves
  BY TypeStep, StepMoves DEF IInv
<1>a. /\ tail \in Nat /\ tail' \in Nat /\ done \in Nat /\ done' \in Nat
      /\ work \in [Jobs -> Submissions] /\ fence \in [Jobs -> Submissions]
      /\ work' \in [Jobs -> Submissions] /\ fence' \in [Jobs -> Submissions]
      /\ tail <= tail' /\ done <= done'
  BY <1>0 DEF QueueTypeOK, Moves
<1> SUFFICES ASSUME NEW k \in Jobs
             PROVE  /\ work'[k].at <= tail'
                    /\ work'[k].bound # 0 => work'[k].at <= work'[k].bound
                    /\ fence'[k].bound # 0 => work'[k].at <= fence'[k].bound
                    /\ work'[k].sig = "ok" \/ fence'[k].sig = "ok" => work'[k].at <= done'
  BY DEF Positions, SignalsProve
<1>1. /\ work[k].at \in Nat /\ work[k].bound \in Nat /\ fence[k].bound \in Nat
      /\ work'[k].at \in Nat /\ work'[k].bound \in Nat /\ fence'[k].bound \in Nat
  BY <1>a DEF Submissions
<1>2. /\ work[k].at <= tail
      /\ work[k].bound # 0 => work[k].at <= work[k].bound
      /\ fence[k].bound # 0 => work[k].at <= fence[k].bound
      /\ work[k].sig = "ok" \/ fence[k].sig = "ok" => work[k].at <= done
  BY DEF IInv, Positions, SignalsProve
<1>3. CASE Signals(k)
  BY <1>a, <1>1, <1>2, <1>3 DEF Signals
<1>4. CASE Recovers(k)
  BY <1>a, <1>1, <1>2, <1>4 DEF Recovers
<1>5. CASE Forgets(k)
  BY <1>a, <1>1, <1>2, <1>5 DEF Forgets
<1>6. CASE Lands(k)
  <2>1. Fresh(k)
    BY <1>6 DEF IInv, RecordedIsFresh, Lands
  <2> QED
    BY <1>a, <1>1, <1>6, <2>1 DEF Lands, Fresh
<1>7. CASE Binds(k)
  BY <1>a, <1>1, <1>2, <1>7 DEF Binds
<1> QED
  BY <1>0, <1>3, <1>4, <1>5, <1>6, <1>7 DEF Moves

-----------------------------------------------------------------------------
(* A job is fresh until its commands go out. *)

LEMMA RecordedStep ==
  ASSUME IInv, [Next]_vars
  PROVE  RecordedIsFresh'
<1>0. QueueTypeOK /\ Owned /\ Moves
  BY StepMoves DEF IInv
<1>a. /\ lease \in [Jobs -> {"recorded", "held", "aborted"} \cup Settled]
      /\ pending \in Seq(Jobs) /\ local \in Locals
  BY <1>0 DEF QueueTypeOK, Locals
<1> SUFFICES ASSUME NEW k \in Jobs,
                    lease'[k] = "recorded" \/ (local'.pc = "submit" /\ k = Last(pending'))
             PROVE  Fresh(k)'
  BY DEF RecordedIsFresh
<1>1. \/ lease[k] = "recorded"
      \/ local.pc = "submit" /\ k = Last(pending) /\ local'.pc = "submit"
  <2>1. CASE UNCHANGED <<lease, pending>> /\ (local'.pc = "submit" => local.pc = "submit")
    BY <2>1
  <2>2. CASE \/ GpuRetires \/ ForeignSubmit \/ Lose \/ Gone \/ UNCHANGED vars
             \/ \E j \in Jobs : Callback(j) \/ ScopeSettles(j)
    BY <2>1, <2>2 DEF GpuRetires, ForeignSubmit, Lose, Gone, vars, Callback, ScopeSettles,
                      entries, queue
  <2>3. CASE \/ \E c \in Calls : Call(c)
             \/ CollectReturns \/ SlotsReturns \/ ShutdownReturns \/ SubmitRefused
    <3>1. local'.pc # "submit"
      BY <1>0, <2>3, Places
    <3>2. UNCHANGED lease
      BY <2>3 DEF Call, CollectReturns, SlotsReturns, ShutdownReturns, SubmitRefused, entries
    <3> QED
      BY <3>1, <3>2
  <2>4. CASE PollFails \/ Poll \/ CollectEnds \/ Observe \/ TerminalLoss \/ Settle
    <3>1. local'.pc # "submit"
      BY <1>0, <2>4, Places
    <3>2. lease'[k] = "recorded" => lease[k] = "recorded"
      <4>1. CASE Settle
        <5>1. \/ UNCHANGED lease
              \/ lease' = [lease EXCEPT ![Current] = Outcome(Current)] /\ Current \in Jobs
          BY <1>0, <4>1, SettleEffect DEF IInv
        <5>2. lease[Current] = "held" /\ local.seen \in {"none", "ok", "rejected", "dropped"}
          BY <1>a, <4>1, CurrentIsHeld DEF Locals
        <5>3. Outcome(Current) # "recorded"
          BY <5>2 DEF Outcome
        <5> QED
          BY <1>a, <5>1, <5>2, <5>3
      <4>2. CASE PollFails \/ Poll \/ CollectEnds \/ Observe \/ TerminalLoss
        BY <1>a, <4>2 DEF PollFails, Poll, CollectEnds, Observe, TerminalLoss, entries
      <4> QED
        BY <2>4, <4>1, <4>2
    <3> QED
      BY <3>1, <3>2
  <2>5. CASE Submit \/ Bind \/ SubmitFinishes
    <3>1. local'.pc # "submit"
      BY <1>0, <2>5, Places
    <3>2. UNCHANGED lease
      BY <2>5 DEF Submit, Bind, SubmitFinishes
    <3> QED
      BY <3>1, <3>2
  <2>6. ASSUME NEW j \in Jobs, Abandon(j) \/ SubmitAborts(j)
        PROVE  lease[k] = "recorded"
    <3>1. lease[j] = "recorded" /\ lease' = [lease EXCEPT ![j] = "aborted"]
      BY <2>6 DEF Abandon, SubmitAborts
    <3>2. local'.pc # "submit"
      BY <2>6 DEF Abandon, SubmitAborts, Returns, Idle
    <3> QED
      BY <1>a, <3>1, <3>2
  <2>7. ASSUME NEW j \in Jobs, Install(j)
        PROVE  lease[k] = "recorded"
    <3>1. lease[j] = "recorded" /\ lease' = [lease EXCEPT ![j] = "held"]
      BY <2>7 DEF Install
    <3>2. Last(pending') = j
      BY <1>a, <2>7, AppendProperties DEF Install, Last
    <3> QED
      BY <1>a, <3>1, <3>2
  <2> QED
    BY <2>2, <2>3, <2>4, <2>5, <2>6, <2>7 DEF Next, OwnerStep
<1>2. Fresh(k) /\ (lease[k] = "held" => local.pc = "submit" /\ local'.pc = "submit")
  BY <1>1 DEF IInv, RecordedIsFresh
<1>3. Signals(k)
  BY <1>0, <1>2 DEF Moves, Recovers, Forgets, Lands, Binds
<1> QED
  BY <1>2, <1>3 DEF Fresh, Signals

-----------------------------------------------------------------------------
(* What collect has read. *)

LEMMA AtStays ==
  ASSUME IInv, [Next]_vars, local.pc # "submit"
  PROVE  \A k \in Jobs : work'[k].at = work[k].at
BY StepMoves DEF Moves, Signals, Recovers, Forgets, Lands, Binds

LEMMA EmptyStep ==
  ASSUME IInv, [Next]_vars
  PROVE  EmptyProves'
<1>0. QueueTypeOK /\ Owned /\ Moves /\ QueueTypeOK'
  BY StepMoves, TypeStep DEF IInv
<1>a. local \in Locals /\ tail \in Nat /\ done \in Nat /\ done' \in Nat /\ done <= done'
  BY <1>0 DEF QueueTypeOK, Locals, Moves
<1>b. \A k \in Jobs : work[k].at \in Nat /\ work[k].at <= tail
  BY <1>0 DEF QueueTypeOK, Submissions, IInv, Positions
<1> SUFFICES ASSUME local'.pc \in {"observe", "settle"}, local'.empty
             PROVE  \A k \in Jobs : work'[k].at <= done'
  BY DEF EmptyProves
<1>1. CASE local.pc \in {"observe", "settle"} /\ local.empty
  <2>1. \A k \in Jobs : work[k].at <= done /\ work'[k].at = work[k].at
    BY <1>1, AtStays DEF IInv, EmptyProves
  <2> QED
    BY <1>a, <1>b, <2>1
<1>2. CASE Poll
  <2>1. local'.empty = (done = tail /\ ~Browser)
    BY <1>a, <1>2 DEF Poll, Locals
  <2>2. done = tail /\ UNCHANGED <<work, done>>
    BY <1>2, <2>1 DEF Poll, gpu, entries
  <2> QED
    BY <1>b, <2>2
<1>3. CASE ~Poll
  <2>1. local.pc \in {"observe", "settle"} /\ local.empty
    <3>1. CASE UNCHANGED local
      BY <3>1
    <3>2. CASE \/ GpuRetires \/ ForeignSubmit \/ Lose \/ Gone \/ UNCHANGED vars
               \/ \E j \in Jobs : Callback(j) \/ ScopeSettles(j) \/ Abandon(j)
      BY <3>1, <3>2 DEF GpuRetires, ForeignSubmit, Lose, Gone, vars, Callback, ScopeSettles,
                        Abandon
    <3>3. CASE Observe
      BY <1>0, <1>a, <3>3, ObserveEffect DEF Observe, Locals
    <3>4. CASE Settle
      BY <1>0, <1>a, <3>4, SettleEffect DEF IInv, Settle, Locals
    <3>5. CASE \/ \E c \in Calls : Call(c)
               \/ PollFails \/ CollectEnds \/ TerminalLoss
               \/ CollectReturns \/ SlotsReturns \/ ShutdownReturns \/ SubmitRefused
               \/ \E j \in Jobs : SubmitAborts(j) \/ Install(j)
               \/ Submit \/ Bind \/ SubmitFinishes
      BY <1>0, <3>5, Places
    <3> QED
      BY <1>3, <3>2, <3>3, <3>4, <3>5 DEF Next, OwnerStep
  <2> QED
    BY <1>1, <2>1
<1> QED
  BY <1>2, <1>3

LEMMA StatusProves ==
  ASSUME NEW s \in Submissions
  PROVE  /\ Status(s) \in {"none", "ok", "rejected", "dropped"}
         /\ Status(s) = "ok" => s.sig = "ok"
BY DEF Status, Submissions

(* The second half of the loop body comes after the first, and only others *)
(* move in between.                                                        *)
LEMMA SettleComes ==
  ASSUME IInv, [Next]_vars, local'.pc = "settle"
  PROVE  \/ Observe
         \/ UNCHANGED <<local, pending, failure, committed>> /\ local.pc = "settle"
<1>0. QueueTypeOK /\ Owned
  BY DEF IInv
<1>1. CASE \/ GpuRetires \/ ForeignSubmit \/ Lose \/ Gone \/ UNCHANGED vars
           \/ \E j \in Jobs : Callback(j) \/ ScopeSettles(j) \/ Abandon(j)
  BY <1>1 DEF GpuRetires, ForeignSubmit, Lose, Gone, vars, Callback, ScopeSettles,
              Abandon, entries, queue
<1>2. CASE \/ \E c \in Calls : Call(c)
           \/ PollFails \/ CollectEnds \/ TerminalLoss \/ Poll \/ Settle
           \/ CollectReturns \/ SlotsReturns \/ ShutdownReturns \/ SubmitRefused
           \/ \E j \in Jobs : SubmitAborts(j) \/ Install(j)
           \/ Submit \/ Bind \/ SubmitFinishes
  BY <1>0, <1>2, Places
<1> QED
  BY <1>1, <1>2 DEF Next, OwnerStep

LEMMA SeenStep ==
  ASSUME IInv, [Next]_vars
  PROVE  SeenProves'
<1>0. QueueTypeOK /\ QueueTypeOK' /\ Owned /\ SeenProves /\ SignalsProve /\ Moves
  BY StepMoves, TypeStep DEF IInv
<1>a. /\ work \in [Jobs -> Submissions]
      /\ failure \in [Jobs -> {"none", "dropped", "rejected", "panicked"}]
      /\ done \in Nat /\ done' \in Nat /\ done <= done'
  BY <1>0 DEF QueueTypeOK, Moves
<1> SUFFICES ASSUME local'.pc = "settle" PROVE SeenProves'
  BY DEF SeenProves
<1>1. Observe \/ (UNCHANGED <<local, pending, failure>> /\ local.pc = "settle")
  BY SettleComes
<1>2. CASE UNCHANGED <<local, pending, failure>> /\ local.pc = "settle"
  <2>1. local.index <= Len(pending)
    BY <1>0, <1>2 DEF Owned
  <2>2. Current \in Jobs /\ Current = pending[local.index]
    BY <1>0, <2>1, CurrentIsJob DEF Current
  <2>3. work'[Current].at = work[Current].at /\ work[Current].at \in Nat
    BY <1>a, <1>2, <2>2, AtStays DEF Submissions
  <2>4. /\ local.seen = "ok" => work[Current].at <= done
        /\ failure[Current] = "none" => local.seen \in {"none", "ok"}
    BY <1>0, <1>2, <2>2 DEF SeenProves, Failing
  <2>5. local.seen = "ok" => work'[Current].at <= done'
    BY <1>a, <2>3, <2>4
  <2> QED
    BY <1>2, <2>2, <2>4, <2>5 DEF SeenProves, Failing
<1>3. CASE Observe
  <2> DEFINE status == Status(work[Current])
  <2>1. /\ Current \in Jobs /\ Current = pending[local.index]
        /\ local' = [local EXCEPT !.pc = "settle", !.seen = status]
        /\ \/ /\ Failing(Current) \/ ~Fails(status)
              /\ UNCHANGED failure
           \/ /\ Fails(status)
              /\ failure' = [failure EXCEPT ![Current] = status]
    BY <1>0, <1>3, ObserveEffect DEF Current
  <2>2. UNCHANGED <<work, pending, done>>
    BY <1>3 DEF Observe
  <2>3. work[Current] \in Submissions
    BY <1>a, <2>1
  <2>4. /\ status \in {"none", "ok", "rejected", "dropped"}
        /\ status = "ok" => work[Current].sig = "ok"
    BY <2>3, StatusProves
  <2> HIDE DEF status
  <2>5. local'.index = local.index /\ local'.seen = status
    <3>1. local \in Locals
      BY <1>0 DEF QueueTypeOK, Locals
    <3>2. local = [pc |-> local.pc, call |-> local.call, index |-> local.index,
                   empty |-> local.empty, seen |-> local.seen, error |-> local.error]
      BY <3>1 DEF Locals
    <3> QED
      BY <2>1, <3>2
  <2>6. status = "ok" => work[Current].at <= done
    BY <1>0, <2>1, <2>4 DEF SignalsProve
  <2>7. failure'[Current] = "none" => status \in {"none", "ok"}
    BY <1>a, <2>1, <2>4 DEF Failing, Fails
  <2> QED
    BY <2>1, <2>2, <2>5, <2>6, <2>7 DEF SeenProves, Failing
<1> QED
  BY <1>1, <1>2, <1>3

-----------------------------------------------------------------------------
(* What one step can do to the lease of one job. *)

LeaseMoves(k) ==
  \/ lease'[k] = lease[k]
  \/ lease[k] = "recorded" /\ lease'[k] \in {"aborted", "held"}
  \/ lease[k] = "held" /\ lease'[k] = "lost" /\ loss
  \/ /\ Settle /\ k = Current
     /\ lease[k] = "held" /\ lease'[k] = Outcome(k) /\ Outcome(k) # "none"

LEMMA StepMovesLeases ==
  ASSUME IInv, [Next]_vars, NEW k \in Jobs
  PROVE  LeaseMoves(k)
<1>0. QueueTypeOK /\ Owned
  BY DEF IInv
<1>a. lease \in [Jobs -> {"recorded", "held", "aborted"} \cup Settled] /\ pending \in Seq(Jobs)
  BY <1>0 DEF QueueTypeOK
<1>1. CASE UNCHANGED lease
  BY <1>1 DEF LeaseMoves
<1>2. CASE \/ GpuRetires \/ ForeignSubmit \/ Lose \/ Gone \/ UNCHANGED vars
           \/ \E j \in Jobs : Callback(j) \/ ScopeSettles(j)
           \/ \E c \in Calls : Call(c)
           \/ PollFails \/ Poll \/ Observe \/ CollectEnds
           \/ CollectReturns \/ SlotsReturns \/ ShutdownReturns \/ SubmitRefused
           \/ Submit \/ Bind \/ SubmitFinishes
  BY <1>1, <1>2 DEF GpuRetires, ForeignSubmit, Lose, Gone, vars, Callback, ScopeSettles, Call,
       PollFails, Poll, Observe, CollectEnds, CollectReturns, SlotsReturns, ShutdownReturns,
       SubmitRefused, Submit, Bind, SubmitFinishes, entries
<1>3. ASSUME NEW j \in Jobs, Abandon(j) \/ SubmitAborts(j) \/ Install(j) PROVE LeaseMoves(k)
  <2>1. /\ lease[j] = "recorded"
        /\ \E to \in {"aborted", "held"} : lease' = [lease EXCEPT ![j] = to]
    BY <1>3 DEF Abandon, SubmitAborts, Install
  <2> QED
    BY <1>a, <2>1 DEF LeaseMoves
<1>4. CASE TerminalLoss
  <2>1. /\ loss
        /\ lease'[k] = IF k \in ToSet(pending) THEN "lost" ELSE lease[k]
    BY <1>4 DEF TerminalLoss
  <2>2. k \in ToSet(pending) => lease[k] = "held"
    BY <1>0, <1>a DEF Owned, ToSet
  <2> QED
    BY <2>1, <2>2 DEF LeaseMoves
<1>5. CASE Settle
  <2>1. Current \in Jobs /\ lease[Current] = "held"
    BY <1>5, CurrentIsHeld
  <2>2. \/ UNCHANGED lease
        \/ /\ Outcome(Current) # "none"
           /\ lease' = [lease EXCEPT ![Current] = Outcome(Current)]
    BY <1>0, <1>5, SettleEffect
  <2>3. CASE /\ Outcome(Current) # "none"
             /\ lease' = [lease EXCEPT ![Current] = Outcome(Current)]
    <3>1. CASE k = Current
      BY <1>5, <1>a, <2>1, <2>3, <3>1 DEF LeaseMoves
    <3>2. CASE k # Current
      BY <1>a, <2>3, <3>2 DEF LeaseMoves
    <3> QED
      BY <3>1, <3>2
  <2> QED
    BY <1>1, <2>2, <2>3
<1> QED
  BY <1>2, <1>3, <1>4, <1>5 DEF Next, OwnerStep

(* The entry that is settled has retired. *)
LEMMA OutcomeProves ==
  ASSUME IInv, Settle, Outcome(Current) # "none"
  PROVE  Outcome(Current) \in {"ok", "failed"} /\ work[Current].at <= done
<1>0. /\ QueueTypeOK /\ SignalsProve /\ EmptyProves /\ SeenProves
      /\ Current \in Jobs /\ Current = pending[local.index] /\ local.pc = "settle"
  BY CurrentIsHeld DEF IInv, Settle
<1>1. fence[Current] \in Submissions
  BY <1>0 DEF QueueTypeOK
<1>2. CASE ~Failing(Current)
  <2>1. Outcome(Current) = local.seen
    BY <1>2 DEF Outcome, Recovered, Failing
  <2> QED
    BY <1>0, <1>2, <2>1 DEF SeenProves
<1>3. CASE Failing(Current)
  <2>1. Retired(Current) /\ Outcome(Current) \in {"ok", "failed"}
    BY <1>3 DEF Outcome, Recovered
  <2>2. local.empty \/ Status(fence[Current]) = "ok"
    BY <2>1 DEF Retired
  <2>3. local.empty \/ fence[Current].sig = "ok"
    BY <1>1, <2>2, StatusProves
  <2> QED
    BY <1>0, <2>1, <2>3 DEF EmptyProves, SignalsProve
<1> QED
  BY <1>2, <1>3

LEMMA SettledStep ==
  ASSUME IInv, [Next]_vars
  PROVE  SettledHasRetired'
<1>0. QueueTypeOK /\ QueueTypeOK' /\ Moves /\ SettledHasRetired
  BY StepMoves, TypeStep DEF IInv
<1>a. /\ work \in [Jobs -> Submissions]
      /\ done \in Nat /\ done' \in Nat /\ done <= done'
  BY <1>0 DEF QueueTypeOK, Moves
<1>b. loss => loss'
  BY DEF Next, OwnerStep, GpuRetires, ForeignSubmit, Lose, Callback, ScopeSettles, Abandon, Call,
         TerminalLoss, PollFails, Poll, Observe, Settle, CollectEnds, CollectReturns,
         SlotsReturns, ShutdownReturns, SubmitRefused, SubmitAborts, Install, Submit, Bind,
         SubmitFinishes, Gone, vars
<1> SUFFICES ASSUME NEW k \in Jobs
             PROVE  /\ lease'[k] \in {"ok", "failed"} => work'[k].at <= done'
                    /\ lease'[k] = "lost" => loss'
                    /\ lease'[k] \in {"recorded", "aborted"} => work'[k].at = 0
  BY DEF SettledHasRetired
<1>1. /\ work[k].at \in Nat
      /\ lease[k] \in {"ok", "failed"} => work[k].at <= done
      /\ lease[k] = "lost" => loss
      /\ lease[k] \in {"recorded", "aborted"} => work[k].at = 0
  BY <1>0, <1>a DEF SettledHasRetired, Submissions
<1>2. lease[k] # "held" => work'[k].at = work[k].at
  BY <1>0 DEF Moves, Signals, Recovers, Forgets, Lands, Binds
<1>3. CASE lease'[k] = lease[k]
  BY <1>a, <1>b, <1>1, <1>2, <1>3
<1>4. CASE lease[k] = "recorded" /\ lease'[k] \in {"aborted", "held"}
  BY <1>1, <1>2, <1>4
<1>5. CASE lease[k] = "held" /\ lease'[k] = "lost" /\ loss
  BY <1>b, <1>5
<1>6. CASE Settle /\ k = Current /\ lease'[k] = Outcome(k) /\ Outcome(k) # "none"
  <2>1. Outcome(k) \in {"ok", "failed"} /\ work[k].at <= done
    BY <1>6, OutcomeProves
  <2>2. work'[k].at = work[k].at
    BY <1>6, AtStays DEF Settle
  <2> QED
    BY <1>a, <1>1, <1>6, <2>1, <2>2
<1> QED
  BY <1>3, <1>4, <1>5, <1>6, StepMovesLeases DEF LeaseMoves

-----------------------------------------------------------------------------
(* What the code relies on wherever it releases a lease holds in every     *)
(* state: the initial state has it, and each step of Next keeps each part. *)
THEOREM Inductive == Spec => []IInv
<1>1. IInv /\ [Next]_vars => IInv'
  BY TypeStep, OwnedStep, PositionsStep, RecordedStep, EmptyStep, SeenStep, SettledStep DEF IInv
<1> QED
  BY InitHolds, <1>1, PTL DEF Spec

(* The variables keep their types, and pending never outgrows the queue's  *)
(* capacity, for any number of jobs.                                       *)
THEOREM TypeCorrect == Spec => []QueueTypeOK
<1>1. IInv => QueueTypeOK
  BY DEF IInv
<1> QED
  BY Inductive, <1>1, PTL

(* A lease is released only for work that has retired, never ran, or was   *)
(* on a device that is lost: whatever callbacks, scopes, fences, polls and *)
(* other submitters do.                                                    *)
THEOREM RetiredBeforeRelease == Spec => []SettledHasRetired
<1>1. IInv => SettledHasRetired
  BY DEF IInv
<1> QED
  BY Inductive, <1>1, PTL

-----------------------------------------------------------------------------
(***************************************************************************)
(* WorkQueue implements Leases, in a browser or not: every step of the     *)
(* queue, of the GPU and of the callbacks is one step of the contract, or  *)
(* none.                                                                   *)
(***************************************************************************)

(* What the refinement relies on beyond IInv.                              *)

(* The job whose submission the owner is in the middle of. *)
Underway(j) == local.pc \in {"submit", "bind", "finish"} /\ j = Last(pending)

(* A held job is in the list. *)
Listed == \A j \in Jobs : lease[j] = "held" => \E i \in 1..Len(pending) : pending[i] = j

(* Positions tell jobs apart, and a job is submitted once. *)
Distinct ==
  /\ \A j, k \in Jobs : j # k /\ work[j].at # 0 => work[j].at # work[k].at
  /\ local.pc = "submit" => work[Last(pending)].at = 0

(* Leases are told of a submission after it, and every submission has its  *)
(* scopes by then.                                                         *)
Uncommitted == \A j \in Jobs : lease[j] = "recorded" \/ Underway(j) => ~committed[j]

Scoped == \A j \in Jobs : lease[j] = "held" /\ ~Underway(j) => work[j].scope # "none"

(* The status that lets collect report a success was a committed one. *)
SeenCommits ==
  local.pc = "settle" /\ local.seen = "ok" /\ ~Failing(Current) => committed[Current]

JInv == IInv /\ Listed /\ Distinct /\ Uncommitted /\ Scoped /\ SeenCommits

-----------------------------------------------------------------------------
LEMMA JInitHolds == Init => JInv
<1>1. ASSUME Init PROVE Listed /\ Distinct /\ Uncommitted /\ Scoped /\ SeenCommits
  BY <1>1 DEF Init, NoSubmission, Idle, Listed, Distinct, Uncommitted, Scoped, SeenCommits, Underway
<1> QED
  BY InitHolds, <1>1 DEF JInv

(* The submission in progress was installed, or is the same as before. *)
LEMMA UnderwayComes ==
  ASSUME IInv, [Next]_vars, local'.pc \in {"submit", "bind", "finish"}
  PROVE  \/ \E j \in Jobs : Install(j) /\ Last(pending') = j /\ local'.pc = "submit"
         \/ (Submit \/ Bind) /\ UNCHANGED <<pending, lease>> /\ local'.pc # "submit"
         \/ UNCHANGED <<local, pending, lease>>
<1>0. QueueTypeOK /\ Owned /\ pending \in Seq(Jobs)
  BY DEF IInv, QueueTypeOK
<1>1. CASE \/ GpuRetires \/ ForeignSubmit \/ Lose \/ Gone \/ UNCHANGED vars
           \/ \E j \in Jobs : Callback(j) \/ ScopeSettles(j)
  BY <1>1 DEF GpuRetires, ForeignSubmit, Lose, Gone, vars, Callback, ScopeSettles,
              entries, queue
<1>2. CASE \E j \in Jobs : Abandon(j)
  BY <1>2 DEF Abandon, queue
<1>3. CASE \/ \E c \in Calls : Call(c)
           \/ PollFails \/ CollectEnds \/ TerminalLoss \/ Poll \/ Settle \/ Observe
           \/ CollectReturns \/ SlotsReturns \/ ShutdownReturns \/ SubmitRefused
           \/ \E j \in Jobs : SubmitAborts(j)
           \/ SubmitFinishes
  BY <1>0, <1>3, Places
<1>4. ASSUME NEW j \in Jobs, Install(j)
      PROVE  Last(pending') = j /\ local'.pc = "submit"
  <2>1. local'.pc = "submit"
    BY <1>0, <1>4, Places
  <2> QED
    BY <1>0, <1>4, <2>1, AppendProperties DEF Install, Last
<1>5. ASSUME Submit \/ Bind
      PROVE  UNCHANGED <<pending, lease>> /\ local'.pc # "submit"
  <2>1. local'.pc # "submit"
    BY <1>0, <1>5, Places
  <2> QED
    BY <1>5, <2>1 DEF Submit, Bind, queue
<1> QED
  BY <1>1, <1>2, <1>3, <1>4, <1>5 DEF Next, OwnerStep

(* A job becomes held by being installed. *)
LEMMA HeldComes ==
  ASSUME IInv, [Next]_vars, NEW k \in Jobs, lease'[k] = "held"
  PROVE  lease[k] = "held" \/ Install(k)
<1>0. QueueTypeOK
  BY DEF IInv
<1>1. lease \in [Jobs -> {"recorded", "held", "aborted"} \cup Settled]
  BY <1>0 DEF QueueTypeOK
<1>2. CASE UNCHANGED lease
  BY <1>2
<1>3. CASE \/ GpuRetires \/ ForeignSubmit \/ Lose \/ Gone \/ UNCHANGED vars
           \/ \E j \in Jobs : Callback(j) \/ ScopeSettles(j)
           \/ \E c \in Calls : Call(c)
           \/ PollFails \/ Poll \/ Observe \/ CollectEnds
           \/ CollectReturns \/ SlotsReturns \/ ShutdownReturns \/ SubmitRefused
           \/ Submit \/ Bind \/ SubmitFinishes
  BY <1>2, <1>3 DEF GpuRetires, ForeignSubmit, Lose, Gone, vars, Callback, ScopeSettles, Call,
       PollFails, Poll, Observe, CollectEnds, CollectReturns, SlotsReturns, ShutdownReturns,
       SubmitRefused, Submit, Bind, SubmitFinishes, entries
<1>4. ASSUME NEW j \in Jobs, Abandon(j) \/ SubmitAborts(j) PROVE lease[k] = "held"
  BY <1>1, <1>4 DEF Abandon, SubmitAborts
<1>5. ASSUME NEW j \in Jobs, Install(j) PROVE lease[k] = "held" \/ Install(k)
  BY <1>1, <1>5 DEF Install
<1>6. CASE TerminalLoss \/ Settle
  <2>1. ~\E j \in Jobs : Install(j)
    BY <1>6 DEF TerminalLoss, Settle, Install
  <2>2. CASE lease[k] = "recorded" /\ lease'[k] = "held"
    <3>1. CASE TerminalLoss
      BY <2>2, <3>1 DEF TerminalLoss
    <3>2. CASE Settle
      <4>1. lease[Current] = "held" /\ Current \in Jobs
        BY <3>2, CurrentIsHeld
      <4>2. UNCHANGED lease \/ \E x : lease' = [lease EXCEPT ![Current] = x]
        BY <1>0, <3>2, SettleEffect DEF IInv
      <4> QED
        BY <1>1, <2>2, <4>1, <4>2
    <3> QED
      BY <1>6, <3>1, <3>2
  <2>3. Settle /\ k = Current /\ Outcome(k) # "none" => Outcome(k) # "held"
    BY OutcomeProves
  <2> QED
    BY <2>2, <2>3, StepMovesLeases DEF LeaseMoves
<1> QED
  BY <1>3, <1>4, <1>5, <1>6 DEF Next, OwnerStep

-----------------------------------------------------------------------------
LEMMA ListedStep ==
  ASSUME JInv, [Next]_vars
  PROVE  Listed'
<1>0. IInv /\ QueueTypeOK /\ Owned /\ Listed
  BY DEF JInv, IInv
<1>a. pending \in Seq(Jobs) /\ Len(pending) \in Nat
  BY <1>0 DEF QueueTypeOK
<1> SUFFICES ASSUME NEW k \in Jobs, lease'[k] = "held"
             PROVE  \E i \in 1..Len(pending') : pending'[i] = k
  BY DEF Listed
<1>1. CASE Install(k)
  <2>1. /\ pending' = Append(pending, k)
        /\ Len(pending') = Len(pending) + 1 /\ pending'[Len(pending) + 1] = k
    BY <1>1, <1>a, AppendProperties DEF Install
  <2> QED
    BY <1>a, <2>1
<1>2. CASE ~Install(k)
  <2>1. lease[k] = "held"
    BY <1>0, <1>2, HeldComes
  <2>2. PICK i \in 1..Len(pending) : pending[i] = k
    BY <1>0, <2>1 DEF Listed
  <2>3. CASE UNCHANGED pending
    BY <2>2, <2>3
  <2>4. ASSUME NEW j \in Jobs, Install(j) PROVE \E n \in 1..Len(pending') : pending'[n] = k
    <3>1. /\ Len(pending') = Len(pending) + 1
          /\ \A n \in 1..Len(pending) : pending'[n] = pending[n]
      BY <1>a, <2>4, AppendProperties DEF Install
    <3> QED
      BY <1>a, <2>2, <3>1
  <2>5. CASE TerminalLoss
    <3>1. k \in ToSet(pending)
      BY <2>2 DEF ToSet
    <3> QED
      BY <2>5, <3>1 DEF TerminalLoss
  <2>6. CASE Settle
    <3> DEFINE n == local.index
    <3>1. n \in 1..Len(pending) /\ Current = pending[n] /\ Current \in Jobs
      BY <1>0, <2>6, CurrentIsJob DEF Settle, Owned, Current
    <3>2. CASE /\ Outcome(Current) # "none"
               /\ lease' = [lease EXCEPT ![Current] = Outcome(Current)]
               /\ pending' = RemoveAt(pending, n)
      <4>1. i # n
        <5>1. Outcome(Current) # "held"
          BY <1>0, <2>6, <3>2, OutcomeProves
        <5>2. lease \in [Jobs -> {"recorded", "held", "aborted"} \cup Settled]
          BY <1>0 DEF QueueTypeOK
        <5> QED
          BY <2>2, <3>1, <3>2, <5>1, <5>2
      <4>2. /\ Len(pending') = Len(pending) - 1
            /\ \A m \in 1..(Len(pending) - 1) :
                 pending'[m] = pending[IF m < n THEN m ELSE m + 1]
        BY <1>a, <3>1, <3>2, RemoveAtProperties
      <4>3. i \in Nat /\ n \in Nat /\ 1 <= i /\ i <= Len(pending) /\ 1 <= n /\ n <= Len(pending)
        BY <1>a, <3>1
      <4> HIDE DEF n
      <4>4. CASE i < n
        <5>1. i \in 1..(Len(pending) - 1)
          BY <1>a, <4>3, <4>4
        <5> QED
          BY <2>2, <4>2, <4>4, <5>1
      <4>5. CASE i > n
        <5>1. i - 1 \in 1..(Len(pending) - 1) /\ ~(i - 1 < n) /\ (i - 1) + 1 = i
          BY <1>a, <4>3, <4>5
        <5>2. pending'[i - 1] = pending[(i - 1) + 1]
          BY <4>2, <5>1
        <5> QED
          BY <2>2, <4>2, <5>1, <5>2
      <4> QED
        BY <4>1, <4>3, <4>4, <4>5
    <3> QED
      BY <1>0, <2>3, <2>6, <3>2, SettleEffect
  <2>7. CASE \/ GpuRetires \/ ForeignSubmit \/ Lose \/ Gone \/ UNCHANGED vars
             \/ \E j \in Jobs : Callback(j) \/ ScopeSettles(j) \/ Abandon(j) \/ SubmitAborts(j)
             \/ \E c \in Calls : Call(c)
             \/ PollFails \/ Poll \/ Observe \/ CollectEnds
             \/ CollectReturns \/ SlotsReturns \/ ShutdownReturns \/ SubmitRefused
             \/ Submit \/ Bind \/ SubmitFinishes
    BY <2>3, <2>7 DEF GpuRetires, ForeignSubmit, Lose, Gone, vars, Callback, ScopeSettles,
         Abandon, SubmitAborts, Call, PollFails, Poll, Observe, CollectEnds, CollectReturns,
         SlotsReturns, ShutdownReturns, SubmitRefused, Submit, Bind, SubmitFinishes, queue
  <2> QED
    BY <2>4, <2>5, <2>6, <2>7 DEF Next, OwnerStep
<1> QED
  BY <1>1, <1>2

LEMMA DistinctStep ==
  ASSUME JInv, [Next]_vars
  PROVE  Distinct'
<1>0. IInv /\ Distinct /\ Moves /\ SettledHasRetired /\ Owned /\ QueueTypeOK
  BY StepMoves DEF JInv, IInv
<1>a. tail \in Nat /\ \A k \in Jobs : work[k].at \in Nat /\ work[k].at <= tail
  BY <1>0 DEF QueueTypeOK, Submissions, IInv, Positions
<1>b. \A k \in Jobs : \/ work'[k].at = work[k].at
                      \/ /\ work'[k].at = tail + 1 /\ k = Last(pending)
                         /\ local.pc = "submit" /\ local'.pc # "submit"
  BY <1>0 DEF Moves, Signals, Recovers, Forgets, Lands, Binds
<1>1. ASSUME NEW j \in Jobs, NEW k \in Jobs, j # k, work'[j].at # 0
      PROVE  work'[j].at # work'[k].at
  <2>1. CASE work'[j].at = work[j].at /\ work'[k].at = work[k].at
    BY <1>0, <1>1, <2>1 DEF Distinct
  <2>2. CASE work'[j].at = tail + 1 /\ work'[k].at = work[k].at
    BY <1>a, <2>2
  <2>3. CASE work'[k].at = tail + 1 /\ work'[j].at = work[j].at
    BY <1>a, <2>3
  <2> QED
    BY <1>b, <1>1, <2>1, <2>2, <2>3
<1>2. ASSUME local'.pc = "submit"
      PROVE  work'[Last(pending')].at = 0
  <2>1. ASSUME NEW j \in Jobs, Install(j), Last(pending') = j
        PROVE  work'[Last(pending')].at = 0
    BY <1>0, <2>1 DEF Install, SettledHasRetired
  <2>2. CASE UNCHANGED <<local, pending>>
    <3>1. Last(pending) \in Jobs /\ work[Last(pending)].at = 0
      BY <1>0, <1>2, <2>2, LastIsHeld DEF Distinct
    <3> QED
      BY <1>b, <1>2, <2>2, <3>1
  <2> QED
    BY <1>0, <1>2, <2>1, <2>2, UnderwayComes
<1> QED
  BY <1>1, <1>2 DEF Distinct

-----------------------------------------------------------------------------
(* Leases are told of a submission by collect, or as try_submit returns. *)
CommitMoves(k) ==
  \/ committed'[k] = committed[k]
  \/ lease[k] = "held" /\ local.pc \in {"observe", "settle"}
  \/ lease[k] = "held" /\ local.pc = "finish" /\ local'.pc = "idle"

LEMMA StepCommits ==
  ASSUME IInv, [Next]_vars, NEW k \in Jobs
  PROVE  CommitMoves(k)
<1>0. QueueTypeOK /\ Owned /\ committed \in [Jobs -> BOOLEAN]
  BY DEF IInv, QueueTypeOK
<1>1. CASE UNCHANGED committed
  BY <1>1 DEF CommitMoves
<1>2. CASE \/ GpuRetires \/ ForeignSubmit \/ Lose \/ Gone \/ UNCHANGED vars
           \/ \E j \in Jobs : \/ Callback(j) \/ ScopeSettles(j) \/ Abandon(j)
                             \/ SubmitAborts(j) \/ Install(j)
           \/ \E c \in Calls : Call(c)
           \/ TerminalLoss \/ PollFails \/ Poll \/ CollectEnds
           \/ CollectReturns \/ SlotsReturns \/ ShutdownReturns \/ SubmitRefused
           \/ Submit \/ Bind
  BY <1>1, <1>2 DEF GpuRetires, ForeignSubmit, Lose, Gone, vars, Callback, ScopeSettles, Abandon,
       SubmitAborts, Install, Call, TerminalLoss, PollFails, Poll, CollectEnds, CollectReturns,
       SlotsReturns, ShutdownReturns, SubmitRefused, Submit, Bind, entries
<1>3. CASE Observe \/ Settle
  <2>1. /\ Current \in Jobs /\ lease[Current] = "held"
        /\ local.pc \in {"observe", "settle"}
    BY <1>3, CurrentIsHeld DEF Observe, Settle
  <2>2. \E x : committed' = [committed EXCEPT ![Current] = x]
    BY <1>0, <1>3, ObserveEffect, SettleEffect
  <2> QED
    BY <1>0, <2>1, <2>2 DEF CommitMoves
<1>4. CASE SubmitFinishes
  <2>1. /\ Last(pending) \in Jobs /\ lease[Last(pending)] = "held"
        /\ local.pc = "finish" /\ local'.pc = "idle"
    BY <1>0, <1>4, LastIsHeld, Places DEF SubmitFinishes
  <2>2. \/ \E x : committed' = [committed EXCEPT ![Last(pending)] = x]
        \/ UNCHANGED committed
    BY <1>0, <1>4, FinishEffect
  <2> QED
    BY <1>0, <2>1, <2>2 DEF CommitMoves
<1> QED
  BY <1>2, <1>3, <1>4 DEF Next, OwnerStep

LEMMA UncommittedStep ==
  ASSUME JInv, [Next]_vars
  PROVE  Uncommitted'
<1>0. IInv /\ Uncommitted
  BY DEF JInv
<1> SUFFICES ASSUME NEW k \in Jobs, lease'[k] = "recorded" \/ Underway(k)'
             PROVE  ~committed'[k]
  BY DEF Uncommitted
<1>1. CASE lease'[k] = "recorded"
  <2>1. lease[k] = "recorded"
    BY <1>0, <1>1, StepMovesLeases, OutcomeProves DEF LeaseMoves
  <2> QED
    BY <1>0, <2>1, StepCommits DEF CommitMoves, Uncommitted
<1>2. CASE Underway(k)'
  <2>1. /\ local'.pc \in {"submit", "bind", "finish"} /\ k = Last(pending')
    BY <1>2 DEF Underway
  <2>2. CASE Install(k)
    <3>1. lease[k] = "recorded" /\ committed' = committed
      BY <2>2 DEF Install
    <3> QED
      BY <1>0, <3>1 DEF Uncommitted
  <2>3. CASE \/ (Submit \/ Bind) /\ UNCHANGED <<pending, lease>>
             \/ UNCHANGED <<local, pending, lease>>
    <3>1. Underway(k)
      BY <2>1, <2>3 DEF Underway, Submit, Bind
    <3>2. local'.pc # "idle" /\ local.pc \notin {"observe", "settle"}
      BY <2>1, <3>1 DEF Underway
    <3> QED
      BY <1>0, <3>1, <3>2, StepCommits DEF CommitMoves, Uncommitted
  <2> QED
    BY <1>0, <2>1, <2>2, <2>3, UnderwayComes
<1> QED
  BY <1>1, <1>2

(* Scopes settle once, or are rejected or popped as they are submitted. *)
ScopeMoves(k) ==
  \/ work'[k].scope = work[k].scope
  \/ work[k].scope = "open" /\ work'[k].scope \in {"ok", "err"}
  \/ Submit /\ k = Last(pending) /\ work'[k].scope = "err"
  \/ SubmitFinishes /\ k = Last(pending) /\ work[k].scope = "none" /\ work'[k].scope # "none"

LEMMA StepScopes ==
  ASSUME IInv, [Next]_vars, NEW k \in Jobs
  PROVE  ScopeMoves(k)
<1>0. QueueTypeOK /\ Owned /\ work \in [Jobs -> Submissions]
  BY DEF IInv, QueueTypeOK
<1>1. CASE UNCHANGED work
  BY <1>1 DEF ScopeMoves
<1>2. CASE \/ GpuRetires \/ ForeignSubmit \/ Lose \/ Gone \/ UNCHANGED vars
           \/ \E j \in Jobs : Abandon(j) \/ SubmitAborts(j) \/ Install(j)
           \/ \E c \in Calls : Call(c)
           \/ TerminalLoss \/ PollFails \/ Poll \/ Observe \/ CollectEnds
           \/ CollectReturns \/ SlotsReturns \/ ShutdownReturns \/ SubmitRefused
  BY <1>1, <1>2 DEF GpuRetires, ForeignSubmit, Lose, Gone, vars, Abandon, SubmitAborts, Install,
       Call, TerminalLoss, PollFails, Poll, Observe, CollectEnds, CollectReturns, SlotsReturns,
       ShutdownReturns, SubmitRefused, entries
<1>3. ASSUME NEW j \in Jobs, NEW x,
             \/ work' = [work EXCEPT ![j].sig = x]
             \/ work' = [work EXCEPT ![j].at = x]
             \/ work' = [work EXCEPT ![j].bound = x]
      PROVE  ScopeMoves(k)
  <2>1. work'[k].scope = work[k].scope
    BY <1>0, <1>3 DEF Submissions
  <2> QED
    BY <2>1 DEF ScopeMoves
<1>4. ASSUME NEW j \in Jobs, Callback(j) PROVE ScopeMoves(k)
  BY <1>1, <1>3, <1>4, CallbackEffect
<1>5. ASSUME NEW j \in Jobs, ScopeSettles(j) PROVE ScopeMoves(k)
  <2>1. \/ UNCHANGED work
        \/ /\ work[j].scope = "open"
           /\ \E x \in {"ok", "err"} : work' = [work EXCEPT ![j].scope = x]
    BY <1>5 DEF ScopeSettles, Verdicts
  <2>2. ASSUME work[j].scope = "open", NEW x \in {"ok", "err"}, work' = [work EXCEPT ![j].scope = x]
        PROVE  \/ work'[k].scope = work[k].scope
               \/ work[k].scope = "open" /\ work'[k].scope \in {"ok", "err"}
    BY <1>0, <2>2 DEF Submissions
  <2> QED
    BY <1>1, <2>1, <2>2 DEF ScopeMoves
<1>6. CASE Settle
  <2>1. \/ UNCHANGED work
        \/ work' = [work EXCEPT ![Current].bound = 0, ![Current].sig = "none"]
    BY <1>0, <1>6, SettleEffect
  <2>2. Current \in Jobs
    BY <1>6, CurrentIsHeld
  <2>3. work'[k].scope = work[k].scope
    BY <1>0, <1>1, <2>1, <2>2, Forgotten
  <2> QED
    BY <2>3 DEF ScopeMoves
<1>7. CASE Submit \/ Bind
  <2> DEFINE j == Last(pending)
  <2>1. j \in Jobs
    BY <1>0, <1>7, SubmitEffect, BindEffect
  <2>2. \/ work' = [work EXCEPT ![j].at = tail + 1]
        \/ Submit /\ work' = [work EXCEPT ![j].scope = "err"]
        \/ work' = [work EXCEPT ![j].sig = "dropped"]
        \/ work' = [work EXCEPT ![j].bound = tail]
    BY <1>0, <1>7, SubmitEffect, BindEffect
  <2> HIDE DEF j
  <2>3. CASE Submit /\ work' = [work EXCEPT ![j].scope = "err"]
    <3>1. work'[k].scope = work[k].scope \/ (k = j /\ work'[k].scope = "err")
      BY <1>0, <2>1, <2>3 DEF Submissions
    <3> QED
      BY <2>3, <3>1 DEF ScopeMoves, j
  <2> QED
    BY <1>3, <2>1, <2>2, <2>3
<1>8. CASE SubmitFinishes
  <2> DEFINE j == Last(pending)
  <2>1. PICK x \in {"open", "ok", "err"} :
          /\ j \in Jobs
          /\ work[j].scope \in {"none", x}
          /\ work' = [work EXCEPT ![j].scope = x]
    BY <1>0, <1>8, FinishEffect
  <2> HIDE DEF j
  <2>2. \/ work'[k].scope = work[k].scope
        \/ k = j /\ work[k].scope = "none" /\ work'[k].scope # "none"
    BY <1>0, <2>1 DEF Submissions
  <2> QED
    BY <1>8, <2>2 DEF ScopeMoves, j
<1> QED
  BY <1>2, <1>4, <1>5, <1>6, <1>7, <1>8 DEF Next, OwnerStep

LEMMA ScopedStep ==
  ASSUME JInv, [Next]_vars
  PROVE  Scoped'
<1>0. IInv /\ Scoped /\ QueueTypeOK /\ Owned /\ work \in [Jobs -> Submissions] /\ pending \in Seq(Jobs)
  BY DEF JInv, IInv, QueueTypeOK
<1> SUFFICES ASSUME NEW k \in Jobs, lease'[k] = "held", ~Underway(k)'
             PROVE  work'[k].scope # "none"
  BY DEF Scoped
<1>1. CASE Install(k)
  <2>1. Last(pending') = k
    BY <1>0, <1>1, AppendProperties DEF Install, Last
  <2>2. local'.pc = "submit"
    BY <1>0, <1>1, Places
  <2> QED
    BY <2>1, <2>2 DEF Underway
<1>2. CASE lease[k] = "held" /\ ~Underway(k)
  BY <1>0, <1>2, StepScopes DEF Scoped, ScopeMoves
<1>3. CASE Underway(k)
  <2>1. local.pc \in {"submit", "bind", "finish"} /\ k = Last(pending)
    BY <1>3 DEF Underway
  <2>2. CASE UNCHANGED <<local, pending>>
    BY <1>3, <2>2 DEF Underway
  <2>3. CASE \/ GpuRetires \/ ForeignSubmit \/ Lose \/ Gone \/ UNCHANGED vars
             \/ \E j \in Jobs : Callback(j) \/ ScopeSettles(j)
    BY <2>2, <2>3 DEF GpuRetires, ForeignSubmit, Lose, Gone, vars, Callback, ScopeSettles, queue
  <2>4. CASE \/ \E j \in Jobs : Abandon(j) \/ SubmitAborts(j) \/ Install(j)
             \/ \E c \in Calls : Call(c)
             \/ TerminalLoss \/ PollFails \/ Poll \/ Observe \/ Settle \/ CollectEnds
             \/ CollectReturns \/ SlotsReturns \/ ShutdownReturns \/ SubmitRefused
    BY <2>1, <2>4 DEF Abandon, SubmitAborts, Install, Call, TerminalLoss, PollFails, Poll, Observe,
         Settle, CollectEnds, CollectReturns, SlotsReturns, ShutdownReturns, SubmitRefused
  <2>5. CASE Submit \/ Bind
    <3>1. local'.pc \in {"bind", "finish"} /\ pending' = pending
      BY <1>0, <2>5, Places DEF Submit, Bind, queue
    <3> QED
      BY <2>1, <3>1 DEF Underway
  <2>6. CASE SubmitFinishes
    <3>1. \E x : work' = [work EXCEPT ![k].scope = x] /\ x # "none"
      BY <1>0, <2>1, <2>6, FinishEffect
    <3> QED
      BY <1>0, <3>1 DEF Submissions
  <2> QED
    BY <2>3, <2>4, <2>5, <2>6 DEF Next, OwnerStep
<1> QED
  BY <1>0, <1>1, <1>2, <1>3, HeldComes

LEMMA SeenCommitsStep ==
  ASSUME JInv, [Next]_vars
  PROVE  SeenCommits'
<1>0. IInv /\ SeenCommits /\ Scoped /\ QueueTypeOK /\ local \in Locals
  BY DEF JInv, IInv, QueueTypeOK, Locals
<1>a. /\ work \in [Jobs -> Submissions] /\ committed \in [Jobs -> BOOLEAN]
      /\ failure \in [Jobs -> {"none", "dropped", "rejected", "panicked"}]
  BY <1>0 DEF QueueTypeOK
<1> SUFFICES ASSUME local'.pc = "settle", local'.seen = "ok", ~Failing(Current)'
             PROVE  committed'[Current']
  BY DEF SeenCommits
<1>1. CASE UNCHANGED <<local, pending, failure, committed>> /\ local.pc = "settle"
  BY <1>0, <1>1 DEF SeenCommits, Current, Failing
<1>2. CASE Observe
  <2>1. /\ Current \in Jobs /\ lease[Current] = "held" /\ local.pc = "observe"
    BY <1>0, <1>2, CurrentIsHeld DEF Observe
  <2>2. /\ local' = [local EXCEPT !.pc = "settle", !.seen = Status(work[Current])]
        /\ committed' = [committed EXCEPT ![Current] = @ \/ Accepts(Current)]
        /\ \/ /\ Failing(Current) \/ ~Fails(Status(work[Current]))
              /\ UNCHANGED failure
           \/ /\ Fails(Status(work[Current]))
              /\ failure' = [failure EXCEPT ![Current] = Status(work[Current])]
    BY <1>0, <1>2, ObserveEffect
  <2> DEFINE status == Status(work[Current])
  <2>3. local'.index = local.index /\ status = "ok"
    <3>1. local = [pc |-> local.pc, call |-> local.call, index |-> local.index,
                   empty |-> local.empty, seen |-> local.seen, error |-> local.error]
      BY <1>0 DEF Locals
    <3> HIDE DEF status
    <3>2. local' = [local EXCEPT !.pc = "settle", !.seen = status]
      BY <2>2 DEF status
    <3> QED
      BY <3>1, <3>2
  <2>4. Current' = Current
    BY <1>2, <2>3 DEF Current, Observe
  <2>5. failure'[Current] = "none"
    BY <2>4 DEF Failing
  <2>6. ~Failing(Current)
    <3>1. ~Fails(status)
      BY <2>3 DEF Fails
    <3> HIDE DEF status
    <3>2. UNCHANGED failure
      BY <2>2, <3>1 DEF status
    <3> QED
      BY <2>5, <3>2 DEF Failing
  <2>7. work[Current].scope = "ok"
    <3>1. work[Current].scope # "none"
      BY <1>0, <2>1 DEF Scoped, Underway
    <3>2. work[Current].scope \in {"none", "open", "ok", "err"}
      BY <1>a, <2>1 DEF Submissions
    <3>3. work[Current].scope \notin {"open", "err"}
      BY <2>3 DEF Status
    <3> QED
      BY <3>1, <3>2, <3>3
  <2>8. Accepts(Current)
    BY <2>6, <2>7 DEF Accepts
  <2>9. committed'[Current]
    BY <1>a, <2>1, <2>2, <2>8
  <2> QED
    BY <2>4, <2>9
<1> QED
  BY <1>0, <1>1, <1>2, SettleComes

-----------------------------------------------------------------------------
(* The steps of the contract. *)

Running == {j \in Jobs : done < work[j].at}

(* A step that changes nothing the contract sees. *)
LEMMA Stutters ==
  ASSUME UNCHANGED <<lease, committed, loss>>, Running' = Running
  PROVE  UNCHANGED Contract!vars
BY DEF Contract!vars, Running

LEMMA RunningStays ==
  ASSUME done' = done, \A k \in Jobs : work'[k].at = work[k].at
  PROVE  Running' = Running
BY DEF Running

LEMMA GpuRefines ==
  ASSUME JInv, GpuRetires
  PROVE  [Contract!Next]_Contract!vars
<1>0. Distinct /\ done \in Nat /\ \A k \in Jobs : work[k].at \in Nat
  BY DEF JInv, IInv, QueueTypeOK, Submissions
<1>1. UNCHANGED <<lease, committed, loss, work>> /\ done' = done + 1
  BY DEF GpuRetires, entries
<1>2. CASE \E j \in Jobs : work[j].at = done + 1
  <2>1. PICK j \in Jobs : work[j].at = done + 1
    BY <1>2
  <2>2. \A k \in Jobs : k # j => work[k].at # done + 1
    BY <1>0, <2>1 DEF Distinct
  <2>3. Running' = Running \ {j}
    BY <1>0, <1>1, <2>1, <2>2 DEF Running
  <2>4. Contract!Retire(j)
    BY <1>1, <2>3 DEF Contract!Retire, Running
  <2> QED
    BY <2>4 DEF Contract!Next
<1>3. CASE ~\E j \in Jobs : work[j].at = done + 1
  <2>1. Running' = Running
    BY <1>0, <1>1, <1>3 DEF Running
  <2> QED
    BY <1>1, <2>1, Stutters
<1> QED
  BY <1>2, <1>3

LEMMA CollectRefines ==
  ASSUME JInv, [Next]_vars, TerminalLoss \/ Observe \/ Settle
  PROVE  [Contract!Next]_Contract!vars
<1>0. IInv /\ QueueTypeOK /\ Owned /\ Listed /\ SeenCommits
  BY DEF JInv, IInv
<1>a. /\ lease \in [Jobs -> {"recorded", "held", "aborted"} \cup Settled]
      /\ committed \in [Jobs -> BOOLEAN] /\ pending \in Seq(Jobs)
      /\ done \in Nat /\ \A k \in Jobs : work[k].at \in Nat
  BY <1>0 DEF QueueTypeOK, Submissions
<1>b. UNCHANGED <<done, loss>>
  BY DEF TerminalLoss, Observe, Settle, gpu
<1>c. Running' = Running
  <2>1. local.pc # "submit"
    BY DEF TerminalLoss, Observe, Settle
  <2> QED
    BY <1>0, <1>b, <2>1, AtStays, RunningStays
<1>1. CASE TerminalLoss
  <2>1. \A k \in Jobs : k \in ToSet(pending) <=> lease[k] = "held"
    BY <1>0, <1>a DEF ToSet, Owned, Listed
  <2>2. lease' = [j \in Jobs |-> IF lease[j] = "held" THEN "lost" ELSE lease[j]]
    BY <1>1, <2>1 DEF TerminalLoss
  <2>3. Contract!Release
    BY <1>1, <1>b, <1>c, <2>2 DEF Contract!Release, TerminalLoss, Running
  <2> QED
    BY <2>3 DEF Contract!Next
<1>2. CASE Observe
  <2>1. /\ Current \in Jobs /\ lease[Current] = "held" /\ UNCHANGED lease
        /\ committed' = [committed EXCEPT ![Current] = @ \/ Accepts(Current)]
    BY <1>0, <1>2, CurrentIsHeld, ObserveEffect DEF Observe
  <2>2. CASE Accepts(Current)
    <3>1. committed' = [committed EXCEPT ![Current] = TRUE]
      BY <1>a, <2>1, <2>2
    <3>2. Contract!Commit(Current)
      BY <1>b, <1>c, <2>1, <3>1 DEF Contract!Commit, Running
    <3> QED
      BY <2>1, <3>2 DEF Contract!Next
  <2>3. CASE ~Accepts(Current)
    <3>1. UNCHANGED committed
      BY <1>a, <2>1, <2>3
    <3> QED
      BY <1>b, <1>c, <2>1, <3>1, Stutters
  <2> QED
    BY <2>2, <2>3
<1>3. CASE Settle
  <2>1. /\ Current \in Jobs /\ lease[Current] = "held" /\ local.pc = "settle"
        /\ committed' = [committed EXCEPT ![Current] = @ \/ Recovered(Current)]
        /\ \/ lease' = lease
           \/ /\ Outcome(Current) # "none"
              /\ lease' = [lease EXCEPT ![Current] = Outcome(Current)]
    BY <1>0, <1>3, CurrentIsHeld, SettleEffect DEF Settle
  <2>2. Outcome(Current) = "none" => lease' = lease
    BY <1>3 DEF Settle
  <2>3. /\ Outcome(Current) # "none" => lease' = [lease EXCEPT ![Current] = Outcome(Current)]
        /\ Recovered(Current) => Outcome(Current) = "ok"
        /\ Outcome(Current) = "ok" => Recovered(Current) \/ committed[Current]
    <3>1. Outcome(Current) # "none" => lease' = [lease EXCEPT ![Current] = Outcome(Current)]
      BY <1>3 DEF Settle
    <3>2. Recovered(Current) => Outcome(Current) = "ok"
      BY DEF Outcome, Recovered, Failing
    <3>3. Outcome(Current) = "ok" /\ Failing(Current) => Recovered(Current)
      BY DEF Outcome, Recovered, Failing
    <3>4. Outcome(Current) = "ok" /\ ~Failing(Current) => local.seen = "ok"
      BY DEF Outcome, Recovered, Failing
    <3> QED
      BY <1>0, <2>1, <3>1, <3>2, <3>3, <3>4 DEF SeenCommits
  <2>4. Current \notin Running \/ Outcome(Current) = "none"
    <3>1. Outcome(Current) # "none" => work[Current].at <= done
      BY <1>0, <1>3, OutcomeProves
    <3> QED
      BY <1>a, <2>1, <3>1 DEF Running
  <2>5. CASE Outcome(Current) = "none"
    <3>1. UNCHANGED committed
      BY <1>a, <2>1, <2>3, <2>5
    <3> QED
      BY <1>b, <1>c, <2>2, <2>5, <3>1, Stutters
  <2>6. CASE Outcome(Current) = "ok"
    <3>1. committed' = [committed EXCEPT ![Current] = TRUE]
      BY <1>a, <2>1, <2>3, <2>6
    <3>2. Contract!Succeed(Current)
      BY <1>b, <1>c, <2>1, <2>3, <2>4, <2>6, <3>1 DEF Contract!Succeed, Contract!Move, Running
    <3> QED
      BY <2>1, <3>2 DEF Contract!Next
  <2>7. CASE Outcome(Current) = "failed"
    <3>1. UNCHANGED committed
      BY <1>a, <2>1, <2>3, <2>7
    <3>2. Contract!Fail(Current)
      BY <1>b, <1>c, <2>1, <2>3, <2>4, <2>7, <3>1 DEF Contract!Fail, Contract!Move, Running
    <3> QED
      BY <2>1, <3>2 DEF Contract!Next
  <2> QED
    BY <1>0, <1>3, <2>5, <2>6, <2>7, OutcomeProves
<1> QED
  BY <1>1, <1>2, <1>3

LEMMA SubmitRefines ==
  ASSUME JInv, [Next]_vars, Submit \/ Bind \/ SubmitFinishes
  PROVE  [Contract!Next]_Contract!vars
<1> DEFINE j == Last(pending)
<1>0. /\ IInv /\ QueueTypeOK /\ Owned /\ Distinct /\ Uncommitted
      /\ j \in Jobs /\ lease[j] = "held"
  BY LastIsHeld DEF JInv, IInv, Submit, Bind, SubmitFinishes
<1>a. /\ work \in [Jobs -> Submissions] /\ committed \in [Jobs -> BOOLEAN]
      /\ tail \in Nat /\ done \in 0..tail /\ \A k \in Jobs : work[k].at \in Nat
  BY <1>0 DEF QueueTypeOK, Submissions
<1>b. UNCHANGED <<done, loss, lease>>
  BY DEF Submit, Bind, SubmitFinishes, gpu
<1>1. CASE Submit
  <2>1. UNCHANGED committed /\ local.pc = "submit"
    BY <1>1 DEF Submit
  <2>2. \/ work' = [work EXCEPT ![j].at = tail + 1]
        \/ work' = [work EXCEPT ![j].scope = "err"]
        \/ work' = [work EXCEPT ![j].sig = "dropped"]
    BY <1>0, <1>1, SubmitEffect
  <2>3. work[j].at = 0
    BY <1>0, <2>1 DEF Distinct
  <2> HIDE DEF j
  <2>4. CASE work' = [work EXCEPT ![j].at = tail + 1]
    <3>1. work'[j].at = tail + 1 /\ \A k \in Jobs \ {j} : work'[k].at = work[k].at
      BY <1>0, <1>a, <2>4 DEF Submissions
    <3>2. Running' = Running \cup {j} /\ j \notin Running
      BY <1>0, <1>a, <1>b, <2>3, <3>1 DEF Running
    <3>3. PICK k \in Jobs : k = j
      BY <1>0
    <3>4. Contract!Start(k)
      BY <1>0, <1>b, <2>1, <3>2, <3>3 DEF Contract!Start, Running
    <3> QED
      BY <3>4 DEF Contract!Next
  <2>5. CASE \/ work' = [work EXCEPT ![j].scope = "err"]
             \/ work' = [work EXCEPT ![j].sig = "dropped"]
    <3>1. \A k \in Jobs : work'[k].at = work[k].at
      BY <1>0, <1>a, <2>5 DEF Submissions
    <3> QED
      BY <1>b, <2>1, <3>1, RunningStays, Stutters
  <2> QED
    BY <2>2, <2>4, <2>5
<1>2. CASE Bind \/ SubmitFinishes
  <2>1. Running' = Running
    BY <1>0, <1>2, <1>b, AtStays, RunningStays DEF Bind, SubmitFinishes
  <2>2. CASE UNCHANGED committed
    BY <1>b, <2>1, <2>2, Stutters
  <2>3. CASE Bind
    BY <2>2, <2>3 DEF Bind
  <2>4. CASE SubmitFinishes
    <3>1. \/ UNCHANGED committed
          \/ \E x \in {"open", "ok", "err"} : committed' = [committed EXCEPT ![j] = (x = "ok")]
      BY <1>0, <2>4, FinishEffect
    <3>2. ~committed[j]
      BY <1>0, <2>4 DEF Uncommitted, Underway, SubmitFinishes
    <3> HIDE DEF j
    <3>3. \/ UNCHANGED committed
          \/ committed' = [committed EXCEPT ![j] = TRUE]
      <4>1. ASSUME NEW x \in {"open", "ok", "err"},
                   committed' = [committed EXCEPT ![j] = (x = "ok")]
            PROVE  \/ UNCHANGED committed
                   \/ committed' = [committed EXCEPT ![j] = TRUE]
        <5>1. CASE x = "ok"
          BY <4>1, <5>1
        <5>2. CASE x # "ok"
          BY <1>0, <1>a, <3>2, <4>1, <5>2
        <5> QED
          BY <5>1, <5>2
      <4> QED
        BY <3>1, <4>1
    <3>4. CASE committed' = [committed EXCEPT ![j] = TRUE]
      <4>1. Contract!Commit(j)
        BY <1>0, <1>b, <2>1, <3>4 DEF Contract!Commit, Running
      <4> QED
        BY <1>0, <4>1 DEF Contract!Next
    <3> QED
      BY <2>2, <3>3, <3>4
  <2> QED
    BY <1>2, <2>3, <2>4
<1> QED
  BY <1>1, <1>2

LEMMA StepRefines ==
  ASSUME JInv, [Next]_vars
  PROVE  [Contract!Next]_Contract!vars
<1>0. IInv
  BY DEF JInv
<1>1. CASE UNCHANGED <<lease, committed, loss, done>> /\ local.pc # "submit"
  <2>1. Running' = Running
    BY <1>0, <1>1, AtStays, RunningStays
  <2> QED
    BY <1>1, <2>1, Stutters
<1>2. CASE \/ PollFails \/ Poll \/ CollectEnds
           \/ CollectReturns \/ SlotsReturns \/ ShutdownReturns \/ SubmitRefused
           \/ \E c \in Calls : Call(c)
  BY <1>1, <1>2 DEF PollFails, Poll, CollectEnds, CollectReturns, SlotsReturns, ShutdownReturns,
       SubmitRefused, Call, gpu, entries
<1>3. CASE \/ ForeignSubmit \/ Gone \/ UNCHANGED vars
           \/ \E j \in Jobs : Callback(j) \/ ScopeSettles(j)
  <2>1. UNCHANGED <<lease, committed, loss, done, local>>
    BY <1>3 DEF ForeignSubmit, Gone, vars, Callback, ScopeSettles, gpu, entries
  <2>2. \A k \in Jobs : work'[k].at = work[k].at
    BY <1>0, <2>1, StepMoves DEF Moves, Signals, Recovers, Forgets, Lands, Binds
  <2> QED
    BY <2>1, <2>2, RunningStays, Stutters
<1>4. CASE Lose
  <2>1. /\ UNCHANGED <<lease, committed, done, work>> /\ loss' = TRUE
    BY <1>4 DEF Lose, gpu, entries
  <2>2. Contract!Lose
    BY <2>1 DEF Contract!Lose
  <2> QED
    BY <2>2 DEF Contract!Next
<1>5. ASSUME NEW j \in Jobs, Abandon(j) \/ SubmitAborts(j)
      PROVE  [Contract!Next]_Contract!vars
  <2>1. Contract!Abort(j)
    BY <1>5 DEF Abandon, SubmitAborts, Contract!Abort, Contract!Move, gpu
  <2> QED
    BY <2>1 DEF Contract!Next
<1>6. ASSUME NEW j \in Jobs, Install(j)
      PROVE  [Contract!Next]_Contract!vars
  <2>1. Contract!Own(j)
    BY <1>6 DEF Install, Contract!Own, Contract!Move, gpu
  <2> QED
    BY <2>1 DEF Contract!Next
<1> QED
  BY <1>2, <1>3, <1>4, <1>5, <1>6, GpuRefines, CollectRefines, SubmitRefines DEF Next, OwnerStep

-----------------------------------------------------------------------------
LEMMA JStep ==
  ASSUME JInv, [Next]_vars
  PROVE  JInv'
<1>1. IInv'
  BY TypeStep, OwnedStep, PositionsStep, RecordedStep, EmptyStep, SeenStep, SettledStep
     DEF JInv, IInv
<1> QED
  BY <1>1, ListedStep, DistinctStep, UncommittedStep, ScopedStep, SeenCommitsStep DEF JInv

(* What the refinement needs of the lists, positions and commitments of    *)
(* the queue holds in every state.                                         *)
THEOREM JInductive == Spec => []JInv
<1>1. JInv /\ [Next]_vars => JInv'
  BY JStep
<1> QED
  BY JInitHolds, <1>1, PTL DEF Spec

(* The queue keeps the contract of WorkLease and WorkQueue to every job:   *)
(* whatever the drivers, the callbacks and the callers do, a lease is      *)
(* aborted before its commands run, or completed once they no longer can,  *)
(* or completed with the loss, once; and a success was told of its         *)
(* submission.                                                             *)
THEOREM Refinement == Spec => KeepsContract
<1>1. Init => Contract!Init
  <2>1. ASSUME Init PROVE {j \in Jobs : done < work[j].at} = {}
    BY <2>1 DEF Init, NoSubmission
  <2> QED
    BY <2>1 DEF Init, Contract!Init
<1>2. JInv /\ [Next]_vars => [Contract!Next]_Contract!vars
  BY StepRefines
<1> QED
  BY JInductive, <1>1, <1>2, PTL DEF Spec, KeepsContract, Contract!Spec

-----------------------------------------------------------------------------
(***************************************************************************)
(* What the owner of the queue may rely on: a success is the success of    *)
(* work that ran, the queue is poisoned exactly while something is in      *)
(* doubt and submits nothing then, and a poll that panicked releases       *)
(* nothing.                                                                *)
(***************************************************************************)

InDoubt == \E j \in ToSet(pending) : Failing(j)

Doubt == poisoned <=> pollFault \/ InDoubt

(* The flag and the latch, seen from each place of a call.  A loss that is *)
(* reported in the middle of a call leaves the flag alone until the next.  *)
DoubtKnown ==
  /\ local.error = "lost" => loss
  /\ local.pc \in {"observe", "settle", "submit", "bind", "finish"} => ~pollFault
  /\ local.pc \in {"idle", "poll"} /\ ~loss => Doubt
  /\ local.pc = "return" /\ local.error # "lost" => Doubt
  /\ local.pc \in {"submit", "bind", "finish"} => ~poisoned /\ ~InDoubt
  /\ \A j \in Jobs : lease[j] = "recorded" => ~Failing(j)

(* Work whose scopes accept it and that has not failed was submitted, and  *)
(* so was work whose callback was dropped.                                 *)
Accepted ==
  /\ \A j \in Jobs : lease[j] = "held" /\ ~Underway(j) /\ ~Failing(j) /\ work[j].scope # "err"
                       => work[j].at # 0
  /\ \A j \in Jobs : failure[j] = "dropped" => work[j].at # 0
  /\ local.pc = "bind" => work[Last(pending)].at # 0 \/ work[Last(pending)].scope = "err"
  /\ local.pc = "finish" /\ local.error = "none"
       => work[Last(pending)].at # 0 \/ work[Last(pending)].scope = "err"

(* Leases are told of a submission once its scopes have accepted it. *)
CommitIsReal == \A j \in Jobs : committed[j] => work[j].scope = "ok" /\ work[j].at # 0

SuccessIsTold == \A j \in Jobs : lease[j] = "ok" => committed[j]

(* The list is in the order of submission. *)
Ordered ==
  \A a, b \in 1..Len(pending) :
    a < b /\ work[pending[b]].at # 0 => work[pending[a]].at < work[pending[b]].at

KInv == JInv /\ DoubtKnown /\ Accepted /\ CommitIsReal /\ SuccessIsTold /\ Ordered

-----------------------------------------------------------------------------
LEMMA KInitHolds == Init => KInv
<1>1. ASSUME Init PROVE DoubtKnown /\ Accepted /\ CommitIsReal /\ SuccessIsTold /\ Ordered
  <2>1. /\ local.pc = "idle" /\ local.error = "none" /\ pending = <<>> /\ ToSet(pending) = {}
        /\ ~poisoned /\ ~pollFault
    BY <1>1 DEF Init, Idle, ToSet
  <2>2. \A j \in Jobs : /\ lease[j] = "recorded" /\ failure[j] = "none" /\ ~committed[j]
    BY <1>1 DEF Init
  <2> QED
    BY <2>1, <2>2 DEF DoubtKnown, Doubt, InDoubt, Failing, Accepted, CommitIsReal, SuccessIsTold,
                      Ordered
<1> QED
  BY JInitHolds, <1>1 DEF KInv

-----------------------------------------------------------------------------
(* What one step can do to the failure of one job. *)
FailureMoves(k) ==
  \/ failure'[k] = failure[k]
  \/ /\ Observe /\ k = Current
     /\ failure[k] = "none" /\ failure'[k] = Status(work[k]) /\ Fails(Status(work[k]))
  \/ Settle /\ k = Current /\ lease'[k] # "held" /\ failure'[k] = "none"
  \/ SubmitFinishes /\ k = Last(pending) /\ failure'[k] \in {"panicked", "rejected"}

LEMMA StepFails ==
  ASSUME IInv, [Next]_vars, NEW k \in Jobs
  PROVE  FailureMoves(k)
<1>0. /\ QueueTypeOK /\ Owned
      /\ failure \in [Jobs -> {"none", "dropped", "rejected", "panicked"}]
      /\ lease \in [Jobs -> {"recorded", "held", "aborted"} \cup Settled]
  BY DEF IInv, QueueTypeOK
<1>1. CASE UNCHANGED failure
  BY <1>1 DEF FailureMoves
<1>2. CASE \/ GpuRetires \/ ForeignSubmit \/ Lose \/ Gone \/ UNCHANGED vars
           \/ \E j \in Jobs : \/ Callback(j) \/ ScopeSettles(j) \/ Abandon(j)
                             \/ SubmitAborts(j) \/ Install(j)
           \/ \E c \in Calls : Call(c)
           \/ TerminalLoss \/ PollFails \/ Poll \/ CollectEnds
           \/ CollectReturns \/ SlotsReturns \/ ShutdownReturns \/ SubmitRefused
           \/ Submit \/ Bind
  BY <1>1, <1>2 DEF GpuRetires, ForeignSubmit, Lose, Gone, vars, Callback, ScopeSettles, Abandon,
       SubmitAborts, Install, Call, TerminalLoss, PollFails, Poll, CollectEnds, CollectReturns,
       SlotsReturns, ShutdownReturns, SubmitRefused, Submit, Bind, entries
<1>3. CASE Observe
  <2> DEFINE status == Status(work[Current])
  <2>1. /\ Current \in Jobs
        /\ \/ UNCHANGED failure
           \/ /\ ~Failing(Current) /\ Fails(status)
              /\ failure' = [failure EXCEPT ![Current] = status]
    BY <1>3, CurrentIsHeld DEF Observe
  <2>2. CASE /\ ~Failing(Current) /\ Fails(status)
             /\ failure' = [failure EXCEPT ![Current] = status]
    <3> HIDE DEF status
    <3>1. failure'[k] = failure[k] \/ (k = Current /\ failure'[k] = status)
      BY <1>0, <2>1, <2>2
    <3> QED
      BY <1>3, <2>2, <3>1 DEF FailureMoves, Failing, status
  <2> QED
    BY <1>1, <2>1, <2>2
<1>4. CASE Settle
  <2>1. /\ Current \in Jobs
        /\ \/ UNCHANGED failure
           \/ /\ Outcome(Current) # "none"
              /\ lease' = [lease EXCEPT ![Current] = Outcome(Current)]
              /\ failure' = [failure EXCEPT ![Current] = "none"]
    BY <1>0, <1>4, SettleEffect
  <2>2. CASE /\ Outcome(Current) # "none"
             /\ lease' = [lease EXCEPT ![Current] = Outcome(Current)]
             /\ failure' = [failure EXCEPT ![Current] = "none"]
    <3>1. Outcome(Current) # "held"
      BY <1>4, <2>2, OutcomeProves
    <3>2. \/ failure'[k] = failure[k]
          \/ k = Current /\ lease'[k] # "held" /\ failure'[k] = "none"
      BY <1>0, <2>1, <2>2, <3>1
    <3> QED
      BY <1>4, <3>2 DEF FailureMoves
  <2> QED
    BY <1>1, <2>1, <2>2
<1>5. CASE SubmitFinishes
  <2>1. /\ Last(pending) \in Jobs
        /\ \/ UNCHANGED failure
           \/ \E f \in {"panicked", "rejected"} : failure' = [failure EXCEPT ![Last(pending)] = f]
    BY <1>0, <1>5, FinishEffect
  <2>2. \/ failure'[k] = failure[k]
        \/ k = Last(pending) /\ failure'[k] \in {"panicked", "rejected"}
    BY <1>0, <2>1
  <2> QED
    BY <1>5, <2>2 DEF FailureMoves
<1> QED
  BY <1>2, <1>3, <1>4, <1>5 DEF Next, OwnerStep

(* Where leases are told of their submission, and on what grounds. *)
CommitGrounds(k) ==
  \/ committed'[k] = committed[k]
  \/ Observe /\ k = Current /\ Accepts(k)
  \/ Settle /\ k = Current /\ Recovered(k)
  \/ /\ SubmitFinishes /\ k = Last(pending)
     /\ committed'[k] => work'[k].scope = "ok" /\ local.error = "none" /\ work[k].scope # "err"

LEMMA StepGrounds ==
  ASSUME IInv, [Next]_vars, NEW k \in Jobs
  PROVE  CommitGrounds(k)
<1>0. /\ QueueTypeOK /\ Owned /\ committed \in [Jobs -> BOOLEAN] /\ work \in [Jobs -> Submissions]
  BY DEF IInv, QueueTypeOK
<1>1. CASE UNCHANGED committed
  BY <1>1 DEF CommitGrounds
<1>2. CASE \/ GpuRetires \/ ForeignSubmit \/ Lose \/ Gone \/ UNCHANGED vars
           \/ \E j \in Jobs : \/ Callback(j) \/ ScopeSettles(j) \/ Abandon(j)
                             \/ SubmitAborts(j) \/ Install(j)
           \/ \E c \in Calls : Call(c)
           \/ TerminalLoss \/ PollFails \/ Poll \/ CollectEnds
           \/ CollectReturns \/ SlotsReturns \/ ShutdownReturns \/ SubmitRefused
           \/ Submit \/ Bind
  BY <1>1, <1>2 DEF GpuRetires, ForeignSubmit, Lose, Gone, vars, Callback, ScopeSettles, Abandon,
       SubmitAborts, Install, Call, TerminalLoss, PollFails, Poll, CollectEnds, CollectReturns,
       SlotsReturns, ShutdownReturns, SubmitRefused, Submit, Bind, entries
<1>3. CASE Observe
  <2>1. /\ Current \in Jobs
        /\ committed' = [committed EXCEPT ![Current] = @ \/ Accepts(Current)]
    BY <1>0, <1>3, ObserveEffect
  <2>2. committed'[k] = committed[k] \/ (k = Current /\ Accepts(k))
    BY <1>0, <2>1
  <2> QED
    BY <1>3, <2>2 DEF CommitGrounds
<1>4. CASE Settle
  <2>1. /\ Current \in Jobs
        /\ committed' = [committed EXCEPT ![Current] = @ \/ Recovered(Current)]
    BY <1>0, <1>4, SettleEffect
  <2>2. committed'[k] = committed[k] \/ (k = Current /\ Recovered(k))
    BY <1>0, <2>1
  <2> QED
    BY <1>4, <2>2 DEF CommitGrounds
<1>5. CASE SubmitFinishes
  <2> DEFINE j == Last(pending)
  <2>1. PICK x \in {"open", "ok", "err"} :
          /\ j \in Jobs
          /\ work[j].scope \in {"none", x}
          /\ work' = [work EXCEPT ![j].scope = x]
          /\ \/ /\ committed' = [committed EXCEPT ![j] = (x = "ok")]
                /\ local.error = "none" /\ x # "err"
             \/ UNCHANGED committed
    BY <1>0, <1>5, FinishEffect
  <2> HIDE DEF j
  <2>2. work'[j].scope = x
    BY <1>0, <2>1 DEF Submissions
  <2>3. \/ committed'[k] = committed[k]
        \/ /\ k = j
           /\ committed'[k] => work'[k].scope = "ok" /\ local.error = "none" /\ work[k].scope # "err"
    BY <1>0, <2>1, <2>2
  <2> QED
    BY <1>5, <2>3 DEF CommitGrounds, j
<1> QED
  BY <1>2, <1>3, <1>4, <1>5 DEF Next, OwnerStep

-----------------------------------------------------------------------------
(* What the owner's steps do to its place and to the error it reports. *)
LEMMA Reports ==
  ASSUME IInv
  PROVE  /\ \A c \in Calls : Call(c) => local'.error = "none"
         /\ TerminalLoss => local'.error = "lost"
         /\ PollFails => local'.error = "poll"
         /\ Poll => local'.error = "none"
         /\ Observe \/ CollectEnds => local'.error = local.error
         /\ Settle => local'.error \in {local.error, "failed"}
         /\ CollectReturns \/ SlotsReturns \/ ShutdownReturns \/ SubmitRefused
              => local'.error = "none"
         /\ \A j \in Jobs : SubmitAborts(j) => local'.error = "none"
         /\ \A j \in Jobs : Install(j) => local'.error = local.error
         /\ Submit \/ Bind => local'.error \in {local.error, "panicked"}
         /\ SubmitFinishes => local'.error = "none"
<1>0. /\ QueueTypeOK /\ Owned
      /\ local = [pc |-> local.pc, call |-> local.call, index |-> local.index,
                  empty |-> local.empty, seen |-> local.seen, error |-> local.error]
  BY DEF IInv, QueueTypeOK
<1>1. /\ \A c \in Calls : Call(c) => local'.error = "none"
      /\ TerminalLoss => local'.error = "lost"
      /\ PollFails => local'.error = "poll"
      /\ \A j \in Jobs : SubmitAborts(j) => local'.error = "none"
      /\ \A j \in Jobs : Install(j) => local'.error = local.error
      /\ CollectEnds => local'.error = local.error
  <2>1. ASSUME NEW c \in Calls, Call(c) PROVE local'.error = "none"
    <3>1. \E p : local' = [Idle EXCEPT !.call = c, !.pc = p]
      BY <2>1, Zenon DEF Call
    <3> QED
      BY <3>1 DEF Idle
  <2>2. TerminalLoss => local'.error = "lost"
    BY <1>0 DEF TerminalLoss
  <2>3. PollFails => local'.error = "poll"
    BY <1>0 DEF PollFails
  <2>4. ASSUME NEW j \in Jobs PROVE SubmitAborts(j) => local'.error = "none"
    BY DEF SubmitAborts, Returns, Idle
  <2>5. ASSUME NEW j \in Jobs PROVE Install(j) => local'.error = local.error
    BY <1>0 DEF Install, Goto
  <2>6. CollectEnds => local'.error = local.error
    BY <1>0 DEF CollectEnds, Goto
  <2> QED
    BY <2>1, <2>2, <2>3, <2>4, <2>5, <2>6
<1>2. Poll => local'.error = "none"
  <2>1. Poll => \E e : local' = [local EXCEPT !.pc = "observe", !.index = 1, !.error = "none",
                                            !.empty = e]
    BY DEF Poll
  <2> QED
    BY <1>0, <2>1
<1>3. Observe => local'.error = local.error
  <2>1. Observe => \E s : local' = [local EXCEPT !.pc = "settle", !.seen = s]
    BY <1>0, ObserveEffect
  <2> QED
    BY <1>0, <2>1
<1>4. Settle => local'.error \in {local.error, "failed"}
  <2>1. Settle => \/ local' = [local EXCEPT !.pc = "observe", !.index = @ + 1, !.seen = "none"]
                  \/ local' = [local EXCEPT !.pc = "observe", !.seen = "none",
                                 !.error = IF Outcome(Current) = "failed" THEN "failed" ELSE @]
    BY <1>0, SettleEffect
  <2> DEFINE failed == Outcome(Current) = "failed"
  <2> HIDE DEF failed
  <2>2. Settle => \/ local' = [local EXCEPT !.pc = "observe", !.index = @ + 1, !.seen = "none"]
                  \/ local' = [local EXCEPT !.pc = "observe", !.seen = "none",
                                 !.error = IF failed THEN "failed" ELSE @]
    BY <2>1 DEF failed
  <2> QED
    BY <1>0, <2>2
<1>5. CollectReturns \/ SlotsReturns \/ ShutdownReturns \/ SubmitRefused => local'.error = "none"
  <2>1. ASSUME NEW c, local' = [Idle EXCEPT !.call = c, !.pc = "poll"] PROVE local'.error = "none"
    BY <2>1 DEF Idle
  <2>2. ASSUME local' = Idle \/ local' = [Idle EXCEPT !.pc = "gone"] PROVE local'.error = "none"
    BY <2>2 DEF Idle
  <2> QED
    BY <2>1, <2>2, ReturnEffect
<1>6. Submit => local'.error \in {local.error, "panicked"}
  BY <1>0, SubmitEffect
<1>7. Bind => local'.error \in {local.error, "panicked"}
  BY <1>0, BindEffect
<1>8. SubmitFinishes => local'.error = "none"
  BY <1>0, FinishEffect DEF Idle
<1> QED
  BY <1>1, <1>2, <1>3, <1>4, <1>5, <1>6, <1>7, <1>8

(* A recorded job has not failed. *)
LEMMA RecordedIsSound ==
  ASSUME KInv, [Next]_vars, NEW k \in Jobs, lease'[k] = "recorded"
  PROVE  ~Failing(k)'
<1>0. IInv /\ DoubtKnown
  BY DEF KInv, JInv
<1>1. lease[k] = "recorded"
  BY <1>0, StepMovesLeases, OutcomeProves DEF LeaseMoves
<1>2. failure[k] = "none"
  BY <1>0, <1>1 DEF DoubtKnown, Failing
<1>3. failure'[k] = "none"
  <2>1. Observe \/ Settle => lease[Current] = "held"
    BY <1>0, CurrentIsHeld
  <2>2. SubmitFinishes => lease[Last(pending)] = "held"
    BY <1>0, LastIsHeld DEF SubmitFinishes
  <2> QED
    BY <1>0, <1>1, <1>2, <2>1, <2>2, StepFails DEF FailureMoves
<1> QED
  BY <1>3 DEF Failing

LEMMA DoubtStep ==
  ASSUME KInv, [Next]_vars
  PROVE  DoubtKnown'
<1>0. /\ IInv /\ QueueTypeOK /\ Owned /\ DoubtKnown
      /\ pending \in Seq(Jobs)
      /\ failure \in [Jobs -> {"none", "dropped", "rejected", "panicked"}]
  BY DEF KInv, JInv, IInv, QueueTypeOK
<1>a. /\ local.error = "lost" => loss
      /\ local.pc \in {"observe", "settle", "submit", "bind", "finish"} => ~pollFault
      /\ local.pc \in {"idle", "poll"} /\ ~loss => Doubt
      /\ local.pc = "return" /\ local.error # "lost" => Doubt
      /\ local.pc \in {"submit", "bind", "finish"} => ~poisoned /\ ~InDoubt
  BY <1>0 DEF DoubtKnown
<1> DEFINE Says ==
      /\ local.error = "lost" => loss
      /\ local.pc \in {"observe", "settle", "submit", "bind", "finish"} => ~pollFault
      /\ local.pc \in {"idle", "poll"} /\ ~loss => Doubt
      /\ local.pc = "return" /\ local.error # "lost" => Doubt
      /\ local.pc \in {"submit", "bind", "finish"} => ~poisoned /\ ~InDoubt
<1> SUFFICES Says'
  BY RecordedIsSound DEF DoubtKnown
<1>b. ASSUME UNCHANGED <<pending, failure>> PROVE InDoubt' = InDoubt
  BY <1>b DEF InDoubt, Failing
<1>c. ASSUME UNCHANGED <<pending, failure, poisoned, pollFault>> PROVE Doubt' = Doubt
  BY <1>b, <1>c DEF Doubt
<1>1. CASE \/ GpuRetires \/ ForeignSubmit \/ Lose \/ Gone \/ UNCHANGED vars
           \/ \E j \in Jobs : Callback(j) \/ ScopeSettles(j) \/ Abandon(j)
  <2>1. UNCHANGED <<pending, failure, poisoned, pollFault, local>> /\ (loss => loss')
    BY <1>1 DEF GpuRetires, ForeignSubmit, Lose, Gone, vars, Callback, ScopeSettles, Abandon,
                entries, queue
  <2> QED
    BY <1>a, <1>b, <1>c, <2>1
<1>2. ASSUME NEW c \in Calls, Call(c) PROVE Says'
  <2>1. /\ UNCHANGED <<pending, failure, poisoned, pollFault, loss>>
        /\ local.pc = "idle" /\ local'.pc \in {"poll", "gone"} /\ local'.error = "none"
    BY <1>0, <1>2, Places, Reports DEF Call, entries, queue
  <2> QED
    BY <1>a, <1>b, <1>c, <2>1
<1>3. CASE TerminalLoss
  <2>1. /\ local'.pc = "return" /\ local'.error = "lost" /\ loss'
    BY <1>0, <1>3, Places, Reports DEF TerminalLoss
  <2> QED
    BY <2>1
<1>4. CASE PollFails
  <2>1. /\ local.pc = "poll" /\ ~loss /\ local'.pc = "return" /\ local'.error = "poll"
        /\ UNCHANGED <<pending, failure>>
        /\ UNCHANGED <<poisoned, pollFault>> \/ (poisoned' /\ pollFault')
    <3>1. local'.pc = "return" /\ local'.error = "poll"
      BY <1>0, <1>4, Places, Reports
    <3>2. local.pc = "poll" /\ ~loss /\ UNCHANGED <<pending, failure>>
      BY <1>4 DEF PollFails, entries
    <3>3. UNCHANGED <<poisoned, pollFault>> \/ (poisoned' /\ pollFault')
      BY <1>4 DEF PollFails
    <3> QED
      BY <3>1, <3>2, <3>3
  <2>2. Doubt'
    BY <1>a, <1>c, <2>1 DEF Doubt
  <2> QED
    BY <2>1, <2>2
<1>5. CASE Poll
  <2>1. ~pollFault' /\ local'.pc = "observe" /\ local'.error = "none"
    BY <1>0, <1>5, Places, Reports DEF Poll, queue
  <2> QED
    BY <2>1
<1>6. CASE Observe \/ Settle
  <2>1. /\ local.pc \in {"observe", "settle"} /\ local'.pc \in {"observe", "settle"}
        /\ local'.error \in {local.error, "failed"}
        /\ UNCHANGED <<loss, pollFault>>
    <3>1. local.pc \in {"observe", "settle"} /\ UNCHANGED <<loss, pollFault>>
      BY <1>6 DEF Observe, Settle
    <3>2. local'.pc \in {"observe", "settle"}
      BY <1>0, <1>6, Places
    <3>3. local'.error \in {local.error, "failed"}
      BY <1>0, <1>6, Reports
    <3> QED
      BY <3>1, <3>2, <3>3
  <2> QED
    BY <1>a, <2>1
<1>7. CASE CollectEnds
  <2>1. /\ local.pc = "observe" /\ local'.pc = "return" /\ local'.error = local.error
        /\ UNCHANGED <<loss, pollFault, pending, failure>>
        /\ poisoned' = InDoubt
    BY <1>0, <1>7, Places, Reports DEF CollectEnds, InDoubt, entries
  <2>2. Doubt'
    BY <1>a, <1>b, <2>1 DEF Doubt
  <2> QED
    BY <1>a, <2>1, <2>2
<1>8. CASE \/ CollectReturns \/ SlotsReturns \/ ShutdownReturns \/ SubmitRefused
           \/ \E j \in Jobs : SubmitAborts(j)
  <2>1. /\ local.pc = "return" /\ local'.error = "none"
        /\ local'.pc \in {"idle", "poll", "gone"}
        /\ UNCHANGED <<pending, failure, poisoned, pollFault, loss>>
    BY <1>0, <1>8, Places, Reports DEF CollectReturns, SlotsReturns, ShutdownReturns, SubmitRefused,
       SubmitAborts, entries, queue
  <2> QED
    BY <1>a, <1>c, <2>1
<1>9. ASSUME NEW j \in Jobs, Install(j) PROVE Says'
  <2>1. /\ local.pc = "return" /\ local.error = "none" /\ ~poisoned
        /\ local'.pc = "submit" /\ local'.error = "none"
        /\ lease[j] = "recorded" /\ pending' = Append(pending, j)
        /\ UNCHANGED <<failure, poisoned, pollFault>>
    BY <1>0, <1>9, Places, Reports DEF Install, Refused
  <2>2. ~pollFault /\ ~InDoubt
    BY <1>a, <2>1 DEF Doubt
  <2>3. ~InDoubt'
    <3>1. ASSUME NEW k \in ToSet(pending)' PROVE k = j \/ k \in ToSet(pending)
      <4>1. PICK n \in 1..Len(pending') : k = pending'[n]
        BY <3>1 DEF ToSet
      <4> QED
        BY <1>0, <2>1, <4>1, AppendProperties DEF ToSet
    <3>2. ~Failing(j)
      BY <1>0, <2>1 DEF DoubtKnown
    <3> QED
      BY <2>1, <2>2, <3>1, <3>2 DEF InDoubt, Failing
  <2> QED
    BY <2>1, <2>2, <2>3
<1>10. CASE Submit \/ Bind
  <2>1. /\ local.pc \in {"submit", "bind"} /\ local'.pc \in {"bind", "finish"}
        /\ local'.error \in {local.error, "panicked"}
        /\ UNCHANGED <<pending, failure, poisoned, pollFault, loss>>
    BY <1>0, <1>10, Places, Reports DEF Submit, Bind, queue
  <2> QED
    BY <1>a, <1>b, <2>1
<1>11. CASE SubmitFinishes
  <2>1. /\ local.pc = "finish" /\ local'.pc = "idle" /\ local'.error = "none"
        /\ UNCHANGED <<pending, pollFault, loss>>
    BY <1>0, <1>11, Places, Reports DEF SubmitFinishes
  <2>2. ~pollFault /\ ~poisoned /\ ~InDoubt
    BY <1>a, <2>1
  <2>3. \/ UNCHANGED <<failure, poisoned>>
        \/ /\ \E f \in {"panicked", "rejected"} : failure' = [failure EXCEPT ![Last(pending)] = f]
           /\ poisoned'
    BY <1>0, <1>11, FinishEffect
  <2>4. Last(pending) \in Jobs /\ Last(pending) \in ToSet(pending)
    <3>1. pending # <<>>
      BY <1>0, <2>1 DEF Owned
    <3> QED
      BY <1>0, <3>1, LastIsJob DEF Last, ToSet
  <2>5. CASE UNCHANGED <<failure, poisoned>>
    BY <1>b, <2>1, <2>2, <2>5 DEF Doubt
  <2>6. CASE /\ \E f \in {"panicked", "rejected"} : failure' = [failure EXCEPT ![Last(pending)] = f]
             /\ poisoned'
    <3>1. failure'[Last(pending)] # "none"
      BY <1>0, <2>4, <2>6
    <3>2. InDoubt'
      <4>1. Last(pending) \in ToSet(pending')
        BY <2>1, <2>4
      <4> QED
        BY <3>1, <4>1 DEF InDoubt, Failing
    <3> QED
      BY <2>1, <2>2, <2>6, <3>2 DEF Doubt
  <2> QED
    BY <2>3, <2>5, <2>6
<1> QED
  BY <1>1, <1>2, <1>3, <1>4, <1>5, <1>6, <1>7, <1>8, <1>9, <1>10, <1>11 DEF Next, OwnerStep

-----------------------------------------------------------------------------
(* A submission in progress goes on, whatever the others do. *)
LEMMA UnderwayGoesOn ==
  ASSUME IInv, [Next]_vars, local.pc \in {"submit", "bind", "finish"}
  PROVE  \/ Submit \/ Bind \/ SubmitFinishes
         \/ UNCHANGED <<local, pending>>
<1>1. CASE \/ GpuRetires \/ ForeignSubmit \/ Lose \/ Gone \/ UNCHANGED vars
           \/ \E j \in Jobs : Callback(j) \/ ScopeSettles(j) \/ Abandon(j)
  BY <1>1 DEF GpuRetires, ForeignSubmit, Lose, Gone, vars, Callback, ScopeSettles, Abandon, queue
<1>2. ~ \/ \E c \in Calls : Call(c)
        \/ TerminalLoss \/ PollFails \/ Poll \/ Observe \/ Settle \/ CollectEnds
        \/ CollectReturns \/ SlotsReturns \/ ShutdownReturns \/ SubmitRefused
        \/ \E j \in Jobs : SubmitAborts(j) \/ Install(j)
  BY DEF Call, TerminalLoss, PollFails, Poll, Observe, Settle, CollectEnds, CollectReturns,
     SlotsReturns, ShutdownReturns, SubmitRefused, SubmitAborts, Install
<1> QED
  BY <1>1, <1>2 DEF Next, OwnerStep

(* Commands get their position once, from Submit. *)
LEMMA AtMoves ==
  ASSUME IInv, [Next]_vars, NEW k \in Jobs
  PROVE  /\ work[k].at \in Nat /\ tail \in Nat /\ work[k].at <= tail
         /\ \/ work'[k].at = work[k].at
            \/ /\ work'[k].at = tail + 1 /\ k = Last(pending)
               /\ local.pc = "submit" /\ local'.pc # "submit"
<1>1. tail \in Nat /\ work[k].at \in Nat /\ work[k].at <= tail
  BY DEF IInv, QueueTypeOK, Submissions, Positions
<1>2. Moves
  BY StepMoves
<1> QED
  BY <1>1, <1>2 DEF Moves, Signals, Recovers, Forgets, Lands, Binds

LEMMA SubmittedStays ==
  ASSUME IInv, [Next]_vars, NEW k \in Jobs, work[k].at # 0
  PROVE  work'[k].at # 0
BY AtMoves

(* What Submit leaves for Bind to find. *)
LEMMA SubmitLeaves ==
  ASSUME QueueTypeOK, Owned, Submit, local'.pc = "bind" \/ local'.error = "none"
  PROVE  work'[Last(pending)].at # 0 \/ work'[Last(pending)].scope = "err"
<1> DEFINE j == Last(pending)
<1>1. /\ work \in [Jobs -> Submissions] /\ tail \in Nat /\ local \in Locals
      /\ j \in Jobs
      /\ \/ work' = [work EXCEPT ![j].at = tail + 1]
         \/ work' = [work EXCEPT ![j].scope = "err"]
         \/ local' = [local EXCEPT !.pc = "finish", !.error = "panicked"]
  BY SubmitEffect DEF QueueTypeOK, Locals
<1> HIDE DEF j
<1>2. CASE work' = [work EXCEPT ![j].at = tail + 1]
  <2>1. work'[j].at = tail + 1
    BY <1>1, <1>2 DEF Submissions
  <2> QED
    BY <1>1, <2>1 DEF j
<1>3. CASE work' = [work EXCEPT ![j].scope = "err"]
  <2>1. work'[j].scope = "err"
    BY <1>1, <1>3 DEF Submissions
  <2> QED
    BY <2>1 DEF j
<1>4. ~(local' = [local EXCEPT !.pc = "finish", !.error = "panicked"])
  BY <1>1 DEF Locals
<1> QED
  BY <1>1, <1>2, <1>3, <1>4

LEMMA AcceptedStep ==
  ASSUME KInv, [Next]_vars
  PROVE  Accepted'
<1>0. /\ IInv /\ QueueTypeOK /\ Owned /\ Accepted
      /\ failure \in [Jobs -> {"none", "dropped", "rejected", "panicked"}]
      /\ work \in [Jobs -> Submissions]
  BY DEF KInv, JInv, IInv, QueueTypeOK
<1>a. Observe \/ Settle => /\ lease[Current] = "held" /\ Current \in Jobs
                           /\ local.pc \in {"observe", "settle"} /\ ~Underway(Current)
  BY <1>0, CurrentIsHeld DEF Observe, Settle, Underway
<1>b. SubmitFinishes => local.pc = "finish" /\ Underway(Last(pending))
  BY DEF SubmitFinishes, Underway
<1>1. ASSUME NEW j \in Jobs, lease'[j] = "held", ~Underway(j)', ~Failing(j)', work'[j].scope # "err"
      PROVE  work'[j].at # 0
  <2>1. lease[j] = "held"
    <3>1. ASSUME Install(j) PROVE FALSE
      <4>1. local'.pc = "submit" /\ Last(pending') = j
        <5>1. pending \in Seq(Jobs) /\ pending' = Append(pending, j)
          BY <1>0, <3>1 DEF QueueTypeOK, Install
        <5> QED
          BY <1>0, <3>1, <5>1, Places, AppendProperties DEF Last
      <4> QED
        BY <1>1, <4>1 DEF Underway
    <3> QED
      BY <1>0, <1>1, <3>1, HeldComes
  <2>2. work[j].scope # "err"
    BY <1>0, <1>1, StepScopes DEF ScopeMoves
  <2>3. CASE Underway(j)
    <3>1. SubmitFinishes
      <4>1. ~(UNCHANGED <<local, pending>>)
        BY <1>1, <2>3 DEF Underway
      <4>2. ASSUME Submit \/ Bind PROVE FALSE
        <5>1. UNCHANGED pending /\ local'.pc \in {"bind", "finish"}
          BY <1>0, <4>2, Places DEF Submit, Bind, queue
        <5> QED
          BY <1>1, <2>3, <5>1 DEF Underway
      <4>3. local.pc \in {"submit", "bind", "finish"}
        BY <2>3 DEF Underway
      <4> QED
        BY <1>0, <4>1, <4>2, <4>3, UnderwayGoesOn
    <3>2. j = Last(pending)
      BY <2>3 DEF Underway
    <3>3. local.error = "none"
      <4>1. \/ local.error = "none"
            \/ \E f \in {"panicked", "rejected"} : failure' = [failure EXCEPT ![j] = f]
        BY <1>0, <3>1, <3>2, FinishEffect
      <4>2. failure'[j] = "none"
        BY <1>1 DEF Failing
      <4> QED
        BY <1>0, <4>1, <4>2
    <3>4. work[j].at # 0
      BY <1>0, <1>b, <2>2, <3>1, <3>2, <3>3 DEF Accepted
    <3> QED
      BY <1>0, <3>4, SubmittedStays
  <2>4. CASE ~Underway(j)
    <3>1. ~Failing(j)
      <4>1. failure'[j] = "none"
        BY <1>1 DEF Failing
      <4>2. ASSUME Settle, j = Current, lease'[j] # "held" PROVE FALSE
        BY <1>1, <4>2
      <4> QED
        BY <1>0, <1>b, <2>4, <4>1, <4>2, StepFails DEF FailureMoves, Failing
    <3>2. work[j].at # 0
      BY <1>0, <2>1, <2>2, <2>4, <3>1 DEF Accepted
    <3> QED
      BY <1>0, <3>2, SubmittedStays
  <2> QED
    BY <2>3, <2>4
<1>2. ASSUME NEW j \in Jobs, failure'[j] = "dropped" PROVE work'[j].at # 0
  <2>1. CASE failure[j] = "dropped"
    BY <1>0, <2>1, SubmittedStays DEF Accepted
  <2>2. CASE failure[j] # "dropped"
    <3>1. Observe /\ j = Current /\ failure[j] = "none" /\ Status(work[j]) = "dropped"
      BY <1>0, <1>2, <2>2, StepFails DEF FailureMoves
    <3>2. work[j].scope # "err"
      BY <3>1 DEF Status
    <3>3. work[j].at # 0
      BY <1>0, <1>a, <3>1, <3>2 DEF Accepted, Failing
    <3> QED
      BY <1>0, <3>3, SubmittedStays
  <2> QED
    BY <2>1, <2>2
<1>3. ASSUME local'.pc = "bind" \/ (local'.pc = "finish" /\ local'.error = "none")
      PROVE  work'[Last(pending')].at # 0 \/ work'[Last(pending')].scope = "err"
  <2> DEFINE j == Last(pending)
  <2>1. CASE Submit
    <3>1. UNCHANGED pending
      BY <2>1 DEF Submit, queue
    <3> QED
      BY <1>0, <1>3, <2>1, <3>1, SubmitLeaves
  <2>2. ASSUME j \in Jobs, UNCHANGED pending, work[j].at # 0 \/ work[j].scope = "err"
        PROVE  work'[Last(pending')].at # 0 \/ work'[Last(pending')].scope = "err"
    <3>1. work[j].at # 0 => work'[j].at # 0
      BY <1>0, <2>2, SubmittedStays
    <3>2. work[j].scope = "err" => work'[j].scope = "err"
      BY <1>0, <2>2, StepScopes DEF ScopeMoves
    <3> QED
      BY <2>2, <3>1, <3>2
  <2>3. CASE Bind
    <3>1. UNCHANGED pending /\ local.pc = "bind"
      BY <2>3 DEF Bind, queue
    <3>2. j \in Jobs
      BY <1>0, <2>3, BindEffect
    <3> QED
      BY <1>0, <2>2, <3>1, <3>2 DEF Accepted
  <2>4. CASE UNCHANGED <<local, pending>>
    <3>1. j \in Jobs
      BY <1>0, <1>3, <2>4, LastIsHeld
    <3> QED
      BY <1>0, <1>3, <2>2, <2>4, <3>1 DEF Accepted
  <2> QED
    BY <1>0, <1>3, <2>1, <2>3, <2>4, UnderwayComes
<1> QED
  BY <1>1, <1>2, <1>3 DEF Accepted

LEMMA CommitIsRealStep ==
  ASSUME KInv, [Next]_vars
  PROVE  CommitIsReal'
<1>0. /\ IInv /\ QueueTypeOK /\ Accepted /\ CommitIsReal /\ Uncommitted
      /\ work \in [Jobs -> Submissions]
  BY DEF KInv, JInv, IInv, QueueTypeOK
<1> SUFFICES ASSUME NEW j \in Jobs, committed'[j]
             PROVE  work'[j].scope = "ok" /\ work'[j].at # 0
  BY DEF CommitIsReal
<1>a. ASSUME work[j].scope = "ok", ~Submit \/ j # Last(pending), work[j].at # 0
      PROVE  work'[j].scope = "ok" /\ work'[j].at # 0
  BY <1>0, <1>a, StepScopes, SubmittedStays DEF ScopeMoves
<1>1. CASE committed[j]
  <2>1. ~Submit \/ j # Last(pending)
    BY <1>0, <1>1 DEF Uncommitted, Underway, Submit
  <2> QED
    BY <1>0, <1>1, <1>a, <2>1 DEF CommitIsReal
<1>2. CASE Observe /\ j = Current /\ Accepts(j)
  <2>1. lease[j] = "held" /\ local.pc = "observe" /\ work[j].scope = "ok" /\ ~Failing(j)
    BY <1>0, <1>2, CurrentIsHeld DEF Observe, Accepts
  <2>2. work[j].at # 0 /\ ~Submit
    BY <1>0, <2>1 DEF Accepted, Underway, Submit
  <2> QED
    BY <1>a, <2>1, <2>2
<1>3. CASE Settle /\ j = Current /\ Recovered(j)
  <2>1. local.pc = "settle" /\ work[j].scope = "ok" /\ failure[j] = "dropped"
    BY <1>3 DEF Settle, Recovered
  <2>2. work[j].at # 0 /\ ~Submit
    BY <1>0, <2>1 DEF Accepted, Submit
  <2> QED
    BY <1>a, <2>1, <2>2
<1>4. CASE /\ SubmitFinishes /\ j = Last(pending)
           /\ work'[j].scope = "ok" /\ local.error = "none" /\ work[j].scope # "err"
  <2>1. work[j].at # 0
    BY <1>0, <1>4 DEF Accepted, SubmitFinishes
  <2> QED
    BY <1>0, <1>4, <2>1, SubmittedStays
<1> QED
  BY <1>0, <1>1, <1>2, <1>3, <1>4, StepGrounds DEF CommitGrounds

LEMMA SuccessIsToldStep ==
  ASSUME KInv, [Next]_vars
  PROVE  SuccessIsTold'
<1>0. /\ IInv /\ QueueTypeOK /\ Owned /\ SuccessIsTold /\ SeenCommits
      /\ committed \in [Jobs -> BOOLEAN]
  BY DEF KInv, JInv, IInv, QueueTypeOK
<1> SUFFICES ASSUME NEW j \in Jobs, lease'[j] = "ok" PROVE committed'[j]
  BY DEF SuccessIsTold
<1>1. CASE lease[j] = "ok"
  BY <1>0, <1>1, StepCommits DEF CommitMoves, SuccessIsTold
<1>2. CASE Settle /\ j = Current /\ Outcome(j) = "ok"
  <2>1. committed' = [committed EXCEPT ![j] = @ \/ Recovered(j)]
    BY <1>0, <1>2, SettleEffect
  <2>2. Recovered(j) \/ committed[j]
    <3>1. Failing(j) => Recovered(j)
      BY <1>2 DEF Outcome, Recovered, Failing
    <3>2. ~Failing(j) => local.seen = "ok"
      BY <1>2 DEF Outcome, Failing
    <3>3. local.pc = "settle"
      BY <1>2 DEF Settle
    <3> QED
      BY <1>0, <1>2, <3>1, <3>2, <3>3 DEF SeenCommits
  <2> QED
    BY <1>0, <2>1, <2>2
<1> QED
  BY <1>0, <1>1, <1>2, StepMovesLeases DEF LeaseMoves

LEMMA OrderedStep ==
  ASSUME KInv, [Next]_vars
  PROVE  Ordered'
<1>0. /\ IInv /\ QueueTypeOK /\ Owned /\ Ordered /\ SettledHasRetired
      /\ pending \in Seq(Jobs) /\ Len(pending) \in Nat
      /\ \A i \in 1..Len(pending) : pending[i] \in Jobs
  BY DEF KInv, JInv, IInv, QueueTypeOK
<1> SUFFICES ASSUME NEW a \in 1..Len(pending'), NEW b \in 1..Len(pending'), a < b,
                    work'[pending'[b]].at # 0
             PROVE  work'[pending'[a]].at < work'[pending'[b]].at
  BY DEF Ordered
<1>a. ASSUME local.pc # "submit", NEW m \in 1..Len(pending), NEW n \in 1..Len(pending), m < n,
             pending'[a] = pending[m], pending'[b] = pending[n]
      PROVE  work'[pending'[a]].at < work'[pending'[b]].at
  BY <1>0, <1>a, AtStays DEF Ordered
<1>1. CASE UNCHANGED pending /\ local.pc # "submit"
  BY <1>1, <1>a
<1>2. CASE UNCHANGED pending /\ local.pc = "submit"
  <2> DEFINE j == pending[a]
             k == pending[b]
  <2>1. /\ j \in Jobs /\ k \in Jobs /\ Len(pending) \in 1..Len(pending)
        /\ a # b /\ a \in 1..Len(pending) /\ b \in 1..Len(pending) /\ a # Len(pending)
    BY <1>0, <1>2
  <2>2. j # Last(pending)
    BY <1>0, <2>1 DEF Owned, Last
  <2>3. /\ work'[j].at = work[j].at /\ work[j].at \in Nat /\ work[j].at <= tail /\ tail \in Nat
        /\ work'[k].at = work[k].at \/ work'[k].at = tail + 1
    BY <1>0, <2>1, <2>2, AtMoves
  <2>4. CASE work'[k].at = work[k].at
    BY <1>0, <1>2, <2>1, <2>3, <2>4 DEF Ordered
  <2> QED
    BY <1>2, <2>3, <2>4
<1>3. ASSUME NEW j \in Jobs, Install(j)
      PROVE  work'[pending'[a]].at < work'[pending'[b]].at
  <2>1. /\ Len(pending') = Len(pending) + 1 /\ pending'[Len(pending) + 1] = j
        /\ \A n \in 1..Len(pending) : pending'[n] = pending[n]
        /\ local.pc = "return" /\ lease[j] = "recorded" /\ work' = work
    BY <1>0, <1>3, AppendProperties DEF Install
  <2>2. work'[j].at = 0
    BY <1>0, <2>1 DEF SettledHasRetired
  <2>3. b # Len(pending) + 1
    BY <2>1, <2>2
  <2>4. a \in 1..Len(pending) /\ b \in 1..Len(pending)
    BY <1>0, <2>1, <2>3
  <2> QED
    BY <1>a, <2>1, <2>4
<1>4. CASE TerminalLoss
  <2>1. Len(pending') = 0
    BY <1>4 DEF TerminalLoss
  <2> QED
    BY <2>1
<1>5. CASE Settle
  <2> DEFINE i == local.index
  <2>1. i \in 1..Len(pending) /\ local.pc = "settle"
    BY <1>0, <1>5, CurrentIsJob DEF Settle, Owned
  <2>2. UNCHANGED pending \/ pending' = RemoveAt(pending, i)
    BY <1>0, <1>5, SettleEffect
  <2>3. CASE pending' = RemoveAt(pending, i)
    <3>1. /\ Len(pending') = Len(pending) - 1
          /\ \A n \in 1..(Len(pending) - 1) : pending'[n] = pending[IF n < i THEN n ELSE n + 1]
      BY <1>0, <2>1, <2>3, RemoveAtProperties
    <3> DEFINE m == IF a < i THEN a ELSE a + 1
               n == IF b < i THEN b ELSE b + 1
    <3>2. m \in 1..Len(pending) /\ n \in 1..Len(pending) /\ m < n
      BY <1>0, <2>1, <3>1
    <3>3. pending'[a] = pending[m] /\ pending'[b] = pending[n]
      BY <3>1
    <3> HIDE DEF m, n
    <3> QED
      BY <1>a, <2>1, <3>2, <3>3
  <2> QED
    BY <1>1, <2>1, <2>2, <2>3
<1>6. CASE \/ GpuRetires \/ ForeignSubmit \/ Lose \/ Gone \/ UNCHANGED vars
           \/ \E j \in Jobs : Callback(j) \/ ScopeSettles(j) \/ Abandon(j) \/ SubmitAborts(j)
           \/ \E c \in Calls : Call(c)
           \/ PollFails \/ Poll \/ Observe \/ CollectEnds
           \/ CollectReturns \/ SlotsReturns \/ ShutdownReturns \/ SubmitRefused
           \/ Submit \/ Bind \/ SubmitFinishes
  <2>1. UNCHANGED pending
    BY <1>6 DEF GpuRetires, ForeignSubmit, Lose, Gone, vars, Callback, ScopeSettles,
       Abandon, SubmitAborts, Call, PollFails, Poll, Observe, CollectEnds, CollectReturns,
       SlotsReturns, ShutdownReturns, SubmitRefused, Submit, Bind, SubmitFinishes, queue
  <2> QED
    BY <1>1, <1>2, <2>1
<1> QED
  BY <1>3, <1>4, <1>5, <1>6 DEF Next, OwnerStep

-----------------------------------------------------------------------------
(* What the outcomes rest on (flag, latch, grounds of a commit, order of   *)
(* the list) holds in every state of the queue.                            *)
THEOREM KInductive == Spec => []KInv
<1>1. KInv /\ [Next]_vars => JInv'
  BY JStep DEF KInv
<1>2. KInv /\ [Next]_vars => KInv'
  BY <1>1, DoubtStep, AcceptedStep, CommitIsRealStep, SuccessIsToldStep, OrderedStep DEF KInv
<1> QED
  BY KInitHolds, <1>2, PTL DEF Spec

(* A lease that completed with Ok was told of its submission, its scopes   *)
(* accepted the commands, and the commands ran (collect and try_submit of  *)
(* wait/work.rs).                                                          *)
THEOREM SuccessesAreReal == Spec => []SuccessIsReal
<1>1. KInv => SuccessIsReal
  BY DEF KInv, SuccessIsTold, CommitIsReal, SuccessIsReal
<1> QED
  BY KInductive, <1>1, PTL

(* pending holds exactly the held jobs, each once and in the order of      *)
(* their submission (the order wait_for_slots relies on).                  *)
THEOREM PendingInOrder == Spec => []PendingIsFifo
<1>1. ASSUME KInv PROVE PendingIsFifo
  <2>1. QueueTypeOK /\ Owned /\ Listed /\ Ordered /\ pending \in Seq(Jobs)
    BY <1>1 DEF KInv, JInv, IInv, QueueTypeOK
  <2>2. ToSet(pending) = Held
    BY <2>1 DEF ToSet, Held, Owned, Listed
  <2>3. ASSUME NEW a \in 1..Len(pending), NEW b \in 1..Len(pending), a < b
        PROVE  pending[a] # pending[b]
    BY <2>1, <2>3 DEF Owned
  <2> QED
    BY <2>1, <2>2, <2>3 DEF PendingIsFifo, Ordered
<1> QED
  BY KInductive, <1>1, PTL

(* Between calls the queue is poisoned exactly while something is in doubt *)
(* (the flag is set wherever doubt arises and cleared only by collect).    *)
THEOREM PoisonIsDoubt == Spec => []PoisonedWhileInDoubt
<1>1. KInv => PoisonedWhileInDoubt
  BY DEF KInv, DoubtKnown, Doubt, InDoubt, PoisonedWhileInDoubt
<1> QED
  BY KInductive, <1>1, PTL

(* try_submit hands nothing to the GPU while an earlier submission lacks   *)
(* its proof or polling has panicked.                                      *)
THEOREM DoubtSubmitsNothing == Spec => NoSubmitInDoubt
<1>1. ASSUME KInv, [Next]_vars, NEW j \in Jobs, work[j].at = 0, work'[j].at # 0
      PROVE  ~pollFault /\ \A k \in ToSet(pending) : ~Failing(k)
  <2>1. local.pc = "submit"
    BY <1>1, AtMoves DEF KInv, JInv
  <2> QED
    BY <1>1, <2>1 DEF KInv, DoubtKnown, InDoubt
<1>2. KInv /\ [Next]_vars
        => [\A j \in Jobs : work[j].at = 0 /\ work'[j].at # 0
              => ~pollFault /\ \A k \in ToSet(pending) : ~Failing(k)]_vars
  BY <1>1
<1> QED
  BY KInductive, <1>2, PTL DEF Spec, NoSubmitInDoubt

(* After a poll that panicked collect settles nothing: only the loss of    *)
(* the device releases leases.                                             *)
THEOREM FatalPollReleasesNothing == Spec => FatalPollIsLatched
<1>1. ASSUME KInv, [Next]_vars, pollFault
      PROVE  pollFault' /\ \A j \in Held : lease'[j] \in {"held", "lost"}
  <2>1. pollFault'
    BY <1>1 DEF Next, OwnerStep, GpuRetires, ForeignSubmit, Lose, Gone, vars, Callback, ScopeSettles,
       Abandon, SubmitAborts, Install, Call, TerminalLoss, PollFails, Poll, Observe, Settle,
       CollectEnds, CollectReturns, SlotsReturns, ShutdownReturns, SubmitRefused, Submit, Bind,
       SubmitFinishes, queue
  <2>2. ~Settle
    BY <1>1 DEF KInv, DoubtKnown, Settle
  <2>3. ASSUME NEW j \in Held PROVE lease'[j] \in {"held", "lost"}
    <3>1. j \in Jobs /\ lease[j] = "held"
      BY <2>3 DEF Held
    <3> QED
      BY <1>1, <2>2, <3>1, StepMovesLeases DEF LeaseMoves, KInv, JInv
  <2> QED
    BY <2>1, <2>3
<1>2. KInv /\ [Next]_vars
        => [pollFault => pollFault' /\ \A j \in Held : lease'[j] \in {"held", "lost"}]_vars
  BY <1>1
<1> QED
  BY KInductive, <1>2, PTL DEF Spec, FatalPollIsLatched
=============================================================================
