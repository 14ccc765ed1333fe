-------------------------------- MODULE Sync --------------------------------
(***************************************************************************)
(* The synchronisation primitives: a mutex with priority inheritance, a    *)
(* cond used with it, a rwlock and a waitgroup.  A critical section under  *)
(* a primitive's ticket lock is one step, and a wait is over when it is    *)
(* decided (see WaitProtocol); boosting the owner, releasing the mutex in  *)
(* cond_wait and taking it again are steps of their own.                   *)
(*                                                                         *)
(* The program is assumed to unlock a rwlock only if it holds it (or       *)
(* nobody does) and not to lock it again meanwhile: the rwlock does not    *)
(* know its holders.                                                       *)
(***************************************************************************)
EXTENDS WqList, FiniteSetsExt

CONSTANTS Crs, None,
          Qos,         \* base_qos, 0 is the most urgent
          CallSets,    \* the operations a run may call
          Targets,     \* the coroutines a run may cancel or give a deadline
          MaxCount     \* bound on the waitgroup's count

Lists == {"mutex", "cond", "rwlock", "waitgroup"}
Ops == {"mutex_lock", "mutex_trylock", "cond_wait", "cond_signal", "cond_broadcast",
        "rdlock", "tryrdlock", "wrlock", "trywrlock", "wg_add", "wg_wait",
        "cancel", "timeout", "deadline"}

ASSUME SyncAssumption ==
    /\ None \notin Crs /\ Qos \in [Crs -> 0..3] /\ MaxCount \in Nat
    /\ CallSets \subseteq SUBSET Ops /\ Targets \subseteq Crs

VARIABLES
    owner,                     \* the mutex
    readers, writer,           \* the rwlock
    count,                     \* the waitgroup
    waiters,                   \* the wait list of each primitive
    status, effective_qos,
    cancel_requested, inflight, \* the request, and the wake that delivers it
    deadline,                  \* the coroutine's own deadline and its timer
    \* the call a coroutine is in, the owner it has read, the verdict of its
    \* cond wait
    pc, call, boosted, verdict,
    result,                    \* of the last call that returned
    holds,                     \* history: what its calls have told it it holds
    calls                      \* the operations of this run

lockVars == <<owner, readers, writer, count>>
callVars == <<call, boosted, verdict>>
stopVars == <<cancel_requested, inflight, deadline>>
vars == <<lockVars, waiters, status, stopVars, effective_qos, pc, callVars,
          result, holds, calls>>

Verdicts == {"OK", "CANCELED", "TIMEDOUT"}
Grips == {"mutex", "read", "write"}

suspenders_mutex_init == owner = None /\ waiters["mutex"] = <<>>
suspenders_rwlock_init == readers = 0 /\ writer = FALSE /\ waiters["rwlock"] = <<>>
suspenders_cond_init == waiters["cond"] = <<>>
suspenders_waitgroup_init == count = 0 /\ waiters["waitgroup"] = <<>>

Init ==
    /\ waiters = [l \in Lists |-> <<>>]
    /\ suspenders_mutex_init /\ suspenders_rwlock_init
    /\ suspenders_cond_init /\ suspenders_waitgroup_init
    /\ status = [c \in Crs |-> "OK"] /\ deadline = [c \in Crs |-> "none"]
    /\ cancel_requested = [c \in Crs |-> FALSE] /\ inflight = [c \in Crs |-> FALSE]
    /\ effective_qos = Qos /\ pc = [c \in Crs |-> "run"]
    /\ call = [c \in Crs |-> "none"] /\ boosted = [c \in Crs |-> None]
    /\ verdict = [c \in Crs |-> "OK"] /\ result = "OK"
    /\ holds = [c \in Crs |-> {}] /\ calls \in CallSets

Goto(c, label) == pc' = [pc EXCEPT ![c] = label]
Return(c, st) ==
    /\ Goto(c, "run") /\ result' = st
    /\ call' = [call EXCEPT ![c] = "none"] /\ UNCHANGED boosted
    /\ verdict' = [verdict EXCEPT ![c] = "OK"]
Gains(c, grip) == holds' = [holds EXCEPT ![c] = @ \cup {grip}]
Loses(c, grips) == holds' = [holds EXCEPT ![c] = @ \ grips]
Calls(c, op) == pc[c] = "run" /\ op \in calls /\ UNCHANGED calls

(* s_wait_park.                                                            *)
Park(c, l, k, label) ==
    /\ waiters' = [waiters EXCEPT ![l] = Append(@, c)]
    /\ status' = [status EXCEPT ![c] = "WAITING"]
    /\ call' = [call EXCEPT ![c] = k] /\ Goto(c, label)

(* s_wait_grant, for each coroutine of a set.                              *)
Grant(S) == status' = [c \in Crs |-> IF c \in S THEN "OK" ELSE status[c]]

(* s_pre_block: a pending cancel is consumed, a deadline that has passed   *)
(* fails the call, otherwise it goes on.                                   *)
Blocking(c, GoesOn) ==
    LET expired == deadline[c] \in {"passed", "fired"}
        fails == IF cancel_requested[c] THEN "CANCELED" ELSE "TIMEDOUT"
    IN /\ \/ /\ cancel_requested[c] \/ expired
             /\ Return(c, fails) /\ UNCHANGED <<lockVars, waiters, status, effective_qos, holds>>
          \/ ~cancel_requested[c] /\ ~expired /\ GoesOn
       /\ cancel_requested' = [cancel_requested EXCEPT ![c] = FALSE]
       /\ UNCHANGED <<inflight, deadline>>

-----------------------------------------------------------------------------
(* The mutex.                                                              *)

TakeMutex(c, st) ==
    /\ owner = None /\ owner' = c /\ Return(c, st) /\ Gains(c, "mutex")
    /\ UNCHANGED <<readers, writer, count, waiters, status, effective_qos>>

Fails(c, st) ==
    Return(c, st) /\ UNCHANGED <<lockVars, waiters, status, effective_qos, holds>>

suspenders_mutex_trylock(c) ==
    /\ Calls(c, "mutex_trylock") /\ UNCHANGED stopVars
    /\ TakeMutex(c, "OK") \/ (owner # None /\ Fails(c, "BUSY"))

suspenders_mutex_lock_dl(c) ==
    /\ Calls(c, "mutex_lock")
    /\ Blocking(c,
         \/ TakeMutex(c, "OK")
         \/ owner = c /\ Fails(c, "PERM")
         \/ /\ owner \notin {None, c} /\ Park(c, "mutex", "mutex", "boost")
            /\ boosted' = [boosted EXCEPT ![c] = owner]
            /\ UNCHANGED <<lockVars, effective_qos, verdict, result, holds>>)

(* The owner read under the lock is raised after the lock is released.     *)
suspenders_boost(c) ==
    /\ pc[c] = "boost" /\ Goto(c, "parked")
    /\ effective_qos' = [effective_qos EXCEPT ![boosted[c]] = Min({@, effective_qos[c]})]
    /\ boosted' = [boosted EXCEPT ![c] = None]
    /\ UNCHANGED <<lockVars, waiters, status, stopVars, call, verdict, result, holds, calls>>

(* Mutant: the mutex goes to the waiter that came last.                    *)
HandsToNewest(c) ==
    LET l == waiters["mutex"]
    IN /\ effective_qos' = [effective_qos EXCEPT ![c] = Qos[c]]
       /\ owner' = IF l = <<>> THEN None ELSE l[Len(l)]
       /\ waiters' = [waiters EXCEPT !["mutex"] =
                        IF l = <<>> THEN l ELSE SubSeq(l, 1, Len(l) - 1)]
       /\ Grant(IF l = <<>> THEN {} ELSE {l[Len(l)]})
       /\ Loses(c, {"mutex"}) /\ UNCHANGED <<readers, writer, count>>

(* The owner gives the mutex to the first waiter.                          *)
Release(c) ==
    LET l == waiters["mutex"]
    IN /\ effective_qos' = [effective_qos EXCEPT ![c] = Qos[c]]
       /\ owner' = IF l = <<>> THEN None ELSE Head(l)
       /\ waiters' = [waiters EXCEPT !["mutex"] = IF l = <<>> THEN l ELSE Tail(l)]
       /\ Grant(IF l = <<>> THEN {} ELSE {Head(l)})
       /\ Loses(c, {"mutex"}) /\ UNCHANGED <<readers, writer, count>>

suspenders_mutex_unlock(c) ==
    /\ pc[c] = "run" /\ UNCHANGED <<stopVars, calls>>
    /\ \/ owner # c /\ Fails(c, "PERM")
       \/ owner = c /\ Release(c) /\ Return(c, "OK")

-----------------------------------------------------------------------------
(* The cond: park on it, then release the mutex, wait, take it again.      *)

suspenders_cond_wait_dl(c) ==
    /\ Calls(c, "cond_wait")
    /\ Blocking(c,
         \/ owner # c /\ Fails(c, "PERM")
         \/ /\ owner = c /\ Park(c, "cond", "cond", "cond_unlock")
            /\ UNCHANGED <<lockVars, effective_qos, boosted, verdict, result, holds>>)

CondUnlock(c) ==
    /\ pc[c] = "cond_unlock" /\ Release(c) /\ Goto(c, "parked")
    /\ UNCHANGED <<stopVars, callVars, result, calls>>

CondGrant(c, op, n) ==
    /\ Calls(c, op) /\ Return(c, "OK")
    /\ Grant(Range(SubSeq(waiters["cond"], 1, n)))
    /\ waiters' = [waiters EXCEPT !["cond"] = SubSeq(@, n + 1, Len(@))]
    /\ UNCHANGED <<lockVars, stopVars, effective_qos, holds>>

suspenders_cond_signal(c) ==
    CondGrant(c, "cond_signal", Min({1, Len(waiters["cond"])}))

suspenders_cond_broadcast(c) ==
    CondGrant(c, "cond_broadcast", Len(waiters["cond"]))

(* s_mutex_lock_raw: the mutex is taken, or waited for without a deadline  *)
(* and again if a cancel ends the wait.                                    *)
s_mutex_lock_raw(c) ==
    /\ pc[c] = "relock"
    /\ \/ TakeMutex(c, verdict[c])
       \/ /\ owner # None /\ Park(c, "mutex", "cond", "relocking")
          /\ UNCHANGED <<lockVars, effective_qos, boosted, verdict, result, holds>>
    /\ UNCHANGED <<stopVars, calls>>

(* Mutant: a re-lock that is interrupted gives up.                         *)
RelockGivesUp(c) ==
    /\ pc[c] = "relocking" /\ status[c] # "WAITING"
    /\ Return(c, verdict[c]) /\ status' = [status EXCEPT ![c] = "OK"]
    /\ holds' = [holds EXCEPT ![c] = IF status[c] = "OK" THEN @ \cup {"mutex"} ELSE @]
    /\ UNCHANGED <<lockVars, waiters, stopVars, effective_qos, calls>>

Relocked(c) ==
    /\ pc[c] = "relocking" /\ status[c] # "WAITING"
    /\ \/ status[c] = "OK" /\ Return(c, verdict[c]) /\ Gains(c, "mutex")
       \/ status[c] # "OK" /\ Goto(c, "relock") /\ UNCHANGED <<callVars, result, holds>>
    /\ status' = [status EXCEPT ![c] = "OK"]
    /\ UNCHANGED <<lockVars, waiters, stopVars, effective_qos, calls>>

-----------------------------------------------------------------------------
(* The rwlock.                                                             *)

Free(w) == ~writer /\ (w => readers = 0)
Grip(w) == IF w THEN "write" ELSE "read"

TakeRwlock(c, w) ==
    /\ readers' = (IF w THEN readers ELSE readers + 1) /\ writer' = w
    /\ Return(c, "OK") /\ Gains(c, Grip(w))
    /\ UNCHANGED <<owner, count, waiters, status, effective_qos>>

(* suspenders_rwlock_tryrdlock (w is FALSE) and trywrlock, which does not  *)
(* look at the waiters.                                                    *)
suspenders_rwlock_trylock(c, w) ==
    LET can == Free(w) /\ (w \/ waiters["rwlock"] = <<>>)
    IN /\ Calls(c, IF w THEN "trywrlock" ELSE "tryrdlock")
       /\ holds[c] = {} /\ UNCHANGED stopVars
       /\ \/ can /\ TakeRwlock(c, w)
          \/ ~can /\ Fails(c, "BUSY")

(* suspenders_rwlock_rdlock_dl and wrlock_dl.                              *)
suspenders_rwlock_lock_dl(c, w) ==
    LET can == Free(w) /\ waiters["rwlock"] = <<>>
    IN /\ Calls(c, IF w THEN "wrlock" ELSE "rdlock") /\ holds[c] = {}
       /\ Blocking(c,
            \/ can /\ TakeRwlock(c, w)
            \/ /\ ~can /\ Park(c, "rwlock", Grip(w), "parked")
               /\ UNCHANGED <<lockVars, effective_qos, boosted, verdict, result, holds>>)

(* Mutant: readers are not granted.                                        *)
GrantsOnlyWriters(l) ==
    IF l # <<>> /\ call[Head(l)] = "write" THEN <<Head(l)>> ELSE <<>>

(* The head of the queue if it is a writer, else the readers before the    *)
(* first writer.                                                           *)
Batch(l) ==
    SubSeq(l, 1, Max({0} \cup {k \in 1..Len(l) :
                         k = 1 \/ \A j \in 1..k : call[l[j]] = "read"}))

suspenders_rwlock_unlock(c) ==
    LET r == IF writer THEN readers ELSE readers - 1
        l == waiters["rwlock"]
        granted == IF r = 0 THEN Batch(l) ELSE <<>>
        writes == granted # <<>> /\ call[Head(granted)] = "write"
    IN /\ pc[c] = "run"
       /\ \/ /\ holds[c] \cap {"read", "write"} # {} /\ Return(c, "OK")
             /\ writer' = writes /\ readers' = IF writes THEN r ELSE r + Len(granted)
             /\ waiters' = [waiters EXCEPT !["rwlock"] = SubSeq(l, Len(granted) + 1, Len(l))]
             /\ Grant(Range(granted)) /\ Loses(c, {"read", "write"})
             /\ UNCHANGED <<owner, count, effective_qos>>
          \/ ~writer /\ readers = 0 /\ Fails(c, "PERM")
       /\ UNCHANGED <<stopVars, calls>>

-----------------------------------------------------------------------------
(* The waitgroup.                                                          *)

suspenders_waitgroup_add(c, delta) ==
    LET l == waiters["waitgroup"]
        cleared == count + delta = 0
    IN /\ Calls(c, "wg_add") /\ count + delta <= MaxCount
       /\ \/ count + delta < 0 /\ Fails(c, "INVAL")
          \/ /\ count + delta >= 0 /\ count' = count + delta /\ Return(c, "OK")
             /\ Grant(IF cleared THEN Range(l) ELSE {})
             /\ waiters' = [waiters EXCEPT !["waitgroup"] = IF cleared THEN <<>> ELSE l]
             /\ UNCHANGED <<owner, readers, writer, effective_qos, holds>>
       /\ UNCHANGED stopVars

suspenders_waitgroup_wait_dl(c) ==
    /\ Calls(c, "wg_wait")
    /\ Blocking(c,
         \/ count = 0 /\ Fails(c, "OK")
         \/ /\ count # 0 /\ Park(c, "waitgroup", "waitgroup", "parked")
            /\ UNCHANGED <<lockVars, effective_qos, boosted, verdict, result, holds>>)

-----------------------------------------------------------------------------
(* The end of s_wait_block_dl: the status is read, and of no use after     *)
(* that; the caller holds what it was granted.  A cond wait goes on to     *)
(* take the mutex again.                                                   *)
WaitReturns(c) ==
    /\ pc[c] = "parked" /\ status[c] # "WAITING"
    /\ cancel_requested' =
         [cancel_requested EXCEPT ![c] = @ /\ status[c] # "CANCELED"]
    /\ status' = [status EXCEPT ![c] = "OK"] /\ UNCHANGED <<inflight, deadline>>
    /\ \/ /\ call[c] = "cond" /\ Goto(c, "relock")
          /\ verdict' = [verdict EXCEPT ![c] = status[c]]
          /\ UNCHANGED <<call, boosted, result, holds>>
       \/ /\ call[c] # "cond" /\ Return(c, status[c])
          /\ holds' = [holds EXCEPT ![c] =
               IF status[c] = "OK" THEN @ \cup ({call[c]} \cap Grips) ELSE @]
    /\ UNCHANGED <<lockVars, waiters, effective_qos, calls>>

(* The request, and its delivery: at once if the coroutine is of this      *)
(* worker and waits, through the inbox if it is of another.  A request     *)
(* that is still pending is not repeated.                                  *)
suspenders_cancel(c, remote) ==
    /\ "cancel" \in calls /\ c \in Targets /\ ~cancel_requested[c]
    /\ cancel_requested' = [cancel_requested EXCEPT ![c] = TRUE]
    /\ inflight' = [inflight EXCEPT ![c] = @ \/ remote \/ status[c] = "WAITING"]
    /\ UNCHANGED <<lockVars, waiters, status, deadline, effective_qos, pc, callVars, result,
                   holds, calls>>

suspenders_deadline(c, arm) ==
    /\ Calls(c, "deadline") /\ c \in Targets /\ Return(c, "OK")
    /\ deadline' = [deadline EXCEPT ![c] = IF arm THEN "armed" ELSE "none"]
    /\ UNCHANGED <<lockVars, waiters, status, cancel_requested, inflight, effective_qos, holds>>

DeadlinePasses(c) ==
    /\ deadline[c] = "armed" /\ deadline' = [deadline EXCEPT ![c] = "passed"]
    /\ UNCHANGED <<lockVars, waiters, status, cancel_requested, inflight, effective_qos, pc,
                   callVars, result, holds, calls>>

(* Mutant: a wait is decided although it was granted meanwhile.            *)
DecidesAgain(c, st) ==
    /\ status' = [status EXCEPT ![c] = st]
    /\ waiters' = [l \in Lists |-> s_wq_remove(waiters[l], c)]
    /\ UNCHANGED <<lockVars, cancel_requested, effective_qos, pc, callVars, result, holds, calls>>

(* A wait that is undecided ends with st.                                  *)
s_waiter_wake(c, st) ==
    /\ status' = [status EXCEPT ![c] = IF @ = "WAITING" THEN st ELSE @]
    /\ waiters' = [l \in Lists |-> s_wq_remove(waiters[l], c)]
    /\ UNCHANGED <<lockVars, cancel_requested, effective_qos, pc, callVars, result, holds, calls>>

(* The worker's loop acts on a coroutine only while it is switched out.    *)
SwitchedOut(c) == pc[c] \in {"parked", "relocking"}

(* If the request was consumed meanwhile the coroutine finds itself        *)
(* undecided and suspends again.                                           *)
s_inbox_deliver(c) ==
    /\ inflight[c] /\ SwitchedOut(c) /\ status[c] = "WAITING"
    /\ inflight' = [inflight EXCEPT ![c] = FALSE] /\ UNCHANGED deadline
    /\ \/ cancel_requested[c] /\ s_waiter_wake(c, "CANCELED")
       \/ /\ ~cancel_requested[c]
          /\ UNCHANGED <<lockVars, waiters, status, cancel_requested, effective_qos, pc,
                         callVars, result, holds, calls>>

(* Mutant: the waiter is taken off the list, but not told.                 *)
TimesOutSilently(c) ==
    /\ "timeout" \in calls /\ pc[c] = "parked" /\ status[c] = "WAITING"
    /\ s_waiter_wake(c, "WAITING") /\ UNCHANGED <<inflight, deadline>>

s_wait_deadline_cb(c) ==
    /\ "timeout" \in calls /\ pc[c] = "parked" /\ status[c] = "WAITING"
    /\ s_waiter_wake(c, "TIMEDOUT") /\ UNCHANGED <<inflight, deadline>>

s_deadline_cb(c) ==
    /\ deadline[c] = "passed" /\ SwitchedOut(c)
    /\ deadline' = [deadline EXCEPT ![c] = "fired"]
    /\ s_waiter_wake(c, "TIMEDOUT") /\ UNCHANGED inflight

-----------------------------------------------------------------------------
ApiCall(c) ==
    \/ suspenders_mutex_trylock(c) \/ suspenders_mutex_lock_dl(c)
    \/ suspenders_cond_wait_dl(c) \/ suspenders_cond_signal(c) \/ suspenders_cond_broadcast(c)
    \/ \E w \in BOOLEAN : suspenders_rwlock_trylock(c, w) \/ suspenders_rwlock_lock_dl(c, w)
    \/ \E delta \in {-1, 1} : suspenders_waitgroup_add(c, delta)
    \/ suspenders_waitgroup_wait_dl(c)
    \/ \E remote \in BOOLEAN : suspenders_cancel(c, remote)
    \/ \E arm \in BOOLEAN : suspenders_deadline(c, arm)

Unlock(c) == suspenders_mutex_unlock(c) \/ suspenders_rwlock_unlock(c)

Step(c) == \/ suspenders_boost(c) \/ CondUnlock(c) \/ s_mutex_lock_raw(c) \/ Relocked(c)
           \/ WaitReturns(c)

Next == \E c \in Crs : \/ ApiCall(c) \/ Unlock(c) \/ Step(c)
                       \/ s_inbox_deliver(c) \/ s_wait_deadline_cb(c)
                       \/ DeadlinePasses(c) \/ s_deadline_cb(c)

Spec == Init /\ [][Next]_vars

(* A call in progress goes on, and whoever holds a lock unlocks it in the  *)
(* end.                                                                    *)
Fairness ==
    \A c \in Crs : /\ WF_vars(Step(c)) /\ WF_vars("mutex" \in holds[c] /\ suspenders_mutex_unlock(c))
                   /\ WF_vars(holds[c] \cap {"read", "write"} # {} /\ suspenders_rwlock_unlock(c))
FairSpec == Spec /\ Fairness

-----------------------------------------------------------------------------
(* Properties.                                                             *)

(* c has been granted the grip although its call has not returned yet.     *)
Granted(c, grip) ==
    /\ status[c] = "OK"
    /\ \/ pc[c] \in {"boost", "parked"} /\ call[c] = grip
       \/ pc[c] = "relocking" /\ grip = "mutex"
Grippers(grip) == {c \in Crs : grip \in holds[c] \/ Granted(c, grip)}

(* Ownership is what the calls have reported: the owner, the writer and    *)
(* the count of readers are the coroutines that were told or are about to  *)
(* be told OK, through handoff, reader batches, re-locking after a cond    *)
(* wait and waits that are canceled or time out as they are granted; and   *)
(* a writer is alone.                                                      *)
OwnershipIsReported ==
    /\ Grippers("mutex") = {owner} \ {None}
    /\ readers = Cardinality(Grippers("read"))
    /\ Cardinality(Grippers("write")) = (IF writer THEN 1 ELSE 0)
    /\ writer => readers = 0

(* No stranded waiter: nobody is parked on a mutex without an owner, a     *)
(* rwlock nobody holds or a waitgroup at zero, also after the waiter that  *)
(* blocked the others has been canceled.                                   *)
NobodyWaitsForFree ==
    /\ waiters["mutex"] # <<>> => owner # None
    /\ waiters["rwlock"] # <<>> => writer \/ readers > 0
    /\ waiters["waitgroup"] # <<>> => count > 0

(* FIFO: while coroutines are queued, the mutex goes to the first and the  *)
(* rwlock to a prefix of them, whoever tries to lock or re-lock meanwhile. *)
NobodyBarges ==
    [][/\ waiters["mutex"] # <<>> /\ owner' # owner => owner' = Head(waiters["mutex"])
       /\ waiters["rwlock"] # <<>> =>
            LET new == (Grippers("read") \cup Grippers("write"))'
                         \ (Grippers("read") \cup Grippers("write"))
            IN \E k \in 0..Len(waiters["rwlock"]) :
                 new = Range(SubSeq(waiters["rwlock"], 1, k))]_vars

(* If holders unlock, a call on a mutex or rwlock returns, a reader's also *)
(* if writers keep coming and a writer's if readers do.                    *)
LockersAreServed ==
    \A c \in Crs : call[c] \in Grips ~> pc[c] = "run"

(* A cond wait that was signaled, canceled or timed out returns, holding   *)
(* the mutex, although cancels may interrupt the re-lock.                  *)
CondWaitReturns ==
    \A c \in Crs : (call[c] = "cond" /\ status[c] # "WAITING")
                    ~> (pc[c] = "run" /\ owner = c)
=============================================================================
