---------------------------- MODULE WaitProtocol ----------------------------
(***************************************************************************)
(* The core of the runtime: coroutines pinned to workers, the wait         *)
(* protocol every blocking call goes through (s_wait_park, s_wait_grant,   *)
(* s_waiter_wake, s_wait_block and the waker_busy handshake), the          *)
(* cross-worker wake inbox (wake_inflight, pending_wake) and the part of   *)
(* s_worker_loop that drains, dispatches and reaps.                        *)
(*                                                                         *)
(* The waits are those of one structure with a wait list and a ticket      *)
(* lock; a wait always parks and a grant pops one waiter or all of them,   *)
(* as suspenders_cond_signal and suspenders_cond_broadcast do.  What a     *)
(* particular structure grants, and when, is the subject of the other      *)
(* modules.                                                                *)
(*                                                                         *)
(* A context is whatever executes library code: a coroutine, the           *)
(* scheduler loop of a worker (which the code calls suspenders_main_cr;    *)
(* here it bears the worker's own name) or a foreign thread.  Every action *)
(* takes the pair (w, x): x is the context and w the thread's s_worker.    *)
(***************************************************************************)
EXTENDS WqList

CONSTANTS Crs,            \* coroutines
          Workers,        \* workers (s_workers)
          Threads,        \* threads that are not workers
          Qos,            \* Qos[c]: effective_qos of c, 0 is the most urgent
          NoCr,           \* no coroutine: the worker runs its scheduler loop
          NoWorker,       \* NULL: s_worker of a foreign thread, unpinned cr
          Nobody,         \* the ticket lock is free
          Boot,           \* Boot[q]: spawned before suspenders_run, level q
          EarlyHandles,   \* calls (resume, cancel) made also before the pin
          Budgets         \* bounds on the calls of each operation

Levels == 0..3            \* SUSPENDERS_QOS_COUNT = 4
Ctx == Crs \cup Workers \cup Threads
Ops == {"spawn", "wait", "suspend", "yield", "signal", "broadcast",
        "resume", "cancel", "timeout"}
SeveralWorkers == \E u, v \in Workers : u # v      \* s_num_workers > 1

ASSUME ContextsAreDistinct ==
    /\ Crs \cap Workers = {} /\ Crs \cap Threads = {} /\ Workers \cap Threads = {}
    /\ NoCr \notin Crs /\ NoWorker \notin Workers /\ Nobody \notin Ctx
ASSUME QosAssumption == Qos \in [Crs -> Levels]
ASSUME BootAssumption ==
    /\ Boot \in [Levels -> Seq(Crs)]
    /\ \A q \in Levels : IsInjective(Boot[q]) /\ \A c \in Range(Boot[q]) : Qos[c] = q
ASSUME BudgetAssumption == Budgets \subseteq [Ops -> Nat]

VARIABLES
    \* the wait node of each coroutine (suspenders_wq_node_t) and the structure
    status, waker_busy, wait_lock, waiters, lock,
    \* the scheduler
    state, worker, running, ready, injector, zombies,
    \* cross-worker wakes
    inbox, batch, wake_inflight, pending_wake,
    \* cancellation and the deadline timer of the current wait
    cancel_requested, armed,
    \* the position of each context and the locals of the call it is in:
    \* the call, the coroutine it is about, the granted and the yet ungranted
    \* nodes of a broadcast, and the wait_lock s_waiter_wake has read
    pc, kind, cur, granted, todo, lk,
    \* bounds and history
    left, credit, called

nodeVars  == <<status, waker_busy, wait_lock, waiters, lock>>
schedVars == <<state, worker, running, ready, injector, zombies>>
inboxVars == <<inbox, batch, wake_inflight, pending_wake>>
flagVars  == <<cancel_requested, armed>>
frameVars == <<pc, kind, cur, granted, todo, lk>>
histVars  == <<left, credit, called>>
callVars  == <<kind, cur, granted, todo, lk>>
chainVars == <<granted, todo, lk>>
vars == <<nodeVars, schedVars, inboxVars, flagVars, frameVars, histVars>>

States == {"NEW", "READY", "RUNNING", "SUSPENDED", "DONE", "FREED"}
Verdicts == {"OK", "CANCELED", "TIMEDOUT"}
Kinds == {"none", "signal", "broadcast", "resume", "cancel",
          "drain", "redeliver", "timeout"}
CrPcs == {"run", "park", "block", "sync", "suspended", "exited"}
LoopPcs == {"top", "drain", "deliver", "pick", "pinned", "back", "idle"}
CallPcs == {"load_pin", "check", "lock", "not_won", "resume", "resume_local",
            "flip", "wake", "push", "end", "next", "chain", "preempt"}

TypeOK ==
    /\ status \in [Crs -> {"WAITING"} \cup Verdicts]
    /\ waker_busy \in [Crs -> BOOLEAN] /\ wait_lock \in [Crs -> BOOLEAN]
    /\ waiters \in Seq(Crs) /\ lock \in Ctx \cup {Nobody}
    /\ state \in [Crs -> States] /\ worker \in [Crs -> Workers \cup {NoWorker}]
    /\ running \in [Workers -> Crs \cup {NoCr}]
    /\ ready \in [Workers -> [Levels -> Seq(Crs)]]
    /\ injector \in [Levels -> Seq(Crs)]
    /\ zombies \in [Workers -> SUBSET Crs]
    /\ inbox \in [Workers -> Seq(Crs)] /\ batch \in [Workers -> Seq(Crs)]
    /\ wake_inflight \in [Crs -> BOOLEAN] /\ pending_wake \in [Crs -> BOOLEAN]
    /\ cancel_requested \in [Crs -> BOOLEAN] /\ armed \in [Crs -> BOOLEAN]
    /\ pc \in [Ctx -> CrPcs \cup LoopPcs \cup CallPcs]
    /\ kind \in [Ctx -> Kinds] /\ cur \in [Ctx -> Crs \cup {NoCr}]
    /\ granted \in [Ctx -> Seq(Crs)] /\ todo \in [Ctx -> Seq(Crs)]
    /\ lk \in [Ctx -> BOOLEAN]
    /\ left \in [Ops -> Nat] /\ credit \in [Crs -> Int]
    /\ called \in [Crs -> BOOLEAN]

-----------------------------------------------------------------------------

(* suspenders_init has started the workers and the program has spawned its *)
(* first coroutines.                                                       *)
Init ==
    /\ status = [c \in Crs |-> "OK"] /\ waker_busy = [c \in Crs |-> FALSE]
    /\ wait_lock = [c \in Crs |-> FALSE] /\ waiters = <<>> /\ lock = Nobody
    /\ state = [c \in Crs |-> IF c \in Range(Boot[Qos[c]]) THEN "READY" ELSE "NEW"]
    /\ worker = [c \in Crs |-> NoWorker]
    /\ running = [w \in Workers |-> NoCr]
    /\ ready = [w \in Workers |-> [q \in Levels |-> <<>>]]
    /\ injector = Boot /\ zombies = [w \in Workers |-> {}]
    /\ inbox = [w \in Workers |-> <<>>] /\ batch = [w \in Workers |-> <<>>]
    /\ wake_inflight = [c \in Crs |-> FALSE]
    /\ pending_wake = [c \in Crs |-> FALSE]
    /\ cancel_requested = [c \in Crs |-> FALSE] /\ armed = [c \in Crs |-> FALSE]
    /\ pc = [x \in Ctx |-> IF x \in Workers THEN "top" ELSE "run"]
    /\ kind = [x \in Ctx |-> "none"] /\ cur = [x \in Ctx |-> NoCr]
    /\ granted = [x \in Ctx |-> <<>>] /\ todo = [x \in Ctx |-> <<>>]
    /\ lk = [x \in Ctx |-> FALSE]
    /\ left \in Budgets /\ credit = [c \in Crs |-> 0]
    /\ called = [c \in Crs |-> FALSE]

(* x executes on the thread whose s_worker is w.                           *)
Executes(w, x) ==
    \/ x \in Crs /\ w \in Workers /\ running[w] = x
    \/ x \in Workers /\ w = x /\ running[w] = NoCr
    \/ x \in Threads /\ w = NoWorker

At(w, x, label) == pc[x] = label /\ Executes(w, x)
Goto(x, label) == pc' = [pc EXCEPT ![x] = label]

(* Go on with the current call, or leave it: its locals are gone then.     *)
Resting == {"run", "preempt", "top", "drain", "idle"}
Proceed(x, label) ==
    /\ Goto(x, label)
    /\ cur' = [cur EXCEPT ![x] = IF label \in Resting THEN NoCr ELSE @]
    /\ kind' = [kind EXCEPT ![x] = IF label \in Resting THEN "none" ELSE @]

Spend(op) == left[op] > 0 /\ left' = [left EXCEPT ![op] = @ - 1]

(* Where a wake, a delivery or an API call goes back to.                   *)
Return(x) == IF x \notin Workers THEN "run"
             ELSE CASE kind[x] = "drain" -> "drain"
                    [] kind[x] = "timeout" -> "idle"
                    [] OTHER -> "top"

suspenders_ready_enqueue(w, c) ==
    /\ state' = [state EXCEPT ![c] = "READY"]
    /\ ready' = [ready EXCEPT ![w][Qos[c]] = Append(@, c)]

(* suspenders_ctx_switch to the scheduler loop of w, which is after its    *)
(* own switch, at "back".                                                  *)
SwitchToLoop(w) == running' = [running EXCEPT ![w] = NoCr]

(* A handle may be used until its coroutine exits: the caller of resume or *)
(* cancel keeps the target alive for the duration of the call.             *)
HandleInUse(c) ==
    \E x \in Ctx : cur[x] = c /\ kind[x] \in {"resume", "cancel"}
HandleValid(k, c) ==
    /\ state[c] \in {"READY", "RUNNING", "SUSPENDED"}
    /\ k \in EarlyHandles \/ worker[c] # NoWorker

(* History: called[c] when some call owes c an end to its suspend, a resume *)
(* or cancel since it suspended or a cancel from another thread since it   *)
(* last blocked.                                                           *)
Answered(c) == called' = [called EXCEPT ![c] = FALSE]

-----------------------------------------------------------------------------
(* Spawn, yield, suspend, exit.                                            *)

s_spawn_impl(w, x, c) ==
    /\ At(w, x, "run") /\ state[c] = "NEW" /\ Spend("spawn")
    /\ IF SeveralWorkers \/ w = NoWorker
         THEN /\ injector' = [injector EXCEPT ![Qos[c]] = Append(@, c)]
              /\ state' = [state EXCEPT ![c] = "READY"]
              /\ UNCHANGED <<worker, ready>>
         ELSE /\ worker' = [worker EXCEPT ![c] = w]
              /\ suspenders_ready_enqueue(w, c)
              /\ UNCHANGED injector
    /\ UNCHANGED <<nodeVars, running, zombies, inboxVars, flagVars, frameVars,
                   credit, called>>

suspenders_yield(w, x) ==
    /\ At(w, x, "run") /\ Spend("yield")
    /\ suspenders_ready_enqueue(w, x) /\ SwitchToLoop(w)
    /\ UNCHANGED <<nodeVars, worker, injector, zombies, inboxVars, flagVars,
                   frameVars, credit, called>>

suspenders_suspend(w, x) ==
    /\ At(w, x, "run") /\ Spend("suspend")
    /\ state' = [state EXCEPT ![x] = "SUSPENDED"] /\ SwitchToLoop(w)
    /\ Goto(x, "suspended")
    /\ called' = [called EXCEPT ![x] = @ \/ HandleInUse(x)]
    /\ UNCHANGED <<nodeVars, worker, ready, injector, zombies, inboxVars,
                   flagVars, callVars, credit>>

(* A bare suspend returns as soon as the coroutine is dispatched.          *)
SuspendReturns(w, x) ==
    /\ At(w, x, "suspended") /\ Goto(x, "run") /\ Answered(x)
    /\ UNCHANGED <<nodeVars, schedVars, inboxVars, flagVars,
                   callVars, left, credit>>

suspenders_cr_exit(w, x) ==
    /\ At(w, x, "run") /\ ~HandleInUse(x)
    /\ state' = [state EXCEPT ![x] = "DONE"]
    /\ armed' = [armed EXCEPT ![x] = FALSE]
    /\ zombies' = [zombies EXCEPT ![w] = @ \cup {x}]
    /\ SwitchToLoop(w) /\ Goto(x, "exited")
    /\ UNCHANGED <<nodeVars, worker, ready, injector, inboxVars,
                   cancel_requested, callVars, histVars>>

-----------------------------------------------------------------------------
(* The waiting side.                                                       *)

(* s_pre_block: a pending cancel is consumed here.  (Its other early       *)
(* return, an expired deadline, changes nothing.)                          *)
s_pre_block(w, x) ==
    /\ At(w, x, "run") /\ Spend("wait") /\ Answered(x)
    /\ cancel_requested' = [cancel_requested EXCEPT ![x] = FALSE]
    /\ IF cancel_requested[x]
         THEN credit' = [credit EXCEPT ![x] = @ - 1] /\ UNCHANGED pc
         ELSE Goto(x, "park") /\ UNCHANGED credit
    /\ UNCHANGED <<nodeVars, schedVars, inboxVars, armed, callVars>>

(* One critical section: lock, s_wait_park, unlock; then s_wait_block_dl   *)
(* arms the deadline timer if the call has a deadline.                     *)
s_wait_park(w, x) ==
    /\ At(w, x, "park") /\ lock = Nobody
    /\ status' = [status EXCEPT ![x] = "WAITING"]
    /\ waker_busy' = [waker_busy EXCEPT ![x] = FALSE]
    /\ wait_lock' = [wait_lock EXCEPT ![x] = TRUE]
    /\ waiters' = Append(waiters, x)
    /\ \/ Spend("timeout") /\ armed' = [armed EXCEPT ![x] = TRUE]
       \/ UNCHANGED <<left, armed>>
    /\ Goto(x, "block")
    /\ UNCHANGED <<lock, schedVars, inboxVars, cancel_requested,
                   callVars, credit, called>>

(* while (node->status == S_WQ_WAITING) suspenders_suspend();              *)
s_wait_block(w, x) ==
    /\ At(w, x, "block")
    /\ \/ /\ status[x] = "WAITING"
          /\ state' = [state EXCEPT ![x] = "SUSPENDED"] /\ SwitchToLoop(w)
          /\ UNCHANGED pc
       \/ status[x] # "WAITING" /\ Goto(x, "sync") /\ UNCHANGED <<state, running>>
    /\ UNCHANGED <<nodeVars, worker, ready, injector, zombies, inboxVars,
                   flagVars, callVars, histVars>>

(* s_wait_decider_sync, the spin that has become a yield.                  *)
s_wait_decider_sync(w, x) ==
    /\ At(w, x, "sync") /\ waker_busy[x]
    /\ suspenders_ready_enqueue(w, x) /\ SwitchToLoop(w)
    /\ UNCHANGED <<nodeVars, worker, injector, zombies, inboxVars, flagVars,
                   frameVars, histVars>>

(* Mutants: s_wait_block returns without the handshake; it leaves a        *)
(* delivered cancel request set.                                           *)
ReturnsAtOnce(w, x) ==
    /\ At(w, x, "sync")
    /\ wait_lock' = [wait_lock EXCEPT ![x] = FALSE]
    /\ armed' = [armed EXCEPT ![x] = FALSE]
    /\ Goto(x, "run") /\ Answered(x)
    /\ UNCHANGED <<status, waker_busy, waiters, lock, schedVars, inboxVars,
                   cancel_requested, credit, callVars, left>>
ReturnsUnconsumed(w, x) ==
    /\ At(w, x, "sync") /\ ~waker_busy[x]
    /\ wait_lock' = [wait_lock EXCEPT ![x] = FALSE]
    /\ armed' = [armed EXCEPT ![x] = FALSE]
    /\ credit' = [credit EXCEPT ![x] = IF status[x] = "CANCELED" THEN @ - 1 ELSE @]
    /\ Goto(x, "run") /\ Answered(x)
    /\ UNCHANGED <<status, waker_busy, waiters, lock, schedVars, inboxVars,
                   cancel_requested, callVars, left>>

(* The end of s_wait_block and s_wait_block_dl, once no decider is busy.   *)
WaitReturns(w, x) ==
    /\ At(w, x, "sync") /\ ~waker_busy[x]
    /\ wait_lock' = [wait_lock EXCEPT ![x] = FALSE]
    /\ armed' = [armed EXCEPT ![x] = FALSE]
    /\ IF status[x] = "CANCELED"
         THEN /\ cancel_requested' = [cancel_requested EXCEPT ![x] = FALSE]
              /\ credit' = [credit EXCEPT ![x] = @ - 1]
         ELSE UNCHANGED <<cancel_requested, credit>>
    /\ Goto(x, "run") /\ Answered(x)
    /\ UNCHANGED <<status, waker_busy, waiters, lock, schedVars, inboxVars,
                   callVars, left>>

-----------------------------------------------------------------------------
(* The deciding side: grants, cancellation, deadlines.                     *)

(* Mutant: the status of a closed channel, which no condition variable has. *)
ClosedVerdict(k) == CASE k \in {"signal", "broadcast"} -> "CLOSED"
                      [] k = "timeout" -> "TIMEDOUT"
                      [] OTHER -> "CANCELED"

Verdict(k) == CASE k \in {"signal", "broadcast"} -> "OK"
                [] k = "timeout" -> "TIMEDOUT"
                [] OTHER -> "CANCELED"

(* Open the decider window of n: waker_busy is set before the status.      *)
OpenWindow(x, k, n) ==
    /\ waker_busy' = [waker_busy EXCEPT ![n] = TRUE]
    /\ kind' = [kind EXCEPT ![x] = k]
    /\ cur' = [cur EXCEPT ![x] = n]
    /\ Goto(x, "flip")

suspenders_cond_signal(w, x) ==
    /\ At(w, x, "run") /\ Spend("signal")
    /\ lock = Nobody /\ waiters # <<>>
    /\ lock' = x /\ waiters' = Tail(waiters)
    /\ OpenWindow(x, "signal", Head(waiters))
    /\ UNCHANGED <<status, wait_lock, schedVars, inboxVars, flagVars,
                   chainVars, credit, called>>

suspenders_cond_broadcast(w, x) ==
    /\ At(w, x, "run") /\ Spend("broadcast")
    /\ lock = Nobody /\ waiters # <<>>
    /\ lock' = x /\ waiters' = <<>> /\ todo' = [todo EXCEPT ![x] = Tail(waiters)]
    /\ OpenWindow(x, "broadcast", Head(waiters))
    /\ UNCHANGED <<status, wait_lock, schedVars, inboxVars, flagVars,
                   granted, lk, credit, called>>

(* The status flip, the linearization point of the decision.  A broadcast  *)
(* keeps the lock, the others release it before they wake.                 *)
s_wait_grant(w, x) ==
    /\ At(w, x, "flip")
    /\ status' = [status EXCEPT ![cur[x]] = Verdict(kind[x])]
    /\ lock' = IF lock = x /\ kind[x] # "broadcast" THEN Nobody ELSE lock
    /\ Goto(x, "wake")
    /\ UNCHANGED <<waker_busy, wait_lock, waiters, schedVars, inboxVars, flagVars,
                   callVars, histVars>>

Elsewhere(w, n) == worker[n] # NoWorker /\ worker[n] # w

AfterWake(x) == CASE kind[x] = "resume" -> Return(x)
                  [] kind[x] = "broadcast" -> "next"
                  [] OTHER -> "end"

(* s_inbox_wake up to the exchange of wake_inflight: whoever finds it set  *)
(* relies on the entry that is (or is about to be) on the inbox.           *)
ExchangeInflight(x, n) ==
    /\ wake_inflight' = [wake_inflight EXCEPT ![n] = TRUE]
    /\ Proceed(x, IF wake_inflight[n] THEN AfterWake(x) ELSE "push")

(* Mutant: the state of a local target is not looked at.                   *)
WakeBlindly(w, x) ==
    LET n == cur[x]
    IN /\ At(w, x, "wake")
       /\ \/ /\ Elsewhere(w, n) /\ ExchangeInflight(x, n)
             /\ UNCHANGED <<state, ready>>
          \/ /\ ~Elsewhere(w, n) /\ Proceed(x, AfterWake(x))
             /\ suspenders_ready_enqueue(w, n) /\ UNCHANGED wake_inflight
       /\ UNCHANGED <<nodeVars, worker, running, injector, zombies, inbox, batch,
                      pending_wake, flagVars, chainVars, histVars>>

s_wake_no_preempt(w, x) ==
    LET n == cur[x]
    IN /\ At(w, x, "wake")
       /\ \/ /\ Elsewhere(w, n) /\ ExchangeInflight(x, n)
             /\ UNCHANGED <<state, ready>>
          \/ /\ ~Elsewhere(w, n) /\ Proceed(x, AfterWake(x))
             /\ IF state[n] = "SUSPENDED" THEN suspenders_ready_enqueue(w, n)
                                          ELSE UNCHANGED <<state, ready>>
             /\ UNCHANGED wake_inflight
       /\ UNCHANGED <<nodeVars, worker, running, injector, zombies, inbox, batch,
                      pending_wake, flagVars, chainVars, histVars>>

(* The rest of s_inbox_wake: the compare-and-swap push.  The stack is      *)
(* reversed by its consumer, so it is a queue.                             *)
s_inbox_wake(w, x) ==
    LET n == cur[x]
    IN /\ At(w, x, "push")
       /\ inbox' = [inbox EXCEPT ![worker[n]] = Append(@, n)]
       /\ Proceed(x, AfterWake(x))
       /\ UNCHANGED <<nodeVars, schedVars, batch, wake_inflight, pending_wake,
                      flagVars, chainVars, histVars>>

(* Mutant: the granter gives way before it closes the window.              *)
PreemptInWindow(w, x) ==
    LET n == cur[x]
        yields == x \in Crs /\ worker[n] = w /\ Qos[n] < Qos[x]
    IN /\ At(w, x, "end")
       /\ waker_busy' = [waker_busy EXCEPT ![n] = yields]
       /\ Proceed(x, IF yields THEN "preempt" ELSE Return(x))
       /\ UNCHANGED <<status, wait_lock, waiters, lock, schedVars, inboxVars,
                      flagVars, chainVars, histVars>>

(* s_wait_decide_end; then s_wait_finish_wake honours QoS preemption.      *)
s_wait_decide_end(w, x) ==
    LET n == cur[x]
    IN /\ At(w, x, "end")
       /\ waker_busy' = [waker_busy EXCEPT ![n] = FALSE]
       /\ Proceed(x, IF x \in Crs /\ worker[n] = w /\ Qos[n] < Qos[x]
                       THEN "preempt" ELSE Return(x))
       /\ UNCHANGED <<status, wait_lock, waiters, lock, schedVars, inboxVars,
                      flagVars, chainVars, histVars>>

(* The running coroutine gives way to the more urgent one it has woken.    *)
Preempt(w, x) ==
    /\ At(w, x, "preempt")
    /\ suspenders_ready_enqueue(w, x) /\ SwitchToLoop(w) /\ Goto(x, "run")
    /\ UNCHANGED <<nodeVars, worker, injector, zombies, inboxVars, flagVars,
                   callVars, histVars>>

(* The loop of suspenders_cond_broadcast: on to the next node under the    *)
(* lock, or unlock after the last.                                         *)
BroadcastNext(w, x) ==
    /\ At(w, x, "next")
    /\ granted' = [granted EXCEPT ![x] = Append(@, cur[x])]
    /\ \/ /\ todo[x] # <<>> /\ OpenWindow(x, "broadcast", Head(todo[x]))
          /\ todo' = [todo EXCEPT ![x] = Tail(@)] /\ UNCHANGED lock
       \/ /\ todo[x] = <<>> /\ lock' = Nobody /\ Goto(x, "chain")
          /\ cur' = [cur EXCEPT ![x] = NoCr] /\ UNCHANGED <<waker_busy, kind, todo>>
    /\ UNCHANGED <<status, wait_lock, waiters, schedVars, inboxVars, flagVars,
                   lk, histVars>>

s_wait_decide_end_chain(w, x) ==
    /\ At(w, x, "chain")
    /\ waker_busy' = [waker_busy EXCEPT ![Head(granted[x])] = FALSE]
    /\ granted' = [granted EXCEPT ![x] = Tail(@)]
    /\ Proceed(x, IF Tail(granted[x]) = <<>> THEN Return(x) ELSE "chain")
    /\ UNCHANGED <<status, wait_lock, waiters, lock, schedVars, inboxVars,
                   flagVars, todo, lk, histVars>>

(* s_waiter_wake: the unlocked status test, which also reads wait_lock ... *)
s_waiter_wake_check(w, x) ==
    /\ At(w, x, "check")
    /\ \/ /\ status[cur[x]] = "WAITING" /\ Goto(x, "lock")
          /\ lk' = [lk EXCEPT ![x] = wait_lock[cur[x]]]
       \/ status[cur[x]] # "WAITING" /\ Goto(x, "not_won") /\ UNCHANGED lk
    /\ UNCHANGED <<nodeVars, schedVars, inboxVars, flagVars,
                   kind, cur, granted, todo, histVars>>

(* Mutant: the node stays on the wait list.                                *)
WakeLeavesListed(w, x) ==
    LET n == cur[x]
    IN /\ At(w, x, "lock") /\ (lk[x] => lock = Nobody)
       /\ lk' = [lk EXCEPT ![x] = FALSE]
       /\ \/ /\ status[n] = "WAITING"
             /\ lock' = IF lk[x] THEN x ELSE lock
             /\ OpenWindow(x, kind[x], n)
          \/ /\ status[n] # "WAITING" /\ Goto(x, "not_won")
             /\ UNCHANGED <<lock, waker_busy, kind, cur>>
       /\ UNCHANGED <<status, wait_lock, waiters, schedVars, inboxVars, flagVars,
                      granted, todo, histVars>>

(* ... and the decision under the lock that was read, if there was one.    *)
s_waiter_wake(w, x) ==
    LET n == cur[x]
    IN /\ At(w, x, "lock") /\ (lk[x] => lock = Nobody)
       /\ lk' = [lk EXCEPT ![x] = FALSE]
       /\ \/ /\ status[n] = "WAITING"
             /\ waiters' = s_wq_remove(waiters, n)
             /\ lock' = IF lk[x] THEN x ELSE lock
             /\ OpenWindow(x, kind[x], n)
          \/ /\ status[n] # "WAITING" /\ Goto(x, "not_won")
             /\ UNCHANGED <<waiters, lock, waker_busy, kind, cur>>
       /\ UNCHANGED <<status, wait_lock, schedVars, inboxVars, flagVars,
                      granted, todo, histVars>>

(* What the callers of s_waiter_wake do when the target was not waiting:   *)
(* s_wait_deadline_cb nothing, suspenders_cancel resumes a suspended       *)
(* target, ...                                                             *)
NotWon(w, x) ==
    /\ At(w, x, "not_won") /\ kind[x] \in {"cancel", "timeout"}
    /\ \/ /\ kind[x] = "cancel" /\ state[cur[x]] = "SUSPENDED" /\ Goto(x, "resume")
          /\ kind' = [kind EXCEPT ![x] = "resume"] /\ UNCHANGED cur
       \/ /\ kind[x] = "timeout" \/ state[cur[x]] # "SUSPENDED"
          /\ Proceed(x, Return(x))
    /\ UNCHANGED <<nodeVars, schedVars, inboxVars, flagVars, chainVars, histVars>>

(* ... and s_inbox_deliver, which comes straight here when no cancel is    *)
(* requested, queues a suspended target or leaves it a pending wake.       *)
DeliverWake(w) ==
    LET n == cur[w]
    IN /\ At(w, w, "not_won") /\ kind[w] \in {"drain", "redeliver"}
       /\ IF state[n] = "SUSPENDED" THEN suspenders_ready_enqueue(w, n)
                                    ELSE UNCHANGED <<state, ready>>
       /\ pending_wake' = [pending_wake EXCEPT ![n] =
                             @ \/ state[n] \notin {"SUSPENDED", "DONE"}]
       /\ Proceed(w, Return(w))
       /\ UNCHANGED <<nodeVars, worker, running, injector, zombies, inbox, batch,
                      wake_inflight, flagVars, chainVars, histVars>>

Call(w, x, k, d, label) ==
    /\ kind' = [kind EXCEPT ![x] = k] /\ cur' = [cur EXCEPT ![x] = d]
    /\ Goto(x, label)
    /\ called' = [called EXCEPT ![d] =
                    @ \/ pc[d] = "suspended" \/ (k = "cancel" /\ worker[d] # w)]

(* suspenders_cancel: the request is stored before the pin is loaded.      *)
suspenders_cancel(w, x, d) ==
    /\ At(w, x, "run") /\ HandleValid("cancel", d) /\ Spend("cancel")
    /\ cancel_requested' = [cancel_requested EXCEPT ![d] = TRUE]
    /\ credit' = [credit EXCEPT ![d] = @ + 1]
    /\ Call(w, x, "cancel", d, "load_pin")
    /\ UNCHANGED <<nodeVars, schedVars, inboxVars, armed, chainVars>>

CancelLoadPin(w, x) ==
    /\ At(w, x, "load_pin")
    /\ IF Elsewhere(w, cur[x])
         THEN Goto(x, "resume") /\ kind' = [kind EXCEPT ![x] = "resume"]
         ELSE Goto(x, "check") /\ UNCHANGED kind
    /\ UNCHANGED <<nodeVars, schedVars, inboxVars, flagVars, cur, chainVars,
                   histVars>>

suspenders_resume(w, x, d) ==
    /\ At(w, x, "run") /\ HandleValid("resume", d) /\ Spend("resume")
    /\ Call(w, x, "resume", d, "resume")
    /\ UNCHANGED <<nodeVars, schedVars, inboxVars, flagVars, chainVars, credit>>

(* suspenders_resume, and the s_inbox_wake of a cancel that has found its  *)
(* target pinned elsewhere (the pin never changes).                        *)
ResumeLoadPin(w, x) ==
    /\ At(w, x, "resume")
    /\ \/ Elsewhere(w, cur[x]) /\ ExchangeInflight(x, cur[x])
       \/ /\ ~Elsewhere(w, cur[x]) /\ Goto(x, "resume_local")
          /\ UNCHANGED <<wake_inflight, kind, cur>>
    /\ UNCHANGED <<nodeVars, schedVars, inbox, batch, pending_wake, flagVars,
                   chainVars, histVars>>

(* The local half of suspenders_resume.  On a foreign thread the target    *)
(* goes to that thread's own ready queue, which nobody serves.             *)
ResumeLocal(w, x) ==
    LET n == cur[x]
    IN /\ At(w, x, "resume_local")
       /\ \/ /\ state[n] = "SUSPENDED"
             /\ IF w = NoWorker
                  THEN state' = [state EXCEPT ![n] = "READY"] /\ UNCHANGED ready
                  ELSE suspenders_ready_enqueue(w, n)
             /\ Proceed(x, IF x \in Crs /\ Qos[n] < Qos[x] THEN "preempt" ELSE Return(x))
          \/ state[n] # "SUSPENDED" /\ Proceed(x, Return(x)) /\ UNCHANGED <<state, ready>>
       /\ UNCHANGED <<nodeVars, worker, running, injector, zombies, inboxVars,
                      flagVars, chainVars, histVars>>

-----------------------------------------------------------------------------
(* s_worker_loop.                                                          *)

(* The most urgent non-empty level of a queue of four FIFO lists.          *)
TopLevel(queue, q) == queue[q] # <<>> /\ \A p \in Levels : p < q => queue[p] = <<>>
Empty(queue) == \A q \in Levels : queue[q] = <<>>

(* The loop takes the inbox as it finds it.  An idle worker is parked, or  *)
(* firing timers, until a wake, a spawn or a timer gives it a reason to go *)
(* round.                                                                  *)
LoopTop(w) ==
    /\ \/ At(w, w, "top")
       \/ /\ At(w, w, "idle")
          /\ inbox[w] # <<>> \/ ~Empty(injector) \/ ~Empty(ready[w])
    /\ \/ /\ inbox[w] # <<>> /\ Goto(w, "drain")
          /\ batch' = [batch EXCEPT ![w] = inbox[w]]
          /\ inbox' = [inbox EXCEPT ![w] = <<>>]
       \/ inbox[w] = <<>> /\ Goto(w, "pick") /\ UNCHANGED <<inbox, batch>>
    /\ UNCHANGED <<nodeVars, schedVars, wake_inflight, pending_wake, flagVars,
                   callVars, histVars>>

(* wake_inflight is cleared before the delivery, so that a wake sent from  *)
(* now on is queued again.                                                 *)
s_inbox_drain(w) ==
    /\ At(w, w, "drain")
    /\ \/ /\ batch[w] # <<>>
          /\ wake_inflight' = [wake_inflight EXCEPT ![Head(batch[w])] = FALSE]
          /\ cur' = [cur EXCEPT ![w] = Head(batch[w])]
          /\ kind' = [kind EXCEPT ![w] = "drain"]
          /\ batch' = [batch EXCEPT ![w] = Tail(@)] /\ Goto(w, "deliver")
       \/ batch[w] = <<>> /\ Goto(w, "pick") /\ UNCHANGED <<wake_inflight, cur, kind, batch>>
    /\ UNCHANGED <<nodeVars, schedVars, inbox, pending_wake, flagVars,
                   chainVars, histVars>>

(* Mutant: the delivery does not look for a cancel request.                *)
DeliverPlainWake(w) ==
    /\ At(w, w, "deliver") /\ Goto(w, "not_won")
    /\ UNCHANGED <<nodeVars, schedVars, inboxVars, flagVars, callVars, histVars>>

s_inbox_deliver(w) ==
    /\ At(w, w, "deliver")
    /\ Goto(w, IF cancel_requested[cur[w]] THEN "check" ELSE "not_won")
    /\ UNCHANGED <<nodeVars, schedVars, inboxVars, flagVars, callVars, histVars>>

Dispatch(w, c) ==
    /\ running' = [running EXCEPT ![w] = c]
    /\ state' = [state EXCEPT ![c] = "RUNNING"]
    /\ Goto(w, "back")

suspenders_ready_dequeue(w) ==
    /\ At(w, w, "pick")
    /\ \E q \in Levels :
         /\ TopLevel(ready[w], q)
         /\ ready' = [ready EXCEPT ![w][q] = Tail(@)]
         /\ cur' = [cur EXCEPT ![w] = Head(ready[w][q])]
         /\ Dispatch(w, Head(ready[w][q]))
    /\ UNCHANGED <<nodeVars, worker, injector, zombies, inboxVars, flagVars,
                   kind, chainVars, histVars>>

(* s_injector_take up to the pin store ...                                 *)
s_injector_take(w) ==
    /\ At(w, w, "pick") /\ Empty(ready[w])
    /\ \E q \in Levels :
         /\ TopLevel(injector, q)
         /\ injector' = [injector EXCEPT ![q] = Tail(@)]
         /\ cur' = [cur EXCEPT ![w] = Head(injector[q])]
         /\ worker' = [worker EXCEPT ![Head(injector[q])] = w]
    /\ Goto(w, "pinned")
    /\ UNCHANGED <<nodeVars, state, running, ready, zombies, inboxVars, flagVars,
                   kind, chainVars, histVars>>

(* Mutant: no check for an early cancel.                                   *)
DispatchUnchecked(w) ==
    /\ At(w, w, "pinned") /\ Dispatch(w, cur[w])
    /\ UNCHANGED <<nodeVars, worker, ready, injector, zombies, inboxVars, flagVars,
                   callVars, histVars>>

(* ... and the check for a cancel that found no pin, then the dispatch.    *)
InjectorDispatch(w) ==
    /\ At(w, w, "pinned")
    /\ pending_wake' = [pending_wake EXCEPT ![cur[w]] = @ \/ cancel_requested[cur[w]]]
    /\ Dispatch(w, cur[w])
    /\ UNCHANGED <<nodeVars, worker, ready, injector, zombies, inbox, batch,
                   wake_inflight, flagVars, callVars, histVars>>

(* Back from the coroutine: a wake it could not take then is redelivered.  *)
LoopBack(w) ==
    /\ At(w, w, "back")
    /\ \/ /\ pending_wake[cur[w]] /\ state[cur[w]] # "DONE" /\ Goto(w, "deliver")
          /\ pending_wake' = [pending_wake EXCEPT ![cur[w]] = FALSE]
          /\ kind' = [kind EXCEPT ![w] = "redeliver"] /\ UNCHANGED cur
       \/ /\ ~pending_wake[cur[w]] \/ state[cur[w]] = "DONE"
          /\ Proceed(w, "top") /\ UNCHANGED pending_wake
    /\ UNCHANGED <<nodeVars, schedVars, inbox, batch, wake_inflight, flagVars,
                   chainVars, histVars>>

(* Mutant: the reap comes before the drain.                                *)
ReapFirst(w) ==
    /\ At(w, w, "top") \/ At(w, w, "pick")
    /\ Empty(ready[w]) /\ Empty(injector)
    /\ state' = [c \in Crs |-> IF c \in zombies[w] THEN "FREED" ELSE state[c]]
    /\ zombies' = [zombies EXCEPT ![w] = {}]
    /\ Goto(w, "idle")
    /\ UNCHANGED <<nodeVars, worker, running, ready, injector, inboxVars, flagVars,
                   callVars, histVars>>

(* Nothing to run: the zombies of this worker are freed.                   *)
s_zombie_reap(w) ==
    /\ At(w, w, "pick") /\ Empty(ready[w]) /\ Empty(injector)
    /\ state' = [c \in Crs |-> IF c \in zombies[w] THEN "FREED" ELSE state[c]]
    /\ zombies' = [zombies EXCEPT ![w] = {}]
    /\ Goto(w, "idle")
    /\ UNCHANGED <<nodeVars, worker, running, ready, injector, inboxVars, flagVars,
                   callVars, histVars>>

(* One turn of suspenders_timer_fire_expired: an expired wait timer of a   *)
(* coroutine of this worker fires.  Those that expire together fire        *)
(* together, before the loop goes round.                                   *)
s_wait_deadline_cb(w, c) ==
    /\ At(w, w, "idle") /\ armed[c] /\ worker[c] = w
    /\ armed' = [armed EXCEPT ![c] = FALSE]
    /\ kind' = [kind EXCEPT ![w] = "timeout"] /\ cur' = [cur EXCEPT ![w] = c]
    /\ Goto(w, "check")
    /\ UNCHANGED <<nodeVars, schedVars, inboxVars, cancel_requested,
                   chainVars, histVars>>

-----------------------------------------------------------------------------
(* Steps only a coroutine takes, API calls of coroutines and threads, the  *)
(* steps that decide and wake (any context), and the scheduler loop.       *)
CrStep(w, c) ==
    \/ suspenders_yield(w, c) \/ suspenders_suspend(w, c) \/ SuspendReturns(w, c)
    \/ suspenders_cr_exit(w, c)
    \/ s_pre_block(w, c) \/ s_wait_park(w, c) \/ s_wait_block(w, c)
    \/ s_wait_decider_sync(w, c) \/ WaitReturns(w, c) \/ Preempt(w, c)

ApiCall(w, x) ==
    \/ suspenders_cond_signal(w, x) \/ suspenders_cond_broadcast(w, x)
    \/ \E d \in Crs : \/ s_spawn_impl(w, x, d) \/ suspenders_resume(w, x, d)
                      \/ suspenders_cancel(w, x, d)

WakeStep(w, x) ==
    \/ s_wait_grant(w, x) \/ s_wake_no_preempt(w, x) \/ s_inbox_wake(w, x)
    \/ s_wait_decide_end(w, x) \/ BroadcastNext(w, x) \/ s_wait_decide_end_chain(w, x)
    \/ s_waiter_wake_check(w, x) \/ s_waiter_wake(w, x) \/ NotWon(w, x)
    \/ CancelLoadPin(w, x) \/ ResumeLoadPin(w, x) \/ ResumeLocal(w, x)

s_worker_loop(w) ==
    \/ LoopTop(w) \/ s_inbox_drain(w) \/ s_inbox_deliver(w) \/ DeliverWake(w)
    \/ suspenders_ready_dequeue(w) \/ s_injector_take(w)
    \/ InjectorDispatch(w) \/ LoopBack(w) \/ s_zombie_reap(w)
    \/ \E c \in Crs : s_wait_deadline_cb(w, c)

Next ==
    \/ \E w \in Workers, c \in Crs : CrStep(w, c)
    \/ \E w \in Workers \cup {NoWorker}, x \in Crs \cup Threads : ApiCall(w, x)
    \/ \E w \in Workers \cup {NoWorker}, x \in Ctx : WakeStep(w, x)
    \/ \E w \in Workers : s_worker_loop(w)

Continue(x) == \E w \in Workers \cup {NoWorker} : WakeStep(w, x)
CrSteps(c) == \E w \in Workers : CrStep(w, c) \/ ApiCall(w, c) \/ WakeStep(w, c)
LoopSteps(w) == s_worker_loop(w) \/ WakeStep(w, w)
Expire(c) == \E w \in Workers : s_wait_deadline_cb(w, c)

(* A thread that is in a call goes on with it, a worker goes on with its   *)
(* loop, and a coroutine that has the worker eventually makes some call    *)
(* (scheduling is cooperative).  An armed timer expires in the end: a      *)
(* worker that is idle time and again finds it due.                        *)
Fairness ==
    /\ \A x \in Threads : WF_vars(Continue(x))
    /\ \A c \in Crs : WF_vars(CrSteps(c))
    /\ \A w \in Workers : WF_vars(LoopSteps(w))
    /\ \A c \in Crs : SF_vars(Expire(c))

Spec == Init /\ [][Next]_vars
FairSpec == Spec /\ Fairness

-----------------------------------------------------------------------------
(* Properties.                                                             *)

(* x has opened the decider window of c (waker_busy set by s_wait_grant or *)
(* s_waiter_wake) and not yet closed it.                                   *)
InWindow(x, c) ==
    \/ cur[x] = c /\ pc[x] \in {"flip", "wake", "push", "end", "next"}
                  /\ kind[x] # "resume"
    \/ c \in Range(granted[x])

(* s_zombie_reap frees a coroutine's control block and stack: from then on *)
(* no inbox, no wait list and no code in progress refers to it, although   *)
(* wakers on other workers push it by raw pointer and the drain that       *)
(* discards stale entries happens earlier in the loop than the reap.       *)
NoUseAfterFree ==
    \A c \in Crs : state[c] = "FREED" =>
        /\ \A w \in Workers : c \notin Range(inbox[w]) \cup Range(batch[w])
        /\ c \notin Range(waiters)
        /\ \A x \in Ctx : cur[x] # c /\ c \notin Range(todo[x]) \cup Range(granted[x])

(* "A released waiter may free the structure - including that very lock -  *)
(* immediately": whoever has granted a wait (and may hold the lock) still  *)
(* has the waiter trapped in s_wait_block, in this very wait.              *)
WindowTrapsWaiter ==
    \A x \in Ctx, c \in Crs : InWindow(x, c) =>
        /\ waker_busy[c] /\ pc[c] \in {"block", "sync"}
        /\ \A y \in Ctx \ {x} : ~InWindow(y, c)

(* The ready lists are intrusive: a coroutine is on one of them exactly    *)
(* when it is READY, once, on the worker it is pinned to, and it runs on   *)
(* that worker and on no other, and is on no list while it does, whatever  *)
(* wakes race.                                                             *)
PlacedOnce ==
    /\ \A w \in Workers, q \in Levels :
         /\ IsInjective(ready[w][q])
         /\ \A c \in Range(ready[w][q]) : state[c] = "READY" /\ worker[c] = w /\ Qos[c] = q
    /\ \A q \in Levels :
         /\ IsInjective(injector[q])
         /\ \A c \in Range(injector[q]) :
              state[c] = "READY" /\ worker[c] = NoWorker /\ Qos[c] = q
    /\ \A c \in Crs : state[c] = "READY" =>
         \/ c \in Range(injector[Qos[c]])
         \/ \E w \in Workers : \/ c \in Range(ready[w][Qos[c]])
                               \/ pc[w] = "pinned" /\ cur[w] = c
    /\ \A w \in Workers : running[w] # NoCr =>
         worker[running[w]] = w /\ state[running[w]] = "RUNNING"

(* An undecided wait is on the structure's list, so that a grant can reach *)
(* it, unless a decider has already taken it off; and the list holds       *)
(* nothing else, no node twice.                                            *)
WaitersAreListed ==
    /\ \A c \in Crs : pc[c] = "block" /\ status[c] = "WAITING" =>
         \/ c \in Range(waiters)
         \/ \E x \in Ctx : c \in Range(todo[x]) \/ (cur[x] = c /\ pc[x] = "flip")
    /\ IsInjective(waiters)
    /\ \A c \in Range(waiters) : pc[c] = "block" /\ status[c] = "WAITING" /\ ~waker_busy[c]

(* "Delivery consumes the request": the CANCELED results a coroutine has   *)
(* seen never outnumber the suspenders_cancel calls made on it.            *)
CancelConsumedOnce == \A c \in Crs : credit[c] >= 0

(* A decided wait returns: the wake reaches the coroutine, its worker      *)
(* dispatches it and its decider closes the window, even if the decider is *)
(* less urgent than the coroutine it has woken on its own worker.          *)
DecidedWaitReturns ==
    \A c \in Crs : (pc[c] = "block" /\ status[c] # "WAITING") ~> pc[c] = "run"

(* A cancel request ends the wait it meets, from any thread and whatever   *)
(* else is being delivered to the target, and so does the deadline of a    *)
(* wait that has one.                                                      *)
InterruptEndsWait ==
    \A c \in Crs : (pc[c] = "block" /\ (cancel_requested[c] \/ armed[c])) ~> pc[c] = "run"

(* A resume or cancel called on a suspended coroutine gets it to run, and  *)
(* so does a cancel another thread called before it suspended: it left a   *)
(* pending_wake, or was seen by s_injector_take if it came before the pin. *)
ResumeEndsSuspend ==
    \A c \in Crs : (pc[c] = "suspended" /\ called[c]) ~> pc[c] = "run"

=============================================================================
