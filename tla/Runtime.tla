------------------------------ MODULE Runtime ------------------------------
(***************************************************************************)
(* The runtime's life: the workers' threads, their scheduler loop with the *)
(* park protocol and the timers, run completion and shutdown.              *)
(*                                                                         *)
(* The atomics that cross threads are sequentially consistent and a load   *)
(* or store of one is a step; what a worker does with its own lists is one *)
(* step with the access next to it.  How a wait is decided, and that it is *)
(* woken once, is WaitProtocol's part; here a wake is a push to an inbox.  *)
(* Allocation succeeds.  A thread has finished its calls when              *)
(* suspenders_shutdown is called.                                          *)
(***************************************************************************)
EXTENDS TimerHeap, FiniteSets

CONSTANTS MaxWorkers, Threads,
          Crs, Daemons,      \* coroutines, and those of them that drain a queue
          Timers,            \* timers made with suspenders_timer_create: periods
          Horizon,           \* bound on the clock
          Programs,          \* what may be called, and how often
          None

WorkerIds == 0..MaxWorkers-1
Actors == WorkerIds \cup Threads
Ops == {"init", "fail", "run", "shutdown", "spawn", "wake", "park", "yield", "sleep",
        "submit", "cancel"}

ASSUME RuntimeAssumption ==
    /\ MaxWorkers \in Nat \ {0} /\ Horizon \in Nat /\ Daemons \subseteq Crs
    /\ Timers \subseteq Nat \ {0} /\ None \notin Crs
    /\ Programs \subseteq [calls : [Ops -> Nat], by : SUBSET Actors, workers : 1..MaxWorkers,
                           crs : BoundedSeq(Crs, Cardinality(Crs)),
                           timers : SUBSET Timers, repeat : SUBSET Timers]

VARIABLES
    phase,          \* what the thread of suspenders_init is doing
    worker,         \* s_workers, with the thread-local state of their threads
    injector, active_coroutines, s_queue_work, s_stop, s_runtime_up,
    st, pin,        \* of a coroutine: where it is, and its worker
    deadline,       \* of a timer; a sleeping coroutine is its own timer
    tasks, busy,    \* tasks of the queue; the daemons running one
    call,           \* the call an actor is in the middle of
    now,
    calls, prog     \* the calls left, and the program

queueVars == <<s_queue_work, tasks, busy>>
sharedVars == <<injector, active_coroutines>>
flagVars == <<phase, s_stop, s_runtime_up>>
crVars == <<st, pin>>
vars == <<flagVars, worker, sharedVars, queueVars, crVars, deadline, call, now, calls, prog>>

Workers == 0..prog.workers-1
NoCall == [op |-> "none", i |-> 0]
Never == Horizon + 1

\* s_workers after memset.
NewWorker == [pc |-> "off", at |-> 1, parked |-> FALSE, efd |-> FALSE, inbox |-> <<>>,
              ready |-> <<>>, run |-> None, heap |-> <<>>, until |-> Never]

Init ==
    /\ prog \in Programs /\ calls = prog.calls
    /\ phase = [at |-> "down", i |-> 0] /\ s_stop = FALSE /\ s_runtime_up = FALSE
    /\ worker = [w \in WorkerIds |-> NewWorker]
    /\ injector = <<>> /\ active_coroutines = 0
    /\ s_queue_work = 0 /\ tasks = 0 /\ busy = {}
    /\ st = [c \in Crs |-> "unborn"] /\ pin = [c \in Crs |-> None]
    /\ deadline = [t \in Crs \cup Timers |-> 0]
    /\ call = [a \in Actors |-> NoCall] /\ now = 0

Set(w, f) == worker' = [worker EXCEPT ![w] = f @@ @]
Goto(w, label) == Set(w, [pc |-> label, at |-> 1])
Phase(label, i) == phase' = [at |-> label, i |-> i]
Spend(op) == calls[op] > 0 /\ calls' = [calls EXCEPT ![op] = @ - 1]
Calling(a, op, i) == call' = [call EXCEPT ![a] = [op |-> op, i |-> i]]
Returning(a) == call' = [call EXCEPT ![a] = NoCall]
Enqueue(w, c) == Set(w, [ready |-> Append(worker[w].ready, c)])
Mark(c, s) == st' = [st EXCEPT ![c] = s]
-----------------------------------------------------------------------------
(* suspenders_init.                                                        *)

\* Mutant: nothing is written to the wake fd.
ForgetsKick(w) == UNCHANGED worker

\* A write to the wake fd, which stays readable until it is drained.
Kick(w) == Set(w, [efd |-> TRUE])

suspenders_init ==
    /\ phase.at = "down" /\ Spend("init") /\ Phase("starting", 1)
    /\ worker' = [w \in WorkerIds |-> NewWorker] /\ injector' = <<>> /\ s_stop' = FALSE
    /\ UNCHANGED <<active_coroutines, queueVars, crVars, s_runtime_up, deadline, call, now, prog>>

StartHelper ==
    /\ phase.at = "starting" /\ phase.i \in Workers
    /\ Goto(phase.i, "boot") /\ Phase("starting", phase.i + 1)
    /\ UNCHANGED <<s_stop, s_runtime_up, sharedVars, queueVars, crVars, deadline, call, now,
                   calls, prog>>

(* pthread_create fails: the helpers that were started are stopped and     *)
(* joined, one after the other.                                            *)
StartFails ==
    /\ phase.at = "starting" /\ phase.i \in Workers
    /\ Spend("fail") /\ s_stop' = TRUE /\ Phase("undo_kick", 1)
    /\ UNCHANGED <<worker, s_runtime_up, sharedVars, queueVars, crVars, deadline, call, now, prog>>

Rollback ==
    LET j == phase.i
        Started == j \in Workers /\ worker[j].pc # "off"
    IN  /\ \/ /\ phase.at = "undo_kick" /\ Started
              /\ Kick(j) /\ Phase("undo_join", j) /\ UNCHANGED s_stop
           \/ /\ phase.at = "undo_join" /\ worker[j].pc = "out"
              /\ Phase("undo_kick", j + 1) /\ UNCHANGED <<worker, s_stop>>
           \/ /\ phase.at = "undo_kick" /\ ~Started
              /\ Phase("down", 0) /\ s_stop' = FALSE /\ UNCHANGED worker
        /\ UNCHANGED <<s_runtime_up, sharedVars, queueVars, crVars, deadline, call, now, calls,
                       prog>>

InitReturns ==
    /\ phase.at = "starting" /\ phase.i = prog.workers
    /\ Phase("up", 0) /\ s_runtime_up' = TRUE
    /\ UNCHANGED <<worker, s_stop, sharedVars, queueVars, crVars, deadline, call, now, calls, prog>>

-----------------------------------------------------------------------------
(* The calls of coroutines, of threads, and of the thread of               *)
(* suspenders_init when it is not in suspenders_run.                       *)

Idle(a) ==
    /\ call[a] = NoCall /\ a \in prog.by
    /\ \/ a \in Threads /\ s_runtime_up
       \/ a = 0 /\ phase.at = "up"
       \/ a \in Workers /\ worker[a].pc = "running" /\ worker[a].run \notin Daemons \ busy

\* The order of the programs' coroutines is that of their ids.
Unborn == SelectSeq(prog.crs, LAMBDA c : st[c] = "unborn")
NextCr == IF Unborn = <<>> THEN None ELSE Head(Unborn)

(* s_spawn_impl: the coroutine is counted, then listed, then some worker   *)
(* that is parked is kicked.                                               *)
suspenders_spawn(a, c) ==
    /\ Idle(a) /\ Spend("spawn") /\ s_runtime_up /\ c = NextCr
    /\ active_coroutines' = active_coroutines + (IF c \in Daemons THEN 0 ELSE 1)
    /\ Calling(a, "list", c) /\ Mark(c, "made")
    /\ UNCHANGED <<flagVars, worker, injector, queueVars, pin, deadline, now, prog>>

ListNew(a) ==
    LET c == call[a].i
    IN  /\ call[a].op = "list"
        /\ \/ /\ prog.workers > 1 \/ a \in Threads
              /\ injector' = Append(injector, c) /\ Mark(c, "injector") /\ Calling(a, "scan", 0)
              /\ UNCHANGED <<worker, pin>>
           \/ /\ prog.workers = 1 /\ a \notin Threads
              /\ pin' = [pin EXCEPT ![c] = a] /\ Mark(c, "ready") /\ Enqueue(a, c) /\ Returning(a)
              /\ UNCHANGED injector
        /\ UNCHANGED <<flagVars, active_coroutines, queueVars, deadline, now, calls, prog>>

(* Only the first worker seen parked is kicked.                            *)
Scan(a) ==
    LET i == call[a].i
    IN  /\ call[a].op = "scan"
        /\ IF i \notin Workers THEN Returning(a)
           ELSE IF worker[i].parked THEN Calling(a, "signal", i)
           ELSE Calling(a, "scan", i + 1)
        /\ UNCHANGED <<flagVars, worker, sharedVars, queueVars, crVars, deadline, now, calls, prog>>

s_worker_signal(a) ==
    /\ call[a].op = "signal" /\ Returning(a)
    /\ IF worker[call[a].i].parked THEN Kick(call[a].i) ELSE UNCHANGED worker
    /\ UNCHANGED <<flagVars, sharedVars, queueVars, crVars, deadline, now, calls, prog>>

(* A parked coroutine's wait has been decided: s_wait_finish_wake.  Its    *)
(* own worker lists it, another pushes it to that worker's inbox.  A wake  *)
(* that begins after c was reaped, through a wait queue that c is still    *)
(* on, is not followed.                                                    *)
Wake(a, c) ==
    \/ /\ pin[c] = a /\ Mark(c, "ready") /\ Enqueue(a, c) /\ Returning(a)
    \/ /\ pin[c] # a /\ Mark(c, "granted") /\ Calling(a, "push", c) /\ UNCHANGED worker

suspenders_wake(a, c) ==
    /\ Idle(a) /\ Spend("wake") /\ st[c] = "parked" /\ c \notin Daemons /\ Wake(a, c)
    /\ UNCHANGED <<flagVars, sharedVars, queueVars, pin, deadline, now, prog>>

s_inbox_wake(a) ==
    LET c == call[a].i
        w == pin[c]
    IN  /\ call[a].op = "push"
        /\ Set(w, [inbox |-> Append(worker[w].inbox, c)]) /\ Calling(a, "signal", w)
        /\ UNCHANGED <<flagVars, sharedVars, queueVars, crVars, deadline, now, calls, prog>>

(* A submission counts the work before it sends the task to a drainer.     *)
s_queue_submit(a) ==
    /\ Idle(a) /\ Spend("submit") /\ \E d \in Daemons : st[d] \notin {"unborn", "made"}
    /\ s_queue_work' = s_queue_work + 1 /\ Calling(a, "send", 0)
    /\ UNCHANGED <<flagVars, worker, sharedVars, tasks, busy, crVars, deadline, now, prog>>

SendTask(a) ==
    LET parked == {d \in Daemons : st[d] = "parked"}
    IN  /\ call[a].op = "send" /\ tasks' = tasks + 1
        /\ \/ \E d \in parked : Wake(a, d)
           \/ parked = {} /\ Returning(a) /\ UNCHANGED <<worker, st>>
        /\ UNCHANGED <<flagVars, sharedVars, s_queue_work, busy, pin, deadline, now, calls, prog>>

suspenders_timer_create(a, t) ==
    /\ Idle(a) /\ a \in Workers /\ t \in prog.timers /\ deadline[t] = 0
    /\ now = 0   \* bound
    /\ LET key == [deadline EXCEPT ![t] = now + t]
       IN  deadline' = key
           /\ Set(a, [heap |-> suspenders_timer_heap_push(worker[a].heap, key, t)])
    /\ UNCHANGED <<flagVars, sharedVars, queueVars, crVars, call, now, calls, prog>>

suspenders_timer_cancel(a, t) ==
    /\ Idle(a) /\ a \in Workers /\ Contains(worker[a].heap, t) /\ t \in Timers /\ Spend("cancel")
    /\ Set(a, [heap |-> suspenders_timer_heap_remove(worker[a].heap, deadline, t)])
    /\ UNCHANGED <<flagVars, sharedVars, queueVars, crVars, deadline, call, now, prog>>
-----------------------------------------------------------------------------
(* What a running coroutine does to itself.                                *)

Running(w, c) == worker[w].pc = "running" /\ worker[w].run = c /\ call[w] = NoCall
SwitchOut(w, more) == Set(w, [pc |-> "top", run |-> None] @@ more)

suspenders_yield(w) ==
    \E c \in Crs \ Daemons :
        /\ Running(w, c) /\ Spend("yield")
        /\ SwitchOut(w, [ready |-> Append(worker[w].ready, c)]) /\ Mark(c, "ready")
        /\ UNCHANGED <<flagVars, sharedVars, queueVars, pin, deadline, call, now, prog>>

(* A drainer with no task waits for one; another coroutine waits for       *)
(* whatever wakes it.                                                      *)
Block(w) ==
    \E c \in Crs :
        /\ Running(w, c)
        /\ \/ c \in Daemons \ busy /\ tasks = 0 /\ UNCHANGED calls
           \/ c \notin Daemons /\ Spend("park")
        /\ SwitchOut(w, <<>>) /\ Mark(c, "parked")
        /\ UNCHANGED <<flagVars, sharedVars, queueVars, pin, deadline, call, now, prog>>

suspenders_sleep_dl(w, d) ==
    \E c \in Crs \ Daemons :
        LET key == [deadline EXCEPT ![c] = d]
        IN  /\ Running(w, c) /\ Spend("sleep") /\ d > now
            /\ deadline' = key /\ Mark(c, "asleep")
            /\ SwitchOut(w, [heap |-> suspenders_timer_heap_push(worker[w].heap, key, c)])
            /\ UNCHANGED <<flagVars, sharedVars, queueVars, pin, call, now, prog>>

TakeTask(w) ==
    \E c \in Daemons \ busy :
        /\ Running(w, c) /\ tasks > 0 /\ tasks' = tasks - 1 /\ busy' = busy \cup {c}
        /\ UNCHANGED <<flagVars, worker, sharedVars, s_queue_work, crVars, deadline, call, now,
                       calls, prog>>

\* Mutant: worker 0 is left to find out.
NoKick(w, left) == UNCHANGED call

\* The last of them, when it ends on a helper, kicks worker 0.
KickRunCaller(w, left) == IF left = 0 /\ w # 0 THEN Calling(w, "signal", 0) ELSE UNCHANGED call

s_queue_work_end(w) ==
    \E c \in busy :
        /\ Running(w, c) /\ busy' = busy \ {c} /\ s_queue_work' = s_queue_work - 1
        /\ KickRunCaller(w, s_queue_work')
        /\ UNCHANGED <<flagVars, worker, sharedVars, tasks, crVars, deadline, now, calls, prog>>

suspenders_cr_exit(w) ==
    \E c \in Crs \ Daemons :
        /\ Running(w, c) /\ Goto(w, "exiting") /\ Mark(c, "done")
        /\ active_coroutines' = active_coroutines - 1 /\ KickRunCaller(w, active_coroutines')
        /\ UNCHANGED <<flagVars, injector, queueVars, pin, deadline, now, calls, prog>>

(* On its stack to the last: suspenders_ctx_switch.                        *)
LeaveStack(w) ==
    /\ worker[w].pc = "exiting" /\ call[w] = NoCall /\ SwitchOut(w, <<>>)
    /\ UNCHANGED <<flagVars, sharedVars, queueVars, crVars, deadline, call, now, calls, prog>>

Coroutine(w) ==
    \/ suspenders_yield(w) \/ Block(w) \/ \E d \in 1..Horizon : suspenders_sleep_dl(w, d)
    \/ TakeTask(w) \/ s_queue_work_end(w) \/ suspenders_cr_exit(w) \/ LeaveStack(w)

Call(a) ==
    \/ ListNew(a) \/ Scan(a) \/ s_worker_signal(a) \/ s_inbox_wake(a) \/ SendTask(a)

-----------------------------------------------------------------------------
(* s_worker_loop.                                                          *)

AtTop(w) == worker[w].pc = "top" /\ call[w] = NoCall

(* Worker 0's thread is the one that stops the others.                     *)
Stop(w) ==
    /\ AtTop(w) /\ w # 0 /\ s_stop /\ Goto(w, "teardown")
    /\ UNCHANGED <<flagVars, sharedVars, queueVars, crVars, deadline, call, now, calls, prog>>

(* s_inbox_drain, then suspenders_ready_dequeue or s_injector_take.        *)
Listed(w) == worker[w].ready \o worker[w].inbox

Dispatch(w) ==
    /\ AtTop(w) /\ ~s_stop
    /\ \/ /\ Listed(w) # <<>>
          /\ Set(w, [inbox |-> <<>>, ready |-> Tail(Listed(w)), run |-> Head(Listed(w)),
                     pc |-> "running"])
          /\ st' = [c \in Crs |-> IF c = Head(Listed(w)) THEN "running"
                                  ELSE IF Contains(worker[w].inbox, c) THEN "ready" ELSE st[c]]
          /\ UNCHANGED <<injector, pin>>
       \/ /\ Listed(w) = <<>> /\ injector # <<>> /\ injector' = Tail(injector)
          /\ Set(w, [run |-> Head(injector), pc |-> "running"])
          /\ Mark(Head(injector), "running") /\ pin' = [pin EXCEPT ![Head(injector)] = w]
    /\ UNCHANGED <<flagVars, active_coroutines, queueVars, deadline, call, now, calls, prog>>

\* Mutant: one list for all workers.
EveryZombie(w) == {c \in Crs : st[c] = "done"}

Zombies(w) == {c \in Crs : st[c] = "done" /\ pin[c] = w}
Free(S) == st' = [c \in Crs |-> IF c \in S THEN "freed" ELSE st[c]]

(* Nothing to run: s_zombie_reap.                                          *)
GoIdle(w) ==
    /\ AtTop(w) /\ ~s_stop /\ Listed(w) = <<>> /\ injector = <<>>
    /\ Free(Zombies(w)) /\ Goto(w, IF w = 0 THEN "complete" ELSE "park")
    /\ UNCHANGED <<flagVars, sharedVars, queueVars, pin, deadline, call, now, calls, prog>>

\* Mutants: a queue's tasks do not keep the run alive; the re-check forgets the injector.
IgnoresQueue(pc) == IF pc = "recheck" THEN <<"inbox", "injector", "stop">>
                    ELSE <<"inbox", "injector", "active", "timers">>
IgnoresInjector(pc) == IF pc = "recheck" THEN <<"inbox", "stop">>
                       ELSE <<"inbox", "injector", "active", "queue", "timers">>

(* The loads of s_run_complete, and the ones after parked is set.          *)
Sources(pc) == IF pc = "recheck" THEN <<"inbox", "injector", "stop">>
               ELSE <<"inbox", "injector", "active", "queue", "timers">>

Empty(w, source) ==
    CASE source = "inbox" -> worker[w].inbox = <<>>
      [] source = "injector" -> injector = <<>>
      [] source = "stop" -> ~s_stop
      [] source = "active" -> active_coroutines = 0
      [] source = "queue" -> s_queue_work = 0
      [] source = "timers" -> worker[w].heap = <<>>

\* Where the worker goes when a load finds something, and when none has.
Found(pc) == CASE pc = "complete" -> "park" [] pc = "recheck" -> "unpark" [] pc = "confirm" -> "wait"
AllEmpty(w, pc) ==
    CASE pc = "complete" -> "off" [] pc = "confirm" -> "unpark"
      [] pc = "recheck" -> IF w = 0 THEN "confirm" ELSE "wait"

Load(w) ==
    LET pc == worker[w].pc
        source == Sources(pc)[worker[w].at]
    IN  /\ pc \in {"complete", "recheck", "confirm"}
        /\ \/ /\ ~Empty(w, source) /\ Goto(w, Found(pc)) /\ UNCHANGED phase
           \/ /\ Empty(w, source) /\ worker[w].at < Len(Sources(pc))
              /\ Set(w, [at |-> worker[w].at + 1]) /\ UNCHANGED phase
           \/ /\ Empty(w, source) /\ worker[w].at = Len(Sources(pc))
              /\ Goto(w, AllEmpty(w, pc))
              /\ IF pc = "complete" THEN Phase("up", 0) ELSE UNCHANGED phase
        /\ UNCHANGED <<s_stop, s_runtime_up, sharedVars, queueVars, crVars, deadline, call, now,
                       calls, prog>>

Park(w) ==
    LET heap == worker[w].heap
    IN  /\ worker[w].pc = "park"
        /\ Set(w, [pc |-> "recheck", at |-> 1, parked |-> TRUE,
                   until |-> IF heap = <<>> THEN Never ELSE deadline[Head(heap)]])
        /\ UNCHANGED <<flagVars, sharedVars, queueVars, crVars, deadline, call, now, calls, prog>>

(* s_backend_wait returns for the wake fd, which it drains, or in time for *)
(* the first timer.                                                        *)
Wait(w) ==
    /\ worker[w].pc = "wait" /\ (worker[w].efd \/ worker[w].until <= now)
    /\ Set(w, [pc |-> "unpark", efd |-> FALSE])
    /\ UNCHANGED <<flagVars, sharedVars, queueVars, crVars, deadline, call, now, calls, prog>>

Unpark(w) ==
    /\ worker[w].pc = "unpark" /\ Set(w, [pc |-> "fire", parked |-> FALSE, until |-> now])
    /\ UNCHANGED <<flagVars, sharedVars, queueVars, crVars, deadline, call, now, calls, prog>>

Expired(w) == worker[w].heap # <<>> /\ deadline[Head(worker[w].heap)] <= worker[w].until

(* An iteration of the loop, which reads the clock once, before it starts. *)
(* s_sleep_cb makes a sleeper ready.                                       *)
suspenders_timer_fire_expired(w) ==
    /\ worker[w].pc = "fire"
    /\ \/ ~Expired(w) /\ Set(w, [pc |-> "top", until |-> Never]) /\ UNCHANGED <<deadline, st>>
       \/ /\ Expired(w)
          /\ \E t \in {Head(worker[w].heap)},
                rest \in {suspenders_timer_heap_pop(worker[w].heap, deadline)} :
               \/ /\ t \in prog.repeat
                  /\ deadline' = [deadline EXCEPT ![t] = worker[w].until + t]
                  /\ Set(w, [heap |-> suspenders_timer_heap_push(rest, deadline', t)])
                  /\ UNCHANGED st
               \/ /\ t \in Timers \ prog.repeat
                  /\ Set(w, [heap |-> rest]) /\ UNCHANGED <<deadline, st>>
               \/ /\ t \in Crs /\ Mark(t, "ready")
                  /\ Set(w, [heap |-> rest, ready |-> Append(worker[w].ready, t)])
                  /\ UNCHANGED deadline
    /\ UNCHANGED <<flagVars, sharedVars, queueVars, pin, call, now, calls, prog>>

(* The end of s_worker_thread_main: s_zombie_reap and s_live_reap.         *)
Teardown(w) ==
    /\ worker[w].pc = "teardown" /\ Free({c \in Crs : pin[c] = w})
    /\ Set(w, [pc |-> "out", heap |-> <<>>])
    /\ UNCHANGED <<flagVars, sharedVars, queueVars, pin, deadline, call, now, calls, prog>>

(* s_worker_thread_main gets its heap and backend, or returns at once.     *)
Boot(w) ==
    /\ worker[w].pc = "boot"
    /\ \/ Goto(w, "top") /\ UNCHANGED calls
       \/ Goto(w, "out") /\ Spend("fail")
    /\ UNCHANGED <<flagVars, sharedVars, queueVars, crVars, deadline, call, now, prog>>

s_worker_loop(w) ==
    \/ Boot(w) \/ Stop(w) \/ Dispatch(w) \/ GoIdle(w) \/ Load(w) \/ Park(w) \/ Wait(w)
    \/ Unpark(w) \/ suspenders_timer_fire_expired(w) \/ Teardown(w)

-----------------------------------------------------------------------------
suspenders_run ==
    /\ phase.at = "up" /\ call[0] = NoCall /\ Spend("run") /\ Phase("running", 0)
    /\ Goto(0, "top")
    /\ UNCHANGED <<s_stop, s_runtime_up, sharedVars, queueVars, crVars, deadline, call, now, prog>>

suspenders_shutdown ==
    /\ phase.at = "up" /\ call[0] = NoCall /\ \A t \in Threads : call[t] = NoCall
    /\ Spend("shutdown") /\ s_runtime_up' = FALSE /\ s_stop' = TRUE /\ Phase("kick", 1)
    /\ UNCHANGED <<worker, sharedVars, queueVars, crVars, deadline, call, now, prog>>

KickHelper ==
    /\ phase.at = "kick"
    /\ \/ /\ phase.i \in Workers /\ Kick(phase.i) /\ Phase("kick", phase.i + 1)
       \/ /\ phase.i \notin Workers /\ Phase("join", 1) /\ UNCHANGED worker
    /\ UNCHANGED <<s_stop, s_runtime_up, sharedVars, queueVars, crVars, deadline, call, now,
                   calls, prog>>

(* With the helpers joined, what never ran, worker 0's coroutines, the     *)
(* queues (s_queue_shutdown_reap) and the workers go.                      *)
Reclaim ==
    /\ phase.at = "join" /\ \A w \in Workers \ {0} : worker[w].pc = "out"
    /\ Free({c \in Crs : Contains(injector, c) \/ pin[c] = 0})
    /\ injector' = <<>> /\ active_coroutines' = 0 /\ s_queue_work' = 0 /\ tasks' = 0 /\ busy' = {}
    /\ worker' = [w \in WorkerIds |-> NewWorker] /\ s_stop' = FALSE /\ Phase("down", 0)
    /\ UNCHANGED <<pin, s_runtime_up, deadline, call, now, calls, prog>>

InitThread ==
    StartHelper \/ StartFails \/ Rollback \/ InitReturns \/ KickHelper \/ Reclaim

(* Time matters to timers only.                                            *)
Tick ==
    /\ now < Horizon /\ now' = now + 1 /\ \E w \in Workers : worker[w].heap # <<>>
    /\ UNCHANGED <<flagVars, worker, sharedVars, queueVars, crVars, deadline, call, calls, prog>>

Next ==
    \/ suspenders_init \/ suspenders_run \/ suspenders_shutdown \/ InitThread \/ Tick
    \/ \E w \in Workers : s_worker_loop(w) \/ Coroutine(w)
    \/ \E a \in Actors :
         \/ Call(a) \/ s_queue_submit(a)
         \/ \E c \in Crs : suspenders_spawn(a, c) \/ suspenders_wake(a, c)
         \/ \E t \in Timers : suspenders_timer_create(a, t) \/ suspenders_timer_cancel(a, t)

Spec == Init /\ [][Next]_vars

(* Threads are scheduled, coroutines return or block, time passes.         *)
Thread(a) ==
    \/ Call(a)
    \/ a = 0 /\ InitThread
    \/ a \in Workers /\ (s_worker_loop(a) \/ Coroutine(a))

FairSpec == Spec /\ WF_vars(Tick) /\ \A a \in Actors : WF_vars(Thread(a))
-----------------------------------------------------------------------------
(* A coroutine is freed, by s_zombie_reap, s_live_reap or                  *)
(* suspenders_shutdown, only when no worker that still runs has it on a    *)
(* list and nobody is in the middle of listing or waking it.  There is one *)
(* exception: a helper that sees s_stop reaps its parked coroutines while  *)
(* the other helpers still run, and one of them may be waking it.          *)
Kept(c) ==
    \/ Contains(injector, c)
    \/ \E w \in WorkerIds :
         /\ worker[w].pc # "out"
         /\ \/ worker[w].run = c
            \/ \E list \in {"ready", "inbox", "heap"} : Contains(worker[w][list], c)
Uses(a, c) == call[a].op \in {"list", "push"} /\ call[a].i = c
LateWake(a, c) == s_stop /\ a \in Workers \ {0, pin[c]} /\ worker[pin[c]].pc = "out"
NoUseAfterReap ==
    \A c \in Crs : st[c] = "freed" =>
        ~Kept(c) /\ \A a \in Actors : Uses(a, c) => LateWake(a, c)

(* The comment of s_live_reap: a coroutine is reclaimed when nothing can   *)
(* wake or run it anymore.                                                 *)
ReapedWhenUnreachable ==
    \A c \in Crs : st[c] = "freed" => ~Kept(c) /\ \A a \in Actors : ~Uses(a, c)

(* The worker sleeps no longer than to its earliest timer, and fires them  *)
(* in order: whatever was created, cancelled and fired before, the heap's  *)
(* root is the earliest, and so is that of each of its subtrees.           *)
EarliestTimerFirst ==
    \A w \in WorkerIds : LET h == worker[w].heap IN
        \A i \in 2..Len(h) : deadline[h[i \div 2]] <= deadline[h[i]]

(* suspenders_run, by its documentation, returns only once every coroutine *)
(* has finished and no queue task or timer is pending (if no thread        *)
(* outside adds work).                                                     *)
RunEnds == phase.at = "running" /\ phase'.at = "up" /\ prog.by \subseteq WorkerIds
RunReturnsWhenDone ==
    [][RunEnds => /\ active_coroutines = 0 /\ s_queue_work = 0
                  /\ \A w \in WorkerIds : worker[w].heap = <<>>]_vars

(* What it does wait for, as long as the tasks do not spawn: every         *)
(* coroutine, those asleep on a helper included, every task, and the       *)
(* timers of worker 0.  s_run_complete sees no other worker's heap, so a   *)
(* timer made on a helper does not hold it up.                             *)
RunOutlastsWork ==
    [][RunEnds => /\ active_coroutines = 0 /\ s_queue_work = 0
                  /\ worker[0].heap = <<>>
                  /\ \A w \in WorkerIds, c \in Crs \ Daemons :
                       ~Contains(worker[w].heap, c) /\ st[c] \in {"unborn", "done", "freed"}]_vars

Looping(w) == worker[w].pc \notin {"off", "boot", "teardown", "out"}

(* A worker that parks does not miss work: a new coroutine is taken as     *)
(* long as some worker runs its loop, one that was woken from another      *)
(* worker runs on its own, and a sleeper's timer fires.                    *)
Waiting(c) ==
    \/ st[c] \in {"made", "injector"} /\ \E w \in WorkerIds : Looping(w)
    \/ st[c] \in {"granted", "asleep"} /\ Looping(pin[c])
WorkIsTaken == \A c \in Crs : Waiting(c) ~> ~Waiting(c)

(* When the last coroutine, task and timer end, wherever they do, worker 0 *)
(* notices and suspenders_run returns.                                     *)
Quiet == active_coroutines = 0 /\ s_queue_work = 0 /\ worker[0].heap = <<>>
RunReturns == (phase.at = "running" /\ Quiet) ~> (phase.at # "running" \/ ~Quiet)

(* Stopping the helpers, at shutdown or when one of them cannot be         *)
(* started, ends: each of them sees s_stop, parked or not.                 *)
HelpersStop ==
    phase.at \in {"undo_kick", "undo_join", "kick", "join"} ~> phase.at = "down"
=============================================================================
