----------------------------- MODULE TaskQueue -----------------------------
(***************************************************************************)
(* A task queue: a buffered channel of tasks that daemon coroutines, the   *)
(* drainers, take and run, with barriers, synchronous submission, delayed  *)
(* submission and destruction.                                             *)
(*                                                                         *)
(* A call on the channel, a section under the queue's mutex and an update  *)
(* of a waitgroup are one step each (see Channel and Sync).  As in         *)
(* FifoChannel, chan holds the buffer and, beyond Cap, the tasks of the    *)
(* submitters that are parked.  A task's function runs between two steps   *)
(* of its drainer, returns, and does not use the queue.                    *)
(***************************************************************************)
EXTENDS WqList, FiniteSets

CONSTANTS MaxConcurrency,
          Crs, Threads,   \* submitters: coroutines, and threads that cannot block
          Delayed,        \* the coroutines suspenders_queue_after can spawn
          Cap,            \* SUSPENDERS_QUEUE_CAP
          MaxTasks,       \* bound on the tasks submitted
          Programs        \* who may call what, with how many drainers

Drainers == 1..MaxConcurrency
Clients == Crs \cup Threads \cup Delayed
Ops == {"async", "barrier", "sync", "after", "destroy", "cancel"}

ASSUME QueueAssumption ==
    /\ MaxConcurrency \in Nat \ {0} /\ Cap \in Nat \ {0} /\ MaxTasks \in Nat
    /\ Programs \subseteq [calls : SUBSET ((Clients \cup Drainers) \X Ops), drainers : Drainers]
    /\ IsFiniteSet(Clients) /\ Drainers \cap Clients = {}
    /\ Crs \cap Threads = {} /\ (Crs \cup Threads) \cap Delayed = {}

VARIABLES
    chan, closed, receivers,   \* the channel; receivers are parked drainers
    concurrency,
    active, barrier_pending,   \* under the queue's mutex
    drain_wg,                  \* the drainers that have not exited
    sync_wg,                   \* the waitgroup on the stack of a sync caller
    s_queue_work,
    freed,
    pc,
    task,                      \* the task of a drainer
    call,                      \* what a client is submitting
    submitted,                 \* tasks offered so far: the last task's id
    ran,                       \* history: the ids of the tasks that have run
    calls                      \* what may be called, or be done to whom (cancel)

chanVars == <<chan, closed, receivers>>
barrierVars == <<active, barrier_pending>>
vars == <<chanVars, concurrency, barrierVars, drain_wg, sync_wg, s_queue_work, freed,
          pc, task, call, submitted, ran, calls>>

NoTask == [id |-> 0, by |-> CHOOSE c \in Clients : TRUE, barrier |-> FALSE, sync |-> FALSE]

(* suspenders_queue_create; memory may suffice for some drainers only.     *)
Init ==
    /\ \E p \in Programs : calls = p.calls /\ concurrency \in 1..p.drainers
    /\ drain_wg = concurrency
    /\ pc = [x \in Drainers \cup Clients |->
               IF x \in 1..concurrency THEN "recv"
               ELSE IF x \in Drainers \cup Delayed THEN "unborn" ELSE "idle"]
    /\ chan = <<>> /\ closed = FALSE /\ receivers = <<>>
    /\ active = 0 /\ barrier_pending = FALSE
    /\ sync_wg = [c \in Clients |-> 0] /\ s_queue_work = 0 /\ freed = FALSE
    /\ task = [d \in Drainers |-> NoTask] /\ call = [c \in Clients |-> "none"]
    /\ submitted = 0 /\ ran = {}

Goto(x, label) == pc' = [pc EXCEPT ![x] = label]

-----------------------------------------------------------------------------
(* Submission.                                                             *)

(* A destroyed queue is not used any more.                                 *)
MayCall(c, op) ==
    /\ pc[c] = "idle" /\ <<c, op>> \in calls /\ ~freed
    /\ \A x \in Clients : pc[x] \notin {"drain", "draining"}

(* s_queue_submit counts the work before it sends.                         *)
Begin(c, op) ==
    /\ submitted + Cardinality({x \in Clients : pc[x] = "send"}) < MaxTasks
    /\ s_queue_work' = s_queue_work + 1
    /\ call' = [call EXCEPT ![c] = op] /\ Goto(c, "send")

(* suspenders_queue_async, suspenders_queue_barrier_async and              *)
(* suspenders_queue_sync, which only a coroutine may call.                 *)
suspenders_queue_submit(c, op) ==
    /\ MayCall(c, op) /\ op \in {"async", "barrier", "sync"} /\ (op = "sync" => c \in Crs)
    /\ Begin(c, op)
    /\ sync_wg' = [sync_wg EXCEPT ![c] = IF op = "sync" THEN 1 ELSE 0]
    /\ UNCHANGED <<chanVars, concurrency, barrierVars, drain_wg, freed, task, submitted, ran,
                   calls>>

suspenders_queue_after(c, a) ==
    /\ MayCall(c, "after") /\ pc[a] = "unborn" /\ Goto(a, "sleep")
    /\ UNCHANGED <<chanVars, concurrency, barrierVars, drain_wg, sync_wg, s_queue_work, freed,
                   task, call, submitted, ran, calls>>

(* The delay is over.                                                      *)
s_queue_after_cr(a) ==
    /\ pc[a] = "sleep" /\ Begin(a, "async")
    /\ UNCHANGED <<chanVars, concurrency, barrierVars, drain_wg, sync_wg, freed, task,
                   submitted, ran, calls>>

(* Where a submitter is after the call, after its task has been accepted,  *)
(* and a drainer that has got a task; S is those whose call is over.       *)
Resting(c) == IF c \in Delayed THEN "gone" ELSE "idle"
AfterSend(c) == IF call[c] = "sync" THEN "wait" ELSE Resting(c)
Returned(S) == call' = [x \in Clients |-> IF x \in S THEN "none" ELSE call[x]]
AfterRecv == IF concurrency > 1 THEN "enter" ELSE "exec"

NewTask(c) ==
    [id |-> submitted + 1, by |-> c, sync |-> call[c] = "sync",
     barrier |-> call[c] = "barrier" /\ concurrency > 1]

(* The send of s_queue_submit: a parked drainer is served first; a thread  *)
(* does not wait for room.                                                 *)
s_queue_submit(c) ==
    /\ pc[c] = "send"
    /\ \/ /\ closed \/ (receivers = <<>> /\ Len(chan) >= Cap /\ c \in Threads)
          /\ Goto(c, "undo") /\ UNCHANGED <<chan, receivers, task, submitted, call>>
       \/ /\ ~closed /\ receivers # <<>>
          /\ pc' = [pc EXCEPT ![c] = AfterSend(c), ![Head(receivers)] = AfterRecv]
          /\ task' = [task EXCEPT ![Head(receivers)] = NewTask(c)]
          /\ receivers' = Tail(receivers) /\ Returned({c})
          /\ submitted' = submitted + 1 /\ UNCHANGED chan
       \/ /\ ~closed /\ receivers = <<>> /\ (Len(chan) < Cap \/ c \notin Threads)
          /\ Goto(c, IF Len(chan) < Cap THEN AfterSend(c) ELSE "parked")
          /\ chan' = Append(chan, NewTask(c)) /\ Returned(IF Len(chan) < Cap THEN {c} ELSE {})
          /\ submitted' = submitted + 1 /\ UNCHANGED <<receivers, task>>
    /\ UNCHANGED <<closed, concurrency, barrierVars, drain_wg, sync_wg, s_queue_work, freed,
                   ran, calls>>

(* A submitter is canceled before it sends or while it is parked.          *)
CancelSend(c) ==
    /\ <<c, "cancel">> \in calls /\ Goto(c, "undo")
    /\ \/ pc[c] = "send" /\ UNCHANGED chan
       \/ /\ pc[c] = "parked"
          /\ \E i \in Cap + 1..Len(chan) :
                /\ chan[i].by = c
                /\ chan' = SubSeq(chan, 1, i - 1) \o SubSeq(chan, i + 1, Len(chan))
    /\ UNCHANGED <<closed, receivers, concurrency, barrierVars, drain_wg, sync_wg,
                   s_queue_work, freed, task, call, submitted, ran, calls>>

(* Mutant: the work of a submission that failed stays counted.             *)
KeepsCount(c) ==
    /\ pc[c] = "undo" /\ Goto(c, Resting(c)) /\ sync_wg' = [sync_wg EXCEPT ![c] = 0]
    /\ Returned({c})
    /\ UNCHANGED <<chanVars, concurrency, barrierVars, drain_wg, s_queue_work, freed, task,
                   submitted, ran, calls>>

(* The send has failed.                                                    *)
UndoSubmit(c) ==
    /\ pc[c] = "undo" /\ Goto(c, Resting(c)) /\ s_queue_work' = s_queue_work - 1
    /\ sync_wg' = [sync_wg EXCEPT ![c] = 0] /\ Returned({c})
    /\ UNCHANGED <<chanVars, concurrency, barrierVars, drain_wg, freed, task, submitted, ran,
                   calls>>

(* suspenders_queue_sync waits for its task: it looks at the waitgroup,    *)
(* and parks on it until the count is 0.                                   *)
SyncReturn(c) ==
    /\ \/ pc[c] = "wait" /\ Goto(c, IF sync_wg[c] = 0 THEN "idle" ELSE "waiting")
       \/ pc[c] = "waiting" /\ sync_wg[c] = 0 /\ Goto(c, "idle")
    /\ UNCHANGED <<chanVars, concurrency, barrierVars, drain_wg, sync_wg, s_queue_work, freed,
                   task, call, submitted, ran, calls>>

(* Mutant: a canceled sync returns although its task is under way.         *)
AbandonsTask(c) ==
    /\ <<c, "cancel">> \in calls
    /\ \/ pc[c] = "waiting" /\ sync_wg[c] # 0 /\ Goto(c, "idle")
       \/ pc[c] = "draining" /\ drain_wg # 0 /\ Goto(c, "drain")
    /\ UNCHANGED <<chanVars, concurrency, barrierVars, drain_wg, sync_wg, s_queue_work, freed,
                   task, call, submitted, ran, calls>>

(* A cancel ends the wait of a sync, or that of a destroy for the          *)
(* drainers; the call waits again.                                         *)
CancelWait(c) ==
    /\ <<c, "cancel">> \in calls
    /\ \/ pc[c] = "waiting" /\ sync_wg[c] # 0 /\ Goto(c, "wait")
       \/ pc[c] = "draining" /\ drain_wg # 0 /\ Goto(c, "drain")
    /\ UNCHANGED <<chanVars, concurrency, barrierVars, drain_wg, sync_wg, s_queue_work, freed,
                   task, call, submitted, ran, calls>>

-----------------------------------------------------------------------------
(* The drainers.                                                           *)

(* The room a receive makes goes to the first parked submitter.            *)
Admitted == IF Len(chan) > Cap THEN {chan[Cap + 1].by} ELSE {}

(* Mutant: the newest task is taken first.                                 *)
TakesNewest(d) ==
    /\ pc[d] = "recv" /\ chan # <<>> /\ chan' = SubSeq(chan, 1, Len(chan) - 1) /\ Goto(d, AfterRecv)
    /\ task' = [task EXCEPT ![d] = chan[Len(chan)]]
    /\ UNCHANGED <<closed, receivers, concurrency, barrierVars, drain_wg, sync_wg,
                   s_queue_work, freed, call, submitted, ran, calls>>

Recv(d) ==
    /\ pc[d] = "recv"
    /\ \/ /\ chan # <<>> /\ chan' = Tail(chan) /\ task' = [task EXCEPT ![d] = Head(chan)]
          /\ pc' = [x \in DOMAIN pc |-> IF x = d THEN AfterRecv
                                        ELSE IF x \in Admitted THEN AfterSend(x) ELSE pc[x]]
          /\ Returned(Admitted) /\ UNCHANGED receivers
       \/ /\ chan = <<>> /\ closed /\ Goto(d, "exit")
          /\ UNCHANGED <<chan, task, receivers, call>>
       \/ /\ chan = <<>> /\ ~closed /\ Goto(d, "parked")
          /\ receivers' = Append(receivers, d) /\ UNCHANGED <<chan, task, call>>
    /\ UNCHANGED <<closed, concurrency, barrierVars, drain_wg, sync_wg, s_queue_work, freed,
                   submitted, ran, calls>>

(* The section before the function: a task waits while a barrier is        *)
(* pending; a barrier then becomes the pending one and waits for the tasks *)
(* that execute.                                                           *)
Enter(d) ==
    /\ pc[d] = "enter"
    /\ \/ barrier_pending /\ Goto(d, "wait_pending") /\ UNCHANGED barrierVars
       \/ /\ ~barrier_pending /\ task[d].barrier /\ barrier_pending' = TRUE
          /\ Goto(d, IF active > 0 THEN "wait_active" ELSE "exec") /\ UNCHANGED active
       \/ /\ ~barrier_pending /\ ~task[d].barrier /\ active' = active + 1
          /\ Goto(d, "exec") /\ UNCHANGED barrier_pending
    /\ UNCHANGED <<chanVars, concurrency, drain_wg, sync_wg, s_queue_work, freed, task, call,
                   submitted, ran, calls>>

(* A pending barrier looks again after cond_wait.                          *)
Alone(d) ==
    /\ pc[d] = "alone" /\ Goto(d, IF active > 0 THEN "wait_active" ELSE "exec")
    /\ UNCHANGED <<chanVars, concurrency, barrierVars, drain_wg, sync_wg, s_queue_work, freed,
                   task, call, submitted, ran, calls>>

(* Mutant: "if" for "while" around the barrier's cond_wait.                *)
WokenToRun(label) == CASE label = "wait_pending" -> "enter"
                       [] label = "wait_active" -> "exec"
                       [] OTHER -> label

(* What suspenders_cond_broadcast(&q->cv) does to a drainer.               *)
Woken(label) == CASE label = "wait_pending" -> "enter"
                  [] label = "wait_active" -> "alone"
                  [] OTHER -> label

(* Mutant: the end of a barrier is not broadcast.                          *)
Broadcasts(t) == active = 1

Broadcasting(t) == concurrency > 1 /\ (t.barrier \/ active = 1)
Counted(t) == IF concurrency > 1 /\ ~t.barrier THEN 1 ELSE 0

(* The function has returned; the section after it.                        *)
Leave(d) ==
    LET t == task[d]
    IN /\ pc[d] = "exec" /\ ran' = ran \cup {t.id}
       /\ pc' = [x \in DOMAIN pc |-> IF x = d THEN IF t.sync THEN "sync_done" ELSE "work_end"
                                     ELSE IF Broadcasting(t) THEN Woken(pc[x]) ELSE pc[x]]
       /\ active' = active - Counted(t)
       /\ barrier_pending' = (barrier_pending /\ ~t.barrier)
       /\ UNCHANGED <<chanVars, concurrency, drain_wg, sync_wg, s_queue_work, freed, task,
                      call, submitted, calls>>

SyncDone(d) ==
    /\ pc[d] = "sync_done" /\ Goto(d, "work_end")
    /\ sync_wg' = [sync_wg EXCEPT ![task[d].by] = @ - 1]
    /\ UNCHANGED <<chanVars, concurrency, barrierVars, drain_wg, s_queue_work, freed, task,
                   call, submitted, ran, calls>>

s_queue_work_end(d) ==
    /\ pc[d] = "work_end" /\ Goto(d, "recv") /\ s_queue_work' = s_queue_work - 1
    /\ task' = [task EXCEPT ![d] = NoTask]
    /\ UNCHANGED <<chanVars, concurrency, barrierVars, drain_wg, sync_wg, freed, call,
                   submitted, ran, calls>>


Exit(d) ==
    /\ pc[d] = "exit" /\ Goto(d, "gone") /\ drain_wg' = drain_wg - 1
    /\ UNCHANGED <<chanVars, concurrency, barrierVars, sync_wg, s_queue_work, freed, task,
                   call, submitted, ran, calls>>

(* A stray cancel of a drainer ends its receive, or its wait on the cond.  *)
StrayCancel(d) ==
    /\ <<d, "cancel">> \in calls
    /\ \/ /\ pc[d] = "parked" /\ Goto(d, "recv")
          /\ receivers' = s_wq_remove(receivers, d)
       \/ /\ pc[d] \in {"wait_pending", "wait_active"} /\ Goto(d, Woken(pc[d]))
          /\ UNCHANGED receivers
    /\ UNCHANGED <<chan, closed, concurrency, barrierVars, drain_wg, sync_wg, s_queue_work,
                   freed, task, call, submitted, ran, calls>>

s_queue_drainer(d) ==
    \/ Recv(d) \/ Enter(d) \/ Alone(d) \/ Leave(d) \/ SyncDone(d) \/ s_queue_work_end(d)
    \/ Exit(d)

-----------------------------------------------------------------------------
(* suspenders_queue_destroy closes the channel: parked submitters fail,    *)
(* parked drainers exit.  A coroutine then waits for the drainers and      *)
(* frees the queue, so nobody may be about to submit; a thread leaves it   *)
(* to suspenders_shutdown.                                                 *)
suspenders_queue_destroy(c) ==
    /\ MayCall(c, "destroy") /\ ~closed /\ closed' = TRUE
    /\ c \in Crs => \A x \in Clients : pc[x] \notin {"send", "sleep"}
    /\ chan' = SubSeq(chan, 1, IF Len(chan) < Cap THEN Len(chan) ELSE Cap)
    /\ receivers' = <<>>
    /\ pc' = [x \in DOMAIN pc |->
                 IF x = c THEN IF c \in Crs THEN "drain" ELSE "idle"
                 ELSE IF pc[x] = "parked" THEN IF x \in Drainers THEN "exit" ELSE "undo"
                 ELSE pc[x]]
    /\ UNCHANGED <<concurrency, barrierVars, drain_wg, sync_wg, s_queue_work, freed, task,
                   call, submitted, ran, calls>>

DestroyReturn(c) ==
    /\ \/ /\ pc[c] \in {"drain", "draining"} /\ drain_wg = 0
          /\ freed' = TRUE /\ Goto(c, "idle")
       \/ pc[c] = "drain" /\ drain_wg # 0 /\ Goto(c, "draining") /\ UNCHANGED freed
    /\ UNCHANGED <<chanVars, concurrency, barrierVars, drain_wg, sync_wg, s_queue_work, task,
                   call, submitted, ran, calls>>

ClientStep(c) == \/ s_queue_submit(c) \/ UndoSubmit(c) \/ SyncReturn(c) \/ DestroyReturn(c)

Next == \/ \E c \in Crs \cup Threads :
              \/ \E op \in Ops : suspenders_queue_submit(c, op)
              \/ \E a \in Delayed : suspenders_queue_after(c, a)
              \/ suspenders_queue_destroy(c)
        \/ \E a \in Delayed : s_queue_after_cr(a)
        \/ \E c \in Clients : ClientStep(c)
        \/ \E c \in Crs : CancelSend(c) \/ CancelWait(c)
        \/ \E d \in Drainers : s_queue_drainer(d) \/ StrayCancel(d)

Spec == Init /\ [][Next]_vars

(* Coroutines that have work get to run, and tasks return.                 *)
FairSpec == Spec /\ (\A c \in Clients : WF_vars(ClientStep(c)))
                 /\ (\A d \in Drainers : WF_vars(s_queue_drainer(d)))

-----------------------------------------------------------------------------
(* Properties.                                                             *)

Holding == {d \in Drainers : task[d] # NoTask}
Executing == {d \in Drainers : pc[d] = "exec"}

(* "barrier_async: fn runs alone": while a barrier executes no other task  *)
(* of the queue does, also if drainers are woken early by stray cancels.   *)
BarrierRunsAlone ==
    \A d \in Executing : task[d].barrier => Executing = {d}

(* s_queue_work, which keeps suspenders_run from returning, is the number  *)
(* of tasks being submitted, waiting and executing, whatever fails, is     *)
(* canceled or closed on the way.                                          *)
WorkIsCounted ==
    s_queue_work = Cardinality({c \in Clients : pc[c] \in {"send", "undo"}})
                    + Len(chan) + Cardinality(Holding)

(* A task refers to the waitgroup on the stack of its sync caller only     *)
(* while the caller is in the call, and a queue is freed only when its     *)
(* drainers are gone and nothing that was accepted is left.                *)
NothingDangles ==
    /\ \A t \in Range(chan) \cup {task[d] : d \in {e \in Holding : pc[e] # "work_end"}} :
          t.sync => sync_wg[t.by] = 1 /\ pc[t.by] \in {"parked", "wait", "waiting"}
    /\ freed => chan = <<>> /\ \A d \in Drainers : pc[d] \in {"unborn", "gone"}

(* "1 = serial: strict submission order": a serial queue starts a task     *)
(* when all earlier ones have run.                                         *)
SerialInOrder ==
    concurrency = 1 =>
        \A d \in Executing : \A t \in Range(chan) \cup {task[e] : e \in Holding} :
            t.id >= task[d].id

(* Every task that was accepted runs, through barriers, a full buffer, and *)
(* the destruction of the queue.                                           *)
Accepted == {t.id : t \in Range(SubSeq(chan, 1, IF Len(chan) < Cap THEN Len(chan) ELSE Cap))
                             \cup {task[d] : d \in Holding}}
AcceptedTasksRun == \A i \in 1..MaxTasks : i \in Accepted ~> i \in ran

=============================================================================
