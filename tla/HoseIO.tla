------------------------------- MODULE HoseIO -------------------------------
(***************************************************************************)
(* Blocking I/O on one worker: what a coroutine's read or write on a hose  *)
(* does until it returns, on a readiness backend (poll) and on a           *)
(* completion backend (io_uring), with per-call deadlines (the _dl         *)
(* variants), the blanket deadline of suspenders_deadline, and cancels.    *)
(*                                                                         *)
(* The sockets, timers, ring and thread-local deadline a coroutine uses    *)
(* are its worker's, and a cancel from elsewhere is carried out by that    *)
(* worker, so one worker is the whole system.  A step is what runs between *)
(* two calls into the scheduler.  Coroutines have one QoS.  The unit of    *)
(* data is what one system call moves.                                     *)
(***************************************************************************)
EXTENDS Integers, FiniteSets, SequencesExt

CONSTANTS Crs, Fds, None,
          Scenarios    \* backend, each coroutine's calls, what the world does

Dirs == {"in", "out"}
Ends == Fds \X Dirs
Backends == {"poll", "iouring"}
\* A call: dl is the deadline of a _dl variant, 0 for none, and timed whether
\* it is a _dl variant; units is what a write has to send (1 for a read).
CallSet == [op : {"io"}, end : Ends, units : {1, 2}, timed : BOOLEAN, dl : Nat]
           \cup [op : {"deadline"}, dl : Nat]

ASSUME HoseAssumption ==
    \A z \in Scenarios :
        /\ z.backend \in Backends
        /\ \A c \in Crs : z.calls[c] \in Seq(CallSet)
        /\ z.arrivals \in [Ends -> Nat]
        /\ {z.cancels, z.foreign, z.wakes, z.ticks, z.breaks} \subseteq Nat

VARIABLES
    backend,
    calls,              \* the calls a coroutine has still to make, the current one first
    pc,                 \* call, try (at s_io_pre), wait (in s_io_wait_ready), op (in s_iou_op)
    state,              \* running, ready, suspended, done
    ready, inbox, pending_wake,
    s_io_deadline_ns,   \* of the worker's thread; 0 is none
    deadline,           \* deadline_timer.deadline_ns while deadline_armed, else 0
    cancel_requested, io_result,
    left,               \* units the current write has still to send
    completed,          \* result of the io_uring operation, or None
    regs,               \* the poll backend's entries
    timers,             \* the worker's timers
    now,
    units,              \* kernel: what each end takes or gives without blocking, -1: broken
    ring, cqes,         \* kernel: operations in flight, completions not yet seen
    budget,             \* what the world still does: arrivals, breaks, cancels, wakes, ticks
    outcome,            \* history: how the last I/O call ended, for each coroutine
    unheard             \* history: those in a call their worker canceled when READY

callVars == <<calls, left, s_io_deadline_ns, outcome, unheard>>
schedVars == <<state, ready, pc>>
wakeVars == <<inbox, pending_wake, cancel_requested, io_result>>
waitVars == <<regs, timers, deadline>>
ringVars == <<ring, cqes, completed>>
worldVars == <<backend, now, units, budget>>
vars == <<callVars, schedVars, wakeVars, waitVars, ringVars, worldVars>>

-----------------------------------------------------------------------------
NoOutcome == [code |-> "none", due |-> 0, at |-> 0]
Current(c) == Head(calls[c])
Suspended(S) == {c \in S : state[c] = "suspended"}
NobodyRuns == \A c \in Crs : state[c] # "running"

\* The earlier of two deadlines; 0 is none.
Earlier(d, e) == IF d = 0 THEN e ELSE IF e # 0 /\ e < d THEN e ELSE d

s_io_effective_deadline(c) == Earlier(s_io_deadline_ns, deadline[c])

Passed(d) == d # 0 /\ now >= d

\* What the caller asked for: the deadline of this call and the blanket one.
OwnDeadline(c) == Earlier(Current(c).dl, deadline[c])

IoTimer(c) == {t \in timers : t.cr = c /\ t.kind = "io"}
DeadlineTimer(c) == {t \in timers : t.cr = c /\ t.kind = "deadline"}

\* Mutant: the deadline outlives the call.
LeavesDeadline(c) == s_io_deadline_ns

\* The thread's deadline after the call: a _dl variant clears it.
DeadlineAfter(c) == IF Current(c).timed THEN 0 ELSE s_io_deadline_ns

\* The current call of c returns.
Return(c, code) ==
    /\ pc' = [pc EXCEPT ![c] = "call"]
    /\ calls' = [calls EXCEPT ![c] = Tail(@)]
    /\ left' = [left EXCEPT ![c] = 0]
    /\ s_io_deadline_ns' = DeadlineAfter(c)
    /\ outcome' = [outcome EXCEPT ![c] = [code |-> code, due |-> OwnDeadline(c), at |-> now]]
    /\ unheard' = unheard \ {c}

\* A unit has been moved.  s_stream_write goes on until all are.
Moved(c) ==
    \/ /\ left[c] > 1
       /\ left' = [left EXCEPT ![c] = @ - 1] /\ pc' = [pc EXCEPT ![c] = "try"]
       /\ UNCHANGED <<calls, s_io_deadline_ns, outcome, unheard>>
    \/ left[c] <= 1 /\ Return(c, "ok")

Suspend(c, where) ==
    /\ pc' = [pc EXCEPT ![c] = where]
    /\ state' = [state EXCEPT ![c] = "suspended"]

\* suspenders_ready_enqueue on every member of S, in some order.
Enqueue(S) ==
    /\ state' = [c \in Crs |-> IF c \in S THEN "ready" ELSE state[c]]
    /\ \E order \in SetToSeqs(S) : ready' = ready \o order

\* io_uring_prep_cancel on the pending operations of S: those still in flight
\* end with -ECANCELED, for the others there is nothing to cancel.
s_iou_cancel(S) ==
    /\ ring' = {o \in ring : o.cr \notin S}
    /\ cqes' = cqes \cup {[cr |-> o.cr, res |-> "ecanceled"] : o \in {p \in ring : p.cr \in S}}

-----------------------------------------------------------------------------
(* The coroutine's side. *)

\* Entering an I/O call of the hose API, by its plain or its _dl name.
HoseCall(c) ==
    /\ state[c] = "running" /\ pc[c] = "call" /\ calls[c] # <<>> /\ Current(c).op = "io"
    /\ pc' = [pc EXCEPT ![c] = "try"]
    /\ left' = [left EXCEPT ![c] = Current(c).units]
    /\ s_io_deadline_ns' = IF Current(c).timed THEN Current(c).dl ELSE s_io_deadline_ns
    /\ outcome' = [outcome EXCEPT ![c] = NoOutcome]
    /\ UNCHANGED <<calls, unheard, state, ready, wakeVars, waitVars, ringVars, worldVars>>

suspenders_deadline(c) ==
    /\ state[c] = "running" /\ pc[c] = "call" /\ calls[c] # <<>> /\ Current(c).op = "deadline"
    /\ deadline' = [deadline EXCEPT ![c] = Current(c).dl]
    /\ timers' = (timers \ DeadlineTimer(c)) \cup
                 {[at |-> d, cr |-> c, kind |-> "deadline"] : d \in {Current(c).dl} \ {0}}
    /\ calls' = [calls EXCEPT ![c] = Tail(@)]
    /\ UNCHANGED <<left, s_io_deadline_ns, outcome, unheard, schedVars, wakeVars, regs,
                   ringVars, worldVars>>

suspenders_cr_exit(c) ==
    /\ state[c] = "running" /\ pc[c] = "call" /\ calls[c] = <<>>
    /\ state' = [state EXCEPT ![c] = "done"]
    /\ deadline' = [deadline EXCEPT ![c] = 0]
    /\ timers' = timers \ DeadlineTimer(c)
    /\ UNCHANGED <<callVars, ready, pc, wakeVars, regs, ringVars, worldVars>>

\* s_io_pre lets the call through.
PreOk(c) == ~cancel_requested[c] /\ ~Passed(s_io_effective_deadline(c))

s_io_pre(c) ==
    /\ state[c] = "running" /\ pc[c] = "try" /\ ~PreOk(c)
    /\ Return(c, IF cancel_requested[c] THEN "canceled" ELSE "timedout")
    /\ cancel_requested' = [cancel_requested EXCEPT ![c] = FALSE]
    /\ UNCHANGED <<state, ready, inbox, pending_wake, io_result, waitVars, ringVars, worldVars>>

\* s_io_wait_ready up to its suspend, with rs and ts the entries and timers
\* left by the wait before it.
Park(c, rs, ts) ==
    /\ Suspend(c, "wait")
    /\ io_result' = [io_result EXCEPT ![c] = 0]
    /\ regs' = rs \cup {[end |-> Current(c).end, cr |-> c]}
    /\ timers' = ts \cup {[at |-> d, cr |-> c, kind |-> "io"] :
                            d \in {s_io_effective_deadline(c)} \ {0}}

\* A round of the readiness loops: the system call fails, moves a unit, or
\* would block and the coroutine parks.
SystemCall(c, rs, ts) ==
    \/ /\ units[Current(c).end] = -1
       /\ Return(c, "error")
       /\ regs' = rs /\ timers' = ts
       /\ UNCHANGED <<state, io_result, units>>
    \/ /\ units[Current(c).end] > 0
       /\ units' = [units EXCEPT ![Current(c).end] = @ - 1]
       /\ Moved(c)
       /\ regs' = rs /\ timers' = ts
       /\ UNCHANGED <<state, io_result>>
    \/ /\ units[Current(c).end] = 0
       /\ Park(c, rs, ts)
       /\ UNCHANGED <<units, callVars>>

TryNonblocking(c) ==
    /\ state[c] = "running" /\ pc[c] = "try" /\ PreOk(c) /\ backend = "poll"
    /\ SystemCall(c, regs, timers)
    /\ UNCHANGED <<ready, inbox, pending_wake, cancel_requested, deadline, ringVars,
                   backend, now, budget>>

\* Mutant: a wait that is over leaves its timer armed.
NotDisarmed(c) == timers

\* What s_io_wait_ready leaves of the timers and of the poll set: the entries
\* of its socket go, whosever they are.
Disarmed(c) == timers \ IoTimer(c)
s_poll_unregister(c) == {r \in regs : r.end[1] # Current(c).end[1]}

\* Back from its suspend.
s_io_wait_ready(c) ==
    /\ state[c] = "running" /\ pc[c] = "wait"
    /\ LET rs == s_poll_unregister(c)
           ts == Disarmed(c)
       IN \/ /\ io_result[c] # 0
             /\ Return(c, IF io_result[c] = -1 THEN "canceled" ELSE "timedout")
             /\ cancel_requested' = [cancel_requested EXCEPT ![c] = @ /\ io_result[c] # -1]
             /\ regs' = rs /\ timers' = ts
             /\ UNCHANGED <<state, io_result, units>>
          \/ io_result[c] = 0 /\ SystemCall(c, rs, ts) /\ UNCHANGED cancel_requested
    /\ UNCHANGED <<ready, inbox, pending_wake, deadline, ringVars, backend, now, budget>>

\* s_iou_op up to its suspend: the operation and its linked timeout.
s_iou_op(c) ==
    /\ state[c] = "running" /\ pc[c] = "try" /\ PreOk(c) /\ backend = "iouring"
    /\ ring' = ring \cup {[cr |-> c, end |-> Current(c).end, at |-> s_io_effective_deadline(c)]}
    /\ completed' = [completed EXCEPT ![c] = None]
    /\ Suspend(c, "op")
    /\ UNCHANGED <<callVars, ready, wakeVars, waitVars, cqes, worldVars>>

\* Back from its suspend, which it repeats until the operation has completed.
s_iou_op_resumed(c) ==
    /\ state[c] = "running" /\ pc[c] = "op"
    /\ \/ /\ completed[c] = None /\ Suspend(c, "op")
          /\ UNCHANGED <<callVars, cancel_requested>>
       \/ completed[c] = "error" /\ Return(c, "error") /\ UNCHANGED <<state, cancel_requested>>
       \/ completed[c] = "moved" /\ Moved(c) /\ UNCHANGED <<state, cancel_requested>>
       \/ /\ completed[c] = "ecanceled"
          /\ Return(c, IF cancel_requested[c] THEN "canceled" ELSE "timedout")
          /\ cancel_requested' = [cancel_requested EXCEPT ![c] = FALSE]
          /\ UNCHANGED state
    /\ UNCHANGED <<ready, inbox, pending_wake, io_result, waitVars, ringVars, worldVars>>

-----------------------------------------------------------------------------
(* The worker's loop. *)

\* A coroutine that has just switched out with pending_wake set.
Redelivers(c) == pending_wake[c] /\ state[c] = "suspended"
AtLoop == NobodyRuns /\ \A c \in Crs : ~Redelivers(c)

Dispatch ==
    /\ AtLoop /\ ready # <<>>
    /\ state' = [state EXCEPT ![Head(ready)] = "running"]
    /\ ready' = Tail(ready)
    /\ UNCHANGED <<callVars, pc, wakeVars, waitVars, ringVars, worldVars>>

\* Mutant: the operation is not told of the cancel.
NeverToRing(c) == FALSE

\* A cancel of a pending operation goes to the ring, not to the coroutine.
ToRing(c) == cancel_requested[c] /\ pc[c] = "op"

\* Wakes with or without a cancel, delivered on the worker that owns S.
s_inbox_deliver(S) ==
    LET rings == {c \in S : ToRing(c)}
        wakes == Suspended(S) \ rings
    IN /\ s_iou_cancel(rings)
       /\ Enqueue(wakes)
       /\ io_result' = [c \in Crs |->
              IF c \in wakes /\ cancel_requested[c] THEN -1 ELSE io_result[c]]
       /\ pending_wake' = [c \in Crs |->
              IF c \in S THEN /\ state[c] # "suspended"
                              /\ pending_wake[c] \/ (c \notin rings /\ state[c] # "done")
              ELSE pending_wake[c]]
       /\ UNCHANGED <<callVars, pc, cancel_requested, waitVars, completed, worldVars>>

s_inbox_drain == AtLoop /\ inbox # {} /\ inbox' = {} /\ s_inbox_deliver(inbox)

Redeliver(c) == NobodyRuns /\ Redelivers(c) /\ s_inbox_deliver({c}) /\ UNCHANGED inbox

\* The entries of the poll set that poll reports; they are one-shot.
PollHits == {r \in regs : units[r.end] # 0}

\* The results that flushing the completion queue stores.
Flushed == [c \in Crs |-> IF \E q \in cqes : q.cr = c
                         THEN (CHOOSE q \in cqes : q.cr = c).res ELSE completed[c]]

\* s_io_timeout_cb and s_deadline_cb on a readiness wait that nothing else has
\* ended: io_result is -2 and the coroutine is resumed.
TimesOut(due, back) == {c \in Suspended({t.cr : t \in due}) : pc[c] = "wait"} \ back

\* s_deadline_cb while an operation is pending.
DeadlineCancels(due) == {t.cr : t \in {u \in due : u.kind = "deadline" /\ pc[u.cr] = "op"}}

\* Nothing is ready: one turn of the backend's wait, then
\* suspenders_timer_fire_expired.  A coroutine the backend has made ready is
\* no longer suspended when its timer fires.
Idle ==
    LET due  == {t \in timers : t.at <= now}
        back == Suspended({x.cr : x \in PollHits \cup cqes})
        late == TimesOut(due, back)
        gone == {o \in ring : o.cr \in DeadlineCancels(due)}
    IN /\ AtLoop /\ ready = <<>> /\ inbox = {}
       /\ PollHits \cup due \cup cqes # {}
       /\ regs' = regs \ PollHits
       /\ timers' = timers \ due
       /\ completed' = Flushed
       /\ io_result' = [c \in Crs |-> IF c \in late THEN -2 ELSE io_result[c]]
       /\ Enqueue(back \cup late)
       /\ ring' = ring \ gone
       /\ cqes' = {[cr |-> o.cr, res |-> "ecanceled"] : o \in gone}
       /\ UNCHANGED <<callVars, pc, inbox, pending_wake, cancel_requested, deadline, worldVars>>

-----------------------------------------------------------------------------
(* The world: other coroutines and workers, the kernel, the clock. *)

InCall(c) == pc[c] \in {"wait", "op"}

\* From a coroutine of the same worker.  A target that is READY gets the flag
\* and nothing else.
suspenders_cancel(c) ==
    /\ budget.cancels > 0 /\ state[c] # "done"
    /\ \E d \in Crs \ {c} : state[d] = "running" /\ pc[d] = "call"
    /\ budget' = [budget EXCEPT !.cancels = @ - 1]
    /\ cancel_requested' = [cancel_requested EXCEPT ![c] = TRUE]
    /\ LET parked == state[c] = "suspended"
           reads  == parked /\ pc[c] = "wait"
       IN /\ s_iou_cancel(IF parked /\ pc[c] = "op" THEN {c} ELSE {})
          /\ Enqueue(IF reads THEN {c} ELSE {})
          /\ io_result' = [io_result EXCEPT ![c] = IF reads THEN -1 ELSE @]
          /\ unheard' = IF InCall(c) /\ ~parked THEN unheard \cup {c} ELSE unheard \ {c}
    /\ UNCHANGED <<calls, left, s_io_deadline_ns, outcome, pc, inbox, pending_wake, waitVars,
                   completed, backend, now, units>>

\* From another worker or thread: suspenders_cancel and suspenders_resume
\* leave the rest to the owner's inbox.
ForeignCancel(c) ==
    /\ budget.foreign > 0 /\ state[c] # "done"
    /\ budget' = [budget EXCEPT !.foreign = @ - 1]
    /\ cancel_requested' = [cancel_requested EXCEPT ![c] = TRUE]
    /\ inbox' = inbox \cup {c} /\ unheard' = unheard \ {c}
    /\ UNCHANGED <<calls, left, s_io_deadline_ns, outcome, schedVars, pending_wake, io_result,
                   waitVars, ringVars, backend, now, units>>

ForeignResume(c) ==
    /\ budget.wakes > 0 /\ state[c] # "done"
    /\ budget' = [budget EXCEPT !.wakes = @ - 1]
    /\ inbox' = inbox \cup {c}
    /\ UNCHANGED <<callVars, schedVars, pending_wake, cancel_requested, io_result, waitVars,
                   ringVars, backend, now, units>>

\* A peer sends data or drains it, connects, or accepts.
Arrive(e) ==
    /\ budget.arrivals[e] > 0 /\ units[e] >= 0
    /\ budget' = [budget EXCEPT !.arrivals[e] = @ - 1]
    /\ units' = [units EXCEPT ![e] = @ + 1]
    /\ UNCHANGED <<callVars, schedVars, wakeVars, waitVars, ringVars, backend, now>>

\* The connection breaks: system calls on both ends fail.
Break(x) ==
    /\ budget.breaks > 0 /\ \A d \in Dirs : units[<<x, d>>] >= 0
    /\ budget' = [budget EXCEPT !.breaks = @ - 1]
    /\ units' = [e \in Ends |-> IF e[1] = x THEN -1 ELSE units[e]]
    /\ UNCHANGED <<callVars, schedVars, wakeVars, waitVars, ringVars, backend, now>>

\* io_uring carries out an operation, or its linked timeout ends it.
KernelOp(c) ==
    /\ \E o \in ring :
        /\ o.cr = c
        /\ ring' = ring \ {o}
        /\ \/ /\ units[o.end] > 0
              /\ units' = [units EXCEPT ![o.end] = @ - 1]
              /\ cqes' = cqes \cup {[cr |-> c, res |-> "moved"]}
           \/ /\ units[o.end] = -1
              /\ cqes' = cqes \cup {[cr |-> c, res |-> "error"]}
              /\ UNCHANGED units
           \/ /\ Passed(o.at)
              /\ cqes' = cqes \cup {[cr |-> c, res |-> "ecanceled"]}
              /\ UNCHANGED units
    /\ UNCHANGED <<callVars, schedVars, wakeVars, waitVars, completed, backend, now, budget>>

Tick ==
    /\ budget.ticks > 0
    /\ budget' = [budget EXCEPT !.ticks = @ - 1]
    /\ now' = now + 1
    /\ UNCHANGED <<callVars, schedVars, wakeVars, waitVars, ringVars, backend, units>>

Init ==
    \E z \in Scenarios :
        /\ backend = z.backend /\ calls = z.calls
        /\ budget = [arrivals |-> z.arrivals, cancels |-> z.cancels,
                     foreign |-> z.foreign, wakes |-> z.wakes, ticks |-> z.ticks,
                     breaks |-> z.breaks]
        /\ pc = [c \in Crs |-> "call"] /\ state = [c \in Crs |-> "ready"]
        /\ ready \in SetToSeqs(Crs)
        /\ inbox = {} /\ pending_wake = [c \in Crs |-> FALSE]
        /\ s_io_deadline_ns = 0 /\ deadline = [c \in Crs |-> 0]
        /\ cancel_requested = [c \in Crs |-> FALSE] /\ io_result = [c \in Crs |-> 0]
        /\ left = [c \in Crs |-> 0] /\ completed = [c \in Crs |-> None]
        /\ regs = {} /\ timers = {} /\ now = 1
        /\ units = [e \in Ends |-> 0] /\ ring = {} /\ cqes = {}
        /\ outcome = [c \in Crs |-> NoOutcome] /\ unheard = {}

CrStep(c) ==
    \/ HoseCall(c) \/ suspenders_deadline(c) \/ suspenders_cr_exit(c)
    \/ s_io_pre(c) \/ TryNonblocking(c) \/ s_io_wait_ready(c)
    \/ s_iou_op(c) \/ s_iou_op_resumed(c)

Worker ==
    \/ s_inbox_drain \/ Dispatch \/ Idle
    \/ \E c \in Crs : CrStep(c) \/ Redeliver(c)

World ==
    \/ \E c \in Crs : suspenders_cancel(c) \/ ForeignCancel(c) \/ ForeignResume(c)
    \/ \E e \in Ends : Arrive(e)
    \/ \E x \in Fds : Break(x)

Next == Worker \/ World \/ Tick \/ \E c \in Crs : KernelOp(c)

Spec == Init /\ [][Next]_vars

\* The worker's thread runs and the kernel carries out what it can.  Nothing
\* makes peers send or coroutines cancel, and the clock may stop.
FairSpec == Spec /\ WF_vars(Worker) /\ \A c \in Crs : WF_vars(KernelOp(c))

-----------------------------------------------------------------------------
(***************************************************************************)
(* The wait's timer, the entry in the poll set, the io_uring operation and *)
(* its completion all point into the frame of the call that made them.     *)
(* Whichever way the call ended (data, cancel, the call's deadline, the    *)
(* coroutine's, or several at once) nothing of it is left when control is  *)
(* back in the caller, whose stack reuses the frame.                       *)
(***************************************************************************)
NothingLeftBehind ==
    \A c \in Crs : pc[c] \in {"call", "try"} =>
        /\ IoTimer(c) = {}
        /\ \A x \in regs \cup ring \cup cqes : x.cr # c
        /\ state[c] = "done" => DeadlineTimer(c) = {}

(***************************************************************************)
(* A call reports TIMEDOUT only when a deadline its caller gave it, by the *)
(* _dl variant or by suspenders_deadline, has passed: suspenders.h:767     *)
(* "_dl variants take an absolute deadline ... and fail with               *)
(* SUSPENDERS_TIMEDOUT when it passes".  s_io_deadline_ns is per thread,   *)
(* not per call.                                                           *)
(***************************************************************************)
OutcomeIsTrue ==
    \A c \in Crs : outcome[c].code = "timedout" =>
        outcome[c].due # 0 /\ outcome[c].due <= outcome[c].at

\* No other coroutine is or will be at the socket of c's call.
Alone(c) == \A d \in Crs \ {c} : \A i \in DOMAIN calls[d] :
                calls[d][i].op = "io" => calls[d][i].end[1] # Current(c).end[1]

\* Something has happened that ends c's call.
Settled(c) ==
    \/ cancel_requested[c] /\ c \notin unheard
    \/ Passed(OwnDeadline(c))
    \/ Alone(c) /\ units[Current(c).end] # 0

(***************************************************************************)
(* A blocked call ends once it is cancelled, its own deadline has passed,  *)
(* or its socket is ready and nobody else is at it: no deadline is         *)
(* forgotten when a wait starts over after a wake that was not meant for   *)
(* it, no readiness is lost with the entry that reported it, and no cancel *)
(* that found the coroutine suspended, or came from another worker, is     *)
(* dropped.  A cancel by its own worker that finds it READY is: only the   *)
(* flag is set, and neither s_io_wait_ready nor the loop of s_iou_op looks *)
(* at the flag before it suspends again.                                   *)
(***************************************************************************)
IoCallsEnd ==
    \A c \in Crs :
        (InCall(c) /\ Settled(c)) ~> ~InCall(c)
=============================================================================
