------------------------- MODULE WaitProtocolTypes -------------------------
(***************************************************************************)
(* Type correctness of WaitProtocol, for every set of coroutines, workers  *)
(* and threads and every budget.  TypeOK is inductive together with PcInv: *)
(* that a wake or a delivery has a target is a fact about the position of  *)
(* its context.                                                            *)
(***************************************************************************)
EXTENDS WaitProtocol, SeqLemmas

(* Every place of the code.                                                *)
Labels == CrPcs \cup LoopPcs \cup CallPcs

(* Where each kind of context can be, and which of its locals have meaning *)
(* there: the call it is in and the coroutine that call is about.          *)
NoTarget == CrPcs \cup {"top", "drain", "pick", "idle", "chain", "preempt"}
Outside == {"cancel", "drain", "redeliver", "timeout"}   \* s_waiter_wake
Deciding == Outside \cup {"signal", "broadcast"}
PcAt(x) ==
    /\ x \in Crs => pc[x] \in CrPcs \cup CallPcs
    /\ x \in Threads => pc[x] \in {"run"} \cup CallPcs
    /\ x \in Workers => /\ pc[x] \in LoopPcs \cup CallPcs
                        /\ kind[x] \in {"none", "drain", "redeliver", "timeout"}
    /\ x \notin Workers => kind[x] \notin {"drain", "redeliver", "timeout"}
    /\ cur[x] = NoCr <=> pc[x] \in NoTarget
    /\ pc[x] \in {"flip", "wake"} => kind[x] \in Deciding
    /\ pc[x] = "push" => kind[x] \in Deciding \cup {"resume"}
    /\ pc[x] = "end" => kind[x] \in Deciding \ {"broadcast"}
    /\ pc[x] \in {"next", "chain"} => kind[x] = "broadcast"
    /\ pc[x] = "chain" => granted[x] # <<>>
    /\ pc[x] \in {"check", "lock", "not_won"} => kind[x] \in Outside
    /\ pc[x] = "load_pin" => kind[x] = "cancel"
    /\ pc[x] \in {"resume", "resume_local"} => kind[x] = "resume"
    /\ pc[x] = "deliver" => kind[x] \in {"drain", "redeliver"}
    /\ pc[x] \notin (CallPcs \ {"preempt"}) \cup {"deliver"} => kind[x] = "none"
PcInv == \A x \in Ctx : PcAt(x)

(* A call in progress is about some coroutine.                             *)
LEMMA HasTarget ==
    ASSUME TypeOK, PcInv, NEW x \in Ctx, pc[x] \notin NoTarget
    PROVE  cur[x] \in Crs
  BY DEF TypeOK, PcInv, PcAt

(* Spending keeps the budget a natural number.                             *)
LEMMA SpendType ==
    ASSUME TypeOK, NEW op \in Ops, Spend(op)
    PROVE  left' \in [Ops -> Nat]
<1>1. left \in [Ops -> Nat]
  BY DEF TypeOK
<1>2. left[op] > 0 /\ left' = [left EXCEPT ![op] = @ - 1]
  BY DEF Spend
<1>3. left[op] - 1 \in Nat
  BY <1>1, <1>2
<1> QED BY <1>1, <1>2, <1>3

(* suspenders_ready_enqueue keeps states and ready lists well typed.       *)
LEMMA EnqueueType ==
    ASSUME TypeOK, NEW w, NEW c \in Crs, suspenders_ready_enqueue(w, c)
    PROVE  state' \in [Crs -> States] /\ ready' \in [Workers -> [Levels -> Seq(Crs)]]
<1>1. /\ state \in [Crs -> States] /\ ready \in [Workers -> [Levels -> Seq(Crs)]]
      /\ Qos[c] \in Levels
  BY QosAssumption DEF TypeOK
<1>2. /\ state' = [state EXCEPT ![c] = "READY"]
      /\ ready' = [ready EXCEPT ![w] = [ready[w] EXCEPT ![Qos[c]] = Append(@, c)]]
  BY DEF suspenders_ready_enqueue
<1>3. state' \in [Crs -> States]
  BY <1>1, <1>2 DEF States
<1>4. ASSUME w \in Workers PROVE ready' \in [Workers -> [Levels -> Seq(Crs)]]
  <2>1. ready[w] \in [Levels -> Seq(Crs)] /\ ready[w][Qos[c]] \in Seq(Crs)
    BY <1>1, <1>4
  <2>2. Append(ready[w][Qos[c]], c) \in Seq(Crs)
    BY <2>1, AppendFacts
  <2>3. [ready[w] EXCEPT ![Qos[c]] = Append(@, c)] \in [Levels -> Seq(Crs)]
    BY <1>1, <2>1, <2>2
  <2> QED BY Zenon, <1>1, <1>2, <2>3
<1>5. ASSUME w \notin Workers PROVE ready' \in [Workers -> [Levels -> Seq(Crs)]]
  BY Zenon, <1>1, <1>2, <1>5
<1> QED BY <1>3, <1>4, <1>5

(* Going on with a call, or leaving it, keeps the frame well typed.        *)
LEMMA ProceedType ==
    ASSUME TypeOK, NEW x \in Ctx, NEW label \in Labels, Proceed(x, label)
    PROVE  pc' \in [Ctx -> Labels] /\ kind' \in [Ctx -> Kinds] /\ cur' \in [Ctx -> Crs \cup {NoCr}]
  BY DEF TypeOK, Proceed, Goto, Labels, Kinds

(* Opening a decider window keeps nodes and frame well typed.              *)
LEMMA OpenWindowType ==
    ASSUME TypeOK, NEW x \in Ctx, NEW k \in Kinds, NEW n \in Crs, OpenWindow(x, k, n)
    PROVE  /\ waker_busy' \in [Crs -> BOOLEAN] /\ kind' \in [Ctx -> Kinds]
           /\ cur' \in [Ctx -> Crs \cup {NoCr}] /\ pc' \in [Ctx -> Labels]
  BY DEF TypeOK, OpenWindow, Goto, Labels, CallPcs

(* The places a wake returns to are places of the code.                    *)
LEMMA LabelTypes ==
    ASSUME TypeOK, NEW x \in Ctx
    PROVE  Return(x) \in Labels /\ AfterWake(x) \in Labels
  BY DEF Return, AfterWake, Labels, CrPcs, LoopPcs, CallPcs

(* Yield, suspend, exit and the waiting side keep the types.               *)
LEMMA CrStepType ==
    ASSUME TypeOK, NEW w \in Workers, NEW x \in Crs, CrStep(w, x)
    PROVE  TypeOK'
<1> USE DEF nodeVars, schedVars, inboxVars, flagVars, frameVars, histVars, callVars
<1>0. x \in Ctx
  BY DEF Ctx
<1>1. CASE suspenders_yield(w, x)
  <2>1. /\ left' \in [Ops -> Nat] /\ state' \in [Crs -> States]
        /\ ready' \in [Workers -> [Levels -> Seq(Crs)]]
    BY Zenon, <1>1, SpendType, EnqueueType DEF suspenders_yield, Ops
  <2> QED BY Zenon, <1>1, <2>1 DEF suspenders_yield, SwitchToLoop, TypeOK
<1>2. CASE suspenders_suspend(w, x)
  <2>1. left' \in [Ops -> Nat]
    BY <1>2, SpendType DEF suspenders_suspend, Ops
  <2>2. state' \in [Crs -> States] /\ pc' \in [Ctx -> Labels]
    BY Zenon, <1>0, <1>2 DEF suspenders_suspend, Goto, TypeOK, States, Labels, CrPcs
  <2> QED BY <1>2, <2>1, <2>2 DEF suspenders_suspend, SwitchToLoop, TypeOK, Labels
<1>3. CASE SuspendReturns(w, x)
  BY Zenon, <1>0, <1>3 DEF SuspendReturns, Answered, Goto, TypeOK, CrPcs
<1>4. CASE suspenders_cr_exit(w, x)
  <2>1. state' \in [Crs -> States] /\ pc' \in [Ctx -> Labels]
    BY <1>0, <1>4 DEF suspenders_cr_exit, Goto, TypeOK, States, Labels, CrPcs
  <2>2. zombies' \in [Workers -> SUBSET Crs]
    <3>1. zombies \in [Workers -> SUBSET Crs]
      BY Zenon DEF TypeOK
    <3>2. zombies' = [zombies EXCEPT ![w] = @ \cup {x}]
      BY Zenon, <1>4 DEF suspenders_cr_exit
    <3> QED BY <3>1, <3>2
  <2>3. armed' \in [Crs -> BOOLEAN] /\ running' \in [Workers -> Crs \cup {NoCr}]
    BY Zenon, <1>4 DEF suspenders_cr_exit, SwitchToLoop, TypeOK
  <2> QED BY Zenon, <1>4, <2>1, <2>2, <2>3 DEF suspenders_cr_exit, TypeOK, Labels
<1>5. CASE s_pre_block(w, x)
  <2>1. left' \in [Ops -> Nat]
    BY <1>5, SpendType DEF s_pre_block, Ops
  <2>2. credit' \in [Crs -> Int]
    BY <1>5 DEF s_pre_block, TypeOK
  <2>3. pc' \in [Ctx -> Labels]
    BY Zenon, <1>0, <1>5 DEF s_pre_block, Goto, TypeOK, Labels, CrPcs
  <2> QED BY Zenon, <1>5, <2>1, <2>2, <2>3 DEF s_pre_block, Answered, TypeOK, Labels
<1>6. CASE s_wait_park(w, x)
  <2>1. left' \in [Ops -> Nat] /\ armed' \in [Crs -> BOOLEAN]
    BY Zenon, <1>6, SpendType DEF s_wait_park, Ops, TypeOK
  <2>2. waiters' \in Seq(Crs) /\ pc' \in [Ctx -> Labels]
    BY Zenon, <1>0, <1>6, AppendFacts DEF s_wait_park, Goto, TypeOK, Labels, CrPcs
  <2> QED BY Zenon, <1>6, <2>1, <2>2 DEF s_wait_park, TypeOK, Labels
<1>7. CASE s_wait_block(w, x)
  <2>1. /\ state' \in [Crs -> States] /\ pc' \in [Ctx -> Labels]
        /\ running' \in [Workers -> Crs \cup {NoCr}]
    BY Zenon, <1>0, <1>7 DEF s_wait_block, Goto, SwitchToLoop, TypeOK, States, Labels, CrPcs
  <2> QED BY <1>7, <2>1 DEF s_wait_block, TypeOK, Labels
<1>8. CASE s_wait_decider_sync(w, x)
  <2>1. state' \in [Crs -> States] /\ ready' \in [Workers -> [Levels -> Seq(Crs)]]
    BY <1>8, EnqueueType DEF s_wait_decider_sync
  <2> QED BY Zenon, <1>8, <2>1 DEF s_wait_decider_sync, SwitchToLoop, TypeOK
<1>9. CASE WaitReturns(w, x)
  <2>1. credit' \in [Crs -> Int]
    BY <1>9 DEF WaitReturns, TypeOK
  <2>2. cancel_requested' \in [Crs -> BOOLEAN] /\ pc' \in [Ctx -> Labels]
    BY Zenon, <1>0, <1>9 DEF WaitReturns, Goto, TypeOK, Labels, CrPcs
  <2> QED BY Zenon, <1>9, <2>1, <2>2 DEF WaitReturns, Answered, TypeOK, Labels
<1>10. CASE Preempt(w, x)
  <2>1. state' \in [Crs -> States] /\ ready' \in [Workers -> [Levels -> Seq(Crs)]]
    BY <1>10, EnqueueType DEF Preempt
  <2>2. pc' \in [Ctx -> Labels]
    BY <1>0, <1>10 DEF Preempt, Goto, TypeOK, Labels, CrPcs
  <2> QED BY Zenon, <1>10, <2>1, <2>2 DEF Preempt, SwitchToLoop, TypeOK, Labels
<1> QED BY Zenon, <1>1, <1>2, <1>3, <1>4, <1>5, <1>6, <1>7, <1>8, <1>9, <1>10 DEF CrStep

(* Grants, spawn, resume and cancel keep the types when called.            *)
LEMMA ApiCallType ==
    ASSUME TypeOK, NEW w \in Workers \cup {NoWorker}, NEW x \in Crs \cup Threads,
           ApiCall(w, x)
    PROVE  TypeOK'
<1> USE DEF nodeVars, schedVars, inboxVars, flagVars, frameVars, histVars, callVars,
            chainVars
<1>0. x \in Ctx
  BY DEF Ctx
<1>1. CASE suspenders_cond_signal(w, x)
  <2>1. left' \in [Ops -> Nat]
    BY <1>1, SpendType DEF suspenders_cond_signal, Ops
  <2>2. Head(waiters) \in Crs /\ waiters' \in Seq(Crs)
    BY <1>1, PopFacts DEF suspenders_cond_signal, TypeOK
  <2>3. /\ waker_busy' \in [Crs -> BOOLEAN] /\ kind' \in [Ctx -> Kinds]
        /\ cur' \in [Ctx -> Crs \cup {NoCr}] /\ pc' \in [Ctx -> Labels]
    BY <1>0, <1>1, <2>2, OpenWindowType DEF suspenders_cond_signal, Kinds
  <2> QED BY Zenon, <1>0, <1>1, <2>1, <2>2, <2>3 DEF suspenders_cond_signal, TypeOK, Labels
<1>2. CASE suspenders_cond_broadcast(w, x)
  <2>1. left' \in [Ops -> Nat]
    BY <1>2, SpendType DEF suspenders_cond_broadcast, Ops
  <2>2. Head(waiters) \in Crs /\ Tail(waiters) \in Seq(Crs) /\ waiters' \in Seq(Crs)
    BY <1>2, PopFacts, EmptyFacts DEF suspenders_cond_broadcast, TypeOK
  <2>3. /\ waker_busy' \in [Crs -> BOOLEAN] /\ kind' \in [Ctx -> Kinds]
        /\ cur' \in [Ctx -> Crs \cup {NoCr}] /\ pc' \in [Ctx -> Labels]
    BY <1>0, <1>2, <2>2, OpenWindowType DEF suspenders_cond_broadcast, Kinds
  <2>4. todo' \in [Ctx -> Seq(Crs)]
    BY Zenon, <1>2, <2>2 DEF suspenders_cond_broadcast, TypeOK
  <2> QED BY Zenon, <1>0, <1>2, <2>1, <2>2, <2>3, <2>4
          DEF suspenders_cond_broadcast, TypeOK, Labels
<1>3. ASSUME NEW d \in Crs, s_spawn_impl(w, x, d) PROVE TypeOK'
  <2>1. left' \in [Ops -> Nat]
    BY Zenon, <1>3, SpendType DEF s_spawn_impl, Ops
  <2>2. CASE SeveralWorkers \/ w = NoWorker
    <3>1. injector[Qos[d]] \in Seq(Crs)
      BY Zenon, QosAssumption DEF TypeOK
    <3>2. Append(injector[Qos[d]], d) \in Seq(Crs)
      BY <3>1, AppendFacts
    <3>3. injector' \in [Levels -> Seq(Crs)] /\ state' \in [Crs -> States]
      BY ZenonT(40), <1>3, <2>2, <3>2 DEF s_spawn_impl, TypeOK, States
    <3> QED BY <1>3, <2>1, <2>2, <3>3 DEF s_spawn_impl, TypeOK
  <2>3. CASE ~(SeveralWorkers \/ w = NoWorker)
    <3>1. state' \in [Crs -> States] /\ ready' \in [Workers -> [Levels -> Seq(Crs)]]
      BY <1>3, <2>3, EnqueueType DEF s_spawn_impl
    <3> QED BY Zenon, <1>3, <2>1, <2>3, <3>1 DEF s_spawn_impl, TypeOK
  <2> QED BY <2>2, <2>3
<1>4. ASSUME NEW d \in Crs, suspenders_resume(w, x, d) PROVE TypeOK'
  <2>1. left' \in [Ops -> Nat]
    BY <1>4, SpendType DEF suspenders_resume, Ops
  <2>2. /\ kind' \in [Ctx -> Kinds] /\ cur' \in [Ctx -> Crs \cup {NoCr}]
        /\ pc' \in [Ctx -> Labels]
    BY <1>0, <1>4 DEF suspenders_resume, Call, Goto, TypeOK, Kinds, Labels, CallPcs
  <2> QED BY ZenonT(40), <1>4, <2>1, <2>2 DEF suspenders_resume, Call, TypeOK, Labels
<1>5. ASSUME NEW d \in Crs, suspenders_cancel(w, x, d) PROVE TypeOK'
  <2>1. left' \in [Ops -> Nat]
    BY <1>5, SpendType DEF suspenders_cancel, Ops
  <2>2. /\ kind' \in [Ctx -> Kinds] /\ cur' \in [Ctx -> Crs \cup {NoCr}]
        /\ pc' \in [Ctx -> Labels]
    BY <1>0, <1>5 DEF suspenders_cancel, Call, Goto, TypeOK, Kinds, Labels, CallPcs
  <2>3. credit' \in [Crs -> Int]
    BY <1>5 DEF suspenders_cancel, TypeOK
  <2> QED BY Zenon, <1>5, <2>1, <2>2, <2>3 DEF suspenders_cancel, Call, TypeOK, Labels
<1> QED BY <1>1, <1>2, <1>3, <1>4, <1>5 DEF ApiCall

(* The steps that decide and wake keep the types.                          *)
LEMMA WakeStepType ==
    ASSUME TypeOK, PcInv, NEW w \in Workers \cup {NoWorker}, NEW x \in Ctx,
           WakeStep(w, x)
    PROVE  TypeOK'
<1> USE DEF nodeVars, schedVars, inboxVars, flagVars, frameVars, histVars, callVars,
            chainVars
<1>0. Return(x) \in Labels /\ AfterWake(x) \in Labels
  BY LabelTypes
<1>1. CASE s_wait_grant(w, x)
  <2>1. Verdict(kind[x]) \in Verdicts
    BY DEF Verdict, Verdicts
  <2>2. pc' \in [Ctx -> Labels] /\ lock' \in Ctx \cup {Nobody}
    BY <1>1 DEF s_wait_grant, Goto, TypeOK, Labels, CallPcs
  <2> QED BY Zenon, <1>1, <2>1, <2>2 DEF s_wait_grant, TypeOK, Labels
<1>2. CASE s_wake_no_preempt(w, x)
  <2>1. cur[x] \in Crs
    BY Zenon, <1>2, HasTarget DEF s_wake_no_preempt, At, NoTarget, CrPcs
  <2>2. CASE Elsewhere(w, cur[x]) /\ ExchangeInflight(x, cur[x]) /\ UNCHANGED <<state, ready>>
    <3>1. "push" \in Labels
      BY DEF Labels, CallPcs
    <3>2. /\ pc' \in [Ctx -> Labels] /\ kind' \in [Ctx -> Kinds]
          /\ cur' \in [Ctx -> Crs \cup {NoCr}]
      BY Zenon, <1>0, <2>2, <3>1, ProceedType DEF ExchangeInflight
    <3> QED BY Zenon, <1>2, <2>2, <3>2 DEF s_wake_no_preempt, ExchangeInflight, TypeOK, Labels
  <2>3. CASE Proceed(x, AfterWake(x)) /\ UNCHANGED wake_inflight
             /\ IF state[cur[x]] = "SUSPENDED" THEN suspenders_ready_enqueue(w, cur[x])
                                               ELSE UNCHANGED <<state, ready>>
    <3>1. /\ pc' \in [Ctx -> Labels] /\ kind' \in [Ctx -> Kinds]
          /\ cur' \in [Ctx -> Crs \cup {NoCr}]
      BY ZenonT(40), <1>0, <2>3, ProceedType
    <3>2. state' \in [Crs -> States] /\ ready' \in [Workers -> [Levels -> Seq(Crs)]]
      BY Zenon, <2>1, <2>3, EnqueueType DEF TypeOK
    <3> QED BY Zenon, <1>2, <2>3, <3>1, <3>2 DEF s_wake_no_preempt, TypeOK, Labels
  <2> QED BY Zenon, <1>2, <2>2, <2>3 DEF s_wake_no_preempt
<1>3. CASE s_inbox_wake(w, x)
  <2>1. cur[x] \in Crs
    BY Zenon, <1>3, HasTarget DEF s_inbox_wake, At, NoTarget, CrPcs
  <2>2. /\ pc' \in [Ctx -> Labels] /\ kind' \in [Ctx -> Kinds]
        /\ cur' \in [Ctx -> Crs \cup {NoCr}]
    BY Zenon, <1>0, <1>3, ProceedType DEF s_inbox_wake
  <2>3. \A v \in Workers : Append(inbox[v], cur[x]) \in Seq(Crs)
    BY <2>1, AppendFacts DEF TypeOK
  <2>4. inbox' \in [Workers -> Seq(Crs)]
    BY Zenon, <1>3, <2>3 DEF s_inbox_wake, TypeOK
  <2> QED BY ZenonT(40), <1>3, <2>2, <2>4 DEF s_inbox_wake, TypeOK, Labels
<1>4. CASE s_wait_decide_end(w, x)
  <2>1. "preempt" \in Labels
    BY DEF Labels, CallPcs
  <2>2. /\ pc' \in [Ctx -> Labels] /\ kind' \in [Ctx -> Kinds]
        /\ cur' \in [Ctx -> Crs \cup {NoCr}]
    BY Zenon, <1>0, <1>4, <2>1, ProceedType DEF s_wait_decide_end
  <2> QED BY Zenon, <1>4, <2>2 DEF s_wait_decide_end, TypeOK, Labels
<1>5. CASE BroadcastNext(w, x)
  <2>1. cur[x] \in Crs
    BY <1>5, HasTarget DEF BroadcastNext, At, NoTarget, CrPcs
  <2>2. granted' \in [Ctx -> Seq(Crs)]
    <3>1. Append(granted[x], cur[x]) \in Seq(Crs)
      BY Zenon, <2>1, AppendFacts DEF TypeOK
    <3> QED BY <1>5, <3>1 DEF BroadcastNext, TypeOK
  <2>3. CASE /\ todo[x] # <<>> /\ OpenWindow(x, "broadcast", Head(todo[x]))
             /\ todo' = [todo EXCEPT ![x] = Tail(@)] /\ UNCHANGED lock
    <3>1. Head(todo[x]) \in Crs /\ Tail(todo[x]) \in Seq(Crs)
      BY <2>3, PopFacts DEF TypeOK
    <3>2. /\ waker_busy' \in [Crs -> BOOLEAN] /\ kind' \in [Ctx -> Kinds]
          /\ cur' \in [Ctx -> Crs \cup {NoCr}] /\ pc' \in [Ctx -> Labels]
      BY <2>3, <3>1, OpenWindowType DEF Kinds
    <3>3. todo' \in [Ctx -> Seq(Crs)]
      BY Zenon, <2>3, <3>1 DEF TypeOK
    <3> QED BY ZenonT(40), <1>5, <2>2, <2>3, <3>2, <3>3 DEF BroadcastNext, TypeOK, Labels
  <2>4. CASE /\ todo[x] = <<>> /\ lock' = Nobody /\ Goto(x, "chain")
             /\ cur' = [cur EXCEPT ![x] = NoCr] /\ UNCHANGED <<waker_busy, kind, todo>>
    <3>1. cur' \in [Ctx -> Crs \cup {NoCr}] /\ pc' \in [Ctx -> Labels]
      BY <2>4 DEF Goto, TypeOK, Labels, CallPcs
    <3> QED BY ZenonT(40), <1>5, <2>2, <2>4, <3>1 DEF BroadcastNext, TypeOK, Labels
  <2> QED BY <1>5, <2>3, <2>4 DEF BroadcastNext
<1>6. CASE s_wait_decide_end_chain(w, x)
  <2>1. "chain" \in Labels
    BY DEF Labels, CallPcs
  <2>2. /\ pc' \in [Ctx -> Labels] /\ kind' \in [Ctx -> Kinds]
        /\ cur' \in [Ctx -> Crs \cup {NoCr}]
    BY Zenon, <1>0, <1>6, <2>1, ProceedType DEF s_wait_decide_end_chain
  <2>3. Tail(granted[x]) \in Seq(Crs)
    BY <1>6, PopFacts DEF s_wait_decide_end_chain, At, TypeOK, PcInv, PcAt
  <2>4. granted' \in [Ctx -> Seq(Crs)]
    BY <1>6, <2>3 DEF s_wait_decide_end_chain, TypeOK
  <2> QED BY Zenon, <1>6, <2>2, <2>4 DEF s_wait_decide_end_chain, TypeOK, Labels
<1>7. CASE s_waiter_wake_check(w, x)
  <2>1. cur[x] \in Crs
    BY Zenon, <1>7, HasTarget DEF s_waiter_wake_check, At, NoTarget, CrPcs
  <2>2. pc' \in [Ctx -> Labels]
    BY Zenon, <1>7 DEF s_waiter_wake_check, Goto, TypeOK, Labels, CallPcs
  <2>3. lk' \in [Ctx -> BOOLEAN]
    BY ZenonT(40), <1>7, <2>1 DEF s_waiter_wake_check, TypeOK
  <2> QED BY <1>7, <2>2, <2>3 DEF s_waiter_wake_check, TypeOK, Labels
<1>8. CASE s_waiter_wake(w, x)
  <2>1. cur[x] \in Crs /\ kind[x] \in Kinds
    BY Zenon, <1>8, HasTarget DEF s_waiter_wake, At, NoTarget, CrPcs, TypeOK
  <2>2. CASE status[cur[x]] = "WAITING"
    <3>1. waiters' \in Seq(Crs)
      BY SMTT(30), <1>8, <2>2, RemoveType DEF s_waiter_wake, TypeOK
    <3>2. /\ waker_busy' \in [Crs -> BOOLEAN] /\ kind' \in [Ctx -> Kinds]
          /\ cur' \in [Ctx -> Crs \cup {NoCr}] /\ pc' \in [Ctx -> Labels]
      BY Zenon, <1>8, <2>1, <2>2, OpenWindowType DEF s_waiter_wake
    <3>3. lock' \in Ctx \cup {Nobody}
      BY <1>8, <2>2 DEF s_waiter_wake, TypeOK
    <3> QED BY Zenon, <1>8, <3>1, <3>2, <3>3 DEF s_waiter_wake, TypeOK, Labels
  <2>3. CASE status[cur[x]] # "WAITING"
    <3>1. pc' \in [Ctx -> Labels]
      BY Zenon, <1>8, <2>3 DEF s_waiter_wake, Goto, TypeOK, Labels, CallPcs
    <3> QED BY Zenon, <1>8, <2>3, <3>1 DEF s_waiter_wake, TypeOK, Labels
  <2> QED BY <2>2, <2>3
<1>9. CASE NotWon(w, x)
  <2>1. /\ pc' \in [Ctx -> Labels] /\ kind' \in [Ctx -> Kinds]
        /\ cur' \in [Ctx -> Crs \cup {NoCr}]
    <3>1. CASE Goto(x, "resume") /\ kind' = [kind EXCEPT ![x] = "resume"] /\ UNCHANGED cur
      BY <3>1 DEF Goto, TypeOK, Labels, CallPcs, Kinds
    <3>2. CASE Proceed(x, Return(x))
      BY Zenon, <1>0, <3>2, ProceedType
    <3> QED BY <1>9, <3>1, <3>2 DEF NotWon
  <2> QED BY Zenon, <1>9, <2>1 DEF NotWon, TypeOK, Labels
<1>10. CASE CancelLoadPin(w, x)
  <2>1. pc' \in [Ctx -> Labels] /\ kind' \in [Ctx -> Kinds]
    BY Zenon, <1>10 DEF CancelLoadPin, Goto, TypeOK, Labels, CallPcs, Kinds
  <2> QED BY <1>10, <2>1 DEF CancelLoadPin, TypeOK, Labels
<1>11. CASE ResumeLoadPin(w, x)
  <2>1. /\ pc' \in [Ctx -> Labels] /\ kind' \in [Ctx -> Kinds]
        /\ cur' \in [Ctx -> Crs \cup {NoCr}] /\ wake_inflight' \in [Crs -> BOOLEAN]
    <3>1. CASE ExchangeInflight(x, cur[x])
      <4>1. "push" \in Labels
        BY DEF Labels, CallPcs
      <4> QED BY Zenon, <1>0, <3>1, <4>1, ProceedType DEF ExchangeInflight, TypeOK
    <3>2. CASE Goto(x, "resume_local") /\ UNCHANGED <<wake_inflight, kind, cur>>
      BY Zenon, <3>2 DEF Goto, TypeOK, Labels, CallPcs
    <3> QED BY <1>11, <3>1, <3>2 DEF ResumeLoadPin
  <2> QED BY Zenon, <1>11, <2>1 DEF ResumeLoadPin, TypeOK, Labels
<1>12. CASE ResumeLocal(w, x)
  <2>1. cur[x] \in Crs
    BY Zenon, <1>12, HasTarget DEF ResumeLocal, At, NoTarget, CrPcs
  <2>2. "preempt" \in Labels
    BY DEF Labels, CallPcs
  <2>3. /\ pc' \in [Ctx -> Labels] /\ kind' \in [Ctx -> Kinds]
        /\ cur' \in [Ctx -> Crs \cup {NoCr}]
    BY Zenon, <1>0, <1>12, <2>2, ProceedType DEF ResumeLocal
  <2>4. state' \in [Crs -> States] /\ ready' \in [Workers -> [Levels -> Seq(Crs)]]
    <3>1. CASE suspenders_ready_enqueue(w, cur[x])
      BY <2>1, <3>1, EnqueueType
    <3>2. CASE state' = [state EXCEPT ![cur[x]] = "READY"] /\ UNCHANGED ready
      BY Zenon, <3>2 DEF TypeOK, States
    <3>3. CASE UNCHANGED <<state, ready>>
      BY <3>3 DEF TypeOK
    <3> QED BY Zenon, <1>12, <3>1, <3>2, <3>3 DEF ResumeLocal
  <2> QED BY <1>12, <2>3, <2>4 DEF ResumeLocal, TypeOK, Labels
<1> QED BY <1>1, <1>2, <1>3, <1>4, <1>5, <1>6, <1>7, <1>8, <1>9, <1>10, <1>11, <1>12
        DEF WakeStep

(* s_worker_loop keeps the types.                                          *)
LEMMA LoopStepType ==
    ASSUME TypeOK, PcInv, NEW w \in Workers, s_worker_loop(w)
    PROVE  TypeOK'
<1> USE DEF nodeVars, schedVars, inboxVars, flagVars, frameVars, histVars, callVars,
            chainVars
<1>0. w \in Ctx /\ Return(w) \in Labels /\ "top" \in Labels
  BY LabelTypes DEF Ctx, Labels, LoopPcs
<1>1. CASE LoopTop(w)
  <2>1. pc' \in [Ctx -> Labels]
    BY Zenon, <1>0, <1>1 DEF LoopTop, Goto, TypeOK, Labels, LoopPcs
  <2>2. <<>> \in Seq(Crs)
    BY EmptyFacts
  <2>3. inbox' \in [Workers -> Seq(Crs)]
    BY Zenon, <1>1, <2>2 DEF LoopTop, TypeOK
  <2>4. batch' \in [Workers -> Seq(Crs)]
    BY Zenon, <1>1 DEF LoopTop, TypeOK
  <2> QED BY Zenon, <1>1, <2>1, <2>3, <2>4 DEF LoopTop, TypeOK, Labels
<1>2. CASE s_inbox_drain(w)
  <2>1. CASE batch[w] # <<>>
    <3>1. Head(batch[w]) \in Crs /\ Tail(batch[w]) \in Seq(Crs)
      BY <2>1, PopFacts DEF TypeOK
    <3>2. pc' \in [Ctx -> Labels] /\ kind' \in [Ctx -> Kinds]
      BY Zenon, <1>0, <1>2, <2>1 DEF s_inbox_drain, Goto, TypeOK, Labels, LoopPcs, Kinds
    <3>3. cur' \in [Ctx -> Crs \cup {NoCr}]
      BY Zenon, <1>2, <2>1, <3>1 DEF s_inbox_drain, TypeOK
    <3>4. batch' \in [Workers -> Seq(Crs)]
      BY ZenonT(40), <1>2, <2>1, <3>1 DEF s_inbox_drain, TypeOK
    <3> QED BY Zenon, <1>2, <2>1, <3>2, <3>3, <3>4 DEF s_inbox_drain, TypeOK, Labels
  <2>2. CASE batch[w] = <<>>
    <3>1. pc' \in [Ctx -> Labels]
      BY Zenon, <1>0, <1>2, <2>2 DEF s_inbox_drain, Goto, TypeOK, Labels, LoopPcs
    <3> QED BY <1>2, <2>2, <3>1 DEF s_inbox_drain, TypeOK, Labels
  <2> QED BY <2>1, <2>2
<1>3. CASE s_inbox_deliver(w)
  <2>1. pc' \in [Ctx -> Labels]
    BY <1>0, <1>3 DEF s_inbox_deliver, Goto, TypeOK, Labels, CallPcs
  <2> QED BY <1>3, <2>1 DEF s_inbox_deliver, TypeOK, Labels
<1>4. CASE DeliverWake(w)
  <2>1. cur[w] \in Crs
    BY Zenon, <1>0, <1>4, HasTarget DEF DeliverWake, At, NoTarget, CrPcs
  <2>2. /\ pc' \in [Ctx -> Labels] /\ kind' \in [Ctx -> Kinds]
        /\ cur' \in [Ctx -> Crs \cup {NoCr}]
    BY Zenon, <1>0, <1>4, ProceedType DEF DeliverWake
  <2>3. state' \in [Crs -> States] /\ ready' \in [Workers -> [Levels -> Seq(Crs)]]
    BY Zenon, <1>4, <2>1, EnqueueType DEF DeliverWake, TypeOK
  <2> QED BY Zenon, <1>4, <2>2, <2>3 DEF DeliverWake, TypeOK, Labels
<1>5. CASE suspenders_ready_dequeue(w)
  <2>1. PICK q \in Levels :
          /\ TopLevel(ready[w], q)
          /\ ready' = [ready EXCEPT ![w] = [ready[w] EXCEPT ![q] = Tail(@)]]
          /\ cur' = [cur EXCEPT ![w] = Head(ready[w][q])]
          /\ Dispatch(w, Head(ready[w][q]))
    BY Zenon, <1>5 DEF suspenders_ready_dequeue
  <2>2. ready[w] \in [Levels -> Seq(Crs)] /\ ready[w][q] \in Seq(Crs) /\ ready[w][q] # <<>>
    BY <2>1 DEF TypeOK, TopLevel
  <2>3. Head(ready[w][q]) \in Crs /\ Tail(ready[w][q]) \in Seq(Crs)
    BY <2>2, PopFacts
  <2>4. [ready[w] EXCEPT ![q] = Tail(@)] \in [Levels -> Seq(Crs)]
    BY <2>2, <2>3
  <2>5. ready' \in [Workers -> [Levels -> Seq(Crs)]] /\ cur' \in [Ctx -> Crs \cup {NoCr}]
    BY Zenon, <2>1, <2>3, <2>4 DEF TypeOK
  <2>6. /\ state' \in [Crs -> States] /\ pc' \in [Ctx -> Labels]
        /\ running' \in [Workers -> Crs \cup {NoCr}]
    BY <1>0, <2>1, <2>3 DEF Dispatch, Goto, TypeOK, States, Labels, LoopPcs
  <2> QED BY ZenonT(40), <1>5, <2>5, <2>6 DEF suspenders_ready_dequeue, TypeOK, Labels
<1>6. CASE s_injector_take(w)
  <2>1. PICK q \in Levels :
          /\ TopLevel(injector, q)
          /\ injector' = [injector EXCEPT ![q] = Tail(@)]
          /\ cur' = [cur EXCEPT ![w] = Head(injector[q])]
          /\ worker' = [worker EXCEPT ![Head(injector[q])] = w]
    BY Zenon, <1>6 DEF s_injector_take
  <2>2. Head(injector[q]) \in Crs /\ Tail(injector[q]) \in Seq(Crs)
    BY <2>1, PopFacts DEF TypeOK, TopLevel
  <2>3. injector' \in [Levels -> Seq(Crs)] /\ cur' \in [Ctx -> Crs \cup {NoCr}]
    BY Zenon, <2>1, <2>2 DEF TypeOK
  <2>4. worker' \in [Crs -> Workers \cup {NoWorker}]
    BY Zenon, <2>1 DEF TypeOK
  <2>5. pc' \in [Ctx -> Labels]
    BY Zenon, <1>0, <1>6 DEF s_injector_take, Goto, TypeOK, Labels, LoopPcs
  <2> QED BY Zenon, <1>6, <2>3, <2>4, <2>5 DEF s_injector_take, TypeOK, Labels
<1>7. CASE InjectorDispatch(w)
  <2>1. cur[w] \in Crs
    BY Zenon, <1>0, <1>7, HasTarget DEF InjectorDispatch, At, NoTarget, CrPcs
  <2>2. /\ state' \in [Crs -> States] /\ pc' \in [Ctx -> Labels]
        /\ running' \in [Workers -> Crs \cup {NoCr}]
    BY <1>0, <1>7, <2>1 DEF InjectorDispatch, Dispatch, Goto, TypeOK, States, Labels, LoopPcs
  <2>3. pending_wake' \in [Crs -> BOOLEAN]
    BY Zenon, <1>7, <2>1 DEF InjectorDispatch, TypeOK
  <2> QED BY Zenon, <1>7, <2>2, <2>3 DEF InjectorDispatch, TypeOK, Labels
<1>8. CASE LoopBack(w)
  <2>1. /\ pc' \in [Ctx -> Labels] /\ kind' \in [Ctx -> Kinds]
        /\ cur' \in [Ctx -> Crs \cup {NoCr}] /\ pending_wake' \in [Crs -> BOOLEAN]
    <3>1. CASE /\ Goto(w, "deliver") /\ kind' = [kind EXCEPT ![w] = "redeliver"]
               /\ pending_wake' = [pending_wake EXCEPT ![cur[w]] = FALSE]
               /\ UNCHANGED cur
      BY Zenon, <1>0, <3>1 DEF Goto, TypeOK, Labels, LoopPcs, Kinds
    <3>2. CASE Proceed(w, "top") /\ UNCHANGED pending_wake
      BY Zenon, <1>0, <3>2, ProceedType DEF TypeOK
    <3> QED BY Zenon, <1>8, <3>1, <3>2 DEF LoopBack
  <2> QED BY Zenon, <1>8, <2>1 DEF LoopBack, TypeOK, Labels
<1>9. CASE s_zombie_reap(w)
  <2>1. state' \in [Crs -> States] /\ pc' \in [Ctx -> Labels]
    BY <1>0, <1>9 DEF s_zombie_reap, Goto, TypeOK, States, Labels, LoopPcs
  <2>2. zombies' \in [Workers -> SUBSET Crs]
    BY <1>9 DEF s_zombie_reap, TypeOK
  <2> QED BY Zenon, <1>9, <2>1, <2>2 DEF s_zombie_reap, TypeOK, Labels
<1>10. ASSUME NEW c \in Crs, s_wait_deadline_cb(w, c) PROVE TypeOK'
  <2>1. /\ pc' \in [Ctx -> Labels] /\ kind' \in [Ctx -> Kinds]
        /\ cur' \in [Ctx -> Crs \cup {NoCr}]
    BY <1>0, <1>10 DEF s_wait_deadline_cb, Goto, TypeOK, Labels, CallPcs, Kinds
  <2> QED BY Zenon, <1>10, <2>1 DEF s_wait_deadline_cb, TypeOK, Labels
<1> QED BY <1>1, <1>2, <1>3, <1>4, <1>5, <1>6, <1>7, <1>8, <1>9, <1>10 DEF s_worker_loop

(* Every step keeps the types.                                             *)
LEMMA TypeStep ==
    TypeOK /\ PcInv /\ [Next]_vars => TypeOK'
<1> SUFFICES ASSUME TypeOK, PcInv, [Next]_vars PROVE TypeOK'
  BY Zenon
<1>1. CASE UNCHANGED vars
  BY <1>1 DEF TypeOK, vars, nodeVars, schedVars, inboxVars, flagVars, frameVars, histVars
<1> QED BY <1>1, CrStepType, ApiCallType, WakeStepType, LoopStepType DEF Next
=============================================================================
