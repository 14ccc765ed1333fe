------------------------- MODULE WaitProtocolProofs -------------------------
(***************************************************************************)
(* Proof that the waker_busy handshake of WaitProtocol is sound and that   *)
(* no waiter is ever off the list without a decider, for every number of   *)
(* coroutines, workers and threads, every interleaving and every budget,   *)
(* EarlyHandles included.                                                  *)
(***************************************************************************)
EXTENDS WaitProtocolChains

(* A coroutine's own steps keep the invariant.                             *)
LEMMA CrStepWait ==
    ASSUME TypeOK, PcInv, WaitInv, TypeOK', PcInv',
           NEW w \in Workers, NEW x \in Crs, CrStep(w, x)
    PROVE  WaitInv'
<1> USE DEF nodeVars, callVars, frameVars, At
<1>0. x \in Ctx /\ \A y \in Ctx \ {x} : FrameKept(y)
  BY CrStepFrame DEF Ctx
<1>1. CASE suspenders_yield(w, x) \/ s_wait_decider_sync(w, x)
  BY <1>1, UnchangedWait DEF suspenders_yield, s_wait_decider_sync, waitVars
<1>2. ASSUME pc[x] \in {"run", "suspended", "preempt"},
             pc'[x] \in {"run", "suspended", "exited", "park"}, UNCHANGED waitVars
      PROVE  WaitInv'
  <2>1. Idle(x) /\ Idle(x)' /\ pc[x] \notin {"block", "sync"}
    BY <1>2 DEF Idle, Deciders
  <2> QED BY Zenon, <1>0, <1>2, <2>1, IdleStep DEF waitVars
<1>3. CASE \/ suspenders_suspend(w, x) \/ SuspendReturns(w, x) \/ suspenders_cr_exit(w, x)
           \/ s_pre_block(w, x) \/ Preempt(w, x)
  <2>1. /\ pc[x] \in {"run", "suspended", "preempt"}
        /\ pc'[x] \in {"run", "suspended", "exited", "park"}
    <3>1. pc \in [Ctx -> Labels]
      BY DEF TypeOK, Labels
    <3> QED BY Zenon, <1>0, <1>3, <3>1 DEF suspenders_suspend, SuspendReturns,
          suspenders_cr_exit, s_pre_block, Preempt, Goto
  <2>2. UNCHANGED waitVars
    BY <1>3 DEF suspenders_suspend, SuspendReturns, suspenders_cr_exit, s_pre_block, Preempt,
        waitVars
  <2> QED BY <1>2, <2>1, <2>2
<1>4. CASE s_wait_park(w, x)
  BY <1>4, ParkStep
<1>5. CASE s_wait_block(w, x)
  <2>1. CASE UNCHANGED pc
    BY <1>5, <2>1, UnchangedWait DEF s_wait_block, waitVars
  <2>2. CASE status[x] # "WAITING" /\ Goto(x, "sync")
    BY Zenon, <1>5, <2>2, LeaveStep DEF s_wait_block, Goto
  <2> QED BY Zenon, <1>5, <2>1, <2>2 DEF s_wait_block
<1>6. CASE WaitReturns(w, x)
  <2>1. status[x] # "WAITING"
    BY Zenon, <1>6 DEF WaitReturns, WaitInv, NodesInv
  <2>2. \A c \in Crs \ {x} : wait_lock'[c] = wait_lock[c]
    BY Zenon, <1>6 DEF WaitReturns, TypeOK
  <2> QED BY Zenon, <1>6, <2>1, <2>2, LeaveStep DEF WaitReturns, Goto
<1> QED BY <1>1, <1>3, <1>4, <1>5, <1>6 DEF CrStep

(* API calls keep the invariant when called.                               *)
LEMMA ApiCallWait ==
    ASSUME TypeOK, PcInv, WaitInv, TypeOK', PcInv',
           NEW w \in Workers \cup {NoWorker}, NEW x \in Crs \cup Threads, ApiCall(w, x)
    PROVE  WaitInv'
<1> USE DEF nodeVars, callVars, chainVars, frameVars, At
<1>0. x \in Ctx
  BY DEF Ctx
<1>1. CASE pc[x] = "run"
  <2>0. Idle(x) /\ pc[x] \notin {"block", "sync"}
    BY Zenon, <1>1 DEF Idle, Deciders
  <2>1. CASE suspenders_cond_signal(w, x)
    <3>1. /\ waiters \in Seq(Crs) /\ waiters # <<>> /\ waiters' = Tail(waiters)
          /\ IsInjective(waiters)
      BY Zenon, <2>1 DEF suspenders_cond_signal, TypeOK, WaitInv, NodesInv
    <3>2. /\ Head(waiters) \in Crs /\ Head(waiters) \in Range(waiters)
          /\ waiters' \in Seq(Crs) /\ IsInjective(waiters')
          /\ Range(waiters') = Range(waiters) \ {Head(waiters)}
      BY <3>1, PopFacts
    <3>3. <<>> \in Seq(Crs) /\ Range(<<>>) = {} /\ IsInjective(<<>>)
      BY EmptyFacts
    <3>4. todo[x] = <<>>
      BY Zenon, <1>0, <2>0, EmptyHands
    <3>5. todo' = [todo EXCEPT ![x] = <<>>]
      BY Zenon, <2>1, <3>4 DEF suspenders_cond_signal, TypeOK
    <3>6. /\ lock = Nobody /\ lock' = x /\ OpenWindow(x, "signal", Head(waiters))
          /\ UNCHANGED <<status, wait_lock, granted>> /\ lk' = lk
      BY <2>1 DEF suspenders_cond_signal
    <3>7. "signal" \in Kinds \ {"resume"}
      BY DEF Kinds
    <3> QED BY Zenon, <1>0, <2>0, <3>2, <3>3, <3>5, <3>6, <3>7, OpenStep
  <2>2. CASE suspenders_cond_broadcast(w, x)
    <3>1. waiters \in Seq(Crs) /\ waiters # <<>> /\ waiters' = <<>> /\ IsInjective(waiters)
      BY Zenon, <2>2 DEF suspenders_cond_broadcast, TypeOK, WaitInv, NodesInv
    <3>2. /\ Head(waiters) \in Crs /\ Head(waiters) \in Range(waiters)
          /\ Tail(waiters) \in Seq(Crs) /\ IsInjective(Tail(waiters))
          /\ Range(Tail(waiters)) = Range(waiters) \ {Head(waiters)}
      BY <3>1, PopFacts
    <3>3. waiters' \in Seq(Crs) /\ Range(waiters') = {} /\ IsInjective(waiters')
      BY <3>1, EmptyFacts
    <3>4. /\ lock = Nobody /\ lock' = x /\ OpenWindow(x, "broadcast", Head(waiters))
          /\ UNCHANGED <<status, wait_lock, granted>> /\ lk' = lk
          /\ todo' = [todo EXCEPT ![x] = Tail(waiters)]
      BY <2>2 DEF suspenders_cond_broadcast
    <3>5. "broadcast" \in Kinds \ {"resume"}
      BY DEF Kinds
    <3> QED BY ZenonT(40), <1>0, <2>0, <3>2, <3>3, <3>4, <3>5, OpenStep
  <2>3. ASSUME NEW d \in Crs, s_spawn_impl(w, x, d) PROVE WaitInv'
    BY Zenon, <2>3, UnchangedWait DEF s_spawn_impl, waitVars
  <2>4. ASSUME NEW d \in Crs, suspenders_resume(w, x, d) \/ suspenders_cancel(w, x, d)
        PROVE  WaitInv'
    <3>1. pc'[x] \in {"resume", "load_pin"} /\ UNCHANGED waitVars
      BY SMTT(60), <1>0, <2>4 DEF suspenders_resume, suspenders_cancel, Call, Goto, TypeOK, waitVars
    <3>2. \A y \in Ctx \ {x} : FrameKept(y)
      BY <2>4 DEF suspenders_resume, suspenders_cancel, Call, Goto, TypeOK, FrameKept
    <3>3. Idle(x)'
      BY <3>1 DEF Idle, Deciders
    <3> QED BY Zenon, <1>0, <2>0, <3>1, <3>2, <3>3, IdleStep DEF waitVars
  <2> QED BY <2>1, <2>2, <2>3, <2>4 DEF ApiCall
<1> QED BY Zenon, <1>1 DEF ApiCall, suspenders_cond_signal, suspenders_cond_broadcast, s_spawn_impl,
        suspenders_resume, suspenders_cancel

(* What going on with a call does to the frames.                           *)
LEMMA ProceedFrame ==
    ASSUME TypeOK, NEW x \in Ctx, NEW label, Proceed(x, label), granted' = granted
    PROVE  /\ \A y \in Ctx \ {x} : FrameKept(y)
           /\ pc'[x] = label
           /\ label \notin Resting => cur'[x] = cur[x] /\ kind'[x] = kind[x]
           /\ label \in Resting => cur'[x] = NoCr /\ kind'[x] = "none"
  BY DEF TypeOK, Proceed, Goto, FrameKept

(* The steps that decide and wake keep the invariant.                      *)
LEMMA WakeStepWait ==
    ASSUME TypeOK, PcInv, WaitInv, TypeOK', PcInv',
           NEW w \in Workers \cup {NoWorker}, NEW x \in Ctx, WakeStep(w, x)
    PROVE  WaitInv'
<1> USE DEF nodeVars, callVars, chainVars, At
<1>0. PcAt(x) /\ HandsAt(x) /\ Return(x) \in {"run", "drain", "top", "idle"}
  BY DEF PcInv, WaitInv, Return
<1>1. CASE s_wait_grant(w, x)
  BY <1>1, FlipStep
<1>2. CASE s_wake_no_preempt(w, x)
  <2>1. kind[x] \in Deciding /\ AfterWake(x) \in {"next", "end"} /\ pc[x] = "wake"
    BY <1>0, <1>2 DEF s_wake_no_preempt, PcAt, AfterWake, Deciding, Outside
  <2>2. PICK label \in {"push", "next", "end"} : Proceed(x, label)
    BY Zenon, <1>2, <2>1 DEF s_wake_no_preempt, ExchangeInflight
  <2>3. UNCHANGED waitVars
    BY Zenon, <1>2 DEF s_wake_no_preempt, waitVars
  <2>4. /\ cur'[x] = cur[x] /\ kind'[x] = kind[x] /\ pc'[x] = label
        /\ \A y \in Ctx \ {x} : FrameKept(y)
    BY Zenon, <2>2, <2>3, ProceedFrame DEF Resting, waitVars
  <2> QED BY Zenon, <2>1, <2>3, <2>4, WindowKept DEF Deciders
<1>3. CASE s_inbox_wake(w, x)
  <2>1. UNCHANGED waitVars /\ Proceed(x, AfterWake(x)) /\ pc[x] = "push"
    BY Zenon, <1>3 DEF s_inbox_wake, waitVars
  <2>2. CASE kind[x] = "resume"
    <3>1. AfterWake(x) = Return(x)
      BY <2>2 DEF AfterWake
    <3>2. pc'[x] \in {"run", "drain", "top", "idle"} /\ \A y \in Ctx \ {x} : FrameKept(y)
      BY Zenon, <1>0, <2>1, <3>1, ProceedFrame DEF waitVars
    <3>3. Idle(x) /\ Idle(x)'
      BY Zenon, <2>1, <2>2, <3>2 DEF Idle, Deciders
    <3> QED BY Zenon, <2>1, <3>2, <3>3, IdleStep DEF waitVars
  <2>3. CASE kind[x] # "resume"
    <3>1. AfterWake(x) \in {"next", "end"}
      BY <2>3 DEF AfterWake
    <3>2. /\ cur'[x] = cur[x] /\ kind'[x] = kind[x] /\ pc'[x] \in {"next", "end"}
          /\ \A y \in Ctx \ {x} : FrameKept(y)
      BY Zenon, <2>1, <3>1, ProceedFrame DEF Resting, waitVars
    <3> QED BY Zenon, <2>1, <3>2, WindowKept DEF Deciders
  <2> QED BY <2>2, <2>3
<1>4. CASE s_wait_decide_end(w, x)
  <2>1. /\ pc[x] = "end" /\ waker_busy' = [waker_busy EXCEPT ![cur[x]] = FALSE]
        /\ UNCHANGED <<status, wait_lock, waiters, lock, granted, todo, lk>>
    BY Zenon, <1>4 DEF s_wait_decide_end
  <2>2. cur[x] \in Crs /\ kind[x] # "broadcast" /\ kind[x] # "resume"
    BY Zenon, <1>0, <2>1, HasTarget DEF NoTarget, CrPcs, PcAt, Deciding, Outside
  <2>3. InWindow(x, cur[x])
    BY <2>1, <2>2 DEF InWindow
  <2>4. PICK label \in {"run", "drain", "top", "idle", "preempt"} : Proceed(x, label)
    BY Zenon, <1>0, <1>4 DEF s_wait_decide_end
  <2>5. /\ pc'[x] \in {"run", "drain", "top", "idle", "preempt"} /\ cur'[x] = NoCr
        /\ kind'[x] = "none" /\ \A y \in Ctx \ {x} : FrameKept(y)
    BY Zenon, <2>1, <2>4, ProceedFrame DEF Resting
  <2>6. granted[x] = <<>> /\ granted'[x] = <<>>
    BY Zenon, <1>0, <2>1, <2>2 DEF HandsAt
  <2>7. Range(granted'[x]) = {} /\ IsInjective(granted'[x])
    BY Zenon, <2>6, EmptyFacts
  <2> QED BY Zenon, <2>1, <2>2, <2>3, <2>5, <2>6, <2>7, CloseStep DEF CrPcs, LoopPcs
<1>5. CASE BroadcastNext(w, x)
  BY Zenon, <1>5, NextWaiterStep, LastWaiterStep
<1>6. CASE s_wait_decide_end_chain(w, x)
  <2> DEFINE n == Head(granted[x])
  <2>1. /\ pc[x] = "chain" /\ waker_busy' = [waker_busy EXCEPT ![n] = FALSE]
        /\ granted' = [granted EXCEPT ![x] = Tail(@)]
        /\ Proceed(x, IF Tail(granted[x]) = <<>> THEN Return(x) ELSE "chain")
        /\ UNCHANGED <<status, wait_lock, waiters, lock, todo, lk>>
    BY <1>6 DEF s_wait_decide_end_chain
  <2>2. granted[x] \in Seq(Crs) /\ granted[x] # <<>> /\ IsInjective(granted[x])
    BY ZenonT(40), <1>0, <2>1 DEF PcAt, HandsAt, TypeOK
  <2>3. /\ n \in Crs /\ n \in Range(granted[x]) /\ IsInjective(Tail(granted[x]))
        /\ Range(Tail(granted[x])) = Range(granted[x]) \ {n}
    BY SMTT(30), <2>2, PopFacts
  <2>4. granted'[x] = Tail(granted[x]) /\ \A y \in Ctx \ {x} : FrameKept(y)
    BY <2>1, FrameTypes DEF Proceed, Goto, FrameKept
  <2>5. cur[x] = NoCr /\ kind[x] = "broadcast"
    BY Zenon, <1>0, <2>1 DEF PcAt, NoTarget
  <2>6. /\ cur'[x] = NoCr /\ pc'[x] \in {"run", "drain", "top", "idle", "chain"}
        /\ pc'[x] = "chain" <=> Tail(granted[x]) # <<>>
        /\ kind'[x] = "broadcast" <=> pc'[x] = "chain"
    <3>1. CASE Tail(granted[x]) = <<>>
      BY ZenonT(40), <1>0, <2>1, <3>1 DEF Proceed, Goto, TypeOK, Resting
    <3>2. CASE Tail(granted[x]) # <<>>
      BY <2>1, <2>5, <3>2, FrameTypes DEF Proceed, Goto, Resting
    <3> QED BY Zenon, <3>1, <3>2
  <2>7. InWindow(x, n)
    BY Zenon, <2>3 DEF InWindow
  <2> HIDE DEF n
  <2> QED BY Zenon, <2>1, <2>3, <2>4, <2>6, <2>7, CloseStep DEF CrPcs, LoopPcs
<1>7. CASE s_waiter_wake_check(w, x)
  <2>1. /\ pc[x] = "check" /\ pc'[x] \in {"lock", "not_won"}
        /\ pc'[x] = "lock" => status[cur[x]] = "WAITING" /\ lk'[x] = wait_lock[cur[x]]
        /\ \A y \in Ctx \ {x} : FrameKept(y) /\ lk'[y] = lk[y]
        /\ UNCHANGED <<nodeVars, granted, todo>>
    BY SMTT(60), <1>7 DEF s_waiter_wake_check, Goto, TypeOK, FrameKept
  <2>2. cur[x] \in Crs
    BY Zenon, <2>1, HasTarget DEF NoTarget, CrPcs
  <2>3. pc'[x] = "lock" => lk'[x]
    BY Zenon, <2>1, <2>2 DEF WaitInv, NodesInv
  <2>4. Idle(x) /\ Idle(x)'
    BY Zenon, <2>1 DEF Idle, Deciders
  <2> QED BY Zenon, <2>1, <2>3, <2>4, IdleStep
<1>8. CASE s_waiter_wake(w, x)
  <2>1. pc[x] = "lock" /\ lk[x] /\ lock = Nobody /\ Idle(x) /\ kind[x] \in Kinds \ {"resume"}
    BY Zenon, <1>0, <1>8 DEF s_waiter_wake, HandsAt, Idle, Deciders, PcAt, TypeOK, Outside
  <2>2. cur[x] \in Crs
    BY Zenon, <2>1, HasTarget DEF NoTarget, CrPcs
  <2>3. CASE status[cur[x]] = "WAITING"
    <3>1. cur[x] \in Range(waiters)
      <4>1. \A y \in Ctx : pc[y] # "flip" /\ Range(todo[y]) = {}
        BY Zenon, <2>1, FreeLock
      <4>2. Reachable(cur[x])
        BY Zenon, <2>2, <2>3 DEF WaitInv
      <4> QED BY Zenon, <4>1, <4>2 DEF Reachable
    <3>2. /\ waiters' = s_wq_remove(waiters, cur[x]) /\ lock' = x
          /\ OpenWindow(x, kind[x], cur[x]) /\ lk' = [lk EXCEPT ![x] = FALSE]
          /\ UNCHANGED <<status, wait_lock, granted, todo>>
      BY Zenon, <1>8, <2>1, <2>3 DEF s_waiter_wake
    <3>3. waiters \in Seq(Crs) /\ IsInjective(waiters)
      BY DEF TypeOK, WaitInv, NodesInv
    <3>4. /\ s_wq_remove(waiters, cur[x]) \in Seq(Crs)
          /\ IsInjective(s_wq_remove(waiters, cur[x]))
          /\ Range(s_wq_remove(waiters, cur[x])) = Range(waiters) \ {cur[x]}
      BY SMTT(60), <2>2, <3>3, RemoveFacts
    <3>5. <<>> \in Seq(Crs) /\ Range(<<>>) = {} /\ IsInjective(<<>>)
      BY EmptyFacts
    <3>6. todo[x] = <<>>
      BY Zenon, <2>1, EmptyHands
    <3>7. todo' = [todo EXCEPT ![x] = <<>>] /\ \A y \in Ctx \ {x} : lk'[y] = lk[y]
      BY SMTT(60), <3>2, <3>6 DEF TypeOK
    <3> QED BY Zenon, <2>1, <2>2, <3>1, <3>2, <3>4, <3>5, <3>7, OpenStep
  <2>4. CASE status[cur[x]] # "WAITING"
    <3>1. /\ pc'[x] = "not_won" /\ UNCHANGED <<nodeVars, granted, todo>>
          /\ \A y \in Ctx \ {x} : FrameKept(y) /\ lk'[y] = lk[y]
      BY ZenonT(40), <1>8, <2>4 DEF s_waiter_wake, Goto, TypeOK, FrameKept
    <3>2. Idle(x)'
      BY Zenon, <3>1 DEF Idle, Deciders
    <3> QED BY Zenon, <2>1, <3>1, <3>2, IdleStep
  <2> QED BY Zenon, <2>3, <2>4
<1>9. ASSUME pc[x] \in {"not_won", "load_pin", "resume", "resume_local"}, UNCHANGED waitVars,
             pc'[x] \in {"run", "drain", "top", "idle", "preempt", "resume", "check", "resume_local"}
               \/ (pc'[x] = "push" /\ kind'[x] = "resume"),
             \A y \in Ctx \ {x} : FrameKept(y)
      PROVE  WaitInv'
  <2>1. Idle(x) /\ Idle(x)' /\ pc'[x] # "lock" /\ pc[x] \notin {"block", "sync"}
    BY Zenon, <1>9 DEF Idle, Deciders
  <2> QED BY Zenon, <1>9, <2>1, IdleStep DEF waitVars
<1>10. CASE NotWon(w, x) \/ CancelLoadPin(w, x)
  <2>1. UNCHANGED waitVars /\ pc[x] \in {"not_won", "load_pin"}
    BY ZenonT(40), <1>10 DEF NotWon, CancelLoadPin, waitVars
  <2>2. /\ pc'[x] \in {"run", "drain", "top", "idle", "resume", "check"}
        /\ \A y \in Ctx \ {x} : FrameKept(y)
    <3>1. CASE NotWon(w, x)
      <4>1. /\ granted' = granted
            /\ \/ Proceed(x, Return(x))
               \/ Goto(x, "resume") /\ kind' = [kind EXCEPT ![x] = "resume"] /\ cur' = cur
        BY Zenon, <3>1 DEF NotWon
      <4> QED BY <1>0, <4>1, FrameTypes DEF Proceed, Goto, FrameKept
    <3>2. CASE CancelLoadPin(w, x)
      <4>1. /\ granted' = granted /\ cur' = cur
            /\ \/ Goto(x, "resume") /\ kind' = [kind EXCEPT ![x] = "resume"]
               \/ Goto(x, "check") /\ kind' = kind
        BY Zenon, <3>2 DEF CancelLoadPin
      <4> QED BY <1>0, <4>1, FrameTypes DEF Goto, FrameKept
    <3> QED BY Zenon, <1>10, <3>1, <3>2
  <2> QED BY Zenon, <1>9, <2>1, <2>2
<1>11. CASE ResumeLoadPin(w, x)
  <2>1. UNCHANGED waitVars /\ pc[x] = "resume" /\ kind[x] = "resume"
    BY Zenon, <1>0, <1>11 DEF ResumeLoadPin, waitVars, PcAt
  <2>2. AfterWake(x) \in {"run", "drain", "top", "idle"}
    BY Zenon, <1>0, <2>1 DEF AfterWake
  <2>3. /\ pc'[x] \in {"run", "drain", "top", "idle", "resume_local"}
             \/ (pc'[x] = "push" /\ kind'[x] = "resume")
        /\ \A y \in Ctx \ {x} : FrameKept(y)
    <3>1. /\ granted' = granted
          /\ \/ Proceed(x, AfterWake(x)) \/ Proceed(x, "push")
             \/ Goto(x, "resume_local") /\ kind' = kind /\ cur' = cur
      BY Zenon, <1>11 DEF ResumeLoadPin, ExchangeInflight
    <3> QED BY <2>1, <2>2, <3>1, FrameTypes DEF Proceed, Goto, FrameKept, Resting
  <2> QED BY Zenon, <1>9, <2>1, <2>3
<1>12. CASE ResumeLocal(w, x)
  <2>1. UNCHANGED waitVars /\ pc[x] = "resume_local"
    BY Zenon, <1>12 DEF ResumeLocal, waitVars
  <2>2. PICK label \in {"run", "drain", "top", "idle", "preempt"} : Proceed(x, label)
    BY Zenon, <1>0, <1>12 DEF ResumeLocal
  <2>3. pc'[x] = label /\ \A y \in Ctx \ {x} : FrameKept(y)
    BY Zenon, <2>1, <2>2, ProceedFrame DEF waitVars
  <2> QED BY Zenon, <1>9, <2>1, <2>3
<1> QED BY <1>1, <1>2, <1>3, <1>4, <1>5, <1>6, <1>7, <1>8, <1>10, <1>11, <1>12 DEF WakeStep

(* s_worker_loop decides nothing by itself.                                *)
LEMMA LoopStepFrame ==
    ASSUME TypeOK, NEW w \in Workers, s_worker_loop(w)
    PROVE  /\ UNCHANGED waitVars /\ \A y \in Ctx \ {w} : FrameKept(y)
           /\ pc[w] \in LoopPcs \cup {"not_won"}
           /\ pc'[w] \in LoopPcs \cup {"not_won", "check"}
<1> USE DEF nodeVars, callVars, chainVars, At, waitVars, FrameKept, Goto, LoopPcs
<1>0. w \in Ctx /\ Return(w) \in {"drain", "top", "idle"}
  BY DEF Ctx, Return
<1>1. CASE LoopTop(w) \/ s_inbox_drain(w) \/ s_inbox_deliver(w)
  BY ZenonT(40), <1>0, <1>1 DEF LoopTop, s_inbox_drain, s_inbox_deliver, TypeOK
<1>2. CASE DeliverWake(w)
  BY <1>0, <1>2 DEF DeliverWake, Proceed, TypeOK
<1>3. CASE suspenders_ready_dequeue(w)
  BY SMTT(30), <1>0, <1>3 DEF suspenders_ready_dequeue, Dispatch, TypeOK
<1>4. CASE s_injector_take(w)
  BY SMTT(30), <1>0, <1>4 DEF s_injector_take, TypeOK
<1>5. CASE InjectorDispatch(w)
  BY Zenon, <1>0, <1>5 DEF InjectorDispatch, Dispatch, TypeOK
<1>6. CASE LoopBack(w)
  BY SMTT(30), <1>0, <1>6 DEF LoopBack, Proceed, TypeOK
<1>7. CASE s_zombie_reap(w)
  BY <1>0, <1>7 DEF s_zombie_reap, TypeOK
<1>8. ASSUME NEW c \in Crs, s_wait_deadline_cb(w, c)
      PROVE  /\ UNCHANGED waitVars /\ \A y \in Ctx \ {w} : FrameKept(y)
             /\ pc[w] \in LoopPcs \cup {"not_won"}
             /\ pc'[w] \in LoopPcs \cup {"not_won", "check"}
  BY <1>0, <1>8 DEF s_wait_deadline_cb, TypeOK
<1> QED BY Zenon, <1>1, <1>2, <1>3, <1>4, <1>5, <1>6, <1>7, <1>8 DEF s_worker_loop

(* Every step keeps the invariant.                                         *)
LEMMA WaitStep ==
    TypeOK /\ PcInv /\ WaitInv /\ TypeOK' /\ PcInv' /\ [Next]_vars => WaitInv'
<1> SUFFICES ASSUME TypeOK, PcInv, WaitInv, TypeOK', PcInv', [Next]_vars PROVE WaitInv'
  OBVIOUS
<1>1. CASE UNCHANGED vars
  BY <1>1, UnchangedWait DEF vars, frameVars, waitVars, nodeVars
<1>2. ASSUME NEW w \in Workers, s_worker_loop(w) PROVE WaitInv'
  <2>1. /\ UNCHANGED waitVars /\ \A y \in Ctx \ {w} : FrameKept(y)
        /\ pc[w] \in LoopPcs \cup {"not_won"}
        /\ pc'[w] \in LoopPcs \cup {"not_won", "check"}
    BY <1>2, LoopStepFrame
  <2>2. Idle(w) /\ Idle(w)' /\ pc'[w] # "lock" /\ w \in Ctx /\ pc[w] \notin {"block", "sync"}
    BY <2>1 DEF Idle, Deciders, LoopPcs, Ctx
  <2> QED BY <2>1, <2>2, IdleStep DEF waitVars
<1> QED BY <1>1, <1>2, CrStepWait, ApiCallWait, WakeStepWait DEF Next

(* The invariant holds at the start: nobody waits.                         *)
LEMMA WaitInit == Init => WaitInv
<1> SUFFICES ASSUME Init PROVE WaitInv
  OBVIOUS
<1>1. Range(<<>>) = {} /\ IsInjective(<<>>)
  BY EmptyFacts
<1>2. /\ waiters = <<>> /\ \A c \in Crs : status[c] = "OK"
      /\ \A x \in Ctx : /\ pc[x] \in {"top", "run"} /\ kind[x] = "none"
                        /\ todo[x] = <<>> /\ granted[x] = <<>>
  BY Zenon DEF Init
<1>3. NodesInv /\ (\A x \in Ctx : HandsAt(x))
  BY <1>1, <1>2 DEF NodesInv, HandsAt
<1>4. WindowTrapsWaiter
  BY Zenon, <1>1, <1>2 DEF WindowTrapsWaiter, InWindow
<1> QED BY <1>2, <1>3, <1>4 DEF WaitInv

(* A decider that has published its verdict still has the waiter trapped   *)
(* in s_wait_block until it has closed its window, alone; and an undecided *)
(* wait is on the structure's list, once, or in the hands of a decider.    *)
THEOREM DeciderWindow == Spec => [](WindowTrapsWaiter /\ WaitersAreListed)
<1>1. TypeOK /\ PcInv /\ WaitInv /\ [Next]_vars => TypeOK' /\ PcInv' /\ WaitInv'
  BY TypeStep, PcStep, WaitStep
<1>2. Init => TypeOK /\ PcInv /\ WaitInv
  BY TypeInit, WaitInit
<1>3. TypeOK /\ WaitInv => WindowTrapsWaiter /\ WaitersAreListed
  <2> SUFFICES ASSUME TypeOK, WaitInv PROVE WaitersAreListed
    BY DEF WaitInv
  <2>1. Range(waiters) \subseteq Crs
    BY RangeFacts DEF TypeOK
  <2> QED BY Zenon, <2>1 DEF WaitInv, NodesInv, Reachable, WaitersAreListed
<1> QED BY <1>1, <1>2, <1>3, PTL DEF Spec
=============================================================================
