-------------------------- MODULE WaitProtocolPcs ---------------------------
(***************************************************************************)
(* Type correctness of WaitProtocol, second half: every step keeps PcInv,  *)
(* because it moves one context only, and to a place that agrees with the  *)
(* call it is in.                                                          *)
(***************************************************************************)
EXTENDS WaitProtocolTypes

(* The step leaves the frame of y alone.                                  *)
FrameKept(y) ==
    pc'[y] = pc[y] /\ kind'[y] = kind[y] /\ cur'[y] = cur[y] /\ granted'[y] = granted[y]

LEMMA FrameTypes ==
    ASSUME TypeOK
    PROVE  /\ pc \in [Ctx -> Labels] /\ DOMAIN kind = Ctx /\ DOMAIN cur = Ctx
           /\ DOMAIN granted = Ctx
  BY Zenon DEF TypeOK, Labels

(* A step that moves only x keeps PcInv if it holds of x.                  *)
LEMMA OneFrame ==
    ASSUME TypeOK, PcInv, NEW x \in Ctx, PcAt(x)', \A y \in Ctx \ {x} : FrameKept(y)
    PROVE  PcInv'
  BY DEF PcInv, PcAt, FrameKept, NoTarget, Deciding, Outside

(* A coroutine's own steps leave the frames of the others alone.           *)
LEMMA CrStepFrame ==
    ASSUME TypeOK, NEW w \in Workers, NEW x \in Crs, CrStep(w, x)
    PROVE  \A y \in Ctx \ {x} : FrameKept(y)
<1> USE DEF FrameKept, Goto, callVars, frameVars
<1>1. pc \in [Ctx -> Labels]
  BY DEF TypeOK, Labels
<1>2. CASE \/ suspenders_yield(w, x) \/ suspenders_suspend(w, x) \/ SuspendReturns(w, x)
           \/ suspenders_cr_exit(w, x) \/ s_pre_block(w, x)
  BY <1>1, <1>2 DEF suspenders_yield, suspenders_suspend, SuspendReturns,
      suspenders_cr_exit, s_pre_block
<1>3. CASE \/ s_wait_park(w, x) \/ s_wait_block(w, x) \/ s_wait_decider_sync(w, x)
           \/ WaitReturns(w, x) \/ Preempt(w, x)
  BY <1>1, <1>3 DEF s_wait_park, s_wait_block, s_wait_decider_sync, WaitReturns, Preempt
<1> QED BY Zenon, <1>2, <1>3 DEF CrStep

(* A coroutine's own steps keep PcInv.                                     *)
LEMMA CrStepPc ==
    ASSUME TypeOK, PcInv, NEW w \in Workers, NEW x \in Crs, CrStep(w, x)
    PROVE  PcInv'
<1> USE DEF callVars, frameVars, At, Goto, PcInv, PcAt
<1>0. x \in Ctx /\ x \notin Workers /\ x \notin Threads
  BY Zenon, ContextsAreDistinct DEF Ctx
<1>1. PcAt(x)'
  <2>1. CASE suspenders_yield(w, x)
    BY Zenon, <1>0, <2>1 DEF suspenders_yield
  <2>2. CASE suspenders_suspend(w, x)
    BY ZenonT(40), <1>0, <2>2 DEF suspenders_suspend, TypeOK, CrPcs, CallPcs, NoTarget
  <2>3. CASE SuspendReturns(w, x)
    BY ZenonT(40), <1>0, <2>3 DEF SuspendReturns, TypeOK, CrPcs, CallPcs, NoTarget
  <2>4. CASE suspenders_cr_exit(w, x)
    BY ZenonT(40), <1>0, <2>4 DEF suspenders_cr_exit, TypeOK, CrPcs, CallPcs, NoTarget
  <2>5. CASE s_pre_block(w, x)
    BY <1>0, <2>5 DEF s_pre_block, TypeOK, CrPcs, CallPcs, NoTarget
  <2>6. CASE s_wait_park(w, x)
    BY ZenonT(40), <1>0, <2>6 DEF s_wait_park, TypeOK, CrPcs, CallPcs, NoTarget
  <2>7. CASE s_wait_block(w, x)
    <3>1. pc[x] = "block" /\ kind' = kind /\ cur' = cur /\ granted' = granted
      BY Zenon, <2>7 DEF s_wait_block
    <3>2. pc' = pc \/ pc' = [pc EXCEPT ![x] = "sync"]
      BY Zenon, <2>7 DEF s_wait_block
    <3>3. pc'[x] \in {"block", "sync"}
      BY Zenon, <1>0, <3>1, <3>2 DEF TypeOK
    <3> QED BY Zenon, <1>0, <3>1, <3>3 DEF CrPcs, CallPcs, NoTarget
  <2>8. CASE s_wait_decider_sync(w, x)
    BY Zenon, <1>0, <2>8 DEF s_wait_decider_sync
  <2>9. CASE WaitReturns(w, x)
    BY ZenonT(40), <1>0, <2>9 DEF WaitReturns, TypeOK, CrPcs, CallPcs, NoTarget
  <2>10. CASE Preempt(w, x)
    BY ZenonT(40), <1>0, <2>10 DEF Preempt, TypeOK, CrPcs, CallPcs, NoTarget
  <2> QED BY Zenon, <2>1, <2>2, <2>3, <2>4, <2>5, <2>6, <2>7, <2>8, <2>9, <2>10 DEF CrStep
<1> QED BY Zenon, <1>0, <1>1, CrStepFrame, OneFrame

(* API calls keep PcInv when called.                                       *)
LEMMA ApiCallPc ==
    ASSUME TypeOK, PcInv, NEW w \in Workers \cup {NoWorker}, NEW x \in Crs \cup Threads,
           ApiCall(w, x)
    PROVE  PcInv'
<1> USE DEF callVars, chainVars, frameVars, At, Goto, PcInv, PcAt
<1>0. x \in Ctx /\ x \notin Workers /\ NoCr \notin Crs
  BY Zenon, ContextsAreDistinct DEF Ctx
<1>1. PcAt(x)'
  <2>1. CASE suspenders_cond_signal(w, x)
    <3>1. Head(waiters) \in Crs
      BY Zenon, <2>1, PopFacts DEF suspenders_cond_signal, TypeOK
    <3> QED BY SMTT(30), <1>0, <2>1, <3>1
            DEF suspenders_cond_signal, OpenWindow, TypeOK, CrPcs, CallPcs, NoTarget, Deciding
  <2>2. CASE suspenders_cond_broadcast(w, x)
    <3>1. Head(waiters) \in Crs
      BY <2>2, PopFacts DEF suspenders_cond_broadcast, TypeOK
    <3> QED BY SMTT(30), <1>0, <2>2, <3>1
            DEF suspenders_cond_broadcast, OpenWindow, TypeOK, CrPcs, CallPcs, NoTarget,
                Deciding
  <2>3. ASSUME NEW d \in Crs, s_spawn_impl(w, x, d) PROVE PcAt(x)'
    BY Zenon, <1>0, <2>3 DEF s_spawn_impl
  <2>4. ASSUME NEW d \in Crs, suspenders_resume(w, x, d) PROVE PcAt(x)'
    BY <1>0, <2>4 DEF suspenders_resume, Call, TypeOK, CrPcs, CallPcs, NoTarget
  <2>5. ASSUME NEW d \in Crs, suspenders_cancel(w, x, d) PROVE PcAt(x)'
    BY ZenonT(40), <1>0, <2>5 DEF suspenders_cancel, Call, TypeOK, CrPcs, CallPcs, NoTarget
  <2> QED BY ZenonT(40), <2>1, <2>2, <2>3, <2>4, <2>5 DEF ApiCall
<1>2. \A y \in Ctx \ {x} : FrameKept(y)
  <2>1. /\ pc \in [Ctx -> Labels] /\ kind \in [Ctx -> Kinds]
        /\ cur \in [Ctx -> Crs \cup {NoCr}] /\ granted \in [Ctx -> Seq(Crs)]
    BY DEF TypeOK, Labels
  <2>2. CASE suspenders_cond_signal(w, x) \/ suspenders_cond_broadcast(w, x)
    BY <1>0, <2>1, <2>2
    DEF FrameKept, suspenders_cond_signal, suspenders_cond_broadcast, OpenWindow
  <2>3. CASE \E c \in Crs : \/ s_spawn_impl(w, x, c) \/ suspenders_resume(w, x, c)
                            \/ suspenders_cancel(w, x, c)
    BY <1>0, <2>1, <2>3
    DEF FrameKept, s_spawn_impl, suspenders_resume, suspenders_cancel, Call
  <2> QED BY Zenon, <2>2, <2>3 DEF ApiCall
<1> QED BY Zenon, <1>0, <1>1, <1>2, OneFrame

(* Going on with a call, or leaving it, keeps PcInv.                       *)
LEMMA ProceedPc ==
    ASSUME TypeOK, PcInv, NEW x \in Ctx, NEW label, Proceed(x, label),
           pc[x] \notin NoTarget, granted' = granted,
           \/ label = Return(x)
           \/ label = "preempt" /\ x \in Crs
           \/ label = "next" /\ kind[x] = "broadcast"
           \/ label = "end" /\ kind[x] \in Deciding \ {"broadcast"}
           \/ label = "push" /\ kind[x] \in Deciding \cup {"resume"}
    PROVE  PcAt(x)' /\ \A y \in Ctx \ {x} : FrameKept(y)
<1>0. cur[x] \in Crs /\ NoCr \notin Crs
  BY HasTarget, ContextsAreDistinct
<1>1. \A y \in Ctx \ {x} : FrameKept(y)
  BY DEF FrameKept, Proceed, Goto, TypeOK
<1>2. CASE label = Return(x)
  <2>1. label \in Resting
    BY <1>2 DEF Return, Resting
  <2>2. pc'[x] = label /\ cur'[x] = NoCr /\ kind'[x] = "none"
    BY <2>1 DEF Proceed, Goto, TypeOK
  <2>3. CASE x \in Workers
    <3>1. label \in {"drain", "top", "idle"} /\ x \notin Crs /\ x \notin Threads
      BY <1>2, <2>3, ContextsAreDistinct DEF Return
    <3>2. /\ pc'[x] \in NoTarget /\ pc'[x] \in LoopPcs /\ pc'[x] \notin CallPcs
          /\ pc'[x] # "deliver"
      BY Zenon, <2>2, <3>1 DEF NoTarget, LoopPcs, CallPcs
    <3> QED BY <1>1, <2>2, <2>3, <3>1, <3>2 DEF PcAt, CallPcs
  <2>4. CASE x \notin Workers
    <3>1. label = "run"
      BY <1>2, <2>4 DEF Return
    <3> QED BY <1>1, <2>2, <2>4, <3>1 DEF PcAt, CallPcs, CrPcs, NoTarget
  <2> QED BY <1>1, <2>3, <2>4
<1>3. CASE label = "preempt" /\ x \in Crs
  <2>1. pc'[x] = label /\ cur'[x] = NoCr /\ kind'[x] = "none"
    BY <1>3 DEF Proceed, Goto, TypeOK, Resting
  <2> QED BY <1>1, <1>3, <2>1, ContextsAreDistinct DEF PcAt, CallPcs, CrPcs, NoTarget
<1>4. CASE \/ label = "next" /\ kind[x] = "broadcast"
           \/ label = "end" /\ kind[x] \in Deciding \ {"broadcast"}
           \/ label = "push" /\ kind[x] \in Deciding \cup {"resume"}
  <2>1. pc'[x] = label /\ cur'[x] = cur[x] /\ kind'[x] = kind[x]
    BY <1>4 DEF Proceed, Goto, TypeOK, Resting
  <2>2. PcAt(x)
    BY DEF PcInv
  <2> QED BY Zenon, <1>0, <1>1, <1>4, <2>1, <2>2 DEF PcAt, CallPcs, CrPcs, NoTarget, Deciding, Outside
<1> QED BY Zenon, <1>2, <1>3, <1>4

(* The steps that decide and wake keep PcInv.                              *)
LEMMA WakeStepPc ==
    ASSUME TypeOK, PcInv, NEW w \in Workers \cup {NoWorker}, NEW x \in Ctx,
           WakeStep(w, x)
    PROVE  PcInv'
<1> USE DEF At, callVars, chainVars
<1>0. PcAt(x) /\ (x \in Workers => x \notin Crs /\ x \notin Threads) /\ NoCr \notin Crs
  BY ContextsAreDistinct DEF PcInv
<1> SUFFICES PcAt(x)' /\ \A y \in Ctx \ {x} : FrameKept(y)
  BY OneFrame
<1>1. CASE s_wait_grant(w, x)
  BY Zenon, <1>0, <1>1 DEF s_wait_grant, Goto, TypeOK, FrameKept, PcAt, CrPcs, CallPcs, NoTarget,
      Deciding, Outside
<1>2. CASE s_wake_no_preempt(w, x)
  <2>1. /\ pc[x] \notin NoTarget /\ kind[x] \in Deciding /\ granted' = granted
        /\ AfterWake(x) \in {"next", "end"}
        /\ AfterWake(x) = "next" <=> kind[x] = "broadcast"
    BY <1>0, <1>2 DEF s_wake_no_preempt, PcAt, AfterWake, NoTarget, CrPcs, Deciding, Outside
  <2>2. Proceed(x, "push") \/ Proceed(x, AfterWake(x))
    BY <1>2 DEF s_wake_no_preempt, ExchangeInflight
  <2> QED BY Zenon, <2>1, <2>2, ProceedPc
<1>3. CASE s_inbox_wake(w, x)
  <2>1. /\ pc[x] \notin NoTarget /\ kind[x] \in Deciding \cup {"resume"} /\ granted' = granted
        /\ \/ kind[x] = "resume" /\ AfterWake(x) = Return(x)
           \/ kind[x] = "broadcast" /\ AfterWake(x) = "next"
           \/ kind[x] \in Deciding \ {"broadcast"} /\ AfterWake(x) = "end"
    BY <1>0, <1>3 DEF s_inbox_wake, PcAt, AfterWake, NoTarget, CrPcs, Deciding, Outside
  <2>2. Proceed(x, AfterWake(x))
    BY <1>3 DEF s_inbox_wake
  <2> QED BY <2>1, <2>2, ProceedPc
<1>4. CASE s_wait_decide_end(w, x)
  <2>1. pc[x] \notin NoTarget /\ granted' = granted
    BY <1>4 DEF s_wait_decide_end, NoTarget, CrPcs
  <2>2. Proceed(x, Return(x)) \/ (x \in Crs /\ Proceed(x, "preempt"))
    BY <1>4 DEF s_wait_decide_end
  <2> QED BY <2>1, <2>2, ProceedPc
<1>5. CASE BroadcastNext(w, x)
  <2>1. \A y \in Ctx \ {x} : FrameKept(y)
    BY <1>5 DEF BroadcastNext, OpenWindow, Goto, FrameKept, TypeOK
  <2>2. CASE /\ todo[x] # <<>> /\ OpenWindow(x, "broadcast", Head(todo[x]))
    <3>1. Head(todo[x]) \in Crs
      BY <2>2, PopFacts DEF TypeOK
    <3> QED BY ZenonT(40), <1>0, <1>5, <2>1, <2>2, <3>1
            DEF BroadcastNext, OpenWindow, Goto, TypeOK, PcAt, CrPcs, CallPcs, NoTarget,
                Deciding, Outside
  <2>3. CASE /\ todo[x] = <<>> /\ Goto(x, "chain") /\ UNCHANGED kind
             /\ cur' = [cur EXCEPT ![x] = NoCr]
    <3>1. granted'[x] = Append(granted[x], cur[x]) /\ cur[x] \in Crs
      BY Zenon, <1>5, HasTarget DEF BroadcastNext, TypeOK, NoTarget, CrPcs
    <3>2. granted'[x] # <<>>
      BY ZenonT(40), <3>1, AppendFacts DEF TypeOK
    <3> QED BY Zenon, <1>0, <1>5, <2>1, <2>3, <3>2
            DEF BroadcastNext, Goto, TypeOK, PcAt, CrPcs, CallPcs, NoTarget, Deciding, Outside
  <2> QED BY <1>5, <2>2, <2>3 DEF BroadcastNext
<1>6. CASE s_wait_decide_end_chain(w, x)
  <2>1. /\ granted'[x] = Tail(granted[x]) /\ kind[x] = "broadcast" /\ cur[x] = NoCr
        /\ x \notin Workers /\ Return(x) = "run"
    BY <1>0, <1>6 DEF s_wait_decide_end_chain, TypeOK, PcAt, NoTarget, Return
  <2>2. \A y \in Ctx \ {x} : FrameKept(y)
    BY <1>6 DEF s_wait_decide_end_chain, Proceed, Goto, FrameKept, TypeOK
  <2>3. CASE Tail(granted[x]) = <<>>
    <3>1. pc'[x] = "run" /\ kind'[x] = "none" /\ cur'[x] = NoCr
      BY <1>6, <2>1, <2>3 DEF s_wait_decide_end_chain, Proceed, Goto, TypeOK, Resting
    <3> QED BY Zenon, <1>0, <2>1, <2>2, <3>1
            DEF PcAt, CrPcs, CallPcs, NoTarget, Deciding, Outside
  <2>4. CASE Tail(granted[x]) # <<>>
    <3>1. pc'[x] = "chain" /\ kind'[x] = kind[x] /\ cur'[x] = cur[x]
      BY Zenon, <1>6, <2>1, <2>4 DEF s_wait_decide_end_chain, Proceed, Goto, TypeOK, Resting
    <3> QED BY Zenon, <1>0, <2>1, <2>2, <2>4, <3>1
            DEF PcAt, CrPcs, CallPcs, NoTarget, Deciding, Outside
  <2> QED BY <2>3, <2>4
<1>7. CASE s_waiter_wake_check(w, x)
  <2>1. kind' = kind /\ cur' = cur /\ granted' = granted /\ pc[x] = "check"
    BY Zenon, <1>7 DEF s_waiter_wake_check
  <2>2. pc' = [pc EXCEPT ![x] = "lock"] \/ pc' = [pc EXCEPT ![x] = "not_won"]
    BY Zenon, <1>7 DEF s_waiter_wake_check, Goto
  <2>3. pc \in [Ctx -> Labels]
    BY Zenon DEF TypeOK, Labels
  <2>4. pc'[x] \in {"lock", "not_won"} /\ \A y \in Ctx \ {x} : FrameKept(y)
    BY <1>0, <2>1, <2>2, <2>3 DEF FrameKept
  <2> QED BY Zenon, <1>0, <2>1, <2>4
          DEF PcAt, CrPcs, CallPcs, NoTarget, Deciding, Outside
<1>8. CASE s_waiter_wake(w, x)
  <2>1. pc[x] = "lock" /\ granted' = granted
    BY Zenon, <1>8 DEF s_waiter_wake
  <2>2. \/ /\ pc' = [pc EXCEPT ![x] = "flip"] /\ kind' = [kind EXCEPT ![x] = kind[x]]
           /\ cur' = [cur EXCEPT ![x] = cur[x]]
        \/ pc' = [pc EXCEPT ![x] = "not_won"] /\ kind' = kind /\ cur' = cur
    BY Zenon, <1>8 DEF s_waiter_wake, OpenWindow, Goto
  <2>3. pc \in [Ctx -> Labels] /\ DOMAIN kind = Ctx /\ DOMAIN cur = Ctx
    BY Zenon DEF TypeOK, Labels
  <2>4. /\ pc'[x] \in {"flip", "not_won"} /\ kind'[x] = kind[x] /\ cur'[x] = cur[x]
        /\ \A y \in Ctx \ {x} : FrameKept(y)
    BY <1>0, <2>1, <2>2, <2>3 DEF FrameKept
  <2> QED BY Zenon, <1>0, <2>1, <2>4
          DEF PcAt, CrPcs, CallPcs, NoTarget, Deciding, Outside
<1>9. CASE NotWon(w, x)
  <2>1. CASE Proceed(x, Return(x))
    BY Zenon, <1>9, <2>1, ProceedPc DEF NotWon, NoTarget, CrPcs
  <2>2. CASE /\ kind[x] = "cancel" /\ Goto(x, "resume") /\ UNCHANGED cur
             /\ kind' = [kind EXCEPT ![x] = "resume"]
    BY ZenonT(40), <1>0, <1>9, <2>2 DEF NotWon, Goto, TypeOK, FrameKept, PcAt, CrPcs, CallPcs,
        NoTarget, Deciding, Outside
  <2> QED BY Zenon, <1>9, <2>1, <2>2 DEF NotWon
<1>10. CASE CancelLoadPin(w, x)
  <2>1. pc[x] = "load_pin" /\ cur' = cur /\ granted' = granted
    BY Zenon, <1>10 DEF CancelLoadPin
  <2>2. \/ pc' = [pc EXCEPT ![x] = "resume"] /\ kind' = [kind EXCEPT ![x] = "resume"]
        \/ pc' = [pc EXCEPT ![x] = "check"] /\ kind' = kind
    BY Zenon, <1>10 DEF CancelLoadPin, Goto
  <2>3. pc \in [Ctx -> Labels] /\ DOMAIN kind = Ctx
    BY Zenon DEF TypeOK, Labels
  <2>4. /\ \/ pc'[x] = "resume" /\ kind'[x] = "resume"
           \/ pc'[x] = "check" /\ kind'[x] = kind[x]
        /\ \A y \in Ctx \ {x} : FrameKept(y)
    BY <1>0, <2>1, <2>2, <2>3 DEF FrameKept
  <2> QED BY Zenon, <1>0, <2>1, <2>4
          DEF PcAt, CrPcs, CallPcs, NoTarget, Deciding, Outside
<1>11. CASE ResumeLoadPin(w, x)
  <2>1. CASE ExchangeInflight(x, cur[x])
    <3>1. /\ pc[x] \notin NoTarget /\ kind[x] = "resume" /\ granted' = granted
          /\ AfterWake(x) = Return(x)
      BY <1>0, <1>11 DEF ResumeLoadPin, PcAt, AfterWake, NoTarget, CrPcs
    <3>2. Proceed(x, "push") \/ Proceed(x, AfterWake(x))
      BY <2>1 DEF ExchangeInflight
    <3> QED BY Zenon, <3>1, <3>2, ProceedPc
  <2>2. CASE Goto(x, "resume_local") /\ UNCHANGED <<kind, cur>>
    BY Zenon, <1>0, <1>11, <2>2 DEF ResumeLoadPin, Goto, TypeOK, FrameKept, PcAt, CrPcs, CallPcs,
        NoTarget, Deciding, Outside
  <2> QED BY Zenon, <1>11, <2>1, <2>2 DEF ResumeLoadPin
<1>12. CASE ResumeLocal(w, x)
  <2>1. pc[x] \notin NoTarget /\ granted' = granted
    BY Zenon, <1>12 DEF ResumeLocal, NoTarget, CrPcs
  <2>2. Proceed(x, Return(x)) \/ (x \in Crs /\ Proceed(x, "preempt"))
    BY Zenon, <1>12 DEF ResumeLocal
  <2> QED BY <2>1, <2>2, ProceedPc
<1> QED BY <1>1, <1>2, <1>3, <1>4, <1>5, <1>6, <1>7, <1>8, <1>9, <1>10, <1>11, <1>12
        DEF WakeStep

(* s_worker_loop keeps PcInv.                                              *)
LEMMA LoopStepPc ==
    ASSUME TypeOK, PcInv, NEW w \in Workers, s_worker_loop(w)
    PROVE  PcInv'
<1> USE DEF At, callVars, chainVars
<1>0. /\ PcAt(w) /\ w \in Ctx /\ w \notin Crs /\ w \notin Threads /\ NoCr \notin Crs
  BY ContextsAreDistinct DEF PcInv, Ctx
<1> SUFFICES PcAt(w)' /\ \A y \in Ctx \ {w} : FrameKept(y)
  BY Zenon, <1>0, OneFrame
<1>1. CASE LoopTop(w)
  <2>1. kind' = kind /\ cur' = cur /\ granted' = granted /\ pc[w] \in {"top", "idle"}
    BY <1>1 DEF LoopTop
  <2>2. pc' = [pc EXCEPT ![w] = "drain"] \/ pc' = [pc EXCEPT ![w] = "pick"]
    BY <1>1 DEF LoopTop, Goto
  <2>3. pc \in [Ctx -> Labels]
    BY Zenon DEF TypeOK, Labels
  <2>4. pc'[w] \in {"drain", "pick"} /\ \A y \in Ctx \ {w} : FrameKept(y)
    BY <1>0, <2>1, <2>2, <2>3 DEF FrameKept
  <2> QED BY Zenon, <1>0, <2>1, <2>4
          DEF PcAt, CrPcs, LoopPcs, CallPcs, NoTarget
<1>2. CASE s_inbox_drain(w)
  <2>1. CASE batch[w] # <<>>
    <3>1. Head(batch[w]) \in Crs
      BY <2>1, PopFacts DEF TypeOK
    <3>2. /\ pc'[w] = "deliver" /\ kind'[w] = "drain" /\ cur'[w] \in Crs
          /\ \A y \in Ctx \ {w} : FrameKept(y)
      BY <1>0, <1>2, <2>1, <3>1 DEF s_inbox_drain, Goto, TypeOK, FrameKept
    <3> QED BY Zenon, <1>0, <3>2 DEF PcAt, CrPcs, LoopPcs, CallPcs, NoTarget
  <2>2. CASE batch[w] = <<>>
    <3>1. /\ pc[w] = "drain" /\ pc' = [pc EXCEPT ![w] = "pick"]
          /\ kind' = kind /\ cur' = cur /\ granted' = granted
      BY Zenon, <1>2, <2>2 DEF s_inbox_drain, Goto
    <3>2. pc'[w] = "pick" /\ \A y \in Ctx \ {w} : FrameKept(y)
      BY <1>0, <3>1, FrameTypes DEF FrameKept
    <3> QED BY Zenon, <1>0, <3>1, <3>2 DEF PcAt, CrPcs, LoopPcs, CallPcs, NoTarget
  <2> QED BY <2>1, <2>2
<1>3. CASE s_inbox_deliver(w)
  BY Zenon, <1>0, <1>3 DEF s_inbox_deliver, Goto, TypeOK, FrameKept, PcAt, CrPcs, LoopPcs, CallPcs,
      NoTarget, Outside
<1>4. CASE DeliverWake(w)
  BY Zenon, <1>0, <1>4, ProceedPc DEF DeliverWake, NoTarget, CrPcs
<1>5. CASE suspenders_ready_dequeue(w)
  <2>1. PICK q \in Levels :
          /\ TopLevel(ready[w], q)
          /\ cur' = [cur EXCEPT ![w] = Head(ready[w][q])]
          /\ Dispatch(w, Head(ready[w][q]))
    BY Zenon, <1>5 DEF suspenders_ready_dequeue
  <2>2. ready[w][q] \in Seq(Crs) /\ ready[w][q] # <<>>
    BY <2>1 DEF TypeOK, TopLevel
  <2>3. Head(ready[w][q]) \in Crs
    BY Zenon, <2>2, PopFacts
  <2>4. /\ pc'[w] = "back" /\ kind'[w] = "none" /\ cur'[w] \in Crs
        /\ \A y \in Ctx \ {w} : FrameKept(y)
    <3>1. /\ pc[w] = "pick" /\ pc' = [pc EXCEPT ![w] = "back"]
          /\ kind' = kind /\ granted' = granted
      BY Zenon, <1>5, <2>1 DEF suspenders_ready_dequeue, Dispatch, Goto
    <3>2. kind[w] = "none"
      BY Zenon, <1>0, <3>1 DEF PcAt, CallPcs
    <3> QED BY <1>0, <2>1, <2>3, <3>1, <3>2, FrameTypes DEF FrameKept
  <2> QED BY Zenon, <1>0, <2>4 DEF PcAt, CrPcs, LoopPcs, CallPcs, NoTarget
<1>6. CASE s_injector_take(w)
  <2>1. PICK q \in Levels :
          TopLevel(injector, q) /\ cur' = [cur EXCEPT ![w] = Head(injector[q])]
    BY Zenon, <1>6 DEF s_injector_take
  <2>2. Head(injector[q]) \in Crs
    BY <2>1, PopFacts DEF TypeOK, TopLevel
  <2>3. /\ pc'[w] = "pinned" /\ kind'[w] = "none" /\ cur'[w] \in Crs
        /\ \A y \in Ctx \ {w} : FrameKept(y)
    BY ZenonT(40), <1>0, <1>6, <2>1, <2>2 DEF s_injector_take, Goto, TypeOK, FrameKept, PcAt, CallPcs
  <2> QED BY Zenon, <1>0, <2>3 DEF PcAt, CrPcs, LoopPcs, CallPcs, NoTarget
<1>7. CASE InjectorDispatch(w)
  BY Zenon, <1>0, <1>7 DEF InjectorDispatch, Dispatch, Goto, TypeOK, FrameKept, PcAt, CrPcs, LoopPcs,
      CallPcs, NoTarget
<1>8. CASE LoopBack(w)
  <2>1. CASE /\ Goto(w, "deliver") /\ kind' = [kind EXCEPT ![w] = "redeliver"]
             /\ UNCHANGED cur
    BY ZenonT(40), <1>0, <1>8, <2>1 DEF LoopBack, Goto, TypeOK, FrameKept, PcAt, CrPcs, LoopPcs, CallPcs,
        NoTarget
  <2>2. CASE Proceed(w, "top")
    <3>1. /\ pc'[w] = "top" /\ kind'[w] = "none" /\ cur'[w] = NoCr
          /\ \A y \in Ctx \ {w} : FrameKept(y)
      BY <1>0, <1>8, <2>2 DEF LoopBack, Proceed, Goto, TypeOK, FrameKept, Resting
    <3> QED BY Zenon, <1>0, <3>1 DEF PcAt, CrPcs, LoopPcs, CallPcs, NoTarget
  <2> QED BY Zenon, <1>8, <2>1, <2>2 DEF LoopBack
<1>9. CASE s_zombie_reap(w)
  BY Zenon, <1>0, <1>9 DEF s_zombie_reap, Goto, TypeOK, FrameKept, PcAt, CrPcs, LoopPcs, CallPcs,
      NoTarget
<1>10. ASSUME NEW c \in Crs, s_wait_deadline_cb(w, c)
       PROVE  PcAt(w)' /\ \A y \in Ctx \ {w} : FrameKept(y)
  BY <1>0, <1>10 DEF s_wait_deadline_cb, Goto, TypeOK, FrameKept, PcAt, CrPcs, LoopPcs,
      CallPcs, NoTarget, Outside
<1> QED BY Zenon, <1>1, <1>2, <1>3, <1>4, <1>5, <1>6, <1>7, <1>8, <1>9, <1>10 DEF s_worker_loop

(* Every step keeps PcInv.                                                 *)
LEMMA PcStep ==
    TypeOK /\ PcInv /\ [Next]_vars => PcInv'
<1> SUFFICES ASSUME TypeOK, PcInv, [Next]_vars PROVE PcInv'
  OBVIOUS
<1>1. CASE UNCHANGED vars
  BY Zenon, <1>1 DEF PcInv, PcAt, vars, frameVars
<1> QED BY <1>1, CrStepPc, ApiCallPc, WakeStepPc, LoopStepPc DEF Next

(* The runtime starts well typed.                                          *)
LEMMA TypeInit == Init => TypeOK /\ PcInv
<1> SUFFICES ASSUME Init PROVE TypeOK /\ PcInv
  OBVIOUS
<1>1. <<>> \in Seq(Crs) /\ NoCr \notin Crs
  BY EmptyFacts, ContextsAreDistinct
<1>2. TypeOK
  BY <1>1, BootAssumption, BudgetAssumption
     DEF Init, TypeOK, States, Kinds, Verdicts, CrPcs, LoopPcs
<1>3. PcInv
  BY Zenon, ContextsAreDistinct DEF Init, PcInv, PcAt, Ctx, CrPcs, LoopPcs, CallPcs, NoTarget
<1> QED BY <1>2, <1>3

(* Type correctness: statuses, wait lists, ready lists, inboxes, pins and  *)
(* frames keep their types, and every context is at a place of its own     *)
(* code with a target where that code uses one.                            *)
THEOREM TypeCorrect == Spec => [](TypeOK /\ PcInv)
<1>1. TypeOK /\ PcInv /\ [Next]_vars => TypeOK' /\ PcInv'
  BY TypeStep, PcStep
<1> QED BY <1>1, TypeInit, PTL DEF Spec
=============================================================================
