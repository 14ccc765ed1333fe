------------------------- MODULE WaitProtocolChains -------------------------
(***************************************************************************)
(* The remaining kinds of steps: to close a window, to move on to the next *)
(* waiter of a broadcast or from the last one, to leave a wait.            *)
(***************************************************************************)
EXTENDS WaitProtocolWindows

(* Closing the window of n: s_wait_decide_end, or one step of the chain.   *)
LEMMA CloseStep ==
    ASSUME TypeOK, PcInv, WaitInv, NEW x \in Ctx, NEW n \in Crs,
           InWindow(x, n), waker_busy' = [waker_busy EXCEPT ![n] = FALSE],
           UNCHANGED <<status, wait_lock, waiters, lock, todo, lk>>,
           \A y \in Ctx \ {x} : FrameKept(y),
           pc[x] \in {"end", "chain"}, pc'[x] \in CrPcs \cup LoopPcs \cup {"chain", "preempt"},
           x \in Crs => pc'[x] \notin {"block", "sync"},
           pc'[x] = "chain" => kind'[x] = "broadcast",
           granted'[x] # <<>> => pc'[x] = "chain",
           kind'[x] = "broadcast" => pc'[x] = "chain", cur'[x] = NoCr,
           IsInjective(granted'[x]), Range(granted'[x]) \subseteq Range(granted[x]) \ {n}
    PROVE  WaitInv'
<1>1. \A y \in Ctx \ {x} : /\ pc'[y] = pc[y] /\ kind'[y] = kind[y] /\ cur'[y] = cur[y]
                           /\ granted'[y] = granted[y]
  BY Zenon DEF FrameKept
<1>2. /\ waker_busy[n] /\ pc[n] \in {"block", "sync"} /\ n # x
      /\ \A y \in Ctx \ {x} : ~InWindow(y, n)
  BY DEF WaitInv, WindowTrapsWaiter
<1>3. \A c \in Crs : c # n => waker_busy'[c] = waker_busy[c]
  BY Zenon DEF TypeOK
<1>4. NodesInv'
  <2>1. Range(waiters) \subseteq Crs /\ n \notin Range(waiters)
    BY Zenon, <1>2, RangeFacts DEF TypeOK, WaitInv, NodesInv
  <2>2. \A c \in Crs : status'[c] = "WAITING" => pc'[c] = "block" /\ wait_lock'[c]
    BY Zenon, <1>1 DEF WaitInv, NodesInv, Ctx
  <2> QED BY Zenon, <1>3, <2>1, <2>2 DEF WaitInv, NodesInv
<1>5. Range(todo[x]) = {} /\ todo[x] = <<>>
  <2>1. todo[x] = <<>>
    <3>1. pc[x] = "end" => kind[x] # "broadcast"
      BY Zenon DEF PcInv, PcAt
    <3> QED BY <3>1 DEF WaitInv, HandsAt
  <2> QED BY Zenon, <2>1, EmptyFacts
<1>6. ASSUME NEW y \in Ctx PROVE HandsAt(y)'
  <2>1. HandsAt(y) /\ Range(todo[y]) \subseteq Crs
    BY Zenon, RangeFacts DEF WaitInv, TypeOK
  <2>2. \A c \in Range(todo[y]) : ~waker_busy'[c]
    BY Zenon, <1>2, <1>3, <2>1 DEF HandsAt
  <2>3. CASE y = x
    <3>1. NoCr \notin Range(granted'[x])
      BY SMTT(60), ContextsAreDistinct, RangeFacts DEF TypeOK
    <3> QED BY Zenon, <1>5, <2>1, <2>2, <2>3, <3>1 DEF HandsAt, CrPcs, LoopPcs
  <2>4. CASE y # x
    BY Zenon, <1>1, <2>1, <2>2, <2>4 DEF HandsAt
  <2> QED BY <2>3, <2>4
<1>7. ASSUME NEW c \in Crs, status'[c] = "WAITING" PROVE Reachable(c)'
  <2>1. Reachable(c)
    BY Zenon, <1>7 DEF WaitInv
  <2>2. \A y \in Ctx : pc[y] = "flip" => pc'[y] = "flip" /\ cur'[y] = cur[y]
    BY Zenon, <1>1
  <2> QED BY Zenon, <2>1, <2>2 DEF Reachable
<1>8. \A y \in Ctx, c \in Crs : InWindow(y, c)' => InWindow(y, c) /\ c # n
  <2> SUFFICES ASSUME NEW y \in Ctx, NEW c \in Crs, InWindow(y, c)'
               PROVE  InWindow(y, c) /\ c # n
    OBVIOUS
  <2>1. CASE y = x
    <3>1. c \in Range(granted'[x])
      BY Zenon, <2>1 DEF InWindow, CrPcs, LoopPcs
    <3> QED BY <2>1, <3>1 DEF InWindow
  <2>2. CASE y # x
    BY <1>1, <1>2, <2>2 DEF InWindow
  <2> QED BY Zenon, <2>1, <2>2
<1>9. WindowTrapsWaiter'
  <2> SUFFICES ASSUME NEW y \in Ctx, NEW c \in Crs, InWindow(y, c)'
               PROVE  /\ waker_busy'[c] /\ pc'[c] \in {"block", "sync"}
                      /\ \A z \in Ctx \ {y} : ~InWindow(z, c)'
    BY ZenonT(40) DEF WindowTrapsWaiter
  <2>1. /\ waker_busy[c] /\ pc[c] \in {"block", "sync"} /\ c # n
        /\ \A z \in Ctx \ {y} : ~InWindow(z, c)
    BY <1>8 DEF WaitInv, WindowTrapsWaiter
  <2>2. pc'[c] = pc[c]
    BY Zenon, <1>1, <2>1 DEF Ctx
  <2> QED BY ZenonT(40), <1>3, <1>8, <2>1, <2>2
<1> QED BY Zenon, <1>4, <1>6, <1>7, <1>9 DEF WaitInv

(* The loop of a broadcast goes on to its next waiter, under the lock.     *)
LEMMA NextWaiterStep ==
    ASSUME TypeOK, PcInv, WaitInv, NEW w, NEW x \in Ctx, BroadcastNext(w, x), todo[x] # <<>>
    PROVE  WaitInv'
<1> DEFINE n == Head(todo[x])
           o == cur[x]
<1>1. /\ pc[x] = "next" /\ granted' = [granted EXCEPT ![x] = Append(@, o)]
      /\ waker_busy' = [waker_busy EXCEPT ![n] = TRUE]
      /\ kind' = [kind EXCEPT ![x] = "broadcast"] /\ cur' = [cur EXCEPT ![x] = n]
      /\ pc' = [pc EXCEPT ![x] = "flip"] /\ todo' = [todo EXCEPT ![x] = Tail(@)]
      /\ UNCHANGED <<status, wait_lock, waiters, lock, lk>>
  BY Zenon DEF BroadcastNext, OpenWindow, At, Goto
<1>2. o \in Crs /\ kind[x] = "broadcast" /\ InWindow(x, o) /\ HandsAt(x)
  BY Zenon, <1>1, HasTarget DEF NoTarget, CrPcs, PcInv, PcAt, InWindow, WaitInv
<1>3. /\ n \in Crs /\ Tail(todo[x]) \in Seq(Crs) /\ IsInjective(Tail(todo[x]))
      /\ Range(todo[x]) = Range(Tail(todo[x])) \cup {n} /\ n \notin Range(Tail(todo[x]))
  BY <1>2, PopFacts DEF TypeOK, HandsAt
<1>4. granted[x] \in Seq(Crs) /\ todo[x] \in Seq(Crs)
  BY Zenon DEF TypeOK
<1>5. /\ Range(Append(granted[x], o)) = Range(granted[x]) \cup {o}
      /\ IsInjective(Append(granted[x], o))
  BY <1>2, <1>4, AppendFacts DEF HandsAt
<1>6. /\ granted'[x] = Append(granted[x], o) /\ todo'[x] = Tail(todo[x])
      /\ pc'[x] = "flip" /\ cur'[x] = n /\ kind'[x] = "broadcast"
  BY <1>1 DEF TypeOK
<1>7. \A y \in Ctx \ {x} : /\ pc'[y] = pc[y] /\ kind'[y] = kind[y] /\ cur'[y] = cur[y]
                           /\ granted'[y] = granted[y] /\ todo'[y] = todo[y]
  BY <1>1 DEF TypeOK
<1> HIDE DEF n, o
<1>8. /\ lock = x /\ status[n] = "WAITING" /\ ~waker_busy[n] /\ n \notin Range(waiters)
      /\ pc[n] = "block" /\ n # x /\ \A y \in Ctx : ~InWindow(y, n)
  BY Zenon, <1>1, <1>2, <1>3 DEF HandsAt, WaitInv, NodesInv, WindowTrapsWaiter
<1>9. \A c \in Crs : c # n => waker_busy'[c] = waker_busy[c]
  BY <1>1 DEF TypeOK
<1>10. waker_busy'[n]
  BY Zenon, <1>1, <1>3 DEF TypeOK
<1>11. NodesInv'
  <2>1. Range(waiters) \subseteq Crs
    BY Zenon, RangeFacts DEF TypeOK
  <2>2. \A c \in Crs : status'[c] = "WAITING" => pc'[c] = "block" /\ wait_lock'[c]
    BY Zenon, <1>1, <1>7 DEF WaitInv, NodesInv, Ctx
  <2> QED BY <1>1, <1>8, <1>9, <2>1, <2>2 DEF WaitInv, NodesInv
<1>12. \A y \in Ctx \ {x} : /\ pc[y] # "flip" /\ todo[y] = <<>> /\ Range(todo[y]) = {}
                            /\ kind[y] = "broadcast" => pc[y] = "chain"
  <2> SUFFICES ASSUME NEW y \in Ctx \ {x}
               PROVE  /\ pc[y] # "flip" /\ todo[y] = <<>> /\ Range(todo[y]) = {}
                      /\ kind[y] = "broadcast" => pc[y] = "chain"
    OBVIOUS
  <2>1. HandsAt(y)
    BY DEF WaitInv
  <2>2. pc[y] # "flip" /\ todo[y] = <<>> /\ (kind[y] = "broadcast" => pc[y] = "chain")
    BY <1>8, <2>1 DEF HandsAt
  <2> QED BY <2>2, EmptyFacts
<1>13. ASSUME NEW y \in Ctx PROVE HandsAt(y)'
  <2>1. CASE y = x
    <3>1. \A c \in Range(Tail(todo[x])) :
             status'[c] = "WAITING" /\ ~waker_busy'[c] /\ c \notin Range(waiters')
      <4>1. Range(todo[x]) \subseteq Crs
        BY Zenon, <1>4, RangeFacts
      <4> QED BY <1>1, <1>2, <1>3, <1>9, <4>1 DEF HandsAt
    <3>2. n \notin Range(granted[x]) \cup {o} \cup Range(Tail(todo[x]))
      BY ZenonT(40), <1>2, <1>3, <1>8 DEF InWindow
    <3> QED BY ZenonT(40), <1>1, <1>3, <1>5, <1>6, <1>8, <2>1, <3>1, <3>2 DEF HandsAt
  <2>2. CASE y # x
    BY SMTT(30), <1>1, <1>7, <1>12, <2>2 DEF WaitInv, HandsAt
  <2> QED BY <2>1, <2>2
<1>14. ASSUME NEW c \in Crs, status'[c] = "WAITING" PROVE Reachable(c)'
  <2>1. Reachable(c)
    BY <1>1, <1>14 DEF WaitInv
  <2>2. c \in Range(waiters) \/ c \in Range(todo[x])
    BY Zenon, <1>1, <1>12, <2>1 DEF Reachable
  <2> QED BY <1>1, <1>3, <1>6, <2>2 DEF Reachable
<1>15. \A y \in Ctx, c \in Crs : InWindow(y, c)' <=> InWindow(y, c) \/ (y = x /\ c = n)
  <2> SUFFICES ASSUME NEW y \in Ctx, NEW c \in Crs
               PROVE  InWindow(y, c)' <=> InWindow(y, c) \/ (y = x /\ c = n)
    OBVIOUS
  <2>1. CASE y = x
    BY <1>1, <1>2, <1>5, <1>6, <2>1 DEF InWindow, o
  <2>2. CASE y # x
    BY Zenon, <1>7, <2>2 DEF InWindow
  <2> QED BY <2>1, <2>2
<1>16. WindowTrapsWaiter'
  <2> SUFFICES ASSUME NEW y \in Ctx, NEW c \in Crs, InWindow(y, c)'
               PROVE  /\ waker_busy'[c] /\ pc'[c] \in {"block", "sync"}
                      /\ \A z \in Ctx \ {y} : ~InWindow(z, c)'
    BY Zenon DEF WindowTrapsWaiter
  <2>1. CASE c = n
    BY <1>3, <1>7, <1>8, <1>10, <1>15, <2>1 DEF Ctx
  <2>2. CASE c # n
    <3>1. /\ waker_busy[c] /\ pc[c] \in {"block", "sync"}
          /\ \A z \in Ctx \ {y} : ~InWindow(z, c)
      BY Zenon, <1>15, <2>2 DEF WaitInv, WindowTrapsWaiter
    <3>2. c # x /\ c \in Ctx
      BY <1>1, <3>1 DEF Ctx
    <3> QED BY Zenon, <1>7, <1>9, <1>15, <2>2, <3>1, <3>2
  <2> QED BY <2>1, <2>2
<1> QED BY <1>11, <1>13, <1>14, <1>16 DEF WaitInv

(* The last waiter of a broadcast is granted: the lock is released.        *)
LEMMA LastWaiterStep ==
    ASSUME TypeOK, PcInv, WaitInv, NEW w, NEW x \in Ctx, BroadcastNext(w, x), todo[x] = <<>>
    PROVE  WaitInv'
<1> DEFINE o == cur[x]
<1>1. /\ pc[x] = "next" /\ granted' = [granted EXCEPT ![x] = Append(@, o)]
      /\ cur' = [cur EXCEPT ![x] = NoCr] /\ lock' = Nobody
      /\ pc' = [pc EXCEPT ![x] = "chain"]
      /\ UNCHANGED <<status, waker_busy, wait_lock, waiters, kind, todo, lk>>
  BY DEF BroadcastNext, At, Goto
<1>2. o \in Crs /\ kind[x] = "broadcast" /\ InWindow(x, o) /\ HandsAt(x)
  BY Zenon, <1>1, HasTarget DEF NoTarget, CrPcs, PcInv, PcAt, InWindow, WaitInv
<1>3. lock = x /\ granted[x] \in Seq(Crs)
  BY Zenon, <1>1, <1>2 DEF HandsAt, TypeOK
<1>4. /\ Range(Append(granted[x], o)) = Range(granted[x]) \cup {o}
      /\ IsInjective(Append(granted[x], o))
  BY SMTT(60), <1>2, <1>3, AppendFacts DEF HandsAt
<1>5. granted'[x] = Append(granted[x], o) /\ pc'[x] = "chain" /\ cur'[x] = NoCr
  BY <1>1 DEF TypeOK
<1>6. \A y \in Ctx \ {x} : pc'[y] = pc[y] /\ cur'[y] = cur[y] /\ granted'[y] = granted[y]
  BY <1>1 DEF TypeOK
<1> HIDE DEF o
<1>7. NodesInv'
  <2>1. \A c \in Crs : status'[c] = "WAITING" => pc'[c] = "block" /\ wait_lock'[c]
    BY Zenon, <1>1, <1>6 DEF WaitInv, NodesInv, Ctx
  <2> QED BY Zenon, <1>1, <2>1 DEF WaitInv, NodesInv
<1>8. ASSUME NEW y \in Ctx PROVE HandsAt(y)'
  <2>1. CASE y = x
    <3>1. NoCr \notin Range(granted[x]) \cup {o} /\ Range(todo[x]) = {}
      BY <1>2, <1>3, ContextsAreDistinct, RangeFacts, EmptyFacts
    <3> QED BY Zenon, <1>1, <1>2, <1>4, <1>5, <2>1, <3>1 DEF HandsAt
  <2>2. CASE y # x
    <3>1. HandsAt(y)
      BY DEF WaitInv
    <3>2. pc[y] # "flip" /\ (kind[y] = "broadcast" => pc[y] = "chain")
      BY Zenon, <1>3, <2>2, <3>1 DEF HandsAt
    <3> QED BY Zenon, <1>1, <1>6, <2>2, <3>1, <3>2 DEF HandsAt
  <2> QED BY <2>1, <2>2
<1>9. ASSUME NEW c \in Crs, status'[c] = "WAITING" PROVE Reachable(c)'
  <2>1. Reachable(c)
    BY Zenon, <1>1, <1>9 DEF WaitInv
  <2>2. \A y \in Ctx : pc[y] = "flip" => pc'[y] = "flip" /\ cur'[y] = cur[y]
    BY <1>1, <1>6
  <2> QED BY <1>1, <2>1, <2>2 DEF Reachable
<1>10. \A y \in Ctx, c \in Crs : InWindow(y, c)' <=> InWindow(y, c)
  <2> SUFFICES ASSUME NEW y \in Ctx, NEW c \in Crs
               PROVE  InWindow(y, c)' <=> InWindow(y, c)
    BY Zenon
  <2>1. CASE y = x
    BY Zenon, <1>1, <1>2, <1>4, <1>5, <2>1 DEF InWindow, o
  <2>2. CASE y # x
    BY Zenon, <1>1, <1>6, <2>2 DEF InWindow
  <2> QED BY <2>1, <2>2
<1>11. WindowTrapsWaiter'
  <2> SUFFICES ASSUME NEW y \in Ctx, NEW c \in Crs, InWindow(y, c)'
               PROVE  /\ waker_busy'[c] /\ pc'[c] \in {"block", "sync"}
                      /\ \A z \in Ctx \ {y} : ~InWindow(z, c)'
    BY DEF WindowTrapsWaiter
  <2>1. /\ waker_busy[c] /\ pc[c] \in {"block", "sync"}
        /\ \A z \in Ctx \ {y} : ~InWindow(z, c)
    BY Zenon, <1>10 DEF WaitInv, WindowTrapsWaiter
  <2>2. c # x /\ c \in Ctx
    BY ZenonT(40), <1>1, <2>1 DEF Ctx
  <2> QED BY Zenon, <1>1, <1>6, <1>10, <2>1, <2>2
<1> QED BY <1>7, <1>8, <1>9, <1>11 DEF WaitInv

(* A decided waiter leaves s_wait_block, once no window traps it.          *)
LEMMA LeaveStep ==
    ASSUME TypeOK, PcInv, WaitInv, NEW x \in Crs, status[x] # "WAITING",
           NEW l \in {"sync", "run"}, pc' = [pc EXCEPT ![x] = l],
           pc[x] \in {"block", "sync"}, l = "run" => ~waker_busy[x],
           UNCHANGED <<status, waker_busy, waiters, lock, kind, cur, granted, todo, lk>>,
           \A c \in Crs \ {x} : wait_lock'[c] = wait_lock[c]
    PROVE  WaitInv'
<1>1. x \in Ctx /\ pc'[x] = l /\ \A y \in Ctx \ {x} : pc'[y] = pc[y]
  BY DEF TypeOK, Ctx
<1>2. NodesInv'
  <2>1. \A c \in Crs : status[c] = "WAITING" => pc'[c] = "block" /\ wait_lock'[c]
    BY Zenon, <1>1 DEF WaitInv, NodesInv, Ctx
  <2> QED BY Zenon, <2>1 DEF WaitInv, NodesInv
<1>3. ASSUME NEW y \in Ctx PROVE HandsAt(y)'
  <2>1. kind[x] # "broadcast"
    BY <1>1 DEF PcInv, PcAt, CallPcs
  <2> QED BY SMTT(30), <1>1, <2>1 DEF WaitInv, HandsAt
<1>4. ASSUME NEW c \in Crs, status'[c] = "WAITING" PROVE Reachable(c)'
  <2>1. Reachable(c)
    BY ZenonT(40), <1>4 DEF WaitInv
  <2> QED BY Zenon, <1>1, <2>1 DEF Reachable
<1>5. \A y \in Ctx, c \in Crs : InWindow(y, c)' <=> InWindow(y, c)
  BY Zenon, <1>1 DEF InWindow
<1>6. WindowTrapsWaiter'
  <2> SUFFICES ASSUME NEW y \in Ctx, NEW c \in Crs, InWindow(y, c)'
               PROVE  /\ waker_busy'[c] /\ pc'[c] \in {"block", "sync"}
                      /\ \A z \in Ctx \ {y} : ~InWindow(z, c)'
    BY Zenon DEF WindowTrapsWaiter
  <2>1. /\ waker_busy[c] /\ pc[c] \in {"block", "sync"}
        /\ \A z \in Ctx \ {y} : ~InWindow(z, c)
    BY <1>5 DEF WaitInv, WindowTrapsWaiter
  <2>2. pc'[c] \in {"block", "sync"}
    BY Zenon, <1>1, <2>1 DEF Ctx
  <2> QED BY Zenon, <1>5, <2>1, <2>2
<1> QED BY ZenonT(40), <1>2, <1>3, <1>4, <1>6 DEF WaitInv
=============================================================================
