------------------------ MODULE WaitProtocolWindows -------------------------
(***************************************************************************)
(* The inductive invariant behind the waker_busy handshake, and the kinds  *)
(* of steps that keep it: to park, to open a window, to publish a verdict. *)
(***************************************************************************)
EXTENDS WaitProtocolPcs

(* The inductive invariant.  A node that waits is that of a coroutine in   *)
(* s_wait_block, a listed node waits and has no decider; what a context    *)
(* holds while it decides (the lock, a popped node, the rest of a          *)
(* broadcast) is waiting and off the list; and a waiting node is listed or *)
(* in somebody's hands.                                                    *)

NodesInv ==
    /\ \A c \in Crs : status[c] = "WAITING" => pc[c] = "block" /\ wait_lock[c]
    /\ IsInjective(waiters)
    /\ \A c \in Range(waiters) : status[c] = "WAITING" /\ ~waker_busy[c]
HandsAt(x) ==
    /\ pc[x] = "lock" => lk[x]
    /\ pc[x] = "flip" => lock = x /\ status[cur[x]] = "WAITING"
    /\ kind[x] = "broadcast" /\ pc[x] # "chain" => lock = x
    /\ todo[x] # <<>> => kind[x] = "broadcast" /\ pc[x] # "chain"
    /\ granted[x] # <<>> => kind[x] = "broadcast"
    /\ IsInjective(todo[x]) /\ IsInjective(granted[x])
    /\ \A c \in Range(todo[x]) :
         status[c] = "WAITING" /\ ~waker_busy[c] /\ c \notin Range(waiters)
    /\ cur[x] \notin Range(granted[x]) \cup Range(todo[x])
Reachable(c) ==
    \/ c \in Range(waiters)
    \/ \E x \in Ctx : c \in Range(todo[x]) \/ (cur[x] = c /\ pc[x] = "flip")
WaitInv ==
    /\ NodesInv
    /\ \A x \in Ctx : HandsAt(x)
    /\ \A c \in Crs : status[c] = "WAITING" => Reachable(c)
    /\ WindowTrapsWaiter

(* The frame of x has nothing to do with a decision in progress.           *)
Deciders == {"flip", "wake", "push", "end", "next"}
Idle(x) == pc[x] # "chain" /\ (pc[x] \in Deciders => kind[x] = "resume")

(* All that the invariant depends on, but for pc, kind and cur.            *)
waitVars == <<nodeVars, granted, todo, lk>>

(* Outside a decision there is no broadcast and no pending flip.           *)
LEMMA NoDecision ==
    ASSUME TypeOK, PcInv, NEW x \in Ctx, Idle(x)
    PROVE  kind[x] # "broadcast" /\ pc[x] # "flip"
  BY Zenon DEF PcInv, PcAt, Idle, Deciders, Outside, Deciding, CallPcs, TypeOK, Kinds

(* A context outside a decision holds no node and no window.               *)
LEMMA EmptyHands ==
    ASSUME TypeOK, PcInv, WaitInv, NEW x \in Ctx, Idle(x)
    PROVE  /\ todo[x] = <<>> /\ granted[x] = <<>> /\ Range(todo[x]) = {} /\ Range(granted[x]) = {}
           /\ \A c \in Crs : ~InWindow(x, c)
<1>1. kind[x] # "broadcast" /\ HandsAt(x)
  BY NoDecision DEF WaitInv
<1>2. todo[x] = <<>> /\ granted[x] = <<>>
  BY <1>1 DEF HandsAt
<1>3. Range(todo[x]) = {} /\ Range(granted[x]) = {}
  BY <1>2, EmptyFacts
<1> QED BY <1>2, <1>3 DEF InWindow, Idle, Deciders

(* A step of a context outside a decision, that leaves the nodes alone,    *)
(* keeps the invariant.                                                    *)
LEMMA IdleStep ==
    ASSUME TypeOK, PcInv, WaitInv, TypeOK', PcInv',
           NEW x \in Ctx, \A y \in Ctx \ {x} : FrameKept(y) /\ lk'[y] = lk[y],
           Idle(x), Idle(x)', x \in Crs => pc[x] \notin {"block", "sync"},
           pc'[x] = "lock" => lk'[x], UNCHANGED <<nodeVars, granted, todo>>
    PROVE  WaitInv'
<1> USE DEF nodeVars
<1>0. kind[x] # "broadcast" /\ pc[x] # "flip" /\ kind'[x] # "broadcast" /\ pc'[x] # "flip"
  <2>1. kind[x] # "broadcast" /\ pc[x] # "flip"
    BY NoDecision
  <2>2. kind'[x] # "broadcast" /\ pc'[x] # "flip"
    BY Zenon DEF PcInv, PcAt, Idle, Deciders, Outside, Deciding, CallPcs, TypeOK, Kinds
  <2> QED BY <2>1, <2>2
<1>1. /\ todo[x] = <<>> /\ granted[x] = <<>> /\ Range(todo[x]) = {} /\ Range(granted[x]) = {}
      /\ \A c \in Crs : ~InWindow(x, c)
  BY Zenon, EmptyHands
<1>2. \A y \in Ctx \ {x} : pc'[y] = pc[y] /\ kind'[y] = kind[y] /\ cur'[y] = cur[y]
  BY DEF FrameKept
<1>3. NodesInv'
  <2>1. \A c \in Crs : status[c] = "WAITING" => pc'[c] = "block"
    BY <1>2 DEF WaitInv, NodesInv, Ctx
  <2> QED BY <2>1 DEF WaitInv, NodesInv
<1>4. ASSUME NEW y \in Ctx PROVE HandsAt(y)'
  <2>1. CASE y = x
    BY Zenon, <1>0, <1>1, <2>1 DEF WaitInv, HandsAt, Idle
  <2>2. CASE y # x
    BY <1>2, <2>2 DEF WaitInv, HandsAt
  <2> QED BY Zenon, <2>1, <2>2
<1>5. ASSUME NEW c \in Crs, status'[c] = "WAITING" PROVE Reachable(c)'
  BY SMTT(30), <1>0, <1>1, <1>2, <1>5 DEF WaitInv, Reachable
<1>6. \A y \in Ctx, c \in Crs : InWindow(y, c)' => y # x /\ InWindow(y, c)
  BY <1>1, <1>2 DEF InWindow, Idle, Deciders
<1>7. WindowTrapsWaiter'
  <2> SUFFICES ASSUME NEW y \in Ctx, NEW c \in Crs, InWindow(y, c)'
               PROVE  /\ waker_busy'[c] /\ pc'[c] \in {"block", "sync"}
                      /\ \A z \in Ctx \ {y} : ~InWindow(z, c)'
    BY Zenon DEF WindowTrapsWaiter
  <2>1. y # x /\ InWindow(y, c)
    BY <1>6
  <2>2. /\ waker_busy[c] /\ pc[c] \in {"block", "sync"}
        /\ \A z \in Ctx \ {y} : ~InWindow(z, c)
    BY Zenon, <2>1 DEF WaitInv, WindowTrapsWaiter
  <2>3. pc'[c] = pc[c]
    BY Zenon, <1>2, <2>2 DEF Ctx
  <2> QED BY Zenon, <1>6, <2>2, <2>3
<1> QED BY <1>3, <1>4, <1>5, <1>7 DEF WaitInv

(* x moves on inside a decision it has already published.                  *)
LEMMA WindowKept ==
    ASSUME TypeOK, PcInv, WaitInv, NEW x \in Ctx, UNCHANGED waitVars,
           \A y \in Ctx \ {x} : FrameKept(y), cur'[x] = cur[x], kind'[x] = kind[x],
           pc[x] \in Deciders \ {"flip"}, pc'[x] \in Deciders \ {"flip"}
    PROVE  WaitInv'
<1> USE DEF waitVars, nodeVars
<1>1. \A y \in Ctx \ {x} : pc'[y] = pc[y] /\ kind'[y] = kind[y] /\ cur'[y] = cur[y]
  BY DEF FrameKept
<1>2. NodesInv'
  <2>1. \A c \in Crs : status[c] = "WAITING" => pc'[c] = "block"
    BY <1>1 DEF WaitInv, NodesInv, Ctx, Deciders
  <2> QED BY <2>1 DEF WaitInv, NodesInv
<1>3. ASSUME NEW y \in Ctx PROVE HandsAt(y)'
  BY <1>1 DEF WaitInv, HandsAt, Deciders
<1>4. ASSUME NEW c \in Crs, status'[c] = "WAITING" PROVE Reachable(c)'
  BY <1>1, <1>4 DEF WaitInv, Reachable, Deciders
<1>5. \A y \in Ctx, c \in Crs : InWindow(y, c)' <=> InWindow(y, c)
  BY <1>1 DEF InWindow, Deciders
<1>6. WindowTrapsWaiter'
  <2> SUFFICES ASSUME NEW y \in Ctx, NEW c \in Crs, InWindow(y, c)'
               PROVE  /\ waker_busy'[c] /\ pc'[c] \in {"block", "sync"}
                      /\ \A z \in Ctx \ {y} : ~InWindow(z, c)'
    BY DEF WindowTrapsWaiter
  <2>1. /\ waker_busy[c] /\ pc[c] \in {"block", "sync"}
        /\ \A z \in Ctx \ {y} : ~InWindow(z, c)
    BY <1>5 DEF WaitInv, WindowTrapsWaiter
  <2>2. pc'[c] = pc[c]
    BY Zenon, <1>1, <2>1 DEF Ctx, Deciders
  <2> QED BY <1>5, <2>1, <2>2
<1> QED BY <1>2, <1>3, <1>4, <1>6 DEF WaitInv

(* So does a step that changes neither nodes nor frames.                   *)
LEMMA UnchangedWait ==
    ASSUME WaitInv, UNCHANGED waitVars, UNCHANGED <<pc, kind, cur>>
    PROVE  WaitInv'
  BY DEF WaitInv, waitVars, nodeVars, NodesInv, HandsAt, Reachable, WindowTrapsWaiter, InWindow

(* s_wait_park.                                                            *)
LEMMA ParkStep ==
    ASSUME TypeOK, PcInv, WaitInv, NEW w \in Workers, NEW x \in Crs, s_wait_park(w, x)
    PROVE  WaitInv'
<1> USE DEF s_wait_park, callVars
<1>1. /\ pc[x] = "park" /\ pc' = [pc EXCEPT ![x] = "block"] /\ lock = Nobody /\ x \in Ctx
      /\ status' = [status EXCEPT ![x] = "WAITING"]
      /\ waker_busy' = [waker_busy EXCEPT ![x] = FALSE]
      /\ wait_lock' = [wait_lock EXCEPT ![x] = TRUE]
      /\ waiters' = Append(waiters, x) /\ UNCHANGED <<lock, kind, cur, granted, todo, lk>>
  BY DEF At, Goto, Ctx
<1> HIDE DEF s_wait_park
<1>2. status[x] # "WAITING" /\ x \notin Range(waiters)
  BY Zenon, <1>1 DEF WaitInv, NodesInv
<1>3. Range(waiters') = Range(waiters) \cup {x} /\ IsInjective(waiters')
  BY SMTT(30), <1>1, <1>2, AppendFacts DEF TypeOK, WaitInv, NodesInv
<1>4. \A y \in Ctx : ~InWindow(y, x) /\ x \notin Range(todo[y])
  BY Zenon, <1>1, <1>2 DEF WaitInv, WindowTrapsWaiter, HandsAt
<1>5. NodesInv'
  BY SMTT(30), <1>1, <1>3 DEF WaitInv, NodesInv, TypeOK
<1>6. ASSUME NEW y \in Ctx PROVE HandsAt(y)'
  <2>1. HandsAt(y) /\ x \notin Range(todo[y])
    BY <1>4 DEF WaitInv
  <2>2. /\ pc'[y] = "lock" => pc[y] = "lock"
        /\ pc'[y] = "flip" => pc[y] = "flip"
        /\ pc'[y] = "chain" <=> pc[y] = "chain"
    BY Zenon, <1>1 DEF TypeOK
  <2>3. pc[y] = "flip" => cur[y] # x
    BY <1>2, <2>1 DEF HandsAt
  <2>4. \A c \in Range(todo[y]) : c # x
    BY <2>1
  <2>5. Range(todo[y]) \subseteq Crs
    BY RangeFacts DEF TypeOK
  <2>6. pc[y] = "flip" => status'[cur[y]] = "WAITING"
    BY SMTT(30), <1>1, <2>1, <2>3 DEF HandsAt, TypeOK
  <2>7. \A c \in Range(todo[y]) :
           status'[c] = "WAITING" /\ ~waker_busy'[c] /\ c \notin Range(waiters')
    BY SMTT(30), <1>1, <1>3, <2>1, <2>4, <2>5 DEF HandsAt, TypeOK
  <2> QED BY <1>1, <2>1, <2>2, <2>6, <2>7 DEF HandsAt
<1>7. ASSUME NEW c \in Crs, status'[c] = "WAITING" PROVE Reachable(c)'
  <2>1. CASE c = x
    BY <1>3, <2>1 DEF Reachable
  <2>2. CASE c # x
    <3>1. Reachable(c)
      BY Zenon, <1>1, <1>7, <2>2 DEF WaitInv, TypeOK
    <3>2. \A y \in Ctx : pc[y] = "flip" => pc'[y] = "flip"
      BY <1>1 DEF TypeOK
    <3> QED BY Zenon, <1>1, <1>3, <3>1, <3>2 DEF Reachable
  <2> QED BY <2>1, <2>2
<1>8. \A y \in Ctx, c \in Crs : InWindow(y, c)' <=> InWindow(y, c)
  BY Zenon, <1>1 DEF InWindow, TypeOK
<1>9. WindowTrapsWaiter'
  BY SMTT(30), <1>1, <1>4, <1>8 DEF WaitInv, WindowTrapsWaiter, TypeOK, Ctx
<1> QED BY <1>5, <1>6, <1>7, <1>9 DEF WaitInv

(* Under a free lock nobody is between popping a waiter and the flip.      *)
LEMMA FreeLock ==
    ASSUME TypeOK, WaitInv, lock = Nobody, NEW y \in Ctx
    PROVE  pc[y] # "flip" /\ todo[y] = <<>> /\ Range(todo[y]) = {}
<1>1. HandsAt(y) /\ lock # y
  BY ContextsAreDistinct DEF WaitInv
<1>2. pc[y] # "flip" /\ todo[y] = <<>>
  BY <1>1 DEF HandsAt
<1> QED BY <1>2, EmptyFacts

(* Popping or unlinking a node under the lock and opening its window       *)
(* (s_wait_grant and s_waiter_wake up to the flip).                        *)
LEMMA OpenStep ==
    ASSUME TypeOK, PcInv, WaitInv,
           NEW x \in Ctx, NEW n \in Crs, NEW k \in Kinds \ {"resume"}, NEW t \in Seq(Crs),
           Idle(x), x \in Crs => pc[x] \notin {"block", "sync"},
           lock = Nobody, lock' = x, n \in Range(waiters), OpenWindow(x, k, n),
           waiters' \in Seq(Crs), IsInjective(waiters'), IsInjective(t),
           Range(t) \cap Range(waiters') = {}, Range(t) \cup Range(waiters') = Range(waiters) \ {n},
           t # <<>> => k = "broadcast", todo' = [todo EXCEPT ![x] = t],
           UNCHANGED <<status, wait_lock, granted>>,
           \A y \in Ctx \ {x} : lk'[y] = lk[y]
    PROVE  WaitInv'
<1>1. /\ waker_busy' = [waker_busy EXCEPT ![n] = TRUE] /\ kind' = [kind EXCEPT ![x] = k]
      /\ cur' = [cur EXCEPT ![x] = n] /\ pc' = [pc EXCEPT ![x] = "flip"]
  BY DEF OpenWindow, Goto
<1>2. /\ kind[x] # "broadcast" /\ pc[x] # "flip" /\ pc[x] # "chain"
      /\ pc[x] \in Deciders => kind[x] = "resume"
  BY NoDecision DEF Idle
<1>3. todo[x] = <<>> /\ granted[x] = <<>> /\ Range(granted[x]) = {}
  <2>1. HandsAt(x)
    BY Zenon DEF WaitInv
  <2>2. todo[x] = <<>> /\ granted[x] = <<>>
    BY Zenon, <1>2, <2>1 DEF HandsAt
  <2> QED BY <2>2, EmptyFacts
<1>4. /\ status[n] = "WAITING" /\ ~waker_busy[n] /\ pc[n] = "block" /\ n # x
      /\ \A y \in Ctx : ~InWindow(y, n)
  BY Zenon, <1>1 DEF WaitInv, NodesInv, WindowTrapsWaiter
<1>5. \A y \in Ctx \ {x} : /\ pc'[y] = pc[y] /\ kind'[y] = kind[y] /\ cur'[y] = cur[y]
                           /\ todo'[y] = todo[y]
  BY Zenon, <1>1 DEF TypeOK
<1>6. pc'[x] = "flip" /\ kind'[x] = k /\ cur'[x] = n /\ todo'[x] = t
  BY <1>1 DEF TypeOK
<1>7. Range(waiters) \subseteq Crs /\ Range(waiters') \subseteq Range(waiters) \ {n}
      /\ Range(t) \subseteq Range(waiters) \ {n}
  BY ZenonT(40), RangeFacts DEF TypeOK
<1>8. \A c \in Range(waiters) \ {n} : status[c] = "WAITING" /\ ~waker_busy'[c]
  BY <1>1, <1>7 DEF WaitInv, NodesInv, TypeOK
<1>9. NodesInv'
  <2>1. \A c \in Crs : status[c] = "WAITING" => pc'[c] = "block" /\ wait_lock[c]
    BY ZenonT(40), <1>5, <1>6 DEF WaitInv, NodesInv, Ctx
  <2> QED BY ZenonT(40), <1>7, <1>8, <2>1 DEF NodesInv
<1>10. ASSUME NEW y \in Ctx PROVE HandsAt(y)'
  <2>1. CASE y = x
    <3>1. n \notin Range(granted'[x]) /\ n \notin Range(t)
      BY Zenon, <1>3, <1>7
    <3>2. \A c \in Range(t) : status'[c] = "WAITING" /\ ~waker_busy'[c] /\ c \notin Range(waiters')
      BY Zenon, <1>7, <1>8
    <3>3. IsInjective(granted'[x])
      BY <1>3, EmptyFacts
    <3> QED BY Zenon, <1>3, <1>4, <1>6, <2>1, <3>1, <3>2, <3>3 DEF HandsAt
  <2>2. CASE y # x
    <3>1. pc[y] # "flip" /\ todo[y] = <<>> /\ Range(todo[y]) = {} /\ lock # y
      BY FreeLock, ContextsAreDistinct
    <3>2. kind[y] = "broadcast" => pc[y] = "chain"
      BY Zenon, <3>1 DEF WaitInv, HandsAt
    <3> QED BY ZenonT(40), <1>5, <2>2, <3>1, <3>2 DEF WaitInv, HandsAt
  <2> QED BY Zenon, <2>1, <2>2
<1>11. ASSUME NEW c \in Crs, status'[c] = "WAITING" PROVE Reachable(c)'
  <2>1. c \in Range(waiters)
    <3>1. Reachable(c)
      BY Zenon, <1>11 DEF WaitInv
    <3>2. \A y \in Ctx : pc[y] # "flip" /\ Range(todo[y]) = {}
      BY Zenon, FreeLock
    <3> QED BY Zenon, <3>1, <3>2 DEF Reachable
  <2>2. CASE c = n
    BY ZenonT(40), <1>6, <2>2 DEF Reachable
  <2>3. CASE c # n
    BY Zenon, <1>6, <2>1, <2>3 DEF Reachable
  <2> QED BY <2>2, <2>3
<1>12. \A y \in Ctx, c \in Crs : InWindow(y, c)' <=> InWindow(y, c) \/ (y = x /\ c = n)
  <2> SUFFICES ASSUME NEW y \in Ctx, NEW c \in Crs
               PROVE  InWindow(y, c)' <=> InWindow(y, c) \/ (y = x /\ c = n)
    BY Zenon
  <2>1. CASE y = x
    BY ZenonT(40), <1>2, <1>3, <1>6, <2>1 DEF InWindow, Deciders
  <2>2. CASE y # x
    BY <1>5, <2>2 DEF InWindow
  <2> QED BY Zenon, <2>1, <2>2
<1>13. WindowTrapsWaiter'
  <2> SUFFICES ASSUME NEW y \in Ctx, NEW c \in Crs, InWindow(y, c)'
               PROVE  /\ waker_busy'[c] /\ pc'[c] \in {"block", "sync"}
                      /\ \A z \in Ctx \ {y} : ~InWindow(z, c)'
    BY Zenon DEF WindowTrapsWaiter
  <2>1. CASE c = n
    BY Zenon, <1>1, <1>4, <1>5, <1>12, <2>1 DEF TypeOK, Ctx
  <2>2. CASE c # n
    <3>1. /\ waker_busy[c] /\ pc[c] \in {"block", "sync"}
          /\ \A z \in Ctx \ {y} : ~InWindow(z, c)
      BY Zenon, <1>12, <2>2 DEF WaitInv, WindowTrapsWaiter
    <3>2. c # x /\ c \in Ctx
      BY Zenon, <3>1 DEF Ctx
    <3> QED BY Zenon, <1>1, <1>5, <1>12, <2>2, <3>1, <3>2 DEF TypeOK
  <2> QED BY Zenon, <2>1, <2>2
<1> QED BY Zenon, <1>9, <1>10, <1>11, <1>13 DEF WaitInv

(* s_wait_grant: the status flip.                                          *)
LEMMA FlipStep ==
    ASSUME TypeOK, PcInv, WaitInv, NEW w, NEW x \in Ctx, s_wait_grant(w, x)
    PROVE  WaitInv'
<1> DEFINE n == cur[x]
<1>1. /\ pc[x] = "flip" /\ pc' = [pc EXCEPT ![x] = "wake"]
      /\ status' = [status EXCEPT ![n] = Verdict(kind[x])]
      /\ lock' = IF lock = x /\ kind[x] # "broadcast" THEN Nobody ELSE lock
      /\ UNCHANGED <<waker_busy, wait_lock, waiters, kind, cur, granted, todo, lk>>
  BY ZenonT(40) DEF s_wait_grant, At, Goto, callVars
<1>2. n \in Crs /\ kind[x] # "resume" /\ kind[x] \in Deciding
  BY <1>1, HasTarget DEF NoTarget, CrPcs, PcInv, PcAt, Deciding, Outside
<1> HIDE DEF n
<1>3. lock = x /\ status[n] = "WAITING" /\ InWindow(x, n)
  BY ZenonT(40), <1>1, <1>2 DEF WaitInv, HandsAt, InWindow, n
<1>4. waker_busy[n] /\ pc[n] = "block" /\ n # x /\ n \in Ctx
  BY <1>1, <1>2, <1>3 DEF WaitInv, WindowTrapsWaiter, NodesInv, Ctx
<1>5. Verdict(kind[x]) # "WAITING"
  BY DEF Verdict
<1>6. \A c \in Crs : c # n => status'[c] = status[c]
  BY <1>1 DEF TypeOK
<1>7. status'[n] # "WAITING"
  BY Zenon, <1>1, <1>2, <1>5 DEF TypeOK
<1>8. \A y \in Ctx \ {x} : pc'[y] = pc[y]
  BY <1>1 DEF TypeOK
<1>9. pc'[x] = "wake"
  BY Zenon, <1>1 DEF TypeOK
<1>10. NodesInv'
  <2>1. Range(waiters) \subseteq Crs /\ n \notin Range(waiters)
    BY Zenon, <1>4, RangeFacts DEF TypeOK, WaitInv, NodesInv
  <2>2. \A c \in Crs : status'[c] = "WAITING" => pc'[c] = "block" /\ wait_lock'[c]
    BY <1>1, <1>6, <1>7, <1>8 DEF WaitInv, NodesInv, Ctx
  <2> QED BY Zenon, <1>1, <1>6, <2>1, <2>2 DEF WaitInv, NodesInv
<1>11. ASSUME NEW y \in Ctx PROVE HandsAt(y)'
  <2>1. HandsAt(y) /\ Range(todo[y]) \subseteq Crs
    BY Zenon, RangeFacts DEF WaitInv, TypeOK
  <2>2. n \notin Range(todo[y])
    BY <1>4, <2>1 DEF HandsAt
  <2>3. \A c \in Range(todo[y]) :
          status'[c] = "WAITING" /\ ~waker_busy'[c] /\ c \notin Range(waiters')
    BY Zenon, <1>1, <1>6, <2>1, <2>2 DEF HandsAt
  <2>4. CASE y = x
    BY ZenonT(40), <1>1, <1>3, <1>9, <2>1, <2>3, <2>4 DEF HandsAt
  <2>5. CASE y # x
    <3>1. pc[y] # "flip" /\ (kind[y] = "broadcast" => pc[y] = "chain")
      BY Zenon, <1>3, <2>1, <2>5 DEF HandsAt
    <3> QED BY ZenonT(40), <1>1, <1>8, <2>1, <2>3, <2>5, <3>1 DEF HandsAt
  <2> QED BY <2>4, <2>5
<1>12. ASSUME NEW c \in Crs, status'[c] = "WAITING" PROVE Reachable(c)'
  <2>1. c # n /\ Reachable(c)
    BY <1>6, <1>7, <1>12 DEF WaitInv
  <2> QED BY <1>1, <1>8, <2>1 DEF Reachable, n
<1>13. \A y \in Ctx, c \in Crs : InWindow(y, c)' <=> InWindow(y, c)
  BY Zenon, <1>1, <1>8, <1>9 DEF InWindow
<1>14. WindowTrapsWaiter'
  <2> SUFFICES ASSUME NEW y \in Ctx, NEW c \in Crs, InWindow(y, c)'
               PROVE  /\ waker_busy'[c] /\ pc'[c] \in {"block", "sync"}
                      /\ \A z \in Ctx \ {y} : ~InWindow(z, c)'
    BY DEF WindowTrapsWaiter
  <2>1. /\ waker_busy[c] /\ pc[c] \in {"block", "sync"}
        /\ \A z \in Ctx \ {y} : ~InWindow(z, c)
    BY <1>13 DEF WaitInv, WindowTrapsWaiter
  <2>2. pc'[c] = pc[c]
    BY <1>1, <1>8, <2>1 DEF Ctx
  <2> QED BY <1>1, <1>13, <2>1, <2>2
<1> QED BY Zenon, <1>10, <1>11, <1>12, <1>14 DEF WaitInv
=============================================================================
