------------------------------ MODULE Channel ------------------------------
(***************************************************************************)
(* Channels (a ring buffer, rendezvous when it has no slots) and select.   *)
(* A critical section under a channel's ticket lock is one step; select    *)
(* registers and unregisters its stack nodes one channel at a time, so     *)
(* other calls come in between.                                            *)
(*                                                                         *)
(* A wait is over when it is decided: that the decided coroutine is then   *)
(* woken, and cannot leave before its decider has finished, is shown in    *)
(* WaitProtocol.  A cancel or a deadline decides only the wait of a        *)
(* coroutine that is switched out, as there.                               *)
(***************************************************************************)
EXTENDS WqList, FiniteSetsExt

CONSTANTS Crs,         \* coroutines
          Threads,     \* callers that cannot block: the scheduler, main
          Chans,       \* channels
          Cap,         \* Cap[ch]: buf_sz
          SelectOps,   \* sequences of cases [ch, send] select is called with
          Budgets      \* bounds on the calls of each operation

Ctx == Crs \cup Threads
Ops == {"send", "recv", "try_send", "try_recv", "close", "select",
        "cancel", "timeout"}

ASSUME CapAssumption == Cap \in [Chans -> Nat]
ASSUME CallersAssumption ==
    /\ Crs \cap Threads = {} /\ Budgets \subseteq [Ops -> Nat]
    /\ \A o \in SelectOps : o \in Seq([ch : Chans, send : BOOLEAN]) /\ o # <<>>

VARIABLES
    \* the channels; a wait node is <<c, i>>: i is 0 for the coroutine's own
    \* wq_node and the case for a stack node of its select
    closed, buf, senders, receivers,
    \* status of the own node, winner of the select (0: none) and the status
    \* of the winning node
    status, winner, decided,
    \* the value a call sends, at its data_ptr
    val,
    cancel_requested,
    \* the call a context is in: its cases, how many are registered, the
    \* cases still to scan or to unregister, and whether to scan again
    pc, ops, at, order, rescan, result,
    \* history: cases of the call that took effect, values handed over
    done, delivered,
    \* bounds: calls left, the next value to send
    left, fresh

chanVars == <<closed, buf, senders, receivers>>
nodeVars == <<status, winner, decided>>
callVars == <<ops, at, order, rescan>>
vars == <<chanVars, nodeVars, val, cancel_requested, pc, callVars, result,
          done, delivered, left, fresh>>

Verdicts == {"OK", "CLOSED", "CANCELED", "TIMEDOUT"}
Init ==
    /\ closed = [ch \in Chans |-> FALSE] /\ buf = [ch \in Chans |-> <<>>]
    /\ senders = [ch \in Chans |-> <<>>] /\ receivers = [ch \in Chans |-> <<>>]
    /\ status = [c \in Crs |-> "OK"] /\ winner = [c \in Crs |-> 0]
    /\ decided = [c \in Crs |-> "OK"]
    /\ val = [x \in Ctx |-> 0]
    /\ cancel_requested = [c \in Crs |-> FALSE]
    /\ pc = [x \in Ctx |-> "idle"] /\ ops = [x \in Ctx |-> <<>>]
    /\ at = [x \in Ctx |-> 0] /\ order = [x \in Ctx |-> <<>>]
    /\ rescan = [x \in Ctx |-> FALSE]
    /\ result = [x \in Ctx |-> [st |-> "NONE", idx |-> 0]]
    /\ done = [x \in Ctx |-> {}] /\ delivered = [ch \in Chans |-> <<>>]
    /\ left \in Budgets /\ fresh = 1

Spend(op) == left[op] > 0 /\ left' = [left EXCEPT ![op] = @ - 1]
Goto(x, label) == pc' = [pc EXCEPT ![x] = label]
Return(x, st, i) ==
    Goto(x, "idle") /\ result' = [result EXCEPT ![x] = [st |-> st, idx |-> i]]

-----------------------------------------------------------------------------
(* s_chan_take_waiter: a node of a select is usable while its select has   *)
(* no winner; unusable nodes before the first usable one are discarded.    *)

Usable(n) == n[2] = 0 \/ winner[n[1]] = 0
Usables(l) == {k \in 1..Len(l) : Usable(l[k])}

(* Mutant: the newest waiter is served first.                              *)
TakeNewest(l) == CHOOSE k \in Usables(l) : \A j \in Usables(l) : k >= j

First(l) == CHOOSE k \in Usables(l) : \A j \in Usables(l) : k <= j
Rest(l) == IF Usables(l) = {} THEN <<>> ELSE SubSeq(l, First(l) + 1, Len(l))

(* The winner CAS and s_wait_grant, for each node of N.                    *)
Decide(N, st) ==
    LET won(c) == {n \in N : n[1] = c /\ n[2] # 0}
    IN /\ status' = [c \in Crs |-> IF <<c, 0>> \in N THEN st ELSE status[c]]
       /\ winner' = [c \in Crs |-> IF won(c) = {} THEN winner[c]
                                     ELSE (CHOOSE n \in won(c) : TRUE)[2]]
       /\ decided' = [c \in Crs |-> IF won(c) = {} THEN decided[c] ELSE st]

(* The cases of its current call x has completed so far.                   *)
Earlier(x) == IF pc[x] = "idle" THEN {} ELSE done[x]
Alone(x, i) == done' = [done EXCEPT ![x] = Earlier(x) \cup {i}]
Nothing(x) == done' = [done EXCEPT ![x] = Earlier(x)]
Together(x, i, n) == done' = [done EXCEPT ![x] = Earlier(x) \cup {i},
                                          ![n[1]] = @ \cup {n[2]}]

-----------------------------------------------------------------------------
(* s_chan_send_impl and s_chan_recv_impl up to the point where they would  *)
(* have to block: case i of x's call (0 for a plain call) completes with   *)
(* st.                                                                     *)

SendCompletes(x, i, ch, v, st) ==
    \/ /\ closed[ch] /\ st = "CLOSED" /\ Nothing(x)
       /\ UNCHANGED <<buf, receivers, nodeVars, delivered>>
    \/ /\ ~closed[ch] /\ Usables(receivers[ch]) # {} /\ st = "OK"
       /\ LET n == receivers[ch][First(receivers[ch])]
          IN Decide({n}, "OK") /\ Together(x, i, n)
       /\ receivers' = [receivers EXCEPT ![ch] = Rest(@)]
       /\ delivered' = [delivered EXCEPT ![ch] = Append(@, v)]
       /\ UNCHANGED buf
    \/ /\ ~closed[ch] /\ Usables(receivers[ch]) = {} /\ st = "OK"
       /\ Len(buf[ch]) < Cap[ch] /\ buf' = [buf EXCEPT ![ch] = Append(@, v)]
       /\ receivers' = [receivers EXCEPT ![ch] = <<>>] /\ Alone(x, i)
       /\ UNCHANGED <<nodeVars, delivered>>

SendBlocks(ch) ==
    /\ ~closed[ch] /\ Usables(receivers[ch]) = {} /\ Len(buf[ch]) >= Cap[ch]
    /\ receivers' = [receivers EXCEPT ![ch] = <<>>]

(* Mutant: a receive does not look for a parked sender.                    *)
RecvNoRefill(x, i, ch, st) ==
    \/ /\ buf[ch] # <<>> /\ st = "OK" /\ Alone(x, i)
       /\ delivered' = [delivered EXCEPT ![ch] = Append(@, Head(buf[ch]))]
       /\ buf' = [buf EXCEPT ![ch] = Tail(@)] /\ UNCHANGED <<senders, nodeVars>>
    \/ /\ buf[ch] = <<>> /\ Usables(senders[ch]) = {} /\ closed[ch]
       /\ st = "CLOSED" /\ senders' = [senders EXCEPT ![ch] = <<>>] /\ Nothing(x)
       /\ UNCHANGED <<buf, nodeVars, delivered>>

(* A parked sender is served with the receiver: its value takes the freed  *)
(* slot, or goes straight to the receiver.                                 *)
RecvCompletes(x, i, ch, st) ==
    \/ /\ buf[ch] # <<>> \/ Usables(senders[ch]) # {}
       /\ st = "OK" /\ senders' = [senders EXCEPT ![ch] = Rest(@)]
       /\ LET n == senders[ch][First(senders[ch])]
              q == IF Usables(senders[ch]) = {} THEN buf[ch]
                   ELSE Append(buf[ch], val[n[1]])
          IN /\ delivered' = [delivered EXCEPT ![ch] = Append(@, Head(q))]
             /\ buf' = [buf EXCEPT ![ch] = Tail(q)]
             /\ IF Usables(senders[ch]) = {}
                  THEN Alone(x, i) /\ UNCHANGED nodeVars
                  ELSE Decide({n}, "OK") /\ Together(x, i, n)
    \/ /\ buf[ch] = <<>> /\ Usables(senders[ch]) = {} /\ closed[ch]
       /\ st = "CLOSED" /\ senders' = [senders EXCEPT ![ch] = <<>>] /\ Nothing(x)
       /\ UNCHANGED <<buf, nodeVars, delivered>>

RecvBlocks(ch) ==
    /\ buf[ch] = <<>> /\ Usables(senders[ch]) = {} /\ ~closed[ch]
    /\ senders' = [senders EXCEPT ![ch] = <<>>]

(* s_pre_block: a coroutine about to block consumes a pending cancel.      *)
PreBlockFails(x, can_block) ==
    /\ can_block /\ cancel_requested[x]
    /\ cancel_requested' = [cancel_requested EXCEPT ![x] = FALSE]
    /\ Return(x, "CANCELED", 0) /\ Nothing(x)
    /\ UNCHANGED <<chanVars, nodeVars, val, callVars, delivered, fresh>>

(* s_wait_park on the coroutine's own node.                                *)
ParkOwnNode(x) ==
    /\ Goto(x, "parked") /\ Nothing(x)
    /\ status' = [status EXCEPT ![x] = "WAITING"]
    /\ UNCHANGED <<winner, decided, delivered, result>>

GiveUp(x, st) ==
    /\ Return(x, st, 0) /\ Nothing(x)
    /\ UNCHANGED <<nodeVars, delivered>>

s_chan_send_impl(x, ch, try_only) ==
    LET can_block == ~try_only /\ x \in Crs
    IN /\ pc[x] = "idle" /\ Spend(IF try_only THEN "try_send" ELSE "send")
       /\ \/ PreBlockFails(x, can_block)
          \/ /\ ~(can_block /\ cancel_requested[x])
             /\ val' = [val EXCEPT ![x] = fresh] /\ fresh' = fresh + 1
             /\ \/ /\ \E st \in Verdicts : /\ SendCompletes(x, 0, ch, fresh, st)
                                          /\ Return(x, st, 0)
                   /\ UNCHANGED senders
                \/ /\ SendBlocks(ch) /\ can_block /\ ParkOwnNode(x)
                   /\ senders' = [senders EXCEPT ![ch] = Append(@, <<x, 0>>)]
                   /\ UNCHANGED buf
                \/ /\ SendBlocks(ch) /\ ~can_block
                   /\ GiveUp(x, IF try_only THEN "FULL" ELSE "PERM")
                   /\ UNCHANGED <<buf, senders>>
             /\ UNCHANGED <<closed, cancel_requested, callVars>>

s_chan_recv_impl(x, ch, try_only) ==
    LET can_block == ~try_only /\ x \in Crs
    IN /\ pc[x] = "idle" /\ Spend(IF try_only THEN "try_recv" ELSE "recv")
       /\ \/ PreBlockFails(x, can_block)
          \/ /\ ~(can_block /\ cancel_requested[x])
             /\ \/ /\ \E st \in Verdicts : /\ RecvCompletes(x, 0, ch, st)
                                          /\ Return(x, st, 0)
                   /\ UNCHANGED receivers
                \/ /\ RecvBlocks(ch) /\ can_block /\ ParkOwnNode(x)
                   /\ receivers' = [receivers EXCEPT ![ch] = Append(@, <<x, 0>>)]
                   /\ UNCHANGED buf
                \/ /\ RecvBlocks(ch) /\ ~can_block
                   /\ GiveUp(x, IF try_only THEN "EMPTY" ELSE "PERM")
                   /\ UNCHANGED <<buf, receivers>>
             /\ UNCHANGED <<closed, cancel_requested, val, fresh, callVars>>

(* The end of s_wait_block_dl, once the wait is decided.                   *)
WaitReturns(x) ==
    /\ pc[x] = "parked" /\ status[x] # "WAITING" /\ Return(x, status[x], 0)
    /\ cancel_requested' =
         [cancel_requested EXCEPT ![x] = @ /\ status[x] # "CANCELED"]
    /\ UNCHANGED <<chanVars, nodeVars, val, callVars, done, delivered, left, fresh>>

(* Every waiter is told, a select through the first of its nodes.          *)
suspenders_chan_close(x, ch) ==
    LET l == senders[ch] \o receivers[ch]
        first(k) == ~\E j \in 1..k-1 : l[j][1] = l[k][1]
    IN /\ pc[x] = "idle" /\ Spend("close")
       /\ \/ /\ closed[ch] /\ Return(x, "CLOSED", 0) /\ Nothing(x)
             /\ UNCHANGED <<chanVars, nodeVars>>
          \/ /\ ~closed[ch] /\ Return(x, "OK", 0) /\ Alone(x, 0)
             /\ closed' = [closed EXCEPT ![ch] = TRUE]
             /\ senders' = [senders EXCEPT ![ch] = <<>>]
             /\ receivers' = [receivers EXCEPT ![ch] = <<>>]
             /\ Decide({l[k] : k \in {j \in Usables(l) : first(j)}}, "CLOSED")
             /\ UNCHANGED buf
       /\ UNCHANGED <<val, cancel_requested, callVars, delivered, fresh>>

-----------------------------------------------------------------------------
(* suspenders_select_dl.                                                   *)

(* Mutant: the scan leaves one case out.                                   *)
ShortScan(n) == {[k \in 1..n-1 |-> ((r + k) % n) + 1] : r \in 1..n}

(* The cases in the order of a scan: from a random start, cyclically.      *)
Rotations(n) == {[k \in 1..n |-> ((r + k) % n) + 1] : r \in 1..n}

(* The locals of the call go.                                              *)
Leave(x) ==
    /\ ops' = [ops EXCEPT ![x] = <<>>] /\ at' = [at EXCEPT ![x] = 0]
    /\ order' = [order EXCEPT ![x] = <<>>] /\ rescan' = [rescan EXCEPT ![x] = FALSE]

suspenders_select_dl(x, o) ==
    /\ pc[x] = "idle" /\ Spend("select")
    /\ \/ PreBlockFails(x, x \in Crs)
       \/ /\ ~(x \in Crs /\ cancel_requested[x])
          /\ Goto(x, "scan") /\ Nothing(x)
          /\ ops' = [ops EXCEPT ![x] = o] /\ rescan' = [rescan EXCEPT ![x] = FALSE]
          /\ \E r \in Rotations(Len(o)) : order' = [order EXCEPT ![x] = r]
          /\ val' = [val EXCEPT ![x] = fresh] /\ fresh' = fresh + 1
          /\ UNCHANGED <<chanVars, nodeVars, cancel_requested, at, result, delivered>>

(* One try operation of a scan: it completes the select, or comes to       *)
(* nothing.  A select that had registered goes by way of "finish".         *)
ScanCase(x) ==
    LET i == Head(order[x])
        op == ops[x][i]
    IN /\ pc[x] = "scan" /\ order[x] # <<>>
       /\ \/ /\ \E st \in Verdicts :
                  /\ \/ /\ op.send /\ SendCompletes(x, i, op.ch, val[x], st)
                        /\ UNCHANGED senders
                     \/ /\ ~op.send /\ RecvCompletes(x, i, op.ch, st)
                        /\ UNCHANGED receivers
                  /\ result' = [result EXCEPT ![x] = [st |-> st, idx |-> i]]
             /\ \/ rescan[x] /\ Goto(x, "finish") /\ UNCHANGED callVars
                \/ ~rescan[x] /\ Goto(x, "idle") /\ Leave(x)
          \/ /\ \/ op.send /\ SendBlocks(op.ch) /\ UNCHANGED senders
                \/ ~op.send /\ RecvBlocks(op.ch) /\ UNCHANGED receivers
             /\ order' = [order EXCEPT ![x] = Tail(@)]
             /\ UNCHANGED <<buf, nodeVars, pc, ops, at, rescan, result, done, delivered>>
       /\ UNCHANGED <<closed, val, cancel_requested, left, fresh>>

(* No case completed: a caller that cannot block gives up, another starts  *)
(* to register (and to wait, the first time).                              *)
ScanEnds(x) ==
    /\ pc[x] = "scan" /\ order[x] = <<>>
    /\ \/ /\ x \notin Crs /\ Return(x, "PERM", 0) /\ Leave(x)
          /\ UNCHANGED <<status, winner>>
       \/ /\ x \in Crs /\ Goto(x, "register") /\ at' = [at EXCEPT ![x] = 0]
          /\ status' = [status EXCEPT ![x] = IF rescan[x] THEN @ ELSE "WAITING"]
          /\ winner' = [winner EXCEPT ![x] = 0]
          /\ UNCHANGED <<result, ops, order, rescan>>
    /\ UNCHANGED <<chanVars, decided, val, cancel_requested, done, delivered, left, fresh>>

(* Mutant: registration looks at the buffer, not at parked counterparts.   *)
IgnoresParked(x, op) ==
    \/ closed[op.ch] \/ (op.send /\ Len(buf[op.ch]) < Cap[op.ch])
    \/ (~op.send /\ buf[op.ch] # <<>>)

(* Could the case complete now?  The select's own nodes do not count, but  *)
(* other nodes do, even those that have lost.                              *)
s_select_case_ready(x, op) ==
    LET foreign(l) == \E k \in 1..Len(l) : l[k][2] = 0 \/ l[k][1] # x
    IN \/ closed[op.ch]
       \/ op.send /\ (Len(buf[op.ch]) < Cap[op.ch] \/ foreign(receivers[op.ch]))
       \/ ~op.send /\ (buf[op.ch] # <<>> \/ foreign(senders[op.ch]))

Register(x) ==
    LET i == at[x] + 1
        op == ops[x][i]
    IN /\ pc[x] = "register"
       /\ \/ /\ s_select_case_ready(x, op) /\ Goto(x, "unregister")
             /\ rescan' = [rescan EXCEPT ![x] = TRUE]
             /\ order' = [order EXCEPT ![x] = [k \in 1..at[x] |-> k]]
             /\ UNCHANGED <<senders, receivers, at>>
          \/ /\ ~s_select_case_ready(x, op) /\ at' = [at EXCEPT ![x] = i]
             /\ IF op.send
                  THEN /\ senders' = [senders EXCEPT ![op.ch] = Append(@, <<x, i>>)]
                       /\ UNCHANGED receivers
                  ELSE /\ receivers' = [receivers EXCEPT ![op.ch] = Append(@, <<x, i>>)]
                       /\ UNCHANGED senders
             /\ Goto(x, IF i = Len(ops[x]) THEN "selecting" ELSE "register")
             /\ rescan' = [rescan EXCEPT ![x] = FALSE] /\ UNCHANGED order
       /\ UNCHANGED <<closed, buf, nodeVars, val, cancel_requested, ops, result,
                      done, delivered, left, fresh>>

(* Suspended until a channel has picked a winner or the wait is decided    *)
(* from outside.                                                           *)
SelectWakes(x) ==
    /\ pc[x] = "selecting" /\ (winner[x] # 0 \/ status[x] # "WAITING")
    /\ Goto(x, "unregister")
    /\ order' = [order EXCEPT ![x] = [k \in 1..at[x] |-> k]]
    /\ UNCHANGED <<chanVars, nodeVars, val, cancel_requested, ops, at, rescan,
                   result, done, delivered, left, fresh>>

(* Mutant: nodes are taken off the sender lists only.                      *)
UnregisterSendersOnly(x) ==
    LET i == Head(order[x])
        ch == ops[x][i].ch
    IN /\ pc[x] = "unregister" /\ order[x] # <<>>
       /\ senders' = [senders EXCEPT ![ch] = s_wq_remove(@, <<x, i>>)]
       /\ order' = [order EXCEPT ![x] = Tail(@)]
       /\ UNCHANGED <<closed, buf, receivers, nodeVars, val, cancel_requested, pc, ops, at,
                      rescan, result, done, delivered, left, fresh>>

Unregister(x) ==
    LET i == Head(order[x])
        ch == ops[x][i].ch
    IN /\ pc[x] = "unregister" /\ order[x] # <<>>
       /\ senders' = [senders EXCEPT ![ch] = s_wq_remove(@, <<x, i>>)]
       /\ receivers' = [receivers EXCEPT ![ch] = s_wq_remove(@, <<x, i>>)]
       /\ order' = [order EXCEPT ![x] = Tail(@)]
       /\ UNCHANGED <<closed, buf, nodeVars, val, cancel_requested, pc, ops, at,
                      rescan, result, done, delivered, left, fresh>>

(* Mutant: a select scans again although it has a winner.                  *)
RescanRegardless(x) ==
    /\ pc[x] = "unregister" /\ order[x] = <<>>
    /\ \/ /\ ~rescan[x] /\ Goto(x, "finish") /\ UNCHANGED order
          /\ result' = [result EXCEPT ![x] = [st |-> "NONE", idx |-> 0]]
       \/ /\ rescan[x] /\ Goto(x, "scan") /\ UNCHANGED result
          /\ \E r \in Rotations(Len(ops[x])) : order' = [order EXCEPT ![x] = r]
    /\ UNCHANGED <<chanVars, nodeVars, val, cancel_requested, ops, at, rescan,
                   done, delivered, left, fresh>>

(* Mutant: a select without a winner always tries again.                   *)
ParksAgain(x) ==
    /\ pc[x] = "unregister" /\ order[x] = <<>>
    /\ \/ /\ winner[x] # 0 /\ Goto(x, "finish") /\ UNCHANGED order
          /\ result' = [result EXCEPT ![x] = [st |-> "NONE", idx |-> 0]]
       \/ /\ winner[x] = 0 /\ Goto(x, "scan") /\ UNCHANGED result
          /\ \E r \in Rotations(Len(ops[x])) : order' = [order EXCEPT ![x] = r]
    /\ UNCHANGED <<chanVars, nodeVars, val, cancel_requested, ops, at, rescan,
                   done, delivered, left, fresh>>

(* All nodes are off: scan again if that is why, and nothing has been      *)
(* decided meanwhile.                                                      *)
Unregistered(x) ==
    /\ pc[x] = "unregister" /\ order[x] = <<>>
    /\ \/ /\ winner[x] # 0 \/ status[x] # "WAITING" \/ ~rescan[x]
          /\ Goto(x, "finish") /\ UNCHANGED order
          /\ result' = [result EXCEPT ![x] = [st |-> "NONE", idx |-> 0]]
       \/ /\ winner[x] = 0 /\ status[x] = "WAITING" /\ rescan[x]
          /\ Goto(x, "scan") /\ UNCHANGED result
          /\ \E r \in Rotations(Len(ops[x])) : order' = [order EXCEPT ![x] = r]
    /\ UNCHANGED <<chanVars, nodeVars, val, cancel_requested, ops, at, rescan,
                   done, delivered, left, fresh>>

(* Mutant: a completed select consumes the cancel, too.                    *)
WinnerEatsCancel(x) ==
    LET undecided == winner[x] = 0 /\ result[x].idx = 0
    IN /\ pc[x] = "finish" /\ status' = [status EXCEPT ![x] = "OK"]
       /\ \/ winner[x] # 0 /\ Return(x, decided[x], winner[x])
          \/ winner[x] = 0 /\ ~undecided /\ Goto(x, "idle") /\ UNCHANGED result
          \/ undecided /\ Return(x, status[x], 0)
       /\ cancel_requested' = [cancel_requested EXCEPT ![x] = @ /\ status[x] # "CANCELED"]
       /\ Leave(x)
       /\ UNCHANGED <<chanVars, winner, decided, val, done, delivered, left, fresh>>

(* A winner, or a case completed by a scan, beats a cancel or a deadline,  *)
(* whose request then stays pending.                                       *)
SelectReturns(x) ==
    LET undecided == winner[x] = 0 /\ result[x].idx = 0
    IN /\ pc[x] = "finish" /\ status' = [status EXCEPT ![x] = "OK"]
       /\ \/ winner[x] # 0 /\ Return(x, decided[x], winner[x])
          \/ winner[x] = 0 /\ ~undecided /\ Goto(x, "idle") /\ UNCHANGED result
          \/ undecided /\ Return(x, IF status[x] = "WAITING" THEN "ERROR" ELSE status[x], 0)
       /\ cancel_requested' = [cancel_requested EXCEPT ![x] =
                                 @ /\ ~(undecided /\ status[x] = "CANCELED")]
       /\ Leave(x)
       /\ UNCHANGED <<chanVars, winner, decided, val, done, delivered,
                      left, fresh>>

-----------------------------------------------------------------------------
(* Decisions from outside, of a coroutine that is switched out: blocked,   *)
(* preempted after its rescan has completed a case, or (the timer is off   *)
(* by then) yielding in s_wait_decider_sync for its winner.                *)

suspenders_cancel(c) ==
    /\ Spend("cancel") /\ cancel_requested' = [cancel_requested EXCEPT ![c] = TRUE]
    /\ UNCHANGED <<chanVars, nodeVars, val, pc, callVars, result, done, delivered, fresh>>

s_waiter_wake(c, st) ==
    /\ status[c] = "WAITING" /\ status' = [status EXCEPT ![c] = st]
    /\ senders' = [ch \in Chans |-> s_wq_remove(senders[ch], <<c, 0>>)]
    /\ receivers' = [ch \in Chans |-> s_wq_remove(receivers[ch], <<c, 0>>)]
    /\ UNCHANGED <<closed, buf, winner, decided, val, cancel_requested, pc, callVars,
                   result, done, delivered, fresh>>

SwitchedOut(c) ==
    pc[c] \in {"parked", "selecting"} \/ (pc[c] = "finish" /\ result[c].idx # 0)

CancelDelivered(c) ==
    /\ cancel_requested[c] /\ (SwitchedOut(c) \/ (pc[c] = "finish" /\ winner[c] # 0))
    /\ s_waiter_wake(c, "CANCELED") /\ UNCHANGED left

s_wait_deadline_cb(c) ==
    /\ SwitchedOut(c) /\ Spend("timeout")
    /\ s_waiter_wake(c, "TIMEDOUT")

-----------------------------------------------------------------------------
Calls(x) ==
    \/ \E ch \in Chans, try \in BOOLEAN : \/ s_chan_send_impl(x, ch, try)
                                          \/ s_chan_recv_impl(x, ch, try)
    \/ \E ch \in Chans : suspenders_chan_close(x, ch)
    \/ \E o \in SelectOps : suspenders_select_dl(x, o)

Scan(x) == ScanCase(x) \/ ScanEnds(x)

Steps(c) == \/ WaitReturns(c) \/ Register(c) \/ SelectWakes(c) \/ Unregister(c)
            \/ Unregistered(c) \/ SelectReturns(c)

Next ==
    \/ \E x \in Ctx : Calls(x) \/ Scan(x)
    \/ \E c \in Crs : \/ Steps(c) \/ suspenders_cancel(c) \/ CancelDelivered(c)
                      \/ s_wait_deadline_cb(c)

Spec == Init /\ [][Next]_vars

(* A call in progress goes on, and a cancel reaches a blocked coroutine    *)
(* (CancelEndsWait of WaitProtocol).                                       *)
Fairness ==
    /\ \A x \in Ctx : WF_vars(Scan(x))
    /\ \A c \in Crs : WF_vars(Steps(c)) /\ WF_vars(CancelDelivered(c))
FairSpec == Spec /\ Fairness

-----------------------------------------------------------------------------
(* Properties.                                                             *)

(* "Invariants under lock: receivers parked => buffer empty; senders       *)
(* parked => buffer full (or rendezvous)", through every take, refill,     *)
(* registration, cancel and close.                                         *)
ParkedMeansBlocked ==
    \A ch \in Chans :
        /\ receivers[ch] # <<>> => buf[ch] = <<>>
        /\ senders[ch] # <<>> => Len(buf[ch]) = Cap[ch]
        /\ Len(buf[ch]) <= Cap[ch]

(* No lost wakeup: a sender and a receiver that could serve each other     *)
(* never both wait on a channel, although a select looks at its channels   *)
(* one by one; and nobody waits on a closed channel.                       *)
NoMissedMatch ==
    \A ch \in Chans :
        /\ \A j \in Usables(senders[ch]), k \in Usables(receivers[ch]) :
             senders[ch][j][1] = receivers[ch][k][1]
        /\ closed[ch] => Usables(senders[ch]) = {} /\ Usables(receivers[ch]) = {}

(* The nodes of a select live on its stack and the own node is reused: a   *)
(* node on a list belongs to a call that is still registered there.        *)
NoDanglingNode ==
    \A ch \in Chans : \A n \in Range(senders[ch]) \cup Range(receivers[ch]) :
        \/ n[2] = 0 /\ pc[n[1]] = "parked" /\ status[n[1]] = "WAITING"
        \/ /\ n[2] \in 1..at[n[1]] /\ pc[n[1]] \in {"register", "selecting", "unregister"}
           /\ pc[n[1]] = "unregister" => n[2] \in Range(order[n[1]])

(* A call takes effect once, in the case it reports, or not at all if it   *)
(* fails: whoever serves a select on one channel, no other case of it and  *)
(* no scan of its own also completes.                                      *)
TakesEffectOnce ==
    \A x \in Ctx : pc[x] = "idle" =>
        done[x] = IF result[x].st = "OK" THEN {result[x].idx} ELSE {}

(* A cancel request is consumed by a CANCELED result and by nothing else:  *)
(* it survives a select or a wait that completed in spite of it.           *)
CancelKeptUntilReported ==
    [][\A c \in Crs : cancel_requested[c] /\ ~cancel_requested'[c]
         => pc'[c] = "idle" /\ result'[c].st = "CANCELED"]_vars

(* Each channel is a FIFO channel: what is on offer is the buffer and then *)
(* the values of the senders that can still be served.                     *)
Offered(ch) ==
    LET l == SelectSeq(senders[ch], Usable)
    IN buf[ch] \o [k \in 1..Len(l) |-> val[l[k][1]]]
MaxVal == Max({bound["send"] + bound["try_send"] + bound["select"] : bound \in Budgets})
Fifo(ch) == INSTANCE FifoChannel
              WITH Cap <- Cap[ch], Values <- 1..MaxVal, offers <- Offered(ch),
                   closed <- closed[ch], delivered <- delivered[ch]
ChannelsAreFifo ==                 \* \A ch \in Chans : Fifo(ch)!Spec
    /\ \A ch \in Chans : Fifo(ch)!Init
    /\ [][\A ch \in Chans : [Fifo(ch)!Next]_(Fifo(ch)!vars)]_vars

(* A select does not scan and register forever.                            *)
SelectSettles ==
    \A x \in Ctx : pc[x] \in {"scan", "register", "unregister", "finish"}
                    ~> pc[x] \in {"idle", "selecting"}

(* A cancel ends the blocked call it meets, also a select's, which parks   *)
(* its own node on no list.                                                *)
CancelEndsCall ==
    \A c \in Crs : pc[c] \in {"parked", "selecting"} /\ cancel_requested[c]
                    ~> pc[c] = "idle"
=============================================================================
