-------------------------- MODULE TaskQueueProofs --------------------------
(***************************************************************************)
(* Proofs about the task queue, for any number of drainers, submitters and *)
(* tasks and any capacity: types, and a barrier runs alone.                *)
(***************************************************************************)
EXTENDS TaskQueue, SeqLemmas, FiniteSetTheorems

Tasks == [id : Nat \ {0}, by : Clients, barrier : BOOLEAN, sync : BOOLEAN]

Labels == {"unborn", "idle", "send", "parked", "undo", "wait", "waiting", "sleep", "drain",
           "draining", "recv", "enter", "wait_pending", "wait_active", "alone", "exec", "sync_done", "work_end", "exit", "gone"}

(* The queue's types; the channel knows exactly its parked drainers.       *)
QueueType ==
    /\ concurrency \in Nat /\ active \in Int /\ barrier_pending \in BOOLEAN
    /\ s_queue_work \in Int /\ submitted \in Nat
    /\ pc \in [Drainers \cup Clients -> Labels]
    /\ call \in [Clients -> Ops \cup {"none"}]
    /\ task \in [Drainers -> Tasks \cup {NoTask}]
    /\ chan \in Seq(Tasks) /\ receivers \in Seq(Drainers)
    /\ IsInjective(receivers) /\ \A d \in Range(receivers) : pc[d] = "parked"

(* The tasks that active counts, and the barriers past the first wait.     *)
Plain == {d \in Drainers : pc[d] = "exec" /\ ~task[d].barrier}
Section == {"wait_active", "alone", "exec"}
Barring == {d \in Drainers : pc[d] \in Section /\ task[d].barrier}

(* What the queue's mutex protects: active is the number of plain tasks    *)
(* that execute, barrier_pending says that the one pending barrier is in   *)
(* the section, and it executes only when no plain task does.              *)
MutexInv ==
    /\ active = Cardinality(Plain)
    /\ barrier_pending <=> Barring # {}
    /\ \A d, e \in Barring : d = e
    /\ \A d \in Barring : pc[d] = "exec" => Plain = {}
    /\ \A d \in Drainers : pc[d] \in {"wait_active", "alone"} => task[d].barrier

(* A serial queue has one drainer, and takes no section.                   *)
BarrierInv ==
    /\ QueueType
    /\ \A d \in Drainers : d > concurrency => pc[d] = "unborn"
    /\ concurrency > 1 => MutexInv

-----------------------------------------------------------------------------
(* Types.                                                                  *)

LEMMA TaskFacts ==
    ASSUME QueueType
    PROVE  /\ \A c \in Clients : NewTask(c) \in Tasks
           /\ \A c \in Clients : AfterSend(c) \in {"wait", "gone", "idle"}
           /\ \A c \in Clients : Resting(c) \in {"gone", "idle"}
           /\ AfterRecv \in {"enter", "exec"}
           /\ NoTask \notin Tasks /\ NoTask.barrier = FALSE
           /\ Admitted \subseteq Clients
<1>1. NoTask.id = 0 /\ NoTask.barrier = FALSE
  BY DEF NoTask
<1>2. Admitted \subseteq Clients
  <2>1. Len(chan) \in Nat /\ Cap \in Nat /\ \A i \in 1..Len(chan) : chan[i] \in Tasks
    BY QueueAssumption, LenProperties, ElementOfSeq DEF QueueType
  <2> QED BY <2>1 DEF Admitted, Tasks
<1>3. \A c \in Clients : NewTask(c) \in Tasks
  BY DEF QueueType, NewTask, Tasks
<1> QED BY <1>1, <1>2, <1>3 DEF AfterSend, Resting, AfterRecv, Tasks

(* A step in which the drainers that are parked stay on the channel.       *)
LEMMA ReceiversStay ==
    ASSUME QueueType, receivers' = receivers,
           \A d \in Drainers : pc[d] = "parked" => pc'[d] = "parked"
    PROVE  /\ receivers' \in Seq(Drainers) /\ IsInjective(receivers')
           /\ \A d \in Range(receivers') : pc'[d] = "parked"
<1>1. Range(receivers) \subseteq Drainers
  BY RangeFacts DEF QueueType
<1> QED BY <1>1 DEF QueueType

(* A parked submitter gives up: its task leaves the middle of chan.        *)
LEMMA RemoveAtFacts ==
    ASSUME NEW S, NEW s \in Seq(S), NEW i \in 1..Len(s)
    PROVE  LET r == SubSeq(s, 1, i - 1) \o SubSeq(s, i + 1, Len(s))
           IN /\ r \in Seq(S) /\ Len(r) = Len(s) - 1
              /\ \A j \in 1..Len(r) : r[j] = IF j < i THEN s[j] ELSE s[j + 1]
<1> DEFINE a == SubSeq(s, 1, i - 1)
           b == SubSeq(s, i + 1, Len(s))
           r == a \o b
<1>1. Len(s) \in Nat /\ i \in Nat /\ \A j \in 1..Len(s) : s[j] \in S
  BY LenProperties, ElementOfSeq
<1>2. a \in Seq(S) /\ Len(a) = i - 1 /\ \A j \in 1..i - 1 : a[j] = s[j]
  <2>1. \A j \in 1..i - 1 : s[j] \in S
    BY <1>1
  <2>2. /\ a \in Seq(S) /\ Len(a) = IF 1 <= i - 1 THEN (i - 1) - 1 + 1 ELSE 0
        /\ \A j \in 1..(i - 1) - 1 + 1 : a[j] = s[1 + j - 1]
    BY <1>1, <2>1, SubSeqProperties
  <2> QED BY <1>1, <2>2
<1>3. b \in Seq(S) /\ Len(b) = Len(s) - i /\ \A j \in 1..Len(s) - i : b[j] = s[i + j]
  <2>1. \A j \in i + 1..Len(s) : s[j] \in S
    BY <1>1
  <2>2. /\ b \in Seq(S) /\ Len(b) = IF i + 1 <= Len(s) THEN Len(s) - (i + 1) + 1 ELSE 0
        /\ \A j \in 1..Len(s) - (i + 1) + 1 : b[j] = s[i + 1 + j - 1]
    BY <1>1, <2>1, SubSeqProperties
  <2> QED BY <1>1, <2>2
<1> HIDE DEF a, b
<1>4. /\ r \in Seq(S) /\ Len(r) = Len(a) + Len(b)
      /\ \A j \in 1..Len(a) + Len(b) : r[j] = IF j <= Len(a) THEN a[j] ELSE b[j - Len(a)]
  BY Zenon, <1>2, <1>3, ConcatProperties
<1> HIDE DEF r
<1>5. /\ Len(s) \in Nat /\ i \in Nat /\ i >= 1 /\ i <= Len(s)
      /\ Len(a) = i - 1 /\ Len(b) = Len(s) - i /\ Len(r) = Len(a) + Len(b)
  BY <1>1, <1>2, <1>3, <1>4
<1>6. Len(r) = Len(s) - 1
  BY <1>5
<1>7. ASSUME NEW j \in 1..Len(r)
      PROVE  r[j] = IF j < i THEN s[j] ELSE s[j + 1]
  <2>1. r[j] = IF j <= Len(a) THEN a[j] ELSE b[j - Len(a)]
    BY <1>4, <1>5
  <2>2. CASE j < i
    <3>1. j <= Len(a) /\ j \in 1..i - 1
      BY <1>5, <2>2
    <3> QED BY <1>2, <2>1, <2>2, <3>1
  <2>3. CASE ~(j < i)
    <3>1. ~(j <= Len(a)) /\ j - Len(a) \in 1..Len(s) - i /\ i + (j - Len(a)) = j + 1
      BY <1>5, <1>6, <2>3
    <3>2. b[j - Len(a)] = s[i + (j - Len(a))]
      BY Zenon, <1>3, <3>1
    <3> QED BY <2>1, <2>3, <3>1, <3>2
  <2> QED BY <2>2, <2>3
<1> QED BY Zenon, <1>4, <1>6, <1>7 DEF a, b, r

LEMMA TypeInit == Init => QueueType
<1> SUFFICES ASSUME Init PROVE QueueType
  OBVIOUS
<1> USE DEF Labels, Ops
<1>1. concurrency \in Nat
  BY QueueAssumption DEF Init, Drainers
<1>2. <<>> \in Seq(Tasks) /\ <<>> \in Seq(Drainers) /\ IsInjective(<<>>) /\ Range(<<>>) = {}
  BY EmptyFacts
<1>3. task \in [Drainers -> Tasks \cup {NoTask}]
  BY DEF Init
<1>4. pc \in [Drainers \cup Clients -> Labels]
  <2>1. \A x \in Drainers \cup Clients :
           (IF x \in 1..concurrency THEN "recv"
            ELSE IF x \in Drainers \cup Delayed THEN "unborn" ELSE "idle") \in Labels
    BY Zenon
  <2> QED BY <2>1 DEF Init
<1>5. /\ call = [c \in Clients |-> "none"] /\ chan = <<>> /\ receivers = <<>>
      /\ active = 0 /\ barrier_pending = FALSE /\ s_queue_work = 0 /\ submitted = 0
  BY Zenon DEF Init
<1>6. call \in [Clients -> Ops \cup {"none"}] /\ active \in Int /\ s_queue_work \in Int
      /\ submitted \in Nat
  BY <1>5
<1>7. barrier_pending \in BOOLEAN
  BY <1>5, Zenon
<1> QED BY <1>1, <1>2, <1>3, <1>4, <1>5, <1>6, <1>7 DEF QueueType

(* One step per action; the drainers that an action moves off the channel  *)
(* leave receivers with it.                                                *)
LEMMA TypeStep == QueueType /\ [Next]_vars => QueueType'
<1> SUFFICES ASSUME QueueType, [Next]_vars PROVE QueueType'
  OBVIOUS
<1> USE DEF Labels, Ops
<1> DEFINE Stays == \A d \in Drainers : pc[d] = "parked" => pc'[d] = "parked"
<1>1. /\ concurrency \in Nat /\ active \in Int /\ barrier_pending \in BOOLEAN
      /\ s_queue_work \in Int /\ submitted \in Nat
      /\ pc \in [Drainers \cup Clients -> Labels] /\ call \in [Clients -> Ops \cup {"none"}]
      /\ task \in [Drainers -> Tasks \cup {NoTask}]
      /\ chan \in Seq(Tasks) /\ receivers \in Seq(Drainers) /\ Drainers \cap Clients = {}
      /\ Crs \subseteq Clients /\ Threads \subseteq Clients /\ Delayed \subseteq Clients
  BY QueueAssumption DEF QueueType, Clients
<1>2. ASSUME receivers' = receivers, Stays, concurrency' = concurrency, active' \in Int,
             barrier_pending' \in BOOLEAN, s_queue_work' \in Int, submitted' \in Nat,
             pc' \in [Drainers \cup Clients -> Labels], call' \in [Clients -> Ops \cup {"none"}],
             task' \in [Drainers -> Tasks \cup {NoTask}], chan' \in Seq(Tasks)
      PROVE  QueueType'
  BY <1>1, <1>2, ReceiversStay DEF QueueType
<1>3. ASSUME NEW c \in Crs \cup Threads, NEW op \in Ops, suspenders_queue_submit(c, op)
      PROVE  QueueType'
  BY <1>1, <1>2, <1>3
     DEF suspenders_queue_submit, MayCall, Begin, Goto, chanVars, barrierVars, Ops
<1>4. ASSUME NEW c \in Crs \cup Threads, NEW a \in Delayed, suspenders_queue_after(c, a)
      PROVE  QueueType'
  BY <1>1, <1>2, <1>4 DEF suspenders_queue_after, Goto, chanVars, barrierVars
<1>5. ASSUME NEW c \in Crs \cup Threads, suspenders_queue_destroy(c) PROVE QueueType'
  <2>1. chan' \in Seq(Tasks)
    <3> DEFINE n == IF Len(chan) < Cap THEN Len(chan) ELSE Cap
    <3>1. Len(chan) \in Nat /\ \A i \in 1..Len(chan) : chan[i] \in Tasks
      BY <1>1, LenProperties, ElementOfSeq
    <3>2. n \in Int /\ n <= Len(chan)
      BY <3>1, QueueAssumption
    <3>3. \A i \in 1..n : chan[i] \in Tasks
      BY <3>1, <3>2
    <3> HIDE DEF n
    <3>4. SubSeq(chan, 1, n) \in Seq(Tasks)
      BY <3>2, <3>3, SubSeqProperties
    <3> QED BY <1>5, <3>4 DEF suspenders_queue_destroy, n
  <2>2. receivers' = <<>>
    BY <1>5 DEF suspenders_queue_destroy
  <2>3. receivers' \in Seq(Drainers) /\ IsInjective(receivers') /\ Range(receivers') = {}
    BY <2>2, EmptyFacts
  <2>4. pc' \in [Drainers \cup Clients -> Labels]
    BY <1>1, <1>5 DEF suspenders_queue_destroy
  <2> QED BY <1>1, <1>5, <2>1, <2>3, <2>4 DEF suspenders_queue_destroy, QueueType, barrierVars
<1>6. ASSUME NEW a \in Delayed, s_queue_after_cr(a) PROVE QueueType'
  BY <1>1, <1>2, <1>6 DEF s_queue_after_cr, Begin, Goto, chanVars, barrierVars
<1>7. ASSUME NEW c \in Clients, s_queue_submit(c) PROVE QueueType'
  <2>1. NewTask(c) \in Tasks /\ AfterSend(c) \in Labels /\ AfterRecv \in Labels
    BY TaskFacts
  <2>2. CASE Goto(c, "undo") /\ UNCHANGED <<chan, receivers, task, submitted, call>>
    BY <1>1, <1>2, <1>7, <2>2 DEF s_queue_submit, Goto, barrierVars
  <2>3. CASE /\ receivers # <<>> /\ receivers' = Tail(receivers) /\ UNCHANGED chan
             /\ pc' = [pc EXCEPT ![c] = AfterSend(c), ![Head(receivers)] = AfterRecv]
             /\ task' = [task EXCEPT ![Head(receivers)] = NewTask(c)]
             /\ Returned({c}) /\ submitted' = submitted + 1
    <3>1. /\ Head(receivers) \in Drainers /\ Tail(receivers) \in Seq(Drainers)
          /\ Range(receivers) = Range(Tail(receivers)) \cup {Head(receivers)}
          /\ IsInjective(Tail(receivers)) /\ Head(receivers) \notin Range(Tail(receivers))
      BY <1>1, <2>3, PopFacts DEF QueueType
    <3>2. Range(receivers) \subseteq Drainers
      BY <1>1, RangeFacts
    <3>3. \A d \in Range(receivers') : pc'[d] = "parked"
      BY <1>1, <2>3, <3>1, <3>2 DEF QueueType
    <3>4. /\ pc' \in [Drainers \cup Clients -> Labels] /\ call' \in [Clients -> Ops \cup {"none"}]
          /\ task' \in [Drainers -> Tasks \cup {NoTask}]
      BY Zenon, <1>1, <2>1, <2>3, <3>1 DEF Returned
    <3>5. /\ concurrency' \in Nat /\ active' \in Int /\ barrier_pending' \in BOOLEAN
          /\ s_queue_work' \in Int /\ submitted' \in Nat /\ chan' \in Seq(Tasks)
      BY <1>1, <1>7, <2>3 DEF s_queue_submit, barrierVars
    <3>6. receivers' \in Seq(Drainers) /\ IsInjective(receivers')
      BY <2>3, <3>1
    <3> QED BY <3>3, <3>4, <3>5, <3>6 DEF QueueType
  <2>4. CASE /\ Goto(c, IF Len(chan) < Cap THEN AfterSend(c) ELSE "parked")
             /\ chan' = Append(chan, NewTask(c)) /\ Returned(IF Len(chan) < Cap THEN {c} ELSE {})
             /\ submitted' = submitted + 1 /\ UNCHANGED <<receivers, task>>
    <3>1. chan' \in Seq(Tasks)
      BY <1>1, <2>1, <2>4, AppendFacts
    <3>2. call' \in [Clients -> Ops \cup {"none"}]
      BY <1>1, <2>4 DEF Returned
    <3>3. pc' \in [Drainers \cup Clients -> Labels] /\ Stays
      BY <1>1, <2>1, <2>4 DEF Goto
    <3> HIDE DEF Stays
    <3> QED BY <1>1, <1>2, <1>7, <2>4, <3>1, <3>2, <3>3 DEF s_queue_submit, barrierVars
  <2> QED BY <1>7, <2>2, <2>3, <2>4 DEF s_queue_submit
<1>8. ASSUME NEW c \in Clients,
             UndoSubmit(c) \/ SyncReturn(c) \/ DestroyReturn(c) \/ CancelWait(c)
      PROVE  QueueType'
  <2>1. Resting(c) \in Labels
    BY TaskFacts
  <2>2. CASE UndoSubmit(c)
    BY <1>1, <1>2, <2>1, <2>2 DEF UndoSubmit, Goto, Returned, chanVars, barrierVars
  <2>3. CASE SyncReturn(c)
    BY <1>1, <1>2, <2>3 DEF SyncReturn, Goto, chanVars, barrierVars
  <2>4. CASE DestroyReturn(c)
    BY <1>1, <1>2, <2>4 DEF DestroyReturn, Goto, chanVars, barrierVars
  <2>5. CASE CancelWait(c)
    BY <1>1, <1>2, <2>5 DEF CancelWait, Goto, chanVars, barrierVars
  <2> QED BY <1>8, <2>2, <2>3, <2>4, <2>5
<1>9. ASSUME NEW c \in Crs, CancelSend(c) PROVE QueueType'
  <2>1. chan' \in Seq(Tasks)
    <3>1. CASE chan' = chan
      BY <1>1, <3>1
    <3>2. ASSUME NEW i \in Cap + 1..Len(chan),
                 chan' = SubSeq(chan, 1, i - 1) \o SubSeq(chan, i + 1, Len(chan))
          PROVE  chan' \in Seq(Tasks)
      <4>1. i \in 1..Len(chan)
        BY <1>1, QueueAssumption, LenProperties
      <4> QED BY <1>1, <3>2, <4>1, RemoveAtFacts
    <3> QED BY Zenon, <1>9, <3>1, <3>2 DEF CancelSend
  <2> QED BY <1>1, <1>2, <1>9, <2>1 DEF CancelSend, Goto, barrierVars
<1>10. ASSUME NEW d \in Drainers, Recv(d) PROVE QueueType'
  <2>1. AfterRecv \in Labels /\ Admitted \subseteq Clients
        /\ \A c \in Clients : AfterSend(c) \in Labels
    BY TaskFacts
  <2>2. CASE /\ pc[d] = "recv" /\ chan # <<>> /\ chan' = Tail(chan)
             /\ task' = [task EXCEPT ![d] = Head(chan)]
             /\ pc' = [x \in DOMAIN pc |-> IF x = d THEN AfterRecv
                                           ELSE IF x \in Admitted THEN AfterSend(x) ELSE pc[x]]
             /\ Returned(Admitted) /\ UNCHANGED receivers
    <3>1. Tail(chan) \in Seq(Tasks) /\ Head(chan) \in Tasks
      BY <1>1, <2>2, PopFacts
    <3>2. pc' \in [Drainers \cup Clients -> Labels] /\ Stays
      BY <1>1, <2>1, <2>2
    <3>3. task' \in [Drainers -> Tasks \cup {NoTask}] /\ call' \in [Clients -> Ops \cup {"none"}]
      BY <1>1, <2>2, <3>1 DEF Returned
    <3> HIDE DEF Stays
    <3> QED BY <1>1, <1>2, <1>10, <2>2, <3>1, <3>2, <3>3 DEF Recv, barrierVars
  <2>3. CASE pc[d] = "recv" /\ Goto(d, "exit") /\ UNCHANGED <<chan, task, receivers, call>>
    BY <1>1, <1>2, <1>10, <2>3 DEF Recv, Goto, barrierVars
  <2>4. CASE /\ pc[d] = "recv" /\ Goto(d, "parked") /\ receivers' = Append(receivers, d)
             /\ UNCHANGED <<chan, task, call>>
    <3>1. d \notin Range(receivers) /\ Range(receivers) \subseteq Drainers
      BY <1>1, <2>4, RangeFacts DEF QueueType
    <3>2. /\ receivers' \in Seq(Drainers) /\ IsInjective(receivers')
          /\ Range(receivers') = Range(receivers) \cup {d}
      BY SMTT(30), <1>1, <2>4, <3>1, AppendFacts DEF QueueType
    <3>3. \A e \in Range(receivers') : pc'[e] = "parked"
      BY <1>1, <2>4, <3>1, <3>2 DEF QueueType, Goto
    <3>4. pc' \in [Drainers \cup Clients -> Labels]
      BY <1>1, <2>4 DEF Goto
    <3> QED BY <1>1, <1>10, <2>4, <3>2, <3>3, <3>4 DEF QueueType, Recv, barrierVars
  <2> QED BY <1>10, <2>2, <2>3, <2>4 DEF Recv
<1>11. ASSUME NEW d \in Drainers, Enter(d) \/ Alone(d) PROVE QueueType'
  <2>1. CASE Enter(d)
    <3>1. pc[d] = "enter" /\ active' \in Int
      BY <1>1, <2>1 DEF Enter, barrierVars
    <3>2. barrier_pending' \in BOOLEAN
      BY <1>1, <2>1, Zenon DEF Enter, barrierVars
    <3>3. \/ Goto(d, "wait_pending")
          \/ Goto(d, IF active > 0 THEN "wait_active" ELSE "exec")
          \/ Goto(d, "exec")
      BY <2>1, Zenon DEF Enter
    <3>4. pc' \in [Drainers \cup Clients -> Labels] /\ Stays
      BY <1>1, <3>1, <3>3 DEF Goto
    <3> HIDE DEF Stays
    <3> QED BY <1>1, <1>2, <2>1, <3>1, <3>2, <3>4 DEF Enter, chanVars
  <2>2. CASE Alone(d)
    BY <1>1, <1>2, <2>2 DEF Alone, Goto, chanVars, barrierVars
  <2> QED BY <1>11, <2>1, <2>2
<1>12. ASSUME NEW d \in Drainers, Leave(d) PROVE QueueType'
  <2>1. pc' \in [Drainers \cup Clients -> Labels] /\ Stays
    BY <1>1, <1>12 DEF Leave, Woken
  <2>2. active' \in Int /\ barrier_pending' \in BOOLEAN
    BY <1>1, <1>12 DEF Leave, Counted
  <2> HIDE DEF Stays
  <2> QED BY <1>1, <1>2, <1>12, <2>1, <2>2 DEF Leave, chanVars
<1>13. ASSUME NEW d \in Drainers, SyncDone(d) \/ s_queue_work_end(d) \/ Exit(d)
       PROVE  QueueType'
  <2>1. CASE SyncDone(d)
    BY <1>1, <1>2, <2>1 DEF SyncDone, Goto, chanVars, barrierVars
  <2>2. CASE s_queue_work_end(d)
    BY <1>1, <1>2, <2>2 DEF s_queue_work_end, Goto, chanVars, barrierVars
  <2>3. CASE Exit(d)
    BY <1>1, <1>2, <2>3 DEF Exit, Goto, chanVars, barrierVars
  <2> QED BY <1>13, <2>1, <2>2, <2>3
<1>14. ASSUME NEW d \in Drainers, StrayCancel(d) PROVE QueueType'
  <2>1. CASE pc[d] = "parked" /\ Goto(d, "recv") /\ receivers' = s_wq_remove(receivers, d)
    <3>1. /\ receivers' \in Seq(Drainers) /\ IsInjective(receivers')
          /\ Range(receivers') = Range(receivers) \ {d}
      BY <1>1, <2>1, RemoveFacts DEF QueueType
    <3>2. Range(receivers) \subseteq Drainers
      BY <1>1, RangeFacts
    <3>3. \A e \in Range(receivers') : pc'[e] = "parked"
      BY <1>1, <2>1, <3>1, <3>2 DEF QueueType, Goto
    <3>4. pc' \in [Drainers \cup Clients -> Labels]
      BY <1>1, <2>1 DEF Goto
    <3> QED BY <1>1, <1>14, <3>1, <3>3, <3>4 DEF StrayCancel, QueueType, barrierVars
  <2>2. CASE /\ pc[d] \in {"wait_pending", "wait_active"} /\ Goto(d, Woken(pc[d]))
             /\ UNCHANGED receivers
    BY <1>1, <1>2, <1>14, <2>2 DEF StrayCancel, Goto, Woken, barrierVars
  <2> QED BY <1>14, <2>1, <2>2 DEF StrayCancel
<1>15. CASE UNCHANGED vars
  BY <1>1, <1>2, <1>15 DEF vars, chanVars, barrierVars
<1>16. Crs \subseteq Clients
  BY DEF Clients
<1> QED
  BY SMTT(30), <1>3, <1>4, <1>5, <1>6, <1>7, <1>8, <1>9, <1>10, <1>11, <1>12, <1>13, <1>14, <1>15,
     <1>16
     DEF Next, ClientStep, s_queue_drainer

-----------------------------------------------------------------------------
(* A barrier runs alone.                                                   *)

LEMMA PlainFinite == IsFiniteSet(Plain) /\ Cardinality(Plain) \in Nat
                     /\ (Cardinality(Plain) = 0 <=> Plain = {})
<1>1. IsFiniteSet(Drainers)
  BY QueueAssumption, FS_Interval DEF Drainers
<1>2. Plain \in SUBSET Drainers
  BY DEF Plain
<1>3. IsFiniteSet(Plain)
  BY <1>1, <1>2, FS_Subset
<1> QED BY <1>3, FS_CardinalityType, FS_EmptySet

(* A step outside the sections, or a barrier's look at active once more.   *)
LEMMA OutsideSections ==
    ASSUME MutexInv, active' = active, barrier_pending' = barrier_pending,
           \A d \in Drainers :
              \/ pc'[d] = pc[d] /\ task'[d] = task[d]
              \/ pc[d] \notin Section /\ pc'[d] \notin Section
              \/ pc[d] = "wait_active" /\ pc'[d] = "alone" /\ task'[d] = task[d]
    PROVE  MutexInv'
<1>1. /\ \A d \in Drainers : d \in Plain' <=> d \in Plain
      /\ \A d \in Drainers : d \in Barring' <=> d \in Barring
  BY DEF Plain, Barring, Section
<1>2. Plain' = Plain /\ Barring' = Barring
  BY <1>1, Zenon DEF Plain, Barring
<1>3. \A d \in Barring : pc'[d] = "exec" => pc[d] = "exec"
  BY DEF Barring, Section
<1>4. \A d \in Drainers : pc'[d] \in {"wait_active", "alone"} => task'[d].barrier
  BY DEF MutexInv, Section
<1>5. active' = Cardinality(Plain')
  BY <1>2 DEF MutexInv
<1>6. barrier_pending' <=> Barring' # {}
  BY <1>2, Zenon DEF MutexInv
<1>7. \A d \in Barring' : pc'[d] = "exec" => Plain' = {}
  BY <1>2, <1>3, Zenon DEF MutexInv
<1>8. \A d, e \in Barring' : d = e
  BY <1>2, Zenon DEF MutexInv
<1> QED BY <1>4, <1>5, <1>6, <1>7, <1>8, Zenon DEF MutexInv

(* The section before a task's function.                                   *)
LEMMA EnterSection ==
    ASSUME QueueType, MutexInv, NEW d \in Drainers, Enter(d) PROVE MutexInv'
<1>1. /\ pc \in [Drainers \cup Clients -> Labels] /\ task' = task /\ pc[d] = "enter"
      /\ active \in Int
  BY DEF QueueType, Enter
<1>2. CASE barrier_pending /\ Goto(d, "wait_pending") /\ UNCHANGED barrierVars
  BY <1>1, <1>2, OutsideSections DEF Goto, barrierVars, Section
<1>3. CASE /\ ~barrier_pending /\ task[d].barrier /\ barrier_pending' = TRUE
           /\ Goto(d, IF active > 0 THEN "wait_active" ELSE "exec") /\ UNCHANGED active
  <2>1. Barring = {}
    BY <1>3, Zenon DEF MutexInv
  <2>2. /\ \A e \in Drainers : e \in Plain' <=> e \in Plain
        /\ \A e \in Drainers : e \in Barring' <=> e = d
        /\ \A e \in Drainers : pc'[e] \in {"wait_active", "alone"} => task'[e].barrier
        /\ pc'[d] = "exec" => ~(active > 0)
    BY <1>1, <1>3, <2>1 DEF Plain, Barring, Section, Goto, MutexInv
  <2>3. Plain' = Plain /\ Barring' = {d}
    BY <2>2, Zenon DEF Plain, Barring
  <2>4. active' = Cardinality(Plain') /\ (pc'[d] = "exec" => Plain' = {})
    BY <1>1, <1>3, <2>2, <2>3, PlainFinite DEF MutexInv
  <2>5. barrier_pending' <=> Barring' # {}
    BY <1>3, <2>3, Zenon
  <2> QED BY <2>2, <2>3, <2>4, <2>5, Zenon DEF MutexInv
<1>4. CASE /\ ~barrier_pending /\ ~task[d].barrier /\ active' = active + 1
           /\ Goto(d, "exec") /\ UNCHANGED barrier_pending
  <2>1. Barring = {}
    BY <1>4, Zenon DEF MutexInv
  <2>2. /\ \A e \in Drainers : e \in Plain' <=> e \in Plain \/ e = d
        /\ \A e \in Drainers : e \notin Barring' /\ d \notin Plain
        /\ \A e \in Drainers : pc'[e] \in {"wait_active", "alone"} => task'[e].barrier
    BY <1>1, <1>4, <2>1 DEF Plain, Barring, Section, Goto, MutexInv
  <2>3. Plain' = Plain \cup {d} /\ Barring' = {} /\ d \notin Plain
    BY <2>2, Zenon DEF Plain, Barring
  <2>4. Cardinality(Plain') = Cardinality(Plain) + 1
    BY <2>3, PlainFinite, FS_AddElement
  <2>5. active' = Cardinality(Plain')
    BY <1>4, <2>4 DEF MutexInv
  <2>6. barrier_pending' <=> Barring' # {}
    BY <1>4, <2>3, Zenon
  <2> QED BY <2>2, <2>3, <2>5, <2>6, Zenon DEF MutexInv
<1> QED BY <1>2, <1>3, <1>4, Zenon DEF Enter

(* The pending barrier looks at active again.                              *)
LEMMA AloneSection ==
    ASSUME QueueType, MutexInv, NEW d \in Drainers, Alone(d) PROVE MutexInv'
<1>1. /\ pc \in [Drainers \cup Clients -> Labels] /\ task' = task /\ pc[d] = "alone"
      /\ active \in Int /\ active' = active /\ barrier_pending' = barrier_pending
      /\ pc' = [pc EXCEPT ![d] = IF active > 0 THEN "wait_active" ELSE "exec"]
  BY DEF QueueType, Alone, Goto, barrierVars
<1>2. task[d].barrier /\ d \in Barring
  BY <1>1 DEF MutexInv, Barring, Section
<1>3. /\ \A e \in Drainers : e \in Plain' <=> e \in Plain
      /\ \A e \in Drainers : e \in Barring' <=> e \in Barring
      /\ \A e \in Drainers : pc'[e] \in {"wait_active", "alone"} => task'[e].barrier
      /\ pc'[d] = "exec" => ~(active > 0)
  BY <1>1, <1>2 DEF Plain, Barring, Section, MutexInv
<1>4. Plain' = Plain /\ Barring' = Barring
  BY <1>3, Zenon DEF Plain, Barring
<1>5. active' = Cardinality(Plain') /\ (pc'[d] = "exec" => Plain' = {})
  BY <1>1, <1>3, <1>4, PlainFinite DEF MutexInv
<1>6. \A e \in Barring' : e = d
  BY <1>2, <1>4, Zenon DEF MutexInv
<1>7. barrier_pending' <=> Barring' # {}
  BY <1>1, <1>4, Zenon DEF MutexInv
<1> QED BY <1>3, <1>5, <1>6, <1>7, Zenon DEF MutexInv

(* The section after a task's function, with its broadcast.                *)
LEMMA LeaveSection ==
    ASSUME QueueType, MutexInv, concurrency > 1, NEW d \in Drainers, Leave(d) PROVE MutexInv'
<1> DEFINE t == task[d]
<1>1. /\ pc \in [Drainers \cup Clients -> Labels] /\ task' = task /\ pc[d] = "exec"
      /\ active \in Int /\ active' = active - Counted(t)
      /\ pc' = [x \in DOMAIN pc |-> IF x = d THEN IF t.sync THEN "sync_done" ELSE "work_end"
                                    ELSE IF Broadcasting(t) THEN Woken(pc[x]) ELSE pc[x]]
  BY DEF QueueType, Leave
<1>2. barrier_pending' <=> barrier_pending /\ ~t.barrier
  BY Zenon DEF Leave
<1>3. /\ pc'[d] \notin Section
      /\ \A e \in Drainers \ {d} :
            \/ pc'[e] = pc[e]
            \/ pc[e] = "wait_active" /\ pc'[e] = "alone"
            \/ pc[e] \notin Section /\ pc'[e] \notin Section
  BY SMTT(30), <1>1 DEF Woken, Section
<1>4. /\ \A e \in Drainers : e \in Plain' <=> e \in Plain /\ e # d
      /\ \A e \in Drainers : e \in Barring' <=> e \in Barring /\ e # d
      /\ \A e \in Drainers : pc'[e] \in {"wait_active", "alone"} => task'[e].barrier
      /\ \A e \in Drainers : pc'[e] = "exec" => pc[e] = "exec"
  BY <1>1, <1>3 DEF Plain, Barring, Section, MutexInv
<1>5. Plain' = Plain \ {d} /\ Barring' = Barring \ {d}
  BY <1>4, Zenon DEF Plain, Barring
<1>6. CASE t.barrier
  <2>1. d \in Barring /\ d \notin Plain
    BY <1>1, <1>6 DEF Barring, Plain, Section
  <2>2. Barring' = {} /\ Plain' = Plain
    BY <1>5, <2>1, Zenon DEF MutexInv
  <2>3. active' = Cardinality(Plain')
    BY <1>1, <1>6, <2>2 DEF Counted, MutexInv
  <2>4. barrier_pending' <=> Barring' # {}
    BY <1>2, <1>6, <2>2, Zenon
  <2> QED BY <1>4, <2>2, <2>3, <2>4, Zenon DEF MutexInv
<1>7. CASE ~t.barrier
  <2>1. d \notin Barring /\ d \in Plain
    BY <1>1, <1>7 DEF Barring, Plain
  <2>2. Barring' = Barring
    BY <1>5, <2>1, Zenon
  <2>3. Cardinality(Plain') = Cardinality(Plain) - 1
    BY Zenon, <1>5, <2>1, PlainFinite, FS_RemoveElement
  <2>4. active' = Cardinality(Plain')
    BY <1>1, <1>7, <2>3 DEF Counted, MutexInv
  <2>5. barrier_pending' <=> Barring' # {}
    BY <1>2, <1>7, <2>2, Zenon DEF MutexInv
  <2>6. \A e \in Barring' : pc'[e] # "exec"
    <3>1. Barring \subseteq Drainers
      BY DEF Barring
    <3> QED BY <1>4, <2>1, <2>2, <3>1, Zenon DEF MutexInv
  <2>7. \A e, f \in Barring' : e = f
    BY <2>2, Zenon DEF MutexInv
  <2> QED BY <1>4, <2>4, <2>5, <2>6, <2>7, Zenon DEF MutexInv
<1> QED BY <1>6, <1>7

LEMMA BarrierInit == Init => BarrierInv
<1> SUFFICES ASSUME Init PROVE BarrierInv
  OBVIOUS
<1>1. QueueType
  BY TypeInit
<1>2. /\ \A d \in Drainers : pc[d] = IF d \in 1..concurrency THEN "recv" ELSE "unborn"
      /\ active = 0
  BY DEF Init
<1>3. barrier_pending = FALSE
  BY Zenon DEF Init
<1>4. \A d \in Drainers : d > concurrency => pc[d] = "unborn"
  BY <1>1, <1>2 DEF QueueType, Drainers
<1>5. \A d \in Drainers : d \notin Plain /\ d \notin Barring /\ pc[d] \notin Section
  BY <1>2 DEF Plain, Barring, Section
<1>6. Plain = {} /\ Barring = {}
  BY <1>5, Zenon DEF Plain, Barring
<1>7. active = Cardinality(Plain)
  BY <1>2, <1>6, FS_EmptySet
<1>8. barrier_pending <=> Barring # {}
  BY <1>3, <1>6, Zenon
<1>9. MutexInv
  BY <1>5, <1>6, <1>7, <1>8 DEF MutexInv, Section
<1> QED BY <1>1, <1>4, <1>9 DEF BarrierInv

(* The steps of submitters and of drainers that are elsewhere.             *)
LEMMA BarrierElsewhere ==
    ASSUME BarrierInv, QueueType', concurrency' = concurrency, UNCHANGED barrierVars,
           \A d \in Drainers :
              \/ pc'[d] = pc[d] /\ task'[d] = task[d]
              \/ /\ pc[d] # "unborn"
                 /\ concurrency > 1 => pc[d] \notin Section /\ pc'[d] \notin Section
    PROVE  BarrierInv'
<1>1. \A d \in Drainers : d > concurrency' => pc'[d] = "unborn"
  BY DEF BarrierInv
<1>2. concurrency > 1 => MutexInv'
  BY OutsideSections DEF BarrierInv, barrierVars
<1> QED BY <1>1, <1>2 DEF BarrierInv

LEMMA BarrierStep == BarrierInv /\ [Next]_vars => BarrierInv'
<1> SUFFICES ASSUME BarrierInv, [Next]_vars PROVE BarrierInv'
  OBVIOUS
<1>1. QueueType /\ QueueType'
  BY TypeStep DEF BarrierInv
<1>2. /\ pc \in [Drainers \cup Clients -> Labels] /\ task \in [Drainers -> Tasks \cup {NoTask}]
      /\ Drainers \cap Clients = {} /\ receivers \in Seq(Drainers) /\ concurrency \in Nat
      /\ Crs \subseteq Clients /\ Threads \subseteq Clients /\ Delayed \subseteq Clients
  BY <1>1, QueueAssumption DEF QueueType, Clients
<1>3. concurrency > 1 => AfterRecv \notin Section
  BY DEF AfterRecv, Section
<1>4. ASSUME concurrency' = concurrency, concurrency > 1 => MutexInv',
             \A d \in Drainers : pc[d] = "unborn" => pc'[d] = "unborn"
      PROVE  BarrierInv'
  BY <1>1, <1>4 DEF BarrierInv
<1>5. ASSUME NEW c \in Clients, NEW op, NEW a \in Clients,
             \/ suspenders_queue_submit(c, op)
             \/ suspenders_queue_after(c, a)
             \/ s_queue_after_cr(a)
      PROVE  BarrierInv'
  <2>1. /\ concurrency' = concurrency /\ UNCHANGED barrierVars /\ task' = task
        /\ \E x \in Clients : \E l : pc' = [pc EXCEPT ![x] = l]
    BY <1>5, Zenon
       DEF suspenders_queue_submit, suspenders_queue_after, s_queue_after_cr, Begin, Goto
  <2>2. \A d \in Drainers : pc'[d] = pc[d] /\ task'[d] = task[d]
    BY <1>2, <2>1
  <2> QED BY <1>1, <2>1, <2>2, BarrierElsewhere
<1>6. ASSUME NEW c \in Crs \cup Threads, suspenders_queue_destroy(c) PROVE BarrierInv'
  <2>1. /\ concurrency' = concurrency /\ UNCHANGED barrierVars /\ task' = task
        /\ \A d \in Drainers : pc'[d] = pc[d] \/ (pc[d] = "parked" /\ pc'[d] = "exit")
    BY <1>2, <1>6 DEF suspenders_queue_destroy
  <2> QED BY <1>1, <2>1, BarrierElsewhere DEF Section
<1>7. ASSUME NEW c \in Clients, s_queue_submit(c) PROVE BarrierInv'
  <2>1. concurrency' = concurrency /\ UNCHANGED barrierVars
    BY <1>7 DEF s_queue_submit
  <2>2. CASE UNCHANGED task /\ \E l : Goto(c, l)
    <3>1. \A d \in Drainers : pc'[d] = pc[d] /\ task'[d] = task[d]
      BY <1>2, <2>2 DEF Goto
    <3> QED BY <1>1, <2>1, <3>1, BarrierElsewhere
  <2>3. CASE /\ receivers # <<>>
             /\ pc' = [pc EXCEPT ![c] = AfterSend(c), ![Head(receivers)] = AfterRecv]
             /\ task' = [task EXCEPT ![Head(receivers)] = NewTask(c)]
    <3>1. Head(receivers) \in Drainers /\ pc[Head(receivers)] = "parked"
      BY <1>1, <1>2, <2>3, PopFacts DEF QueueType
    <3>2. \A d \in Drainers :
             \/ pc'[d] = pc[d] /\ task'[d] = task[d]
             \/ pc[d] = "parked" /\ pc'[d] = AfterRecv
      BY SMTT(30), <1>2, <2>3, <3>1
    <3>3. \A d \in Drainers :
             \/ pc'[d] = pc[d] /\ task'[d] = task[d]
             \/ /\ pc[d] # "unborn"
                /\ concurrency > 1 => pc[d] \notin Section /\ pc'[d] \notin Section
      BY <1>3, <3>2 DEF Section
    <3> QED BY <1>1, <2>1, <3>3, BarrierElsewhere
  <2> QED BY <1>7, <2>2, <2>3 DEF s_queue_submit
<1>8. ASSUME NEW c \in Clients,
             \/ UndoSubmit(c) \/ SyncReturn(c) \/ DestroyReturn(c) \/ CancelSend(c)
             \/ CancelWait(c)
      PROVE  BarrierInv'
  <2>1. /\ concurrency' = concurrency /\ UNCHANGED barrierVars /\ task' = task
        /\ \E l : pc' = [pc EXCEPT ![c] = l]
    BY <1>8, Zenon
       DEF UndoSubmit, SyncReturn, DestroyReturn, CancelSend, CancelWait, Goto, barrierVars
  <2>2. \A d \in Drainers : pc'[d] = pc[d] /\ task'[d] = task[d]
    BY <1>2, <2>1
  <2> QED BY <1>1, <2>1, <2>2, BarrierElsewhere
<1>9. ASSUME NEW d \in Drainers, Recv(d) PROVE BarrierInv'
  <2>1. concurrency' = concurrency /\ UNCHANGED barrierVars /\ Admitted \subseteq Clients
    BY SMTT(30), <1>1, <1>9, TaskFacts DEF Recv
  <2>2. /\ pc[d] = "recv" /\ pc'[d] \in {AfterRecv, "exit", "parked"}
        /\ \A e \in Drainers \ {d} : pc'[e] = pc[e] /\ task'[e] = task[e]
    BY <1>2, <1>9, <2>1 DEF Recv, Goto
  <2>3. \A e \in Drainers :
           \/ pc'[e] = pc[e] /\ task'[e] = task[e]
           \/ /\ pc[e] # "unborn"
              /\ concurrency > 1 => pc[e] \notin Section /\ pc'[e] \notin Section
    BY <1>3, <2>2 DEF Section
  <2> QED BY SMTT(30), <1>1, <2>1, <2>3, BarrierElsewhere
<1>10. ASSUME NEW d \in Drainers, Enter(d) \/ Alone(d) \/ Leave(d) PROVE BarrierInv'
  <2>1. concurrency > 1 => MutexInv'
    BY SMTT(30), <1>1, <1>10, EnterSection, AloneSection, LeaveSection DEF BarrierInv
  <2>2. concurrency' = concurrency
    BY <1>10 DEF Enter, Alone, Leave
  <2>3. \A e \in Drainers : pc[e] = "unborn" => pc'[e] = "unborn"
    <3>1. CASE Enter(d) \/ Alone(d)
      <4>1. pc[d] # "unborn" /\ \E l : pc' = [pc EXCEPT ![d] = l]
        BY <3>1 DEF Enter, Alone, Goto
      <4> QED BY <1>2, <4>1
    <3>2. CASE Leave(d)
      BY <1>2, <3>2 DEF Leave, Woken
    <3> QED BY <1>10, <3>1, <3>2
  <2> QED BY <1>4, <2>1, <2>2, <2>3
<1>11. ASSUME NEW d \in Drainers, SyncDone(d) \/ s_queue_work_end(d) \/ Exit(d)
       PROVE  BarrierInv'
  <2>1. concurrency' = concurrency /\ UNCHANGED barrierVars
    BY SMTT(30), <1>11 DEF SyncDone, s_queue_work_end, Exit
  <2>2. /\ pc[d] \in {"sync_done", "work_end", "exit"} /\ pc'[d] \in {"work_end", "recv", "gone"}
        /\ \A e \in Drainers \ {d} : pc'[e] = pc[e] /\ task'[e] = task[e]
    BY <1>2, <1>11 DEF SyncDone, s_queue_work_end, Exit, Goto
  <2>3. \A e \in Drainers :
           \/ pc'[e] = pc[e] /\ task'[e] = task[e]
           \/ pc[e] # "unborn" /\ pc[e] \notin Section /\ pc'[e] \notin Section
    BY <2>2 DEF Section
  <2> QED BY <1>1, <2>1, <2>3, BarrierElsewhere
<1>12. ASSUME NEW d \in Drainers, StrayCancel(d) PROVE BarrierInv'
  <2>1. /\ concurrency' = concurrency /\ UNCHANGED barrierVars /\ task' = task
        /\ \A e \in Drainers \ {d} : pc'[e] = pc[e]
        /\ \/ pc[d] = "parked" /\ pc'[d] = "recv"
           \/ pc[d] = "wait_pending" /\ pc'[d] = "enter"
           \/ pc[d] = "wait_active" /\ pc'[d] = "alone"
    BY <1>2, <1>12 DEF StrayCancel, Goto, Woken
  <2>2. concurrency > 1 => MutexInv'
    BY <2>1, OutsideSections DEF BarrierInv, barrierVars, Section
  <2>3. \A e \in Drainers : pc[e] = "unborn" => pc'[e] = "unborn"
    BY <2>1
  <2> QED BY <1>4, <2>1, <2>2, <2>3
<1>13. CASE UNCHANGED vars
  <2>1. concurrency' = concurrency /\ UNCHANGED barrierVars /\ task' = task /\ pc' = pc
    BY <1>13 DEF vars
  <2> QED BY <1>1, <2>1, BarrierElsewhere
<1> QED
  BY Zenon, <1>2, <1>5, <1>6, <1>7, <1>8, <1>9, <1>10, <1>11, <1>12, <1>13
     DEF Next, ClientStep, s_queue_drainer

(* "fn runs alone": no other task of the queue executes while a barrier    *)
(* does, for any number of drainers, submitters and tasks.                 *)
THEOREM BarrierTheorem == Spec => []BarrierRunsAlone
<1>1. BarrierInv => BarrierRunsAlone
  <2> SUFFICES ASSUME BarrierInv, NEW d \in Executing, task[d].barrier, NEW e \in Executing
               PROVE  e = d
    BY DEF BarrierRunsAlone
  <2>1. d \in Drainers /\ e \in Drainers /\ pc[d] = "exec" /\ pc[e] = "exec"
    BY DEF Executing
  <2>2. CASE concurrency > 1
    <3>1. d \in Barring /\ Plain = {}
      BY <2>1, <2>2 DEF BarrierInv, MutexInv, Barring, Section
    <3>2. e \in Barring
      BY <2>1, <3>1 DEF Plain, Barring, Section
    <3> QED BY <2>2, <3>1, <3>2 DEF BarrierInv, MutexInv
  <2>3. CASE ~(concurrency > 1)
    <3>1. ~(d > concurrency) /\ ~(e > concurrency)
      BY <2>1 DEF BarrierInv
    <3> QED BY <2>1, <2>3, <3>1, QueueAssumption DEF BarrierInv, QueueType, Drainers
  <2> QED BY <2>2, <2>3
<1> QED BY <1>1, BarrierInit, BarrierStep, PTL DEF Spec
=============================================================================
