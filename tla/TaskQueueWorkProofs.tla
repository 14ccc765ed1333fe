------------------------ MODULE TaskQueueWorkProofs ------------------------
(***************************************************************************)
(* Proofs about the task queue, continued: s_queue_work is the number of   *)
(* tasks being submitted, waiting and executing, for any number of         *)
(* drainers, submitters and tasks and any capacity.                        *)
(***************************************************************************)
EXTENDS TaskQueueProofs

(* Where a drainer has a task; who is submitting; who is parked, and with  *)
(* which part of chan.                                                     *)
Busy == {"enter", "wait_pending", "wait_active", "alone", "exec", "sync_done", "work_end"}
Sending == {c \in Clients : pc[c] \in {"send", "undo"}}
Parked == {c \in Clients : pc[c] = "parked"}
Overflow == IF Len(chan) > Cap THEN Len(chan) - Cap ELSE 0

OwnersParked ==
    /\ \A i \in Cap + 1..Len(chan) : chan[i].by \in Parked
    /\ \A i, j \in Cap + 1..Len(chan) : chan[i].by = chan[j].by => i = j

(* The tasks beyond the capacity belong to different parked submitters,    *)
(* and there are as many of the one as of the other: a destroy, which      *)
(* drops these tasks, leaves as many submissions to be undone.             *)
WorkInv ==
    /\ QueueType
    /\ s_queue_work = Cardinality(Sending) + Len(chan) + Cardinality(Holding)
    /\ \A d \in Drainers : task[d] # NoTask <=> pc[d] \in Busy
    /\ Cardinality(Parked) = Overflow
    /\ OwnersParked


LEMMA CountsFinite ==
    ASSUME QueueType
    PROVE  /\ IsFiniteSet(Sending) /\ Cardinality(Sending) \in Nat
           /\ IsFiniteSet(Parked) /\ Cardinality(Parked) \in Nat
           /\ IsFiniteSet(Holding) /\ Cardinality(Holding) \in Nat
           /\ Len(chan) \in Nat /\ Cap \in Nat \ {0} /\ s_queue_work \in Int
<1>1. IsFiniteSet(Drainers) /\ IsFiniteSet(Clients) /\ Cap \in Nat \ {0}
  BY QueueAssumption, FS_Interval DEF Drainers
<1>2. Sending \in SUBSET Clients /\ Parked \in SUBSET Clients /\ Holding \in SUBSET Drainers
  BY DEF Sending, Parked, Holding
<1>3. IsFiniteSet(Sending) /\ IsFiniteSet(Parked) /\ IsFiniteSet(Holding)
  BY <1>1, <1>2, FS_Subset
<1>4. Len(chan) \in Nat /\ s_queue_work \in Int
  BY LenProperties DEF QueueType
<1> QED BY <1>1, <1>3, <1>4, FS_CardinalityType

(* A step that neither moves a task nor parks or wakes a submitter.        *)
LEMMA TasksStay ==
    ASSUME WorkInv, QueueType', task' = task, chan' = chan, Parked' = Parked,
           \A d \in Drainers : pc'[d] \in Busy <=> pc[d] \in Busy,
           s_queue_work' - Cardinality(Sending') = s_queue_work - Cardinality(Sending)
    PROVE  WorkInv'
<1>1. Holding' = Holding /\ Overflow' = Overflow
  BY DEF Holding, Overflow
<1>2. OwnersParked'
  BY DEF OwnersParked, WorkInv
<1>3. \A d \in Drainers : task'[d] # NoTask <=> pc'[d] \in Busy
  BY DEF WorkInv
<1>4. /\ s_queue_work \in Int /\ s_queue_work' \in Int /\ Len(chan) \in Nat
      /\ Cardinality(Sending) \in Nat /\ Cardinality(Holding) \in Nat
  BY CountsFinite DEF WorkInv, QueueType
<1>5. Cardinality(Sending') \in Nat
  <2>1. Sending' \in SUBSET Clients
    BY DEF Sending
  <2> QED BY <2>1, QueueAssumption, FS_Subset, FS_CardinalityType
<1>6. s_queue_work' = Cardinality(Sending') + Len(chan') + Cardinality(Holding')
  <2>1. s_queue_work = Cardinality(Sending) + Len(chan) + Cardinality(Holding)
    BY Zenon DEF WorkInv
  <2>2. s_queue_work' = Cardinality(Sending') + Len(chan) + Cardinality(Holding)
    BY SMTT(30), <1>4, <1>5, <2>1
  <2> QED BY <1>1, <2>2
<1> QED BY <1>1, <1>2, <1>3, <1>6 DEF WorkInv

(* A client starts or ends a submission; the others do not move.           *)
LEMMA OneClient ==
    ASSUME QueueType, NEW c \in Clients, NEW l, l \in Labels, pc' = [pc EXCEPT ![c] = l]
    PROVE  /\ \A d \in Drainers : pc'[d] = pc[d]
           /\ Sending' = IF l \in {"send", "undo"} THEN Sending \cup {c} ELSE Sending \ {c}
           /\ Parked' = IF l = "parked" THEN Parked \cup {c} ELSE Parked \ {c}
<1>1. pc \in [Drainers \cup Clients -> Labels] /\ Drainers \cap Clients = {}
  BY QueueAssumption DEF QueueType
<1>2. /\ \A d \in Drainers : pc'[d] = pc[d]
      /\ \A x \in Clients : pc'[x] = IF x = c THEN l ELSE pc[x]
  BY <1>1
<1>3. /\ \A x \in Clients : x \in Sending' <=> IF x = c THEN l \in {"send", "undo"} ELSE x \in Sending
      /\ \A x \in Clients : x \in Parked' <=> IF x = c THEN l = "parked" ELSE x \in Parked
  BY <1>2 DEF Sending, Parked
<1>4. /\ Sending \subseteq Clients /\ Sending' \subseteq Clients
      /\ Parked \subseteq Clients /\ Parked' \subseteq Clients
  BY DEF Sending, Parked
<1>5. Sending' = IF l \in {"send", "undo"} THEN Sending \cup {c} ELSE Sending \ {c}
  BY <1>3, <1>4
<1>6. Parked' = IF l = "parked" THEN Parked \cup {c} ELSE Parked \ {c}
  BY <1>3, <1>4
<1> QED BY <1>2, <1>5, <1>6

(* The facts a step of the queue starts from.                              *)
LEMMA WorkFacts ==
    ASSUME WorkInv
    PROVE  /\ pc \in [Drainers \cup Clients -> Labels] /\ Drainers \cap Clients = {}
           /\ task \in [Drainers -> Tasks \cup {NoTask}]
           /\ chan \in Seq(Tasks) /\ receivers \in Seq(Drainers)
           /\ \A i \in 1..Len(chan) : chan[i] \in Tasks
           /\ Crs \subseteq Clients /\ Threads \subseteq Clients /\ Delayed \subseteq Clients
<1>1. \A i \in 1..Len(chan) : chan[i] \in Tasks
  BY ElementOfSeq DEF WorkInv, QueueType
<1> QED BY <1>1, QueueAssumption DEF WorkInv, QueueType, Clients

(* A drainer gets a task.                                                  *)
LEMMA GetsTask ==
    ASSUME WorkInv, NEW d \in Drainers, pc[d] \notin Busy, NEW t \in Tasks,
           task' = [task EXCEPT ![d] = t], pc'[d] \in Busy,
           \A e \in Drainers \ {d} : pc'[e] = pc[e]
    PROVE  /\ Cardinality(Holding') = Cardinality(Holding) + 1
           /\ \A e \in Drainers : task'[e] # NoTask <=> pc'[e] \in Busy
<1>1. t # NoTask
  BY TaskFacts DEF WorkInv
<1>2. /\ \A e \in Drainers : task'[e] = IF e = d THEN t ELSE task[e]
      /\ \A e \in Drainers : task[e] # NoTask <=> pc[e] \in Busy
  BY WorkFacts DEF WorkInv
<1>3. d \notin Holding
  BY <1>2 DEF Holding
<1>4. \A e \in Drainers : e \in Holding' <=> e \in Holding \/ e = d
  BY <1>1, <1>2 DEF Holding
<1>5. Holding' = Holding \cup {d}
  BY <1>4, Zenon DEF Holding
<1>6. Cardinality(Holding') = Cardinality(Holding) + 1
  BY Zenon, <1>3, <1>5, CountsFinite, FS_AddElement DEF WorkInv
<1> QED BY <1>1, <1>2, <1>6

(* The send of s_queue_submit.                                             *)
LEMMA SubmitWork ==
    ASSUME WorkInv, QueueType', NEW c \in Clients, s_queue_submit(c) PROVE WorkInv'
<1>1. /\ pc[c] = "send" /\ s_queue_work' = s_queue_work
      /\ AfterSend(c) \in {"wait", "gone", "idle"} /\ AfterRecv \in {"enter", "exec"}
      /\ NewTask(c) \in Tasks /\ NewTask(c).by = c
  BY TaskFacts DEF WorkInv, s_queue_submit, NewTask
<1>2. c \in Sending /\ c \notin Parked
  BY <1>1 DEF Sending, Parked
<1>3. /\ Cardinality(Sending \ {c}) = Cardinality(Sending) - 1
      /\ Cardinality(Parked \cup {c}) = Cardinality(Parked) + 1
      /\ Parked \ {c} = Parked /\ Sending \cup {c} = Sending
  <2>1. IsFiniteSet(Sending) /\ IsFiniteSet(Parked)
    BY CountsFinite DEF WorkInv
  <2>2. Cardinality(Sending \ {c}) = Cardinality(Sending) - 1
    BY <1>2, <2>1, FS_RemoveElement
  <2>3. Cardinality(Parked \cup {c}) = Cardinality(Parked) + 1
    BY Zenon, <1>2, <2>1, FS_AddElement
  <2> QED BY <1>2, <2>2, <2>3
<1>4. CASE Goto(c, "undo") /\ UNCHANGED <<chan, receivers, task, submitted, call>>
  <2>1. (\A d \in Drainers : pc'[d] = pc[d]) /\ Sending' = Sending /\ Parked' = Parked
    BY Zenon, <1>3, <1>4, OneClient DEF WorkInv, Goto, Labels
  <2> QED BY <1>1, <1>4, <2>1, TasksStay
<1>5. CASE /\ receivers # <<>> /\ UNCHANGED chan
           /\ pc' = [pc EXCEPT ![c] = AfterSend(c), ![Head(receivers)] = AfterRecv]
           /\ task' = [task EXCEPT ![Head(receivers)] = NewTask(c)]
  <2> DEFINE h == Head(receivers)
  <2>1. h \in Drainers /\ pc[h] = "parked"
    BY <1>5, WorkFacts, PopFacts DEF WorkInv, QueueType
  <2> HIDE DEF h
  <2>2. /\ pc'[h] = AfterRecv /\ \A e \in Drainers \ {h} : pc'[e] = pc[e]
        /\ \A x \in Clients : pc'[x] = IF x = c THEN AfterSend(c) ELSE pc[x]
    BY Zenon, <1>5, <2>1, WorkFacts DEF h
  <2>3. /\ Cardinality(Holding') = Cardinality(Holding) + 1
        /\ \A e \in Drainers : task'[e] # NoTask <=> pc'[e] \in Busy
    <3>1. pc[h] \notin Busy /\ pc'[h] \in Busy /\ task' = [task EXCEPT ![h] = NewTask(c)]
      BY <1>1, <1>5, <2>1, <2>2 DEF Busy, h
    <3> QED BY Zenon, <1>1, <2>1, <2>2, <3>1, GetsTask
  <2>4. /\ \A x \in Clients : x \in Sending' <=> x \in Sending /\ x # c
        /\ \A x \in Clients : x \in Parked' <=> x \in Parked
    BY <1>1, <1>2, <2>2 DEF Sending, Parked
  <2>5. Sending' = Sending \ {c} /\ Parked' = Parked
    BY <2>4, Zenon DEF Sending, Parked
  <2>6. s_queue_work' = Cardinality(Sending') + Len(chan') + Cardinality(Holding')
    BY <1>1, <1>3, <1>5, <2>3, <2>5, CountsFinite DEF WorkInv
  <2>7. OwnersParked' /\ Cardinality(Parked') = Overflow'
    BY <1>5, <2>5 DEF OwnersParked, Overflow, WorkInv
  <2> QED BY <2>3, <2>6, <2>7 DEF WorkInv
<1>6. CASE /\ Goto(c, IF Len(chan) < Cap THEN AfterSend(c) ELSE "parked")
           /\ chan' = Append(chan, NewTask(c)) /\ UNCHANGED <<receivers, task>>
  <2> DEFINE n == Len(chan)
  <2>1. /\ Len(chan') = n + 1 /\ n \in Nat /\ Cap \in Nat \ {0}
        /\ \A i \in 1..n : chan'[i] = chan[i]
        /\ chan'[n + 1] = NewTask(c)
    BY <1>1, <1>6, WorkFacts, AppendProperties, CountsFinite DEF WorkInv
  <2>2. /\ \A d \in Drainers : pc'[d] = pc[d]
        /\ Sending' = Sending \ {c}
        /\ Parked' = IF n < Cap THEN Parked ELSE Parked \cup {c}
    <3>1. CASE n < Cap
      BY Zenon, <1>1, <1>3, <1>6, <3>1, OneClient DEF WorkInv, Goto, Labels
    <3>2. CASE ~(n < Cap)
      BY Zenon, <1>6, <3>2, OneClient DEF WorkInv, Goto, Labels
    <3> QED BY <3>1, <3>2
  <2> HIDE DEF n
  <2>3. Holding' = Holding /\ \A e \in Drainers : task'[e] # NoTask <=> pc'[e] \in Busy
    BY <1>6, <2>2 DEF Holding, WorkInv
  <2>4. s_queue_work' = Cardinality(Sending') + Len(chan') + Cardinality(Holding')
    BY SMTT(30), <1>1, <1>3, <2>1, <2>2, <2>3, CountsFinite DEF WorkInv, n
  <2>5. Cardinality(Parked') = Overflow'
    BY <1>3, <2>1, <2>2, CountsFinite DEF WorkInv, Overflow, n
  <2>6. OwnersParked'
    <3>1. CASE n < Cap
      BY <2>1, <3>1 DEF OwnersParked
    <3>2. CASE ~(n < Cap)
      <4>1. \A i \in Cap + 1..n + 1 : i = n + 1 \/ (i \in Cap + 1..n /\ i \in 1..n)
        BY <2>1, <3>2
      <4>2. \A i \in Cap + 1..n : chan[i].by \in Parked
        BY DEF WorkInv, OwnersParked, n
      <4>3. \A i, j \in Cap + 1..n : chan[i].by = chan[j].by => i = j
        BY DEF WorkInv, OwnersParked, n
      <4>4. \A i \in Cap + 1..n + 1 :
               \/ i = n + 1 /\ chan'[i].by = c
               \/ i \in Cap + 1..n /\ chan'[i].by = chan[i].by /\ chan[i].by # c
        BY <1>1, <1>2, <2>1, <4>1, <4>2
      <4>5. Parked' = Parked \cup {c}
        BY <2>2, <3>2
      <4>6. \A i \in Cap + 1..n + 1 : chan'[i].by \in Parked'
        BY <4>2, <4>4, <4>5, Zenon
      <4>7. \A i, j \in Cap + 1..n + 1 : chan'[i].by = chan'[j].by => i = j
        BY <4>3, <4>4, Zenon
      <4> QED BY <2>1, <4>6, <4>7 DEF OwnersParked
    <3> QED BY <3>1, <3>2
  <2> QED BY <2>3, <2>4, <2>5, <2>6 DEF WorkInv
<1> QED BY <1>4, <1>5, <1>6 DEF s_queue_submit

(* A submitter is canceled before it sends or while it is parked.          *)
LEMMA CancelWork ==
    ASSUME WorkInv, QueueType', NEW c \in Clients, CancelSend(c) PROVE WorkInv'
<1>1. Goto(c, "undo") /\ s_queue_work' = s_queue_work /\ task' = task
  BY DEF CancelSend
<1>2. (\A d \in Drainers : pc'[d] = pc[d]) /\ Sending' = Sending \cup {c} /\ Parked' = Parked \ {c}
  BY Zenon, <1>1, OneClient DEF WorkInv, Goto, Labels
<1>3. CASE pc[c] = "send" /\ UNCHANGED chan
  <2>1. Sending' = Sending /\ Parked' = Parked
    BY <1>2, <1>3 DEF Sending, Parked
  <2> QED BY Zenon, <1>1, <1>2, <1>3, <2>1, TasksStay
<1>4. ASSUME pc[c] = "parked", NEW i \in Cap + 1..Len(chan), chan[i].by = c,
             chan' = SubSeq(chan, 1, i - 1) \o SubSeq(chan, i + 1, Len(chan))
      PROVE  WorkInv'
  <2> DEFINE n == Len(chan)
  <2>1. n \in Nat /\ Cap \in Nat /\ i \in Nat /\ i > Cap /\ i <= n /\ i \in 1..n
    BY CountsFinite DEF WorkInv
  <2>2. /\ Len(chan') = n - 1
        /\ \A j \in 1..Len(chan') : chan'[j] = IF j < i THEN chan[j] ELSE chan[j + 1]
    BY Zenon, <1>4, <2>1, WorkFacts, RemoveAtFacts
  <2>3. /\ Cardinality(Sending') = Cardinality(Sending) + 1
        /\ Cardinality(Parked') = Cardinality(Parked) - 1
    <3>1. c \notin Sending /\ c \in Parked
      BY SMTT(30), <1>4 DEF Sending, Parked
    <3>2. IsFiniteSet(Sending) /\ IsFiniteSet(Parked)
      BY CountsFinite DEF WorkInv
    <3>3. Cardinality(Sending') = Cardinality(Sending) + 1
      BY Zenon, <1>2, <3>1, <3>2, FS_AddElement
    <3>4. Cardinality(Parked') = Cardinality(Parked) - 1
      BY Zenon, <1>2, <3>1, <3>2, FS_RemoveElement
    <3> QED BY <3>3, <3>4
  <2>4. Holding' = Holding /\ \A e \in Drainers : task'[e] # NoTask <=> pc'[e] \in Busy
    BY <1>1, <1>2 DEF Holding, WorkInv
  <2>5. s_queue_work' = Cardinality(Sending') + Len(chan') + Cardinality(Holding')
    BY SMTT(30), <1>1, <2>2, <2>3, <2>4, CountsFinite DEF WorkInv
  <2>6. Cardinality(Parked') = Overflow'
    BY SMTT(30), <2>1, <2>2, <2>3, CountsFinite DEF WorkInv, Overflow
  <2>7. OwnersParked'
    <3> DEFINE k(j) == IF j < i THEN j ELSE j + 1
    <3>1. \A j \in Cap + 1..n - 1 : j \in 1..n - 1 /\ k(j) \in Cap + 1..n /\ k(j) # i
      BY <2>1
    <3>2. \A j, m \in Cap + 1..n - 1 : k(j) = k(m) => j = m
      BY <2>1
    <3>3. \A j \in Cap + 1..n - 1 : chan'[j] = chan[k(j)]
      BY <2>2, <3>1
    <3> HIDE DEF k
    <3>4. /\ \A j \in Cap + 1..n : chan[j].by \in Parked
          /\ \A j, m \in Cap + 1..n : chan[j].by = chan[m].by => j = m
      BY DEF WorkInv, OwnersParked
    <3>5. ASSUME NEW j \in Cap + 1..n - 1 PROVE chan'[j].by \in Parked'
      <4>1. k(j) \in Cap + 1..n /\ k(j) # i /\ chan'[j] = chan[k(j)]
        BY Zenon, <3>1, <3>3
      <4>2. chan[k(j)].by \in Parked
        BY Zenon, <3>4, <4>1
      <4>3. chan[k(j)].by # c
        BY Zenon, <1>4, <3>4, <4>1
      <4> QED BY <1>2, <4>1, <4>2, <4>3
    <3>6. ASSUME NEW j \in Cap + 1..n - 1, NEW m \in Cap + 1..n - 1, chan'[j].by = chan'[m].by
          PROVE  j = m
      <4>1. /\ k(j) \in Cap + 1..n /\ k(m) \in Cap + 1..n
            /\ chan'[j] = chan[k(j)] /\ chan'[m] = chan[k(m)]
        BY Zenon, <3>1, <3>3
      <4>2. k(j) = k(m)
        BY Zenon, <3>4, <3>6, <4>1
      <4> QED BY Zenon, <3>2, <4>2
    <3> QED BY SMTT(30), <2>2, <3>5, <3>6 DEF OwnersParked
  <2> QED BY <2>4, <2>5, <2>6, <2>7 DEF WorkInv
<1> QED BY Zenon, <1>3, <1>4 DEF CancelSend

(* A drainer takes the first task, and the first parked submitter gets the *)
(* room; or it finds nothing.                                              *)
LEMMA RecvWork ==
    ASSUME WorkInv, QueueType', NEW d \in Drainers, Recv(d) PROVE WorkInv'
<1>1. /\ pc[d] = "recv" /\ s_queue_work' = s_queue_work /\ AfterRecv \in {"enter", "exec"}
      /\ \A c \in Clients : AfterSend(c) \in {"wait", "gone", "idle"}
      /\ Admitted \subseteq Clients
  BY TaskFacts DEF WorkInv, Recv
<1>2. CASE /\ chan # <<>> /\ chan' = Tail(chan) /\ task' = [task EXCEPT ![d] = Head(chan)]
           /\ pc' = [x \in DOMAIN pc |-> IF x = d THEN AfterRecv
                                         ELSE IF x \in Admitted THEN AfterSend(x) ELSE pc[x]]
  <2> DEFINE n == Len(chan)
  <2>1. /\ Head(chan) \in Tasks /\ Len(chan') = n - 1
        /\ \A i \in 1..n - 1 : chan'[i] = chan[i + 1]
    BY <1>2, WorkFacts, HeadTailProperties
  <2>2. n \in Nat \ {0} /\ Cap \in Nat \ {0}
    BY <1>2, WorkFacts, EmptySeq, CountsFinite DEF WorkInv
  <2>3. /\ pc'[d] = AfterRecv /\ \A e \in Drainers \ {d} : pc'[e] = pc[e]
        /\ \A x \in Clients : pc'[x] = IF x \in Admitted THEN AfterSend(x) ELSE pc[x]
    BY <1>1, <1>2, WorkFacts
  <2>4. /\ Cardinality(Holding') = Cardinality(Holding) + 1
        /\ \A e \in Drainers : task'[e] # NoTask <=> pc'[e] \in Busy
    <3>1. pc[d] \notin Busy /\ pc'[d] \in Busy
      BY <1>1, <2>3 DEF Busy
    <3> QED BY Zenon, <1>2, <2>1, <2>3, <3>1, GetsTask
  <2>5. Admitted \subseteq Parked
    <3>1. n > Cap => Cap + 1 \in Cap + 1..n
      BY <2>2
    <3> QED BY <3>1 DEF Admitted, WorkInv, OwnersParked
  <2>6. /\ \A x \in Clients : x \in Sending' <=> x \in Sending
        /\ \A x \in Clients : x \in Parked' <=> x \in Parked /\ x \notin Admitted
    BY <1>1, <2>3, <2>5 DEF Sending, Parked
  <2>7. Sending' = Sending /\ Parked' = Parked \ Admitted
    BY <2>6, Zenon DEF Sending, Parked
  <2> HIDE DEF n
  <2>8. s_queue_work' = Cardinality(Sending') + Len(chan') + Cardinality(Holding')
    BY SMTT(30), <1>1, <2>1, <2>4, <2>7, CountsFinite DEF WorkInv, n
  <2>9. CASE n <= Cap
    <3>1. Parked' = Parked /\ Overflow' = 0 /\ Overflow = 0
      BY <2>1, <2>2, <2>7, <2>9 DEF Admitted, Overflow, n
    <3>2. OwnersParked'
      BY <2>1, <2>2, <2>9 DEF OwnersParked
    <3> QED BY <2>4, <2>8, <3>1, <3>2 DEF WorkInv
  <2>10. CASE n > Cap
    <3> DEFINE a == chan[Cap + 1].by
    <3>1. Admitted = {a} /\ a \in Parked /\ Parked' = Parked \ {a}
      BY <2>5, <2>7, <2>10 DEF Admitted, n
    <3>2. Cardinality(Parked') = Cardinality(Parked) - 1
      <4>1. IsFiniteSet(Parked)
        BY CountsFinite DEF WorkInv
      <4> QED BY Zenon, <3>1, <4>1, FS_RemoveElement
    <3>3. Cardinality(Parked') = Overflow'
      BY <2>1, <2>2, <2>10, <3>2, CountsFinite DEF WorkInv, Overflow, n
    <3>4. /\ \A j \in Cap + 1..n : chan[j].by \in Parked
          /\ \A j, m \in Cap + 1..n : chan[j].by = chan[m].by => j = m
      BY DEF WorkInv, OwnersParked, n
    <3>5. \A j \in Cap + 1..n - 1 :
             j \in 1..n - 1 /\ j + 1 \in Cap + 1..n /\ j + 1 # Cap + 1 /\ Cap + 1 \in Cap + 1..n
      BY <2>2, <2>10
    <3>6. \A j \in Cap + 1..n - 1 : chan'[j].by = chan[j + 1].by /\ chan'[j].by # a
      BY <2>1, <3>4, <3>5
    <3> HIDE DEF a
    <3>7. \A j \in Cap + 1..n - 1 : chan'[j].by \in Parked'
      BY <3>1, <3>4, <3>5, <3>6
    <3>8. \A j, m \in Cap + 1..n - 1 : chan'[j].by = chan'[m].by => j = m
      <4> SUFFICES ASSUME NEW j \in Cap + 1..n - 1, NEW m \in Cap + 1..n - 1,
                          chan'[j].by = chan'[m].by
                   PROVE  j = m
        OBVIOUS
      <4>1. j + 1 = m + 1
        BY SMTT(30), <3>4, <3>5, <3>6
      <4> QED BY <2>2, <4>1
    <3>9. OwnersParked'
      BY <2>1, <3>7, <3>8 DEF OwnersParked
    <3> QED BY <2>4, <2>8, <3>3, <3>9 DEF WorkInv
  <2> QED BY <2>2, <2>9, <2>10
<1>3. CASE (Goto(d, "exit") \/ Goto(d, "parked")) /\ UNCHANGED <<chan, task>>
  <2>1. /\ \A e \in Drainers : pc'[e] \in Busy <=> pc[e] \in Busy
        /\ \A x \in Clients : pc'[x] = pc[x]
    BY <1>1, <1>3, WorkFacts DEF Goto, Busy
  <2>2. Sending' = Sending /\ Parked' = Parked
    BY <2>1 DEF Sending, Parked
  <2> QED BY SMTT(30), <1>1, <1>3, <2>1, <2>2, TasksStay
<1> QED BY <1>2, <1>3 DEF Recv

(* The end of a task.                                                      *)
LEMMA EndWork ==
    ASSUME WorkInv, QueueType', NEW d \in Drainers, s_queue_work_end(d) PROVE WorkInv'
<1>1. /\ pc[d] = "work_end" /\ pc' = [pc EXCEPT ![d] = "recv"] /\ chan' = chan
      /\ task' = [task EXCEPT ![d] = NoTask] /\ s_queue_work' = s_queue_work - 1
  BY DEF s_queue_work_end, Goto, chanVars
<1>2. /\ \A e \in Drainers : task'[e] # NoTask <=> pc'[e] \in Busy
      /\ \A e \in Drainers : e \in Holding' <=> e \in Holding /\ e # d
      /\ d \in Holding
      /\ \A x \in Clients : pc'[x] = pc[x]
  BY <1>1, WorkFacts DEF WorkInv, Holding, Busy
<1>3. Holding' = Holding \ {d}
  BY <1>2, Zenon DEF Holding
<1>4. Cardinality(Holding') = Cardinality(Holding) - 1
  BY Zenon, <1>2, <1>3, CountsFinite, FS_RemoveElement DEF WorkInv
<1>5. Sending' = Sending /\ Parked' = Parked
  BY <1>2 DEF Sending, Parked
<1>6. s_queue_work' = Cardinality(Sending') + Len(chan') + Cardinality(Holding')
  BY SMTT(30), <1>1, <1>4, <1>5, CountsFinite DEF WorkInv
<1>7. OwnersParked' /\ Cardinality(Parked') = Overflow'
  BY <1>1, <1>5 DEF OwnersParked, Overflow, WorkInv
<1> QED BY <1>2, <1>6, <1>7 DEF WorkInv

(* A destroy drops the tasks beyond the capacity and makes each of the     *)
(* parked submitters undo its submission.                                  *)
LEMMA DestroyWork ==
    ASSUME WorkInv, QueueType', NEW c \in Crs \cup Threads, suspenders_queue_destroy(c)
    PROVE  WorkInv'
<1> DEFINE n == Len(chan)
           m == IF n < Cap THEN n ELSE Cap
<1>1. /\ c \in Clients /\ pc[c] = "idle" /\ s_queue_work' = s_queue_work /\ task' = task
      /\ n \in Nat /\ Cap \in Nat \ {0} /\ chan' = SubSeq(chan, 1, m)
      /\ Cardinality(Parked) = IF n > Cap THEN n - Cap ELSE 0
  BY WorkFacts, CountsFinite DEF suspenders_queue_destroy, MayCall, WorkInv, Overflow
<1>2. /\ \A e \in Drainers : pc'[e] = pc[e] \/ (pc[e] = "parked" /\ pc'[e] = "exit")
      /\ \A x \in Clients : pc'[x] = IF x = c THEN IF c \in Crs THEN "drain" ELSE "idle"
                                     ELSE IF pc[x] = "parked" THEN "undo" ELSE pc[x]
  BY <1>1, WorkFacts DEF suspenders_queue_destroy
<1>3. /\ \A e \in Drainers : task'[e] # NoTask <=> pc'[e] \in Busy
      /\ Holding' = Holding
  BY <1>1, <1>2 DEF WorkInv, Busy, Holding
<1>4. /\ \A x \in Clients : x \in Sending' <=> x \in Sending \/ x \in Parked
      /\ \A x \in Clients : x \notin Parked' /\ ~(x \in Sending /\ x \in Parked)
  BY <1>1, <1>2 DEF Sending, Parked
<1>5. Sending' = Sending \cup Parked /\ Sending \cap Parked = {} /\ Parked' = {}
  BY <1>4, Zenon DEF Sending, Parked
<1>6. Cardinality(Sending') = Cardinality(Sending) + Cardinality(Parked)
  <2>1. /\ IsFiniteSet(Sending) /\ IsFiniteSet(Parked)
        /\ Cardinality(Sending) \in Nat /\ Cardinality(Parked) \in Nat
    BY CountsFinite DEF WorkInv
  <2>2. Cardinality(Sending') = Cardinality(Sending) + Cardinality(Parked) - Cardinality({})
    BY <1>5, <2>1, FS_Union
  <2> QED BY <2>1, <2>2, FS_EmptySet
<1>7. Len(chan') = m
  <2>1. m \in Int /\ m >= 0 /\ m <= n
    BY <1>1
  <2>2. \A i \in 1..m : chan[i] \in Tasks
    BY <1>1, <2>1, WorkFacts
  <2> HIDE DEF m
  <2>3. Len(SubSeq(chan, 1, m)) = IF 1 <= m THEN m - 1 + 1 ELSE 0
    BY <2>1, <2>2, SubSeqProperties
  <2> QED BY <1>1, <2>1, <2>3
<1>8. s_queue_work' = Cardinality(Sending') + Len(chan') + Cardinality(Holding')
  BY <1>1, <1>3, <1>6, <1>7, CountsFinite DEF WorkInv
<1>9. Len(chan') \in Nat /\ ~(Len(chan') > Cap)
  BY <1>1, <1>7
<1>10. OwnersParked' /\ Cardinality(Parked') = Overflow'
  BY <1>1, <1>5, <1>9, FS_EmptySet DEF OwnersParked, Overflow
<1> QED BY SMTT(30), <1>3, <1>8, <1>10 DEF WorkInv

LEMMA WorkInit == Init => WorkInv
<1> SUFFICES ASSUME Init PROVE WorkInv
  OBVIOUS
<1>1. /\ QueueType /\ Drainers \cap Clients = {} /\ Cap \in Nat /\ concurrency \in Nat
      /\ Crs \subseteq Clients /\ Threads \subseteq Clients /\ Delayed \subseteq Clients
  BY TypeInit, QueueAssumption DEF QueueType, Clients
<1>2. /\ chan = <<>> /\ s_queue_work = 0
      /\ \A d \in Drainers : task[d] = NoTask /\ pc[d] \in {"recv", "unborn"}
  BY DEF Init
<1>3. \A c \in Clients : pc[c] \in {"unborn", "idle"}
  <2>1. 1..concurrency \subseteq Drainers
    BY QueueAssumption DEF Init, Drainers
  <2> QED BY <1>1, <2>1 DEF Init
<1>4. Sending = {} /\ Parked = {} /\ Holding = {}
  BY <1>2, <1>3 DEF Sending, Parked, Holding
<1>5. Len(chan) = 0
  BY <1>2, EmptySeq
<1>6. s_queue_work = Cardinality(Sending) + Len(chan) + Cardinality(Holding)
  BY <1>2, <1>4, <1>5, FS_EmptySet
<1>7. OwnersParked /\ Cardinality(Parked) = Overflow
  BY <1>1, <1>4, <1>5, FS_EmptySet DEF OwnersParked, Overflow
<1>8. \A d \in Drainers : task[d] # NoTask <=> pc[d] \in Busy
  BY <1>2 DEF Busy
<1> QED BY <1>1, <1>6, <1>7, <1>8 DEF WorkInv

LEMMA WorkStep == WorkInv /\ [Next]_vars => WorkInv'
<1> SUFFICES ASSUME WorkInv, [Next]_vars PROVE WorkInv'
  OBVIOUS
<1>1. QueueType /\ QueueType'
  BY TypeStep DEF WorkInv
<1>2. /\ pc \in [Drainers \cup Clients -> Labels] /\ Drainers \cap Clients = {}
      /\ Crs \subseteq Clients /\ Threads \subseteq Clients /\ Delayed \subseteq Clients
      /\ s_queue_work \in Int /\ IsFiniteSet(Sending) /\ Cardinality(Sending) \in Nat
  BY <1>1, WorkFacts, CountsFinite
<1>3. ASSUME NEW c \in Clients, pc[c] \in {"idle", "sleep"}, pc' = [pc EXCEPT ![c] = "send"],
             s_queue_work' = s_queue_work + 1, task' = task, chan' = chan
      PROVE  WorkInv'
  <2>1. /\ \A d \in Drainers : pc'[d] = pc[d]
        /\ Sending' = Sending \cup {c} /\ Parked' = Parked \ {c}
    BY Zenon, <1>1, <1>3, OneClient DEF Labels
  <2>2. c \notin Sending /\ Parked' = Parked
    BY <1>3, <2>1 DEF Sending, Parked
  <2>3. Cardinality(Sending') = Cardinality(Sending) + 1
    BY <1>2, <2>1, <2>2, FS_AddElement
  <2>4. s_queue_work' - Cardinality(Sending') = s_queue_work - Cardinality(Sending)
    BY <1>2, <1>3, <2>3
  <2> QED BY SMTT(30), <1>1, <1>3, <2>1, <2>2, <2>4, TasksStay
<1>4. ASSUME NEW c \in Clients, NEW op, suspenders_queue_submit(c, op) PROVE WorkInv'
  BY Zenon, <1>3, <1>4 DEF suspenders_queue_submit, MayCall, Begin, Goto, chanVars
<1>5. ASSUME NEW a \in Delayed, s_queue_after_cr(a) PROVE WorkInv'
  BY Zenon, <1>2, <1>3, <1>5 DEF s_queue_after_cr, Begin, Goto, chanVars
<1>6. ASSUME NEW c \in Clients, NEW l \in {"sleep", "idle", "wait", "waiting", "drain", "draining"},
             pc[c] \notin {"send", "undo", "parked"},
             pc' = [pc EXCEPT ![c] = l],
             s_queue_work' = s_queue_work, task' = task, chan' = chan
      PROVE  WorkInv'
  <2>1. /\ \A d \in Drainers : pc'[d] = pc[d]
        /\ Sending' = Sending \ {c} /\ Parked' = Parked \ {c}
    BY Zenon, <1>1, <1>6, OneClient DEF Labels
  <2>2. Sending' = Sending /\ Parked' = Parked
    BY <1>6, <2>1 DEF Sending, Parked
  <2> QED BY <1>1, <1>6, <2>1, <2>2, TasksStay
<1>7. ASSUME NEW c \in Clients, NEW a \in Delayed, suspenders_queue_after(c, a) PROVE WorkInv'
  BY Zenon, <1>2, <1>6, <1>7 DEF suspenders_queue_after, Goto, chanVars
<1>8. ASSUME NEW c \in Clients, SyncReturn(c) \/ DestroyReturn(c) \/ CancelWait(c)
      PROVE  WorkInv'
  BY <1>6, <1>8 DEF SyncReturn, DestroyReturn, CancelWait, Goto, chanVars
<1>9. ASSUME NEW c \in Clients, UndoSubmit(c) PROVE WorkInv'
  <2>1. /\ pc[c] = "undo" /\ pc' = [pc EXCEPT ![c] = Resting(c)] /\ task' = task /\ chan' = chan
        /\ s_queue_work' = s_queue_work - 1 /\ Resting(c) \in {"gone", "idle"}
    BY <1>1, <1>9, TaskFacts DEF UndoSubmit, Goto, chanVars
  <2>2. /\ \A d \in Drainers : pc'[d] = pc[d]
        /\ Sending' = Sending \ {c} /\ Parked' = Parked \ {c}
    BY Zenon, <1>1, <2>1, OneClient DEF Labels
  <2>3. c \in Sending /\ Parked' = Parked
    BY <2>1, <2>2 DEF Sending, Parked
  <2>4. Cardinality(Sending') = Cardinality(Sending) - 1
    BY Zenon, <1>2, <2>2, <2>3, FS_RemoveElement
  <2>5. s_queue_work' - Cardinality(Sending') = s_queue_work - Cardinality(Sending)
    BY <1>2, <2>1, <2>4
  <2> QED BY SMTT(30), <1>1, <2>1, <2>2, <2>3, <2>5, TasksStay
<1>10. ASSUME s_queue_work' = s_queue_work, task' = task, chan' = chan,
              \A e \in Drainers : pc'[e] \in Busy <=> pc[e] \in Busy,
              \A x \in Clients : pc'[x] = pc[x] \/ (pc[x] \in Busy /\ pc'[x] \in Busy)
       PROVE  WorkInv'
  <2>1. Sending' = Sending /\ Parked' = Parked
    BY <1>10 DEF Sending, Parked, Busy
  <2> QED BY <1>1, <1>10, <2>1, TasksStay
<1>11. ASSUME NEW d \in Drainers, Enter(d) \/ Alone(d) \/ SyncDone(d) \/ Exit(d) PROVE WorkInv'
  <2>1. /\ s_queue_work' = s_queue_work /\ task' = task /\ chan' = chan
    BY SMTT(30), <1>11 DEF Enter, Alone, SyncDone, Exit, chanVars
  <2>2. \/ pc[d] \in Busy /\ \E l \in Busy : pc' = [pc EXCEPT ![d] = l]
        \/ pc[d] = "exit" /\ pc' = [pc EXCEPT ![d] = "gone"]
    BY <1>11 DEF Enter, Alone, SyncDone, Exit, Goto, Busy
  <2>3. /\ \A e \in Drainers : pc'[e] \in Busy <=> pc[e] \in Busy
        /\ \A x \in Clients : pc'[x] = pc[x]
    BY <1>2, <2>2 DEF Busy
  <2> QED BY SMTT(30), <1>10, <2>1, <2>3
<1>12. ASSUME NEW d \in Drainers, Leave(d) PROVE WorkInv'
  <2>1. /\ s_queue_work' = s_queue_work /\ task' = task /\ chan' = chan
    BY <1>12 DEF Leave, chanVars
  <2>2. /\ \A e \in Drainers : pc'[e] \in Busy <=> pc[e] \in Busy
        /\ \A x \in Clients : pc'[x] = pc[x] \/ (pc[x] \in Busy /\ pc'[x] \in Busy)
    BY SMTT(30), <1>2, <1>12 DEF Leave, Woken, Busy
  <2> QED BY SMTT(30), <1>10, <2>1, <2>2
<1>13. ASSUME NEW d \in Drainers, StrayCancel(d) PROVE WorkInv'
  <2>1. /\ s_queue_work' = s_queue_work /\ task' = task /\ chan' = chan
    BY <1>13 DEF StrayCancel
  <2>2. /\ \A e \in Drainers : pc'[e] \in Busy <=> pc[e] \in Busy
        /\ \A x \in Clients : pc'[x] = pc[x]
    BY <1>2, <1>13 DEF StrayCancel, Goto, Woken, Busy
  <2> QED BY <1>10, <2>1, <2>2
<1>14. CASE UNCHANGED vars
  <2>1. s_queue_work' = s_queue_work /\ task' = task /\ chan' = chan /\ pc' = pc
    BY <1>14 DEF vars, chanVars
  <2>2. Sending' = Sending /\ Parked' = Parked
    BY <2>1 DEF Sending, Parked
  <2> QED BY <1>1, <2>1, <2>2, TasksStay
<1> QED
  BY SMTT(30), <1>1, <1>2, <1>4, <1>5, <1>7, <1>8, <1>9, <1>11, <1>12, <1>13, <1>14, SubmitWork,
     CancelWork, RecvWork, EndWork, DestroyWork
     DEF Next, ClientStep, s_queue_drainer

(* The count that keeps suspenders_run from returning is exact, through    *)
(* failed, canceled and parked submissions and the destruction of the      *)
(* queue.                                                                  *)
THEOREM WorkTheorem == Spec => []WorkIsCounted
<1>1. WorkInv => WorkIsCounted
  BY DEF WorkInv, WorkIsCounted, Sending
<1> QED BY <1>1, WorkInit, WorkStep, PTL DEF Spec
=============================================================================
