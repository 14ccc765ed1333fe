----------------------------- MODULE TimerHeap -----------------------------
(* The binary heap of a thread's timers: the array as a sequence, its      *)
(* first index 1; key gives the deadline of every timer.                   *)
EXTENDS Integers, SequencesExt

suspenders_timer_heap_swap(h, i, j) == [h EXCEPT ![i] = h[j], ![j] = h[i]]

RECURSIVE suspenders_timer_heap_sift_up(_, _, _)
suspenders_timer_heap_sift_up(h, key, i) ==
    LET parent == i \div 2
    IN  IF i = 1 \/ key[h[parent]] <= key[h[i]] THEN h
        ELSE suspenders_timer_heap_sift_up(suspenders_timer_heap_swap(h, parent, i), key, parent)

RECURSIVE suspenders_timer_heap_sift_down(_, _, _)
suspenders_timer_heap_sift_down(h, key, i) ==
    LET Least(j, k) == IF k <= Len(h) /\ key[h[k]] < key[h[j]] THEN k ELSE j
        smallest == Least(Least(i, 2 * i), 2 * i + 1)
    IN  IF smallest = i THEN h
        ELSE suspenders_timer_heap_sift_down(suspenders_timer_heap_swap(h, i, smallest),
                                             key, smallest)

suspenders_timer_heap_push(h, key, t) ==
    suspenders_timer_heap_sift_up(Append(h, t), key, Len(h) + 1)

\* The last timer takes the place of the one at i.
MoveLast(h, i) == Front([h EXCEPT ![i] = Last(h)])

suspenders_timer_heap_pop(h, key) ==
    IF Len(h) = 1 THEN <<>> ELSE suspenders_timer_heap_sift_down(MoveLast(h, 1), key, 1)

\* Mutant: as after a pop, the timer that moved only sinks.
OnlySinks(h, key, t) ==
    IF ~Contains(h, t) THEN h
    ELSE LET i == CHOOSE j \in DOMAIN h : h[j] = t
             moved == MoveLast(h, i)
         IN  IF i > Len(moved) THEN moved ELSE suspenders_timer_heap_sift_down(moved, key, i)

(* The timer that takes t's place comes from elsewhere in the tree, so it  *)
(* may have to rise as well as sink.                                       *)
suspenders_timer_heap_remove(h, key, t) ==
    IF ~Contains(h, t) THEN h
    ELSE LET i == CHOOSE j \in DOMAIN h : h[j] = t
             moved == MoveLast(h, i)
         IN  IF i > Len(moved) THEN moved
             ELSE suspenders_timer_heap_sift_up(
                      suspenders_timer_heap_sift_down(moved, key, i), key, i)
=============================================================================
