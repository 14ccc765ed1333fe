------------------------------- MODULE WqList -------------------------------
(***************************************************************************)
(* The intrusive FIFO lists of wait nodes (suspenders_wq_list_t), as       *)
(* sequences: s_wq_push is Append and s_wq_pop takes the Head.             *)
(***************************************************************************)
EXTENDS Integers, Sequences, Functions

(* Unlink n wherever it is on the list.                                    *)
s_wq_remove(l, n) ==
    IF n \notin Range(l) THEN l
    ELSE LET i == CHOOSE i \in 1..Len(l) : l[i] = n
         IN SubSeq(l, 1, i - 1) \o SubSeq(l, i + 1, Len(l))
=============================================================================
