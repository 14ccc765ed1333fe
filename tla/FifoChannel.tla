---------------------------- MODULE FifoChannel ----------------------------
(***************************************************************************)
(* What a channel promises: values come out in the order in which they     *)
(* were offered.  The first Cap offers are accepted (their senders have    *)
(* returned); the later ones are held by blocked senders and may be        *)
(* withdrawn.  A closed channel takes no offers, drops the ones it has not *)
(* accepted and lets the others be taken.                                  *)
(***************************************************************************)
EXTENDS Integers, Sequences, FiniteSetsExt, Functions

CONSTANTS Cap,         \* buf_sz
          Values
VARIABLES offers,      \* offers not yet taken, the oldest first
          closed,
          delivered    \* values handed to receivers, in order

vars == <<offers, closed, delivered>>

Accepted == SubSeq(offers, 1, Min({Cap, Len(offers)}))

Init == offers = <<>> /\ closed = FALSE /\ delivered = <<>>

Offer(v) ==
    /\ ~closed /\ offers' = Append(offers, v)
    /\ UNCHANGED <<closed, delivered>>

Take ==
    /\ offers # <<>> /\ offers' = Tail(offers)
    /\ delivered' = Append(delivered, Head(offers))
    /\ UNCHANGED closed

(* A sender meets a receiver that is already waiting.  Nothing else may be *)
(* on offer, or the value would overtake it: only the receiver itself may  *)
(* have offered a value (a select that would send or receive), which it    *)
(* withdraws.                                                              *)
HandOff(v) ==
    /\ ~closed /\ Accepted = <<>> /\ Len(offers) <= 1 /\ offers' = <<>>
    /\ delivered' = Append(delivered, v) /\ UNCHANGED closed

(* Blocked senders give up, or are served by another channel of a select.  *)
Withdraw ==
    /\ \E gone \in SUBSET Range(offers) :
          /\ gone \cap Range(Accepted) = {}
          /\ offers' = SelectSeq(offers, LAMBDA v : v \notin gone)
    /\ UNCHANGED <<closed, delivered>>

Close ==
    /\ ~closed /\ closed' = TRUE
    /\ offers' = Accepted
    /\ UNCHANGED delivered

Next == (\E v \in Values : Offer(v) \/ HandOff(v)) \/ Take \/ Withdraw \/ Close

Spec == Init /\ [][Next]_vars
=============================================================================
