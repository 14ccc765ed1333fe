----------------------------- MODULE MCChannel -----------------------------
(***************************************************************************)
(* Instances of Channel for TLC: two or three coroutines, one channel with *)
(* a slot and one without.                                                 *)
(***************************************************************************)
EXTENDS Channel, TLC

CONSTANTS a, b, c, buffered, rendezvous

MCCap == [ch \in Chans |-> IF ch = buffered THEN 1 ELSE 0]

Recv(ch) == [ch |-> ch, send |-> FALSE]
Send(ch) == [ch |-> ch, send |-> TRUE]

Bounds(f) == [op \in Ops |-> IF op \in DOMAIN f THEN f[op] ELSE 0]

\* Both channels, and both directions of one.
Selects == {<<Recv(buffered), Send(rendezvous)>>, <<Send(rendezvous), Recv(rendezvous)>>}
\* Selects that are not each other's counterparts.
OneSelect == {<<Recv(buffered), Send(rendezvous)>>}

SafetyCalls == {Bounds([send |-> 3, recv |-> 1, try_send |-> 1, try_recv |-> 1, timeout |-> 1]),
                Bounds([send |-> 1, select |-> 2, close |-> 1]),
                Bounds([recv |-> 1, select |-> 2, close |-> 1]),
                Bounds([send |-> 1, recv |-> 1, select |-> 2])}
CancelCalls == {Bounds([send |-> 1, recv |-> 1, select |-> 2, cancel |-> 1, timeout |-> 1])}

CrsAlike == Permutations(Crs)
=============================================================================
