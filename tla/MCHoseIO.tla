------------------------------ MODULE MCHoseIO ------------------------------
(* Instances of HoseIO for TLC. *)
EXTENDS HoseIO

CONSTANTS a, b, f, g

Read(x)          == [op |-> "io", end |-> <<x, "in">>, units |-> 1, timed |-> FALSE, dl |-> 0]
ReadDl(x, d)     == [Read(x) EXCEPT !.timed = TRUE, !.dl = d]
Write(x)         == [op |-> "io", end |-> <<x, "out">>, units |-> 2, timed |-> FALSE, dl |-> 0]
WriteDl(x, d)    == [Write(x) EXCEPT !.timed = TRUE, !.dl = d]
Deadline(d)      == [op |-> "deadline", dl |-> d]

\* What peers do: as many units as the calls can use.
Wanted(cs, e) == FoldSeq(LAMBDA call, n : IF call.op = "io" /\ call.end = e
                                          THEN n + call.units ELSE n, 0, cs)
Scene(be, p, q, cancels, foreign, wakes, ticks, breaks) ==
    [backend |-> be, calls |-> (a :> p @@ b :> q),
     arrivals |-> [e \in Ends |-> Wanted(p \o q, e)],
     cancels |-> cancels, foreign |-> foreign, wakes |-> wakes, ticks |-> ticks,
     breaks |-> breaks]

\* Cancels from the coroutine's own worker, from elsewhere, or both.
Cancels == {[local |-> 2, foreign |-> 0], [local |-> 0, foreign |-> 2],
            [local |-> 1, foreign |-> 1]}

\* One coroutine with per-call deadlines.
Timed == {Scene(be, p, <<>>, k.local, k.foreign, 0, 2, 0) : be \in Backends, k \in Cancels,
             p \in {<<ReadDl(f, 2), Read(f)>>, <<WriteDl(f, 2), ReadDl(f, 3)>>}}
\* Blanket deadlines, armed, replaced and disarmed, on a socket each.
Blanket == {Scene(be, <<Deadline(2), Read(f), Deadline(0), Read(f)>>, <<>>, 0, 1, 0, 1, 0) :
               be \in Backends}
           \cup {Scene(be, <<Deadline(2), Read(f)>>, <<Deadline(3), Write(g)>>, 1, 0, 0, 2, 0) :
                    be \in Backends}
\* Wakes meant for something else, with deadlines, cancels and a broken connection.
Spurious == {Scene(be, <<Deadline(3), ReadDl(f, 2)>>, <<>>, 0, 1, 2, 2, 1) : be \in Backends}
\* A cancel by a coroutine of the same worker, before or after such a wake.
Stale == {Scene(be, <<Deadline(2), Read(f), Read(f)>>, <<Read(g)>>, 1, 0, 1, 1, 0) :
             be \in Backends}
\* Both coroutines on one socket.
Shared == {Scene("iouring", <<Deadline(2), Read(f)>>, <<x>>, 1, 1, 0, 1, 0) :
              x \in {Write(f), Read(f)}}

Programs == Timed \cup Blanket \cup Spurious \cup Stale \cup Shared

\* Two coroutines of one worker read, one with a deadline and one without.
Neighbours == {Scene(be, <<ReadDl(f, 2)>>, <<Read(g)>>, 0, 0, 0, 1, 0) : be \in Backends}
=============================================================================
