-------------------------- MODULE MCWaitProtocol --------------------------
(***************************************************************************)
(* Instances of WaitProtocol for TLC: two workers, one foreign thread, two *)
(* or three coroutines of which c1 is the most urgent.                     *)
(***************************************************************************)
EXTENDS WaitProtocol, TLC

CONSTANTS c1, c2, c3, w1, w2

MCQos == [c \in Crs |-> IF c = c1 THEN 0 ELSE 2]

\* All but c3 are spawned before the run.
MCBoot == [q \in Levels |-> CASE q = 0 -> <<c1>> [] q = 2 -> <<c2>> [] OTHER -> <<>>]

\* The bounds of the runs; an operation that is not named is not called.
Calls(f) == [op \in Ops |-> IF op \in DOMAIN f THEN f[op] ELSE 0]
GrantCalls     == Calls([wait |-> 2, signal |-> 2, resume |-> 1])
CancelCalls    == Calls([wait |-> 2, signal |-> 1, cancel |-> 1, timeout |-> 1])
BroadcastCalls == Calls([spawn |-> 1, wait |-> 2, broadcast |-> 1])
SuspendCalls   == Calls([suspend |-> 2, resume |-> 1, cancel |-> 1])
ResumeCalls    == Calls([suspend |-> 2, resume |-> 1, yield |-> 1])
EarlyCalls     == Calls([suspend |-> 2, cancel |-> 1, yield |-> 1])

Races == {GrantCalls, CancelCalls, BroadcastCalls, SuspendCalls}
Ends  == {Calls([wait |-> 2, signal |-> 1, cancel |-> 1]),
          Calls([wait |-> 2, signal |-> 1, timeout |-> 1]), ResumeCalls, EarlyCalls}

WorkersAlike == Permutations(Workers)
=============================================================================
