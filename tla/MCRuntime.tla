----------------------------- MODULE MCRuntime -----------------------------
(* Instances of Runtime.  The initial state chooses a program.             *)
EXTENDS Runtime

CONSTANTS a, b, d, t

Times(f) == [op \in Ops |-> IF op \in DOMAIN f THEN f[op] ELSE 0]
Program(n, by, crs, f) == [calls |-> Times(f), by |-> by, workers |-> n, crs |-> crs,
                           timers |-> {}, repeat |-> {}]

\* Two coroutines, one of which wakes the other across workers.
Wakes == Program(2, {0, 1}, <<a, b>>, [init |-> 1, run |-> 1, spawn |-> 2, park |-> 1, wake |-> 1])
\* A foreign thread that spawns, and a restart.
Starts == Program(2, {t}, <<a>>, [init |-> 2, run |-> 1, shutdown |-> 1, spawn |-> 1])
\* The first of two helpers, or neither, is running when a start fails.
Fails == Program(3, {}, <<>>, [init |-> 2, fail |-> 1, run |-> 1, shutdown |-> 1])
\* Shut down while coroutines are ready, parked or running,
Stops == Program(2, {0, 1}, <<a, b>>, [init |-> 1, shutdown |-> 1, spawn |-> 2, park |-> 1,
                                       wake |-> 1, yield |-> 1])
\* and while one of two helpers wakes the drainer of the other.
Reaps == Program(3, {0, 1}, <<a, d>>, [init |-> 1, shutdown |-> 1, spawn |-> 2, submit |-> 1])
Sleeps == Program(2, {0}, <<a>>, [init |-> 1, run |-> 1, spawn |-> 1, sleep |-> 2])
\* A queue with one drainer; the tasks do not spawn.
Tasks == Program(2, {0}, <<d, a>>, [init |-> 1, run |-> 1, spawn |-> 2, submit |-> 1])
\* Timers of one worker: two of six are canceled; they fire.
Heaps == [Program(1, {0}, <<>>, [init |-> 1, cancel |-> 2]) EXCEPT !.timers = Timers]
Alarms == [Program(1, {0}, <<>>, [init |-> 1, run |-> 1, cancel |-> 1])
             EXCEPT !.timers = {1, 2, 3, 4}, !.repeat = {1}]
\* A timer made by a coroutine, on whichever worker runs it.
HelperAlarm == [Program(2, {0, 1}, <<a>>, [init |-> 1, run |-> 1, spawn |-> 1])
                  EXCEPT !.timers = {1}]
\* A task that spawns.
Spawning == Program(2, {0, 1}, <<d, a>>, [init |-> 1, run |-> 1, spawn |-> 2, submit |-> 1])
OnlySpawning == {Spawning}
OnlyHelperAlarm == {HelperAlarm}
OnlyReaps == {Reaps}
Mixes == {Wakes, Starts, Fails, Stops, Reaps, Sleeps, Tasks, Heaps, Alarms,
          HelperAlarm}
=============================================================================
