---------------------------- MODULE MCTaskQueue ----------------------------
(* Instances of TaskQueue.  A run chooses the operations that may be       *)
(* called, and how many drainers were spawned, in its initial state.       *)
EXTENDS TaskQueue, TLC

CONSTANTS c, th

Calls(x, ops) == {x} \X ops
Barriers == [calls |-> Calls(c, {"async", "barrier"}), drainers |-> 3]
StrayCancels == [calls |-> Calls(c, {"async", "barrier", "cancel"}) \cup Calls(1, {"cancel"}),
                 drainers |-> 2]
Syncs == [calls |-> Calls(c, {"sync", "async", "destroy", "cancel"}) \cup Calls(th, {"async"}),
          drainers |-> 2]
Delays == [calls |-> Calls(c, {"after", "async", "cancel"}) \cup Calls(th, {"barrier", "destroy"}),
           drainers |-> 2]
Mixes == {Barriers, StrayCancels, Syncs, Delays}
=============================================================================
