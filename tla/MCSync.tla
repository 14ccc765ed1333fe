------------------------------- MODULE MCSync -------------------------------
(* Instances of Sync.  Each run exercises one primitive at a time, chosen  *)
(* in the initial state; the mutex also with a cond.                       *)
EXTENDS Sync, TLC

CONSTANTS low, mid, high

Urgency == (low :> 2) @@ (mid :> 1) @@ (high :> 0)

MutexCalls == {"mutex_lock", "mutex_trylock", "cancel", "timeout"}
CondCalls == {"mutex_lock", "cond_wait", "cond_signal", "cond_broadcast", "cancel"}
DeadlineCalls == {"mutex_lock", "cond_wait", "cond_signal", "deadline"}
RwlockCalls == {"rdlock", "tryrdlock", "wrlock", "trywrlock", "cancel", "timeout"}
WaitgroupCalls == {"wg_add", "wg_wait", "cancel", "timeout"}

Primitives == {MutexCalls, CondCalls, DeadlineCalls, RwlockCalls, WaitgroupCalls}
=============================================================================
