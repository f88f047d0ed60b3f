---------------------------- MODULE AbstractLock ----------------------------
(* What a mutex promises its callers: at most one thread holds it, a        *)
(* recursive one counts its holder's claims, and only the holder lets go.   *)
EXTENDS Naturals

CONSTANTS Threads

VARIABLES depth,   \* how often each thread holds the lock
          limit    \* how often one thread may: fixed when the lock is made

Init == depth = [t \in Threads |-> 0] /\ limit \in Nat

Acquire(t) ==
    /\ \A u \in Threads \ {t} : depth[u] = 0
    /\ depth[t] < limit
    /\ depth' = [depth EXCEPT ![t] = @ + 1]

Release(t) ==
    /\ depth[t] > 0
    /\ depth' = [depth EXCEPT ![t] = @ - 1]

Next == (\E t \in Threads : Acquire(t) \/ Release(t)) /\ UNCHANGED limit

Spec == Init /\ [][Next]_<<depth, limit>>
=============================================================================
