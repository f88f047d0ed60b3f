---------------------------- MODULE MCBionicOnce ----------------------------
(* The futex host, and pthread_once over it, three threads each.  The       *)
(* initial state says which of the two is explored:                         *)
(*   host  guest code calls wait and wake as it likes, on a readable word   *)
(*         and an unreadable one                                            *)
(*   once  the only calls are those of agr_bionic_once on the readable word *)
EXTENDS BionicOnce, TLC

CONSTANTS t1, t2, t3, c, bad
VARIABLE part

ThreeThreads == {t1, t2, t3}
TwoAddrs     == {c, bad}
Unreadable   == {bad}
WakeMaxima   == {0, 1, Many}
Controls     == 0 .. 2

all == <<part, vars>>
Moves(p) == part = p /\ UNCHANGED part

PthreadInit == OnceInit /\ part \in {"host", "once"}

PthreadNext ==
    \/ Moves("host") /\ Next /\ UNCHANGED onceVars
    \/ Moves("once") /\ OnceNext

(* Fairness and OnceFairness, of the part that moves. *)
InHost(A) == Moves("host") /\ A /\ UNCHANGED onceVars
InOnce(A) == Moves("once") /\ A
PthreadFairness ==
    \A t \in Threads :
        /\ WF_all(InHost(ResumeNotified(t) \/ ResumeExpired(t)))
        /\ WF_all(InOnce(Step(t)))
        /\ WF_all(InOnce(ResumeNotified(t) /\ UNCHANGED onceVars))

PthreadSpec == PthreadInit /\ [][PthreadNext]_all /\ PthreadFairness
=============================================================================
