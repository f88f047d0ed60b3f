---------------------------- MODULE MCBionicMutex ----------------------------
(* A small instance of BionicMutex: a mutex word of any type under three    *)
(* threads, one of which calls twice, with ids modulo 4.                    *)
EXTENDS BionicMutex, TLC

CONSTANTS t1, t2, t3, m

ThreeThreads == {t1, t2, t3}
OneAddr      == {m}
NoAddr       == {}
One          == {1}
AllKinds     == {"normal", "recursive", "errorcheck"}
MutexWords   == [type : AllKinds, owner : 0 .. 3, counter : 0 .. 1, state : 0 .. 2]
DistinctIds  == t1 :> 1 @@ t2 :> 2 @@ t3 :> 3
CallsEach    == t1 :> 2 @@ t2 :> 1 @@ t3 :> 1
=============================================================================
