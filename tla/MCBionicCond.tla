---------------------------- MODULE MCBionicCond ----------------------------
(* Small instances of BionicCond: one condition word, one mutex.            *)
EXTENDS BionicCond, TLC

CONSTANTS t1, t2, t3, c

TwoThreads   == {t1, t2}
ThreeThreads == {t1, t2, t3}
OneAddr      == {c}
NoAddr       == {}
WaitsEach    == [t \in Threads |-> IF t = t3 THEN 0 ELSE 1]
Counts       == {1, Many}
Seqs         == 0 .. 7
=============================================================================
