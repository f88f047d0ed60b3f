--------------------------- MODULE BionicCondProofs ---------------------------
(***************************************************************************)
(* Theorems about BionicCond, for any threads and any number of calls: a   *)
(* pulse is not slept through as long as the sequence number has not come  *)
(* round.                                                                  *)
(*                                                                         *)
(* The sequence number counts the pulses downwards; Moved counts them      *)
(* upwards, and a waiter that was between its unlock and its sleep when a  *)
(* pulse came has read an older number.                                    *)
(***************************************************************************)
EXTENDS BionicCond, FiniteSetTheorems, TLAPS

(* The sequence number does not repeat.  (In the code it has 31 bits.)     *)
PulsesFit == MaxPulses < SeqModulus

Pcs == {"idle", "unlock", "sleep", "asleep", "pulse", "wake"}
Fpcs == {"out", "blocked", "notified", "expired", "returned"}
Numbers == 0 .. SeqModulus - 1

(* How often the number v has been moved on from 0.                        *)
Moved(v) == IF v = 0 THEN 0 ELSE SeqModulus - v
Pulsing == {t \in Threads : pc[t] = "pulse"}

CTypes ==
    /\ word \in [Addrs -> Numbers] /\ seq \in [Threads -> Numbers]
    /\ pc \in [Threads -> Pcs] /\ fpc \in [Threads -> Fpcs]
    /\ pulses \in Nat /\ slipped \subseteq Threads

(* Every pulse is to come, about to move the number, or has moved it.      *)
Counted == Moved(word[Cond]) + Cardinality(Pulsing) + pulses = MaxPulses

(* What a waiter read is no newer than the word, and older when a pulse    *)
(* slipped in; then the host turns the sleep away at once.                 *)
Waiter(t) ==
    /\ pc[t] # "asleep" => fpc[t] = "out"
    /\ pc[t] \in {"unlock", "sleep"} => Moved(seq[t]) <= Moved(word[Cond])
    /\ t \in slipped => \/ pc[t] = "sleep" /\ Moved(seq[t]) < Moved(word[Cond])
                        \/ pc[t] = "asleep" /\ fpc[t] = "returned"

CInv == CTypes /\ Counted /\ \A t \in Threads : Waiter(t)

-----------------------------------------------------------------------------
(* The sequence number                                                     *)

LEMMA Facts ==
  ASSUME CInv
  PROVE  /\ Cond \in Addrs /\ word[Cond] \in Numbers /\ SeqModulus \in Nat \ {0}
         /\ Moved(word[Cond]) \in Nat /\ MaxPulses \in Nat
         /\ IsFiniteSet(Pulsing) /\ Cardinality(Pulsing) \in Nat
         /\ \A t \in Threads : seq[t] \in Numbers /\ Moved(seq[t]) \in Nat
<1>1. Cond \in Addrs /\ SeqModulus \in Nat \ {0} /\ MaxPulses \in Nat
  BY CondAssumption
<1>2. word[Cond] \in Numbers /\ \A t \in Threads : seq[t] \in Numbers
  BY <1>1 DEF CInv, CTypes
<1>3. \A v \in Numbers : Moved(v) \in Nat
  BY <1>1 DEF Numbers, Moved
<1>4. IsFiniteSet(Pulsing)
  <2>1. Pulsing \subseteq Threads
    BY DEF Pulsing
  <2> QED BY <2>1, FutexAssumption, FS_Subset
<1> QED BY <1>1, <1>2, <1>3, <1>4, FS_CardinalityType

(* One pulse more, before the numbers run out.                             *)
LEMMA NextMoves ==
  ASSUME SeqModulus \in Nat \ {0}, NEW v \in Numbers, Moved(v) + 1 < SeqModulus
  PROVE  NextSeq(v) \in Numbers /\ Moved(NextSeq(v)) = Moved(v) + 1
<1>1. v \in Int /\ 0 <= v /\ v < SeqModulus
  BY DEF Numbers
<1>2. CASE v = 0
  <2>1. SeqModulus > 1
    BY <1>2 DEF Moved
  <2>2. NextSeq(v) = SeqModulus - 1
    BY <1>2, <2>1 DEF NextSeq
  <2> QED BY <1>2, <2>1, <2>2 DEF Numbers, Moved
<1>3. CASE v # 0
  <2>1. v - 1 # 0
    BY <1>1, <1>3 DEF Moved
  <2>2. NextSeq(v) = v - 1
    <3>1. v + SeqModulus - 1 = (v - 1) + SeqModulus /\ v - 1 \in 0 .. SeqModulus - 1
      BY <1>1, <1>3
    <3>2. ((v - 1) + SeqModulus) % SeqModulus = v - 1
      BY <3>1
    <3> QED BY <1>1, <3>1, <3>2 DEF NextSeq
  <2> QED BY <1>1, <1>3, <2>1, <2>2 DEF Numbers, Moved
<1> QED BY <1>2, <1>3

(* Nothing of the condition variable moves, and no call of the host ends   *)
(* or begins.                                                              *)
LEMMA HostMoves ==
  ASSUME CInv, UNCHANGED condVars, word' = word, fpc' \in [Threads -> Fpcs],
         \A t \in Threads : fpc[t] \in {"out", "returned"} => fpc'[t] = fpc[t]
  PROVE  CInv'
BY DEF CInv, CTypes, Counted, Pulsing, Waiter, condVars

(* A step of t alone, that leaves the word and the pulses.                 *)
LEMMA ThreadMoves ==
  ASSUME CInv, NEW t \in Threads, NEW l \in Pcs, Goto(t, l), pc[t] # "pulse", l # "pulse",
         word' = word, pulses' = pulses, slipped' \subseteq slipped,
         seq' \in [Threads -> Numbers], fpc' \in [Threads -> Fpcs],
         \A u \in Threads \ {t} : seq'[u] = seq[u],
         \A u \in Threads \ {t} : fpc[u] \in {"out", "returned"} => fpc'[u] = fpc[u],
         Waiter(t)'
  PROVE  CInv'
<1>1. pc' \in [Threads -> Pcs] /\ \A u \in Threads \ {t} : pc'[u] = pc[u]
  BY DEF CInv, CTypes, Goto
<1>2. Pulsing' = Pulsing
  BY <1>1 DEF Pulsing, CInv, CTypes, Goto
<1>3. ASSUME NEW u \in Threads \ {t} PROVE Waiter(u)'
  BY <1>1 DEF CInv, Waiter
<1>4. CTypes' /\ Counted'
  BY <1>1, <1>2 DEF CInv, CTypes, Counted
<1> QED BY <1>3, <1>4 DEF CInv

-----------------------------------------------------------------------------
(* The wait                                                                *)

LEMMA WaitLoadKeeps ==
  ASSUME CInv, NEW t \in Threads, WaitLoad(t)
  PROVE  CInv'
<1>1. /\ pc[t] = "idle" /\ Goto(t, "unlock") /\ word' = word /\ pulses' = pulses /\ slipped' = slipped
      /\ fpc' = fpc /\ seq' = [seq EXCEPT ![t] = word[Cond]]
  BY DEF WaitLoad, InMemory, threadVars
<1>2. seq' \in [Threads -> Numbers] /\ seq'[t] = word[Cond] /\ \A u \in Threads \ {t} : seq'[u] = seq[u]
  BY <1>1, Facts DEF CInv, CTypes
<1>3. pc'[t] = "unlock" /\ fpc[t] = "out" /\ t \notin slipped
  BY <1>1 DEF CInv, CTypes, Goto, Waiter
<1>4. Waiter(t)'
  BY <1>1, <1>2, <1>3, Facts DEF Waiter
<1> QED BY <1>1, <1>2, <1>4, ThreadMoves DEF Pcs, CInv, CTypes

LEMMA WaitUnlockKeeps ==
  ASSUME CInv, NEW t \in Threads, WaitUnlock(t)
  PROVE  CInv'
<1>1. /\ pc[t] = "unlock" /\ Goto(t, "sleep") /\ word' = word /\ pulses' = pulses /\ slipped' = slipped
      /\ fpc' = fpc /\ seq' = seq
  BY DEF WaitUnlock, futexVars, threadVars
<1>2. pc'[t] = "sleep"
  BY <1>1 DEF CInv, CTypes, Goto
<1>3. Waiter(t)'
  BY <1>1, <1>2 DEF CInv, Waiter
<1> QED BY <1>1, <1>3, ThreadMoves DEF Pcs, CInv, CTypes

LEMMA WaitSleepKeeps ==
  ASSUME CInv, NEW t \in Threads, WaitSleep(t)
  PROVE  CInv'
<1>1. /\ pc[t] = "sleep" /\ Goto(t, "asleep") /\ word' = word /\ pulses' = pulses /\ slipped' = slipped
      /\ seq' = seq /\ FutexWait(t, Cond, seq[t], kind[t])
  BY DEF WaitSleep, FutexWait, Enter, EnterFails, SleepOn, SleepFor
<1>2. PICK f \in {"returned", "blocked"} : fpc' = [fpc EXCEPT ![t] = f]
  BY <1>1 DEF FutexWait, Enter, EnterRefused, EnterTakesToken, EnterBlocks, EnterFails, EnterNoMemory, Return
<1>3. fpc' \in [Threads -> Fpcs] /\ fpc'[t] = f /\ \A u \in Threads \ {t} : fpc'[u] = fpc[u]
  BY <1>2 DEF CInv, CTypes, Fpcs
<1>4. pc'[t] = "asleep"
  BY <1>1 DEF CInv, CTypes, Goto
<1>5. t \in slipped => fpc'[t] = "returned"
  <2> SUFFICES ASSUME t \in slipped PROVE fpc'[t] = "returned"
    OBVIOUS
  <2>1. Moved(seq[t]) < Moved(word[Cond])
    BY <1>1 DEF CInv, Waiter
  <2>2. seq[t] # word[Cond]
    BY <2>1, Facts
  <2>3. Refusal(Cond, seq[t], kind[t]) # "none"
    BY <2>2 DEF Refusal
  <2>4. Return(t, Refusal(Cond, seq[t], kind[t]))
    BY <1>1, <2>3 DEF FutexWait, Enter, EnterRefused, EnterTakesToken, EnterBlocks, EnterFails, EnterNoMemory
  <2> QED BY <2>4 DEF Return, CInv, CTypes
<1>6. Waiter(t)'
  BY <1>1, <1>4, <1>5 DEF Waiter
<1> QED BY <1>1, <1>3, <1>6, ThreadMoves DEF Pcs, CInv, CTypes

LEMMA WaitIsOverKeeps ==
  ASSUME CInv, NEW t \in Threads, WaitIsOver(t)
  PROVE  CInv'
<1>1. /\ pc[t] = "asleep" /\ Goto(t, "idle") /\ word' = word /\ pulses' = pulses /\ slipped' = slipped \ {t}
      /\ seq' = seq /\ fpc' = [fpc EXCEPT ![t] = "out"]
  BY DEF WaitIsOver, PickUp
<1>2. fpc' \in [Threads -> Fpcs] /\ fpc'[t] = "out" /\ \A u \in Threads \ {t} : fpc'[u] = fpc[u]
  BY <1>1 DEF CInv, CTypes, Fpcs
<1>3. pc'[t] = "idle"
  BY <1>1 DEF CInv, CTypes, Goto
<1>4. Waiter(t)'
  BY <1>1, <1>2, <1>3 DEF Waiter
<1> QED BY <1>1, <1>2, <1>4, ThreadMoves DEF Pcs, CInv, CTypes

-----------------------------------------------------------------------------
(* The pulse                                                               *)

LEMMA PulseLoadKeeps ==
  ASSUME CInv, NEW t \in Threads, PulseLoad(t)
  PROVE  CInv'
<1>1. /\ pc[t] = "idle" /\ Goto(t, "pulse") /\ word' = word /\ slipped' = slipped /\ fpc' = fpc
      /\ pulses > 0 /\ pulses' = pulses - 1 /\ seq' = [seq EXCEPT ![t] = word[Cond]]
  BY DEF PulseLoad, InMemory, threadVars
<1>2. /\ pc' \in [Threads -> Pcs] /\ pc'[t] = "pulse" /\ \A u \in Threads \ {t} : pc'[u] = pc[u]
      /\ seq' \in [Threads -> Numbers] /\ \A u \in Threads \ {t} : seq'[u] = seq[u]
  BY <1>1, Facts DEF CInv, CTypes, Goto, Pcs
<1>3. Pulsing' = Pulsing \cup {t} /\ t \notin Pulsing
  BY <1>1, <1>2 DEF Pulsing
<1>4. Cardinality(Pulsing') = Cardinality(Pulsing) + 1
  BY <1>3, Facts, FS_AddElement
<1>5. Counted'
  BY <1>1, <1>4, Facts DEF CInv, CTypes, Counted
<1>6. \A u \in Threads : Waiter(u)'
  BY <1>1, <1>2 DEF CInv, Waiter
<1> QED BY <1>1, <1>2, <1>5, <1>6 DEF CInv, CTypes

LEMMA PulseCasKeeps ==
  ASSUME PulsesFit, CInv, NEW t \in Threads, PulseCas(t)
  PROVE  CInv'
<1>1. pc[t] = "pulse" /\ fpc' = fpc /\ pulses' = pulses
  BY DEF PulseCas, InMemory, threadVars
<1>2. CASE word[Cond] # seq[t]
  <2>1. seq' = [seq EXCEPT ![t] = word[Cond]] /\ UNCHANGED <<word, slipped, pc>>
    BY <1>2 DEF PulseCas
  <2>2. seq' \in [Threads -> Numbers] /\ \A u \in Threads \ {t} : seq'[u] = seq[u]
    BY <2>1, Facts DEF CInv, CTypes
  <2>3. \A u \in Threads : Waiter(u)'
    BY <1>1, <2>1, <2>2 DEF CInv, Waiter
  <2> QED BY <1>1, <2>1, <2>2, <2>3 DEF CInv, CTypes, Counted, Pulsing
<1>3. CASE word[Cond] = seq[t]
  <2>1. /\ word' = [word EXCEPT ![Cond] = NextSeq(word[Cond])] /\ seq' = seq /\ Goto(t, "wake")
        /\ slipped' = slipped \cup {u \in Threads : pc[u] = "sleep"}
    BY <1>3 DEF PulseCas
  <2>2. pc' \in [Threads -> Pcs] /\ pc'[t] = "wake" /\ \A u \in Threads \ {t} : pc'[u] = pc[u]
    BY <2>1 DEF CInv, CTypes, Goto, Pcs
  <2>3. Pulsing' = Pulsing \ {t} /\ t \in Pulsing
    BY <1>1, <2>2 DEF Pulsing
  <2>4. Cardinality(Pulsing') = Cardinality(Pulsing) - 1 /\ Cardinality(Pulsing') \in Nat
    <3>1. Cardinality(Pulsing \ {t}) = Cardinality(Pulsing) - 1 /\ IsFiniteSet(Pulsing \ {t})
      BY <2>3, Facts, FS_RemoveElement
    <3> QED BY <2>3, <3>1, FS_CardinalityType
  <2>5. Moved(word[Cond]) + 1 < SeqModulus
    BY <2>4, Facts DEF CInv, CTypes, Counted, PulsesFit
  <2>6. NextSeq(word[Cond]) \in Numbers /\ Moved(NextSeq(word[Cond])) = Moved(word[Cond]) + 1
    BY <2>5, Facts, NextMoves
  <2>7. word' \in [Addrs -> Numbers] /\ word'[Cond] = NextSeq(word[Cond])
    BY <2>1, <2>6, Facts DEF CInv, CTypes
  <2>8. Counted'
    BY <1>1, <2>4, <2>6, <2>7, Facts DEF CInv, CTypes, Counted
  <2>9. ASSUME NEW u \in Threads PROVE Waiter(u)'
    <3>1. Waiter(u) /\ Moved(seq[u]) \in Nat /\ Moved(word[Cond]) \in Nat
      BY Facts DEF CInv
    <3>2. Moved(word'[Cond]) = Moved(word[Cond]) + 1
      BY <2>6, <2>7
    <3>3. CASE u = t
      BY <1>1, <2>1, <2>2, <3>1, <3>3 DEF Waiter
    <3>4. CASE u # t
      BY <1>1, <2>1, <2>2, <3>1, <3>2, <3>4 DEF Waiter
    <3> QED BY <3>3, <3>4
  <2> QED BY <1>1, <2>1, <2>2, <2>7, <2>8, <2>9 DEF CInv, CTypes
<1> QED BY <1>2, <1>3

LEMMA PulseWakeKeeps ==
  ASSUME CInv, NEW t \in Threads, PulseWake(t)
  PROVE  CInv'
<1>1. /\ pc[t] = "wake" /\ Goto(t, "idle") /\ word' = word /\ pulses' = pulses /\ slipped' = slipped
      /\ seq' = seq
  BY DEF PulseWake, Wake
<1>2. PICK m : Wake(Cond, m)
  BY DEF PulseWake
<1>3. \/ fpc' = fpc
      \/ \E N \in SUBSET Blocked(Cond) :
            fpc' = [u \in Threads |-> IF u \in N THEN "notified" ELSE fpc[u]]
  <2>1. Notified(Cond, WakeCount(Cond, m)) \subseteq SUBSET Blocked(Cond)
    BY DEF Notified
  <2> QED BY <1>2, <2>1 DEF Wake
<1>4. /\ fpc' \in [Threads -> Fpcs]
      /\ \A u \in Threads : fpc[u] \in {"out", "returned"} => fpc'[u] = fpc[u]
  BY <1>3 DEF CInv, CTypes, Fpcs, Blocked, Inside
<1>5. fpc[t] = "out" /\ t \notin slipped /\ pc'[t] = "idle"
  BY <1>1 DEF CInv, CTypes, Waiter, Goto
<1>6. Waiter(t)'
  BY <1>1, <1>4, <1>5 DEF Waiter
<1> QED BY <1>1, <1>4, <1>6, ThreadMoves DEF Pcs, CInv, CTypes

LEMMA HostKeeps ==
  ASSUME CInv, (\E t \in Threads : HostStep(t)) \/ Shutdown
  PROVE  CInv'
<1>1. UNCHANGED condVars /\ word' = word
  BY DEF HostStep, Shutdown, ResumeNotified, ResumeExpired, Expire, SpuriousWakeup, CancelAll
<1>2. ASSUME NEW t \in Threads, HostStep(t)
      PROVE  \E f \in Fpcs : fpc' = [fpc EXCEPT ![t] = f] /\ fpc[t] \notin {"out", "returned"}
  BY <1>2 DEF HostStep, ResumeNotified, ResumeExpired, Expire, SpuriousWakeup, Leave, Return, Fpcs
<1>3. CancelAll => \A u \in Threads : fpc'[u] = IF fpc[u] = "blocked" THEN "notified" ELSE fpc[u]
  BY DEF CancelAll
<1>4. CancelAll => fpc' \in [Threads -> Fpcs]
  BY DEF CancelAll, CInv, CTypes, Fpcs
<1>5. fpc' \in [Threads -> Fpcs] /\ \A u \in Threads : fpc[u] \in {"out", "returned"} => fpc'[u] = fpc[u]
  BY <1>2, <1>3, <1>4 DEF Shutdown, CInv, CTypes
<1> QED BY <1>1, <1>5, HostMoves

LEMMA CondNextKeeps == PulsesFit /\ CInv /\ [CondNext]_vars => CInv'
<1> SUFFICES ASSUME PulsesFit, CInv, [CondNext]_vars PROVE CInv'
  OBVIOUS
<1>1. ASSUME NEW t \in Threads, Lock(t) \/ Unlock(t) PROVE CInv'
  BY <1>1 DEF Lock, Unlock, futexVars, threadVars, CInv, CTypes, Counted, Pulsing, Waiter
<1>2. ASSUME NEW t \in Threads, WaitLoad(t) \/ PulseLoad(t) \/ ThreadStep(t) PROVE CInv'
  BY <1>2, WaitLoadKeeps, PulseLoadKeeps, WaitUnlockKeeps, WaitSleepKeeps, WaitIsOverKeeps,
     PulseCasKeeps, PulseWakeKeeps DEF ThreadStep, WaitRelock, RelockFails
<1>3. CASE UNCHANGED vars
  BY <1>3 DEF vars, condVars, futexVars, threadVars, CInv, CTypes, Counted, Pulsing, Waiter
<1> QED BY <1>1, <1>2, <1>3, HostKeeps DEF CondNext

LEMMA CondInitHolds == CondInit => CInv
<1> SUFFICES ASSUME CondInit PROVE CInv
  OBVIOUS
<1>1. 0 \in Numbers /\ Cond \in Addrs /\ MaxPulses \in Nat
  BY CondAssumption DEF Numbers
<1>2. CTypes
  BY <1>1 DEF CondInit, FutexInit, CTypes, Pcs, Fpcs
<1>3. Pulsing = {}
  BY DEF CondInit, Pulsing
<1>4. Counted
  BY <1>1, <1>3, FS_EmptySet DEF CondInit, Counted, Moved
<1> QED BY <1>2, <1>4 DEF CInv, CondInit, FutexInit, Waiter

(* The pulses are all accounted for, and no waiter is ahead of the word.   *)
THEOREM CondInvariance ==
  ASSUME PulsesFit
  PROVE  CondSpec => []CInv
BY CondInitHolds, CondNextKeeps, PTL DEF CondSpec

(* A waiter that had let the mutex go when a pulse came is turned away by  *)
(* the futex, or has been: it never sleeps through that pulse              *)
(* (agr_bionic_sync.cpp, cond_wait_relative and pulse).                    *)
THEOREM PulsesNotMissed ==
  ASSUME PulsesFit
  PROVE  CondSpec => []NoMissedPulse
<1>1. CInv => NoMissedPulse
  BY DEF CInv, CTypes, Waiter, NoMissedPulse, Blocked, Inside
<1> QED BY <1>1, CondInvariance, PTL
=============================================================================
