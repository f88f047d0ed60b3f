----------------------------- MODULE BionicCond -----------------------------
(***************************************************************************)
(* pthread_cond of the guest: cond_wait_relative, cond_signal and          *)
(* cond_broadcast of Runtime/Bionic/agr_bionic_sync.cpp over FutexHost.    *)
(* The condition word is a sequence number that every pulse moves on; a    *)
(* waiter reads it, lets the mutex go and sleeps while it is unchanged.    *)
(*                                                                         *)
(* The mutex is the one of AbstractLock, which BionicMutex implements:     *)
(* "holder" is its owner.  After cancel_all a lock that would have to wait *)
(* answers ECANCELED instead.                                              *)
(***************************************************************************)
EXTENDS FutexHost

CONSTANTS Cond,       \* the address of the condition word
          Nobody,     \* the holder of a free mutex
          SeqModulus, \* pulses until the sequence number repeats (2^31)
          MaxWaits,   \* bound: cond_wait calls, by thread
          MaxPulses   \* bound: signals and broadcasts together

ASSUME CondAssumption ==
    /\ Cond \in Addrs \ Unmapped
    /\ Nobody \notin Threads
    /\ SeqModulus \in Nat \ {0}
    /\ MaxWaits \in [Threads -> Nat] /\ MaxPulses \in Nat

VARIABLES pc, holder,
          seq,      \* the local "old" of wait and pulse
          kind,     \* the timeout of a wait, the count of a pulse
          waits, pulses, answer,
          slipped,  \* waiters that had let the mutex go and were not asleep
                    \* yet when a pulse moved the sequence number
          owed      \* waiters asleep when a broadcast moved it, not back yet

condVars == <<pc, holder, seq, kind, waits, pulses, answer, slipped, owed>>
vars == <<futexVars, condVars>>

Goto(t, l) == pc' = [pc EXCEPT ![t] = l]
InMemory == UNCHANGED <<hostVars, threadVars>>
Many == 1000   \* INT_MAX: more than there are threads

Lock(t) ==
    /\ pc[t] = "idle" /\ holder = Nobody
    /\ holder' = t
    /\ UNCHANGED <<futexVars, pc, seq, kind, waits, pulses, answer, slipped, owed>>

Unlock(t) ==
    /\ pc[t] = "idle" /\ holder = t
    /\ holder' = Nobody
    /\ UNCHANGED <<futexVars, pc, seq, kind, waits, pulses, answer, slipped, owed>>

-----------------------------------------------------------------------------
(* cond_wait_relative: load the sequence number, unlock, sleep, relock.    *)
WaitLoad(t) ==
    /\ pc[t] = "idle" /\ holder = t
    /\ waits[t] > 0
    /\ waits' = [waits EXCEPT ![t] = @ - 1]
    /\ \E d \in {"finite", "infinite"} : kind' = [kind EXCEPT ![t] = d]
    /\ seq' = [seq EXCEPT ![t] = word[Cond]]
    /\ Goto(t, "unlock")
    /\ InMemory /\ UNCHANGED <<word, holder, pulses, answer, slipped, owed>>

\* fault: the sequence number is read again after the mutex is gone
SeqAtSleep(t) == word[Cond]
SleepOn(t) == seq[t]
\* fault: the deadline is not passed on
SleepForever(t) == "infinite"
SleepFor(t) == kind[t]

WaitUnlock(t) ==
    /\ pc[t] = "unlock"
    /\ holder' = Nobody
    /\ Goto(t, "sleep")
    /\ UNCHANGED <<futexVars, seq, kind, waits, pulses, answer, slipped, owed>>

WaitSleep(t) ==
    /\ pc[t] = "sleep"
    /\ FutexWait(t, Cond, SleepOn(t), SleepFor(t))
    /\ Goto(t, "asleep")
    /\ UNCHANGED <<holder, seq, kind, waits, pulses, answer, slipped, owed>>

\* only ETIMEDOUT is exposed
AnswerOf(r) == IF r = "ETIMEDOUT" THEN "ETIMEDOUT" ELSE "OK"

WaitIsOver(t) ==
    /\ pc[t] = "asleep"
    /\ PickUp(t)
    /\ Goto(t, "idle")
    /\ slipped' = slipped \ {t}
    /\ owed' = owed \ {t}
    /\ UNCHANGED <<seq, kind, waits, pulses>>

(* Sleeping is over; the mutex is taken again before the result counts.    *)
WaitRelock(t) ==
    /\ holder = Nobody /\ holder' = t
    /\ answer' = [answer EXCEPT ![t] = AnswerOf(result[t])]
    /\ WaitIsOver(t)

(* The lock has to sleep itself, and its futex call refuses to: the call   *)
(* returns without the mutex.                                              *)
RelockFails(t) ==
    /\ holder # Nobody
    /\ answer' = [answer EXCEPT ![t] = IF closing THEN "ECANCELED" ELSE "ENOMEM"]
    /\ UNCHANGED holder
    /\ WaitIsOver(t)

-----------------------------------------------------------------------------
(* pulse: move the sequence number on with a CAS loop, then wake.  Any     *)
(* thread may call it, with or without the mutex.                          *)
PulseLoad(t) ==
    /\ pc[t] = "idle"
    /\ pulses > 0
    /\ pulses' = pulses - 1
    /\ seq' = [seq EXCEPT ![t] = word[Cond]]
    /\ \E k \in {"signal", "broadcast"} : kind' = [kind EXCEPT ![t] = k]
    /\ Goto(t, "pulse")
    /\ InMemory /\ UNCHANGED <<word, holder, waits, answer, slipped, owed>>

NextSeq(n) == (n + SeqModulus - 1) % SeqModulus

PulseCas(t) ==
    /\ pc[t] = "pulse"
    /\ \/ /\ word[Cond] = seq[t]
          /\ word' = [word EXCEPT ![Cond] = NextSeq(@)]
          /\ slipped' = slipped \cup {u \in Threads : pc[u] = "sleep"}
          /\ owed' = IF kind[t] = "broadcast"
                     THEN owed \cup Blocked(Cond) ELSE owed
          /\ Goto(t, "wake")
          /\ UNCHANGED seq
       \/ /\ word[Cond] # seq[t]
          /\ seq' = [seq EXCEPT ![t] = word[Cond]]
          /\ UNCHANGED <<word, slipped, owed, pc>>
    /\ InMemory /\ UNCHANGED <<holder, kind, waits, pulses, answer>>

PulseWake(t) ==
    /\ pc[t] = "wake"
    /\ Wake(Cond, IF kind[t] = "signal" THEN 1 ELSE Many)
    /\ Goto(t, "idle")
    /\ answer' = [answer EXCEPT ![t] = "OK"]
    /\ UNCHANGED <<holder, seq, kind, waits, pulses, slipped, owed>>

-----------------------------------------------------------------------------
HostStep(t) ==
    /\ ResumeNotified(t) \/ ResumeExpired(t) \/ Expire(t) \/ SpuriousWakeup(t)
    /\ UNCHANGED condVars
Shutdown == CancelAll /\ UNCHANGED condVars

CondInit ==
    /\ FutexInit
    /\ word = [a \in Addrs |-> 0]
    /\ pc = [t \in Threads |-> "idle"]
    /\ holder = Nobody
    /\ seq = [t \in Threads |-> 0]
    /\ kind = [t \in Threads |-> "infinite"]
    /\ waits = MaxWaits
    /\ pulses = MaxPulses
    /\ answer = [t \in Threads |-> "OK"]
    /\ slipped = {} /\ owed = {}

ThreadStep(t) ==
    \/ WaitUnlock(t) \/ WaitSleep(t) \/ WaitRelock(t) \/ RelockFails(t)
    \/ PulseCas(t) \/ PulseWake(t)

CondNext ==
    \/ \E t \in Threads : \/ Lock(t) \/ Unlock(t) \/ WaitLoad(t) \/ PulseLoad(t)
                          \/ ThreadStep(t) \/ HostStep(t)
    \/ Shutdown

CondSpec == CondInit /\ [][CondNext]_vars

(* Threads run, deadlines pass, and a thread does not keep the mutex.  The *)
(* mutex goes to whoever exchanges its word first: a waiter is sure to get *)
(* it only when it stays free, or to be refused when the host is closing.  *)
CondFairness ==
    \A t \in Threads :
        /\ WF_vars(WaitUnlock(t) \/ WaitSleep(t) \/ PulseCas(t) \/ PulseWake(t))
        /\ WF_vars(WaitRelock(t) \/ (closing /\ RelockFails(t)))
        /\ WF_vars((ResumeNotified(t) \/ ResumeExpired(t)) /\ UNCHANGED condVars)
        /\ WF_vars(Expire(t) /\ UNCHANGED condVars)
        /\ WF_vars(Unlock(t))
FairCondSpec == CondSpec /\ CondFairness

-----------------------------------------------------------------------------
(* Unlocking and falling asleep act as one step for the pulses: a waiter   *)
(* that had let the mutex go when a pulse came does not sleep through it.  *)
NoMissedPulse == \A t \in slipped : t \notin Blocked(Cond)

(* A wait with a deadline leaves the futex, whoever takes the tokens, and  *)
(* ends, unless other threads pass the mutex among themselves for ever     *)
(* while it tries to lock it, and then only until the host closes.         *)
TimedWait(t) == pc[t] = "asleep" /\ kind[t] = "finite"
TimedWaitEnds ==
    \A t \in Threads :
        <>[]TimedWait(t) => /\ <>[](fpc[t] = "returned" /\ ~closing)
                           /\ []<>(holder = Nobody) /\ []<>(holder # Nobody)

(* pthread_cond_broadcast releases every thread that sleeps on the         *)
(* condition when it is called: once the broadcast is over none of them is *)
(* asleep on the condition variable again.                                 *)
BroadcastReleases ==
    (\A t \in Threads : pc[t] \notin {"pulse", "wake"}) => owed \cap Blocked(Cond) = {}
=============================================================================
