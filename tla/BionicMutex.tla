----------------------------- MODULE BionicMutex -----------------------------
(***************************************************************************)
(* pthread_mutex of the guest: lock, trylock and unlock of                 *)
(* Runtime/Bionic/agr_bionic_sync.cpp on one mutex word, sleeping on       *)
(* FutexHost.  Every callback into guest memory (load, cas, exchange,      *)
(* fetch_sub, store) is one action, and so is every futex call; between    *)
(* two of them any other thread may run.                                   *)
(*                                                                         *)
(* The 32-bit word is its fields: the type bits, the owner's thread id in  *)
(* the high half, the recursion counter and the two state bits; the        *)
(* process-shared bit, which every operation carries along, is left out.   *)
(* "depth" is what the guest program knows: how often each thread's lock   *)
(* calls have succeeded and not been undone.                               *)
(***************************************************************************)
EXTENDS FutexHost

CONSTANTS Mutex,       \* the address of the mutex word
          Kinds,       \* the types of mutex looked at
          ThreadId,    \* the id current_thread reports, by thread
          IdModulus,   \* 2^16: the word keeps 16 bits of the id
          MaxCounter,  \* the largest recursion counter (2047 in 11 bits)
          MaxCalls     \* bound: lock and trylock calls, by thread

ASSUME MutexAssumption ==
    /\ Mutex \in Addrs \ Unmapped
    /\ Kinds \subseteq {"normal", "recursive", "errorcheck"}
    /\ ThreadId \in [Threads -> Nat]
    /\ IdModulus \in Nat \ {0}
    /\ MaxCounter \in Nat
    /\ MaxCalls \in [Threads -> Nat]

VARIABLES pc,      \* where a thread is in its call
          op,      \* which call it is in
          val,     \* the "value" local of that call
          depth,   \* the claims the guest program knows of
          calls,   \* lock and trylock calls left
          answer   \* what a thread's last call returned

mutexVars == <<pc, op, val, depth, calls, answer>>
vars == <<futexVars, mutexVars>>

Tid(t) == ThreadId[t] % IdModulus

\* the type bits, which every operation writes back as it found them
Kind == word[Mutex].type
Word(owner, counter, state) ==
    [type |-> Kind, owner |-> owner, counter |-> counter, state |-> state]
Unlocked == Word(0, 0, 0)
TakenBy(t, state) == Word(IF Kind = "normal" THEN 0 ELSE Tid(t), 0, state)
Words == [type : Kinds, owner : 0 .. IdModulus - 1, counter : 0 .. MaxCounter, state : 0 .. 2]
\* fault: any taken word counts as the caller's own
MineIfTaken(t, w) == w.state # 0
Mine(t, w) == w.state # 0 /\ w.owner = Tid(t)
\* fault: the exchange takes an uncontended word for a free one
FreeUnlessContended(w) == w.state # 2
Free(w) == w = Unlocked

Goto(t, l) == pc' = [pc EXCEPT ![t] = l]
Assign(w) == word' = [word EXCEPT ![Mutex] = w]
Answer(t, r) == Goto(t, "idle") /\ answer' = [answer EXCEPT ![t] = r]
Acquired(t) == Answer(t, "OK") /\ depth' = [depth EXCEPT ![t] = @ + 1]

\* a callback into guest memory: the futex host is not involved
InMemory == UNCHANGED <<hostVars, threadVars>>
\* a step that changes neither the word nor the claims
Quietly == UNCHANGED <<word, depth>>

\* compare and swap of the word, then one step or the other
Cas(old, new, won, lost) ==
    \/ word[Mutex] = old /\ Assign(new) /\ won
    \/ word[Mutex] # old /\ UNCHANGED word /\ lost
-----------------------------------------------------------------------------
(* A call begins.  The guest program is correct: a normal mutex is unlocked *)
(* by its holder only, and its holder does not lock it again.               *)
Call(t) ==
    /\ pc[t] = "idle"
    /\ \/ \E o \in {"lock", "trylock"} :
            /\ calls[t] > 0
            /\ o = "lock" /\ Kind = "normal" => depth[t] = 0
            /\ calls' = [calls EXCEPT ![t] = @ - 1]
            /\ op' = [op EXCEPT ![t] = o]
            /\ UNCHANGED depth
       \/ /\ depth[t] > 0
          /\ op' = [op EXCEPT ![t] = "unlock"]
          /\ depth' = [depth EXCEPT ![t] = @ - 1]
          /\ UNCHANGED calls
    /\ Goto(t, "load")
    /\ InMemory /\ UNCHANGED <<word, val, answer>>

(* pthread_mutex_unlock of a recursive or error-checking mutex by a thread *)
(* that does not hold it is legal and refused.                             *)
CallUnlockUnowned(t) ==
    /\ pc[t] = "idle" /\ Kind # "normal" /\ depth[t] = 0
    /\ calls[t] > 0
    /\ calls' = [calls EXCEPT ![t] = @ - 1]
    /\ op' = [op EXCEPT ![t] = "unlock"]
    /\ Goto(t, "load")
    /\ InMemory /\ UNCHANGED <<word, val, depth, answer>>

(* The first load, the refusals, and the branch on type and ownership.     *)
Refused(t, w) ==
    IF Kind = "normal" THEN "none"
    ELSE CASE op[t] = "lock" /\ Tid(t) = 0                    -> "EINVAL"
           [] op[t] = "trylock" /\ Tid(t) = 0 /\ ~Mine(t, w)  -> "EINVAL"
           [] op[t] = "unlock" /\ w.owner # Tid(t)            -> "EPERM"
           [] OTHER                                           -> "none"

Branch(t, w) ==
    IF Kind = "normal" THEN IF op[t] = "unlock" THEN "sub" ELSE "fast"
    ELSE CASE op[t] = "lock"    -> IF w = Unlocked THEN "fast" ELSE "loop"
           [] op[t] = "trylock" -> IF Mine(t, w) THEN "mine" ELSE "fast"
           [] op[t] = "unlock"  -> IF w.counter # 0 THEN "dec" ELSE "release"

Load(t) ==
    LET w == word[Mutex] IN
    /\ pc[t] = "load"
    /\ val' = [val EXCEPT ![t] = IF Kind = "normal" THEN @ ELSE w]
    /\ IF Refused(t, w) # "none" THEN Answer(t, Refused(t, w))
       ELSE Goto(t, Branch(t, w)) /\ UNCHANGED answer
    /\ InMemory /\ Quietly /\ UNCHANGED <<op, calls>>

-----------------------------------------------------------------------------
(* pthread_mutex_lock and trylock: the first attempt.                      *)
Fast(t) ==
    /\ pc[t] = "fast"
    /\ Cas(Unlocked, TakenBy(t, 1),
           Acquired(t),
           /\ IF op[t] = "trylock" THEN Answer(t, "EBUSY")
              ELSE Goto(t, IF Kind = "normal" THEN "exchange" ELSE "loop")
                   /\ UNCHANGED answer
           /\ UNCHANGED depth)
    /\ InMemory /\ UNCHANGED <<op, val, calls>>

\* fault: a contender marks the word taken but not contended
MarkTaken == Word(0, 0, 1)
Mark == Word(0, 0, 2)

(* _normal_lock: exchange 2 and sleep until the exchange finds 0.          *)
Exchange(t) ==
    /\ pc[t] = "exchange"
    /\ Assign(Mark)
    /\ val' = [val EXCEPT ![t] = Mark]
    /\ IF Free(word[Mutex]) THEN Acquired(t)
       ELSE Goto(t, "wait") /\ UNCHANGED <<depth, answer>>
    /\ InMemory /\ UNCHANGED <<op, calls>>

(* _recursive_lock: look again.                                            *)
Loop(t) ==
    LET w == word[Mutex] IN
    /\ pc[t] = "loop"
    /\ val' = [val EXCEPT ![t] = w]
    /\ \/ Mine(t, w) /\ Kind = "errorcheck" /\ Answer(t, "EDEADLK")
       \/ Mine(t, w) /\ Kind = "recursive" /\ w.counter = MaxCounter
          /\ Answer(t, "EAGAIN")
       \/ Mine(t, w) /\ Kind = "recursive" /\ w.counter # MaxCounter
          /\ Goto(t, "inc") /\ UNCHANGED answer
       \/ ~Mine(t, w) /\ w = Unlocked /\ Goto(t, "take") /\ UNCHANGED answer
       \/ ~Mine(t, w) /\ w # Unlocked /\ w.state = 1 /\ Goto(t, "contend")
          /\ UNCHANGED answer
       \/ ~Mine(t, w) /\ w # Unlocked /\ w.state # 1 /\ Goto(t, "wait")
          /\ UNCHANGED answer
    /\ InMemory /\ Quietly /\ UNCHANGED <<op, calls>>

Deeper(w) == [w EXCEPT !.counter = @ + 1]

(* One claim more for the owner; trylock tests the limit here.             *)
Inc(t) ==
    /\ pc[t] = "inc"
    /\ Cas(val[t], Deeper(val[t]),
           Acquired(t),
           Goto(t, IF op[t] = "trylock" THEN "retry" ELSE "loop")
           /\ UNCHANGED <<depth, answer>>)
    /\ InMemory /\ UNCHANGED <<op, val, calls>>

TryMine(t) ==
    /\ pc[t] = "mine"
    /\ \/ Kind = "errorcheck" /\ Answer(t, "EDEADLK")
       \/ Kind = "recursive" /\ val[t].counter = MaxCounter /\ Answer(t, "EAGAIN")
       \/ Kind = "recursive" /\ val[t].counter # MaxCounter
          /\ Goto(t, "inc") /\ UNCHANGED answer
    /\ InMemory /\ Quietly /\ UNCHANGED <<op, val, calls>>

TryAgain(t) ==
    /\ pc[t] = "retry"
    /\ val' = [val EXCEPT ![t] = word[Mutex]]
    /\ IF word[Mutex].owner = Tid(t) THEN Goto(t, "inc") /\ UNCHANGED answer
       ELSE Answer(t, "EBUSY")
    /\ InMemory /\ Quietly /\ UNCHANGED <<op, calls>>

\* fault: a waiter that gets the mutex forgets that others may sleep
TakeState1 == 1
TakeState == 2

(* A thread that had to wait takes the mutex as contended.                 *)
Take(t) ==
    /\ pc[t] = "take"
    /\ Cas(val[t], TakenBy(t, TakeState), Acquired(t),
           Goto(t, "loop") /\ UNCHANGED <<depth, answer>>)
    /\ InMemory /\ UNCHANGED <<op, val, calls>>

Contend(t) ==
    LET marked == [val[t] EXCEPT !.state = 2] IN
    /\ pc[t] = "contend"
    /\ \/ /\ word[Mutex] = val[t] /\ Assign(marked)
          /\ val' = [val EXCEPT ![t] = marked] /\ Goto(t, "wait")
       \/ /\ word[Mutex] # val[t] /\ UNCHANGED <<word, val>> /\ Goto(t, "loop")
    /\ InMemory /\ UNCHANGED <<op, depth, calls, answer>>

(* The futex call, and what follows its return: only 0, EAGAIN and EINTR   *)
(* go around again.                                                        *)
Wait(t) ==
    /\ pc[t] = "wait"
    /\ FutexWait(t, Mutex, val[t], "infinite")
    /\ Goto(t, "sleep")
    /\ UNCHANGED <<op, val, depth, calls, answer>>

Woken(t) ==
    /\ pc[t] = "sleep"
    /\ PickUp(t)
    /\ IF result[t] \in {"OK", "EAGAIN"}
       THEN Goto(t, IF Kind = "normal" THEN "exchange" ELSE "loop") /\ UNCHANGED answer
       ELSE Answer(t, result[t])
    /\ UNCHANGED <<op, val, depth, calls>>

-----------------------------------------------------------------------------
(* pthread_mutex_unlock.  The normal one subtracts 1; when the word was    *)
(* not 1 it stores 0 and wakes one, in three separate accesses.            *)
Sub(t) ==
    /\ pc[t] = "sub"
    /\ Assign([word[Mutex] EXCEPT !.state = @ - 1])
    /\ IF word[Mutex].state = 1 THEN Answer(t, "OK")
       ELSE Goto(t, "clear") /\ UNCHANGED answer
    /\ InMemory /\ UNCHANGED <<op, val, depth, calls>>

Clear(t) ==
    /\ pc[t] = "clear"
    /\ Assign(Unlocked)
    /\ Goto(t, "wake")
    /\ InMemory /\ UNCHANGED <<op, val, depth, calls, answer>>

Shallower(w) == [w EXCEPT !.counter = @ - 1]

Dec(t) ==
    /\ pc[t] = "dec"
    /\ \/ /\ word[Mutex] = val[t] /\ Assign(Shallower(val[t]))
          /\ UNCHANGED val /\ Answer(t, "OK")
       \/ /\ word[Mutex] # val[t] /\ UNCHANGED <<word, pc, answer>>
          /\ val' = [val EXCEPT ![t] = word[Mutex]]
    /\ InMemory /\ UNCHANGED <<op, depth, calls>>

Release(t) ==
    /\ pc[t] = "release"
    /\ Assign(Unlocked)
    /\ IF word[Mutex].state = 2 THEN Goto(t, "wake") /\ UNCHANGED answer
       ELSE Answer(t, "OK")
    /\ InMemory /\ UNCHANGED <<op, val, depth, calls>>

WakeOne(t) ==
    /\ pc[t] = "wake"
    /\ Wake(Mutex, 1)
    /\ Answer(t, "OK")
    /\ UNCHANGED <<op, val, depth, calls>>

-----------------------------------------------------------------------------
(* The host underneath: threads leave the condition variable on their own. *)
HostStep(t) == (ResumeNotified(t) \/ SpuriousWakeup(t)) /\ UNCHANGED mutexVars
Shutdown == CancelAll /\ UNCHANGED mutexVars

Step(t) ==
    \/ Load(t) \/ Fast(t) \/ Exchange(t) \/ Loop(t) \/ Inc(t) \/ TryMine(t)
    \/ TryAgain(t) \/ Take(t) \/ Contend(t) \/ Wait(t) \/ Woken(t)
    \/ Sub(t) \/ Clear(t) \/ Dec(t) \/ Release(t) \/ WakeOne(t)

MutexInit ==
    /\ FutexInit
    /\ \E k \in Kinds :
         LET free == [type |-> k, owner |-> 0, counter |-> 0, state |-> 0]
         IN  /\ word = [a \in Addrs |-> free]
             /\ val = [t \in Threads |-> free]
    /\ pc = [t \in Threads |-> "idle"]
    /\ op = [t \in Threads |-> "lock"]
    /\ depth = [t \in Threads |-> 0]
    /\ calls = MaxCalls
    /\ answer = [t \in Threads |-> "OK"]

\* every thread has made its calls and released what it held
Done == \A t \in Threads : pc[t] = "idle" /\ depth[t] = 0 /\ calls[t] = 0

MutexNext ==
    \/ \E t \in Threads : Call(t) \/ CallUnlockUnowned(t) \/ Step(t) \/ HostStep(t)
    \/ Shutdown
    \/ Done /\ UNCHANGED vars

MutexSpec == MutexInit /\ [][MutexNext]_vars

(* Host threads are scheduled, and guest critical sections end.            *)
MutexFairness ==
    \A t \in Threads : /\ WF_vars(Step(t))
                       /\ WF_vars(ResumeNotified(t) /\ UNCHANGED mutexVars)
                       /\ WF_vars(Call(t) /\ depth[t] > 0 /\ calls' = calls)
FairMutexSpec == MutexSpec /\ MutexFairness

-----------------------------------------------------------------------------
(* The word of a recursive or error-checking mutex says who holds it and   *)
(* how often: the owner's claims are the counter and one.                  *)
Unlocking(t) == op[t] = "unlock" /\ pc[t] \in {"load", "dec", "release"}
Claims(t) == depth[t] + (IF Unlocking(t) THEN 1 ELSE 0)
OwnerExact ==
    Kind # "normal" =>
        \A t \in Threads :
            /\ depth[t] > 0 => Mine(t, word[Mutex])
            /\ Mine(t, word[Mutex]) => Claims(t) = word[Mutex].counter + 1

(* A thread asleep on the mutex is never forgotten: the word says that an  *)
(* unlock must wake, or an unlock is about to wake, or a thread on its way *)
(* through the lock loop will mark the word or hand the mutex on.          *)
Retrying(t) ==
    \/ pc[t] \in {"exchange", "loop", "take", "contend", "wait"}
    \/ pc[t] = "sleep" /\ \/ fpc[t] \in {"notified", "expired"}
                          \/ fpc[t] = "returned" /\ result[t] # "ENOMEM"
NoLostWakeup ==
    Blocked(Mutex) # {} /\ ~closing =>
        \/ word[Mutex].state = 2
        \/ \E t \in Threads : pc[t] \in {"clear", "wake"} \/ Retrying(t)

(* A call that has begun returns, if holders unlock: nobody sleeps on a    *)
(* free mutex for ever.                                                    *)
CallsReturn == \A t \in Threads : pc[t] # "idle" ~> pc[t] = "idle"

(* The mutex is a lock: each call takes effect at one step.                *)
Lock == INSTANCE AbstractLock
          WITH limit <- IF Kind = "recursive" THEN MaxCounter + 1 ELSE 1
ImplementsLock == Lock!Spec
=============================================================================
