------------------------------ MODULE FutexHost ------------------------------
(***************************************************************************)
(* The wait/wake boundary the ported Bionic synchronisation code sleeps    *)
(* on: Runtime/Bionic/agr_futex_host.cpp.  One host mutex guards a map     *)
(* from guest word addresses to queues; a queue counts the threads inside  *)
(* agr_futex_host_wait ("waiters") and the wake tokens not taken yet       *)
(* ("pending"), and owns the condition variable those threads block on.    *)
(*                                                                         *)
(* A critical section of the host mutex is one action.  A thread inside    *)
(* agr_futex_host_wait is "blocked" on the condition variable, "notified"  *)
(* (released by a notification or spuriously, as C++ allows, and on its    *)
(* way to the mutex) or "expired" (its deadline passed).  A call that is   *)
(* over is "returned" until the caller picks the result up.                *)
(***************************************************************************)
EXTENDS Naturals, FiniteSets

CONSTANTS Threads,   \* guest threads, each on a host thread of its own
          Addrs,     \* word aligned guest addresses
          Values,    \* values a guest word takes
          Unmapped,  \* addresses whose word the process cannot read
          Maxima,    \* the "maximum" arguments of agr_futex_host_wake
          Modulus    \* stands for 2^32: the counters are uint32_t

ASSUME FutexAssumption ==
    /\ IsFiniteSet(Threads)
    /\ Addrs # {}
    /\ Unmapped \subseteq Addrs
    /\ Maxima \subseteq Nat
    /\ Modulus \in Nat
    /\ Cardinality(Threads) < Modulus

VARIABLES word,     \* guest memory
          queues,   \* addresses with a queue in the map
          nullq,    \* map entries left without a queue by a failed allocation
          waiters, pending,
          closing,
          fpc, faddr, timed, result,
          faulted   \* a null queue has been dereferenced

hostVars   == <<queues, nullq, waiters, pending, closing, faulted>>
threadVars == <<fpc, faddr, timed, result>>
futexVars  == <<word, hostVars, threadVars>>

Inside(a)   == {t \in Threads : fpc[t] \in {"blocked", "notified", "expired"}
                                /\ faddr[t] = a}
Blocked(a)  == {t \in Inside(a) : fpc[t] = "blocked"}
InFlight(a) == {t \in Inside(a) : fpc[t] \in {"notified", "expired"}}

\* uint32_t subtraction
Minus(x, y) == IF y <= x THEN x - y ELSE x + Modulus - y
Least(x, y) == IF x <= y THEN x ELSE y

\* what faddr holds of a thread that waits on nothing
AnyAddr == CHOOSE a \in Addrs : TRUE

FutexInit ==
    /\ queues = {} /\ nullq = {}
    /\ waiters = [a \in Addrs |-> 0]
    /\ pending = [a \in Addrs |-> 0]
    /\ closing = FALSE /\ faulted = FALSE
    /\ fpc = [t \in Threads |-> "out"]
    /\ faddr = [t \in Threads |-> AnyAddr]
    /\ timed = [t \in Threads |-> FALSE]
    /\ result = [t \in Threads |-> "OK"]

Return(t, r) ==
    /\ fpc' = [fpc EXCEPT ![t] = "returned"]
    /\ result' = [result EXCEPT ![t] = r]

-----------------------------------------------------------------------------
(* The early returns of agr_futex_host_wait, in the order of the code.     *)
Refusal(a, expected, timeout) ==
    IF closing                  THEN "ECANCELED"
    ELSE IF a \in Unmapped      THEN "EFAULT"
    ELSE IF word[a] # expected  THEN "EAGAIN"
    ELSE IF timeout = "zero"    THEN "ETIMEDOUT"
    ELSE "none"

EnterRefused(t, a, expected, timeout) ==
    /\ Refusal(a, expected, timeout) # "none"
    /\ Return(t, Refusal(a, expected, timeout))
    /\ UNCHANGED <<hostVars, faddr, timed>>

(* operator[] inserts the map entry before make_shared can throw.          *)
EnterNoMemory(t, a, expected, timeout) ==
    /\ Refusal(a, expected, timeout) = "none"
    /\ a \notin queues
    /\ nullq' \in {nullq, nullq \cup {a}}
    /\ Return(t, "ENOMEM")
    /\ UNCHANGED <<queues, waiters, pending, closing, faulted, faddr, timed>>

(* The predicate is tested before the first sleep: a token that is there   *)
(* already is taken at once, and the waiter comes and goes in one section. *)
EnterTakesToken(t, a, expected, timeout) ==
    /\ Refusal(a, expected, timeout) = "none"
    /\ pending[a] # 0
    /\ pending' = [pending EXCEPT ![a] = IF waiters[a] = 0 THEN 0 ELSE @ - 1]
    /\ queues' = IF waiters[a] = 0 THEN queues \ {a} ELSE queues
    /\ Return(t, "OK")
    /\ UNCHANGED <<nullq, waiters, closing, faulted, faddr, timed>>

EnterBlocks(t, a, expected, timeout) ==
    /\ Refusal(a, expected, timeout) = "none"
    /\ pending[a] = 0
    /\ queues' = queues \cup {a}
    /\ nullq' = nullq \ {a}
    /\ waiters' = [waiters EXCEPT ![a] = @ + 1]
    /\ fpc' = [fpc EXCEPT ![t] = "blocked"]
    /\ faddr' = [faddr EXCEPT ![t] = a]
    /\ timed' = [timed EXCEPT ![t] = (timeout = "finite")]
    /\ UNCHANGED <<pending, closing, faulted, result>>

Enter(t, a, expected, timeout) ==
    /\ fpc[t] = "out"
    /\ \/ EnterRefused(t, a, expected, timeout)
       \/ EnterTakesToken(t, a, expected, timeout)
       \/ EnterBlocks(t, a, expected, timeout)
    /\ UNCHANGED word

EnterFails(t, a, expected, timeout) ==
    /\ fpc[t] = "out"
    /\ EnterNoMemory(t, a, expected, timeout)
    /\ UNCHANGED word

FutexWait(t, a, expected, timeout) ==
    Enter(t, a, expected, timeout) \/ EnterFails(t, a, expected, timeout)

-----------------------------------------------------------------------------
(* The code after the sleep: take a token, leave the queue, drop it when   *)
(* the last waiter goes.                                                   *)
\* fault: a woken waiter leaves its token behind
TakenNever(a, awoken) == pending[a]
Taken(a, awoken) == IF awoken /\ pending[a] # 0 THEN pending[a] - 1 ELSE pending[a]

\* fault: a waiter leaves without uncounting itself
CountStays(a) == waiters[a]
CountLeft(a) == Minus(waiters[a], 1)

Leave(t, awoken) ==
    LET a == faddr[t]
        last == CountLeft(a) = 0
    IN  /\ pending' = [pending EXCEPT ![a] = IF last THEN 0 ELSE Taken(a, awoken)]
        /\ waiters' = [waiters EXCEPT ![a] = CountLeft(a)]
        /\ queues' = IF last THEN queues \ {a} ELSE queues
        /\ Return(t, IF closing THEN "ECANCELED"
                     ELSE IF awoken THEN "OK" ELSE "ETIMEDOUT")
        /\ UNCHANGED <<nullq, closing, faulted, faddr, timed>>

\* fault: the predicate forgets the cancellation
ReadyOnToken(t) == pending[faddr[t]] # 0
Ready(t) == pending[faddr[t]] # 0 \/ closing

ResumeNotified(t) ==
    /\ fpc[t] = "notified"
    /\ \/ Ready(t) /\ Leave(t, TRUE)
       \/ /\ ~Ready(t)
          /\ fpc' = [fpc EXCEPT ![t] = "blocked"]
          /\ UNCHANGED <<hostVars, faddr, timed, result>>
    /\ UNCHANGED word

ResumeExpired(t) ==
    /\ fpc[t] = "expired"
    /\ Leave(t, Ready(t))
    /\ UNCHANGED word

(* The deadline of wait_for passes; the thread still has to get the mutex. *)
Expire(t) ==
    /\ fpc[t] \in {"blocked", "notified"} /\ timed[t]
    /\ fpc' = [fpc EXCEPT ![t] = "expired"]
    /\ UNCHANGED <<word, hostVars, faddr, timed, result>>

SpuriousWakeup(t) ==
    /\ fpc[t] = "blocked"
    /\ fpc' = [fpc EXCEPT ![t] = "notified"]
    /\ UNCHANGED <<word, hostVars, faddr, timed, result>>

-----------------------------------------------------------------------------
\* fault: tokens already published are promised again
WakeCountAll(a, maximum) ==
    IF a \in queues THEN Least(maximum, waiters[a]) ELSE 0
WakeCount(a, maximum) ==
    IF a \in queues THEN Least(maximum, Minus(waiters[a], pending[a])) ELSE 0

(* notify_one for one token, notify_all for more.                          *)
\* fault: a single token is published without a notification
NotifiedMany(a, count) == IF count < 2 THEN {{}} ELSE {Blocked(a)}
Notified(a, count) ==
    IF count = 0 \/ Blocked(a) = {} THEN {{}}
    ELSE IF count = 1 THEN {{u} : u \in Blocked(a)}
    ELSE {Blocked(a)}

(* caller: the thread in agr_futex_host_wake.  It is no waiter itself.     *)
Wake(a, maximum) ==
    /\ IF a \in nullq /\ maximum # 0
       THEN faulted' = TRUE /\ UNCHANGED <<pending, fpc>>
       ELSE /\ pending' = [pending EXCEPT ![a] = @ + WakeCount(a, maximum)]
            /\ \E N \in Notified(a, WakeCount(a, maximum)) :
                 fpc' = [t \in Threads |-> IF t \in N THEN "notified" ELSE fpc[t]]
            /\ UNCHANGED faulted
    /\ UNCHANGED <<word, queues, nullq, waiters, closing, faddr, timed, result>>

CancelAll ==
    /\ ~closing
    /\ closing' = TRUE
    /\ faulted' = (faulted \/ nullq # {})
    /\ fpc' = [t \in Threads |-> IF fpc[t] = "blocked" THEN "notified" ELSE fpc[t]]
    /\ UNCHANGED <<word, queues, nullq, waiters, pending, faddr, timed, result>>

-----------------------------------------------------------------------------
(* The callers: guest code writes its words without the host mutex, and a  *)
(* thread whose wait has returned goes on.                                 *)
Store(a, v) ==
    /\ word' = [word EXCEPT ![a] = v]
    /\ UNCHANGED <<hostVars, threadVars>>

PickUp(t) ==
    /\ fpc[t] = "returned"
    /\ fpc' = [fpc EXCEPT ![t] = "out"]
    /\ faddr' = [faddr EXCEPT ![t] = AnyAddr]
    /\ timed' = [timed EXCEPT ![t] = FALSE]
    /\ result' = [result EXCEPT ![t] = "OK"]
    /\ UNCHANGED <<word, hostVars>>

Timeouts == {"zero", "finite", "infinite"}

Init == FutexInit /\ word \in [Addrs -> Values]

WaitStep(t)   == \E a \in Addrs, v \in Values, d \in Timeouts : FutexWait(t, a, v, d)
WakeStep      == \E a \in Addrs, m \in Maxima : Wake(a, m)
StoreStep     == \E a \in Addrs, v \in Values : Store(a, v)

Next ==
    \/ \E t \in Threads : \/ WaitStep(t)
                          \/ ResumeNotified(t) \/ ResumeExpired(t)
                          \/ Expire(t) \/ SpuriousWakeup(t) \/ PickUp(t)
    \/ WakeStep \/ StoreStep \/ CancelAll

Spec == Init /\ [][Next]_futexVars

(* A released or expired thread gets the host mutex sooner or later; the   *)
(* critical sections are finite and never block.                           *)
Fairness == \A t \in Threads : WF_futexVars(ResumeNotified(t) \/ ResumeExpired(t))
FairSpec == Spec /\ Fairness

-----------------------------------------------------------------------------
TypeOK ==
    /\ word \in [Addrs -> Values]
    /\ queues \subseteq Addrs /\ nullq \subseteq Addrs
    /\ waiters \in [Addrs -> Nat] /\ pending \in [Addrs -> Nat]
    /\ closing \in BOOLEAN /\ faulted \in BOOLEAN
    /\ fpc \in [Threads -> {"out", "blocked", "notified", "expired", "returned"}]
    /\ faddr \in [Threads -> Addrs]
    /\ timed \in [Threads -> BOOLEAN]
    /\ result \in [Threads -> {"OK", "ECANCELED", "EFAULT", "EAGAIN",
                               "ETIMEDOUT", "ENOMEM"}]

(* The counter of a queue is the number of threads inside the wait, and    *)
(* the map holds a queue exactly while somebody is: whatever the order of  *)
(* wake-ups, timeouts, stolen tokens and cancellation, no queue is dropped *)
(* under a sleeper and none stays behind (lines 65, 80, 81).               *)
CountsExact ==
    \A a \in Addrs : /\ waiters[a] = Cardinality(Inside(a))
                     /\ a \in queues <=> Inside(a) # {}

(* Every published token has a thread on its way to take it: a wake-up is  *)
(* never parked while all waiters sleep, although tokens may be taken by   *)
(* newcomers and by expired waiters instead of the notified ones.  It also *)
(* keeps "waiters - pending" (line 94) from wrapping around.               *)
TokensCovered == \A a \in Addrs : pending[a] <= Cardinality(InFlight(a))

(* A token is spent once and for one waiter: it goes away one at a time,   *)
(* and the step in which it goes ends exactly one wait with 0 (or, after   *)
(* cancel_all, may end one with ECANCELED); no wait returns 0 without one; *)
(* and a wake never promises more tokens than there are threads inside.    *)
Finishing(t, r) == fpc[t] # "returned" /\ fpc'[t] = "returned" /\ result'[t] = r
Accounted(a) ==
    LET ended == {t \in Threads : Finishing(t, "OK")}
    IN  /\ pending'[a] < pending[a] =>
             /\ pending'[a] = pending[a] - 1
             /\ closing \/ \E t \in Threads : ended = {t}
        /\ ended # {} => \E b \in Addrs : pending'[b] = pending[b] - 1
        /\ pending'[a] > pending[a] =>
             ended = {} /\ pending'[a] <= Cardinality(Inside(a))
TokenAccounting == [][\A a \in Addrs : Accounted(a)]_futexVars

(* agr_futex_host_cancel_all empties the host: process teardown waits for  *)
(* every sleeper (agr_runtime.c:274-282 shuts the workers down after it).  *)
CancelDrains == closing ~> \A a \in Addrs : Inside(a) = {}

(* A published token is taken; it does not wait for the next wake.         *)
TokensTaken == \A a \in Addrs : pending[a] # 0 ~> pending[a] = 0
=============================================================================
