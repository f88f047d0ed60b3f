--------------------------- MODULE BionicMutexProofs ---------------------------
(***************************************************************************)
(* Theorems about BionicMutex, for any threads, any kinds of mutex, any    *)
(* limit of recursion and any number of calls, when the 16 bits the word   *)
(* keeps of a thread's id are not 0 and tell the threads apart.            *)
(*                                                                         *)
(* A normal mutex and one with an owner are two programs on one word, with *)
(* an invariant each.  Of the normal one the word says only that somebody  *)
(* holds it, and the holder may be inside its unlock, before the store     *)
(* that gives the mutex up.  Of the other it says who and how often; what  *)
(* its holder has read stays true while others only mark the word          *)
(* contended.  Who sleeps, and what promises that a sleeper is woken, is a *)
(* third invariant, on top of the futex host's own.                        *)
(***************************************************************************)
EXTENDS BionicMutex, FiniteSetTheorems, TLAPS

-----------------------------------------------------------------------------
(* The futex host, for every set of threads, addresses and words.          *)

(* The host's own part of the inductive invariant: the counters only make  *)
(* sense together.  The type of "pending" after a wake needs pending <=    *)
(* waiters, which follows from the exact waiter count and the coverage of  *)
(* the tokens.  Nothing is said of the words, so that callers who keep     *)
(* words of their own can use it.                                          *)
HostTypes ==
    /\ queues \subseteq Addrs /\ nullq \subseteq Addrs
    /\ waiters \in [Addrs -> Nat] /\ pending \in [Addrs -> Nat]
    /\ closing \in BOOLEAN /\ faulted \in BOOLEAN
    /\ fpc \in [Threads -> {"out", "blocked", "notified", "expired", "returned"}]
    /\ faddr \in [Threads -> Addrs]
    /\ timed \in [Threads -> BOOLEAN]
    /\ result \in [Threads -> {"OK", "ECANCELED", "EFAULT", "EAGAIN",
                               "ETIMEDOUT", "ENOMEM"}]
HostInv == HostTypes /\ CountsExact /\ TokensCovered

IInv == word \in [Addrs -> Values] /\ HostInv

(* The thread sets of an address are finite, and their sizes are ordered.  *)
LEMMA SetSizes ==
    ASSUME NEW a \in Addrs
    PROVE  /\ IsFiniteSet(Inside(a)) /\ IsFiniteSet(InFlight(a))
           /\ Cardinality(Inside(a)) \in Nat /\ Cardinality(InFlight(a)) \in Nat
           /\ Cardinality(InFlight(a)) <= Cardinality(Inside(a))
           /\ Cardinality(Inside(a)) = 0 <=> Inside(a) = {}
<1>1. Inside(a) \subseteq Threads /\ InFlight(a) \subseteq Inside(a)
  BY DEF Inside, InFlight
<1>2. IsFiniteSet(Inside(a)) /\ IsFiniteSet(InFlight(a))
  BY <1>1, FutexAssumption, FS_Subset
<1>3. Cardinality(InFlight(a)) <= Cardinality(Inside(a))
  BY <1>1, <1>2, FS_Subset
<1> QED BY <1>2, <1>3, FS_CardinalityType, FS_EmptySet

(* The same after the step.                                                *)
LEMMA SetSizesNext ==
    ASSUME NEW a \in Addrs
    PROVE  /\ IsFiniteSet(Inside(a)') /\ IsFiniteSet(InFlight(a)')
           /\ Cardinality(Inside(a)') \in Nat /\ Cardinality(InFlight(a)') \in Nat
           /\ Cardinality(InFlight(a)') <= Cardinality(Inside(a)')
           /\ Cardinality(Inside(a)') = 0 <=> Inside(a)' = {}
<1>1. Inside(a)' \subseteq Threads /\ InFlight(a)' \subseteq Inside(a)'
  BY DEF Inside, InFlight
<1>2. IsFiniteSet(Inside(a)') /\ IsFiniteSet(InFlight(a)')
  BY <1>1, FutexAssumption, FS_Subset
<1>3. Cardinality(InFlight(a)') <= Cardinality(Inside(a)')
  BY <1>1, <1>2, FS_Subset
<1> QED BY <1>2, <1>3, FS_CardinalityType, FS_EmptySet

(* No subtraction of the host wraps around.                                *)
LEMMA NoWrap ==
    ASSUME HostInv, NEW a \in Addrs
    PROVE  /\ pending[a] <= waiters[a]
           /\ Minus(waiters[a], pending[a]) = waiters[a] - pending[a]
           /\ Inside(a) # {} => waiters[a] >= 1 /\ CountLeft(a) = waiters[a] - 1
<1>1. pending[a] \in Nat /\ waiters[a] \in Nat
  BY DEF HostInv, HostTypes
<1>2. pending[a] <= waiters[a]
  BY <1>1, SetSizes DEF HostInv, CountsExact, TokensCovered
<1>3. Inside(a) # {} => waiters[a] >= 1
  BY SetSizes DEF HostInv, CountsExact
<1> QED BY <1>1, <1>2, <1>3 DEF Minus, CountLeft

(* A step that changes neither the counters nor who is inside or in flight *)
(* keeps the two counting invariants.                                      *)
LEMMA SameSets ==
    ASSUME CountsExact, TokensCovered,
           waiters' = waiters, pending' = pending, queues' = queues,
           \A a \in Addrs : Inside(a)' = Inside(a),
           \A a \in Addrs : Cardinality(InFlight(a)) <= Cardinality(InFlight(a)'),
           HostTypes
    PROVE  CountsExact' /\ TokensCovered'
<1>1. CountsExact'
  BY DEF CountsExact
<1>2. TokensCovered'
  <2> SUFFICES ASSUME NEW a \in Addrs PROVE pending[a] <= Cardinality(InFlight(a)')
    BY DEF TokensCovered
  <2>1. pending[a] <= Cardinality(InFlight(a)) /\ pending[a] \in Nat
    BY DEF TokensCovered, HostTypes
  <2> QED BY <2>1, SetSizes, SetSizesNext
<1> QED BY <1>1, <1>2

(* One thread more in flight, the others as they were.                     *)
LEMMA MoreInFlight ==
    ASSUME \A a \in Addrs : InFlight(a) \subseteq InFlight(a)'
    PROVE  \A a \in Addrs : Cardinality(InFlight(a)) <= Cardinality(InFlight(a)')
BY SetSizesNext, FS_Subset

LEMMA InitInv == FutexInit => HostInv
<1> SUFFICES ASSUME FutexInit PROVE HostInv
  OBVIOUS
<1>1. AnyAddr \in Addrs
  BY FutexAssumption DEF AnyAddr
<1>2. HostTypes
  BY <1>1 DEF FutexInit, HostTypes
<1>3. \A a \in Addrs : Inside(a) = {} /\ InFlight(a) = {}
  BY DEF FutexInit, Inside, InFlight
<1>4. CountsExact
  BY <1>3, FS_EmptySet DEF FutexInit, CountsExact
<1>5. TokensCovered
  BY <1>3, FS_EmptySet DEF FutexInit, TokensCovered
<1> QED BY <1>2, <1>4, <1>5 DEF HostInv

-----------------------------------------------------------------------------
(* Entering the wait.                                                      *)
LEMMA EnterInv ==
    ASSUME HostInv, NEW t \in Threads, NEW a \in Addrs, NEW v, NEW d, Enter(t, a, v, d)
    PROVE  HostInv'
<1> USE DEF HostInv
<1>1. CASE EnterRefused(t, a, v, d)
  <2>1. HostTypes'
    BY <1>1 DEF Enter, EnterRefused, Refusal, Return, HostTypes, hostVars
  <2>2. \A b \in Addrs : Inside(b)' = Inside(b) /\ InFlight(b)' = InFlight(b)
    BY <1>1 DEF Enter, EnterRefused, Return, Inside, InFlight, HostTypes
  <2> QED BY <1>1, <2>1, <2>2, SameSets, MoreInFlight DEF EnterRefused, hostVars
<1>2. CASE EnterTakesToken(t, a, v, d)
  <2>0. waiters[a] # 0 /\ pending[a] >= 1
    BY <1>2, NoWrap DEF EnterTakesToken, HostTypes
  <2>1. /\ pending' = [pending EXCEPT ![a] = @ - 1]
        /\ queues' = queues /\ waiters' = waiters
    BY <1>2, <2>0 DEF EnterTakesToken
  <2>2. HostTypes'
    BY <1>2, <2>0, <2>1 DEF Enter, EnterTakesToken, Return, HostTypes
  <2>3. \A b \in Addrs : Inside(b)' = Inside(b) /\ InFlight(b)' = InFlight(b)
    BY <1>2 DEF Enter, EnterTakesToken, Return, Inside, InFlight, HostTypes
  <2>4. CountsExact'
    BY <2>1, <2>3 DEF CountsExact
  <2>5. TokensCovered'
    <3> SUFFICES ASSUME NEW b \in Addrs PROVE pending'[b] <= Cardinality(InFlight(b))
      BY <2>3 DEF TokensCovered
    <3>1. pending'[b] <= pending[b] /\ pending'[b] \in Nat /\ pending[b] \in Nat
      BY <2>0, <2>1, <2>2 DEF HostTypes
    <3> QED BY <3>1, SetSizes DEF TokensCovered
  <2> QED BY <2>2, <2>4, <2>5
<1>3. CASE EnterBlocks(t, a, v, d)
  <2>1. HostTypes'
    BY <1>3 DEF Enter, EnterBlocks, HostTypes
  <2>2. \A b \in Addrs : InFlight(b)' = InFlight(b)
    BY <1>3 DEF Enter, EnterBlocks, Inside, InFlight, HostTypes
  <2>3. \A b \in Addrs : Inside(b)' = IF b = a THEN Inside(b) \cup {t} ELSE Inside(b)
    BY <1>3 DEF Enter, EnterBlocks, Inside, HostTypes
  <2>4. t \notin Inside(a)
    BY DEF Enter, Inside
  <2>5. CountsExact'
    <3> SUFFICES ASSUME NEW b \in Addrs
                 PROVE  /\ waiters'[b] = Cardinality(Inside(b)')
                        /\ b \in queues' <=> Inside(b)' # {}
      BY DEF CountsExact
    <3>1. CASE b = a
      <4>0. Inside(a)' = Inside(a) \cup {t} /\ IsFiniteSet(Inside(a))
        BY <2>3, SetSizes
      <4>1. Cardinality(Inside(a)') = Cardinality(Inside(a)) + 1
        BY <4>0, <2>4, FS_AddElement
      <4> QED BY <1>3, <3>1, <4>1, <2>3 DEF EnterBlocks, CountsExact, HostTypes
    <3>2. CASE b # a
      BY <1>3, <3>2, <2>3 DEF EnterBlocks, CountsExact, HostTypes
    <3> QED BY <3>1, <3>2
  <2>6. TokensCovered'
    BY <1>3, <2>2 DEF EnterBlocks, TokensCovered
  <2> QED BY <2>1, <2>5, <2>6
<1> QED BY <1>1, <1>2, <1>3 DEF Enter

LEMMA NoMemInv ==
    ASSUME HostInv, NEW t \in Threads, NEW a \in Addrs, NEW v, NEW d, EnterFails(t, a, v, d)
    PROVE  HostInv'
<1> USE DEF HostInv, EnterFails, EnterNoMemory
<1>1. HostTypes'
  BY DEF Return, HostTypes
<1>2. \A b \in Addrs : Inside(b)' = Inside(b) /\ InFlight(b)' = InFlight(b)
  BY DEF Return, Inside, InFlight, HostTypes
<1> QED BY <1>1, <1>2, SameSets, MoreInFlight

-----------------------------------------------------------------------------
(* Leaving the wait: an in-flight thread goes, with at most one token.     *)
LEMMA LeaveInv ==
    ASSUME HostInv, NEW t \in Threads, NEW awoken \in BOOLEAN,
           fpc[t] \in {"notified", "expired"}, Leave(t, awoken), word' = word,
           pending[faddr[t]] # 0 => awoken
    PROVE  HostInv'
<1> PICK a \in Addrs : a = faddr[t]
  BY DEF HostInv, HostTypes
<1> USE DEF HostInv
<1>1. a \in Addrs /\ t \in Inside(a) /\ t \in InFlight(a)
  BY DEF HostTypes, Inside, InFlight
<1>2. waiters[a] >= 1 /\ CountLeft(a) = waiters[a] - 1
  BY <1>1, NoWrap
<1>3. Taken(a, awoken) \in Nat /\ Taken(a, awoken) <= pending[a]
      /\ (pending[a] # 0 => Taken(a, awoken) = pending[a] - 1)
      /\ (pending[a] = 0 => Taken(a, awoken) = 0)
  BY <1>1 DEF Taken, HostTypes
<1>4. HostTypes'
  BY <1>1, <1>2, <1>3 DEF Leave, Return, HostTypes
<1>5. \A b \in Addrs : Inside(b)' = IF b = a THEN Inside(b) \ {t} ELSE Inside(b)
  BY <1>1 DEF Leave, Return, Inside, HostTypes
<1>6. \A b \in Addrs : InFlight(b)' = IF b = a THEN InFlight(b) \ {t} ELSE InFlight(b)
  BY <1>1 DEF Leave, Return, Inside, InFlight, HostTypes
<1>7. /\ Cardinality(Inside(a)') = Cardinality(Inside(a)) - 1
      /\ Cardinality(InFlight(a)') = Cardinality(InFlight(a)) - 1
  <2>1. Inside(a)' = Inside(a) \ {t} /\ InFlight(a)' = InFlight(a) \ {t}
    BY <1>5, <1>6
  <2>2. IsFiniteSet(Inside(a)) /\ IsFiniteSet(InFlight(a))
    BY SetSizes
  <2>3. Cardinality(Inside(a) \ {t}) = Cardinality(Inside(a)) - 1
    BY <1>1, <2>2, FS_RemoveElement
  <2>4. Cardinality(InFlight(a) \ {t}) = Cardinality(InFlight(a)) - 1
    BY <1>1, <2>2, FS_RemoveElement
  <2> QED BY <2>1, <2>3, <2>4
<1>8. CountsExact'
  <2> SUFFICES ASSUME NEW b \in Addrs
               PROVE  /\ waiters'[b] = Cardinality(Inside(b)')
                      /\ b \in queues' <=> Inside(b)' # {}
    BY DEF CountsExact
  <2>1. CASE b = a
    <3>1. waiters'[a] = waiters[a] - 1
      BY <1>1, <1>2 DEF Leave, HostTypes
    <3>2. waiters'[a] = Cardinality(Inside(a)')
      BY <3>1, <1>7, <1>1 DEF CountsExact
    <3>3. waiters'[a] = 0 <=> Inside(a)' = {}
      BY <3>2, <1>1, SetSizesNext
    <3>4. a \in queues
      BY <1>1 DEF CountsExact
    <3> QED BY <2>1, <3>1, <3>2, <3>3, <3>4, <1>2 DEF Leave
  <2>2. CASE b # a
    <3>1. waiters'[b] = waiters[b] /\ (b \in queues' <=> b \in queues)
      BY <2>2 DEF Leave, HostTypes
    <3> QED BY <3>1, <2>2, <1>5 DEF CountsExact
  <2> QED BY <2>1, <2>2
<1>9. TokensCovered'
  <2> SUFFICES ASSUME NEW b \in Addrs PROVE pending'[b] <= Cardinality(InFlight(b)')
    BY DEF TokensCovered
  <2>1. CASE b = a
    <3>1. pending'[a] = IF CountLeft(a) = 0 THEN 0 ELSE Taken(a, awoken)
      BY <1>1 DEF Leave, HostTypes
    <3>2. pending[a] <= Cardinality(InFlight(a)) /\ pending[a] \in Nat
      BY <1>1 DEF TokensCovered, HostTypes
    <3> QED BY <2>1, <3>1, <3>2, <1>1, <1>3, <1>7, SetSizes, SetSizesNext
  <2>2. CASE b # a
    <3>1. pending'[b] = pending[b]
      BY <2>2 DEF Leave, HostTypes
    <3> QED BY <3>1, <2>2, <1>6 DEF TokensCovered
  <2> QED BY <2>1, <2>2
<1> QED BY <1>4, <1>8, <1>9

LEMMA ResumeInv ==
    ASSUME HostInv, NEW t \in Threads, ResumeNotified(t) \/ ResumeExpired(t)
    PROVE  HostInv'
<1>1. CASE ResumeNotified(t) /\ Ready(t)
  BY <1>1, LeaveInv DEF ResumeNotified
<1>2. CASE ResumeNotified(t) /\ ~Ready(t)
  <2> PICK a \in Addrs : a = faddr[t]
    BY DEF HostInv, HostTypes
  <2> USE DEF HostInv
  <2>0. /\ fpc[t] = "notified" /\ fpc' = [fpc EXCEPT ![t] = "blocked"]
        /\ UNCHANGED <<hostVars, faddr, timed, result, word>>
        /\ pending[a] = 0
    BY <1>2 DEF ResumeNotified, Ready
  <2>1. HostTypes'
    BY <2>0 DEF hostVars, HostTypes
  <2>2. \A b \in Addrs : Inside(b)' = Inside(b)
    BY <2>0 DEF Inside, HostTypes
  <2>3. \A b \in Addrs : b # a => InFlight(b)' = InFlight(b)
    BY <2>0 DEF Inside, InFlight, HostTypes
  <2>4. CountsExact'
    BY <2>0, <2>2 DEF CountsExact, hostVars
  <2>5. TokensCovered'
    <3> SUFFICES ASSUME NEW b \in Addrs PROVE pending[b] <= Cardinality(InFlight(b)')
      BY <2>0 DEF TokensCovered, hostVars
    <3>1. CASE b = a
      BY <3>1, <2>0, SetSizesNext
    <3>2. CASE b # a
      BY <3>2, <2>3 DEF TokensCovered
    <3> QED BY <3>1, <3>2
  <2> QED BY <2>1, <2>4, <2>5
<1>3. CASE ResumeExpired(t)
  <2>1. pending[faddr[t]] # 0 => Ready(t)
    BY DEF Ready
  <2>2. Ready(t) \in BOOLEAN
    BY DEF Ready, HostInv, HostTypes
  <2> QED BY <1>3, <2>1, <2>2, LeaveInv DEF ResumeExpired
<1> QED BY <1>1, <1>2, <1>3

LEMMA UnblockInv ==
    ASSUME HostInv, NEW t \in Threads, Expire(t) \/ SpuriousWakeup(t)
    PROVE  HostInv'
<1> USE DEF HostInv, Expire, SpuriousWakeup, hostVars
<1>1. HostTypes'
  BY DEF HostTypes
<1>2. \A b \in Addrs : Inside(b)' = Inside(b) /\ InFlight(b) \subseteq InFlight(b)'
  BY DEF Inside, InFlight, HostTypes
<1> QED BY <1>1, <1>2, SameSets, MoreInFlight

-----------------------------------------------------------------------------
(* A wake: one blocked thread is released for one token, all of them for   *)
(* more; without a blocked thread everybody inside is in flight already.   *)
LEMMA WakeInv ==
    ASSUME HostInv, NEW a \in Addrs, NEW m \in Nat, Wake(a, m)
    PROVE  HostInv'
<1> USE DEF HostInv
<1> DEFINE n == WakeCount(a, m)
<1>1. CASE a \in nullq /\ m # 0
  <2>1. HostTypes'
    BY <1>1 DEF Wake, HostTypes
  <2>2. \A b \in Addrs : Inside(b)' = Inside(b) /\ InFlight(b)' = InFlight(b)
    BY <1>1 DEF Wake, Inside, InFlight
  <2> QED BY <1>1, <2>1, <2>2, SameSets, MoreInFlight DEF Wake
<1>2. CASE ~(a \in nullq /\ m # 0)
  <2>1. m \in Nat /\ n \in Nat /\ pending[a] + n <= waiters[a]
    <3>1. waiters[a] \in Nat /\ pending[a] \in Nat /\ m \in Nat
      BY FutexAssumption DEF HostTypes
    <3> QED BY <3>1, NoWrap DEF WakeCount, Least
  <2> PICK N \in Notified(a, n) :
           fpc' = [t \in Threads |-> IF t \in N THEN "notified" ELSE fpc[t]]
    BY <1>2 DEF Wake
  <2>2. N \subseteq Blocked(a)
    BY DEF Notified
  <2>3. /\ pending' = [pending EXCEPT ![a] = @ + n]
        /\ UNCHANGED <<word, queues, nullq, waiters, closing, faddr, timed, result, faulted>>
    BY <1>2 DEF Wake
  <2>4. HostTypes'
    BY <2>1, <2>3 DEF HostTypes
  <2>5. \A b \in Addrs : Inside(b)' = Inside(b)
    BY <2>2, <2>3 DEF Inside, Blocked, HostTypes
  <2>6. \A b \in Addrs : b # a => InFlight(b)' = InFlight(b)
    BY <2>2, <2>3 DEF Inside, InFlight, Blocked, HostTypes
  <2>7. InFlight(a)' = InFlight(a) \cup N
    BY <2>2, <2>3 DEF Inside, InFlight, Blocked, HostTypes
  <2>8. CountsExact'
    BY <2>3, <2>5 DEF CountsExact
  <2>9. pending'[a] <= Cardinality(InFlight(a)')
    <3>1. pending'[a] = pending[a] + n /\ pending[a] \in Nat
      BY <2>3 DEF HostTypes
    <3>2. waiters[a] = Cardinality(Inside(a)) /\ pending[a] <= Cardinality(InFlight(a))
      BY DEF CountsExact, TokensCovered
    <3>3. CASE n = 0
      <4>1. N = {}
        BY <3>3 DEF Notified
      <4> QED BY <3>1, <3>2, <3>3, <4>1, <2>7
    <3>4. CASE Blocked(a) = {}
      <4>1. N = {} /\ InFlight(a) = Inside(a)
        BY <3>4 DEF Notified, Blocked, InFlight, Inside
      <4> QED BY <3>1, <3>2, <4>1, <2>1, <2>7
    <3>5. CASE n = 1 /\ Blocked(a) # {}
      <4> PICK u \in Blocked(a) : N = {u}
        BY <3>5 DEF Notified
      <4>1. u \notin InFlight(a)
        BY DEF Blocked, InFlight
      <4>2. Cardinality(InFlight(a)') = Cardinality(InFlight(a)) + 1
        BY <4>1, <2>7, SetSizes, FS_AddElement
      <4> QED BY <3>1, <3>2, <3>5, <4>2, SetSizes
    <3>6. CASE n >= 2 /\ Blocked(a) # {}
      <4>1. N = Blocked(a)
        BY <3>6, <2>1 DEF Notified
      <4>2. InFlight(a)' = Inside(a)
        BY <4>1, <2>7 DEF Blocked, InFlight, Inside
      <4> QED BY <3>1, <3>2, <4>2, <2>1
    <3> QED BY <2>1, <3>3, <3>4, <3>5, <3>6
  <2>10. TokensCovered'
    <3> SUFFICES ASSUME NEW b \in Addrs PROVE pending'[b] <= Cardinality(InFlight(b)')
      BY DEF TokensCovered
    <3>1. CASE b = a
      BY <3>1, <2>9
    <3>2. CASE b # a
      BY <3>2, <2>3, <2>6 DEF TokensCovered, HostTypes
    <3> QED BY <3>1, <3>2
  <2> QED BY <2>4, <2>8, <2>10
<1> QED BY <1>1, <1>2

LEMMA CancelInv ==
    ASSUME HostInv, CancelAll
    PROVE  HostInv'
<1> USE DEF HostInv, CancelAll
<1>1. HostTypes'
  BY DEF HostTypes
<1>2. \A b \in Addrs : Inside(b)' = Inside(b) /\ InFlight(b) \subseteq InFlight(b)'
  BY DEF Inside, InFlight, HostTypes
<1> QED BY <1>1, <1>2, SameSets, MoreInFlight

LEMMA CallerInv ==
    ASSUME HostInv, StoreStep \/ (\E t \in Threads : PickUp(t))
    PROVE  HostInv'
<1> USE DEF HostInv
<1>1. CASE StoreStep
  <2>1. HostTypes'
    BY <1>1 DEF StoreStep, Store, hostVars, threadVars, HostTypes
  <2>2. \A b \in Addrs : Inside(b)' = Inside(b) /\ InFlight(b)' = InFlight(b)
    BY <1>1 DEF StoreStep, Store, threadVars, Inside, InFlight
  <2> QED BY <1>1, <2>1, <2>2, SameSets, MoreInFlight
        DEF StoreStep, Store, hostVars
<1>2. ASSUME NEW t \in Threads, PickUp(t) PROVE HostInv'
  <2>0. AnyAddr \in Addrs
    BY FutexAssumption DEF AnyAddr
  <2>1. HostTypes'
    BY <1>2, <2>0 DEF PickUp, hostVars, HostTypes
  <2>2. \A b \in Addrs : Inside(b)' = Inside(b) /\ InFlight(b)' = InFlight(b)
    BY <1>2 DEF PickUp, Inside, InFlight, HostTypes
  <2> QED BY <1>2, <2>1, <2>2, SameSets, MoreInFlight DEF PickUp, hostVars
<1> QED BY <1>1, <1>2

-----------------------------------------------------------------------------
(* The counters of the host are exact, no token is stranded, and no        *)
(* subtraction wraps, for every number of threads and addresses.           *)
THEOREM Invariance == Spec => []IInv
<1>1. HostInv /\ [Next]_futexVars => HostInv'
  <2> SUFFICES ASSUME HostInv, [Next]_futexVars PROVE HostInv'
    OBVIOUS
  <2>1. ASSUME NEW t \in Threads, WaitStep(t) PROVE HostInv'
    BY <2>1, EnterInv, NoMemInv DEF WaitStep, FutexWait
  <2>3. ASSUME NEW t \in Threads, ResumeNotified(t) \/ ResumeExpired(t) PROVE HostInv'
    BY <2>3, ResumeInv
  <2>4. ASSUME NEW t \in Threads, Expire(t) \/ SpuriousWakeup(t) PROVE HostInv'
    BY <2>4, UnblockInv
  <2>5. CASE WakeStep
    BY <2>5, WakeInv, FutexAssumption DEF WakeStep
  <2>6. CASE CancelAll
    BY <2>6, CancelInv
  <2>7. CASE StoreStep \/ (\E t \in Threads : PickUp(t))
    BY <2>7, CallerInv
  <2>8. CASE UNCHANGED futexVars
    BY <2>8 DEF futexVars, hostVars, threadVars, HostInv, HostTypes, CountsExact,
                TokensCovered, Inside, InFlight
  <2> QED BY <2>1, <2>3, <2>4, <2>5, <2>6, <2>7, <2>8 DEF Next
<1>2. word \in [Addrs -> Values] /\ [Next]_futexVars => (word \in [Addrs -> Values])'
  BY DEF Next, WaitStep, FutexWait, WakeStep, StoreStep, Enter, EnterFails, ResumeNotified, ResumeExpired,
         Expire, SpuriousWakeup, PickUp, Wake, Store, CancelAll, futexVars
<1>3. Init => IInv
  BY InitInv DEF Init, IInv
<1>4. IInv /\ [Next]_futexVars => IInv'
  BY <1>1, <1>2 DEF IInv
<1> QED BY <1>3, <1>4, PTL DEF Spec

(* The state stays in its types.                                           *)
THEOREM TypeCorrect == Spec => []TypeOK
<1>1. IInv => TypeOK
  BY DEF IInv, HostInv, HostTypes, TypeOK
<1> QED BY <1>1, Invariance, PTL

(* The waiter counter is the number of sleepers, and no queue is dropped   *)
(* under one (agr_futex_host.cpp:65, 80, 81).                              *)
THEOREM CountsAreExact == Spec => []CountsExact
BY Invariance, PTL DEF IInv, HostInv

(* Every published token has a thread in flight that will take it.         *)
THEOREM NoTokenStranded == Spec => []TokensCovered
BY Invariance, PTL DEF IInv, HostInv

-----------------------------------------------------------------------------
(* What a step does to the tokens.                                         *)
Oks == {t \in Threads : Finishing(t, "OK")}

(* Nobody takes a token and nobody reports one; some may be promised.      *)
LEMMA NoneTaken ==
    ASSUME HostInv, Oks = {},
           \A a \in Addrs : \/ pending'[a] = pending[a]
                            \/ /\ pending'[a] \in Nat /\ pending'[a] >= pending[a]
                               /\ pending'[a] <= Cardinality(Inside(a))
    PROVE  \A a \in Addrs : Accounted(a)
<1> SUFFICES ASSUME NEW a \in Addrs PROVE Accounted(a)
  OBVIOUS
<1>1. ~(pending'[a] < pending[a]) /\ (pending'[a] > pending[a] => pending'[a] <= Cardinality(Inside(a)))
  BY DEF HostInv, HostTypes
<1> QED BY <1>1 DEF Accounted, Oks

(* One token of b is taken, by t or by nobody left to tell.                *)
LEMMA OneTaken ==
    ASSUME HostInv, NEW t \in Threads, NEW b \in Addrs,
           pending'[b] = pending[b] - 1, \A a \in Addrs \ {b} : pending'[a] = pending[a],
           closing \/ Oks = {t}
    PROVE  \A a \in Addrs : Accounted(a)
<1> SUFFICES ASSUME NEW a \in Addrs PROVE Accounted(a)
  OBVIOUS
<1>1. /\ pending'[a] = pending[a] - 1 \/ ~(pending'[a] < pending[a])
      /\ ~(pending'[a] > pending[a])
  BY DEF HostInv, HostTypes
<1> QED BY <1>1 DEF Accounted, Oks

LEMMA EnterAccounts ==
    ASSUME HostInv, NEW t \in Threads, NEW a \in Addrs, NEW v, NEW d, Enter(t, a, v, d)
    PROVE  \A b \in Addrs : Accounted(b)
<1>1. fpc[t] = "out"
  BY DEF Enter
<1>2. CASE EnterRefused(t, a, v, d)
  <2>1. /\ result'[t] # "OK" /\ pending' = pending
        /\ \A u \in Threads \ {t} : fpc'[u] = fpc[u]
    BY <1>2 DEF EnterRefused, Refusal, Return, HostInv, HostTypes, hostVars
  <2>2. Oks = {}
    BY <2>1 DEF Oks, Finishing
  <2> QED BY <2>1, <2>2, NoneTaken
<1>3. CASE EnterTakesToken(t, a, v, d)
  <2>1. pending[a] # 0 /\ pending[a] \in Nat /\ pending[a] <= waiters[a] /\ waiters[a] # 0
    BY <1>3, NoWrap DEF EnterTakesToken, HostInv, HostTypes
  <2>2. pending'[a] = pending[a] - 1 /\ \A b \in Addrs \ {a} : pending'[b] = pending[b]
    BY <1>3, <2>1 DEF EnterTakesToken, HostInv, HostTypes
  <2>3. Oks = {t}
    BY <1>1, <1>3 DEF EnterTakesToken, Return, Oks, Finishing, HostInv, HostTypes
  <2> QED BY <2>2, <2>3, OneTaken
<1>4. CASE EnterBlocks(t, a, v, d)
  <2>1. pending' = pending /\ \A u \in Threads : fpc'[u] # "returned" \/ fpc[u] = "returned"
    BY <1>4 DEF EnterBlocks, HostInv, HostTypes
  <2>2. Oks = {}
    BY <2>1 DEF Oks, Finishing
  <2> QED BY <2>1, <2>2, NoneTaken
<1> QED BY <1>2, <1>3, <1>4 DEF Enter

LEMMA LeaveAccounts ==
    ASSUME HostInv, NEW t \in Threads, fpc[t] \in {"notified", "expired"}, Leave(t, Ready(t))
    PROVE  \A b \in Addrs : Accounted(b)
<1> DEFINE a == faddr[t]
<1>1. a \in Addrs /\ t \in Inside(a) /\ pending[a] \in Nat
  BY DEF HostInv, HostTypes, Inside
<1>2. waiters[a] >= 1 /\ CountLeft(a) = waiters[a] - 1 /\ pending[a] <= waiters[a] /\ waiters[a] \in Nat
  BY <1>1, NoWrap DEF HostInv, HostTypes
<1>3. /\ pending' = [pending EXCEPT ![a] = IF CountLeft(a) = 0 THEN 0 ELSE Taken(a, Ready(t))]
      /\ Return(t, IF closing THEN "ECANCELED" ELSE IF Ready(t) THEN "OK" ELSE "ETIMEDOUT")
  BY DEF Leave
<1>4. Ready(t) <=> pending[a] # 0 \/ closing
  BY DEF Ready
<1> HIDE DEF a
<1>5. CASE pending[a] # 0
  <2>1. pending'[a] = pending[a] - 1 /\ \A b \in Addrs \ {a} : pending'[b] = pending[b]
    BY <1>1, <1>2, <1>3, <1>4, <1>5 DEF Taken, HostInv, HostTypes
  <2>2. closing \/ Oks = {t}
    BY <1>3, <1>4, <1>5 DEF Return, Oks, Finishing, HostInv, HostTypes
  <2> QED BY <1>1, <2>1, <2>2, OneTaken
<1>6. CASE pending[a] = 0
  <2>1. pending'[a] = 0 /\ \A b \in Addrs \ {a} : pending'[b] = pending[b]
    BY <1>1, <1>3, <1>6 DEF Taken, HostInv, HostTypes
  <2>2. result'[t] # "OK" /\ \A u \in Threads \ {t} : fpc'[u] = fpc[u]
    BY <1>3, <1>4, <1>6 DEF Return, HostInv, HostTypes
  <2>3. Oks = {}
    BY <2>2 DEF Oks, Finishing
  <2>4. \A b \in Addrs : pending'[b] = pending[b]
    BY <1>6, <2>1
  <2> QED BY <2>3, <2>4, NoneTaken
<1> QED BY <1>5, <1>6

LEMMA WakeAccounts ==
    ASSUME HostInv, NEW a \in Addrs, NEW m \in Maxima, Wake(a, m)
    PROVE  \A b \in Addrs : Accounted(b)
<1>1. \A t \in Threads : fpc'[t] # "returned" \/ fpc[t] = "returned"
  BY DEF Wake, HostInv, HostTypes
<1>2. Oks = {}
  BY <1>1 DEF Oks, Finishing
<1>3. /\ pending \in [Addrs -> Nat] /\ pending[a] \in Nat
      /\ WakeCount(a, m) \in Nat /\ pending[a] + WakeCount(a, m) <= waiters[a]
      /\ waiters[a] = Cardinality(Inside(a))
  <2>1. m \in Nat /\ pending[a] \in Nat /\ waiters[a] \in Nat /\ pending[a] <= waiters[a]
    BY NoWrap, FutexAssumption DEF HostInv, HostTypes
  <2> QED BY <2>1, NoWrap DEF WakeCount, Least, HostInv, HostTypes, CountsExact
<1>4. ASSUME NEW b \in Addrs
      PROVE  \/ pending'[b] = pending[b]
             \/ /\ pending'[b] \in Nat /\ pending'[b] >= pending[b]
                /\ pending'[b] <= Cardinality(Inside(b))
  <2>1. pending' = pending \/ pending' = [pending EXCEPT ![a] = @ + WakeCount(a, m)]
    BY DEF Wake
  <2>2. CASE b = a /\ pending' = [pending EXCEPT ![a] = @ + WakeCount(a, m)]
    <3>1. pending'[b] = pending[b] + WakeCount(a, m)
      BY <1>3, <2>2
    <3> QED BY <1>3, <2>2, <3>1
  <2> QED BY <1>3, <2>1, <2>2
<1> QED BY <1>2, <1>4, NoneTaken

(* A token is spent once and for one waiter, and never promised in excess: *)
(* a drop is by one and ends exactly one wait with 0, unless the process   *)
(* is cancelled; no wait returns 0 without a drop; a rise stays within the *)
(* threads inside (agr_futex_host.cpp:67-81 and 94-95).                    *)
THEOREM TokensAreAccounted == Spec => TokenAccounting
<1>1. HostInv /\ [Next]_futexVars => [\A a \in Addrs : Accounted(a)]_futexVars
  <2> SUFFICES ASSUME HostInv, Next PROVE (\A a \in Addrs : Accounted(a)) \/ UNCHANGED futexVars
    OBVIOUS
  <2>1. ASSUME NEW t \in Threads, WaitStep(t) PROVE \A a \in Addrs : Accounted(a)
    <3>1. CASE \E a \in Addrs, v \in Values, d \in Timeouts : Enter(t, a, v, d)
      BY <3>1, EnterAccounts
    <3>2. CASE \E a \in Addrs, v \in Values, d \in Timeouts : EnterFails(t, a, v, d)
      <4>1. pending' = pending /\ \A u \in Threads : fpc'[u] = fpc[u] \/ result'[u] = "ENOMEM"
        BY <3>2 DEF EnterFails, EnterNoMemory, Return, HostInv, HostTypes
      <4>2. Oks = {}
        BY <4>1 DEF Oks, Finishing
      <4> QED BY <4>1, <4>2, NoneTaken
    <3> QED BY <2>1, <3>1, <3>2 DEF WaitStep, FutexWait
  <2>2. ASSUME NEW t \in Threads, ResumeNotified(t) \/ ResumeExpired(t)
        PROVE  \A a \in Addrs : Accounted(a)
    <3>1. CASE ResumeNotified(t) /\ ~Ready(t)
      <4>1. pending' = pending /\ \A u \in Threads : fpc'[u] # "returned" \/ fpc[u] = "returned"
        BY <3>1 DEF ResumeNotified, Leave, hostVars, HostInv, HostTypes
      <4>2. Oks = {}
        BY <4>1 DEF Oks, Finishing
      <4> QED BY <4>1, <4>2, NoneTaken
    <3>2. CASE ResumeNotified(t) /\ Ready(t)
      BY <3>2, LeaveAccounts DEF ResumeNotified
    <3>3. CASE ResumeExpired(t)
      BY <3>3, LeaveAccounts DEF ResumeExpired
    <3> QED BY <2>2, <3>1, <3>2, <3>3
  <2>3. CASE WakeStep
    BY <2>3, WakeAccounts DEF WakeStep
  <2>4. CASE \/ \E t \in Threads : Expire(t) \/ SpuriousWakeup(t) \/ PickUp(t)
             \/ StoreStep \/ CancelAll
    <3>1. pending' = pending
      BY <2>4 DEF Expire, SpuriousWakeup, PickUp, StoreStep, Store, CancelAll, hostVars
    <3>2. \A u \in Threads : fpc'[u] # "returned" \/ fpc[u] = "returned"
      <4>1. ASSUME NEW t \in Threads, Expire(t) \/ SpuriousWakeup(t) \/ PickUp(t)
            PROVE  \A u \in Threads : fpc'[u] # "returned" \/ fpc[u] = "returned"
        BY <4>1 DEF Expire, SpuriousWakeup, PickUp, HostInv, HostTypes
      <4>2. CancelAll => \A u \in Threads : fpc'[u] # "returned" \/ fpc[u] = "returned"
        BY DEF CancelAll
      <4>3. StoreStep => fpc' = fpc
        BY DEF StoreStep, Store, threadVars
      <4> QED BY <2>4, <4>1, <4>2, <4>3
    <3>3. Oks = {}
      BY <3>2 DEF Oks, Finishing
    <3> QED BY <3>1, <3>3, NoneTaken
  <2> QED BY <2>1, <2>2, <2>3, <2>4 DEF Next
<1> QED BY <1>1, Invariance, PTL DEF IInv, Spec, TokenAccounting

-----------------------------------------------------------------------------
(* The mutex                                                               *)

(* No two threads are the same owner, and none is nobody.                  *)
IdsDiffer ==
    /\ \A t \in Threads : Tid(t) # 0
    /\ \A t, u \in Threads : Tid(t) = Tid(u) => t = u

Pcs == {"idle", "load", "fast", "exchange", "loop", "inc", "mine", "retry", "take", "contend",
        "wait", "sleep", "sub", "clear", "dec", "release", "wake"}
Ops == {"lock", "trylock", "unlock"}

MTypes ==
    /\ word \in [Addrs -> Words]
    /\ pc \in [Threads -> Pcs] /\ op \in [Threads -> Ops]
    /\ val \in [Threads -> Words] /\ depth \in [Threads -> Nat]

(* A normal mutex: who has it, the thread inside the unlock included.      *)
Has(p, o, d) == d > 0 \/ (o = "unlock" /\ p \in {"load", "sub", "clear"})

Normal(w, p, o, d) ==
    /\ Has(p, o, d) => w.state # 0
    /\ d <= 1
    /\ o \in {"lock", "unlock"} /\ p # "idle" => d = 0
    /\ p \in {"idle", "load", "fast", "exchange", "wait", "sleep", "sub", "clear", "wake"}
    /\ p \in {"sub", "clear", "wake"} => o = "unlock"
    /\ p = "fast" => o # "unlock"
    /\ p \in {"exchange", "wait", "sleep"} => o = "lock"

NormalInv ==
    /\ \A t \in Threads : Normal(word[Mutex], pc[t], op[t], depth[t])
    /\ \A t, u \in Threads : Has(pc[t], op[t], depth[t]) /\ Has(pc[u], op[u], depth[u]) => t = u

(* A mutex with an owner: what a thread knows of the word w.               *)
Unlocks(p, o) == IF o = "unlock" /\ p \in {"load", "dec", "release"} THEN 1 ELSE 0

Owned(t, w, p, o, v, d) ==
    /\ d > 0 => Mine(t, w)
    /\ Mine(t, w) => d + Unlocks(p, o) = w.counter + 1
    /\ p \in {"dec", "release", "inc", "retry", "mine"} => Mine(t, w)
    /\ p = "dec" => w.counter # 0
    /\ p = "release" => w.counter = 0
    /\ p \in {"inc", "retry"} => w.counter # MaxCounter /\ w.type = "recursive"
    /\ p = "mine" => v.counter = w.counter
    /\ p = "take" => v.state = 0
    /\ p = "contend" => v.state = 1
    /\ p \in {"fast", "loop", "inc", "mine", "retry", "take", "contend", "wait", "sleep"} => o # "unlock"
    /\ p \in {"dec", "release"} => o = "unlock"
    /\ p \notin {"exchange", "sub", "clear"}

(* A free word names nobody.                                               *)
Clean(w) == w.state = 0 => w.owner = 0 /\ w.counter = 0

OwnedInv ==
    /\ Clean(word[Mutex])
    /\ \A t \in Threads : Owned(t, word[Mutex], pc[t], op[t], val[t], depth[t])

MutexInv ==
    /\ MTypes
    /\ Kind = "normal" => NormalInv
    /\ Kind # "normal" => OwnedInv

-----------------------------------------------------------------------------
(* One thread moves                                                        *)

(* The step leaves t with p, o, v and d, and the mutex with w.             *)
Becomes(t, w, p, o, v, d) ==
    /\ word' = [word EXCEPT ![Mutex] = w]
    /\ pc' = [pc EXCEPT ![t] = p] /\ op' = [op EXCEPT ![t] = o]
    /\ val' = [val EXCEPT ![t] = v] /\ depth' = [depth EXCEPT ![t] = d]
    /\ w \in Words /\ p \in Pcs /\ o \in Ops /\ v \in Words /\ d \in Nat

LEMMA Facts ==
  ASSUME MTypes
  PROVE  /\ word[Mutex] \in Words /\ Mutex \in Addrs
         /\ word = [word EXCEPT ![Mutex] = word[Mutex]]
         /\ \A t \in Threads :
               /\ pc[t] \in Pcs /\ op[t] \in Ops /\ val[t] \in Words /\ depth[t] \in Nat
               /\ pc = [pc EXCEPT ![t] = pc[t]] /\ op = [op EXCEPT ![t] = op[t]]
               /\ val = [val EXCEPT ![t] = val[t]] /\ depth = [depth EXCEPT ![t] = depth[t]]
BY MutexAssumption DEF MTypes

LEMMA TidIs ==
  ASSUME NEW t \in Threads
  PROVE  Tid(t) \in 0 .. IdModulus - 1
<1>1. ThreadId[t] \in Nat /\ IdModulus \in Nat \ {0}
  BY MutexAssumption
<1> QED BY <1>1 DEF Tid

LEMMA After ==
  ASSUME MTypes, NEW t \in Threads, NEW w, NEW p, NEW o, NEW v, NEW d, Becomes(t, w, p, o, v, d)
  PROVE  /\ MTypes' /\ word'[Mutex] = w
         /\ pc'[t] = p /\ op'[t] = o /\ val'[t] = v /\ depth'[t] = d
         /\ \A u \in Threads \ {t} : /\ pc'[u] = pc[u] /\ op'[u] = op[u]
                                     /\ val'[u] = val[u] /\ depth'[u] = depth[u]
BY MutexAssumption DEF MTypes, Becomes

(* What another thread knows survives a change that leaves its claim.      *)
LEMMA Bystander ==
  ASSUME NEW t, NEW w, NEW p, NEW o, NEW v, NEW d, Owned(t, w, p, o, v, d),
         NEW w2, w2.type = w.type, Mine(t, w2) <=> Mine(t, w),
         Mine(t, w) => w2.counter = w.counter
  PROVE  Owned(t, w2, p, o, v, d)
BY DEF Owned

LEMMA OwnedMoves ==
  ASSUME MutexInv, Kind # "normal", NEW t \in Threads,
         NEW w, NEW p, NEW o, NEW v, NEW d, Becomes(t, w, p, o, v, d),
         w.type = Kind, Clean(w), Owned(t, w, p, o, v, d),
         \A u \in Threads \ {t} : /\ Mine(u, w) <=> Mine(u, word[Mutex])
                                  /\ Mine(u, w) => w.counter = word[Mutex].counter
  PROVE  MutexInv' /\ Kind' = Kind
<1>1. /\ MTypes' /\ word'[Mutex] = w
      /\ pc'[t] = p /\ op'[t] = o /\ val'[t] = v /\ depth'[t] = d
      /\ \A u \in Threads \ {t} : /\ pc'[u] = pc[u] /\ op'[u] = op[u]
                                  /\ val'[u] = val[u] /\ depth'[u] = depth[u]
  BY After DEF MutexInv
<1>2. Kind' # "normal" /\ Kind' = Kind
  BY <1>1 DEF Kind
<1>3. ASSUME NEW u \in Threads, u # t
      PROVE  Owned(u, w, pc[u], op[u], val[u], depth[u])
  <2>1. Owned(u, word[Mutex], pc[u], op[u], val[u], depth[u])
    BY DEF MutexInv, OwnedInv
  <2>2. w.type = word[Mutex].type /\ (Mine(u, w) <=> Mine(u, word[Mutex]))
        /\ (Mine(u, word[Mutex]) => w.counter = word[Mutex].counter)
    BY <1>3 DEF Kind
  <2> QED BY <2>1, <2>2, Bystander
<1>4. OwnedInv'
  <2>1. Clean(word'[Mutex])
    BY <1>1
  <2>2. ASSUME NEW u \in Threads
        PROVE  Owned(u, word'[Mutex], pc'[u], op'[u], val'[u], depth'[u])
    BY <1>1, <1>3
  <2> QED BY <2>1, <2>2 DEF OwnedInv
<1> QED BY <1>1, <1>2, <1>4 DEF MutexInv

(* The common case: the word stays.                                        *)
LEMMA OwnedLooks ==
  ASSUME MutexInv, Kind # "normal", NEW t \in Threads,
         NEW p, NEW o, NEW v, NEW d, Becomes(t, word[Mutex], p, o, v, d),
         Owned(t, word[Mutex], p, o, v, d)
  PROVE  MutexInv' /\ Kind' = Kind
<1>1. Clean(word[Mutex])
  BY DEF MutexInv, OwnedInv
<1> QED BY <1>1, OwnedMoves DEF Kind

LEMMA NormalMoves ==
  ASSUME MutexInv, Kind = "normal", NEW t \in Threads,
         NEW w, NEW p, NEW o, NEW v, NEW d, Becomes(t, w, p, o, v, d),
         w.type = Kind, Normal(w, p, o, d),
         \/ Has(p, o, d) => Has(pc[t], op[t], depth[t])
         \/ word[Mutex].state = 0,
         w.state # 0 \/ word[Mutex].state = 0 \/ Has(pc[t], op[t], depth[t])
  PROVE  MutexInv' /\ Kind' = Kind
<1>1. /\ MTypes' /\ word'[Mutex] = w
      /\ pc'[t] = p /\ op'[t] = o /\ depth'[t] = d
      /\ \A u \in Threads \ {t} : pc'[u] = pc[u] /\ op'[u] = op[u] /\ depth'[u] = depth[u]
  BY After DEF MutexInv
<1>2. Kind' = "normal" /\ Kind' = Kind
  BY <1>1 DEF Kind
<1>3. NormalInv
  BY DEF MutexInv
<1>4. ASSUME NEW u \in Threads, u # t
      PROVE  Normal(w, pc[u], op[u], depth[u])
  <2>1. Normal(word[Mutex], pc[u], op[u], depth[u])
    BY <1>3 DEF NormalInv
  <2>2. Has(pc[u], op[u], depth[u]) => w.state # 0
    BY <1>3, <1>4, <2>1 DEF NormalInv, Normal
  <2> QED BY <2>1, <2>2 DEF Normal
<1>5. NormalInv'
  <2>1. \A u \in Threads : Normal(word'[Mutex], pc'[u], op'[u], depth'[u])
    BY <1>1, <1>4
  <2>2. ASSUME NEW u \in Threads, NEW x \in Threads,
               Has(pc'[u], op'[u], depth'[u]), Has(pc'[x], op'[x], depth'[x])
        PROVE  u = x
    <3>1. word[Mutex].state = 0 => \A y \in Threads : ~Has(pc[y], op[y], depth[y])
      BY <1>3 DEF NormalInv, Normal
    <3> QED BY <1>1, <1>3, <2>2, <3>1 DEF NormalInv
  <2> QED BY <2>1, <2>2 DEF NormalInv
<1> QED BY <1>1, <1>2, <1>5 DEF MutexInv

-----------------------------------------------------------------------------
(* Words                                                                   *)

LEMMA WordsAre ==
  ASSUME MTypes
  PROVE  /\ Kind \in Kinds
         /\ Unlocked \in Words /\ Unlocked.type = Kind /\ Unlocked.state = 0
         /\ Unlocked.owner = 0 /\ Unlocked.counter = 0
         /\ Mark \in Words /\ Mark.type = Kind /\ Mark.state = 2
<1>1. word[Mutex] \in Words
  BY Facts
<1>2. IdModulus \in Nat \ {0} /\ MaxCounter \in Nat
  BY MutexAssumption
<1>3. 0 \in 0 .. IdModulus - 1 /\ 0 \in 0 .. MaxCounter /\ 0 \in 0 .. 2 /\ 2 \in 0 .. 2
  BY <1>2
<1> QED BY <1>1, <1>3 DEF Kind, Unlocked, Mark, Word, Words

(* A free mutex belongs to nobody, a taken one to its taker.               *)
LEMMA TakenIs ==
  ASSUME MTypes, NEW t \in Threads, NEW s \in {1, 2}
  PROVE  /\ TakenBy(t, s) \in Words /\ TakenBy(t, s).type = Kind
         /\ TakenBy(t, s).state = s /\ TakenBy(t, s).counter = 0
         /\ Kind # "normal" => TakenBy(t, s).owner = Tid(t)
<1>1. Tid(t) \in 0 .. IdModulus - 1
  BY TidIs
<1>2. word[Mutex] \in Words
  BY Facts
<1>3. IdModulus \in Nat \ {0} /\ MaxCounter \in Nat
  BY MutexAssumption
<1>4. 0 \in 0 .. IdModulus - 1 /\ 0 \in 0 .. MaxCounter /\ s \in 0 .. 2
  BY <1>3
<1> QED BY <1>1, <1>2, <1>4 DEF Kind, TakenBy, Word, Words

(* What the invariant says of one thread.                                  *)
LEMMA Knows ==
  ASSUME MutexInv, NEW t \in Threads
  PROVE  /\ Kind = "normal" => Normal(word[Mutex], pc[t], op[t], depth[t])
         /\ Kind # "normal" => /\ Owned(t, word[Mutex], pc[t], op[t], val[t], depth[t])
                               /\ Clean(word[Mutex])
BY DEF MutexInv, NormalInv, OwnedInv

(* A step of t after which the word is as it was.                          *)
LEMMA Looks ==
  ASSUME MutexInv, NEW t \in Threads,
         NEW p, NEW o, NEW v, NEW d, Becomes(t, word[Mutex], p, o, v, d),
         Kind = "normal" => /\ Normal(word[Mutex], p, o, d)
                            /\ Has(p, o, d) => Has(pc[t], op[t], depth[t]),
         Kind # "normal" => Owned(t, word[Mutex], p, o, v, d)
  PROVE  MutexInv' /\ Kind' = Kind
<1>1. CASE Kind = "normal"
  <2>1. word[Mutex].state = 0 \/ word[Mutex].state # 0
    OBVIOUS
  <2> QED BY <1>1, <2>1, NormalMoves DEF Kind
<1>2. CASE Kind # "normal"
  BY <1>2, OwnedLooks
<1> QED BY <1>1, <1>2

(* t takes the free mutex.                                                 *)
LEMMA Takes ==
  ASSUME MutexInv, IdsDiffer, NEW t \in Threads, NEW v \in Words, NEW w \in Words,
         word[Mutex].state = 0, w.type = Kind, w.state # 0, w.counter = 0,
         Kind # "normal" => w.owner = Tid(t), op[t] # "unlock",
         Becomes(t, w, "idle", op[t], v, depth[t] + 1)
  PROVE  MutexInv' /\ Kind' = Kind
<1>1. depth[t] = 0
  <2>1. depth[t] \in Nat
    BY Facts DEF MutexInv
  <2> QED BY <2>1, Knows DEF Normal, Has, Owned, Mine
<1>2. CASE Kind = "normal"
  <2>1. Normal(w, "idle", op[t], 1)
    BY DEF Normal
  <2> QED BY <1>1, <1>2, <2>1, NormalMoves
<1>3. CASE Kind # "normal"
  <2>1. Owned(t, w, "idle", op[t], v, 1) /\ Clean(w)
    BY <1>3 DEF Owned, Mine, Unlocks, Clean
  <2>2. \A u \in Threads \ {t} : ~Mine(u, w) /\ ~Mine(u, word[Mutex])
    BY <1>3 DEF IdsDiffer, Mine
  <2> QED BY <1>1, <1>3, <2>1, <2>2, OwnedMoves
<1> QED BY <1>2, <1>3

-----------------------------------------------------------------------------
(* Each step                                                               *)

LEMMA CallKeeps ==
  ASSUME MutexInv, NEW t \in Threads, Call(t) \/ CallUnlockUnowned(t)
  PROVE  MutexInv' /\ Kind' = Kind
<1>1. PICK o \in Ops, d \in Nat :
         /\ Becomes(t, word[Mutex], "load", o, val[t], d) /\ pc[t] = "idle"
         /\ \/ o # "unlock" /\ d = depth[t] /\ (o = "lock" /\ Kind = "normal" => d = 0)
            \/ o = "unlock" /\ depth[t] > 0 /\ d = depth[t] - 1
            \/ o = "unlock" /\ depth[t] = 0 /\ d = 0 /\ Kind # "normal"
  <2>1. CASE CallUnlockUnowned(t)
    BY <2>1, Facts DEF MutexInv, CallUnlockUnowned, Becomes, Goto, Pcs, Ops
  <2>2. CASE Call(t)
    <3>1. /\ pc[t] = "idle" /\ pc' = [pc EXCEPT ![t] = "load"] /\ UNCHANGED <<word, val>>
          /\ \/ \E o \in {"lock", "trylock"} :
                   /\ o = "lock" /\ Kind = "normal" => depth[t] = 0
                   /\ op' = [op EXCEPT ![t] = o] /\ UNCHANGED depth
             \/ /\ depth[t] > 0 /\ op' = [op EXCEPT ![t] = "unlock"]
                /\ depth' = [depth EXCEPT ![t] = depth[t] - 1]
      BY <2>2 DEF Call, Goto
    <3>2. CASE \E o \in {"lock", "trylock"} :
                   /\ o = "lock" /\ Kind = "normal" => depth[t] = 0
                   /\ op' = [op EXCEPT ![t] = o] /\ UNCHANGED depth
      BY <3>1, <3>2, Facts DEF MutexInv, Becomes, Pcs, Ops
    <3>3. CASE /\ depth[t] > 0 /\ op' = [op EXCEPT ![t] = "unlock"]
               /\ depth' = [depth EXCEPT ![t] = depth[t] - 1]
      <4>1. depth[t] - 1 \in Nat
        BY <3>3, Facts DEF MutexInv
      <4> QED BY <3>1, <3>3, <4>1, Facts DEF MutexInv, Becomes, Pcs, Ops
    <3> QED BY <3>1, <3>2, <3>3
  <2> QED BY <2>1, <2>2
<1>2. depth[t] \in Nat
  BY Facts DEF MutexInv
<1>3. CASE Kind = "normal"
  <2>1. Normal(word[Mutex], pc[t], op[t], depth[t])
    BY <1>3 DEF MutexInv, NormalInv
  <2>2. Normal(word[Mutex], "load", o, d) /\ (Has("load", o, d) => Has(pc[t], op[t], depth[t]))
    BY <1>1, <1>2, <1>3, <2>1 DEF Normal, Has, Ops
  <2>3. word[Mutex].state = 0 \/ word[Mutex].state # 0
    OBVIOUS
  <2> QED BY <1>1, <1>3, <2>2, <2>3, NormalMoves DEF Kind
<1>4. CASE Kind # "normal"
  <2>1. Owned(t, word[Mutex], pc[t], op[t], val[t], depth[t]) /\ word[Mutex] \in Words
    BY <1>4, Facts DEF MutexInv, OwnedInv
  <2>2. word[Mutex].counter \in Nat
    BY <2>1, MutexAssumption DEF Words
  <2>3. Owned(t, word[Mutex], "load", o, val[t], d)
    BY <1>1, <1>2, <2>1, <2>2 DEF Owned, Unlocks
  <2> QED BY <1>1, <1>4, <2>3, OwnedLooks
<1> QED BY <1>3, <1>4

LEMMA LoadKeeps ==
  ASSUME MutexInv, IdsDiffer, NEW t \in Threads, Load(t)
  PROVE  MutexInv' /\ Kind' = Kind
<1> DEFINE w == word[Mutex]
           p == IF Refused(t, w) # "none" THEN "idle" ELSE Branch(t, w)
           v == IF Kind = "normal" THEN val[t] ELSE w
<1>1. /\ pc[t] = "load" /\ UNCHANGED <<word, depth, op>>
      /\ val' = [val EXCEPT ![t] = v] /\ pc' = [pc EXCEPT ![t] = p]
  BY DEF Load, Quietly, Goto, Answer
<1>2. /\ w \in Words /\ op[t] \in Ops /\ depth[t] \in Nat /\ val[t] \in Words
      /\ word = [word EXCEPT ![Mutex] = w] /\ op = [op EXCEPT ![t] = op[t]]
      /\ depth = [depth EXCEPT ![t] = depth[t]]
  BY Facts DEF MutexInv
<1>3. p \in Pcs
  BY <1>2 DEF Branch, Refused, Pcs, Ops
<1>4. Becomes(t, w, p, op[t], v, depth[t])
  BY <1>1, <1>2, <1>3 DEF Becomes
<1>5. CASE Kind = "normal"
  <2>1. p = IF op[t] = "unlock" THEN "sub" ELSE "fast"
    BY <1>5 DEF Refused, Branch
  <2>2. Normal(w, pc[t], op[t], depth[t])
    BY <1>5 DEF MutexInv, NormalInv
  <2> HIDE DEF p, v
  <2>3. Normal(w, p, op[t], depth[t]) /\ (Has(p, op[t], depth[t]) => Has(pc[t], op[t], depth[t]))
    BY <1>1, <1>2, <2>1, <2>2 DEF Normal, Has, Ops
  <2>4. w.state = 0 \/ w.state # 0
    OBVIOUS
  <2> QED BY <1>4, <1>5, <2>3, <2>4, NormalMoves DEF Kind
<1>6. CASE Kind # "normal"
  <2>1. Owned(t, w, pc[t], op[t], val[t], depth[t]) /\ Clean(w) /\ v = w /\ Tid(t) # 0
    BY <1>6 DEF MutexInv, OwnedInv, IdsDiffer
  <2>2. /\ op[t] = "lock" => p \in {"fast", "loop"}
        /\ op[t] = "trylock" => p = IF Mine(t, w) THEN "mine" ELSE "fast"
        /\ op[t] = "unlock" => p = IF w.owner # Tid(t) THEN "idle"
                                   ELSE IF w.counter # 0 THEN "dec" ELSE "release"
    BY <1>6, <2>1 DEF Refused, Branch
  <2>3. w.counter \in Nat
    BY <1>2, MutexAssumption DEF Words
  <2>4. op[t] = "unlock" /\ w.owner = Tid(t) => Mine(t, w)
    BY <2>1 DEF Clean, Mine
  <2> HIDE DEF p, v, w
  <2>5. Owned(t, w, p, op[t], w, depth[t])
    <3>1. CASE op[t] = "lock"
      BY <1>1, <2>1, <2>2, <3>1 DEF Owned, Unlocks
    <3>2. CASE op[t] = "trylock"
      BY <1>1, <2>1, <2>2, <3>2 DEF Owned, Unlocks
    <3>3. CASE op[t] = "unlock"
      BY <1>1, <2>1, <2>2, <2>3, <2>4, <3>3 DEF Owned, Unlocks, Mine
    <3> QED BY <1>2, <3>1, <3>2, <3>3 DEF Ops
  <2> QED BY <1>4, <1>6, <2>1, <2>5, OwnedLooks DEF w
<1> QED BY <1>5, <1>6

LEMMA FastKeeps ==
  ASSUME MutexInv, IdsDiffer, NEW t \in Threads, Fast(t)
  PROVE  MutexInv' /\ Kind' = Kind
<1>1. /\ MTypes /\ pc[t] = "fast" /\ UNCHANGED <<op, val>>
      /\ \/ /\ word[Mutex] = Unlocked /\ word' = [word EXCEPT ![Mutex] = TakenBy(t, 1)]
            /\ pc' = [pc EXCEPT ![t] = "idle"] /\ depth' = [depth EXCEPT ![t] = depth[t] + 1]
         \/ /\ UNCHANGED <<word, depth>>
            /\ \/ op[t] = "trylock" /\ pc' = [pc EXCEPT ![t] = "idle"]
               \/ /\ op[t] # "trylock"
                  /\ pc' = [pc EXCEPT ![t] = IF Kind = "normal" THEN "exchange" ELSE "loop"]
  BY DEF MutexInv, Fast, Cas, Assign, Acquired, Answer, Goto
<1>2. op[t] # "unlock" /\ op[t] \in Ops /\ depth[t] \in Nat
  BY <1>1, Knows, Facts DEF Normal, Owned
<1>3. CASE word[Mutex] = Unlocked /\ word' = [word EXCEPT ![Mutex] = TakenBy(t, 1)]
           /\ pc' = [pc EXCEPT ![t] = "idle"] /\ depth' = [depth EXCEPT ![t] = depth[t] + 1]
  <2>1. /\ TakenBy(t, 1) \in Words /\ TakenBy(t, 1).type = Kind
        /\ TakenBy(t, 1).state # 0 /\ TakenBy(t, 1).counter = 0
        /\ Kind # "normal" => TakenBy(t, 1).owner = Tid(t)
    BY <1>1, TakenIs
  <2>2. Becomes(t, TakenBy(t, 1), "idle", op[t], val[t], depth[t] + 1)
    BY <1>1, <1>2, <1>3, <2>1, Facts DEF Becomes, Pcs
  <2>3. word[Mutex].state = 0 /\ val[t] \in Words
    BY <1>1, <1>3, WordsAre, Facts
  <2> QED BY <1>2, <2>1, <2>2, <2>3, Takes
<1>4. ASSUME UNCHANGED <<word, depth>>, NEW p \in {"idle", "exchange", "loop"},
             pc' = [pc EXCEPT ![t] = p],
             p = "exchange" => Kind = "normal" /\ op[t] # "trylock",
             p = "loop" => Kind # "normal"
      PROVE  MutexInv' /\ Kind' = Kind
  <2>1. Becomes(t, word[Mutex], p, op[t], val[t], depth[t])
    BY <1>1, <1>2, <1>4, Facts DEF Becomes, Pcs
  <2>2. Kind = "normal" => /\ Normal(word[Mutex], p, op[t], depth[t])
                           /\ Has(p, op[t], depth[t]) => Has(pc[t], op[t], depth[t])
    BY <1>1, <1>2, <1>4, Knows DEF Normal, Has, Ops
  <2>3. Kind # "normal" => Owned(t, word[Mutex], p, op[t], val[t], depth[t])
    BY <1>1, <1>2, <1>4, Knows DEF Owned, Unlocks
  <2> QED BY <2>1, <2>2, <2>3, Looks
<1> QED BY <1>1, <1>3, <1>4

LEMMA ExchangeKeeps ==
  ASSUME MutexInv, IdsDiffer, NEW t \in Threads, Exchange(t)
  PROVE  MutexInv' /\ Kind' = Kind
<1>1. /\ MTypes /\ pc[t] = "exchange" /\ UNCHANGED op
      /\ word' = [word EXCEPT ![Mutex] = Mark] /\ val' = [val EXCEPT ![t] = Mark]
      /\ \/ /\ word[Mutex] = Unlocked /\ pc' = [pc EXCEPT ![t] = "idle"]
            /\ depth' = [depth EXCEPT ![t] = depth[t] + 1]
         \/ UNCHANGED depth /\ pc' = [pc EXCEPT ![t] = "wait"]
  BY DEF MutexInv, Exchange, Free, Assign, Acquired, Answer, Goto
<1>2. Kind = "normal" /\ op[t] = "lock" /\ op[t] \in Ops /\ depth[t] = 0
  BY <1>1, Knows, Facts DEF Normal, Owned, Has
<1>3. Mark \in Words /\ Mark.type = Kind /\ Mark.state # 0 /\ Mark.counter = 0
  <2>1. Mark.counter = 0
    BY DEF Mark, Word
  <2> QED BY <1>1, <2>1, WordsAre
<1>4. CASE word[Mutex] = Unlocked /\ pc' = [pc EXCEPT ![t] = "idle"]
           /\ depth' = [depth EXCEPT ![t] = depth[t] + 1]
  <2>1. Becomes(t, Mark, "idle", op[t], Mark, depth[t] + 1)
    BY <1>1, <1>2, <1>3, <1>4, Facts DEF Becomes, Pcs
  <2>2. word[Mutex].state = 0
    BY <1>1, <1>4, WordsAre
  <2> QED BY <1>2, <1>3, <2>1, <2>2, Takes
<1>5. CASE UNCHANGED depth /\ pc' = [pc EXCEPT ![t] = "wait"]
  <2>1. Becomes(t, Mark, "wait", op[t], Mark, depth[t])
    BY <1>1, <1>2, <1>3, <1>5, Facts DEF Becomes, Pcs
  <2>2. Normal(Mark, "wait", op[t], depth[t])
    BY <1>2 DEF Normal, Has
  <2>3. ~Has("wait", op[t], depth[t])
    BY <1>2 DEF Has
  <2> QED BY <1>2, <1>3, <2>1, <2>2, <2>3, NormalMoves
<1> QED BY <1>1, <1>4, <1>5

(* The owner's own steps are those of a mutex with an owner.               *)
LEMMA LoopKeeps ==
  ASSUME MutexInv, IdsDiffer, NEW t \in Threads, Loop(t)
  PROVE  MutexInv' /\ Kind' = Kind
<1> DEFINE w == word[Mutex]
<1>1. PICK p \in {"idle", "inc", "take", "contend", "wait"} :
         /\ MTypes /\ pc[t] = "loop" /\ UNCHANGED <<word, op, depth>>
         /\ val' = [val EXCEPT ![t] = w] /\ pc' = [pc EXCEPT ![t] = p]
         /\ p = "inc" => Mine(t, w) /\ Kind = "recursive" /\ w.counter # MaxCounter
         /\ p = "take" => w.state = 0
         /\ p = "contend" => w.state = 1
  BY WordsAre DEF MutexInv, Loop, Quietly, Answer, Goto
<1>2. Kind # "normal" /\ op[t] # "unlock" /\ w \in Words /\ w.type = Kind
  BY <1>1, Knows, Facts DEF Normal, Owned, Kind
<1>3. Becomes(t, w, p, op[t], w, depth[t])
  BY <1>1, <1>2, Facts DEF Becomes, Pcs
<1>4. Owned(t, w, p, op[t], w, depth[t])
  <2>1. Owned(t, w, pc[t], op[t], val[t], depth[t])
    BY <1>2, Knows
  <2> HIDE DEF w
  <2> QED BY <1>1, <1>2, <2>1 DEF Owned, Unlocks
<1> QED BY <1>2, <1>3, <1>4, OwnedLooks

LEMMA IncKeeps ==
  ASSUME MutexInv, IdsDiffer, NEW t \in Threads, Inc(t)
  PROVE  MutexInv' /\ Kind' = Kind
<1> DEFINE w == word[Mutex]
<1>1. /\ MTypes /\ pc[t] = "inc" /\ UNCHANGED <<op, val>>
      /\ \/ /\ w = val[t] /\ word' = [word EXCEPT ![Mutex] = Deeper(w)]
            /\ pc' = [pc EXCEPT ![t] = "idle"] /\ depth' = [depth EXCEPT ![t] = depth[t] + 1]
         \/ /\ UNCHANGED <<word, depth>>
            /\ pc' = [pc EXCEPT ![t] = IF op[t] = "trylock" THEN "retry" ELSE "loop"]
  BY DEF MutexInv, Inc, Cas, Assign, Acquired, Answer, Goto
<1>2. /\ Kind # "normal" /\ op[t] # "unlock" /\ w \in Words /\ w.type = Kind /\ val[t] \in Words
      /\ op[t] \in Ops /\ depth[t] \in Nat /\ Mine(t, w) /\ w.counter # MaxCounter
      /\ Owned(t, w, pc[t], op[t], val[t], depth[t])
  BY <1>1, Knows, Facts DEF Normal, Owned, Kind
<1>3. w.counter \in 0 .. MaxCounter /\ MaxCounter \in Nat
  BY <1>2, MutexAssumption DEF Words
<1>4. CASE /\ w = val[t] /\ word' = [word EXCEPT ![Mutex] = Deeper(w)]
           /\ pc' = [pc EXCEPT ![t] = "idle"] /\ depth' = [depth EXCEPT ![t] = depth[t] + 1]
  <2>1. /\ Deeper(w) \in Words /\ Deeper(w).type = Kind /\ Deeper(w).counter = w.counter + 1
        /\ Deeper(w).owner = w.owner /\ Deeper(w).state = w.state
    <3>1. w.counter + 1 \in 0 .. MaxCounter
      BY <1>2, <1>3
    <3> HIDE DEF w
    <3> QED BY <1>2, <3>1 DEF Deeper, Words
  <2>2. Becomes(t, Deeper(w), "idle", op[t], val[t], depth[t] + 1)
    BY <1>1, <1>2, <1>4, <2>1, Facts DEF Becomes, Pcs
  <2> HIDE DEF w
  <2>3. depth[t] = w.counter + 1
    BY <1>1, <1>2, <1>3 DEF Owned, Unlocks
  <2>4. Owned(t, Deeper(w), "idle", op[t], val[t], depth[t] + 1)
    BY <1>2, <1>3, <2>1, <2>3 DEF Owned, Mine, Unlocks
  <2>5. Clean(Deeper(w)) /\ \A u \in Threads \ {t} : ~Mine(u, Deeper(w)) /\ ~Mine(u, w)
    BY <1>2, <2>1 DEF Clean, Mine, IdsDiffer
  <2> QED BY <1>2, <2>1, <2>2, <2>4, <2>5, OwnedMoves DEF w
<1>5. CASE /\ UNCHANGED <<word, depth>>
           /\ pc' = [pc EXCEPT ![t] = IF op[t] = "trylock" THEN "retry" ELSE "loop"]
  <2> DEFINE p == IF op[t] = "trylock" THEN "retry" ELSE "loop"
  <2>1. Becomes(t, w, p, op[t], val[t], depth[t])
    BY <1>1, <1>2, <1>5, Facts DEF Becomes, Pcs
  <2>2. Owned(t, w, p, op[t], val[t], depth[t])
    BY <1>1, <1>2 DEF Owned, Unlocks
  <2> QED BY <1>2, <2>1, <2>2, OwnedLooks
<1> QED BY <1>1, <1>4, <1>5

LEMMA TryMineKeeps ==
  ASSUME MutexInv, IdsDiffer, NEW t \in Threads, TryMine(t)
  PROVE  MutexInv' /\ Kind' = Kind
<1> DEFINE w == word[Mutex]
<1>1. PICK p \in {"idle", "inc"} :
         /\ MTypes /\ pc[t] = "mine" /\ UNCHANGED <<word, op, val, depth>>
         /\ pc' = [pc EXCEPT ![t] = p]
         /\ p = "inc" => Kind = "recursive" /\ val[t].counter # MaxCounter
  BY DEF MutexInv, TryMine, Quietly, Answer, Goto
<1>2. /\ Kind # "normal" /\ w.type = Kind /\ Owned(t, w, pc[t], op[t], val[t], depth[t])
  BY <1>1, Knows DEF Normal, Owned, Kind
<1>3. Becomes(t, w, p, op[t], val[t], depth[t])
  BY <1>1, Facts DEF Becomes, Pcs
<1>4. Owned(t, w, p, op[t], val[t], depth[t])
  <2> HIDE DEF w
  <2> QED BY <1>1, <1>2 DEF Owned, Unlocks
<1> QED BY <1>2, <1>3, <1>4, OwnedLooks

LEMMA TryAgainKeeps ==
  ASSUME MutexInv, IdsDiffer, NEW t \in Threads, TryAgain(t)
  PROVE  MutexInv' /\ Kind' = Kind
<1> DEFINE w == word[Mutex]
<1>1. PICK p \in {"idle", "inc"} :
         /\ MTypes /\ pc[t] = "retry" /\ UNCHANGED <<word, op, depth>>
         /\ val' = [val EXCEPT ![t] = w] /\ pc' = [pc EXCEPT ![t] = p]
  BY DEF MutexInv, TryAgain, Quietly, Answer, Goto
<1>2. /\ Kind # "normal" /\ w.type = Kind /\ Owned(t, w, pc[t], op[t], val[t], depth[t])
  BY <1>1, Knows DEF Normal, Owned, Kind
<1>3. Becomes(t, w, p, op[t], w, depth[t])
  BY <1>1, Facts DEF Becomes, Pcs
<1>4. Owned(t, w, p, op[t], w, depth[t])
  <2> HIDE DEF w
  <2> QED BY <1>1, <1>2 DEF Owned, Unlocks
<1> QED BY <1>2, <1>3, <1>4, OwnedLooks

LEMMA TakeKeeps ==
  ASSUME MutexInv, IdsDiffer, NEW t \in Threads, Take(t)
  PROVE  MutexInv' /\ Kind' = Kind
<1>1. /\ MTypes /\ pc[t] = "take" /\ UNCHANGED <<op, val>>
      /\ \/ /\ word[Mutex] = val[t] /\ word' = [word EXCEPT ![Mutex] = TakenBy(t, 2)]
            /\ pc' = [pc EXCEPT ![t] = "idle"] /\ depth' = [depth EXCEPT ![t] = depth[t] + 1]
         \/ UNCHANGED <<word, depth>> /\ pc' = [pc EXCEPT ![t] = "loop"]
  BY DEF MutexInv, Take, TakeState, Cas, Assign, Acquired, Answer, Goto
<1>2. /\ Kind # "normal" /\ op[t] # "unlock" /\ op[t] \in Ops /\ depth[t] \in Nat
      /\ val[t] \in Words /\ val[t].state = 0
      /\ Owned(t, word[Mutex], pc[t], op[t], val[t], depth[t])
  BY <1>1, Knows, Facts DEF Normal, Owned
<1>3. CASE word[Mutex] = val[t] /\ word' = [word EXCEPT ![Mutex] = TakenBy(t, 2)]
           /\ pc' = [pc EXCEPT ![t] = "idle"] /\ depth' = [depth EXCEPT ![t] = depth[t] + 1]
  <2>1. /\ TakenBy(t, 2) \in Words /\ TakenBy(t, 2).type = Kind
        /\ TakenBy(t, 2).state # 0 /\ TakenBy(t, 2).counter = 0
        /\ Kind # "normal" => TakenBy(t, 2).owner = Tid(t)
    BY <1>1, TakenIs
  <2>2. Becomes(t, TakenBy(t, 2), "idle", op[t], val[t], depth[t] + 1)
    BY <1>1, <1>2, <1>3, <2>1, Facts DEF Becomes, Pcs
  <2> QED BY <1>2, <1>3, <2>1, <2>2, Takes
<1>4. CASE UNCHANGED <<word, depth>> /\ pc' = [pc EXCEPT ![t] = "loop"]
  <2>1. Becomes(t, word[Mutex], "loop", op[t], val[t], depth[t])
    BY <1>1, <1>4, Facts DEF Becomes, Pcs
  <2>2. Owned(t, word[Mutex], "loop", op[t], val[t], depth[t])
    BY <1>1, <1>2 DEF Owned, Unlocks
  <2> QED BY <1>2, <2>1, <2>2, OwnedLooks
<1> QED BY <1>1, <1>3, <1>4

LEMMA ContendKeeps ==
  ASSUME MutexInv, IdsDiffer, NEW t \in Threads, Contend(t)
  PROVE  MutexInv' /\ Kind' = Kind
<1> DEFINE w == word[Mutex]
           marked == [w EXCEPT !.state = 2]
<1>1. /\ MTypes /\ pc[t] = "contend" /\ UNCHANGED <<op, depth>>
      /\ \/ /\ w = val[t] /\ word' = [word EXCEPT ![Mutex] = marked]
            /\ val' = [val EXCEPT ![t] = marked] /\ pc' = [pc EXCEPT ![t] = "wait"]
         \/ UNCHANGED <<word, val>> /\ pc' = [pc EXCEPT ![t] = "loop"]
  BY DEF MutexInv, Contend, Assign, Goto
<1>2. /\ Kind # "normal" /\ op[t] # "unlock" /\ w \in Words /\ w.type = Kind
      /\ val[t].state = 1 /\ Owned(t, w, pc[t], op[t], val[t], depth[t])
  BY <1>1, Knows, Facts DEF Normal, Owned, Kind
<1>3. CASE /\ w = val[t] /\ word' = [word EXCEPT ![Mutex] = marked]
           /\ val' = [val EXCEPT ![t] = marked] /\ pc' = [pc EXCEPT ![t] = "wait"]
  <2>1. /\ marked \in Words /\ marked.type = Kind /\ marked.counter = w.counter
        /\ marked.owner = w.owner /\ marked.state = 2
    <3> HIDE DEF w
    <3> QED BY <1>2 DEF Words
  <2>2. Becomes(t, marked, "wait", op[t], marked, depth[t])
    BY <1>1, <1>3, <2>1, Facts DEF Becomes, Pcs
  <2> HIDE DEF w, marked
  <2>3. \A u \in Threads : Mine(u, marked) <=> Mine(u, w)
    BY <1>2, <1>3, <2>1 DEF Mine
  <2>4. Owned(t, marked, "wait", op[t], marked, depth[t]) /\ Clean(marked)
    BY <1>1, <1>2, <2>1, <2>3 DEF Owned, Unlocks, Clean
  <2> QED BY <1>2, <2>1, <2>2, <2>3, <2>4, OwnedMoves DEF w
<1>4. CASE UNCHANGED <<word, val>> /\ pc' = [pc EXCEPT ![t] = "loop"]
  <2>1. Becomes(t, w, "loop", op[t], val[t], depth[t])
    BY <1>1, <1>4, Facts DEF Becomes, Pcs
  <2>2. Owned(t, w, "loop", op[t], val[t], depth[t])
    BY <1>1, <1>2 DEF Owned, Unlocks
  <2> QED BY <1>2, <2>1, <2>2, OwnedLooks
<1> QED BY <1>1, <1>3, <1>4

(* The sleep and its end, and the wake after the word was given up.        *)
LEMMA SleepKeeps ==
  ASSUME MutexInv, IdsDiffer, NEW t \in Threads, Wait(t) \/ Woken(t) \/ WakeOne(t)
  PROVE  MutexInv' /\ Kind' = Kind
<1>1. PICK p \in {"idle", "sleep", "exchange", "loop"} :
         /\ MTypes /\ UNCHANGED <<word, op, val, depth>> /\ pc' = [pc EXCEPT ![t] = p]
         /\ pc[t] \in {"wait", "sleep"} \/ (pc[t] = "wake" /\ p = "idle")
         /\ p = "exchange" => Kind = "normal"
         /\ p = "loop" => Kind # "normal"
  <2>1. CASE Wait(t)
    BY <2>1 DEF MutexInv, Wait, FutexWait, Enter, EnterFails, Goto
  <2>2. CASE Woken(t)
    BY <2>2 DEF MutexInv, Woken, PickUp, Answer, Goto
  <2>3. CASE WakeOne(t)
    BY <2>3 DEF MutexInv, WakeOne, Wake, Answer, Goto
  <2> QED BY <2>1, <2>2, <2>3
<1>2. Becomes(t, word[Mutex], p, op[t], val[t], depth[t])
  BY <1>1, Facts DEF Becomes, Pcs
<1>3. depth[t] \in Nat
  BY <1>1, Facts
<1>4. Kind = "normal" => /\ Normal(word[Mutex], p, op[t], depth[t])
                         /\ Has(p, op[t], depth[t]) => Has(pc[t], op[t], depth[t])
  BY <1>1, <1>3, Knows DEF Normal, Has
<1>5. Kind # "normal" => Owned(t, word[Mutex], p, op[t], val[t], depth[t])
  BY <1>1, Knows DEF Owned, Unlocks
<1> QED BY <1>2, <1>4, <1>5, Looks

(* The unlock of a normal mutex.                                           *)
LEMMA SubKeeps ==
  ASSUME MutexInv, IdsDiffer, NEW t \in Threads, Sub(t)
  PROVE  MutexInv' /\ Kind' = Kind
<1> DEFINE w == word[Mutex]
           less == [w EXCEPT !.state = w.state - 1]
<1>1. PICK p \in {"idle", "clear"} :
         /\ MTypes /\ pc[t] = "sub" /\ UNCHANGED <<op, val, depth>>
         /\ word' = [word EXCEPT ![Mutex] = less] /\ pc' = [pc EXCEPT ![t] = p]
         /\ p = "idle" <=> w.state = 1
  BY DEF MutexInv, Sub, Assign, Answer, Goto
<1>2. /\ Kind = "normal" /\ op[t] = "unlock" /\ depth[t] = 0 /\ w \in Words /\ w.type = Kind
      /\ w.state # 0
  BY <1>1, Knows, Facts DEF Normal, Owned, Has, Kind
<1>3. less \in Words /\ less.type = Kind /\ less.state = w.state - 1 /\ w.state \in {1, 2}
  <2> HIDE DEF w
  <2>1. w.state \in {1, 2}
    BY <1>2 DEF Words
  <2>2. w.state - 1 \in 0 .. 2
    BY <2>1
  <2> QED BY <1>2, <2>1, <2>2 DEF Words
<1>4. Becomes(t, less, p, op[t], val[t], depth[t])
  BY <1>1, <1>3, Facts DEF Becomes, Pcs
<1>5. Normal(less, p, op[t], depth[t])
  BY <1>1, <1>2, <1>3 DEF Normal, Has
<1>6. Has(pc[t], op[t], depth[t])
  BY <1>1, <1>2 DEF Has
<1> QED BY <1>2, <1>3, <1>4, <1>5, <1>6, NormalMoves

LEMMA ClearKeeps ==
  ASSUME MutexInv, IdsDiffer, NEW t \in Threads, Clear(t)
  PROVE  MutexInv' /\ Kind' = Kind
<1>1. /\ MTypes /\ pc[t] = "clear" /\ UNCHANGED <<op, val, depth>>
      /\ word' = [word EXCEPT ![Mutex] = Unlocked] /\ pc' = [pc EXCEPT ![t] = "wake"]
  BY DEF MutexInv, Clear, Assign, Goto
<1>2. Kind = "normal" /\ op[t] = "unlock" /\ depth[t] = 0
  BY <1>1, Knows, Facts DEF Normal, Owned
<1>3. Unlocked \in Words /\ Unlocked.type = Kind
  BY <1>1, WordsAre
<1>4. Becomes(t, Unlocked, "wake", op[t], val[t], depth[t])
  BY <1>1, <1>3, Facts DEF Becomes, Pcs
<1>5. /\ Normal(Unlocked, "wake", op[t], depth[t])
      /\ ~Has("wake", op[t], depth[t]) /\ Has(pc[t], op[t], depth[t])
  BY <1>1, <1>2 DEF Normal, Has
<1> QED BY <1>2, <1>3, <1>4, <1>5, NormalMoves

(* The unlock of a mutex with an owner.                                    *)
LEMMA DecKeeps ==
  ASSUME MutexInv, IdsDiffer, NEW t \in Threads, Dec(t)
  PROVE  MutexInv' /\ Kind' = Kind
<1> DEFINE w == word[Mutex]
<1>1. /\ MTypes /\ pc[t] = "dec" /\ UNCHANGED <<op, depth>>
      /\ \/ /\ w = val[t] /\ word' = [word EXCEPT ![Mutex] = Shallower(w)]
            /\ UNCHANGED val /\ pc' = [pc EXCEPT ![t] = "idle"]
         \/ UNCHANGED <<word, pc>> /\ val' = [val EXCEPT ![t] = w]
  BY DEF MutexInv, Dec, Assign, Answer, Goto
<1>2. /\ Kind # "normal" /\ op[t] = "unlock" /\ w \in Words /\ w.type = Kind
      /\ depth[t] \in Nat /\ val[t] \in Words /\ Mine(t, w) /\ w.counter # 0
      /\ Owned(t, w, pc[t], op[t], val[t], depth[t])
  BY <1>1, Knows, Facts DEF Normal, Owned, Kind
<1>3. w.counter \in 0 .. MaxCounter /\ MaxCounter \in Nat
  BY <1>2, MutexAssumption DEF Words
<1>4. CASE /\ w = val[t] /\ word' = [word EXCEPT ![Mutex] = Shallower(w)]
           /\ UNCHANGED val /\ pc' = [pc EXCEPT ![t] = "idle"]
  <2>1. /\ Shallower(w) \in Words /\ Shallower(w).type = Kind
        /\ Shallower(w).counter = w.counter - 1
        /\ Shallower(w).owner = w.owner /\ Shallower(w).state = w.state
    <3>1. w.counter - 1 \in 0 .. MaxCounter
      BY <1>2, <1>3
    <3> HIDE DEF w
    <3> QED BY <1>2, <3>1 DEF Shallower, Words
  <2>2. Becomes(t, Shallower(w), "idle", op[t], val[t], depth[t])
    BY <1>1, <1>4, <2>1, Facts DEF Becomes, Pcs
  <2> HIDE DEF w
  <2>3. depth[t] = w.counter
    BY <1>1, <1>2, <1>3 DEF Owned, Unlocks
  <2>4. Owned(t, Shallower(w), "idle", op[t], val[t], depth[t])
    BY <1>2, <1>3, <2>1, <2>3 DEF Owned, Mine, Unlocks
  <2>5. Clean(Shallower(w)) /\ \A u \in Threads \ {t} : ~Mine(u, Shallower(w)) /\ ~Mine(u, w)
    BY <1>2, <2>1 DEF Clean, Mine, IdsDiffer
  <2> QED BY <1>2, <2>1, <2>2, <2>4, <2>5, OwnedMoves DEF w
<1>5. CASE UNCHANGED <<word, pc>> /\ val' = [val EXCEPT ![t] = w]
  <2>1. Becomes(t, w, "dec", op[t], w, depth[t])
    BY <1>1, <1>5, Facts DEF Becomes, Pcs
  <2>2. Owned(t, w, "dec", op[t], w, depth[t])
    BY <1>1, <1>2 DEF Owned, Unlocks
  <2> QED BY <1>2, <2>1, <2>2, OwnedLooks
<1> QED BY <1>1, <1>4, <1>5

LEMMA ReleaseKeeps ==
  ASSUME MutexInv, IdsDiffer, NEW t \in Threads, Release(t)
  PROVE  MutexInv' /\ Kind' = Kind
<1> DEFINE w == word[Mutex]
<1>1. PICK p \in {"idle", "wake"} :
         /\ MTypes /\ pc[t] = "release" /\ UNCHANGED <<op, val, depth>>
         /\ word' = [word EXCEPT ![Mutex] = Unlocked] /\ pc' = [pc EXCEPT ![t] = p]
  BY DEF MutexInv, Release, Assign, Answer, Goto
<1>2. /\ Kind # "normal" /\ op[t] = "unlock" /\ depth[t] \in Nat /\ Mine(t, w)
      /\ w.counter = 0 /\ Owned(t, w, pc[t], op[t], val[t], depth[t])
  BY <1>1, Knows, Facts DEF Normal, Owned
<1>3. /\ Unlocked \in Words /\ Unlocked.type = Kind /\ Unlocked.state = 0
      /\ Unlocked.owner = 0 /\ Unlocked.counter = 0
  BY <1>1, WordsAre
<1>4. Becomes(t, Unlocked, p, op[t], val[t], depth[t])
  BY <1>1, <1>3, Facts DEF Becomes, Pcs
<1> HIDE DEF w
<1>5. depth[t] = 0
  BY <1>1, <1>2 DEF Owned, Unlocks
<1>6. Owned(t, Unlocked, p, op[t], val[t], depth[t]) /\ Clean(Unlocked)
  BY <1>1, <1>3, <1>5 DEF Owned, Mine, Clean
<1>7. \A u \in Threads \ {t} : ~Mine(u, Unlocked) /\ ~Mine(u, w)
  BY <1>2, <1>3 DEF Mine, IdsDiffer
<1> QED BY <1>2, <1>3, <1>4, <1>6, <1>7, OwnedMoves DEF w

-----------------------------------------------------------------------------
(* The whole                                                               *)

LEMMA StepKeeps ==
  ASSUME MutexInv, IdsDiffer, NEW t \in Threads, Step(t)
  PROVE  MutexInv' /\ Kind' = Kind
BY LoadKeeps, FastKeeps, ExchangeKeeps, LoopKeeps, IncKeeps, TryMineKeeps, TryAgainKeeps,
   TakeKeeps, ContendKeeps, SleepKeeps, SubKeeps, ClearKeeps, DecKeeps, ReleaseKeeps DEF Step

LEMMA NextKeeps ==
  ASSUME MutexInv, IdsDiffer, [MutexNext]_vars
  PROVE  MutexInv' /\ Kind' = Kind
<1>1. CASE UNCHANGED <<word, pc, op, val, depth>>
  BY <1>1 DEF MutexInv, MTypes, NormalInv, OwnedInv, Kind, Mine, Owned, Clean
<1>2. CASE \E t \in Threads : Call(t) \/ CallUnlockUnowned(t) \/ Step(t)
  BY <1>2, CallKeeps, StepKeeps
<1>3. CASE \E t \in Threads : HostStep(t)
  BY <1>1, <1>3 DEF HostStep, ResumeNotified, SpuriousWakeup, mutexVars
<1>4. CASE Shutdown
  BY <1>1, <1>4 DEF Shutdown, CancelAll, mutexVars
<1>5. CASE UNCHANGED vars
  BY <1>1, <1>5 DEF vars, futexVars, mutexVars
<1> QED BY <1>2, <1>3, <1>4, <1>5 DEF MutexNext

LEMMA InitHolds ==
  ASSUME MutexInit
  PROVE  MutexInv
<1>1. PICK k \in Kinds :
         LET free == [type |-> k, owner |-> 0, counter |-> 0, state |-> 0]
         IN  word = [a \in Addrs |-> free] /\ val = [t \in Threads |-> free]
  BY DEF MutexInit
<1> DEFINE free == [type |-> k, owner |-> 0, counter |-> 0, state |-> 0]
<1>2. /\ word = [a \in Addrs |-> free] /\ val = [t \in Threads |-> free]
      /\ pc = [t \in Threads |-> "idle"] /\ op = [t \in Threads |-> "lock"]
      /\ depth = [t \in Threads |-> 0]
  BY <1>1 DEF MutexInit
<1>3. free \in Words
  <2>1. 0 \in 0 .. IdModulus - 1 /\ 0 \in 0 .. MaxCounter /\ 0 \in 0 .. 2
    BY MutexAssumption
  <2> QED BY <2>1 DEF Words
<1>4. free.state = 0 /\ free.owner = 0 /\ free.counter = 0
  OBVIOUS
<1> HIDE DEF free
<1>5. MTypes /\ word[Mutex] = free
  BY <1>2, <1>3, MutexAssumption DEF MTypes, Pcs, Ops
<1>6. NormalInv
  BY <1>2 DEF NormalInv, Normal, Has
<1>7. OwnedInv
  BY <1>2, <1>4, <1>5 DEF OwnedInv, Owned, Clean, Mine
<1> QED BY <1>5, <1>6, <1>7 DEF MutexInv

(* What the word and the threads of a mutex agree on is an invariant of    *)
(* the lock, trylock and unlock of agr_bionic_sync.cpp.                    *)
THEOREM MutexInvariance ==
  ASSUME IdsDiffer
  PROVE  MutexSpec => []MutexInv
<1>1. MutexInv /\ [MutexNext]_vars => MutexInv'
  BY NextKeeps
<1> QED BY <1>1, InitHolds, PTL DEF MutexSpec

(* The word of a recursive or error-checking mutex names its holder and    *)
(* counts the holder's claims, however the lock loop, the contention mark, *)
(* trylock and unlock of the threads interleave.                           *)
THEOREM OwnerIsExact ==
  ASSUME IdsDiffer
  PROVE  MutexSpec => []OwnerExact
<1>1. MutexInv => OwnerExact
  <2> SUFFICES ASSUME MutexInv, Kind # "normal", NEW t \in Threads
               PROVE  /\ depth[t] > 0 => Mine(t, word[Mutex])
                      /\ Mine(t, word[Mutex]) => Claims(t) = word[Mutex].counter + 1
    BY DEF OwnerExact
  <2>1. Claims(t) = depth[t] + Unlocks(pc[t], op[t])
    BY DEF Claims, Unlocking, Unlocks
  <2> QED BY <2>1, Knows DEF Owned
<1> QED BY <1>1, MutexInvariance, PTL

-----------------------------------------------------------------------------
(* The lock that callers see                                               *)

(* A claim is added only to a free mutex or to the holder's own, and the   *)
(* counter has room for it.                                                *)
LEMMA StepClaims ==
  ASSUME MutexInv, IdsDiffer, NEW t \in Threads, Step(t)
  PROVE  \/ UNCHANGED depth
         \/ /\ depth' = [depth EXCEPT ![t] = depth[t] + 1]
            /\ \/ word[Mutex].state = 0
               \/ /\ Kind = "recursive" /\ Mine(t, word[Mutex]) /\ depth[t] = word[Mutex].counter + 1
                  /\ word[Mutex].counter # MaxCounter
<1>1. Unlocked.state = 0
  BY WordsAre DEF MutexInv
<1>2. CASE Fast(t)
  BY <1>1, <1>2 DEF Fast, Cas, Acquired
<1>3. CASE Exchange(t)
  BY <1>1, <1>3 DEF Exchange, Free, Acquired
<1>4. CASE Inc(t)
  <2>1. pc[t] = "inc" /\ (UNCHANGED depth \/ depth' = [depth EXCEPT ![t] = depth[t] + 1])
    BY <1>4 DEF Inc, Cas, Acquired
  <2>2. Owned(t, word[Mutex], pc[t], op[t], val[t], depth[t]) /\ depth[t] \in Nat
    BY <2>1, Knows, Facts DEF MutexInv, Normal
  <2> QED BY <2>1, <2>2 DEF Owned, Unlocks, Kind
<1>5. CASE Take(t)
  <2>1. /\ pc[t] = "take"
        /\ \/ UNCHANGED depth
           \/ word[Mutex] = val[t] /\ depth' = [depth EXCEPT ![t] = depth[t] + 1]
    BY <1>5 DEF Take, Cas, Acquired
  <2>2. val[t].state = 0
    BY <2>1, Knows DEF Normal, Owned
  <2> QED BY <2>1, <2>2
<1>6. CASE \/ Load(t) \/ Loop(t) \/ TryMine(t) \/ TryAgain(t) \/ Contend(t) \/ Wait(t) \/ Woken(t)
           \/ Sub(t) \/ Clear(t) \/ Dec(t) \/ Release(t) \/ WakeOne(t)
  BY <1>6 DEF Load, Loop, TryMine, TryAgain, Contend, Wait, Woken, Sub, Clear, Dec, Release, WakeOne,
              Quietly
<1> QED BY <1>2, <1>3, <1>4, <1>5, <1>6 DEF Step

LEMMA OthersHaveNone ==
  ASSUME MutexInv, IdsDiffer, NEW t \in Threads,
         word[Mutex].state = 0 \/ (Kind # "normal" /\ Mine(t, word[Mutex]))
  PROVE  /\ \A u \in Threads \ {t} : depth[u] = 0
         /\ word[Mutex].state = 0 => depth[t] = 0
<1>1. ASSUME NEW u \in Threads, depth[u] # 0
      PROVE  word[Mutex].state # 0 /\ (Kind # "normal" => Mine(u, word[Mutex]))
  <2>1. depth[u] \in Nat
    BY Facts DEF MutexInv
  <2> QED BY <1>1, <2>1, Knows DEF Normal, Has, Owned, Mine
<1>2. ASSUME NEW u \in Threads \ {t}, depth[u] # 0
      PROVE  FALSE
  BY <1>1, <1>2 DEF Mine, IdsDiffer
<1> QED BY <1>1, <1>2

LEMMA NextClaims ==
  ASSUME MutexInv, IdsDiffer, [MutexNext]_vars
  PROVE  [Lock!Next]_<<depth, IF Kind = "recursive" THEN MaxCounter + 1 ELSE 1>>
<1> DEFINE limit == IF Kind = "recursive" THEN MaxCounter + 1 ELSE 1
<1>1. limit' = limit
  BY NextKeeps
<1>2. CASE UNCHANGED depth
  BY <1>1, <1>2
<1>3. ASSUME NEW t \in Threads, Step(t)
      PROVE  UNCHANGED depth \/ Lock!Acquire(t)
  <2>1. CASE /\ depth' = [depth EXCEPT ![t] = depth[t] + 1]
             /\ word[Mutex].state = 0
    <3>1. (\A u \in Threads \ {t} : depth[u] = 0) /\ depth[t] = 0
      BY <2>1, OthersHaveNone
    <3>2. 0 < limit
      BY MutexAssumption
    <3> QED BY <2>1, <3>1, <3>2 DEF Lock!Acquire
  <2>2. CASE /\ depth' = [depth EXCEPT ![t] = depth[t] + 1]
             /\ Kind = "recursive" /\ Mine(t, word[Mutex]) /\ depth[t] = word[Mutex].counter + 1
             /\ word[Mutex].counter # MaxCounter
    <3>1. \A u \in Threads \ {t} : depth[u] = 0
      BY <2>2, OthersHaveNone
    <3>2. word[Mutex].counter \in 0 .. MaxCounter /\ MaxCounter \in Nat
      BY Facts, MutexAssumption DEF MutexInv, Words
    <3>3. depth[t] < limit
      BY <2>2, <3>2
    <3> QED BY <2>2, <3>1, <3>3 DEF Lock!Acquire
  <2> QED BY <1>3, <2>1, <2>2, StepClaims
<1>4. ASSUME NEW t \in Threads, Call(t)
      PROVE  UNCHANGED depth \/ Lock!Release(t)
  BY <1>4 DEF Call, Lock!Release
<1>5. CASE MutexNext
  <2>1. CASE \E t \in Threads : Step(t)
    BY <1>1, <1>3, <2>1 DEF Lock!Next
  <2>2. CASE \E t \in Threads : Call(t)
    BY <1>1, <1>4, <2>2 DEF Lock!Next
  <2>3. CASE \/ \E t \in Threads : CallUnlockUnowned(t) \/ HostStep(t)
             \/ Shutdown \/ UNCHANGED vars
    BY <1>2, <2>3 DEF CallUnlockUnowned, HostStep, Shutdown, mutexVars, vars
  <2> QED BY <1>5, <2>1, <2>2, <2>3 DEF MutexNext
<1>6. CASE UNCHANGED vars
  BY <1>2, <1>6 DEF vars, mutexVars
<1> QED BY <1>5, <1>6

(* Callers see a lock: each call of the guest's pthread_mutex_lock,        *)
(* trylock and unlock takes effect at one step, at most one thread holds   *)
(* the mutex, and a recursive one counts no more claims than its limit.    *)
THEOREM ImplementsTheLock ==
  ASSUME IdsDiffer
  PROVE  MutexSpec => ImplementsLock
<1>1. MutexInit => Lock!Init
  BY MutexAssumption DEF MutexInit, Lock!Init
<1>2. MutexInv /\ [MutexNext]_vars => [Lock!Next]_<<depth, IF Kind = "recursive" THEN MaxCounter + 1 ELSE 1>>
  BY NextClaims
<1> QED BY <1>1, <1>2, MutexInvariance, PTL DEF MutexSpec, ImplementsLock, Lock!Spec
-----------------------------------------------------------------------------
(* Sleeping: who is inside the host is at the futex call, who comes back   *)
(* from it tries again, who goes there has seen the word contended.        *)
NotMine(t) == Kind = "normal" \/ ~Mine(t, word[Mutex])

Coming(t) ==
    /\ NotMine(t)
    /\ \/ pc[t] \in {"exchange", "loop", "take", "contend", "wait"}
       \/ pc[t] = "sleep" /\ fpc[t] = "returned" /\ result[t] # "ENOMEM"

Sleeper(t) ==
    /\ pc[t] = "sleep" <=> fpc[t] # "out"
    /\ fpc[t] = "returned" /\ ~closing => result[t] \in {"OK", "EAGAIN", "ENOMEM"}
    /\ pc[t] = "wait" => val[t].state = 2
    /\ pc[t] \in {"take", "contend", "wait", "sleep"} => NotMine(t)

(* Only a thread that finds nobody inside may be refused a queue, so that  *)
(* one that leaves the lock loop with ENOMEM leaves no sleeper behind.     *)
(* A notified thread that finds no token goes back to sleep: it is the     *)
(* token that counts, not the thread.                                      *)
NoneForgotten ==
    Inside(Mutex) # {} /\ ~closing =>
        \/ word[Mutex].state = 2
        \/ \E t \in Threads : pc[t] \in {"clear", "wake"}
        \/ pending[Mutex] # 0
        \/ \E t \in Threads : Coming(t)

SleepInv ==
    /\ Mutex \in nullq => Inside(Mutex) = {}
    /\ \A t \in Threads : Sleeper(t)
    /\ NoneForgotten
(* The values of Kind, the program counters and the words a thread reads.  *)
LEMMA Reads ==
  ASSUME MutexInv
  PROVE  /\ word \in [Addrs -> Words] /\ Mutex \in Addrs /\ Mutex \notin Unmapped
         /\ pc \in [Threads -> Pcs] /\ op \in [Threads -> Ops] /\ val \in [Threads -> Words]
BY MutexAssumption DEF MutexInv, MTypes

(* A callback into guest memory: t alone moves, outside the futex call.    *)
LEMMA MemoryKeeps ==
  ASSUME SleepInv, NEW t \in Threads, InMemory, Kind' = Kind,
         \A u \in Threads \ {t} : /\ pc'[u] = pc[u] /\ val'[u] = val[u]
                                  /\ Mine(u, word'[Mutex]) => Mine(u, word[Mutex]),
         pc[t] # "sleep", pc'[t] # "sleep",
         pc'[t] = "wait" => val'[t].state = 2,
         pc'[t] \in {"take", "contend", "wait"} => NotMine(t)',
         \/ word'[Mutex].state = 2
         \/ pc'[t] \in {"clear", "wake"}
         \/ /\ word[Mutex].state # 2 /\ pc[t] \notin {"clear", "wake"}
            /\ Coming(t) => Coming(t)'
  PROVE  SleepInv'
<1>1. /\ fpc' = fpc /\ result' = result /\ closing' = closing /\ nullq' = nullq /\ pending' = pending
      /\ faddr' = faddr
  BY DEF InMemory, hostVars, threadVars
<1>2. \A u \in Threads \ {t} : NotMine(u) => NotMine(u)'
  BY DEF NotMine
<1>3. ASSUME NEW u \in Threads PROVE Sleeper(u)'
  <2>1. Sleeper(u)
    BY DEF SleepInv
  <2>2. CASE u = t
    BY <1>1, <2>1, <2>2 DEF Sleeper
  <2>3. CASE u # t
    BY <1>1, <1>2, <2>1, <2>3 DEF Sleeper
  <2> QED BY <2>2, <2>3
<1>4. NoneForgotten'
  <2>1. Inside(Mutex)' = Inside(Mutex)
    BY <1>1 DEF Inside
  <2>2. \A u \in Threads \ {t} : Coming(u) => Coming(u)'
    BY <1>1, <1>2 DEF Coming
  <2>3. NoneForgotten
    BY DEF SleepInv
  <2> QED BY <1>1, <2>1, <2>2, <2>3 DEF NoneForgotten
<1>5. Inside(Mutex)' = Inside(Mutex)
  BY <1>1 DEF Inside
<1> QED BY <1>1, <1>3, <1>4, <1>5 DEF SleepInv

(* Another thread's word, and nobody's, is not mine.                       *)
LEMMA NotOthers ==
  ASSUME IdsDiffer, NEW t \in Threads
  PROVE  /\ \A w : w.owner = 0 => ~Mine(t, w)
         /\ \A u \in Threads \ {t} : \A w : w.owner = Tid(u) => ~Mine(t, w)
BY DEF IdsDiffer, Mine

(* The word is left as it was.                                             *)
LEMMA LookKeeps ==
  ASSUME SleepInv, NEW t \in Threads, InMemory, word' = word,
         \A u \in Threads \ {t} : pc'[u] = pc[u] /\ val'[u] = val[u],
         pc[t] # "sleep", pc'[t] # "sleep",
         pc'[t] = "wait" => val'[t].state = 2,
         pc'[t] \in {"take", "contend", "wait"} => NotMine(t),
         pc[t] \notin {"clear", "wake"} /\ (Coming(t) => Coming(t)')
  PROVE  SleepInv'
<1>1. Kind' = Kind /\ (NotMine(t) => NotMine(t)')
  BY DEF Kind, NotMine
<1>2. word'[Mutex].state = 2 \/ word[Mutex].state # 2
  OBVIOUS
<1> QED BY <1>1, <1>2, MemoryKeeps

LEMMA LooksSleep ==
  ASSUME MutexInv, SleepInv, NEW t \in Threads,
         Call(t) \/ CallUnlockUnowned(t) \/ Load(t) \/ TryMine(t) \/ TryAgain(t) \/ Loop(t)
  PROVE  SleepInv'
<1>0. CASE Call(t) \/ CallUnlockUnowned(t)
  <2>1. /\ InMemory /\ word' = word /\ pc[t] = "idle" /\ pc'[t] = "load"
        /\ \A u \in Threads \ {t} : pc'[u] = pc[u] /\ val'[u] = val[u]
    BY <1>0, Reads DEF Call, CallUnlockUnowned, Goto
  <2>2. ~Coming(t)
    BY <2>1 DEF Coming
  <2> QED BY <2>1, <2>2, LookKeeps
<1>1. CASE Load(t)
  <2>1. /\ InMemory /\ word' = word /\ pc[t] = "load"
        /\ pc'[t] = IF Refused(t, word[Mutex]) # "none" THEN "idle" ELSE Branch(t, word[Mutex])
        /\ \A u \in Threads \ {t} : pc'[u] = pc[u] /\ val'[u] = val[u]
    BY <1>1, Reads DEF Load, Goto, Answer, Quietly
  <2>2. ~Coming(t)
    BY <2>1 DEF Coming
  <2>3. pc'[t] \in {"idle", "sub", "fast", "loop", "mine", "dec", "release"}
    BY <2>1, Reads DEF Branch, Ops
  <2> QED BY <2>1, <2>2, <2>3, LookKeeps
<1>2. CASE TryMine(t)
  <2>1. /\ InMemory /\ word' = word /\ pc[t] = "mine" /\ pc'[t] \in {"idle", "inc"}
        /\ \A u \in Threads \ {t} : pc'[u] = pc[u] /\ val'[u] = val[u]
    BY <1>2, Reads DEF TryMine, Goto, Answer, Quietly
  <2>2. ~Coming(t)
    BY <2>1 DEF Coming
  <2> QED BY <2>1, <2>2, LookKeeps
<1>3. CASE TryAgain(t)
  <2>1. /\ InMemory /\ word' = word /\ pc[t] = "retry" /\ pc'[t] \in {"idle", "inc"}
        /\ \A u \in Threads \ {t} : pc'[u] = pc[u] /\ val'[u] = val[u]
    BY <1>3, Reads DEF TryAgain, Goto, Answer, Quietly
  <2>2. ~Coming(t)
    BY <2>1 DEF Coming
  <2> QED BY <2>1, <2>2, LookKeeps
<1>4. CASE Loop(t)
  <2>0. Kind # "normal" /\ Clean(word[Mutex]) /\ word[Mutex] \in Words
    BY <1>4, Knows, Reads DEF Loop, Normal
  <2>1. /\ InMemory /\ word' = word /\ pc[t] = "loop" /\ val'[t] = word[Mutex]
        /\ \A u \in Threads \ {t} : pc'[u] = pc[u] /\ val'[u] = val[u]
        /\ \/ Mine(t, word[Mutex]) /\ pc'[t] \in {"idle", "inc"}
           \/ ~Mine(t, word[Mutex]) /\ pc'[t] \in {"take", "contend"}
           \/ ~Mine(t, word[Mutex]) /\ pc'[t] = "wait" /\ word[Mutex] # Unlocked /\ word[Mutex].state # 1
    BY <1>4, Reads DEF Loop, Goto, Answer, Quietly
  <2>2. CASE Mine(t, word[Mutex]) /\ pc'[t] \in {"idle", "inc"}
    <3>1. ~Coming(t)
      BY <2>0, <2>2 DEF Coming, NotMine
    <3> QED BY <2>1, <2>2, <3>1, LookKeeps
  <2>3. CASE ~Mine(t, word[Mutex])
    <3>1. word[Mutex].state = 0 => word[Mutex] = Unlocked
      BY <2>0 DEF Clean, Words, Unlocked, Word, Kind
    <3>2. word[Mutex].state \in 0 .. 2
      BY <2>0 DEF Words
    <3>3. pc'[t] = "wait" => val'[t].state = 2
      BY <2>1, <2>3, <3>1, <3>2
    <3>4. NotMine(t) /\ NotMine(t)' /\ pc'[t] \in {"take", "contend", "wait"}
      BY <2>1, <2>3 DEF NotMine
    <3>5. Coming(t)'
      BY <3>4 DEF Coming
    <3> QED BY <2>1, <3>3, <3>4, <3>5, LookKeeps
  <2> QED BY <2>1, <2>2, <2>3
<1> QED BY <1>0, <1>1, <1>2, <1>3, <1>4

(* The steps that write the word.                                          *)
LEMMA LockSleep ==
  ASSUME MutexInv, IdsDiffer, SleepInv, NEW t \in Threads,
         Fast(t) \/ Exchange(t) \/ Take(t) \/ Contend(t) \/ Inc(t)
  PROVE  SleepInv'
<1>0. Kind' = Kind
  BY StepKeeps DEF Step
<1>1. ASSUME NEW s \in {1, 2}, NEW u \in Threads \ {t}
      PROVE  ~Mine(u, TakenBy(t, s))
  <2>1. TakenBy(t, s).owner \in {0, Tid(t)}
    BY DEF TakenBy, Word
  <2> QED BY <2>1, NotOthers
<1>2. CASE Fast(t)
  <2>0. pc[t] = "fast" /\ InMemory /\ val' = val /\ ~Coming(t)
    BY <1>2 DEF Fast, Coming
  <2>1. CASE word[Mutex] = Unlocked /\ word' = [word EXCEPT ![Mutex] = TakenBy(t, 1)]
             /\ pc' = [pc EXCEPT ![t] = "idle"]
    <3>1. word'[Mutex] = TakenBy(t, 1) /\ pc'[t] = "idle" /\ \A u \in Threads \ {t} : pc'[u] = pc[u]
      BY <2>1, Reads
    <3>2. word[Mutex].state # 2
      BY <2>1 DEF Unlocked, Word
    <3> QED BY <1>0, <1>1, <2>0, <3>1, <3>2, MemoryKeeps
  <2>2. CASE word' = word /\ \E l \in {"idle", "exchange", "loop"} : pc' = [pc EXCEPT ![t] = l]
    <3>1. pc'[t] \in {"idle", "exchange", "loop"} /\ \A u \in Threads \ {t} : pc'[u] = pc[u]
      BY <2>2, Reads
    <3> QED BY <2>0, <2>2, <3>1, LookKeeps
  <2> QED BY <1>2, <2>1, <2>2 DEF Fast, Cas, Assign, Acquired, Answer, Goto
<1>3. CASE Exchange(t)
  <2>1. /\ word'[Mutex] = Mark /\ val'[t] = Mark /\ pc[t] = "exchange" /\ pc'[t] \in {"idle", "wait"}
        /\ InMemory /\ \A u \in Threads \ {t} : pc'[u] = pc[u] /\ val'[u] = val[u]
    BY <1>3, Reads DEF Exchange, Assign, Acquired, Answer, Goto
  <2>2. Mark.state = 2 /\ Mark.owner = 0
    BY DEF Mark, Word
  <2>3. \A u \in Threads : ~Mine(u, word'[Mutex])
    BY <2>1, <2>2, NotOthers
  <2>4. NotMine(t)'
    BY <2>3 DEF NotMine, Mine, Tid
  <2> QED BY <1>0, <2>1, <2>2, <2>3, <2>4, MemoryKeeps
<1>4. CASE Take(t)
  <2>0. pc[t] = "take" /\ InMemory /\ val' = val
    BY <1>4 DEF Take
  <2>1. CASE word' = [word EXCEPT ![Mutex] = TakenBy(t, TakeState)] /\ pc' = [pc EXCEPT ![t] = "idle"]
    <3>1. word'[Mutex] = TakenBy(t, 2) /\ pc'[t] = "idle" /\ \A u \in Threads \ {t} : pc'[u] = pc[u]
      BY <2>1, Reads DEF TakeState
    <3>2. TakenBy(t, 2).state = 2
      BY DEF TakenBy, Word
    <3> QED BY <1>0, <1>1, <2>0, <3>1, <3>2, MemoryKeeps
  <2>2. CASE word' = word /\ pc' = [pc EXCEPT ![t] = "loop"]
    <3>1. pc'[t] = "loop" /\ \A u \in Threads \ {t} : pc'[u] = pc[u]
      BY <2>2, Reads
    <3>2. Coming(t) => Coming(t)'
      BY <2>2, <3>1 DEF Coming, NotMine, Kind, Mine, Tid
    <3> QED BY <2>0, <2>2, <3>1, <3>2, LookKeeps
  <2> QED BY <1>4, <2>1, <2>2 DEF Take, Cas, Assign, Acquired, Answer, Goto
<1>5. CASE Contend(t)
  <2> DEFINE marked == [val[t] EXCEPT !.state = 2]
  <2>0. pc[t] = "contend" /\ InMemory /\ val[t] \in Words
    BY <1>5, Reads DEF Contend
  <2>1. CASE word[Mutex] = val[t] /\ word' = [word EXCEPT ![Mutex] = marked]
             /\ val' = [val EXCEPT ![t] = marked] /\ pc' = [pc EXCEPT ![t] = "wait"]
    <3>1. /\ word'[Mutex] = marked /\ val'[t] = marked /\ pc'[t] = "wait"
          /\ \A u \in Threads \ {t} : pc'[u] = pc[u] /\ val'[u] = val[u]
      BY <2>1, Reads
    <3>2. marked.state = 2 /\ marked.owner = word[Mutex].owner
      BY <2>0, <2>1 DEF Words
    <3>3. word[Mutex].state # 0
      <4>1. Owned(t, word[Mutex], pc[t], op[t], val[t], depth[t])
        BY <2>0, Knows DEF Normal
      <4>2. val[t].state = 1
        BY <2>0, <4>1 DEF Owned
      <4> QED BY <2>1, <4>2
    <3> HIDE DEF marked
    <3>4. \A u \in Threads : Mine(u, marked) => Mine(u, word[Mutex])
      BY <3>2, <3>3 DEF Mine
    <3>5. NotMine(t)
      BY <2>0 DEF SleepInv, Sleeper
    <3>6. NotMine(t)'
      BY <1>0, <3>1, <3>4, <3>5 DEF NotMine, Mine, Tid
    <3> QED BY <1>0, <2>0, <3>1, <3>2, <3>4, <3>6, MemoryKeeps
  <2>2. CASE word' = word /\ val' = val /\ pc' = [pc EXCEPT ![t] = "loop"]
    <3>1. pc'[t] = "loop" /\ \A u \in Threads \ {t} : pc'[u] = pc[u]
      BY <2>2, Reads
    <3>2. Coming(t) => Coming(t)'
      BY <2>2, <3>1 DEF Coming, NotMine, Kind, Mine, Tid
    <3> QED BY <2>0, <2>2, <3>1, <3>2, LookKeeps
  <2> QED BY <1>5, <2>1, <2>2 DEF Contend, Assign, Goto
<1>6. CASE Inc(t)
  <2>0. pc[t] = "inc" /\ InMemory /\ val' = val /\ ~Coming(t) /\ val[t] \in Words
    BY <1>6, Reads DEF Inc, Coming
  <2>1. CASE word[Mutex] = val[t] /\ word' = [word EXCEPT ![Mutex] = Deeper(val[t])]
             /\ pc' = [pc EXCEPT ![t] = "idle"]
    <3>1. word'[Mutex] = Deeper(val[t]) /\ pc'[t] = "idle" /\ \A u \in Threads \ {t} : pc'[u] = pc[u]
      BY <2>1, Reads
    <3>2. Deeper(val[t]).owner = word[Mutex].owner /\ Deeper(val[t]).state = word[Mutex].state
      BY <2>0, <2>1 DEF Deeper, Words
    <3>3. \A u \in Threads : Mine(u, Deeper(val[t])) => Mine(u, word[Mutex])
      BY <3>2 DEF Mine
    <3> QED BY <1>0, <2>0, <3>1, <3>2, <3>3, MemoryKeeps
  <2>2. CASE word' = word /\ \E l \in {"retry", "loop"} : pc' = [pc EXCEPT ![t] = l]
    <3>1. pc'[t] \in {"retry", "loop"} /\ \A u \in Threads \ {t} : pc'[u] = pc[u]
      BY <2>2, Reads
    <3> QED BY <2>0, <2>2, <3>1, LookKeeps
  <2> QED BY <1>6, <2>1, <2>2 DEF Inc, Cas, Assign, Acquired, Answer, Goto
<1> QED BY <1>2, <1>3, <1>4, <1>5, <1>6

LEMMA UnlockSleep ==
  ASSUME MutexInv, IdsDiffer, SleepInv, NEW t \in Threads,
         Sub(t) \/ Clear(t) \/ Dec(t) \/ Release(t)
  PROVE  SleepInv'
<1>0. Kind' = Kind
  BY StepKeeps DEF Step
<1>1. \A u \in Threads : ~Mine(u, Unlocked)
  BY NotOthers DEF Unlocked, Word
<1>2. CASE Sub(t)
  <2> DEFINE left == [word[Mutex] EXCEPT !.state = @ - 1]
  <2>1. /\ word'[Mutex] = left /\ pc[t] = "sub" /\ InMemory /\ val' = val /\ ~Coming(t)
        /\ pc'[t] = IF word[Mutex].state = 1 THEN "idle" ELSE "clear"
        /\ \A u \in Threads \ {t} : pc'[u] = pc[u]
    BY <1>2, Reads DEF Sub, Assign, Answer, Goto, Coming
  <2>2. word[Mutex].state # 0
    <3>1. Normal(word[Mutex], pc[t], op[t], depth[t])
      BY <2>1, Knows DEF Owned
    <3> QED BY <2>1, <3>1 DEF Normal, Has
  <2>3. left.owner = word[Mutex].owner
    BY Reads DEF Words
  <2> HIDE DEF left
  <2>4. \A u \in Threads : Mine(u, left) => Mine(u, word[Mutex])
    BY <2>2, <2>3 DEF Mine
  <2> QED BY <1>0, <2>1, <2>4, MemoryKeeps
<1>3. CASE Clear(t)
  <2>1. /\ word'[Mutex] = Unlocked /\ pc[t] = "clear" /\ InMemory /\ val' = val /\ pc'[t] = "wake"
        /\ \A u \in Threads \ {t} : pc'[u] = pc[u]
    BY <1>3, Reads DEF Clear, Assign, Goto
  <2> QED BY <1>0, <1>1, <2>1, MemoryKeeps
<1>4. CASE Release(t)
  <2>1. /\ word'[Mutex] = Unlocked /\ pc[t] = "release" /\ InMemory /\ val' = val /\ ~Coming(t)
        /\ pc'[t] = IF word[Mutex].state = 2 THEN "wake" ELSE "idle"
        /\ \A u \in Threads \ {t} : pc'[u] = pc[u]
    BY <1>4, Reads DEF Release, Assign, Answer, Goto, Coming
  <2> QED BY <1>0, <1>1, <2>1, MemoryKeeps
<1>5. CASE Dec(t)
  <2>0. pc[t] = "dec" /\ InMemory /\ ~Coming(t) /\ val[t] \in Words
    BY <1>5, Reads DEF Dec, Coming
  <2>1. CASE word[Mutex] = val[t] /\ word' = [word EXCEPT ![Mutex] = Shallower(val[t])]
             /\ val' = val /\ pc' = [pc EXCEPT ![t] = "idle"]
    <3>1. word'[Mutex] = Shallower(val[t]) /\ pc'[t] = "idle" /\ \A u \in Threads \ {t} : pc'[u] = pc[u]
      BY <2>1, Reads
    <3>2. Shallower(val[t]).owner = word[Mutex].owner /\ Shallower(val[t]).state = word[Mutex].state
      BY <2>0, <2>1 DEF Shallower, Words
    <3>3. \A u \in Threads : Mine(u, Shallower(val[t])) => Mine(u, word[Mutex])
      BY <3>2 DEF Mine
    <3> QED BY <1>0, <2>0, <2>1, <3>1, <3>2, <3>3, MemoryKeeps
  <2>2. CASE word' = word /\ pc' = pc /\ val' = [val EXCEPT ![t] = word[Mutex]]
    <3>1. \A u \in Threads \ {t} : pc'[u] = pc[u] /\ val'[u] = val[u]
      BY <2>2, Reads
    <3> QED BY <2>0, <2>2, <3>1, LookKeeps
  <2> QED BY <1>5, <2>1, <2>2 DEF Dec, Assign, Answer, Goto
<1> QED BY <1>2, <1>3, <1>4, <1>5

-----------------------------------------------------------------------------
(* The futex call                                                          *)

LEMMA WaitSleep ==
  ASSUME MutexInv, SleepInv, NEW t \in Threads, HostInv, Wait(t)
  PROVE  SleepInv'
<1>1. /\ pc[t] = "wait" /\ pc'[t] = "sleep" /\ fpc[t] = "out" /\ word' = word /\ val' = val
      /\ \A u \in Threads \ {t} : pc'[u] = pc[u]
      /\ Kind' = Kind /\ fpc \in [Threads -> {"out", "blocked", "notified", "expired", "returned"}]
      /\ result \in [Threads -> {"OK", "ECANCELED", "EFAULT", "EAGAIN", "ETIMEDOUT", "ENOMEM"}]
  BY Reads DEF Wait, FutexWait, Enter, EnterFails, Goto, Kind, HostInv, HostTypes
<1>2. /\ \A u \in Threads : NotMine(u)' <=> NotMine(u)
      /\ NotMine(t) /\ val[t].state = 2
  BY <1>1 DEF SleepInv, Sleeper, NotMine, Mine, Tid
<1>3. /\ Mutex \in nullq' => Inside(Mutex)' = {}
      /\ closing' = closing
      /\ \A u \in Threads \ {t} : fpc'[u] = fpc[u] /\ result'[u] = result[u] /\ faddr'[u] = faddr[u]
      /\ \/ /\ fpc'[t] = "returned" /\ (~closing => result'[t] \in {"OK", "EAGAIN", "ENOMEM"})
            /\ result'[t] = "ENOMEM" => Inside(Mutex)' = {}
         \/ fpc'[t] = "blocked" /\ word[Mutex] = val[t]
  <2>0. fpc'[t] = "returned" /\ (\A u \in Threads \ {t} : fpc'[u] = fpc[u] /\ faddr'[u] = faddr[u])
          => Inside(Mutex)' = Inside(Mutex)
    BY <1>1 DEF Inside
  <2>1. CASE EnterRefused(t, Mutex, val[t], "infinite")
    <3>1. Refusal(Mutex, val[t], "infinite") \in {"ECANCELED", "EAGAIN"}
          /\ (~closing => Refusal(Mutex, val[t], "infinite") = "EAGAIN")
      BY <2>1, Reads DEF EnterRefused, Refusal
    <3> QED BY <1>1, <2>0, <2>1, <3>1 DEF EnterRefused, Return, hostVars, SleepInv
  <2>2. CASE EnterTakesToken(t, Mutex, val[t], "infinite")
    BY <1>1, <2>0, <2>2 DEF EnterTakesToken, Return, SleepInv
  <2>3. CASE EnterBlocks(t, Mutex, val[t], "infinite")
    <3>1. word[Mutex] = val[t]
      BY <2>3 DEF EnterBlocks, Refusal
    <3>2. Mutex \notin nullq'
      BY <2>3 DEF EnterBlocks
    <3>3. faddr \in [Threads -> Addrs]
      BY DEF HostInv, HostTypes
    <3> QED BY <1>1, <2>3, <3>1, <3>2, <3>3 DEF EnterBlocks
  <2>4. CASE EnterNoMemory(t, Mutex, val[t], "infinite")
    <3>1. Inside(Mutex) = {}
      BY <2>4, Reads DEF EnterNoMemory, HostInv, CountsExact
    <3> QED BY <1>1, <2>0, <2>4, <3>1 DEF EnterNoMemory, Return
  <2> QED BY <2>1, <2>2, <2>3, <2>4 DEF Wait, FutexWait, Enter, EnterFails
<1>4. ASSUME NEW u \in Threads PROVE Sleeper(u)'
  <2>1. Sleeper(u)
    BY DEF SleepInv
  <2>2. CASE u = t
    BY <1>1, <1>2, <1>3, <2>2 DEF Sleeper
  <2>3. CASE u # t
    BY <1>1, <1>2, <1>3, <2>1, <2>3 DEF Sleeper
  <2> QED BY <2>2, <2>3
<1>5. NoneForgotten'
  <2>0. CASE result'[t] = "ENOMEM" /\ Inside(Mutex)' = {}
    BY <2>0 DEF NoneForgotten
  <2>1. CASE fpc'[t] = "returned" /\ result'[t] # "ENOMEM"
    <3>1. Coming(t)'
      BY <1>1, <1>2, <2>1 DEF Coming
    <3> QED BY <3>1 DEF NoneForgotten
  <2>2. CASE word[Mutex] = val[t]
    BY <1>1, <1>2, <2>2 DEF NoneForgotten
  <2> QED BY <1>3, <2>0, <2>1, <2>2
<1> QED BY <1>3, <1>4, <1>5 DEF SleepInv

(* A return of the futex call: t goes around the lock loop once more.      *)
LEMMA WokenSleep ==
  ASSUME MutexInv, SleepInv, NEW t \in Threads, HostInv, Woken(t)
  PROVE  SleepInv'
<1>1. /\ pc[t] = "sleep" /\ fpc[t] = "returned" /\ fpc'[t] = "out" /\ word' = word /\ val' = val
      /\ \A u \in Threads \ {t} : /\ pc'[u] = pc[u] /\ fpc'[u] = fpc[u] /\ result'[u] = result[u]
                                  /\ faddr'[u] = faddr[u]
      /\ Kind' = Kind /\ nullq' = nullq /\ closing' = closing /\ pending' = pending
      /\ pc'[t] \in {"exchange", "loop", "idle"}
      /\ result[t] \in {"OK", "EAGAIN"} => pc'[t] \in {"exchange", "loop"}
  BY Reads DEF Woken, PickUp, Goto, Answer, Kind, HostInv, HostTypes, hostVars
<1>2. /\ \A u \in Threads : NotMine(u)' <=> NotMine(u)
      /\ NotMine(t) /\ (closing \/ result[t] \in {"OK", "EAGAIN", "ENOMEM"})
  BY <1>1 DEF SleepInv, Sleeper, NotMine, Mine, Tid
<1>3. ASSUME NEW u \in Threads PROVE Sleeper(u)'
  <2>1. Sleeper(u)
    BY DEF SleepInv
  <2>2. CASE u = t
    BY <1>1, <1>2, <2>2 DEF Sleeper
  <2>3. CASE u # t
    BY <1>1, <1>2, <2>1, <2>3 DEF Sleeper
  <2> QED BY <2>2, <2>3
<1>4. Inside(Mutex)' = Inside(Mutex)
  BY <1>1 DEF Inside
<1>5. NoneForgotten'
  <2>1. CASE closing
    BY <1>1, <2>1 DEF NoneForgotten
  <2>2. CASE ~closing /\ result[t] # "ENOMEM"
    <3>1. Coming(t)'
      BY <1>1, <1>2, <2>2 DEF Coming
    <3> QED BY <3>1 DEF NoneForgotten
  <2>3. CASE ~closing /\ result[t] = "ENOMEM"
    <3>1. ~Coming(t)
      BY <1>1, <2>3 DEF Coming
    <3>2. \A u \in Threads \ {t} : Coming(u) => Coming(u)'
      BY <1>1, <1>2 DEF Coming
    <3>3. NoneForgotten /\ pc[t] = "sleep"
      BY <1>1 DEF SleepInv
    <3> QED BY <1>1, <1>4, <3>1, <3>2, <3>3 DEF NoneForgotten
  <2> QED BY <2>1, <2>2, <2>3
<1> QED BY <1>1, <1>3, <1>4, <1>5 DEF SleepInv

(* An unlock wakes: after it a token is there for whoever is inside.       *)
LEMMA WakeOneSleep ==
  ASSUME MutexInv, SleepInv, NEW t \in Threads, HostInv, WakeOne(t)
  PROVE  SleepInv'
<1>1. /\ pc[t] = "wake" /\ pc'[t] = "idle" /\ word' = word /\ val' = val
      /\ \A u \in Threads \ {t} : pc'[u] = pc[u]
      /\ Kind' = Kind /\ nullq' = nullq /\ closing' = closing
      /\ waiters' = waiters /\ faddr' = faddr /\ result' = result
  BY Reads DEF WakeOne, Wake, Answer, Goto, Kind, SleepInv
<1>2. \A u \in Threads : fpc'[u] = fpc[u] \/ (fpc[u] = "blocked" /\ fpc'[u] = "notified")
  <2>1. CASE fpc' = fpc
    BY <2>1
  <2>2. CASE \E N \in Notified(Mutex, WakeCount(Mutex, 1)) :
               fpc' = [u \in Threads |-> IF u \in N THEN "notified" ELSE fpc[u]]
    <3> PICK N \in Notified(Mutex, WakeCount(Mutex, 1)) :
               fpc' = [u \in Threads |-> IF u \in N THEN "notified" ELSE fpc[u]]
      BY <2>2
    <3>1. N \subseteq Blocked(Mutex)
      BY DEF Notified
    <3> QED BY <3>1 DEF Blocked
  <2> QED BY <2>1, <2>2 DEF WakeOne, Wake
<1>3. Mutex \in nullq => Inside(Mutex) = {}
  BY DEF SleepInv
<1>4. \A u \in Threads : /\ fpc'[u] = "out" <=> fpc[u] = "out"
                         /\ fpc'[u] = "returned" <=> fpc[u] = "returned"
                         /\ fpc'[u] \in {"blocked", "notified", "expired"}
                                <=> fpc[u] \in {"blocked", "notified", "expired"}
  BY <1>2
<1>5. \A u \in Threads : NotMine(u)' <=> NotMine(u)
  BY <1>1 DEF NotMine, Mine, Tid
<1>6. ASSUME NEW u \in Threads PROVE Sleeper(u)'
  <2>1. Sleeper(u)
    BY DEF SleepInv
  <2>2. CASE u = t
    BY <1>1, <1>4, <1>5, <2>1, <2>2 DEF Sleeper
  <2>3. CASE u # t
    BY <1>1, <1>4, <1>5, <2>1, <2>3 DEF Sleeper
  <2> QED BY <2>2, <2>3
<1>7. Inside(Mutex)' = Inside(Mutex)
  BY <1>1, <1>4 DEF Inside
<1>8. NoneForgotten'
  <2>2. CASE Inside(Mutex) # {}
    <3>1. /\ waiters[Mutex] >= 1 /\ Minus(waiters[Mutex], pending[Mutex]) = waiters[Mutex] - pending[Mutex]
          /\ pending[Mutex] <= waiters[Mutex]
      BY <2>2, NoWrap, Reads
    <3>2. Mutex \in queues
      BY <2>2, Reads DEF HostInv, CountsExact
    <3>3. pending \in [Addrs -> Nat] /\ waiters \in [Addrs -> Nat]
      BY DEF HostInv, HostTypes
    <3>4. pending'[Mutex] = pending[Mutex] + WakeCount(Mutex, 1)
      BY <1>3, <2>2, <3>3, Reads DEF WakeOne, Wake
    <3>5. WakeCount(Mutex, 1) = IF 1 <= waiters[Mutex] - pending[Mutex] THEN 1 ELSE waiters[Mutex] - pending[Mutex]
      BY <3>1, <3>2 DEF WakeCount, Least
    <3>6. waiters[Mutex] \in Nat /\ pending[Mutex] \in Nat
      BY <3>3, Reads
    <3>7. pending'[Mutex] # 0
      BY <3>1, <3>4, <3>5, <3>6
    <3> QED BY <3>7 DEF NoneForgotten
  <2> QED BY <1>7, <2>2 DEF NoneForgotten
<1> QED BY <1>1, <1>3, <1>6, <1>7, <1>8 DEF SleepInv

(* The host moves t: with a token it returns, without one it sleeps on.    *)
LEMMA HostSleep ==
  ASSUME MutexInv, SleepInv, NEW t \in Threads, HostInv, HostStep(t)
  PROVE  SleepInv'
<1>1. /\ pc' = pc /\ word' = word /\ val' = val /\ Kind' = Kind
      /\ fpc \in [Threads -> {"out", "blocked", "notified", "expired", "returned"}]
      /\ result \in [Threads -> {"OK", "ECANCELED", "EFAULT", "EAGAIN", "ETIMEDOUT", "ENOMEM"}]
  BY DEF HostStep, ResumeNotified, SpuriousWakeup, mutexVars, Kind, HostInv, HostTypes
<1>2. \A u \in Threads : NotMine(u)' <=> NotMine(u)
  BY <1>1 DEF NotMine, Mine, Tid
<1>3. CASE ResumeNotified(t) /\ Leave(t, TRUE)
  <2>1. /\ fpc[t] = "notified" /\ fpc'[t] = "returned" /\ nullq' = nullq /\ closing' = closing
        /\ result'[t] = IF closing THEN "ECANCELED" ELSE "OK"
        /\ \A u \in Threads \ {t} : fpc'[u] = fpc[u] /\ result'[u] = result[u]
    BY <1>1, <1>3 DEF ResumeNotified, Leave, Return
  <2>2. pc[t] = "sleep" /\ NotMine(t)
    BY <2>1 DEF SleepInv, Sleeper
  <2>3. ASSUME NEW u \in Threads PROVE Sleeper(u)'
    <3>1. Sleeper(u)
      BY DEF SleepInv
    <3>2. CASE u = t
      BY <1>1, <1>2, <2>1, <2>2, <3>2 DEF Sleeper
    <3>3. CASE u # t
      BY <1>1, <1>2, <2>1, <3>1, <3>3 DEF Sleeper
    <3> QED BY <3>2, <3>3
  <2>4. Coming(t)'
    BY <1>1, <1>2, <2>1, <2>2 DEF Coming
  <2>5. Inside(Mutex)' \subseteq Inside(Mutex)
    BY <1>3, <2>1 DEF Inside, Leave
  <2> QED BY <2>1, <2>3, <2>4, <2>5 DEF SleepInv, NoneForgotten
<1>4. CASE /\ fpc[t] \in {"notified", "blocked"} /\ UNCHANGED <<hostVars, faddr, timed, result>>
           /\ \E l \in {"notified", "blocked"} : fpc' = [fpc EXCEPT ![t] = l]
  <2>1. /\ fpc'[t] \in {"notified", "blocked"} /\ \A u \in Threads \ {t} : fpc'[u] = fpc[u]
        /\ nullq' = nullq /\ closing' = closing /\ pending' = pending /\ faddr' = faddr /\ result' = result
    BY <1>1, <1>4 DEF hostVars
  <2>2. ASSUME NEW u \in Threads PROVE Sleeper(u)' /\ (Coming(u) => Coming(u)')
    <3>1. Sleeper(u)
      BY DEF SleepInv
    <3>2. CASE u = t
      BY <1>1, <1>2, <1>4, <2>1, <3>1, <3>2 DEF Sleeper, Coming
    <3>3. CASE u # t
      BY <1>1, <1>2, <2>1, <3>1, <3>3 DEF Sleeper, Coming
    <3> QED BY <3>2, <3>3
  <2>3. Inside(Mutex)' = Inside(Mutex)
    BY <1>4, <2>1 DEF Inside
  <2>4. NoneForgotten
    BY DEF SleepInv
  <2>5. NoneForgotten'
    BY <1>1, <2>1, <2>2, <2>3, <2>4 DEF NoneForgotten
  <2> QED BY <2>1, <2>2, <2>3, <2>5 DEF SleepInv
<1> QED BY <1>3, <1>4 DEF HostStep, ResumeNotified, SpuriousWakeup

LEMMA ShutdownSleep ==
  ASSUME SleepInv, HostInv, Shutdown
  PROVE  SleepInv'
<1>1. /\ pc' = pc /\ word' = word /\ val' = val /\ closing' = TRUE /\ nullq' = nullq
      /\ \A u \in Threads : fpc'[u] = "out" <=> fpc[u] = "out"
  BY DEF Shutdown, CancelAll, mutexVars
<1>2. \A u \in Threads : NotMine(u)' <=> NotMine(u)
  BY <1>1 DEF NotMine, Mine, Tid, Kind
<1>3. \A u \in Threads : Sleeper(u)'
  BY <1>1, <1>2 DEF SleepInv, Sleeper
<1>4. Inside(Mutex)' = Inside(Mutex)
  BY DEF Shutdown, CancelAll, Inside
<1> QED BY <1>1, <1>3, <1>4 DEF SleepInv, NoneForgotten

-----------------------------------------------------------------------------
(* The host underneath keeps its own invariant, whatever the words are.    *)
LEMMA HostKeeps ==
  ASSUME HostInv, [MutexNext]_vars
  PROVE  HostInv'
<1>1. CASE UNCHANGED <<hostVars, threadVars>>
  BY <1>1 DEF HostInv, HostTypes, CountsExact, TokensCovered, Inside, InFlight, hostVars, threadVars
<1>2. CASE UNCHANGED vars
  BY <1>1, <1>2 DEF vars, futexVars
<1>3. CASE Shutdown
  BY <1>3, CancelInv DEF Shutdown
<1>4. ASSUME NEW t \in Threads, HostStep(t)
      PROVE  HostInv'
  BY <1>4, ResumeInv, UnblockInv DEF HostStep
<1>5. ASSUME NEW t \in Threads, Call(t) \/ CallUnlockUnowned(t)
      PROVE  HostInv'
  BY <1>1, <1>5 DEF Call, CallUnlockUnowned, InMemory
<1>6. ASSUME NEW t \in Threads, Wait(t)
      PROVE  HostInv'
  BY <1>6, EnterInv, NoMemInv, MutexAssumption DEF Wait, FutexWait
<1>7. ASSUME NEW t \in Threads, Woken(t)
      PROVE  HostInv'
  BY <1>7, CallerInv DEF Woken
<1>8. ASSUME NEW t \in Threads, WakeOne(t)
      PROVE  HostInv'
  BY <1>8, WakeInv, MutexAssumption DEF WakeOne
<1>9. ASSUME NEW t \in Threads, Step(t), ~Wait(t), ~Woken(t), ~WakeOne(t)
      PROVE  HostInv'
  BY <1>1, <1>9 DEF Step, Load, Fast, Exchange, Loop, Inc, TryMine, TryAgain, Take, Contend, Sub, Clear,
                    Dec, Release, InMemory
<1> QED BY <1>2, <1>3, <1>4, <1>5, <1>6, <1>7, <1>8, <1>9 DEF MutexNext

LEMMA SleepersKept ==
  ASSUME MutexInv, IdsDiffer, HostInv, SleepInv, [MutexNext]_vars
  PROVE  SleepInv'
<1>1. CASE UNCHANGED vars
  BY <1>1 DEF vars, futexVars, hostVars, threadVars, mutexVars, SleepInv, Sleeper, NoneForgotten, Coming,
              NotMine, Kind, Mine, Tid, Inside
<1>2. ASSUME NEW t \in Threads, Call(t) \/ CallUnlockUnowned(t) \/ Step(t) \/ HostStep(t)
      PROVE  SleepInv'
  BY <1>2, LooksSleep, LockSleep, UnlockSleep, WaitSleep, WokenSleep, WakeOneSleep, HostSleep DEF Step
<1>3. CASE Shutdown
  BY <1>3, ShutdownSleep
<1> QED BY <1>1, <1>2, <1>3 DEF MutexNext

(* While anybody sleeps on the mutex, the word says contended, an unlock   *)
(* is about to wake or a thread is on its way through the lock loop: no    *)
(* interleaving of the exchange, the contention mark, the futex call and   *)
(* the two accesses of a normal unlock forgets a sleeper                   *)
(* (agr_bionic_sync.cpp, _normal_lock and _recursive_lock).                *)
THEOREM SleepersRemembered ==
  ASSUME IdsDiffer
  PROVE  MutexSpec => []NoLostWakeup
<1> DEFINE J == MutexInv /\ HostInv /\ SleepInv
<1>1. MutexInit => J
  <2> SUFFICES ASSUME MutexInit PROVE J
    OBVIOUS
  <2>1. HostInv
    BY InitInv DEF MutexInit
  <2>2. /\ nullq = {} /\ Inside(Mutex) = {} /\ \A t \in Threads : pc[t] = "idle" /\ fpc[t] = "out"
    BY DEF MutexInit, FutexInit, Inside
  <2> QED BY <2>1, <2>2, InitHolds DEF SleepInv, Sleeper, NoneForgotten
<1>2. J /\ [MutexNext]_vars => J'
  BY NextKeeps, HostKeeps, SleepersKept
<1>3. J => NoLostWakeup
  <2> SUFFICES ASSUME J, Blocked(Mutex) # {}, ~closing
               PROVE  word[Mutex].state = 2 \/ \E t \in Threads : pc[t] \in {"clear", "wake"} \/ Retrying(t)
    BY DEF NoLostWakeup
  <2>1. Inside(Mutex) # {}
    BY DEF Blocked
  <2>2. CASE pending[Mutex] # 0
    <3>1. Mutex \in Addrs /\ pending[Mutex] \in Nat
      BY MutexAssumption DEF HostInv, HostTypes
    <3>2. Cardinality(InFlight(Mutex)) # 0
      BY <2>2, <3>1, SetSizes DEF HostInv, TokensCovered
    <3>3. InFlight(Mutex) # {}
      BY <3>2, FS_EmptySet
    <3>4. PICK t \in Threads : fpc[t] \in {"notified", "expired"}
      BY <3>3 DEF InFlight, Inside
    <3>5. pc[t] = "sleep"
      BY <3>4 DEF SleepInv, Sleeper
    <3> QED BY <3>4, <3>5 DEF Retrying
  <2>3. CASE \E t \in Threads : Coming(t)
    BY <2>3 DEF Coming, Retrying
  <2> QED BY <2>1, <2>2, <2>3 DEF SleepInv, NoneForgotten
<1> QED BY <1>1, <1>2, <1>3, PTL DEF MutexSpec
=============================================================================
