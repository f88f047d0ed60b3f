------------------------------ MODULE BionicTls ------------------------------
(***************************************************************************)
(* Thread-specific data of the guest: Runtime/Bionic/agr_bionic_tls.cpp    *)
(* with the attach and detach of agr_runtime.c around it and the stacks    *)
(* guest_thread_execute maps for the slots to live in.                     *)
(*                                                                         *)
(* A critical section of the tls lock is one action; the cleanup lets the  *)
(* lock go around every destructor, which is guest code and may use the    *)
(* keys itself.  Every value a thread sets is new: a number that stands    *)
(* for the thread, the key and the life of the key it was set in, so that  *)
(* a value that turns up anywhere else is seen.                            *)
(***************************************************************************)
EXTENDS Integers, FiniteSets

CONSTANTS Threads,      \* guest thread ids; an id is never used twice
          Bases,        \* places for a stack with its slots
          NumKeys,      \* the user slots, here 1 .. NumKeys
          Reserved,     \* slots the process keeps for libc from its start
          MaxSets,      \* bound: pthread_setspecific calls
          MaxFailures,  \* bound: destructors that fail
          MaxLives,     \* bound: pthread_key_create calls
          Rounds        \* passes of the cleanup: 4

Keys == 1 .. NumKeys
Serials == 1 .. MaxSets
Null == 0

ASSUME TlsAssumption ==
    /\ Bases # {} /\ NumKeys \in Nat /\ Reserved \subseteq Keys
    /\ MaxSets \in Nat /\ MaxFailures \in Nat /\ MaxLives \in Nat
    /\ Rounds \in Nat \ {0}

VARIABLES allocated, hasDestructor,  \* the key map
          registered,                \* thread id -> base
          mapped,                    \* bases whose memory exists
          slot,                      \* guest memory: base -> key -> value
          pc, base,                  \* a thread, and its stack
          round, pos, calledOne,     \* locals of the cleanup
          life, lives,               \* lives of each key, of all keys
          born,                      \* where the values were set
          sets, destroyed, failures

keyVars  == <<allocated, hasDestructor, life, lives>>
passVars == <<round, pos, calledOne>>
valueVars == <<born, sets>>
tlsVars == <<keyVars, passVars, valueVars, registered, mapped, slot, pc, base,
          destroyed, failures>>

Goes(t, l) == pc' = [pc EXCEPT ![t] = l]
Registered == DOMAIN registered
InGuest(t) == pc[t] \in {"guest", "destructor"}

-----------------------------------------------------------------------------
(* A thread starts: a stack, then the registration, which clears every     *)
(* slot; a stack the program brings itself holds what it held.             *)
SlotsCleared(b) == [k \in Keys |-> Null]

Attach(t) ==
    /\ pc[t] = "none"
    /\ \E b \in Bases \ mapped :
         /\ mapped' = mapped \cup {b}
         /\ base' = [base EXCEPT ![t] = b]
         /\ registered' = [u \in Registered \cup {t} |->
                             IF u = t THEN b ELSE registered[u]]
         /\ slot' = [slot EXCEPT ![b] = SlotsCleared(b)]
    /\ Goes(t, "guest")
    /\ UNCHANGED <<keyVars, passVars, valueVars, destroyed, failures>>

-----------------------------------------------------------------------------
(* Guest code, running or called as a destructor.                          *)
KeyCreate(t) ==
    /\ InGuest(t)
    /\ lives < MaxLives /\ lives' = lives + 1
    /\ \E k \in Keys :
         /\ ~allocated[k]
         /\ \A j \in Keys : j < k => allocated[j]
         /\ allocated' = [allocated EXCEPT ![k] = TRUE]
         /\ life' = [life EXCEPT ![k] = @ + 1]
         /\ \E d \in BOOLEAN : hasDestructor' = [hasDestructor EXCEPT ![k] = d]
    /\ UNCHANGED <<passVars, valueVars, registered, mapped, slot, pc, base,
                   destroyed, failures>>

\* fault: only the caller's slot is cleared
OwnSlot(t) == {base[t]}
DeletedIn(t) == {registered[u] : u \in Registered}
ClearIn(B, k) ==
    slot' = [b \in Bases |-> IF b \in B THEN [slot[b] EXCEPT ![k] = Null] ELSE slot[b]]

(* The slots are cleared in the order of a hash map; one that cannot be    *)
(* written ends the call with the key still there.                         *)
KeyDelete(t, k) ==
    /\ InGuest(t)
    /\ allocated[k]
    /\ \/ /\ DeletedIn(t) \subseteq mapped
          /\ ClearIn(DeletedIn(t), k)
          /\ allocated' = [allocated EXCEPT ![k] = FALSE]
          /\ hasDestructor' = [hasDestructor EXCEPT ![k] = FALSE]
       \/ /\ ~(DeletedIn(t) \subseteq mapped)
          /\ \E B \in SUBSET (DeletedIn(t) \cap mapped) : ClearIn(B, k)
          /\ UNCHANGED <<allocated, hasDestructor>>
    /\ UNCHANGED <<life, lives, passVars, valueVars, registered, mapped, pc, base,
                   destroyed, failures>>

SetSpecific(t, k) ==
    /\ InGuest(t) /\ allocated[k]
    /\ sets < MaxSets /\ sets' = sets + 1
    /\ slot' = [slot EXCEPT ![registered[t]][k] = sets']
    /\ born' = [born EXCEPT ![sets'] = [thread |-> t, key |-> k, life |-> life[k]]]
    /\ UNCHANGED <<keyVars, passVars, registered, mapped, pc, base, destroyed, failures>>

\* pthread_setspecific(key, NULL)
SetNull(t, k) ==
    /\ InGuest(t) /\ allocated[k]
    /\ slot' = [slot EXCEPT ![registered[t]][k] = Null]
    /\ UNCHANGED <<keyVars, passVars, valueVars, registered, mapped, pc, base,
                   destroyed, failures>>

-----------------------------------------------------------------------------
(* The end of a thread: up to four passes over the keys.  Each critical    *)
(* section runs from one destructor to the next, across the end of a pass. *)
Exit(t) ==
    /\ pc[t] = "guest"
    /\ Goes(t, "cleanup")
    /\ round' = [round EXCEPT ![t] = 1]
    /\ pos' = [pos EXCEPT ![t] = 1]
    /\ calledOne' = [calledOne EXCEPT ![t] = FALSE]
    /\ UNCHANGED <<keyVars, valueVars, registered, mapped, slot, base, destroyed,
                   failures>>

Due(t, from) ==
    {k \in Keys : k >= from /\ allocated[k] /\ hasDestructor[k]
                  /\ slot[base[t]][k] # Null}

\* fault: a pass that called a destructor counts as one that called none
NeverAnother(t) == FALSE
AnotherPass(t) == Due(t, pos[t]) = {} /\ calledOne[t] /\ round[t] < Rounds
Candidates(t) == IF AnotherPass(t) THEN Due(t, 1) ELSE Due(t, pos[t])

\* fault: the slot keeps its value while the destructor runs
StillSet(t, k) == slot
Cleared(t, k) == [slot EXCEPT ![base[t]][k] = Null]

CleanupCalls(t) ==
    /\ pc[t] = "cleanup"
    /\ \E k \in Candidates(t) :
         /\ \A j \in Candidates(t) : k <= j
         /\ destroyed' = destroyed \cup {slot[base[t]][k]}
         /\ slot' = Cleared(t, k)
         /\ pos' = [pos EXCEPT ![t] = k + 1]
    /\ round' = [round EXCEPT ![t] = IF AnotherPass(t) THEN @ + 1 ELSE @]
    /\ calledOne' = [calledOne EXCEPT ![t] = TRUE]
    /\ Goes(t, "destructor")
    /\ UNCHANGED <<keyVars, valueVars, registered, mapped, base, failures>>

DestructorReturns(t) ==
    /\ pc[t] = "destructor"
    /\ Goes(t, "cleanup")
    /\ UNCHANGED <<keyVars, passVars, valueVars, registered, mapped, slot, base,
                   destroyed, failures>>

(* A guest fault in the destructor ends the cleanup and the detach: the    *)
(* registration stays when the stack goes.                                 *)
DestructorFails(t) ==
    /\ pc[t] = "destructor"
    /\ failures < MaxFailures /\ failures' = failures + 1
    /\ Goes(t, "unmap")
    /\ UNCHANGED <<keyVars, passVars, valueVars, registered, mapped, slot, base,
                   destroyed>>

CleanupEnds(t) ==
    /\ pc[t] = "cleanup"
    /\ Candidates(t) = {}
    /\ Goes(t, "unregister")
    /\ UNCHANGED <<keyVars, passVars, valueVars, registered, mapped, slot, base,
                   destroyed, failures>>

Unregister(t) ==
    /\ pc[t] = "unregister"
    /\ registered' = [u \in Registered \ {t} |-> registered[u]]
    /\ Goes(t, "unmap")
    /\ UNCHANGED <<keyVars, passVars, valueVars, mapped, slot, base, destroyed, failures>>

Unmap(t) ==
    /\ pc[t] = "unmap"
    /\ mapped' = mapped \ {base[t]}
    /\ Goes(t, "gone")
    /\ UNCHANGED <<keyVars, passVars, valueVars, registered, slot, base, destroyed,
                   failures>>

-----------------------------------------------------------------------------
AnyBase == CHOOSE b \in Bases : TRUE
AnyThread == CHOOSE t \in Threads : TRUE

TlsInit ==
    /\ allocated = [k \in Keys |-> k \in Reserved]
    /\ hasDestructor = [k \in Keys |-> FALSE]
    /\ registered = [t \in {} |-> AnyBase]
    /\ mapped = {}
    /\ slot = [b \in Bases |-> [k \in Keys |-> Null]]
    /\ pc = [t \in Threads |-> "none"]
    /\ base = [t \in Threads |-> AnyBase]
    /\ round = [t \in Threads |-> 1]
    /\ pos = [t \in Threads |-> 1]
    /\ calledOne = [t \in Threads |-> FALSE]
    /\ life = [k \in Keys |-> 0] /\ lives = 0
    /\ born = [s \in Serials |-> [thread |-> AnyThread, key |-> 0, life |-> 0]]
    /\ sets = 0 /\ destroyed = {} /\ failures = 0

Step(t) ==
    \/ Attach(t) \/ KeyCreate(t) \/ Exit(t)
    \/ \E k \in Keys : KeyDelete(t, k) \/ SetSpecific(t, k) \/ SetNull(t, k)
    \/ CleanupCalls(t) \/ DestructorReturns(t) \/ DestructorFails(t)
    \/ CleanupEnds(t) \/ Unregister(t) \/ Unmap(t)

Done == \A t \in Threads : pc[t] = "gone"
TlsNext == (\E t \in Threads : Step(t)) \/ (Done /\ UNCHANGED tlsVars)
TlsSpec == TlsInit /\ [][TlsNext]_tlsVars

-----------------------------------------------------------------------------
Alive(t) == pc[t] \in {"guest", "cleanup", "destructor", "unregister"}

(* What a thread finds under a key it set itself, in this life of the key: *)
(* neither a key that is deleted and created again, nor a stack that is    *)
(* used again, nor a registration left behind by a failed destructor shows *)
(* it a value of another thread or of an earlier key.                      *)
ValueIsOwn ==
    \A t \in Threads, k \in Keys : Alive(t) =>
        LET v == slot[base[t]][k] IN
        v # Null => /\ allocated[k]
                    /\ born[v] = [thread |-> t, key |-> k, life |-> life[k]]

(* A value handed to a destructor is out of the slots for good: the        *)
(* destructor itself and the later passes do not find it again.            *)
DestroyedGone ==
    \A t \in Threads, k \in Keys : Alive(t) => slot[base[t]][k] \notin destroyed

(* A cleanup that stops before the last pass leaves nothing to destroy,    *)
(* whatever keys other threads and the destructors create and delete.      *)
NothingLeft ==
    \A t \in Threads : pc[t] = "unregister" /\ round[t] < Rounds => Due(t, 1) = {}
=============================================================================
