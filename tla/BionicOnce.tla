----------------------------- MODULE BionicOnce -----------------------------
(***************************************************************************)
(* pthread_once of the guest: agr_bionic_once in                           *)
(* Runtime/Bionic/agr_bionic_sync.cpp over FutexHost.  Bit 0 of the        *)
(* control word says that an initialisation runs, bit 1 that one has       *)
(* completed.  A guest callback that fails (a fault, or the process being  *)
(* torn down) puts the word back, so that the next caller tries again.     *)
(***************************************************************************)
EXTENDS FutexHost

CONSTANTS Control,     \* the address of the control word
          MaxCalls,    \* bound: pthread_once calls of each thread
          MaxFailures  \* bound: callbacks that fail

ASSUME OnceAssumption ==
    /\ Control \in Addrs \ Unmapped
    /\ MaxCalls \in Nat /\ MaxFailures \in Nat

VARIABLES pc, old, calls, failures, answer,
          completed   \* successful runs of the init function

onceVars == <<pc, old, calls, failures, answer, completed>>
vars == <<futexVars, onceVars>>

Goto(t, l) == pc' = [pc EXCEPT ![t] = l]
Assign(v) == word' = [word EXCEPT ![Control] = v]
Answer(t, r) == Goto(t, "idle") /\ answer' = [answer EXCEPT ![t] = r]
InMemory == UNCHANGED <<hostVars, threadVars>>
Many == 1000   \* INT_MAX

Running(v)  == v % 2 = 1      \* v & 1
Complete(v) == v \div 2 = 1   \* v & 2
Begun(v) == IF Running(v) THEN v ELSE v + 1   \* v | 1

Call(t) ==
    /\ pc[t] = "idle" /\ calls[t] > 0
    /\ calls' = [calls EXCEPT ![t] = @ - 1]
    /\ Goto(t, "load")
    /\ InMemory /\ UNCHANGED <<word, old, failures, answer, completed>>

LoadControl(t) ==
    /\ pc[t] = "load"
    /\ old' = [old EXCEPT ![t] = word[Control]]
    /\ IF Complete(word[Control]) THEN Answer(t, "OK")
       ELSE Goto(t, "cas") /\ UNCHANGED answer
    /\ InMemory /\ UNCHANGED <<word, calls, failures, completed>>

\* fault: everybody whose CAS succeeds initialises
AlwaysMine(v) == TRUE
\* the CAS of an initialisation that runs already leads to the futex
MineToRun(v) == ~Running(v)

CasControl(t) ==
    /\ pc[t] = "cas"
    /\ \/ /\ word[Control] = old[t]
          /\ Assign(Begun(old[t]))
          /\ Goto(t, IF MineToRun(old[t]) THEN "invoke" ELSE "wait")
       \/ /\ word[Control] # old[t]
          /\ Goto(t, "load")
          /\ UNCHANGED word
    /\ InMemory /\ UNCHANGED <<old, calls, failures, answer, completed>>

Wait(t) ==
    /\ pc[t] = "wait"
    /\ FutexWait(t, Control, Begun(old[t]), "infinite")
    /\ Goto(t, "sleep")
    /\ UNCHANGED <<old, calls, failures, answer, completed>>

Woken(t) ==
    /\ pc[t] = "sleep"
    /\ PickUp(t)
    /\ IF result[t] \in {"OK", "EAGAIN"} THEN Goto(t, "load") /\ UNCHANGED answer
       ELSE Answer(t, result[t])
    /\ UNCHANGED <<old, calls, failures, completed>>

-----------------------------------------------------------------------------
(* The callback has run, and its outcome is stored.                        *)
\* fault: the word stays "running" after a failure
StuckAfterFailure == 1
AfterFailure == 0
AfterSuccess == 2

Invoke(t) ==
    /\ pc[t] = "invoke"
    /\ \/ /\ completed' = completed + 1
          /\ Goto(t, "publish")
          /\ UNCHANGED failures
       \/ /\ failures > 0 /\ failures' = failures - 1
          /\ Goto(t, "restore")
          /\ UNCHANGED completed
    /\ InMemory /\ UNCHANGED <<word, old, calls, answer>>

Publish(t) ==
    /\ pc[t] = "publish"
    /\ Assign(AfterSuccess)
    /\ Goto(t, "wake")
    /\ InMemory /\ UNCHANGED <<old, calls, failures, answer, completed>>

Restore(t) ==
    /\ pc[t] = "restore"
    /\ Assign(AfterFailure)
    /\ Goto(t, "wakefail")
    /\ InMemory /\ UNCHANGED <<old, calls, failures, answer, completed>>

WakeAll(t) ==
    /\ pc[t] \in {"wake", "wakefail"}
    /\ Wake(Control, Many)
    /\ Answer(t, IF pc[t] = "wake" THEN "OK" ELSE "EFAULT")
    /\ UNCHANGED <<old, calls, failures, completed>>

-----------------------------------------------------------------------------
HostStep(t) == (ResumeNotified(t) \/ SpuriousWakeup(t)) /\ UNCHANGED onceVars
Shutdown == CancelAll /\ UNCHANGED onceVars

Step(t) ==
    \/ LoadControl(t) \/ CasControl(t) \/ Wait(t) \/ Woken(t) \/ Invoke(t)
    \/ Publish(t) \/ Restore(t) \/ WakeAll(t)

OnceInit ==
    /\ FutexInit
    /\ word = [a \in Addrs |-> 0]
    /\ pc = [t \in Threads |-> "idle"]
    /\ old = [t \in Threads |-> 0]
    /\ calls = [t \in Threads |-> MaxCalls]
    /\ failures = MaxFailures
    /\ answer = [t \in Threads |-> "none"]
    /\ completed = 0

Done == \A t \in Threads : pc[t] = "idle" /\ calls[t] = 0

OnceNext ==
    \/ \E t \in Threads : Call(t) \/ Step(t) \/ HostStep(t)
    \/ Shutdown
    \/ Done /\ UNCHANGED vars

OnceSpec == OnceInit /\ [][OnceNext]_vars

(* Host threads are scheduled and the init function returns.               *)
OnceFairness ==
    \A t \in Threads : /\ WF_vars(Step(t))
                       /\ WF_vars(ResumeNotified(t) /\ UNCHANGED onceVars)
FairOnceSpec == OnceSpec /\ OnceFairness

-----------------------------------------------------------------------------
(* The init function never runs in two threads at a time, and it is not    *)
(* run again once it has succeeded.                                        *)
Initialising(t) == pc[t] \in {"invoke", "publish", "restore"}
InitOnce ==
    /\ completed <= 1
    /\ \A t, u \in Threads : Initialising(t) /\ Initialising(u) => t = u
    /\ completed = 1 => \A t \in Threads : pc[t] # "invoke"

(* A failing init function strands nobody (comment at line 290): every     *)
(* call returns.                                                           *)
CallsReturn == \A t \in Threads : pc[t] # "idle" ~> pc[t] = "idle"
=============================================================================
