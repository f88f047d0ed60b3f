--------------------------- MODULE ThreadLifecycle ---------------------------
(***************************************************************************)
(* Guest threads from pthread_create to their end:                         *)
(* Runtime/Bionic/agr_bionic_thread_lifecycle.cpp, with the worker body    *)
(* guest_thread_execute of Runtime/GuestRuntime/agr_guest_runtime.c and    *)
(* the host threads of Runtime/HostServices/agr_host_services_darwin.c.    *)
(*                                                                         *)
(* A thread is named by its pthread handle; the process entry thread is    *)
(* Main.  One critical section of the lifecycle mutex is one action; the   *)
(* places where the code sleeps (join, shutdown) or lets the mutex go      *)
(* around a host join end an action.  Contexts are heap blocks: a block    *)
(* freed by one thread may be handed to the next.                          *)
(*                                                                         *)
(* A notification wakes the threads asleep when it comes and is gone: the  *)
(* condition variable of a record (exited) carries its joiner, that of the *)
(* lifecycle (changed) the shutdown.  Any sleep may end spuriously.        *)
(***************************************************************************)
EXTENDS Naturals, FiniteSets

CONSTANTS LastHandle,       \* bound: handles ever given out are 1 .. LastHandle
          Blocks,           \* heap blocks a thread context can live in
          NoBlock,
          MaxHostFailures   \* bound: host thread calls that fail

ASSUME LifecycleAssumption ==
    /\ LastHandle \in Nat \ {0}
    /\ Blocks # {} /\ NoBlock \notin Blocks
    /\ MaxHostFailures \in Nat

Main == 1
Threads == 1 .. LastHandle

VARIABLES rec,      \* the records map: handle -> record
          next,     \* next_handle
          closing,
          pc, target,
          asleep,   \* threads that wait for a notification
          context,  \* the context block a live guest thread is bound to
          host,     \* what became of each host thread handle
          misused,  \* a host handle was joined or detached after its end
          unjoined, \* handles whose join the host refused the shutdown
          answer,   \* what a thread's last call returned
          failures

vars == <<rec, next, closing, pc, target, asleep, context, host, misused, unjoined, answer,
          failures>>

Live == DOMAIN rec
Record(detached, block) ==
    [detached |-> detached, joined |-> FALSE, zombie |-> FALSE,
     hasHost |-> ~detached, block |-> block]

Drop(h) == rec' = [x \in Live \ {h} |-> rec[x]]
Forget(h) == IF h \in Live THEN Drop(h) ELSE UNCHANGED rec
Set(h, r) == rec' = [rec EXCEPT ![h] = r]
Answer(t, r) == answer' = [answer EXCEPT ![t] = r]
Goto(t, l) == pc' = [pc EXCEPT ![t] = l]

\* who is asleep on a record's condition variable, and on the lifecycle's
OnExited(h) == {t \in asleep : pc[t] = "joinwait" /\ target[t] = h}
OnChanged == {t \in asleep : pc[t] = "shutdown"}
Notify(sleepers) == asleep' = asleep \ sleepers

\* a host join or detach consumes the handle
Consume(h, how) ==
    /\ host' = [host EXCEPT ![h] = how]
    /\ misused' = (misused \/ host[h] # "live")

FreeBlocks == Blocks \ {context[t] : t \in Threads}
InGuest(t) == pc[t] = "guest"

-----------------------------------------------------------------------------
(* pthread_create: the record is published and the host thread started     *)
(* under the mutex.  A detached thread's handle is given up at once; when  *)
(* the host refuses that, the call fails although the thread runs.         *)
CreateRefused(t) ==
    /\ InGuest(t) /\ closing
    /\ Answer(t, "EAGAIN")
    /\ UNCHANGED <<rec, next, closing, pc, target, asleep, context, host, misused, unjoined, failures>>

CreateOk(t, detached) ==
    /\ rec' = [x \in Live \cup {next} |->
                 IF x = next THEN Record(detached, NoBlock) ELSE rec[x]]
    /\ pc' = [pc EXCEPT ![next] = "starting"]
    /\ host' = [host EXCEPT ![next] = IF detached THEN "detached" ELSE "live"]
    /\ Answer(t, "OK")
    /\ UNCHANGED failures

CreateHostFails(t) ==
    /\ failures > 0 /\ failures' = failures - 1
    /\ Answer(t, "EAGAIN")
    /\ UNCHANGED <<rec, pc, host>>

CreateDetachFails(t) ==
    /\ failures > 0 /\ failures' = failures - 1
    /\ rec' = [x \in Live \cup {next} |->
                 IF x = next THEN Record(FALSE, NoBlock) ELSE rec[x]]
    /\ pc' = [pc EXCEPT ![next] = "starting"]
    /\ host' = [host EXCEPT ![next] = "live"]
    /\ Answer(t, "EINVAL")

Create(t) ==
    /\ InGuest(t) /\ ~closing
    /\ next <= LastHandle
    /\ next' = next + 1
    /\ \/ \E detached \in BOOLEAN : CreateOk(t, detached)
       \/ CreateHostFails(t)
       \/ CreateDetachFails(t)
    /\ UNCHANGED <<closing, target, asleep, context, misused, unjoined>>

-----------------------------------------------------------------------------
(* The worker: it gets a context block, is bound to its record, runs guest *)
(* code, gives the block back and only then reports its end.               *)
Bind(t) ==
    /\ pc[t] = "starting"
    /\ \E b \in FreeBlocks :
         /\ context' = [context EXCEPT ![t] = b]
         /\ rec' = [rec EXCEPT ![t].block = b]
    /\ Goto(t, "guest")
    /\ UNCHANGED <<next, closing, target, asleep, host, misused, unjoined, answer, failures>>

\* no context, no stack or no record: the thread ends without guest code
BindFails(t) ==
    /\ pc[t] = "starting"
    /\ failures > 0 /\ failures' = failures - 1
    /\ Goto(t, "exiting")
    /\ UNCHANGED <<rec, next, closing, target, asleep, context, host, misused, unjoined, answer>>

GuestReturns(t) ==
    /\ InGuest(t) /\ t # Main
    /\ context' = [context EXCEPT ![t] = NoBlock]
    /\ Goto(t, "exiting")
    /\ UNCHANGED <<rec, next, closing, target, asleep, host, misused, unjoined, answer, failures>>

\* fault: the end of a detached thread is not announced
AnnouncedAttached(t) == IF rec[t].detached THEN {} ELSE OnExited(t) \cup OnChanged
Announced(t) == OnExited(t) \cup OnChanged

(* thread_entry after the guest code: publish the zombie, or drop the      *)
(* record of a detached thread.                                            *)
Exit(t) ==
    /\ pc[t] = "exiting"
    /\ IF t \notin Live THEN UNCHANGED <<rec, asleep>>
       ELSE /\ IF rec[t].detached THEN Drop(t)
               ELSE Set(t, [rec[t] EXCEPT !.zombie = TRUE])
            /\ Notify(Announced(t))
    /\ Goto(t, "over")
    /\ UNCHANGED <<next, closing, target, context, host, misused, unjoined, answer, failures>>

-----------------------------------------------------------------------------
\* "is it myself" is decided by the context block, not by the handle
IsSelf(t, h) == rec[h].block # NoBlock /\ rec[h].block = context[t]

JoinRefusal(t, h) ==
    IF h \notin Live           THEN "ESRCH"
    ELSE IF closing            THEN "ECANCELED"
    ELSE IF IsSelf(t, h)       THEN "EDEADLK"
    ELSE IF rec[h].detached    THEN "EINVAL"
    ELSE IF rec[h].joined      THEN "EINVAL"
    ELSE "none"

Join(t, h) ==
    /\ InGuest(t)
    /\ IF JoinRefusal(t, h) # "none"
       THEN Answer(t, JoinRefusal(t, h)) /\ UNCHANGED <<rec, pc, target, asleep>>
       ELSE /\ Set(h, [rec[h] EXCEPT !.joined = TRUE])
            /\ Goto(t, IF rec[h].zombie THEN "hostjoin" ELSE "joinwait")
            /\ asleep' = IF rec[h].zombie THEN asleep ELSE asleep \cup {t}
            /\ target' = [target EXCEPT ![t] = h]
            /\ UNCHANGED answer
    /\ UNCHANGED <<next, closing, context, host, misused, unjoined, failures>>

(* What the joiner's iterator reads; a record that is gone is freed memory, *)
(* here one that still says zombie (JoinerHasRecord: it never is gone).     *)
Found(h) == IF h \in Live THEN rec[h] ELSE [Record(FALSE, NoBlock) EXCEPT !.zombie = TRUE]
Unclaimed(r) == [r EXCEPT !.joined = FALSE]

(* The joiner goes on for the zombie or for the shutdown, and the shutdown *)
(* wins; woken for neither, it sleeps again.                               *)
JoinWakes(t) ==
    LET h == target[t] IN
    /\ pc[t] = "joinwait" /\ t \notin asleep
    /\ \/ /\ closing
          /\ IF h \in Live THEN Set(h, Unclaimed(rec[h])) ELSE UNCHANGED rec
          /\ Goto(t, "guest") /\ Answer(t, "ECANCELED")
          /\ Notify(OnChanged)
       \/ /\ ~closing /\ Found(h).zombie
          /\ Goto(t, "hostjoin")
          /\ UNCHANGED <<rec, asleep, answer>>
       \/ /\ ~closing /\ ~Found(h).zombie
          /\ asleep' = asleep \cup {t}
          /\ UNCHANGED <<rec, pc, answer>>
    /\ UNCHANGED <<next, closing, target, context, host, misused, unjoined, failures>>

(* The host join, with the mutex released, and the bookkeeping after it.   *)
HostJoin(t) ==
    LET h == target[t] IN
    /\ pc[t] = "hostjoin"
    /\ pc[h] = "over"
    /\ \/ /\ Consume(h, "joined")
          /\ Forget(h)
          /\ Answer(t, "OK")
          /\ UNCHANGED failures
       \/ /\ failures > 0 /\ failures' = failures - 1
          /\ IF h \in Live THEN Set(h, Unclaimed(rec[h]))
             ELSE UNCHANGED rec
          /\ Answer(t, "EINVAL")
          /\ UNCHANGED <<host, misused>>
    /\ Goto(t, "guest")
    /\ Notify(OnChanged)
    /\ UNCHANGED <<next, closing, target, context, unjoined>>

\* fault: a thread that is being joined is detached all the same
DetachRefusalOwned(h) ==
    IF h \notin Live           THEN "ESRCH"
    ELSE IF closing            THEN "ECANCELED"
    ELSE IF rec[h].detached    THEN "EINVAL"
    ELSE "none"
DetachRefusal(h) ==
    IF h \notin Live           THEN "ESRCH"
    ELSE IF closing            THEN "ECANCELED"
    ELSE IF rec[h].detached    THEN "EINVAL"
    ELSE IF rec[h].joined      THEN "OK"       \* the joiner stays the owner
    ELSE "none"

Detach(t, h) ==
    /\ InGuest(t)
    /\ \/ /\ DetachRefusal(h) # "none"
          /\ Answer(t, DetachRefusal(h))
          /\ UNCHANGED <<rec, host, misused, failures>>
       \/ /\ DetachRefusal(h) = "none"
          /\ Consume(h, "detached")
          /\ IF rec[h].zombie THEN Drop(h)
             ELSE Set(h, [rec[h] EXCEPT !.detached = TRUE, !.hasHost = FALSE])
          /\ Answer(t, "OK")
          /\ UNCHANGED failures
       \/ /\ DetachRefusal(h) = "none"
          /\ failures > 0 /\ failures' = failures - 1
          /\ Answer(t, "EINVAL")
          /\ UNCHANGED <<rec, host, misused>>
    /\ UNCHANGED <<next, closing, pc, target, asleep, context, unjoined>>

-----------------------------------------------------------------------------
(* Teardown, on the entry thread: join every record that is a zombie       *)
(* nobody is joining, and sleep when the record met first is not one.  The *)
(* order of the hash map is left open.                                     *)
\* fault: detached threads are not waited for
WorkersAttached == {h \in Live \ {Main} : ~rec[h].detached}
Workers == Live \ {Main}

ShutdownBegins ==
    /\ InGuest(Main) /\ ~closing
    /\ closing' = TRUE
    /\ Goto(Main, "shutdown")
    /\ Notify(UNION {OnExited(h) : h \in Live})
    /\ UNCHANGED <<rec, next, target, context, host, misused, unjoined, answer, failures>>

\* fault: a zombie somebody is joining is reaped as well
ReapAnyZombie(h) == rec[h].zombie
Reapable(h) == rec[h].zombie /\ ~rec[h].joined

Looking == pc[Main] = "shutdown" /\ Main \notin asleep

ShutdownWaits ==
    /\ Looking
    /\ \E h \in Workers : ~Reapable(h)
    /\ asleep' = asleep \cup {Main}
    /\ UNCHANGED <<rec, next, closing, pc, target, context, host, misused, unjoined, answer, failures>>

ShutdownPicks ==
    /\ Looking
    /\ \E h \in Workers :
         /\ Reapable(h)
         /\ target' = [target EXCEPT ![Main] = h]
         /\ Goto(Main, IF rec[h].hasHost THEN "reap" ELSE "erase")
    /\ UNCHANGED <<rec, next, closing, asleep, context, host, misused, unjoined, answer, failures>>

(* The host join with the mutex released.  Whether the host refuses it is  *)
(* not looked at: the record goes either way.                              *)
ShutdownReaps ==
    /\ pc[Main] = "reap"
    /\ pc[target[Main]] = "over"
    /\ \/ /\ Consume(target[Main], "joined")
          /\ UNCHANGED <<unjoined, failures>>
       \/ /\ failures > 0 /\ failures' = failures - 1
          /\ unjoined' = unjoined \cup {target[Main]}
          /\ UNCHANGED <<host, misused>>
    /\ Goto(Main, "erase")
    /\ UNCHANGED <<rec, next, closing, target, asleep, context, answer>>

ShutdownErases ==
    /\ pc[Main] = "erase"
    /\ Forget(target[Main])
    /\ Goto(Main, "shutdown")
    /\ UNCHANGED <<next, closing, target, asleep, context, host, misused, unjoined, answer, failures>>

ShutdownEnds ==
    /\ Looking
    /\ Workers = {}
    /\ Goto(Main, "done")
    /\ UNCHANGED <<rec, next, closing, target, asleep, context, host, misused, unjoined, answer,
                   failures>>

SpuriousWakeup(t) ==
    /\ t \in asleep
    /\ Notify({t})
    /\ UNCHANGED <<rec, next, closing, pc, target, context, host, misused, unjoined, answer, failures>>

-----------------------------------------------------------------------------
(* The entry thread is registered before any other; its context is in one  *)
(* of the blocks, which are all alike.                                     *)
FirstBlock == CHOOSE b \in Blocks : TRUE

Init ==
    /\ rec = [h \in {Main} |-> [Record(TRUE, FirstBlock) EXCEPT !.hasHost = FALSE]]
    /\ context = [t \in Threads |-> IF t = Main THEN FirstBlock ELSE NoBlock]
    /\ next = 2
    /\ closing = FALSE
    /\ pc = [t \in Threads |-> IF t = Main THEN "guest" ELSE "none"]
    /\ target = [t \in Threads |-> Main]
    /\ asleep = {} /\ unjoined = {}
    /\ host = [t \in Threads |-> "none"]
    /\ misused = FALSE
    /\ answer = [t \in Threads |-> "OK"]
    /\ failures = MaxHostFailures

Teardown == ShutdownWaits \/ ShutdownPicks \/ ShutdownReaps \/ ShutdownErases \/ ShutdownEnds

Next ==
    \/ \E t \in Threads : \/ CreateRefused(t) \/ Create(t)
                          \/ Bind(t) \/ BindFails(t) \/ GuestReturns(t) \/ Exit(t)
                          \/ JoinWakes(t) \/ HostJoin(t) \/ SpuriousWakeup(t)
                          \/ \E h \in Threads : Join(t, h) \/ Detach(t, h)
    \/ ShutdownBegins \/ Teardown
    \/ pc[Main] = "done" /\ UNCHANGED vars

Spec == Init /\ [][Next]_vars

(* Host threads run, and after cancel_all and the shutdown flag a guest    *)
(* thread leaves its code in finite time (agr_guest_runtime.c:1013-1018).  *)
Fairness ==
    /\ \A t \in Threads : /\ WF_vars(Bind(t)) /\ WF_vars(Exit(t))
                          /\ WF_vars(JoinWakes(t)) /\ WF_vars(HostJoin(t))
                          /\ WF_vars(closing /\ GuestReturns(t))
    /\ WF_vars(Teardown)
FairSpec == Spec /\ Fairness

-----------------------------------------------------------------------------
(* Every host thread handle is given back once, whichever of a joiner, a   *)
(* detacher, the creator and the shutdown gets there first; the record     *)
(* knows whether it still owns it.                                         *)
HostHandleOnce ==
    /\ ~misused
    /\ \A h \in Live : rec[h].hasHost /\ pc[Main] # "erase" => host[h] = "live"

(* A record outlives everybody who waits on it: the joiner sleeps on a     *)
(* condition variable inside the record (lines 204, 205).                  *)
JoinerHasRecord ==
    \A t \in Threads : pc[t] \in {"joinwait", "hostjoin"} =>
        /\ target[t] \in Live
        /\ rec[target[t]].joined
        /\ \A u \in Threads : pc[u] \in {"joinwait", "hostjoin"} /\ target[u] = target[t]
             => u = t

(* When the shutdown is over no worker is left that could still touch the  *)
(* lifecycle, and the host threads nobody joined or detached are exactly   *)
(* those whose join the host refused the shutdown itself (line 136, whose  *)
(* result is dropped): those that a joiner, a detacher or the creator was  *)
(* refused before are not among them unless it is refused again.           *)
ShutdownComplete ==
    pc[Main] = "done" =>
        /\ \A t \in Threads \ {Main} : pc[t] \in {"none", "over"}
        /\ {t \in Threads \ {Main} : host[t] = "live"} = unjoined

(* A shutdown that has begun ends, with threads still running, joining     *)
(* each other or detached when it began.                                   *)
ShutdownTerminates == closing ~> pc[Main] = "done"

(* pthread_self finds the caller: no record but its own carries the        *)
(* context block the calling thread is bound to.                           *)
SelfIsUnique ==
    \A t \in Threads : InGuest(t) =>
        \A h \in Live : rec[h].block = context[t] => h = t
=============================================================================
