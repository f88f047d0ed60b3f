---- MODULE GuestDispatch ----
(***************************************************************************)
(* Guest calls, traps and the JNI lock of the guest runtime,               *)
(* src/Runtime/GuestRuntime/agr_guest_runtime.c.                           *)
(*                                                                         *)
(* A host thread enters the guest through call_address, whose loop         *)
(* run_until_return runs ARM code until it reaches STOP_ADDR and serves    *)
(* its traps on the way.  A trap can enter the guest again: a JNI function *)
(* runs DEX code that calls native methods, dlopen and pthread_once call   *)
(* constructors and initialisers.  The frames of these host functions are  *)
(* the stack of a thread here.  Every trap passes dispatch_jni, which      *)
(* holds one spin lock of the process until it knows that the trap is no   *)
(* JNI function, or has run it.  A shutdown raises a flag the loop reads   *)
(* and cancels the waits.                                                  *)
(*                                                                         *)
(* Guest code is any sequence of traps.  Of the registers the model keeps  *)
(* the three a nested call overwrites, each as the level of the activation *)
(* it belongs to: where the processor executes, the stack pointer, and     *)
(* the return address of the trap.  Level 0 is STOP_ADDR.                  *)
(***************************************************************************)
EXTENDS Naturals, Sequences, FiniteSets

CONSTANTS Main,        \* the host thread that owns the runtime
          Workers,     \* guest pthreads, each with a host thread of its own
          MaxDepth,    \* nested guest calls a thread may have (16 in the code)
          HostCalls    \* bound: guest calls one host function makes

ASSUME DispatchAssumption == /\ Main \notin Workers
                             /\ MaxDepth \in Nat \ {0}
                             /\ HostCalls \in Nat \ {0}

VARIABLES stack,       \* the runtime's frames of each thread, outermost first
          pc,          \* what each thread is about to do
          regs,        \* its ARM registers
          depth,       \* callback_depth
          jniDepth,    \* jni_dispatch_depth
          jniLock,     \* jni_lock is set
          shutting,    \* shutting_down
          cancelled    \* agr_runtime_shutdown_workers has cancelled the waits

dispatchVars == <<stack, pc, regs, depth, jniDepth, jniLock, shutting, cancelled>>
calls == <<stack, pc, regs, depth>>
process == <<shutting, cancelled>>

Threads == Workers \cup {Main}
Top(t) == stack[t][Len(stack[t])]
Pop(t) == SubSeq(stack[t], 1, Len(stack[t]) - 1)
At(t, where) == pc[t] = where
Goes(t, where) == pc' = [pc EXCEPT ![t] = where]

\* What a host function is: "entry" calls from the host or runs a thread,
\* "dex" runs an Activity, "jni" and "import" serve a trap.
HostFrame(kind, left) ==
    [kind |-> kind, left |-> left, saved |-> [at |-> 0, sp |-> 0, lr |-> 0]]
\* An activation of guest code; lost once it has been resumed with the
\* registers another activation left.
GuestFrame(level) == [kind |-> "guest", level |-> level, lost |-> FALSE]

DispatchInit ==
    /\ stack = [t \in Threads |-> <<>>]
    /\ pc = [t \in Threads |-> "idle"]
    /\ regs = [t \in Threads |-> [at |-> 0, sp |-> 0, lr |-> 0]]
    /\ depth = [t \in Threads |-> 0]
    /\ jniDepth = [t \in Threads |-> 0]
    /\ jniLock = FALSE
    /\ shutting = FALSE /\ cancelled = FALSE
----
(* The host enters *)

\* A pthread starts: guest_thread_execute calls the start routine and then
\* the destructors of the thread's keys.
StartThread(t) ==
    /\ At(t, "idle") /\ t \in Workers
    /\ stack' = [stack EXCEPT ![t] = <<HostFrame("entry", HostCalls)>>]
    /\ Goes(t, "host")
    /\ UNCHANGED <<regs, depth, jniDepth, jniLock, process>>

\* The owner calls a guest function or starts the Activity in the DEX VM.
EnterMain(t) ==
    /\ At(t, "idle") /\ t = Main /\ ~shutting
    /\ \E f \in {HostFrame("entry", 1), HostFrame("dex", HostCalls)} :
           stack' = [stack EXCEPT ![t] = <<f>>]
    /\ Goes(t, "host")
    /\ UNCHANGED <<regs, depth, jniDepth, jniLock, process>>

\* agr_guest_destroy, which the owner calls outside of guest calls.
Shutdown ==
    /\ At(Main, "idle") /\ ~shutting
    /\ shutting' = TRUE
    /\ UNCHANGED <<calls, jniDepth, jniLock, cancelled>>

CancelWaits ==
    /\ shutting /\ ~cancelled
    /\ cancelled' = TRUE
    /\ UNCHANGED <<calls, jniDepth, jniLock, shutting>>
----
(* call_address *)

\* The linker and the once call save the registers before a nested call.
CallerFrame(t) ==
    [Top(t) EXCEPT !.left = @ - 1,
                   !.saved = IF Top(t).kind = "import" THEN regs[t] ELSE @]

CallGuest(t) ==
    /\ At(t, "host") /\ Top(t).left > 0
    /\ depth[t] < MaxDepth
    /\ LET level == depth[t] + 1
       IN  /\ stack' = [stack EXCEPT ![t] =
                           Pop(t) \o <<CallerFrame(t), GuestFrame(level)>>]
           /\ regs' = [regs EXCEPT ![t] = [at |-> level, sp |-> level, lr |-> 0]]
           /\ depth' = [depth EXCEPT ![t] = level]
    /\ Goes(t, "check")
    /\ UNCHANGED <<jniDepth, jniLock, process>>

CallTooDeep(t) ==
    /\ At(t, "host") /\ Top(t).left > 0
    /\ depth[t] >= MaxDepth
    /\ stack' = [stack EXCEPT ![t] = Append(Pop(t), CallerFrame(t))]
    /\ Goes(t, "fail")
    /\ UNCHANGED <<regs, depth, jniDepth, jniLock, process>>

\* fault: invoke_linker_function does not put the registers back
RegsAfterUnsaved(t, caller) ==
    {[at |-> 0, sp |-> Top(t).level, lr |-> lr] : lr \in {0, Top(t).level}}
\* What the caller finds in the registers: invoke_linker_function puts back
\* what it saved; for the others the stack pointer is the nested one and the
\* return address is STOP_ADDR or lies in the nested activation.
RegsAfter(t, caller) ==
    IF caller.kind = "import" THEN {caller.saved}
    ELSE {[at |-> 0, sp |-> Top(t).level, lr |-> lr] : lr \in {0, Top(t).level}}

\* The nested call is over and its caller sees rc, 0 ("host") or -1 ("fail").
LeaveCall(t, rc) ==
    /\ stack' = [stack EXCEPT ![t] = Pop(t)]
    /\ \E r \in RegsAfter(t, Pop(t)[Len(Pop(t))]) : regs' = [regs EXCEPT ![t] = r]
    /\ depth' = [depth EXCEPT ![t] = @ - 1]
    /\ Goes(t, rc)
    /\ UNCHANGED <<jniDepth, jniLock, process>>
----
(* run_until_return *)

\* fault: the loop does not read shutting_down
MayRunAlways == TRUE
MayRun == ~shutting

Run(t) ==
    /\ At(t, "check") /\ MayRun
    /\ Goes(t, "arm")
    /\ UNCHANGED <<stack, regs, depth, jniDepth, jniLock, process>>

StopRunning(t) ==
    /\ At(t, "check") /\ ~MayRun
    /\ Goes(t, "fail")
    /\ UNCHANGED <<stack, regs, depth, jniDepth, jniLock, process>>

\* A memory fault, an unknown trap, the instruction budget.
GuestFaults(t) ==
    /\ At(t, "arm")
    /\ Goes(t, "fail")
    /\ UNCHANGED <<stack, regs, depth, jniDepth, jniLock, process>>

\* The guest reaches STOP_ADDR.
GuestReturns(t) ==
    /\ At(t, "arm")
    /\ LeaveCall(t, "host")

GuestFails(t) ==
    /\ At(t, "fail") /\ Top(t).kind = "guest"
    /\ LeaveCall(t, "fail")
----
(* dispatch_jni, which every trap goes through *)

\* fault: every level takes the lock
OutermostAlways(t) == TRUE
Outermost(t) == jniDepth[t] = 0

\* A trap leaves its return address in the link register.
Trap(t) ==
    /\ At(t, "arm") /\ regs[t].at # 0
    /\ stack' = [stack EXCEPT ![t] = Append(@, HostFrame("jni", HostCalls))]
    /\ regs' = [regs EXCEPT ![t].lr = regs[t].at]
    /\ jniDepth' = [jniDepth EXCEPT ![t] = @ + 1]
    /\ Goes(t, IF Outermost(t) THEN "spin" ELSE "decode")
    /\ UNCHANGED <<depth, jniLock, process>>

TakeJniLock(t) ==
    /\ At(t, "spin") /\ ~jniLock
    /\ jniLock' = TRUE
    /\ Goes(t, "decode")
    /\ UNCHANGED <<stack, regs, depth, jniDepth, process>>

\* dispatch_jni_impl: a JNI function ...
IsJni(t) ==
    /\ At(t, "decode")
    /\ Goes(t, "host")
    /\ UNCHANGED <<stack, regs, depth, jniDepth, jniLock, process>>

\* fault: a failed JNI function returns past the unlock
LeaveJniLocked(t) ==
    /\ jniDepth' = [jniDepth EXCEPT ![t] = @ - 1]
    /\ jniLock' = (jniLock /\ (jniDepth[t] > 1 \/ At(t, "fail")))
\* fault: every level gives the lock back
LeaveJniEarly(t) ==
    /\ jniDepth' = [jniDepth EXCEPT ![t] = @ - 1]
    /\ jniLock' = FALSE
\* Both ways out of dispatch_jni_impl come through here.
LeaveJni(t) ==
    /\ jniDepth' = [jniDepth EXCEPT ![t] = @ - 1]
    /\ jniLock' = (jniLock /\ jniDepth[t] > 1)

\* ... or none, and dispatch_import has the trap.
IsImport(t) ==
    /\ At(t, "decode")
    /\ stack' = [stack EXCEPT ![t] = Pop(t)]
    /\ LeaveJni(t)
    /\ Goes(t, "import")
    /\ UNCHANGED <<regs, depth, process>>

\* guest_return continues at the address in the link register.
ReturnToGuest(t, lost) ==
    /\ LET below == Pop(t)
       IN  stack' = [stack EXCEPT ![t] =
               [below EXCEPT ![Len(below)].lost = @ \/ lost]]
    /\ regs' = [regs EXCEPT ![t].at = regs[t].lr]
    /\ Goes(t, "check")

JniReturns(t) ==
    /\ At(t, "host") /\ Top(t).kind = "jni"
    /\ ReturnToGuest(t, Top(t).left < HostCalls)
    /\ LeaveJni(t)
    /\ UNCHANGED <<depth, process>>

\* An argument the function refuses: dispatch_jni_impl returns -1.
JniRefuses(t) ==
    /\ At(t, "host") /\ Top(t).kind = "jni"
    /\ Goes(t, "fail")
    /\ UNCHANGED <<stack, regs, depth, jniDepth, jniLock, process>>

JniFails(t) ==
    /\ At(t, "fail") /\ Top(t).kind = "jni"
    /\ stack' = [stack EXCEPT ![t] = Pop(t)]
    /\ LeaveJni(t)
    /\ UNCHANGED <<pc, regs, depth, process>>
----
(* dispatch_import *)

\* A service that ends at once.
CallService(t) ==
    /\ At(t, "import")
    /\ Goes(t, "check")
    /\ UNCHANGED <<stack, regs, depth, jniDepth, jniLock, process>>

\* pthread_exit ends this loop as a return does, and no other.
GuestExits(t) ==
    /\ At(t, "import")
    /\ LeaveCall(t, "host")

\* An import nobody knows, abort, an EGL call outside the owner.
ImportFails(t) ==
    /\ At(t, "import")
    /\ Goes(t, "fail")
    /\ UNCHANGED <<stack, regs, depth, jniDepth, jniLock, process>>

\* A service that waits for another thread: a futex, a condition, a join.
CallWait(t) ==
    /\ At(t, "import") /\ ~cancelled
    /\ Goes(t, "wait")
    /\ UNCHANGED <<stack, regs, depth, jniDepth, jniLock, process>>

\* It ends when a running thread wakes it or the waits are cancelled.
Woken(t) ==
    /\ At(t, "wait")
    /\ cancelled \/ \E u \in Threads \ {t} : At(u, "import")
    /\ Goes(t, "check")
    /\ UNCHANGED <<stack, regs, depth, jniDepth, jniLock, process>>

\* dlopen, dlclose and pthread_once: they call the guest.
CallImport(t) ==
    /\ At(t, "import")
    /\ stack' = [stack EXCEPT ![t] = Append(@, HostFrame("import", HostCalls))]
    /\ Goes(t, "host")
    /\ UNCHANGED <<regs, depth, jniDepth, jniLock, process>>

\* A constructor or initialiser that failed: the service reports it.
ImportSeesFailure(t) ==
    /\ At(t, "fail") /\ Top(t).kind = "import"
    /\ Goes(t, "host")
    /\ UNCHANGED <<stack, regs, depth, jniDepth, jniLock, process>>

ImportReturns(t) ==
    /\ At(t, "host") /\ Top(t).kind = "import"
    /\ ReturnToGuest(t, FALSE)
    /\ UNCHANGED <<depth, jniDepth, jniLock, process>>
----
(* The host leaves *)

Called(t) == Top(t).left < HostCalls

\* A thread whose start routine failed still runs its destructors; one that
\* fails is the last.
ThreadSeesFailure(t) ==
    /\ At(t, "fail") /\ Top(t).kind = "entry" /\ t \in Workers
    /\ stack' = [stack EXCEPT ![t] =
           Append(Pop(t), IF Top(t).left = HostCalls - 1 THEN Top(t)
                          ELSE [Top(t) EXCEPT !.left = 0])]
    /\ Goes(t, "host")
    /\ UNCHANGED <<regs, depth, jniDepth, jniLock, process>>

Leave(t) ==
    /\ Len(stack[t]) = 1
    /\ \/ At(t, "host") /\ (t = Main \/ Called(t))
       \/ At(t, "fail") /\ t = Main
    /\ stack' = [stack EXCEPT ![t] = <<>>]
    /\ Goes(t, IF t = Main THEN "idle" ELSE "done")
    /\ regs' = [regs EXCEPT ![t] = [at |-> 0, sp |-> 0, lr |-> 0]]
    /\ UNCHANGED <<depth, jniDepth, jniLock, process>>

Step(t) ==
    \/ StartThread(t) \/ CallGuest(t) \/ CallTooDeep(t)
    \/ Run(t) \/ StopRunning(t) \/ GuestFaults(t) \/ GuestReturns(t)
    \/ GuestFails(t) \/ Trap(t) \/ TakeJniLock(t) \/ IsJni(t) \/ IsImport(t)
    \/ JniReturns(t) \/ JniRefuses(t) \/ JniFails(t)
    \/ CallService(t) \/ GuestExits(t) \/ ImportFails(t) \/ CallWait(t)
    \/ Woken(t) \/ CallImport(t) \/ ImportSeesFailure(t) \/ ImportReturns(t)
    \/ ThreadSeesFailure(t) \/ Leave(t)

DispatchNext ==
    \/ \E t \in Threads : Step(t) \/ EnterMain(t)
    \/ Shutdown \/ CancelWaits

\* Every host thread runs; the owner need not call the guest or shut down.
DispatchFairness ==
    /\ \A t \in Threads : WF_dispatchVars(Step(t))
    /\ WF_dispatchVars(CancelWaits)

DispatchSpec == DispatchInit /\ [][DispatchNext]_dispatchVars /\ DispatchFairness
----
(* Properties *)

FramesOf(t, kind) == {i \in 1..Len(stack[t]) : stack[t][i].kind = kind}
InJni(t) == FramesOf(t, "jni") # {} /\ ~At(t, "spin")

\* The JNI lock is set exactly while one thread is inside a JNI function, on
\* every path out of it, failed ones included, and through every nested guest
\* call; the two counters of a thread count its frames.  agr_guest_runtime.c
\* 613-622 and 1188-1202.
DispatchExact ==
    /\ Cardinality({t \in Threads : InJni(t)}) = IF jniLock THEN 1 ELSE 0
    /\ \A t \in Threads :
           /\ jniDepth[t] = Cardinality(FramesOf(t, "jni"))
           /\ depth[t] = Cardinality(FramesOf(t, "guest"))

\* A guest activation that is resumed executes its own code on its own stack,
\* whatever constructors and initialisers ran in between, on however many
\* levels; only native methods called from DEX are left out, see the README.
\* agr_guest_runtime.c 1048-1059.
ImportsResumeCaller ==
    \A t \in Threads :
        pc[t] \in {"check", "arm"} /\ ~Top(t).lost =>
            regs[t].at = Top(t).level /\ regs[t].sp = Top(t).level

\* A shutdown gets every thread out of the guest: the ones that loop, the ones
\* that spin for the JNI lock, the ones that wait, alone or with that lock.
\* agr_guest_runtime.c 1015 and 1107, which the join of the workers relies on.
ShutdownDrains ==
    shutting ~> \A t \in Threads : pc[t] \in {"idle", "done"}
====
