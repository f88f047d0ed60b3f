# Verification of AGR, the early Android game runtime

AGR runs the native and DEX code of an Android 4.4 game inside one host
process. This directory holds TLA+ models of the parts of AGR where order,
concurrency, limits and partial failure decide whether the program is correct,
TLC configurations that check them on small instances, and TLAPS proofs of the
facts that hold for every instance.

Paths are relative to the repository. PROJECT.json names, for every definition
that models code, the file and lines it stands for (`map`), every place that is
hard to test (`hazards`), and what each run and theorem establishes.

To repeat the checks, in this directory:

    tlc -config MCMutex.cfg MCBionicMutex      # one run; the others alike
    tlapm BionicMutexProofs.tla                # the proofs
    tlapm BionicCondProofs.tla
    tlapm BionicOnceProofs.tla
    tlapm ThreadLifecycleProofs.tla
    tlapm ProcessProofs.tla
    tlapm AospDynamicProofs.tla
    tlapm DexProofs.tla
    tlapm GuestDispatchProofs.tla

## 1. The system

AGR models one Android process (docs/ARCHITECTURE.md:15-23). One guest pthread
is one Darwin pthread; guest ARM code is interpreted; everything a game calls
is a trap that ends either in a source port of an Android component or in a
bridge to the host. There is no global lock and no scheduler of AGR's own, so
the components below are used by many threads at once.

### Components

| Component | State | Operations | Used by |
|---|---|---|---|
| Futex host, `Runtime/Bionic/agr_futex_host.cpp` | a queue per guest address: waiters, pending tokens; cancelled | wait, wake, cancel_all | mutex, condition, once; teardown |
| Synchronisation, `Runtime/Bionic/agr_bionic_sync.cpp` | words in guest memory | mutex lock, trylock, unlock; cond wait, signal, broadcast; once | guest code |
| Thread lifecycle, `Runtime/Bionic/agr_bionic_thread_lifecycle.cpp` | a record by pthread handle, closing | create, join, detach, self, bind, shutdown | guest code, teardown |
| Thread-specific data, `Runtime/Bionic/agr_bionic_tls.cpp` | key map, slots on the threads' stacks, registrations | key create and delete, set, get, cleanup | guest code, thread start and end |
| Dynamic linker, `Runtime/AospLinker/agr_aosp_dynamic.cpp` | list of libraries, references, constructor flags | dlopen, load, dlclose, dlsym | guest code, the application |
| Address space, `Runtime/Process/agr_guest_vma.c` and `Runtime/Bionic/agr_bionic_mmap.cpp` | sorted array of regions; page permissions of the interpreter | mmap, mprotect, munmap | linker, heap, thread start, guest code |
| Guest calls and dispatch, `Runtime/GuestRuntime/agr_guest_runtime.c` | a context per thread (registers, callback and JNI depth), JNI lock, shutdown flag | call_address, traps, JNI functions, destroy | the application, every guest thread |
| Input, looper, pipes, same file | ring of 32 events, 8 pipes, 16 watched fds, the attached identity | inject, poll, get, finish, attach, pipe read and write | UI, glue thread, game thread |
| EGL owner, same file | owner thread id, display, surface, context, last frame | EGL and GL traps, thread end, snapshot | game thread, UI |
| Heap, `Runtime/Bionic/agr_bionic_allocator.cpp` | dlmalloc state in guest memory, one lock | malloc family, growth of the heap range | guest code, AGR |
| Native runtime, `Runtime/NativeCore/agr_runtime.c` | C library services, guards, atexit, static arena | import services, attach and detach, load | dispatch |
| DEX heap, `Runtime/DexLoom/VM/dx_vm.c` | object array with mark and generation bits, string table, roots in frames, statics and the process | allocate, minor and major collection, intern, the bytecodes that move references | JNI, the framework, guest bytecode |
| Activity launch, `Runtime/DexLoom/game_dex_runner.c` | the objects of one Activity, in C pointers and in fields | create game, start Activity, its methods, destroy | the application |
| ViewRoot and window session, `Runtime/DexLoom/AndroidMini/framework_viewroot.c` | the attach state: root, session, attach information, surface, traversal flags | addView, addToDisplay, traversal, surface acquisition and release | launch, the Activity's methods |
| Classes, exceptions and framework methods of the VM, `Runtime/DexLoom` | class table, frames | load, invoke, natives | JNI, launch |
| EHABI, JNI tables, fds, errno, attributes, asset and bitmap adapters, interpreter | small or sequential | | |

### Interaction

A host thread enters the guest in `call_address`. The loop `run_until_return`
runs ARM code and serves traps. Every trap goes through `dispatch_jni` and its
lock; what is no JNI function goes to `dispatch_import`. From there:

- locks, conditions and once work on guest words with single memory accesses
  and sleep in the futex host;
- `pthread_create` makes a lifecycle record and a Darwin thread, which maps a
  stack (address space), binds its context, attaches (thread-specific data),
  calls the guest, runs key destructors, detaches and unmaps the stack;
- `dlopen` maps segments through mmap and calls constructors, that is, enters
  the guest again from inside a trap; so do once, key destructors, and JNI
  functions that run DEX code with native methods;
- teardown raises `shutting_down`, cancels the futex waits and joins the
  workers before it frees anything.

### What is hard here

1. Interleavings of single accesses: the mutex and condition ports decide with
   one exchange or compare-and-swap whether somebody sleeps.
2. Tokens: a wake publishes tokens on a queue, and timeouts, cancellation and
   late arrivals compete for them.
3. Reentrancy: constructors, finalizers, destructors, initialisers and DEX
   callbacks are guest code that calls the component that is calling them.
4. Reuse: heap blocks of contexts, stacks, keys, library names come back.
5. Failure in the middle: host calls, allocations and guest callbacks fail
   between two changes that belong together.
6. Teardown meeting all of these.

### What makes each component correct

- Futex host: counters are exact; no token without a thread that can take it;
  each token taken once; cancel_all releases everyone.
- Mutex: one holder; the word names it; nobody sleeps without somebody left to
  wake it; every call returns when holders give the mutex back.
- Condition: no pulse is slept through; a timed wait leaves the futex, says why
  and ends when it gets its mutex.
- Once: never overlapping, never again after success, no caller stranded.
- Lifecycle: a host handle is given back exactly once; nobody erases a record a
  joiner holds; shutdown ends and leaves nothing but what the host refused it.
- Thread-specific data: a thread reads only what it set in this life of the
  key; a finished cleanup has destroyed everything.
- Linker: references equal holders; constructors and finalizers keep dependency
  order; no pointer outlives its library.
- Address space: it behaves like the page table mmap promises; what the
  interpreter enforces is what the regions say.
- Dispatch: lock and depths survive every way out; an interrupted function
  resumes as it was; shutdown gets everyone out.
- Input: touches reach the handler once and in order; a command that was
  written arrives, once and in order, and is carried out (the first fails when a
  read and a write of the pipe overlap, the second while touches never stop).
- DEX heap: what is reachable is never lost or changed, nothing refers to a
  freed object, an allocation is refused only when the heap is full of
  reachable objects.
- Launch and ViewRoot: what C code keeps an address of stays allocated; a
  surface that is visible and valid is drawn; a window is added once.
- Not stated, because nothing here models it: one thread owns EGL; a range of
  addresses has one owner.

## 2. Modules

Each definition keeps the name of the function it models where it can. Fault
operators (`\* fault:`) are mutated forms of the definition after them and are
not used by the models.

| Module | Models | State and actions |
|---|---|---|
| `FutexHost` | agr_futex_host.cpp | `waiters`, `pending`, `queues` by address, and for each thread where in `wait` it is. One critical section of the host mutex is one action: Wait and its early returns, ResumeNotified, ResumeExpired, Expire, spurious release, Wake, CancelAll. Counters wrap at `Modulus`. |
| `AbstractLock` | what a pthread mutex promises | owner and depth; take, give back |
| `BionicMutex` (extends `FutexHost`) | mutex lock, trylock, unlock | the word as a record of its fields; one guest memory access or futex call is one action |
| `BionicCond` (extends `FutexHost`) | cond wait, signal, broadcast | sequence word; read, unlock, sleep, relock are four actions; the mutex is that of `AbstractLock` |
| `BionicOnce` (extends `FutexHost`) | agr_bionic_once | control word, the callback as two actions that may fail |
| `ThreadLifecycle` | agr_bionic_thread_lifecycle.cpp and the worker body | records by handle; critical sections are actions, sleeps and the host join split them; a notification wakes who is asleep when it comes; heap blocks of contexts are reused |
| `BionicTls` | agr_bionic_tls.cpp with attach and detach | keys, slots on stacks, registrations; the lock is let go around every destructor |
| `AospDynamic` | agr_aosp_dynamic.cpp | list, records, references, and the C++ call stack as a sequence of frames, because guest code reenters it |
| `AddressSpace` | what mmap, mprotect and munmap promise | protection of every page |
| `GuestMemory` | agr_guest_vma.c, agr_bionic_mmap.cpp | region set, array capacity, page permissions; refines `AddressSpace` |
| `GuestDispatch` | call_address, run_until_return, dispatch_jni and their callers | the runtime's frames of each thread, registers that a nested call overwrites, depths, JNI lock, shutdown |
| `GuestInput` | event ring, ALooper poll order, one command pipe of the same file | the ring's slots, head and count; the pipe's data, offset and size; a locked section is one action, the unlocked read and write of the pipe are their accesses |
| `AbstractHeap` | what a tracing collector promises | live objects, places, fields; collect, allocate, assign, store |
| `DexHeap` | dx_vm.c allocation and both collectors, the moves of references of dx_interpreter.c | objects with mark, generation and weak bits, counters of the triggers, string table; refines `AbstractHeap` |
| `ActivityLaunch` | game_dex_runner.c start_activity, framework_viewroot.c | one role for each framework object, fields as pairs, what C structures point to, the traversal flags |
| `BionicMutexProofs` (futex host and mutex), `BionicCondProofs`, `BionicOnceProofs`, `ThreadLifecycleProofs`, `ProcessProofs` (address space and thread-specific data), `AospDynamicProofs`, `DexProofs` (DEX heap and launch), `GuestDispatchProofs` (dispatch and input) | | theorems and proofs |
| `MC*` | | values of the constants for TLC; `MCBionicOnce`, `MCProcess`, `MCGuest` and `MCDex` explore parts that share no state side by side: the initial state chooses the `part` that moves |

Composition: mutex, condition and once EXTEND the futex host and run its
actions; the condition uses the abstract mutex that `BionicMutex` is shown to
implement. `GuestDispatch` takes waits as steps that another running thread or
the cancellation ends, which is what `FutexHost` and `ThreadLifecycle` show of
them. `ThreadLifecycle` and `BionicTls` take the end of a guest function as a
step, which `GuestDispatch` shows to happen after a shutdown.

Notes on particular models:

- Thread ids: the mutex word keeps 16 bits of an id that is never reused
  (agr_bionic_sync.cpp:66). The model takes distinct ids; two live threads
  65536 creations apart have one identity for a mutex, and then a recursive or
  error-checking mutex lets both in.
- `AospDynamic` runs one caller at a time. The port has no lock where the
  reference has one (agr_aosp_dynamic.cpp:237); two threads in it are a data
  race, of which the model says nothing. Guest constructors open and close
  libraries in any order; finalizers only close. One that opens its own library
  again would get a handle to an object that is deleted when it returns
  (agr_aosp_dynamic.cpp:247), as in the reference linker.
- `GuestMemory`: calls with arguments that are rejected change nothing and are
  not steps. Writing the bytes of a mapping and publishing a protection cannot
  fail for a range the array has accepted. NOREPLACE has no caller. A refused
  unmap or protect gives up the pages whose region went: `GiveUp` of
  `AddressSpace` says exactly which.
- `GuestDispatch`: guest code is any sequence of traps, faults and returns.
  Native methods called from DEX do not put the stack pointer and return
  address of the JNI caller back (dex_native_bridge, 484-486); the model
  marks activations resumed after one (`lost`) and ImportsResumeCaller speaks
  of the others. A thread that waits with the JNI lock stops every other
  thread at its next trap: the model reaches those states, so its run does not
  count a stop as an error. Restrictions: the instruction budget ends guest
  code without traps; DEX code that calls no native method ends.
- `GuestInput`: the guest's side, the loop of native_app_glue, is external: one
  thread polls, another writes commands and waits for some of them. A read
  and a write of the pipe may overlap, as in the code, and `met` remembers that
  they have: from then on a command can be lost (MCCommands shows one, of
  CommandsNotLost) and their C accesses race, so that nothing is claimed of the
  order of commands. CommandsDelivered says that nothing else loses one.
  Touches come for ever; their handles are counted modulo `Handles`.
- `AbstractHeap` says what is reachable as the least set that holds the roots
  and is closed under fields, which needs no recursion and can be proved about.
- `DexHeap` has one bytecode thread: nothing in the code orders two
  (agr_guest_runtime.c:1351). Objects that only a C local of a native method
  holds are not in it. `Kinds` is `{"plain"}` in MCDex: with weak references
  NoDangling fails, because the minor collector never clears the referents it
  frees (dx_vm.c:6098); the theorems say the same of their hypotheses.
  An allocation that finds no room leaves an error (new-instance) or null
  (new-array, const-string), after the collections it tried first.
- `ActivityLaunch`: a collection may run in every method of the application and
  in every allocation, the constructors and Application.onCreate included. One
  of those frees what start_activity holds in C variables only (MCLaunchRoots);
  when it goes on to attach the Activity, it writes into freed storage
  (`AttachesFreed`), and the model ends there, in "undefined".
- `ThreadLifecycle`: who sleeps is in `asleep`. A notification of `exited` or
  `changed` takes away the threads that sleep on it at that moment, any sleep
  may end spuriously, and a thread that wakes for nothing sleeps again; the end
  of a record without a notification is therefore a hazard the model has. Every
  host call may be refused, the join of the shutdown too, whose result the code
  drops (agr_bionic_thread_lifecycle.cpp:136): it erases the record all the
  same, and the host thread stays unjoined (`unjoined`).
- The ENOMEM of the futex wait reaches its callers: a mutex lock and
  pthread_once return it; a condition wait that was refused to sleep relocks and
  returns 0, and returns ENOMEM without the mutex when the relock is refused.
- Files in the tree that the application does not compile
  (scripts/build-iphoneos.sh:70) are not modelled: dx_android_framework.c,
  Runtime/dx_runtime.c, UIBridge/dx_ui_tree.c, APK/dx_resources.c,
  Base/dx_context.c.

## 3. Runs

| Run | Question | Bounds and why they suffice |
|---|---|---|
| MCMutex | Is the port a mutex, for each kind? | three threads: holder, sleeper and newcomer, the smallest number for a lost wake-up; one level of recursion, after which the counter is full; two calls for one thread, one for the others |
| MCCond | Is a pulse ever slept through, do timed waits end? | three threads, two pulses: two sleepers or one and a thief |
| MCCondBroadcast | Does a broadcast release those that slept when it came? (violated) | one broadcast |
| MCOnce, host | Are the counters exact, is no token lost or taken twice, does cancellation drain? | three threads, two addresses (one unreadable word): a waiter, a waker and a competitor on one queue while another lives; counters wrap at 16, which three threads never reach unless a subtraction goes below zero |
| MCOnce, once | Does the init function run once, and is nobody stranded when it fails? | three callers, two calls each, one failure |
| MCLifecycle | Are host handles given back once, do shutdown and joins end? | main and two workers: one joins, one is joined, and the shutdown is third; two failing host calls: a handle that a detach was refused and the shutdown then too |
| MCLifecycleSelf | Does pthread_self name the caller? (violated) | two heap blocks for three threads |
| MCProcess, tls | Does a thread read only what it set? | two threads, two keys of which the first is reserved, keys deleted and created again, two destructor passes of four, two stacks with reuse |
| MCProcess, memory | Does the region array implement an address space? | four pages hold every relative position of two ranges (a hole needs three); three protections; growth at two regions, one refusal |
| MCProcess, linker | Do pointers, references and order hold under reentrancy and failure? | five libraries with a chain, a shared dependency and a loop; six calls, of which some come from constructors and finalizers; one broken library and one failing function |
| MCLinkerFailedLoad | Is the library list intact after a failed load? (violated) | two calls |
| MCGuest, dispatch | Are lock and depths exact, do callers resume intact, does a shutdown drain? | the owner and one pthread, two nested calls of sixteen and two calls per host function: JNI inside JNI, import inside JNI and the reverse, and the refusal at the limit; a second pthread was tried with one call per function (2.1 million states, three minutes) and adds nothing but time |
| MCGuest, input | Do touches and commands arrive, in order, once? | a ring of two and a pipe of three bytes fill up and wrap; touches without end whose handles start again after four, which is twice the ring; four commands are more than the pipe holds |
| MCCommands | Does a command arrive when read and write overlap? (violated) | three commands; a ring of one, as touches do not matter |
| MCDex, heap | Is anything reachable lost, does anything dangle, is anything refused early? | three objects, one field each, two registers, a frame result, a static and an interned string: an old object that keeps a young one through another, and garbage of both generations; a minor collection at two young objects, a major one at three live ones, which is the limit, and at every fourth minor one; addresses are symmetric |
| MCDex, launch | Is what C points to kept, is a surface drawn, is a window added once? | each role once; two refusals anywhere: one in addView and one in what follows; three visibility changes: shown, hidden, shown; collections at every point |
| MCLaunchRoots | The same pointers when a constructor collects (violated) | as before |

The five violated properties are disagreements between code and documents or
between code and a reference; `findings` quotes them.

Deadlock is not checked in four runs. A condition wait without a deadline
may sleep for ever once the pulses are used up (MCCond, MCCondBroadcast). The
linker's calls are bounded, and a search that meets a deleted entry is undefined
behaviour and has no step (MCLinkerFailedLoad; in MCProcess the linker stutters
at its end, so that the other parts are checked). In MCGuest a thread may wait
with the JNI lock, as said above. Everywhere else TLC checks that the system
never stops; MCMutex, MCOnce and the launch, whose calls are bounded too, may
stop only with every call returned (`Done`).

### Fairness

- A Darwin thread that is runnable runs: weak fairness of each thread's steps
  inside a call. Nothing is assumed of guest code between calls, except that
  a holder gives a mutex back (MCMutex, CallsReturn) and that a guest function
  stops after teardown (MCLifecycle), which MCGuest checks.
- A deadline passes: weak fairness of Expire.
- No action has strong fairness. The relock after a condition wait goes through
  the port's own mutex, whose word goes to whoever exchanges it first:
  TimedWaitEnds says of a wait that never ends that it has left the futex, that
  the host is not closing, and that other threads take the mutex and give it
  back for ever. A guest function of a worker returns after teardown, and a
  shutdown sleeps on condition variables that are notified: weak fairness does.
- The user interface may touch the screen for ever, and ALooper_pollAll serves
  touches first (agr_guest_runtime.c:871): a command is carried out when the
  touches stop some time (`TouchesStop`, the hypothesis of CommandsHandled).
  Without it the property fails, which is a matter of the code's priorities.
- The JNI spin lock gets weak fairness only; ShutdownDrains needs no more,
  because all its holders leave for good.
- MCGuest has the fairness of the part that moves: in the dispatch, each thread
  inside a call and the cancellation; in the input, the application thread and
  the second half of a write. Nobody has to inject, to write or to shut down.
- The safety-only runs (MCProcess, MCDex) assume nothing.

## 4. Proofs

The first part of `BionicMutexProofs`, about the futex host, proves, for any
finite set of threads, any addresses, words and wake maxima, and a counter
width above the number of threads (`FutexAssumption`):

- TypeCorrect, CountsAreExact, NoTokenStranded: TypeOK, CountsExact and
  TokensCovered hold in every reachable state;
- TokensAreAccounted (the action property TokenAccounting): a token goes away
  one at a time, in a step that ends exactly one wait with 0 (after cancel_all,
  perhaps one with ECANCELED), no wait returns 0 without one, and a wake leaves
  no more tokens than there are threads inside the wait.

The invariant is their conjunction, and none of the three is inductive alone:
the type of the counters after a wake needs `pending <= waiters`, which follows
from exact counts and the coverage of tokens; the coverage after a waiter
leaves needs the exact count, because the wake asks `waiters - pending` in
unsigned arithmetic. The proof has a lemma per action; counting is reduced to
adding or removing one element of a finite set of threads. The lemmas speak of
the host alone (`HostInv`, nothing about the words it compares), so that the
mutex, whose word is a record, cites the same ones.

The first part of `ProcessProofs`, about `GuestMemory`, proves, for any number of pages, any protections and any
number of refusals (`MemoryAssumption`):

- TypeCorrect, NoOverlap (RegionsValid), PermsFollowRegions (PermsPublished).

The invariant joins the types, disjoint non-empty regions, and "every page with
a region has that region's protection in the interpreter, every other page that
was not given up is closed". Lemmas state what cutting, splitting, inserting,
coalescing and reprotecting do to the set of mapped pages and to the
protection of each page (CutPages, SplitPages, InsertPages, CoalescePages,
ReprotectPages) and that they keep regions apart; one lemma per action combines
them. Coalescing merges a whole run of touching regions, so the proof needs
that the end of the run is the end of one of its regions (RunEndIsLast) and
that different runs are apart (RunsApart), both from the existence of a least
element of a set of numbers (LeastElement). That lemma orders the intervals
`0 .. x` by strict inclusion, which is well founded on finite sets, so that no
induction theorem with an operator parameter is needed.

From that invariant the same module proves that the region array implements the
page table of `AddressSpace` (ImplementsAddressSpace, the property
IsAddressSpace). Every call has a lemma that names the abstract step it is. Two
facts carry it: the search for a free place finds room whenever there is room,
and the first one (FitIsRoom, CursorBelow: below the cursor of the scan nothing
fits), and a refused call keeps less than it should but nothing it should not
(RefusedKeepsLess).

It also proves that the array stays short (ArrayIsShort, the property
RegionsCoalesced). The invariant for that counts: the regions never exceed the
capacity, and while nothing was refused no two regions with the same protection
touch. A cut makes one region more at most, coalescing one for every maximal
run, so the number of regions is that of an image of the regions (AtMostImage).

The first part of `DexProofs`, about `DexHeap`, proves, for any finite set of objects, any places, slots,
strings and thresholds (`HeapAssumption`) and classes without weak references:

- HeapTypeOK, NoDanglingTheorem, OldAreMarkedTheorem,
  RefusedOnlyWhenFullTheorem, IsHeapTheorem.

The argument is about heap records. `Sound` is the strengthened invariant: old
objects are live and marked, roots, string slots and fields of live objects
refer to live objects, storage that is not live has forgotten its fields. A
collection of a sound heap is `Collected`: sound again, with the same roots and
the fields of what it keeps; the lemmas say so of the major collector, of the
minor one with its early return at old objects, and of every combination the
triggers of an allocation make. NoDangling is not inductive alone, because what
a minor collection keeps depends on the marks. That nothing reachable is lost
then costs nothing: the objects of a sound heap contain its roots and are closed
under its fields, so the least such set is among them, which is also the
refinement. `Exhausted` says of a refusal that the heap is full and everything
in it is reachable, from the lemma that a major collection leaves nothing else.

`GuestDispatchProofs` proves, for any threads, any depth of nesting and any
number of calls of a host function (`DispatchAssumption`):

- Invariance, LockAndCountersExact (DispatchExact).

The invariant says that frames of the host and of the guest alternate on every
stack and begin with the host, that what a thread is about to do fits the frame
on top, that the two counters are the numbers of frames of their kind, and that
the lock is held by a thread inside a JNI function, the only one. The first two
are needed because a return pops a frame and the code decides by its own
position, not by the frame, what it is. Counting is reduced to pushing and
popping one frame (PushNumber, PopNumber).

From it follows, in the same module, that interrupted functions resume intact
(CallersResume, the property ImportsResumeCaller). The property speaks of the
top of a stack, the invariant `Returning` of every guest activation in it:
on top its registers are in the processor, under one host function they still
are, until that function calls the guest; from then on the linker and once hold
them in the saved registers, and a JNI function has used one of its calls, so
that its return marks the activation as lost. One lemma per change of a stack
(HostBegins, HostEnds, GuestEnds, HostChanges, HostCallsGuest) says so of plain
sequences, and the lemmas of the actions apply them.

The module proves two facts about the input of the same thread, for any ring,
any pipe and any number of events (`InputAssumption`):

- TouchesComeInOrder (the property TouchesInOrder), from `RingInv`: the `count`
  slots from `head` on hold the handles injected last, in their order, and the
  handler works on the first of them. Handles count modulo any number above the
  size of the ring, so that those in the ring differ.
- OnlyOverlapLoses (CommandsDelivered), from `PipeUntilMet`: as long as no read
  and write have overlapped, the bytes between offset and size are the commands
  that were sent and not yet taken, in their order, whatever the read has taken
  and not yet carried out. The theorem has no hypothesis, since `met` is a
  state of the system: an overlap stays one (MetForGood), and each step either
  makes it or keeps the bytes. What an overlap does, MCCommands shows.

The rest of `BionicMutexProofs` proves, for any threads, any recursion limit
and any number of calls (`MutexAssumption`), when the 16 bits the word keeps of
a thread's id are not 0 and differ from those of the other threads
(`IdsDiffer`, see the notes above):

- MutexInvariance, OwnerIsExact (OwnerExact), ImplementsTheLock
  (ImplementsLock), SleepersRemembered (NoLostWakeup).

A normal mutex and one with an owner are two programs on one word, and each has
an invariant. The word of a normal mutex says only that somebody has it; the
one who has it may be inside the unlock, before the store that gives it up
(`Has`), and there is one of them. The word of the others says who and how
often: the claims of the owner are the counter and one, a free word names
nobody, and what the owner has read (its counter is not 0, is not full) stays
true while other threads only mark the word contended. A thread that is not the
owner knows nothing of the word that another's step could break, except that
its own compare and swap will see the change. OwnerExact is not inductive
alone, because an unlock decides between decrement and release from a word it
read before, and trylock decides from its first load whether the counter has
room. One lemma says when a step keeps the invariant of a normal mutex
(NormalMoves), one for the others (OwnedMoves); each action has a lemma that
applies one of them.

SleepersRemembered adds `SleepInv` to these invariants and to that of the host:
while a thread sleeps on the word, the word is contended, or somebody in an
unlock is about to clear it and to wake one, or a token is pending, or a thread
is coming that will mark the word contended before it sleeps or owns it. The
pending token counts and not the thread it was meant for: a thread that enters
the wait between wake and resumption may take it, and the notified one sleeps
on. TLC checked SleepInv before it was proved.

`BionicCondProofs` and `BionicOnceProofs` prove:

- CondInvariance, PulsesNotMissed (NoMissedPulse), for any threads when the
  pulses of a run are fewer than the values of the sequence word (`PulsesFit`).
  The word counts modulo 2^31 in the code; a waiter that read it and is not
  asleep yet would miss a pulse only if exactly 2^31 of them went by meanwhile.
  PulsesFit asks more than one waiter needs, namely the same of the whole run.
  The invariant counts every pulse as to come, about to move the word or done,
  and says that a waiter a pulse slipped past has read an older number than the
  word's, so that the host turns its sleep away.
- OnceInvariance, InitialisedOnce (InitOnce), for any callers, calls and
  failures. The word is 1 exactly while one thread initialises, there is one of
  them, and after a success it is 2 or about to be.

`ThreadLifecycleProofs` proves, for any threads, heap blocks and host failures:

- Invariance, HandlesOnce (HostHandleOnce), JoinersKeepRecords
  (JoinerHasRecord), ShutdownLeavesNone (ShutdownComplete).

They are one argument. A record owns its host handle as long as it says
so; only the joiner whose claim it carries, or the teardown of a record without
a claim, takes both away; and a worker that still has code to run has a record.
The teardown breaks that between its host join and its erase, when the record
names a handle that is spent or that the host refused to join; the invariant
names this one record (`Erasing`). The refused handles are `unjoined`, and the
shutdown leaves exactly these.

The second part of `ProcessProofs`, about `BionicTls`, proves, for any threads,
stacks, keys and destructor passes:

- TlsInvariance, OwnValues (ValueIsOwn), DestroyedOnce (DestroyedGone),
  CleanupComplete (NothingLeft).

The invariant says which stack is whose: a living thread is registered with the
stack it runs on, and no two threads hold one stack. So the deletion of a key
clears the slots of everybody who lives, although registrations that failed
destructors leave behind may name stacks that are gone or have been given to
others. A value in a slot of a living thread was set by that thread in the
present life of the key and was not destroyed; and a pass that ends the cleanup
before the last one has found no value with a destructor.

`AospDynamicProofs` proves, for any finite sets of guest and host libraries, any
dependencies between them, loops included, and any number of calls, broken
libraries and failing functions (`DynamicAssumption`):

- LinkInvariance, PointersStayLive (PointersLive), DependenciesComeFirst
  (DependenciesFirst), FinalizersComeLast (FinalizedLast), ReferencesCounted
  (CountsAtRest).

The four properties are one argument, about references. A frame of the C++
stack may be resumed after guest code that has opened and closed anything, so
what it still relies on must be protected by a reference it can count on.
`Counts` adds them up: handles, needs of libraries, what the frames own (an open
that has its library, an unload, the names a release has still to give back) and
the one that a returned value carries from `find_library` to its caller. The sum
is the count of the library as long as no guest function failed, and never
above it: a function that fails leaves references behind, which keeps libraries
for ever but deletes none too early. Numbers of positions are cardinalities, so
that pushing and popping a frame adds and removes one set.

The rest of the invariant says what frames rely on: each by itself (`Fits`),
with its caller (`Calls`), and with every frame further up (`Under`: once
something is being closed, nothing below is still being loaded). `Answers` says
what a returned value means to the function that gets it, `OnList` which
libraries the list has, `Constructors` why a library that is linked and not yet
constructed will be: it comes later on the list than a library that needs it, or
an open is about to construct it. That is what makes the finalized library one
that was constructed. FinalizedLast needs that the closed library has one
reference left, which is the closing frame's own; the needs are then none. TLC
checked the invariant on MCProcess's libraries before it was proved. Its
statement about the list holds unless the list has a dead entry (`ListIsLive`),
which it gets when a load fails in the code (MCLinkerFailedLoad).

The second part of `DexProofs`, about `ActivityLaunch`, proves, for any number of
refusals and of changes the guest makes (`LaunchAssumption`):

- LaunchInvariance, OnlyConstructorsLose (HostPointersKept), SurfaceIsDrawn
  (SurfaceDrawn), WindowAddedOnce (AddedOnce).

None has a hypothesis about where collections run. OnlyConstructorsLose says that
a step that takes an object C points to is taken in a constructor or in
Application.onCreate, before the fields of the Activity are set; that such a step
exists, MCLaunchRoots shows. No other collection does, whoever's addView,
callback or traversal it runs in.

The invariant `Kept` says which field leads to each object that C points to: no
path is longer than three fields, from the Activity through its window manager
to the ViewRoot and what that has. The collector marks along fields as many
times as there are roles, in a recursive function, and of it the proof needs
two facts. The function exists: a tracing of n steps is the set of ends of
paths of n fields, which solves the equations (MarksExist), so that they can be
used of the function, which is a CHOOSE among their solutions. And marks only
grow (MarksStay), so that what three steps mark is marked in the end; for want
of an induction theorem that can be cited, this goes by the least number of
steps at which a mark is gone (LeastNumber). `Adding` says that a call of addView which is under way has its
arguments alive, that no other one has added a window, and that the launch's own
call is the one whose window remains. `Viewing` says that a valid surface has
been drawn once by the pass that acquired it, and twice when the traversal is
complete. TLC checked the invariant before it was proved.

Only model-checked:

- liveness, which rests on ENABLED and is beyond the provers: CallsReturn of
  mutex and once, TimedWaitEnds, CancelDrains, TokensTaken, ShutdownTerminates,
  ShutdownDrains, CommandsHandled.

Facts about what a fold or recursive function computes for every input are not
proved, since the library's induction theorems take operators as parameters.

## 5. Not modelled

PROJECT.json lists every component with the reason. In short: parsers and
adapters (APK, resources, bitmaps, assets), constant tables (errno, service
dispatch), the C library services that compute a value, the ARM instruction
set, dlmalloc's algorithm, the GL calls and the word that names their owner,
class loading, exception dispatch and the value-returning methods of the DEX VM
and framework, the application and the build harness, and third-party code,
which is most of the tree. The guest fd table is complete but has no caller
yet. Who owns a range of the address space (stacks, heap, libraries, the
runtime's own tables) is a hazard without a model.

## 6. Plan

Done: futex host and proofs, mutex with its abstract lock and proofs,
condition, once, lifecycle, thread-specific data and linker with proofs, address
space with its abstraction and proofs, dispatch with proofs, input, DEX heap with its
abstraction and proofs, Activity launch with ViewRoot and proofs.

Left, in order of importance:

1. Owners of mappings over `GuestMemory`: thread stacks, heap growth with its
   check-then-map, linker segments, the runtime's own tables. Property: a page
   belongs to the owner that mapped it last and did not give it up.
2. The dispatch properties that the code is expected to break, each with a run:
   no thread waits with the JNI lock (docs/ARCHITECTURE.md:32), callers resume
   intact after DEX callbacks, pthread_exit ends the thread.
3. Weak references of the DEX heap, objects held by C locals only, and class
   initialisation.
4. EHABI decoding as an algorithm; C++ guards and atexit.

Proofs left: none of the present safety and action properties; those that come
with the models above.
