----------------------------- MODULE AospDynamic -----------------------------
(***************************************************************************)
(* The dynamic linker: Runtime/AospLinker/agr_aosp_dynamic.cpp.            *)
(*                                                                         *)
(* Its functions call each other and, through constructors and finalizers, *)
(* guest code that calls dlopen and dlclose again, so the C++ stack is     *)
(* part of the state: a sequence of frames, the running one first, and the *)
(* value the last call returned.  A library is known by its name: at most  *)
(* one object of a name exists.  Parsing, symbol lookup and relocation are *)
(* reduced to whether they fail.                                           *)
(*                                                                         *)
(* The list of libraries is searched from its first entry on, and every    *)
(* entry on the way is read.  An entry whose object was deleted cannot be  *)
(* read in any defined way: a search that meets one has no step here.      *)
(***************************************************************************)
EXTENDS Integers, Sequences, FiniteSets

CONSTANTS Lib,        \* guest libraries with registered bytes
          Host,       \* libraries the host provides
          Needs,      \* library -> its DT_NEEDED names in order
          NoLibrary,  \* the null soinfo pointer
          MaxCalls,   \* bound: calls of dlopen and dlclose
          MaxBroken,  \* bound: libraries found broken while they load
          MaxFailed   \* bound: guest functions that fail

Name == Lib \cup Host

ASSUME DynamicAssumption ==
    /\ IsFiniteSet(Lib) /\ IsFiniteSet(Host)
    /\ Lib \cap Host = {} /\ NoLibrary \notin Name
    /\ Needs \in [Lib -> Seq(Name)]
    /\ MaxCalls \in Nat /\ MaxBroken \in Nat /\ MaxFailed \in Nat

VARIABLES solist,            \* the list of libraries
          alive,             \* soinfo objects not deleted
          ref, linked, called, needed,  \* fields of the objects
          somain,
          stack, ret,        \* the C++ stack, the value just returned
          held,              \* handles guest code has and may close
          ready,             \* libraries whose constructors have all returned
          calls, broken, failed

objectVars == <<alive, ref, linked, called, needed, ready>>
listVars   == <<solist, somain>>
guestVars  == <<held, calls, failed>>
linkerVars == <<objectVars, listVars, stack, ret, guestVars, broken>>

Frame(op, so, i, deps) == [op |-> op, so |-> so, i |-> i, deps |-> deps]
Top == Head(stack)
Running(op) == stack # <<>> /\ Top.op = op
Return(r) == stack' = Tail(stack) /\ ret' = r
Goto(i) == stack' = <<[Top EXCEPT !.i = i]>> \o Tail(stack) /\ ret' = "none"
Push(f) == stack' = <<f>> \o stack /\ ret' = "none"
Become(f) == stack' = <<f>> \o Tail(stack) /\ ret' = "none"
Frames == {stack[k] : k \in DOMAIN stack}
Constructing(s) == \E f \in Frames : f.op = "ctor" /\ f.so = s

(* Guest code runs outside every call, and inside constructors and         *)
(* finalizers.                                                             *)
GuestTurn == /\ ret = "none"
             /\ stack = <<>> \/ Running("init") \/ Running("fini")

(* The first entry of a name, and whether the entries up to it, or all of  *)
(* them when there is none, can be read.                                   *)
Entries(n) == {p \in DOMAIN solist : solist[p] = n}
Entry(n) == CHOOSE p \in Entries(n) : \A q \in Entries(n) : p <= q
Readable(n) ==
    \A p \in DOMAIN solist :
        Entries(n) = {} \/ p <= Entry(n) => solist[p] \in alive

-----------------------------------------------------------------------------
(* agr_aosp_dynamic_dlopen and agr_aosp_dynamic_load: find the library,    *)
(* run its constructors, return its handle.                                *)
Dlopen(n) ==
    /\ GuestTurn /\ ~Running("fini")     \* finalizers close, they do not open
    /\ calls < MaxCalls /\ calls' = calls + 1
    /\ Push(Frame("open", n, 0, <<>>))
    /\ UNCHANGED <<objectVars, listVars, held, failed, broken>>

(* A library of the host has load bias 0, and so has its handle: the       *)
(* caller takes it for a failure, the reference stays.                     *)
DlopenFound ==
    /\ Running("open") /\ Top.i = 0 /\ ret = "found"
    /\ IF Top.so \in Host
         THEN Return("none")
         ELSE /\ stack' = <<Frame("ctor", Top.so, 0, <<>>),
                            [Top EXCEPT !.i = 1]>> \o Tail(stack)
              /\ ret' = "none"
    /\ UNCHANGED <<objectVars, listVars, guestVars, broken>>

DlopenNotFound ==
    /\ Running("open") /\ Top.i = 0 /\ ret = "null"
    /\ Return("none")
    /\ UNCHANGED <<objectVars, listVars, guestVars, broken>>

DlopenReturns ==
    /\ Running("open") /\ Top.i = 1 /\ ret = "ok"
    /\ held' = [held EXCEPT ![Top.so] = @ + 1]
    /\ Return("none")
    /\ UNCHANGED <<objectVars, listVars, calls, failed, broken>>

(* A constructor failed: the handle is not returned, the reference stays.  *)
DlopenFails ==
    /\ Running("open") /\ Top.i = 1 /\ ret = "err"
    /\ Return("none")
    /\ UNCHANGED <<objectVars, listVars, guestVars, broken>>

-----------------------------------------------------------------------------
(* find_library, for dlopen or for the next DT_NEEDED of a library.        *)
Finding == /\ ret = "none" /\ stack # <<>>
           /\ \/ Top.op = "open" /\ Top.i = 0
              \/ Top.op = "link" /\ Top.i <= Len(Needs[Top.so])
Wanted == IF Top.op = "open" THEN Top.so ELSE Needs[Top.so][Top.i]

Referenced(n) == [ref EXCEPT ![n] = @ + 1]

\* fault: a dependency that is loaded already is not counted
DependencyUncounted(n) == IF Top.op = "link" THEN ref ELSE Referenced(n)
FoundAgain(n) == Referenced(n)

FindLoaded ==
    /\ Finding /\ Readable(Wanted) /\ Entries(Wanted) # {} /\ Wanted \in linked
    /\ ref' = FoundAgain(Wanted) /\ ret' = "found"
    /\ UNCHANGED <<alive, linked, called, needed, ready, listVars, stack,
                   guestVars, broken>>

(* "recursive link": the library is being linked further down the stack.   *)
FindLinking ==
    /\ Finding /\ Readable(Wanted) /\ Entries(Wanted) # {} /\ Wanted \notin linked
    /\ ret' = "null"
    /\ UNCHANGED <<objectVars, listVars, stack, guestVars, broken>>

LoadHost ==
    /\ Finding /\ Readable(Wanted) /\ Entries(Wanted) = {} /\ Wanted \in Host
    /\ solist' = Append(solist, Wanted)
    /\ alive' = alive \cup {Wanted}
    /\ linked' = linked \cup {Wanted}
    /\ ref' = [ref EXCEPT ![Wanted] = 1]
    /\ ret' = "found"
    /\ UNCHANGED <<called, needed, ready, somain, stack, guestVars, broken>>

(* No such library, or its segments cannot be mapped.                      *)
LoadMissing ==
    /\ Finding /\ Readable(Wanted) /\ Entries(Wanted) = {} /\ Wanted \in Lib
    /\ broken < MaxBroken /\ broken' = broken + 1
    /\ ret' = "null"
    /\ UNCHANGED <<objectVars, listVars, stack, guestVars>>

LoadMapped ==
    /\ Finding /\ Readable(Wanted) /\ Entries(Wanted) = {} /\ Wanted \in Lib
    /\ solist' = Append(solist, Wanted)
    /\ alive' = alive \cup {Wanted}
    /\ somain' = IF somain = NoLibrary THEN Wanted ELSE somain
    /\ Push(Frame("link", Wanted, 1, <<>>))
    /\ UNCHANGED <<ref, linked, called, needed, ready, guestVars, broken>>

-----------------------------------------------------------------------------
(* soinfo_link_image: the dependencies, then the relocations.              *)
LinkNeeded ==
    /\ Running("link") /\ ret = "found"
    /\ needed' = [needed EXCEPT ![Top.so] = Append(@, Needs[Top.so][Top.i])]
    /\ Goto(Top.i + 1)
    /\ UNCHANGED <<alive, ref, linked, called, ready, listVars, guestVars, broken>>

NowLinked(s) == linked \cup {s}

LinkDone ==
    /\ Running("link") /\ ret = "none" /\ Top.i = Len(Needs[Top.so]) + 1
    /\ linked' = NowLinked(Top.so)
    /\ ref' = Referenced(Top.so)
    /\ Return("found")
    /\ UNCHANGED <<alive, called, needed, ready, listVars, guestVars, broken>>

(* What delete leaves of an object.                                        *)
Deleted(s) ==
    /\ alive' = alive \ {s}
    /\ linked' = linked \ {s}
    /\ called' = called \ {s}
    /\ ready' = ready \ {s}
    /\ ref' = [ref EXCEPT ![s] = 0]
    /\ needed' = [needed EXCEPT ![s] = <<>>]
    /\ somain' = IF somain = s THEN NoLibrary ELSE somain

(* The headers are wrong, a dependency is not there, or a relocation       *)
(* fails: load_library takes the last entry off the list, deletes the      *)
(* library and gives the dependencies it has found so far back.            *)
Unsound == ret = "none" /\ Top.i \in {1, Len(Needs[Top.so]) + 1}

\* fault: the dependencies found so far stay referenced
NothingToRelease(s) == <<>>
DepsFound(s) == needed[s]

LinkFails ==
    /\ Running("link")
    /\ \/ Unsound /\ broken < MaxBroken /\ broken' = broken + 1
       \/ ret = "null" /\ UNCHANGED broken
    /\ Deleted(Top.so)
    /\ solist' = SubSeq(solist, 1, Len(solist) - 1)
    /\ Become(Frame("undo", Top.so, 0, DepsFound(Top.so)))
    /\ UNCHANGED guestVars

-----------------------------------------------------------------------------
(* CallConstructors: once, the dependencies first, then the library's own. *)
CtorAlready ==
    /\ Running("ctor") /\ Top.i = 0 /\ ret = "none" /\ Top.so \in called
    /\ Return("ok")
    /\ UNCHANGED <<objectVars, listVars, guestVars, broken>>

\* fault: the library's own constructors before those of its dependencies
OwnFirst(s) == Len(needed[s]) + 1
FirstDependency(s) == 1

CtorStarts ==
    /\ Running("ctor") /\ Top.i = 0 /\ Top.so \notin called
    /\ called' = called \cup {Top.so}
    /\ Goto(FirstDependency(Top.so))
    /\ UNCHANGED <<alive, ref, linked, needed, ready, listVars, guestVars, broken>>

CtorDependency ==
    /\ Running("ctor") /\ Top.i \in 1 .. Len(needed[Top.so]) /\ ret = "none"
    /\ Push(Frame("ctor", needed[Top.so][Top.i], 0, <<>>))
    /\ UNCHANGED <<objectVars, listVars, guestVars, broken>>

CtorNext ==
    /\ Running("ctor") /\ Top.i \in 1 .. Len(needed[Top.so]) /\ ret = "ok"
    /\ Goto(Top.i + 1)
    /\ UNCHANGED <<objectVars, listVars, guestVars, broken>>

CtorOwn ==
    /\ Running("ctor") /\ Top.i = Len(needed[Top.so]) + 1 /\ ret = "none"
    /\ IF Top.so \in Host
         THEN Return("ok") /\ ready' = ready \cup {Top.so}
         ELSE Push(Frame("init", Top.so, 0, <<>>)) /\ UNCHANGED ready
    /\ UNCHANGED <<alive, ref, linked, called, needed, listVars, guestVars, broken>>

CtorReturns ==
    /\ Running("ctor")
    /\ \/ ret = "err"
       \/ ret = "ok" /\ Top.i = Len(needed[Top.so]) + 1
    /\ ready' = IF ret = "ok" THEN ready \cup {Top.so} ELSE ready
    /\ Return(ret)
    /\ UNCHANGED <<alive, ref, linked, called, needed, listVars, guestVars, broken>>

(* A constructor or finalizer of guest code returns, or ends in a fault.   *)
GuestReturns ==
    /\ GuestTurn /\ stack # <<>>
    /\ Return("ok")
    /\ UNCHANGED <<objectVars, listVars, guestVars, broken>>

GuestFails ==
    /\ GuestTurn /\ stack # <<>>
    /\ failed < MaxFailed /\ failed' = failed + 1
    /\ Return("err")
    /\ UNCHANGED <<objectVars, listVars, held, calls, broken>>

-----------------------------------------------------------------------------
(* agr_aosp_dynamic_dlclose: of a handle guest code has, or of 0, which    *)
(* finds the first library of the host.                                    *)
HostEntries == {p \in DOMAIN solist : solist[p] \in Host}

Dlclose(n) ==
    /\ GuestTurn /\ held[n] > 0 /\ Readable(n)
    /\ calls < MaxCalls /\ calls' = calls + 1
    /\ held' = [held EXCEPT ![n] = @ - 1]
    /\ stack' = <<Frame("unload", n, 0, <<>>), Frame("close", n, 0, <<>>)>> \o stack
    /\ UNCHANGED <<objectVars, listVars, ret, failed, broken>>

DlcloseNull ==
    /\ GuestTurn /\ HostEntries # {}
    /\ LET h == solist[CHOOSE p \in HostEntries : \A q \in HostEntries : p <= q]
       IN /\ Readable(h)
          /\ ref' = [ref EXCEPT ![h] = IF @ > 0 THEN @ - 1 ELSE 0]
    /\ calls < MaxCalls /\ calls' = calls + 1
    /\ UNCHANGED <<alive, linked, called, needed, ready, listVars, stack, ret,
                   held, failed, broken>>

(* A caller whose dlclose fails on a library that is still there still has *)
(* the handle.                                                             *)
DlcloseReturns ==
    /\ Running("close") /\ ret # "none"
    /\ held' = IF ret = "err" /\ Top.so \in alive
                 THEN [held EXCEPT ![Top.so] = @ + 1] ELSE held
    /\ Return("none")
    /\ UNCHANGED <<objectVars, listVars, calls, failed, broken>>

-----------------------------------------------------------------------------
(* soinfo_unload                                                           *)
LastReference(s) == s \in Lib /\ ref[s] = 1

UnloadCounts ==
    /\ Running("unload") /\ ret = "none" /\ ~LastReference(Top.so)
    /\ ref' = [ref EXCEPT ![Top.so] = IF @ > 0 THEN @ - 1 ELSE 0]
    /\ Return("ok")
    /\ UNCHANGED <<alive, linked, called, needed, ready, listVars, guestVars, broken>>

UnloadStarts ==
    /\ Running("unload") /\ ret = "none" /\ LastReference(Top.so)
    /\ Push(Frame("fini", Top.so, 0, <<>>))
    /\ UNCHANGED <<objectVars, listVars, guestVars, broken>>

UnloadFails ==
    /\ Running("unload") /\ ret = "err"
    /\ Return("err")
    /\ UNCHANGED <<objectVars, listVars, guestVars, broken>>

WithoutEntry(s) ==
    IF Entries(s) = {} THEN solist
    ELSE SubSeq(solist, 1, Entry(s) - 1) \o SubSeq(solist, Entry(s) + 1, Len(solist))

Unloaded ==
    /\ Running("unload") /\ ret = "ok"
    /\ Deleted(Top.so)
    /\ solist' = WithoutEntry(Top.so)
    /\ Become(Frame("release", Top.so, 0, needed[Top.so]))
    /\ UNCHANGED <<guestVars, broken>>

(* The dependencies of a deleted library, one after the other: of one that *)
(* was unloaded until an unload fails, of one that did not load all.       *)
Releasing == stack # <<>> /\ Top.op \in {"release", "undo"}

ReleaseNext ==
    /\ Releasing /\ ret = "none" /\ Top.deps # <<>>
    /\ stack' = <<Frame("unload", Head(Top.deps), 0, <<>>),
                  [Top EXCEPT !.deps = Tail(@)]>> \o Tail(stack)
    /\ UNCHANGED <<objectVars, listVars, ret, guestVars, broken>>

ReleaseGoesOn ==
    /\ \/ Releasing /\ ret = "ok"
       \/ Running("undo") /\ ret = "err"
    /\ ret' = "none"
    /\ UNCHANGED <<objectVars, listVars, stack, guestVars, broken>>

ReleaseFails ==
    /\ Running("release") /\ ret = "err"
    /\ Return("err")
    /\ UNCHANGED <<objectVars, listVars, guestVars, broken>>

Released ==
    /\ Releasing /\ ret = "none" /\ Top.deps = <<>>
    /\ Return(IF Top.op = "undo" THEN "null" ELSE "ok")
    /\ UNCHANGED <<objectVars, listVars, guestVars, broken>>

-----------------------------------------------------------------------------
LinkerInit ==
    /\ solist = <<>> /\ alive = {} /\ somain = NoLibrary
    /\ ref = [n \in Name |-> 0] /\ needed = [n \in Name |-> <<>>]
    /\ linked = {} /\ called = {} /\ ready = {}
    /\ stack = <<>> /\ ret = "none"
    /\ held = [n \in Lib |-> 0]
    /\ calls = 0 /\ broken = 0 /\ failed = 0

LinkerNext ==
    \/ \E n \in Name : Dlopen(n)
    \/ DlopenFound \/ DlopenNotFound \/ DlopenReturns \/ DlopenFails
    \/ FindLoaded \/ FindLinking \/ LoadHost \/ LoadMissing \/ LoadMapped
    \/ LinkNeeded \/ LinkDone \/ LinkFails
    \/ CtorAlready \/ CtorStarts \/ CtorDependency \/ CtorNext \/ CtorOwn
    \/ CtorReturns \/ GuestReturns \/ GuestFails
    \/ \E n \in Lib : Dlclose(n)
    \/ DlcloseNull \/ DlcloseReturns
    \/ UnloadCounts \/ UnloadStarts \/ UnloadFails \/ Unloaded
    \/ ReleaseNext \/ ReleaseGoesOn \/ ReleaseFails \/ Released

LinkerSpec == LinkerInit /\ [][LinkerNext]_linkerVars

-----------------------------------------------------------------------------
(* Every library on the list exists: what a failed dlopen leaves behind    *)
(* can be searched by the next one.                                        *)
ListIsLive == \A p \in DOMAIN solist : solist[p] \in alive

(* No pointer that is still going to be followed points to a deleted       *)
(* library: not the dependencies of a library, not the main one, and not   *)
(* the locals of a function that has called guest code, whatever that code *)
(* opened and closed in the meantime.                                      *)
PointersLive ==
    /\ somain # NoLibrary => somain \in alive
    /\ \A s \in alive : \A k \in DOMAIN needed[s] : needed[s][k] \in alive
    /\ \A f \in Frames :
         /\ f.op \in {"link", "ctor", "init", "unload", "fini"} => f.so \in alive
         /\ f.op = "open" /\ f.i = 1 => f.so \in alive
         /\ \A k \in DOMAIN f.deps : f.deps[k] \in alive

(* Constructors run when those of every dependency have, unless the        *)
(* dependency itself is what has called.                                   *)
DependenciesFirst ==
    \A f \in Frames : f.op = "init" /\ failed = 0 =>
        \A k \in DOMAIN needed[f.so] :
            needed[f.so][k] \in ready \/ Constructing(needed[f.so][k])

(* Finalizers run for a library that was constructed and that no other     *)
(* library needs any more.                                                 *)
FinalizedLast ==
    \A f \in Frames : f.op = "fini" =>
        /\ failed = 0 /\ ListIsLive => f.so \in ready
        /\ \A s \in alive \ {f.so} : \A k \in DOMAIN needed[s] : needed[s][k] # f.so

(* Between calls, as long as every guest function has returned, a library  *)
(* is referenced once for every handle and once for every library that     *)
(* needs it; nothing is loaded without a reference, and every library is   *)
(* on the list once.  Failed loads on the way change nothing of this.      *)
NeededBy(n) ==
    UNION {{s} \X {k \in DOMAIN needed[s] : needed[s][k] = n} : s \in alive}

CountsAtRest ==
    stack = <<>> /\ ret = "none" /\ failed = 0 /\ ListIsLive =>
        \A n \in Lib :
            /\ ref[n] = held[n] + Cardinality(NeededBy(n))
            /\ n \in alive <=> ref[n] > 0
            /\ Cardinality(Entries(n)) = IF n \in alive THEN 1 ELSE 0
=============================================================================
