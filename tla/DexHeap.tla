-------------------------------- MODULE DexHeap --------------------------------
(***************************************************************************)
(* The heap of the DEX virtual machine (VM/dx_vm.c): allocation with its    *)
(* triggers, the minor collector that frees young objects only, the major  *)
(* collector, interned strings, and the bytecodes that move references.    *)
(*                                                                         *)
(* `heap' is the part of DxVM a collection reads and writes.  Places are   *)
(* where the collectors look for roots: registers of bytecode frames,      *)
(* frame results and exceptions, and globals (static fields and the five   *)
(* process roots).  Marking is the least closed set, which is what the     *)
(* recursive functions of the source compute.                              *)
(***************************************************************************)
EXTENDS Naturals, FiniteSets, Functions

CONSTANTS
    Objects,                      \* addresses malloc returns
    Slots,                        \* instance fields or array elements
    First,                        \* the slot a reference class keeps its referent in
    Registers, Results, Globals,  \* the places
    Strings,                      \* contents of strings
    Null,
    Kinds,                        \* the classes used: "plain", "weak"
    YoungThreshold, MajorAt, Capacity, InternMax,
    MajorEvery                    \* every MajorEvery-th minor collection is a major one

Places == Registers \cup Results \cup Globals

ASSUME HeapAssumption ==
    /\ Null \notin Objects /\ IsFiniteSet(Objects)
    /\ Places \cap Strings = {}
    /\ First \in Slots
    /\ Kinds \subseteq {"plain", "weak"}
    /\ {YoungThreshold, MajorAt, Capacity, InternMax} \subseteq Nat
    /\ MajorAt <= Capacity
    /\ MajorEvery \in Nat \ {0}

VARIABLES
    heap,      \* live, old, marked, weak, field, root, young, cycles
    interned,  \* the string table
    refused    \* the allocation that just failed: with an error, or with null

vars == <<heap, interned, refused>>

Pointer == Objects \cup {Null}
Empty == [s \in Slots |-> Null]

HeapTypes ==
    [live : SUBSET Objects, old : SUBSET Objects, marked : SUBSET Objects,
     weak : SUBSET Objects, field : [Objects -> [Slots -> Pointer]],
     root : [Places -> Pointer], young : Nat, cycles : 0 .. MajorEvery - 1]

TypeOK ==
    /\ heap \in HeapTypes
    /\ interned \in [Strings -> Pointer]
    /\ refused \in {"none", "error", "null"}

Init ==
    /\ heap = [live |-> {}, old |-> {}, marked |-> {}, weak |-> {},
               field |-> [o \in Objects |-> Empty],
               root |-> [p \in Places |-> Null], young |-> 0, cycles |-> 0]
    /\ interned = [t \in Strings |-> Null]
    /\ refused = "none"

-----------------------------------------------------------------------------
(* Marking *)

Pointees(h, o) == {h.field[o][s] : s \in Slots} \cap Objects

(* What a mark of `o' goes on to: gc_mark_object skips the referent. *)
Strong(h, o) ==
    {h.field[o][s] : s \in IF o \in h.weak THEN Slots \ {First} ELSE Slots} \cap Objects

\* fault: interned strings are no roots
SeedsWithoutStrings(h) == {h.root[p] : p \in Places} \cap Objects

Seeds(h) ==
    ({h.root[p] : p \in Places} \cup {interned[t] : t \in Strings}) \cap Objects

Trace(h, from, within) ==
    {o \in within : \A T \in SUBSET within :
        /\ from \cap within \subseteq T
        /\ \A x \in T : Strong(h, x) \cap within \subseteq T
        => o \in T}

Forget(h, kept) == [o \in Objects |-> IF o \in kept THEN h.field[o] ELSE Empty]

(* gc_clear_weak_refs: a surviving reference loses a referent that is gone. *)
ClearWeak(h, kept) ==
    [o \in Objects |->
        IF o \in kept \cap h.weak /\ h.field[o][First] \notin kept
        THEN [h.field[o] EXCEPT ![First] = Null]
        ELSE Forget(h, kept)[o]]

Scrub(h, places, gone) ==
    [p \in Places |-> IF p \in places /\ h.root[p] \in gone THEN Null ELSE h.root[p]]

-----------------------------------------------------------------------------
(* dx_vm_gc *)

Major(h) ==
    LET kept == Trace(h, Seeds(h), h.live)
    IN  [h EXCEPT !.live = kept, !.old = kept, !.marked = kept, !.weak = @ \cap kept,
                  !.field = ClearWeak(h, kept),
                  !.root = Scrub(h, Places, Objects \ kept), !.young = 0]

(* dx_vm_gc_minor *)

\* fault: no scan of old objects
RememberedNone(h) == {}

(* gc_scan_old_to_young: everything old objects point at, referents too. *)
Remembered(h) == UNION {Pointees(h, o) : o \in h.old}

\* fault: the marks of all objects are cleared
StillMarkedNone(h) == {}

StillMarked(h) == h.marked \cap h.old

MinorOnly(h) ==
    LET young == h.live \ h.old
        fresh == Trace(h, Seeds(h) \cup Remembered(h), young)
        kept == h.old \cup fresh
        marked == StillMarked(h) \cup fresh
    IN  [h EXCEPT !.live = kept, !.old = kept, !.marked = marked, !.weak = @ \cap kept,
                  !.field = Forget(h, kept),
                  !.root = [p \in Places |->
                      IF \/ p \in Registers /\ h.root[p] \in young \ fresh
                         \/ p \in Results /\ h.root[p] \in Objects \ marked
                      THEN Null ELSE h.root[p]],
                  !.young = 0]

Minor(h) ==
    LET n == (h.cycles + 1) % MajorEvery
        counted == [h EXCEPT !.cycles = n]
    IN  IF n = 0 THEN Major(counted) ELSE MinorOnly(counted)

\* fault: no major collection when the heap is nearly full
SettledMinorOnly(h) == IF h.young >= YoungThreshold THEN Minor(h) ELSE h

(* What an allocation does before it looks for room. *)
Settled(h) ==
    LET first == IF h.young >= YoungThreshold THEN Minor(h) ELSE h
    IN  IF Cardinality(first.live) >= MajorAt THEN Major(first) ELSE first

Full(h) == Cardinality(h.live) >= Capacity

(* A new object at a free address, in place p. *)
Placed(h, o, k, p) ==
    [h EXCEPT !.live = @ \cup {o}, !.marked = @ \ {o}, !.young = @ + 1,
              !.weak = IF k = "weak" THEN @ \cup {o} ELSE @,
              !.field[o] = Empty, !.root[p] = o]

Free(h) == Objects \ h.live

-----------------------------------------------------------------------------
(* new-instance and new-array: without room the method ends with an error, *)
(* or goes on with null.                                                    *)
NewObject(p) ==
    LET h == Settled(heap)
    IN  /\ \/ /\ Full(h)
              /\ \/ heap' = h /\ refused' = "error"
                 \/ heap' = [h EXCEPT !.root[p] = Null] /\ refused' = "null"
           \/ /\ ~Full(h)
              /\ \E o \in Free(h), k \in Kinds : heap' = Placed(h, o, k, p)
              /\ refused' = "none"
        /\ UNCHANGED interned

(* const-string: the table first, then an early refusal, then an object. *)
ConstString(p, t) ==
    \/ /\ interned[t] \in Objects
       /\ heap' = [heap EXCEPT !.root[p] = interned[t]]
       /\ refused' = "none"
       /\ UNCHANGED interned
    \/ /\ interned[t] = Null
       /\ \/ Cardinality(heap.live) >= Capacity - 1 /\ heap' = [heap EXCEPT !.root[p] = Null]
          \/ /\ Cardinality(heap.live) < Capacity - 1
             /\ Full(Settled(heap))
             /\ heap' = [Settled(heap) EXCEPT !.root[p] = Null]
       /\ refused' = "null"
       /\ UNCHANGED interned
    \/ /\ interned[t] = Null
       /\ Cardinality(heap.live) < Capacity - 1
       /\ ~Full(Settled(heap))
       /\ refused' = "none"
       /\ \E o \in Free(Settled(heap)) :
             /\ heap' = Placed(Settled(heap), o, "plain", p)
             /\ interned' =
                   IF Cardinality({x \in Strings : interned[x] \in Objects}) < InternMax
                   THEN [interned EXCEPT ![t] = o] ELSE interned

(* dx_vm_gc_collect *)
GcCollect ==
    /\ heap' = Major(heap)
    /\ refused' = "none"
    /\ UNCHANGED interned

(* Moves between places: move, return, sput, sget, and the end of a frame. *)
Move(p, x) ==
    /\ heap' = [heap EXCEPT !.root[p] = x]
    /\ refused' = "none"
    /\ UNCHANGED interned

(* iput and aput; a string has no field, and set_field then absorbs it. *)
Put(o, s, x) ==
    /\ o \notin Range(interned)
    /\ heap' = [heap EXCEPT !.field[o][s] = x]
    /\ refused' = "none"
    /\ UNCHANGED interned

Next ==
    \/ GcCollect
    \/ \E p \in Registers : NewObject(p) \/ Move(p, Null)
    \/ \E p \in Registers, t \in Strings : ConstString(p, t)
    \/ \E p \in Places, q \in Registers : Move(p, heap.root[q]) \/ Move(q, heap.root[p])
    \/ \E p \in Registers, q \in Registers, s \in Slots :
          /\ heap.root[q] \in Objects
          /\ \/ Move(p, heap.field[heap.root[q]][s])
             \/ Put(heap.root[q], s, heap.root[p])

Spec == Init /\ [][Next]_vars

-----------------------------------------------------------------------------
(* Properties *)

(* No root, string or field of an object on the heap points at freed storage, *)
(* whichever of the two collectors ran when.                                  *)
NoDangling ==
    /\ \A p \in Places : heap.root[p] \in heap.live \cup {Null}
    /\ \A t \in Strings : interned[t] \in heap.live \cup {Null}
    /\ \A o \in heap.live, s \in Slots : heap.field[o][s] \in heap.live \cup {Null}

(* The minor collector tests the mark of a frame's result and exception      *)
(* without asking for their generation (dx_vm.c:6220), so that every old      *)
(* object must carry the mark of an earlier collection.                      *)
OldAreMarked == heap.old \subseteq heap.marked \cap heap.live

PlaceOrString == [x \in Places \cup Strings |-> IF x \in Places THEN heap.root[x] ELSE interned[x]]

Promise == INSTANCE AbstractHeap WITH Places <- Places \cup Strings,
    live <- heap.live, root <- PlaceOrString, field <- heap.field

(* Nothing a program can reach disappears or changes in a collection: the    *)
(* two collectors and the allocator are the heap of AbstractHeap.            *)
IsHeap == Promise!HeapSpec

(* new-instance fails only when the program itself can reach a full heap: no *)
(* garbage is left when dx_vm_alloc_object gives up.                         *)
RefusedOnlyWhenFull ==
    refused = "error" => Cardinality(Promise!Reachable) >= Capacity
===============================================================================
