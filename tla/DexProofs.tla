------------------------------ MODULE DexProofs ------------------------------
(***************************************************************************)
(* Theorems about two parts of the DEX virtual machine.                    *)
(*                                                                         *)
(* DexHeap, for any number of objects, slots, places and strings and for   *)
(* any thresholds, when no class is a weak reference.  The argument is     *)
(* about heap records.  `Sound' is the strengthened invariant of one; a    *)
(* collection of a sound heap is `Collected': sound again, with the same   *)
(* roots and with the fields of what it keeps.  That nothing reachable is  *)
(* lost needs no more: the objects of a sound heap contain its roots and   *)
(* are closed under its fields.                                            *)
(*                                                                         *)
(* ActivityLaunch, for any number of refusals and of changes of the guest: *)
(* what C points to is three fields away from the Activity at most, and so *)
(* reachable; a window is added by one call of addView that nobody         *)
(* overtakes; a surface that was acquired is drawn by the pass that        *)
(* acquires it and by the next one.                                        *)
(***************************************************************************)
EXTENDS DexHeap, ActivityLaunch, FiniteSetTheorems, WellFoundedInduction, TLAPS

Sound(h) ==
    /\ h \in HeapTypes
    /\ h.weak = {}
    /\ h.old \subseteq h.marked \cap h.live
    /\ \A p \in Places : h.root[p] \in h.live \cup {Null}
    /\ \A t \in Strings : interned[t] \in h.live \cup {Null}
    /\ \A o \in h.live, s \in Slots : h.field[o][s] \in h.live \cup {Null}
    /\ \A o \in Objects \ h.live : h.field[o] = Empty

Collected(h, g) ==
    /\ Sound(g)
    /\ g.live \subseteq h.live
    /\ g.root = h.root
    /\ g.field = Forget(h, g.live)

(* All the storage there is can be reached. *)
Exhausted ==
    /\ Full(heap)
    /\ heap.live \subseteq Promise!Reach(heap.field, Seeds(heap))

IInv ==
    /\ interned \in [Strings -> Pointer]
    /\ refused \in {"none", "error", "null"}
    /\ Sound(heap)
    /\ refused = "error" => Exhausted

-----------------------------------------------------------------------------
(* Marking *)

(* What a mark phase finds is the least set that holds its roots and is    *)
(* closed under strong references.                                         *)
LEMMA TraceIsLeast ==
  ASSUME NEW h, NEW from, NEW within
  PROVE  /\ Trace(h, from, within) \subseteq within
         /\ from \cap within \subseteq Trace(h, from, within)
         /\ \A x \in Trace(h, from, within) :
               Strong(h, x) \cap within \subseteq Trace(h, from, within)
         /\ \A T \in SUBSET within :
               /\ from \cap within \subseteq T
               /\ \A x \in T : Strong(h, x) \cap within \subseteq T
               => Trace(h, from, within) \subseteq T
<1> DEFINE K(T) == /\ from \cap within \subseteq T
                   /\ \A x \in T : Strong(h, x) \cap within \subseteq T
           M == Trace(h, from, within)
<1>1. M = {o \in within : \A T \in SUBSET within : K(T) => o \in T}
  BY DEF Trace
<1> HIDE DEF M
<1>2. M \subseteq within /\ \A T \in SUBSET within : K(T) => M \subseteq T
  BY <1>1
<1>3. from \cap within \subseteq M
  BY <1>1
<1>4. ASSUME NEW x \in M, NEW y \in Strong(h, x) \cap within PROVE y \in M
  <2>1. ASSUME NEW T \in SUBSET within, K(T) PROVE y \in T
    BY <1>1, <1>4, <2>1
  <2> QED BY <1>1, <2>1
<1> QED BY <1>2, <1>3, <1>4 DEF M

(* Without weak references every pointer of an object is strong.           *)
LEMMA StrongWithoutWeak ==
  ASSUME NEW h, Sound(h), NEW o \in Objects
  PROVE  Strong(h, o) = {h.field[o][s] : s \in Slots} \cap Objects
BY DEF Strong, Sound

-----------------------------------------------------------------------------
(* Collections *)

(* The fields of a collection that frees all but `kept'. *)
LEMMA ForgetField ==
  ASSUME NEW h, Sound(h), NEW kept \in SUBSET h.live
  PROVE  /\ Forget(h, kept) \in [Objects -> [Slots -> Pointer]]
         /\ \A o \in kept : Forget(h, kept)[o] = h.field[o]
         /\ \A o \in Objects \ kept : Forget(h, kept)[o] = Empty
         /\ ClearWeak(h, kept) = Forget(h, kept)
<1>1. h.live \subseteq Objects /\ h.field \in [Objects -> [Slots -> Pointer]] /\ h.weak = {}
  BY DEF Sound, HeapTypes
<1>2. Empty \in [Slots -> Pointer]
  BY DEF Empty, Pointer
<1>3. \A o \in Objects : Forget(h, kept)[o] = IF o \in kept THEN h.field[o] ELSE Empty
  BY DEF Forget
<1>4. Forget(h, kept) \in [Objects -> [Slots -> Pointer]]
  BY <1>1, <1>2 DEF Forget
<1>5. ClearWeak(h, kept) = Forget(h, kept)
  BY <1>1, <1>3 DEF ClearWeak, Forget
<1> QED BY <1>1, <1>3, <1>4, <1>5

(* A set that holds the roots of a sound heap and is closed under its      *)
(* fields can be all that a collection keeps.                              *)
LEMMA KeptIsSound ==
  ASSUME NEW h, Sound(h), NEW kept \in SUBSET h.live,
         \A p \in Places : h.root[p] \in kept \cup {Null},
         \A t \in Strings : interned[t] \in kept \cup {Null},
         \A o \in kept, s \in Slots : h.field[o][s] \in kept \cup {Null},
         NEW g \in HeapTypes,
         g.live = kept, g.weak = {}, g.old \subseteq g.marked \cap kept,
         g.root = h.root, g.field = Forget(h, kept)
  PROVE  Collected(h, g)
<1>1. \A o \in kept : g.field[o] = h.field[o]
  BY ForgetField
<1>2. \A o \in Objects \ kept : g.field[o] = Empty
  BY ForgetField
<1>3. Sound(g)
  BY <1>1, <1>2 DEF Sound
<1> QED BY <1>3 DEF Collected

(* Nothing that the places of a sound heap point to, or the string table,  *)
(* is outside what they seed.                                              *)
LEMMA SeedsAreRoots ==
  ASSUME NEW h, Sound(h)
  PROVE  /\ Seeds(h) \subseteq h.live
         /\ \A p \in Places : h.root[p] \in Seeds(h) \cup {Null}
         /\ \A t \in Strings : interned[t] \in Seeds(h) \cup {Null}
<1>1. h.live \subseteq Objects
  BY DEF Sound, HeapTypes
<1> QED BY <1>1, HeapAssumption DEF Seeds, Sound

LEMMA MajorCollects ==
  ASSUME NEW h, Sound(h)
  PROVE  /\ Collected(h, Major(h))
         /\ Major(h).live = Trace(h, Seeds(h), h.live)
<1> DEFINE kept == Trace(h, Seeds(h), h.live)
<1>1. h \in HeapTypes /\ h.live \subseteq Objects /\ h.weak = {}
  BY DEF Sound, HeapTypes
<1>2. /\ kept \subseteq h.live
      /\ Seeds(h) \cap h.live \subseteq kept
      /\ \A x \in kept : Strong(h, x) \cap h.live \subseteq kept
  BY TraceIsLeast
<1>3. \A p \in Places : h.root[p] \in kept \cup {Null}
  BY <1>2, SeedsAreRoots
<1>4. \A t \in Strings : interned[t] \in kept \cup {Null}
  BY <1>2, SeedsAreRoots
<1>5. ASSUME NEW o \in kept, NEW s \in Slots PROVE h.field[o][s] \in kept \cup {Null}
  <2>1. o \in Objects /\ o \in h.live
    BY <1>1, <1>2
  <2>2. h.field[o][s] \in h.live \cup {Null}
    BY <2>1 DEF Sound
  <2>3. h.field[o][s] \in Strong(h, o) \cup {Null}
    BY <1>1, <2>1, <2>2, StrongWithoutWeak
  <2> QED BY <1>2, <2>2, <2>3
<1>6. Scrub(h, Places, Objects \ kept) = h.root
  <2>1. h.root \in [Places -> Pointer]
    BY <1>1 DEF HeapTypes
  <2>2. \A p \in Places : h.root[p] \notin Objects \ kept
    BY <1>3, HeapAssumption
  <2> QED BY <2>1, <2>2 DEF Scrub
<1>7. ClearWeak(h, kept) = Forget(h, kept) /\ Forget(h, kept) \in [Objects -> [Slots -> Pointer]]
  BY <1>2, ForgetField
<1> DEFINE g == Major(h)
<1>8. g = [h EXCEPT !.live = kept, !.old = kept, !.marked = kept, !.weak = h.weak \cap kept,
                    !.field = Forget(h, kept), !.root = h.root, !.young = 0]
  BY <1>6, <1>7 DEF Major
<1> HIDE DEF kept, g
<1>9. /\ g \in HeapTypes
      /\ g.live = kept /\ g.weak = {} /\ g.old = kept /\ g.marked = kept
      /\ g.root = h.root /\ g.field = Forget(h, kept)
  BY <1>1, <1>2, <1>7, <1>8 DEF HeapTypes
<1>10. Collected(h, g)
  BY <1>2, <1>3, <1>4, <1>5, <1>9, KeptIsSound
<1> QED BY <1>9, <1>10 DEF g, kept

(* The minor collector marks young objects only, and takes from the old    *)
(* ones all they point to.                                                  *)
LEMMA MinorOnlyCollects ==
  ASSUME NEW h, Sound(h)
  PROVE  Collected(h, MinorOnly(h))
<1> DEFINE young == h.live \ h.old
           fresh == Trace(h, Seeds(h) \cup Remembered(h), young)
           kept == h.old \cup fresh
           marked == StillMarked(h) \cup fresh
           places == [p \in Places |->
                         IF \/ p \in Registers /\ h.root[p] \in young \ fresh
                            \/ p \in Results /\ h.root[p] \in Objects \ marked
                         THEN Null ELSE h.root[p]]
<1>1. /\ h \in HeapTypes /\ h.live \subseteq Objects /\ h.weak = {}
      /\ h.old \subseteq h.live /\ h.old \subseteq h.marked
  BY DEF Sound, HeapTypes
<1>2. /\ fresh \subseteq young
      /\ (Seeds(h) \cup Remembered(h)) \cap young \subseteq fresh
      /\ \A x \in fresh : Strong(h, x) \cap young \subseteq fresh
  BY TraceIsLeast
<1>3. marked = kept
  BY <1>1 DEF StillMarked
<1> DEFINE g == MinorOnly(h)
<1>4. g = [h EXCEPT !.live = kept, !.old = kept, !.marked = marked, !.weak = h.weak \cap kept,
                    !.field = Forget(h, kept), !.root = places, !.young = 0]
  BY DEF MinorOnly
<1> HIDE DEF fresh, marked
<1>5. kept \subseteq h.live /\ Seeds(h) \subseteq kept
  BY <1>1, <1>2, SeedsAreRoots
<1>6. /\ \A p \in Places : h.root[p] \in kept \cup {Null}
      /\ \A t \in Strings : interned[t] \in kept \cup {Null}
  BY <1>5, SeedsAreRoots
<1>7. ASSUME NEW o \in kept, NEW s \in Slots PROVE h.field[o][s] \in kept \cup {Null}
  <2>1. o \in Objects /\ o \in h.live
    BY <1>1, <1>5
  <2>2. h.field[o][s] \in h.live \cup {Null}
    BY <2>1 DEF Sound
  <2>3. CASE o \in h.old
    <3>1. h.field[o][s] \in Remembered(h) \cup {Null}
      BY <1>1, <2>2, <2>3 DEF Remembered, Pointees
    <3> QED BY <1>2, <2>2, <3>1
  <2>4. CASE o \in fresh
    <3>1. h.field[o][s] \in Strong(h, o) \cup {Null}
      BY <1>1, <2>1, <2>2, StrongWithoutWeak
    <3> QED BY <1>2, <2>2, <2>4, <3>1
  <2> QED BY <2>3, <2>4
<1>8. places = h.root
  <2>1. h.root \in [Places -> Pointer]
    BY <1>1 DEF HeapTypes
  <2>2. \A p \in Places : h.root[p] \notin young \ fresh /\ h.root[p] \notin Objects \ marked
    BY <1>1, <1>3, <1>6, HeapAssumption
  <2> QED BY <2>1, <2>2
<1>9. Forget(h, kept) \in [Objects -> [Slots -> Pointer]]
  BY <1>5, ForgetField
<1> HIDE DEF kept, g, places
<1>10. /\ g \in HeapTypes
       /\ g.live = kept /\ g.weak = {} /\ g.old = kept /\ g.marked = kept
       /\ g.root = h.root /\ g.field = Forget(h, kept)
  BY <1>1, <1>3, <1>5, <1>8, <1>9, <1>4 DEF HeapTypes
<1>11. Collected(h, g)
  BY <1>5, <1>6, <1>7, <1>10, KeptIsSound
<1> QED BY <1>11 DEF g

(* One collection after another is a collection. *)
LEMMA CollectedTwice ==
  ASSUME NEW h, NEW g, NEW i, Sound(h), Collected(h, g), Collected(g, i)
  PROVE  Collected(h, i)
<1>1. i.live \subseteq g.live /\ g.live \subseteq h.live /\ g.live \subseteq Objects
  BY DEF Collected, Sound, HeapTypes
<1>2. Sound(i) /\ i.root = h.root /\ g.field = Forget(h, g.live) /\ i.field = Forget(g, i.live)
  BY DEF Collected
<1>3. Forget(g, i.live) = Forget(h, i.live)
  BY <1>1, <1>2 DEF Forget
<1> QED BY <1>1, <1>2, <1>3 DEF Collected

LEMMA NotCollected ==
  ASSUME NEW h, Sound(h)
  PROVE  Collected(h, h)
<1>1. h.field \in [Objects -> [Slots -> Pointer]] /\ \A o \in Objects \ h.live : h.field[o] = Empty
  BY DEF Sound, HeapTypes
<1>2. Forget(h, h.live) = h.field
  BY <1>1 DEF Forget
<1> QED BY <1>2 DEF Collected

(* The counter of cycles is no part of what a collection is about. *)
LEMMA MinorCollects ==
  ASSUME NEW h, Sound(h)
  PROVE  Collected(h, Minor(h))
<1> DEFINE n == (h.cycles + 1) % MajorEvery
           c == [h EXCEPT !.cycles = n]
<1>1. h \in HeapTypes /\ h.cycles \in Nat
  BY HeapAssumption DEF Sound, HeapTypes
<1>2. n \in 0 .. MajorEvery - 1
  BY <1>1, HeapAssumption
<1> HIDE DEF n
<1>3. /\ c \in HeapTypes
      /\ c.live = h.live /\ c.old = h.old /\ c.marked = h.marked
      /\ c.weak = h.weak /\ c.field = h.field /\ c.root = h.root
  BY <1>1, <1>2 DEF HeapTypes
<1> HIDE DEF c
<1>4. Sound(c)
  BY <1>3 DEF Sound
<1>5. Collected(h, c)
  <2>1. Forget(h, c.live) = h.field
    <3>1. /\ h.field \in [Objects -> [Slots -> Pointer]]
          /\ \A o \in Objects \ h.live : h.field[o] = Empty
      BY <1>1 DEF Sound, HeapTypes
    <3> QED BY <1>3, <3>1 DEF Forget
  <2> QED BY <1>3, <1>4, <2>1 DEF Collected
<1>6. Minor(h) = IF n = 0 THEN Major(c) ELSE MinorOnly(c)
  BY DEF Minor, n, c
<1>7. Collected(c, Minor(h))
  BY <1>4, <1>6, MajorCollects, MinorOnlyCollects
<1> QED BY <1>5, <1>7, CollectedTwice

(* An allocation finds a sound heap; if that is full, a major collection   *)
(* has just run.                                                            *)
LEMMA SettledCollects ==
  ASSUME NEW h, Sound(h)
  PROVE  /\ Collected(h, Settled(h))
         /\ Full(Settled(h)) => \E f : Sound(f) /\ Settled(h) = Major(f)
<1> DEFINE f == IF h.young >= YoungThreshold THEN Minor(h) ELSE h
<1>1. Collected(h, f)
  BY MinorCollects, NotCollected
<1>2. Sound(f) /\ Cardinality(f.live) \in Nat
  <2>1. Sound(f) /\ f.live \subseteq Objects
    BY <1>1 DEF Collected, Sound, HeapTypes
  <2> QED BY <2>1, HeapAssumption, FS_Subset, FS_CardinalityType
<1>3. Settled(h) = IF Cardinality(f.live) >= MajorAt THEN Major(f) ELSE f
  BY DEF Settled
<1> HIDE DEF f
<1>4. Collected(h, Settled(h))
  BY <1>1, <1>2, <1>3, MajorCollects, CollectedTwice
<1>5. Full(Settled(h)) => Settled(h) = Major(f)
  BY <1>2, <1>3, HeapAssumption DEF Full
<1> QED BY <1>2, <1>4, <1>5

-----------------------------------------------------------------------------
(* Reachability *)

LEMMA HeldIsSeeds == Promise!Held = Seeds(heap)
BY HeapAssumption DEF Promise!Held, Seeds, PlaceOrString, Places

(* A collection of a sound heap keeps what can be reached. *)
LEMMA ReachableIsKept ==
  ASSUME Sound(heap), NEW g, Collected(heap, g)
  PROVE  Promise!Reachable \subseteq g.live
<1>1. /\ g.live \subseteq heap.live /\ g.live \subseteq Objects
      /\ g.root = heap.root /\ g.field = Forget(heap, g.live) /\ Sound(g)
  BY DEF Collected, Sound, HeapTypes
<1>2. Seeds(heap) \subseteq g.live
  BY <1>1, SeedsAreRoots DEF Seeds
<1>3. Promise!Closed(heap.field, g.live)
  <2>1. ASSUME NEW o \in g.live, NEW s \in Slots PROVE heap.field[o][s] \in g.live \cup {Null}
    <3>1. g.field[o] = heap.field[o]
      BY <1>1, ForgetField
    <3> QED BY <1>1, <3>1 DEF Sound
  <2> QED BY <2>1, HeapAssumption DEF Promise!Closed, Promise!Targets
<1> QED BY <1>1, <1>2, <1>3, HeldIsSeeds DEF Promise!Reachable, Promise!Reach

(* What a major collection leaves can all be reached. *)
LEMMA MajorLeavesReachable ==
  ASSUME NEW f, Sound(f), NEW g, g = Major(f)
  PROVE  g.live \subseteq Promise!Reach(g.field, Seeds(g))
<1>1. /\ Collected(f, g) /\ g.live = Trace(f, Seeds(f), f.live)
      /\ g.live \subseteq f.live /\ f.live \subseteq Objects
  BY MajorCollects DEF Collected, Sound, HeapTypes
<1>2. Seeds(g) = Seeds(f)
  BY <1>1 DEF Collected, Seeds
<1>3. ASSUME NEW T \in SUBSET Objects, Seeds(g) \subseteq T, Promise!Closed(g.field, T)
      PROVE  g.live \subseteq T
  <2> DEFINE S == T \cap g.live
  <2>1. Seeds(f) \cap f.live \subseteq S
    BY <1>1, <1>2, <1>3, TraceIsLeast
  <2>2. ASSUME NEW x \in S PROVE Strong(f, x) \cap f.live \subseteq S
    <3>1. Strong(f, x) \cap f.live \subseteq g.live
      BY <1>1, TraceIsLeast
    <3>2. g.field[x] = f.field[x] /\ x \in Objects
      BY <1>1, ForgetField DEF Collected
    <3>3. Strong(f, x) \subseteq T
      BY <1>3, <3>2, StrongWithoutWeak DEF Promise!Closed, Promise!Targets
    <3> QED BY <3>1, <3>3
  <2>3. S \in SUBSET f.live
    BY <1>1
  <2> HIDE DEF S
  <2>4. Trace(f, Seeds(f), f.live) \subseteq S
    BY <2>1, <2>2, <2>3, TraceIsLeast
  <2> QED BY <1>1, <2>4 DEF S
<1> QED BY <1>1, <1>3 DEF Promise!Reach

-----------------------------------------------------------------------------
(* Steps *)

(* A new object in a sound heap. *)
LEMMA PlacedIsSound ==
  ASSUME NEW g, Sound(g), NEW o \in Free(g), NEW p \in Places
  PROVE  LET n == Placed(g, o, "plain", p)
         IN  /\ Sound(n)
             /\ n.live = g.live \cup {o}
             /\ n.root = [g.root EXCEPT ![p] = o]
             /\ n.field = g.field
<1>1. /\ g \in HeapTypes /\ g.live \subseteq Objects /\ o \in Objects /\ o \notin g.live
      /\ g.field \in [Objects -> [Slots -> Pointer]] /\ g.root \in [Places -> Pointer]
      /\ g.field[o] = Empty /\ g.young \in Nat
  BY DEF Sound, HeapTypes, Free
<1>2. [g.field EXCEPT ![o] = Empty] = g.field
  BY <1>1
<1> DEFINE n == Placed(g, o, "plain", p)
<1>3. n = [g EXCEPT !.live = g.live \cup {o}, !.marked = g.marked \ {o}, !.young = g.young + 1,
                    !.weak = g.weak, !.field = g.field, !.root = [g.root EXCEPT ![p] = o]]
  BY <1>1, <1>2 DEF Placed, HeapTypes
<1> HIDE DEF n
<1>4. /\ n \in HeapTypes
      /\ n.live = g.live \cup {o} /\ n.weak = g.weak /\ n.old = g.old /\ n.marked = g.marked \ {o}
      /\ n.root = [g.root EXCEPT ![p] = o] /\ n.field = g.field
  <2>1. /\ g.live \cup {o} \in SUBSET Objects /\ g.marked \ {o} \in SUBSET Objects
        /\ g.young + 1 \in Nat /\ [g.root EXCEPT ![p] = o] \in [Places -> Pointer]
    BY <1>1 DEF HeapTypes, Pointer
  <2> QED BY <1>1, <1>3, <2>1 DEF HeapTypes
<1>5. n.old \subseteq n.marked \cap n.live /\ n.weak = {}
  BY <1>1, <1>4 DEF Sound
<1>6. \A q \in Places : n.root[q] \in n.live \cup {Null}
  BY <1>1, <1>4 DEF Sound
<1>7. \A t \in Strings : interned[t] \in n.live \cup {Null}
  BY <1>4 DEF Sound
<1>8. \A x \in n.live, s \in Slots : n.field[x][s] \in n.live \cup {Null}
  BY <1>1, <1>4 DEF Sound, Empty
<1>9. \A x \in Objects \ n.live : n.field[x] = Empty
  BY <1>4 DEF Sound
<1>10. Sound(n)
  BY <1>4, <1>5, <1>6, <1>7, <1>8, <1>9 DEF Sound
<1> QED BY <1>4, <1>10 DEF n

LEMMA SoundNext ==
  ASSUME NEW g, Sound(g), heap' = g, interned' = interned
  PROVE  Sound(heap)'
BY DEF Sound

LEMMA CollectStep ==
  ASSUME Sound(heap), NEW g, Collected(heap, g), heap' = g, interned' = interned
  PROVE  Sound(heap)' /\ Promise!Collect
<1>1. /\ g.live \subseteq heap.live /\ g.root = heap.root
      /\ g.field = Forget(heap, g.live) /\ Sound(g)
  BY DEF Collected
<1>2. Promise!Survive({})
  BY <1>1, ReachableIsKept DEF Promise!Survive, Promise!Empty, Empty, Forget
<1>3. PlaceOrString' = PlaceOrString
  BY <1>1 DEF PlaceOrString
<1> QED BY <1>1, <1>2, <1>3, SoundNext DEF Promise!Collect

LEMMA AssignStep ==
  ASSUME Sound(heap), NEW p \in Places, NEW x \in heap.live \cup {Null},
         heap' = [heap EXCEPT !.root[p] = x], interned' = interned
  PROVE  Sound(heap)' /\ Promise!Assign(p, x)
<1>1. /\ heap \in HeapTypes /\ heap.live \subseteq Objects
      /\ heap.root \in [Places -> Pointer] /\ x \in Pointer
  BY DEF Sound, HeapTypes, Pointer
<1>2. [heap.root EXCEPT ![p] = x] \in [Places -> Pointer]
  BY <1>1
<1> DEFINE g == [heap EXCEPT !.root[p] = x]
<1>3. /\ g \in HeapTypes
      /\ g.live = heap.live /\ g.old = heap.old /\ g.marked = heap.marked /\ g.weak = heap.weak
      /\ g.field = heap.field /\ g.root = [heap.root EXCEPT ![p] = x]
  BY <1>1, <1>2 DEF HeapTypes
<1>4. heap' = g
  OBVIOUS
<1> HIDE DEF g
<1>5. Sound(g)
  BY <1>1, <1>3 DEF Sound
<1>6. PlaceOrString' = [PlaceOrString EXCEPT ![p] = x]
  BY <1>1, <1>3, <1>4 DEF PlaceOrString
<1> QED BY <1>3, <1>4, <1>5, <1>6, SoundNext DEF Promise!Assign

LEMMA PutStep ==
  ASSUME Sound(heap), NEW o \in heap.live, NEW s \in Slots, NEW x \in heap.live \cup {Null},
         heap' = [heap EXCEPT !.field[o][s] = x], interned' = interned
  PROVE  Sound(heap)' /\ Promise!Store(o, s, x)
<1>1. /\ heap \in HeapTypes /\ heap.live \subseteq Objects
      /\ heap.field \in [Objects -> [Slots -> Pointer]] /\ x \in Pointer
  BY DEF Sound, HeapTypes, Pointer
<1>2. [heap.field EXCEPT ![o][s] = x] \in [Objects -> [Slots -> Pointer]]
  BY <1>1
<1> DEFINE g == [heap EXCEPT !.field[o][s] = x]
<1>3. /\ g \in HeapTypes
      /\ g.live = heap.live /\ g.old = heap.old /\ g.marked = heap.marked /\ g.weak = heap.weak
      /\ g.root = heap.root /\ g.field = [heap.field EXCEPT ![o][s] = x]
  BY <1>1, <1>2 DEF HeapTypes
<1>4. heap' = g
  OBVIOUS
<1> HIDE DEF g
<1>5. Sound(g)
  BY <1>1, <1>3 DEF Sound
<1>6. PlaceOrString' = PlaceOrString
  BY <1>3, <1>4 DEF PlaceOrString
<1> QED BY <1>3, <1>4, <1>5, <1>6, SoundNext DEF Promise!Store

(* An allocation: a collection, a new object, and a place or two for it. *)
LEMMA AllocateStep ==
  ASSUME Sound(heap), interned \in [Strings -> Pointer],
         NEW g, Collected(heap, g), NEW o \in Free(g), NEW p \in Places,
         heap' = Placed(g, o, "plain", p),
         \/ interned' = interned
         \/ \E t \in Strings : interned' = [interned EXCEPT ![t] = o]
  PROVE  Sound(heap)' /\ interned' \in [Strings -> Pointer] /\ Promise!Allocate
<1>1. /\ Sound(g) /\ g.live \subseteq heap.live /\ g.live \subseteq Objects
      /\ g.root = heap.root /\ g.field = Forget(heap, g.live)
      /\ g.root \in [Places -> Pointer] /\ o \in Objects \ g.live
  BY DEF Collected, Sound, HeapTypes, Free
<1> DEFINE n == Placed(g, o, "plain", p)
<1>2. /\ Sound(n) /\ n.live = g.live \cup {o}
      /\ n.root = [g.root EXCEPT ![p] = o] /\ n.field = g.field
  BY <1>1, PlacedIsSound
<1>3. heap' = n
  OBVIOUS
<1> HIDE DEF n
<1>4. /\ interned' \in [Strings -> Pointer]
      /\ \A t \in Strings : interned'[t] \in {interned[t], o}
  BY <1>1 DEF Pointer
<1>5. Sound(heap)'
  <2>1. \A t \in Strings : interned'[t] \in n.live \cup {Null}
    BY <1>2, <1>4 DEF Sound
  <2> QED BY <1>2, <1>3, <2>1 DEF Sound
<1>6. Promise!Survive({o})
  <2>1. Promise!Reachable \cup {o} \subseteq n.live /\ n.live \subseteq heap.live \cup {o}
    BY <1>1, <1>2, ReachableIsKept
  <2>2. n.live \ {o} = g.live
    BY <1>1, <1>2
  <2>3. n.field = [x \in Objects |-> IF x \in n.live \ {o} THEN heap.field[x] ELSE Empty]
    BY <1>1, <1>2, <2>2 DEF Forget
  <2> QED BY <1>3, <2>1, <2>3 DEF Promise!Survive, Promise!Empty, Empty
<1>7. o \in Objects \ Promise!Reachable
  BY <1>1, ReachableIsKept
<1>8. /\ PlaceOrString' \in [Places \cup Strings -> Pointer]
      /\ \A x \in Places \cup Strings : PlaceOrString'[x] \in {PlaceOrString[x], o}
  <2>1. /\ n.root \in [Places -> Pointer]
        /\ \A q \in Places : n.root[q] \in {heap.root[q], o}
    BY <1>1, <1>2 DEF Pointer
  <2> QED BY <1>3, <1>4, <2>1 DEF PlaceOrString
<1> QED BY <1>4, <1>5, <1>6, <1>7, <1>8 DEF Promise!Allocate, Promise!Pointer, Pointer

-----------------------------------------------------------------------------
(* Actions *)

(* A full heap that has just been collected holds nothing but reachable    *)
(* objects.                                                                 *)
LEMMA FullIsExhausted ==
  ASSUME Sound(heap), Full(Settled(heap)), heap' = Settled(heap), interned' = interned
  PROVE  Exhausted'
<1> DEFINE g == Settled(heap)
<1>1. PICK f : Sound(f) /\ g = Major(f)
  BY SettledCollects
<1> HIDE DEF g
<1>2. g.live \subseteq Promise!Reach(g.field, Seeds(g))
  BY <1>1, MajorLeavesReachable
<1>3. heap' = g /\ Full(g)
  BY DEF g
<1> QED BY <1>2, <1>3 DEF Exhausted, Seeds, Full

(* A refused array or string leaves its place empty, with or without a     *)
(* collection.                                                             *)
LEMMA RefusedNull ==
  ASSUME Sound(heap), NEW g, Collected(heap, g), NEW p \in Places,
         heap' = [g EXCEPT !.root[p] = Null], interned' = interned
  PROVE  Sound(heap)' /\ Promise!Collect
<1>1. /\ Sound(g) /\ g \in HeapTypes /\ g.live \subseteq heap.live /\ g.root = heap.root
      /\ g.field = Forget(heap, g.live) /\ g.root \in [Places -> Pointer]
  BY DEF Collected, Sound, HeapTypes
<1> DEFINE n == [g EXCEPT !.root[p] = Null]
<1>2. [g.root EXCEPT ![p] = Null] \in [Places -> Pointer]
  BY <1>1 DEF Pointer
<1>3. /\ n \in HeapTypes
      /\ n.live = g.live /\ n.old = g.old /\ n.marked = g.marked /\ n.weak = g.weak
      /\ n.field = g.field /\ n.root = [g.root EXCEPT ![p] = Null]
  BY <1>1, <1>2 DEF HeapTypes
<1>4. heap' = n
  OBVIOUS
<1> HIDE DEF n
<1>5. Sound(n)
  BY <1>1, <1>3 DEF Sound
<1>6. Promise!Survive({})
  BY <1>1, <1>3, <1>4, ReachableIsKept DEF Promise!Survive, Promise!Empty, Empty, Forget
<1>7. PlaceOrString' = [PlaceOrString EXCEPT ![p] = Null]
  BY <1>1, <1>3, <1>4 DEF PlaceOrString
<1> QED BY <1>4, <1>5, <1>6, <1>7, SoundNext DEF Promise!Collect

LEMMA NewObjectStep ==
  ASSUME IInv, "weak" \notin Kinds, NEW p \in Registers, NewObject(p)
  PROVE  IInv' /\ Promise!HeapNext
<1> DEFINE h == Settled(heap)
<1>1. p \in Places /\ Sound(heap) /\ Collected(heap, h) /\ interned' = interned
      /\ interned \in [Strings -> Pointer]
  BY SettledCollects DEF IInv, NewObject, Places
<1>2. CASE Full(h) /\ heap' = h /\ refused' = "error"
  <2>1. Exhausted'
    BY <1>1, <1>2, FullIsExhausted
  <2>2. Sound(heap)' /\ Promise!Collect
    BY <1>1, <1>2, CollectStep
  <2> QED BY <1>1, <1>2, <2>1, <2>2 DEF IInv, Promise!HeapNext
<1>4. CASE heap' = [h EXCEPT !.root[p] = Null] /\ refused' = "null"
  <2>1. Sound(heap)' /\ Promise!Collect
    BY <1>1, <1>4, RefusedNull
  <2> QED BY <1>1, <1>4, <2>1 DEF IInv, Promise!HeapNext
<1>3. CASE \E o \in Free(h), k \in Kinds : heap' = Placed(h, o, k, p) /\ refused' = "none"
  <2>1. PICK o \in Free(h), k \in Kinds : heap' = Placed(h, o, k, p)
    BY <1>3
  <2>2. k = "plain"
    BY HeapAssumption
  <2>3. Sound(heap)' /\ Promise!Allocate
    BY <1>1, <2>1, <2>2, AllocateStep
  <2> QED BY <1>1, <1>3, <2>3 DEF IInv, Promise!HeapNext
<1> QED BY <1>2, <1>3, <1>4 DEF NewObject

LEMMA ConstStringStep ==
  ASSUME IInv, NEW p \in Registers, NEW t \in Strings, ConstString(p, t)
  PROVE  IInv' /\ Promise!HeapNext
<1> DEFINE h == Settled(heap)
<1>1. /\ p \in Places /\ Sound(heap) /\ Collected(heap, h)
      /\ interned \in [Strings -> Pointer]
  BY SettledCollects DEF IInv, Places
<1>2. CASE /\ interned[t] \in Objects
           /\ heap' = [heap EXCEPT !.root[p] = interned[t]]
           /\ refused' = "none" /\ interned' = interned
  <2>1. interned[t] \in heap.live \cup {Null}
    BY <1>1 DEF Sound
  <2>2. Sound(heap)' /\ Promise!Assign(p, interned[t])
    BY <1>1, <1>2, <2>1, AssignStep
  <2>3. PlaceOrString[t] = interned[t]
    BY HeapAssumption DEF PlaceOrString
  <2> QED BY <1>1, <1>2, <2>2, <2>3 DEF IInv, Promise!HeapNext
<1>3. CASE /\ \/ heap' = [heap EXCEPT !.root[p] = Null]
              \/ heap' = [h EXCEPT !.root[p] = Null]
           /\ refused' = "null" /\ interned' = interned
  <2>1. Sound(heap)' /\ Promise!Collect
    BY <1>1, <1>3, NotCollected, RefusedNull
  <2> QED BY <1>1, <1>3, <2>1 DEF IInv, Promise!HeapNext
<1>4. CASE /\ refused' = "none"
           /\ \E o \in Free(h) :
                 /\ heap' = Placed(h, o, "plain", p)
                 /\ \/ interned' = [interned EXCEPT ![t] = o]
                    \/ interned' = interned
  <2>1. Sound(heap)' /\ interned' \in [Strings -> Pointer] /\ Promise!Allocate
    BY <1>1, <1>4, AllocateStep
  <2> QED BY <1>4, <2>1 DEF IInv, Promise!HeapNext
<1> QED BY <1>2, <1>3, <1>4 DEF ConstString

LEMMA GcCollectStep ==
  ASSUME IInv, GcCollect
  PROVE  IInv' /\ Promise!HeapNext
<1>1. Sound(heap)' /\ Promise!Collect
  BY MajorCollects, CollectStep DEF IInv, GcCollect
<1> QED BY <1>1 DEF IInv, GcCollect, Promise!HeapNext

(* What a move may write is alive. *)
LEMMA MoveStep ==
  ASSUME IInv, NEW p \in Places, NEW x \in heap.live \cup {Null}, Move(p, x)
  PROVE  IInv' /\ Promise!Assign(p, x)
<1>1. Sound(heap)' /\ Promise!Assign(p, x)
  BY AssignStep DEF IInv, Move
<1> QED BY <1>1 DEF IInv, Move

LEMMA PutPreserves ==
  ASSUME IInv, NEW o \in heap.live, NEW s \in Slots, NEW x \in heap.live \cup {Null}, Put(o, s, x)
  PROVE  IInv' /\ Promise!Store(o, s, x)
<1>1. Sound(heap)' /\ Promise!Store(o, s, x)
  BY PutStep DEF IInv, Put
<1> QED BY <1>1 DEF IInv, Put

(* Every step keeps the invariant and is a step of AbstractHeap.            *)
LEMMA StepImplements ==
  ASSUME IInv, "weak" \notin Kinds, Next
  PROVE  IInv' /\ Promise!HeapNext
<1>1. /\ \A q \in Places : heap.root[q] \in heap.live \cup {Null} /\ PlaceOrString[q] = heap.root[q]
      /\ heap.live \subseteq Objects /\ Registers \subseteq Places
  BY DEF IInv, Sound, HeapTypes, PlaceOrString, Places
<1>2. CASE GcCollect
  BY <1>2, GcCollectStep
<1>3. ASSUME NEW p \in Registers, NewObject(p) PROVE IInv' /\ Promise!HeapNext
  BY <1>3, NewObjectStep
<1>4. ASSUME NEW p \in Registers, Move(p, Null) PROVE IInv' /\ Promise!HeapNext
  <2>1. IInv' /\ Promise!Assign(p, Null)
    BY <1>1, <1>4, MoveStep
  <2> QED BY <1>1, <2>1 DEF Promise!HeapNext
<1>5. ASSUME NEW p \in Registers, NEW t \in Strings, ConstString(p, t) PROVE IInv' /\ Promise!HeapNext
  BY <1>5, ConstStringStep
<1>6. ASSUME NEW p \in Places, NEW q \in Places, Move(p, heap.root[q])
      PROVE  IInv' /\ Promise!HeapNext
  <2>1. IInv' /\ Promise!Assign(p, PlaceOrString[q])
    BY <1>1, <1>6, MoveStep
  <2> QED BY <2>1 DEF Promise!HeapNext
<1>7. ASSUME NEW p \in Registers, NEW q \in Registers, NEW s \in Slots, heap.root[q] \in Objects,
             Move(p, heap.field[heap.root[q]][s]) \/ Put(heap.root[q], s, heap.root[p])
      PROVE  IInv' /\ Promise!HeapNext
  <2>1. heap.root[q] \in heap.live /\ q \in Places /\ p \in Places /\ PlaceOrString[q] \in Objects
    BY <1>1, <1>7, HeapAssumption
  <2>2. CASE Move(p, heap.field[heap.root[q]][s])
    <3>1. heap.field[heap.root[q]][s] \in heap.live \cup {Null}
      BY <2>1 DEF IInv, Sound
    <3>2. IInv' /\ Promise!Assign(p, heap.field[PlaceOrString[q]][s])
      BY <1>1, <2>1, <2>2, <3>1, MoveStep
    <3> QED BY <2>1, <3>2 DEF Promise!HeapNext
  <2>3. CASE Put(heap.root[q], s, heap.root[p])
    <3>1. IInv' /\ Promise!Store(PlaceOrString[q], s, PlaceOrString[p])
      BY <1>1, <2>1, <2>3, PutPreserves
    <3> QED BY <2>1, <3>1 DEF Promise!HeapNext
  <2> QED BY <1>7, <2>2, <2>3
<1> QED BY <1>1, <1>2, <1>3, <1>4, <1>5, <1>6, <1>7 DEF Next

-----------------------------------------------------------------------------
(* Theorems *)

LEMMA InitSound == Init => IInv
<1> SUFFICES ASSUME Init PROVE IInv
  OBVIOUS
<1>1. [o \in Objects |-> Empty] \in [Objects -> [Slots -> Pointer]]
  BY DEF Empty, Pointer
<1>2. heap \in HeapTypes /\ heap.weak = {} /\ heap.old = {} /\ heap.live = {}
      /\ heap.root = [p \in Places |-> Null] /\ heap.field = [o \in Objects |-> Empty]
  <2>1. [p \in Places |-> Null] \in [Places -> Pointer] /\ 0 \in 0 .. MajorEvery - 1
    BY HeapAssumption DEF Pointer
  <2> QED BY <1>1, <2>1 DEF Init, HeapTypes
<1>3. interned \in [Strings -> Pointer] /\ \A t \in Strings : interned[t] = Null
  BY DEF Init, Pointer
<1>4. Sound(heap)
  BY <1>2, <1>3 DEF Sound
<1> QED BY <1>3, <1>4 DEF IInv, Init

(* Without weak references the strengthened invariant holds for ever.      *)
THEOREM HeapInvariant ==
  ASSUME "weak" \notin Kinds
  PROVE  Spec => []IInv
<1>1. IInv /\ [Next]_vars => IInv'
  <2> SUFFICES ASSUME IInv, [Next]_vars PROVE IInv'
    OBVIOUS
  <2>1. CASE Next
    BY <2>1, StepImplements
  <2>2. CASE UNCHANGED vars
    BY <2>2 DEF vars, IInv, Sound, Exhausted, Full, Seeds
  <2> QED BY <2>1, <2>2
<1> QED BY <1>1, InitSound, PTL DEF Spec

(* Type correctness. *)
THEOREM HeapTypeOK ==
  ASSUME "weak" \notin Kinds
  PROVE  Spec => []TypeOK
<1>1. IInv => TypeOK
  BY DEF IInv, TypeOK, Sound
<1> QED BY <1>1, HeapInvariant, PTL

(* No place, string or field of an object points at freed storage after    *)
(* any sequence of minor and major collections (dx_vm_gc, dx_vm_gc_minor).  *)
THEOREM NoDanglingTheorem ==
  ASSUME "weak" \notin Kinds
  PROVE  Spec => []NoDangling
<1>1. IInv => NoDangling
  BY DEF IInv, NoDangling, Sound
<1> QED BY <1>1, HeapInvariant, PTL

(* Every old object carries a mark, which dx_vm_gc_minor relies on when it *)
(* tests the result and the exception of a frame.                           *)
THEOREM OldAreMarkedTheorem ==
  ASSUME "weak" \notin Kinds
  PROVE  Spec => []OldAreMarked
<1>1. IInv => OldAreMarked
  BY DEF IInv, OldAreMarked, Sound
<1> QED BY <1>1, HeapInvariant, PTL

(* new-instance fails only when the program itself holds as many objects   *)
(* as the heap has room for.                                                *)
THEOREM RefusedOnlyWhenFullTheorem ==
  ASSUME "weak" \notin Kinds
  PROVE  Spec => []RefusedOnlyWhenFull
<1>1. IInv => RefusedOnlyWhenFull
  <2> SUFFICES ASSUME IInv, refused = "error" PROVE Cardinality(Promise!Reachable) >= Capacity
    BY DEF RefusedOnlyWhenFull
  <2>1. Sound(heap) /\ Exhausted
    BY DEF IInv
  <2>2. Promise!Reachable = heap.live
    <3>1. Promise!Reachable \subseteq heap.live
      BY <2>1, NotCollected, ReachableIsKept
    <3>2. heap.live \subseteq Promise!Reachable
      BY <2>1, HeldIsSeeds DEF Exhausted, Promise!Reachable
    <3> QED BY <3>1, <3>2
  <2> QED BY <2>1, <2>2 DEF Exhausted, Full
<1> QED BY <1>1, HeapInvariant, PTL

(* The allocator, the two collectors and the bytecodes that move           *)
(* references implement the heap of AbstractHeap: what a program can reach *)
(* neither disappears nor changes.                                          *)
THEOREM IsHeapTheorem ==
  ASSUME "weak" \notin Kinds
  PROVE  Spec => IsHeap
<1>1. Init => Promise!HeapInit
  BY DEF Init, Promise!HeapInit, PlaceOrString, Promise!Empty, Empty
<1>2. IInv /\ [Next]_vars => [Promise!HeapNext]_(Promise!heapVars)
  <2> SUFFICES ASSUME IInv, [Next]_vars PROVE [Promise!HeapNext]_(Promise!heapVars)
    OBVIOUS
  <2>1. CASE Next
    BY <2>1, StepImplements
  <2>2. CASE UNCHANGED vars
    BY <2>2 DEF vars, Promise!heapVars, PlaceOrString
  <2> QED BY <2>1, <2>2
<1> QED BY <1>1, <1>2, HeapInvariant, PTL DEF Spec, IsHeap, Promise!HeapSpec

-----------------------------------------------------------------------------
(* What the launch's invariant says                                        *)

Permanent == {"activity", "application", "appContext", "actContext", "intent"}
Running == Attached \/ pc \in {"cluster", "resumed"}
Adders == {"nobody", "application", "launch", "done", "refused"}

Views == [decor : Roles \cup {"none"}, params : Roles \cup {"none"}, added : BOOLEAN,
          complete : BOOLEAN, pending : BOOLEAN, phase : {"idle", "scheduled", "completed"},
          visible : BOOLEAN, first : BOOLEAN, valid : BOOLEAN, drawn : Nat]
Adds == [by : Adders, next : 0 .. 5, view : Roles \cup {"none"}, params : Roles \cup {"none"}]

LaunchTypes ==
    /\ pc \in {"create", "objects", "cluster", "resumed", "failed", "destroyed", "undefined"} \cup Elements(Methods)
    /\ live \subseteq Roles /\ held \subseteq Roles /\ roots \subseteq Roles
    /\ edges \subseteq Roles \X Roles
    /\ add \in Adds
    /\ view \in Views
    /\ budget \in [refusals : Nat, changes : Nat]

(* Where the fields keep what C points to: nothing is more than three      *)
(* fields from the Activity.                                               *)
Kept ==
    /\ InMethod \/ Running => Permanent \subseteq roots
    /\ Running => AttachFields \subseteq edges
    /\ "root" \in held => Running \/ pc = "failed"
    /\ "root" \in held => <<"manager", "root">> \in edges
    /\ \A o \in held \cap ({"session", "attachInfo", "surface"} \cup OwnObjects) :
          "root" \in held /\ <<"root", o>> \in edges
    /\ Running => HostPointersLive

(* A call of addView, and what it leaves.                                  *)
Adding ==
    /\ add.next = 0 => /\ add.by \in {"nobody", "done", "refused"}
                       /\ add.view = "none" /\ add.params = "none"
    /\ add.by = "nobody" => add.next = 0
    /\ add.next # 0 => /\ IF add.by = "launch"
                          THEN pc = "cluster" /\ add.view = "decor" /\ add.params = "attributes"
                          ELSE add.by = "application" /\ Attached
                       /\ add.view \in {"decor", "ownView"} /\ add.params \in {"attributes", "ownParams"}
                       /\ {add.view, add.params} \subseteq live
                       /\ ~view.added
                       /\ add.next = 1 <=> "root" \notin held
    /\ add.by \in {"done", "refused"} => pc = "cluster"

Viewing ==
    /\ view.added => pc = "destroyed" \/ "root" \in held
    /\ add.by = "done" \/ pc = "resumed" =>
          view.added /\ view.decor = "decor" /\ view.params = "attributes"
    /\ view.valid => view.drawn >= 1
    /\ view.phase = "completed" => ~view.pending /\ (view.valid => view.drawn >= 2)

Made == held \cap Elements(LaunchObjects)

LaunchInv ==
    /\ LaunchTypes /\ Kept /\ Adding /\ Viewing
    /\ pc = "objects" => Cardinality(Made) < Len(LaunchObjects) /\ "activity" \in roots

(* A non-empty set of numbers has a least element.                         *)
LEMMA LeastNumber ==
  ASSUME NEW T, T \subseteq Nat, T # {}
  PROVE  \E x \in T : \A y \in T : x <= y
<1> DEFINE D == {0 .. x : x \in T}
           R == StrictSubsetOrdering(Nat)
           S == FiniteSubsetsOf(Nat)
<1>1. IsWellFoundedOn(R, S)
  BY FS_StrictSubsetOrderingWellFounded
<1>2. ASSUME NEW x \in T PROVE 0 .. x \in S
  <2>1. IsFiniteSet(0 .. x)
    BY FS_Interval
  <2> QED BY <2>1 DEF FiniteSubsetsOf
<1>3. D \subseteq S /\ D # {}
  BY <1>2
<1>4. \E X \in D : \A Y \in D : ~ (<<Y, X>> \in R)
  <2> HIDE DEF D, R, S
  <2> QED BY <1>1, <1>3, WFMin
<1>5. PICK x \in T : \A Y \in D : ~ (<<Y, 0 .. x>> \in R)
  BY <1>4
<1>6. ASSUME NEW y \in T, y < x PROVE FALSE
  <2>1. 0 .. y \subseteq 0 .. x
    BY <1>6
  <2>2. x \in 0 .. x /\ x \notin 0 .. y
    BY <1>6
  <2>3. <<0 .. y, 0 .. x>> \in R
    BY <2>1, <2>2 DEF StrictSubsetOrdering
  <2> QED BY <1>5, <2>3
<1> QED BY <1>5, <1>6

-----------------------------------------------------------------------------
(* The collector's marks                                                   *)

(* The definition of Marked has a solution, whatever the starts: the ends  *)
(* of the paths of n steps, a step that stays being allowed.               *)
LEMMA MarksExist ==
  ASSUME NEW C \in Nat, NEW starts
  PROVE  \E g : g = [n \in 0 .. C |-> IF n = 0 THEN starts ELSE Follow(g[n - 1])]
<1> DEFINE X == starts \cup {e[2] : e \in edges}
           Path(n, p) == /\ p \in [0 .. n -> X] /\ p[0] \in starts
                         /\ \A i \in 0 .. n : i # 0 => p[i] \in Follow({p[i - 1]})
           Ends(n) == {x \in X : \E p : Path(n, p) /\ p[n] = x}
           g == [n \in 0 .. C |-> Ends(n)]
<1>1. Ends(0) = starts
  <2>1. ASSUME NEW x \in starts PROVE x \in Ends(0)
    <3> DEFINE p == [i \in 0 .. 0 |-> x]
    <3>1. Path(0, p) /\ p[0] = x
      OBVIOUS
    <3> QED BY <3>1
  <2> QED BY <2>1
<1>2. ASSUME NEW n \in 0 .. C, n # 0 PROVE Ends(n) = Follow(Ends(n - 1))
  <2>1. ASSUME NEW x \in Ends(n) PROVE x \in Follow(Ends(n - 1))
    <3>1. PICK p : Path(n, p) /\ p[n] = x
      OBVIOUS
    <3> DEFINE q == [i \in 0 .. n - 1 |-> p[i]]
    <3>2. Path(n - 1, q) /\ q[n - 1] = p[n - 1]
      BY <3>1, <1>2
    <3>3. p[n - 1] \in Ends(n - 1)
      <4>1. p[n - 1] \in X
        BY <3>1, <1>2
      <4> HIDE DEF Path, q
      <4> QED BY <3>2, <4>1
    <3>4. x \in Follow({p[n - 1]})
      BY <3>1, <1>2
    <3> QED BY <3>3, <3>4 DEF Follow
  <2>2. ASSUME NEW x \in Follow(Ends(n - 1)) PROVE x \in Ends(n)
    <3>1. PICK y \in Ends(n - 1) : x \in Follow({y})
      BY <2>2 DEF Follow
    <3>2. PICK p : Path(n - 1, p) /\ p[n - 1] = y
      BY <3>1
    <3>3. x \in X
      BY <3>1 DEF Follow
    <3> DEFINE q == [i \in 0 .. n |-> IF i = n THEN x ELSE p[i]]
    <3>4. q \in [0 .. n -> X] /\ q[0] \in starts /\ q[n] = x
      BY <3>2, <3>3, <1>2
    <3>5. \A i \in 0 .. n : i # 0 => q[i] \in Follow({q[i - 1]})
      <4> SUFFICES ASSUME NEW i \in 0 .. n, i # 0 PROVE q[i] \in Follow({q[i - 1]})
        OBVIOUS
      <4>1. CASE i = n
        <5>1. q[i] = x /\ q[i - 1] = y
          BY <4>1, <3>2, <1>2
        <5> QED BY <5>1, <3>1
      <4>2. CASE i # n
        <5>1. i \in 0 .. n - 1 /\ q[i] = p[i] /\ q[i - 1] = p[i - 1]
          BY <4>2, <1>2
        <5> QED BY <5>1, <3>2
      <4> QED BY <4>1, <4>2
    <3> QED BY <3>3, <3>4, <3>5
  <2> QED BY <2>1, <2>2
<1>3. \A n \in 0 .. C : g[n] = IF n = 0 THEN starts ELSE Follow(g[n - 1])
  <2> TAKE n \in 0 .. C
  <2>1. n # 0 => n - 1 \in 0 .. C
    OBVIOUS
  <2> HIDE DEF Ends
  <2> QED BY <1>1, <1>2, <2>1
<1>4. g = [n \in 0 .. C |-> IF n = 0 THEN starts ELSE Follow(g[n - 1])]
  <2> HIDE DEF Ends
  <2> QED BY <1>3
<1> QED BY <1>4

LEMMA RolesCount == Cardinality(Roles) \in Nat /\ Cardinality(Roles) >= 3 /\ IsFiniteSet(Elements(LaunchObjects))
<1>1. IsFiniteSet(Elements(LaunchObjects)) /\ IsFiniteSet(Elements(ViewRootObjects))
  <2>1. \A n \in Int : IsFiniteSet(1 .. n)
    BY FS_Interval
  <2>2. PICK a, b \in Int : a = 8 /\ b = 4
    OBVIOUS
  <2> DEFINE f == [i \in 1 .. a |-> LaunchObjects[i]]
             h == [i \in 1 .. b |-> ViewRootObjects[i]]
  <2>3. DOMAIN LaunchObjects = 1 .. a /\ DOMAIN ViewRootObjects = 1 .. b
    BY <2>2 DEF LaunchObjects, ViewRootObjects
  <2>4. f \in Surjection(1 .. a, Elements(LaunchObjects))
    BY <2>3 DEF Elements, Surjection
  <2>5. h \in Surjection(1 .. b, Elements(ViewRootObjects))
    BY <2>3 DEF Elements, Surjection
  <2>6. IsFiniteSet(Elements(LaunchObjects))
    BY <2>1, <2>4, FS_Surjection
  <2>7. IsFiniteSet(Elements(ViewRootObjects))
    BY <2>1, <2>5, FS_Surjection
  <2> QED BY <2>6, <2>7
<1>2. IsFiniteSet(Roles)
  <2>1. IsFiniteSet({"activity"}) /\ IsFiniteSet({"ownView"}) /\ IsFiniteSet({"ownParams"})
    BY FS_Singleton
  <2>2. OwnObjects = {"ownView"} \cup {"ownParams"}
    BY DEF OwnObjects
  <2> QED BY <1>1, <2>1, <2>2, FS_Union DEF Roles
<1>3. Cardinality({"activity", "ownView", "ownParams"}) = 3
  <2>1. {"activity", "ownView", "ownParams"} = ({"activity"} \cup {"ownView"}) \cup {"ownParams"}
    OBVIOUS
  <2>2. Cardinality({"activity"}) = 1 /\ IsFiniteSet({"activity"})
    BY FS_Singleton
  <2>3. Cardinality({"activity"} \cup {"ownView"}) = 2 /\ IsFiniteSet({"activity"} \cup {"ownView"})
    BY <2>2, FS_AddElement
  <2>4. "ownParams" \notin {"activity"} \cup {"ownView"}
    OBVIOUS
  <2> QED BY <2>1, <2>3, <2>4, FS_AddElement
<1>4. {"activity", "ownView", "ownParams"} \subseteq Roles
  BY DEF Roles, OwnObjects
<1> QED BY <1>1, <1>2, <1>3, <1>4, FS_Subset, FS_CardinalityType

LEMMA MarkedSteps ==
  \A n \in 0 .. Cardinality(Roles) :
      Marked[n] = IF n = 0 THEN roots \cup ({add.view, add.params} \cap live)
                  ELSE Follow(Marked[n - 1])
<1> DEFINE starts == roots \cup ({add.view, add.params} \cap live)
<1>1. \E g : g = [n \in 0 .. Cardinality(Roles) |-> IF n = 0 THEN starts ELSE Follow(g[n - 1])]
  <2> HIDE DEF starts
  <2> QED BY RolesCount, MarksExist
<1>2. Marked = [n \in 0 .. Cardinality(Roles) |-> IF n = 0 THEN starts ELSE Follow(Marked[n - 1])]
  BY <1>1, Zenon DEF Marked
<1>3. \A n \in 0 .. Cardinality(Roles) : Marked[n] = IF n = 0 THEN starts ELSE Follow(Marked[n - 1])
  <2> HIDE DEF starts
  <2> QED BY <1>2
<1> QED BY <1>3

(* Marks stay until the end.                                               *)
LEMMA MarksStay ==
  ASSUME NEW n \in 0 .. Cardinality(Roles)
  PROVE  Marked[n] \subseteq Reachable
<1> DEFINE C == Cardinality(Roles)
           T == {k \in 0 .. C : ~ (Marked[C - k] \subseteq Reachable)}
<1>1. C \in Nat
  BY RolesCount
<1>2. ASSUME T # {} PROVE FALSE
  <2>1. PICK k \in T : \A j \in T : k <= j
    <3>1. T \subseteq Nat
      BY <1>1
    <3> HIDE DEF T
    <3> QED BY <3>1, <1>2, LeastNumber
  <2>2. k # 0
    BY <1>1, <2>1 DEF Reachable
  <2>3. k - 1 \in 0 .. C /\ k - 1 \notin T
    BY <1>1, <2>1, <2>2
  <2>4. C - (k - 1) \in 0 .. C /\ C - (k - 1) # 0 /\ (C - (k - 1)) - 1 = C - k
    BY <1>1, <2>1, <2>2
  <2>5. Marked[C - k] \subseteq Marked[C - (k - 1)]
    <3>1. Marked[C - (k - 1)] = Follow(Marked[C - k])
      BY <2>4, MarkedSteps
    <3> QED BY <3>1 DEF Follow
  <2> QED BY <2>1, <2>3, <2>5
<1>3. C - n \in 0 .. C /\ C - (C - n) = n
  BY <1>1
<1>4. C - n \notin T
  BY <1>2
<1> QED BY <1>3, <1>4

(* What three fields lead to from a start is reachable.                    *)
LEMMA ThreeSteps ==
  ASSUME NEW a \in roots \cup ({add.view, add.params} \cap live)
  PROVE  /\ a \in Reachable
         /\ \A b : <<a, b>> \in edges => b \in Reachable
         /\ \A b, c : <<a, b>> \in edges /\ <<b, c>> \in edges => c \in Reachable
         /\ \A b, c, d : <<a, b>> \in edges /\ <<b, c>> \in edges /\ <<c, d>> \in edges => d \in Reachable
<1>1. \A m, x, y : x \in m /\ <<x, y>> \in edges => y \in Follow(m)
  <2> TAKE m, x, y
  <2> HAVE x \in m /\ <<x, y>> \in edges
  <2>1. <<x, y>>[1] = x /\ <<x, y>>[2] = y
    OBVIOUS
  <2> QED BY <2>1 DEF Follow
<1>2. \A m : m \subseteq Follow(m)
  BY DEF Follow
<1>3. Cardinality(Roles) \in Nat /\ Cardinality(Roles) >= 3
  BY RolesCount
<1>4. a \in Marked[0]
  BY <1>3, MarkedSteps
<1>5. Marked[1] = Follow(Marked[0]) /\ Marked[2] = Follow(Marked[1]) /\ Marked[3] = Follow(Marked[2])
  <2>1. 1 \in 0 .. Cardinality(Roles) /\ 2 \in 0 .. Cardinality(Roles) /\ 3 \in 0 .. Cardinality(Roles)
    BY <1>3
  <2> QED BY <2>1, MarkedSteps
<1>6. /\ Marked[0] \subseteq Reachable /\ Marked[1] \subseteq Reachable
      /\ Marked[2] \subseteq Reachable /\ Marked[3] \subseteq Reachable
  BY <1>3, MarksStay
<1>7. \A b : <<a, b>> \in edges => b \in Marked[1]
  BY <1>1, <1>4, <1>5
<1>8. \A b, c : <<a, b>> \in edges /\ <<b, c>> \in edges => c \in Marked[2]
  BY <1>1, <1>5, <1>7
<1>9. \A b, c, d : <<a, b>> \in edges /\ <<b, c>> \in edges /\ <<c, d>> \in edges => d \in Marked[3]
  BY <1>1, <1>5, <1>8
<1> QED BY <1>4, <1>6, <1>7, <1>8, <1>9

-----------------------------------------------------------------------------
(* The phases of the launch                                                *)

Entered == {"onCreate", "onStart", "onResume", "onPostResume"}
Called == {"application.<init>", "application.onCreate", "activity.<init>"} \cup Entered

LEMMA MethodNames ==
  /\ Len(Methods) = 7 /\ DOMAIN Methods = 1 .. 7
  /\ Methods[1] = "application.<init>" /\ Methods[2] = "application.onCreate"
  /\ Methods[3] = "activity.<init>" /\ Methods[4] = "onCreate" /\ Methods[5] = "onStart"
  /\ Methods[6] = "onResume" /\ Methods[7] = "onPostResume"
BY DEF Methods

LEMMA MethodsAre ==
  /\ Elements(Methods) = Called
  /\ \A x : (\E i \in 4 .. Len(Methods) : x = Methods[i]) <=> x \in Entered
<1>1. \A i \in 1 .. 7 : i = 1 \/ i = 2 \/ i = 3 \/ i = 4 \/ i = 5 \/ i = 6 \/ i = 7
  OBVIOUS
<1>2. Elements(Methods) = Called
  BY <1>1, MethodNames DEF Elements, Called, Entered
<1>3. \A i \in 4 .. 7 : i = 4 \/ i = 5 \/ i = 6 \/ i = 7
  OBVIOUS
<1>4. \A x : (\E i \in 4 .. Len(Methods) : x = Methods[i]) <=> x \in Entered
  BY <1>3, MethodNames DEF Entered
<1> QED BY <1>2, <1>4

LEMMA Phases ==
  /\ InMethod <=> pc \in Called
  /\ Attached <=> pc \in Entered
  /\ Running <=> pc \in Entered \cup {"cluster", "resumed"}
  /\ InMethod' <=> pc' \in Called
  /\ Attached' <=> pc' \in Entered
  /\ Running' <=> pc' \in Entered \cup {"cluster", "resumed"}
BY MethodsAre DEF InMethod, Attached, Running

LEMMA RolesAre ==
  /\ Elements(LaunchObjects) = {"appContext", "actContext", "intent", "application",
                                "window", "decor", "manager", "attributes"}
  /\ Elements(ViewRootObjects) = {"root", "session", "attachInfo", "surface"}
  /\ Len(LaunchObjects) = 8 /\ DOMAIN LaunchObjects = 1 .. 8
  /\ Len(ViewRootObjects) = 4 /\ DOMAIN ViewRootObjects = 1 .. 4
  /\ ViewRootObjects[1] = "root" /\ ViewRootObjects[2] = "session"
  /\ ViewRootObjects[3] = "attachInfo" /\ ViewRootObjects[4] = "surface"
  /\ Roles = {"activity", "appContext", "actContext", "intent", "application", "window", "decor",
              "manager", "attributes", "root", "session", "attachInfo", "surface",
              "ownView", "ownParams"}
<1>1. /\ Len(LaunchObjects) = 8 /\ DOMAIN LaunchObjects = 1 .. 8
      /\ LaunchObjects[1] = "appContext" /\ LaunchObjects[2] = "actContext" /\ LaunchObjects[3] = "intent"
      /\ LaunchObjects[4] = "application" /\ LaunchObjects[5] = "window" /\ LaunchObjects[6] = "decor"
      /\ LaunchObjects[7] = "manager" /\ LaunchObjects[8] = "attributes"
  BY DEF LaunchObjects
<1>2. /\ Len(ViewRootObjects) = 4 /\ DOMAIN ViewRootObjects = 1 .. 4
      /\ ViewRootObjects[1] = "root" /\ ViewRootObjects[2] = "session"
      /\ ViewRootObjects[3] = "attachInfo" /\ ViewRootObjects[4] = "surface"
  BY DEF ViewRootObjects
<1>3. \A i \in 1 .. 8 : i = 1 \/ i = 2 \/ i = 3 \/ i = 4 \/ i = 5 \/ i = 6 \/ i = 7 \/ i = 8
  OBVIOUS
<1>4. \A i \in 1 .. 4 : i = 1 \/ i = 2 \/ i = 3 \/ i = 4
  OBVIOUS
<1>5. Elements(LaunchObjects) = {"appContext", "actContext", "intent", "application",
                                 "window", "decor", "manager", "attributes"}
  BY <1>1, <1>3 DEF Elements
<1>6. Elements(ViewRootObjects) = {"root", "session", "attachInfo", "surface"}
  BY <1>2, <1>4 DEF Elements
<1>7. Roles = {"activity", "appContext", "actContext", "intent", "application", "window", "decor",
               "manager", "attributes", "root", "session", "attachInfo", "surface",
               "ownView", "ownParams"}
  BY <1>5, <1>6 DEF Roles, OwnObjects
<1> QED BY <1>1, <1>2, <1>5, <1>6, <1>7

(* While a collection may run, what C points to is reachable.              *)
LEMMA HeldIsReachable ==
  ASSUME LaunchTypes, Kept, Running
  PROVE  held \subseteq Reachable
<1>1. \A o \in Permanent : o \in Reachable
  BY ThreeSteps DEF Kept
<1>2. "activity" \in roots \cup ({add.view, add.params} \cap live)
  BY DEF Kept, Permanent
<1>3. /\ <<"activity", "window">> \in edges /\ <<"activity", "manager">> \in edges
      /\ <<"activity", "decor">> \in edges /\ <<"window", "attributes">> \in edges
  BY DEF Kept, AttachFields
<1>4. {"window", "manager", "decor", "attributes"} \subseteq Reachable
  BY <1>2, <1>3, ThreeSteps
<1>5. "root" \in held => "root" \in Reachable
  BY <1>2, <1>3, ThreeSteps DEF Kept
<1>6. ASSUME NEW o \in held \cap ({"session", "attachInfo", "surface"} \cup OwnObjects)
      PROVE  o \in Reachable
  <2>1. <<"manager", "root">> \in edges /\ <<"root", o>> \in edges
    BY <1>6 DEF Kept
  <2> QED BY <1>2, <1>3, <2>1, ThreeSteps
<1>7. Roles = Permanent \cup {"window", "manager", "decor", "attributes"} \cup {"root"}
                \cup ({"session", "attachInfo", "surface"} \cup OwnObjects)
  BY RolesAre DEF Permanent, OwnObjects
<1> QED BY <1>1, <1>4, <1>5, <1>6, <1>7 DEF LaunchTypes

-----------------------------------------------------------------------------
(* Each action keeps the invariant                                         *)

LEMMA CreateGameKeeps ==
  ASSUME LaunchInv, CreateGame
  PROVE  LaunchInv'
<1>1. pc = "create" /\ edges' = edges /\ add' = add /\ view' = view /\ pc' \in {"objects", "failed"}
  BY DEF CreateGame
<1>2. \/ /\ live' = {"activity"} /\ roots' = {"activity"} /\ held' = {"activity"} /\ budget' = budget
      \/ /\ live' = live /\ roots' = roots /\ held' = held /\ pc' = "failed"
         /\ budget' = [budget EXCEPT !.refusals = @ - 1] /\ budget.refusals > 0
  BY DEF CreateGame, Refuse
<1>3. "root" \notin held /\ "root" \notin held'
  BY <1>1, <1>2, Phases DEF LaunchInv, Kept, Entered
<1>4. LaunchTypes'
  BY <1>1, <1>2, RolesAre DEF LaunchInv, LaunchTypes, Views, Adds
<1>5. Kept'
  BY <1>1, <1>2, <1>3, Phases DEF LaunchInv, Kept, Called, Entered, OwnObjects
<1>6. Adding' /\ Viewing'
  BY <1>1, <1>3, Phases DEF LaunchInv, LaunchTypes, Views, Adds, Adding, Viewing, Entered
<1>7. ASSUME pc' = "objects" PROVE Cardinality(Made)' < Len(LaunchObjects) /\ "activity" \in roots'
  <2>1. Made' = {}
    BY <1>1, <1>2, <1>7, RolesAre DEF Made
  <2> QED BY <1>1, <1>2, <1>7, <2>1, FS_EmptySet, RolesAre
<1> QED BY <1>4, <1>5, <1>6, <1>7 DEF LaunchInv

LEMMA LaunchAllocateKeeps ==
  ASSUME LaunchInv, LaunchAllocate
  PROVE  LaunchInv'
<1> DEFINE made == Cardinality(Made)
           o == LaunchObjects[made + 1]
<1>1. pc = "objects" /\ edges' = edges /\ add' = add /\ view' = view
  BY DEF LaunchAllocate
<1>2. IsFiniteSet(Made) /\ made \in Nat /\ made < 8
  BY <1>1, RolesCount, RolesAre, FS_Subset, FS_CardinalityType DEF LaunchInv, Made
<1>3. o \in Elements(LaunchObjects) /\ o \in Roles /\ o # "root"
  <2>1. made + 1 \in DOMAIN LaunchObjects
    BY <1>2, RolesAre
  <2>2. o \in Elements(LaunchObjects)
    BY <2>1 DEF Elements
  <2> QED BY <2>2, RolesAre
<1>4. \/ /\ live' = live \cup {o} /\ held' = held \cup {o} /\ budget' = budget
         /\ IF made + 1 = 8
            THEN roots' = roots \cup {"application", "appContext", "actContext", "intent"} /\ pc' = Methods[1]
            ELSE roots' = roots /\ pc' = pc
      \/ /\ live' = live /\ roots' = roots /\ held' = held /\ pc' = "failed"
         /\ budget' = [budget EXCEPT !.refusals = @ - 1] /\ budget.refusals > 0
  BY RolesAre DEF LaunchAllocate, Refuse, Made
<1> HIDE DEF o, made
<1>5. "root" \notin held /\ "root" \notin held'
  BY <1>1, <1>3, <1>4, Phases DEF LaunchInv, Kept, Entered
<1>6. pc' \in {"objects", "application.<init>", "failed"}
  BY <1>1, <1>4, MethodNames
<1>7. "activity" \in roots
  BY <1>1 DEF LaunchInv
<1>8. LaunchTypes'
  BY <1>1, <1>3, <1>4, <1>6, RolesAre, MethodsAre DEF LaunchInv, LaunchTypes, Views, Adds, Called
<1>9. Kept'
  BY <1>1, <1>3, <1>4, <1>5, <1>6, <1>7, Phases, RolesAre
     DEF LaunchInv, Kept, Called, Entered, OwnObjects, Permanent
<1>10. Adding' /\ Viewing'
  BY <1>1, <1>5, <1>6, Phases DEF LaunchInv, LaunchTypes, Views, Adds, Adding, Viewing, Entered
<1>11. ASSUME pc' = "objects" PROVE Cardinality(Made)' < Len(LaunchObjects) /\ "activity" \in roots'
  <2>1. held' = held \cup {o} /\ made + 1 # 8 /\ roots' = roots
    BY <1>4, <1>11, MethodNames
  <2>2. Made' = Made \cup {o}
    BY <2>1, <1>3 DEF Made
  <2>3. Cardinality(Made \cup {o}) <= made + 1
    BY <1>2, FS_AddElement DEF made
  <2>4. IsFiniteSet(Made \cup {o}) /\ Cardinality(Made \cup {o}) \in Nat
    BY <1>2, FS_AddElement, FS_CardinalityType
  <2> QED BY <2>1, <2>2, <2>3, <2>4, <1>2, <1>7, RolesAre
<1> QED BY <1>8, <1>9, <1>10, <1>11 DEF LaunchInv

LEMMA MethodReturnsKeeps ==
  ASSUME LaunchInv, NEW i \in DOMAIN Methods, MethodReturns(i)
  PROVE  LaunchInv'
<1>1. /\ pc = Methods[i] /\ add.by = "nobody" /\ live' = live /\ roots' = roots /\ held' = held
      /\ add' = add /\ view' = view /\ budget' = budget
  BY DEF MethodReturns
<1>2. i \in 1 .. 7
  BY MethodNames
<1>3. pc \in Called /\ (i \in 4 .. 7 <=> pc \in Entered)
  BY <1>1, <1>2, MethodNames DEF Called, Entered
<1>4. /\ pc' \in (Called \cup {"cluster"}) \ {"application.<init>"}
      /\ pc' \in Entered \cup {"cluster"} <=> i \in 3 .. 7
  <2>1. pc' = IF i = 7 THEN "cluster" ELSE Methods[i + 1]
    BY MethodNames DEF MethodReturns
  <2>2. i = 1 \/ i = 2 \/ i = 3 \/ i = 4 \/ i = 5 \/ i = 6 \/ i = 7
    BY <1>2
  <2> QED BY <2>1, <2>2, MethodNames DEF Called, Entered
<1>5. edges \subseteq edges' /\ edges' \subseteq edges \cup (Roles \X Roles)
  <2>1. Field("application", "appContext") \subseteq Roles \X Roles /\ AttachFields \subseteq Roles \X Roles
    BY RolesAre DEF Field, AttachFields
  <2> QED BY <2>1, <1>2 DEF MethodReturns
<1>6. i \in 3 .. 7 => AttachFields \subseteq edges'
  <2>1. CASE i = 3
    BY <2>1 DEF MethodReturns
  <2>2. CASE i \in 4 .. 7
    BY <2>2, <1>3, <1>5, Phases DEF LaunchInv, Kept
  <2> QED BY <2>1, <2>2
<1>7. LaunchTypes'
  BY <1>1, <1>4, <1>5, MethodsAre DEF LaunchInv, LaunchTypes, Views, Adds
<1>8. "root" \in held => pc \in Entered
  BY <1>3, Phases DEF LaunchInv, Kept, Called, Entered
<1>9. Kept'
  <2>1. Permanent \subseteq roots'
    BY <1>1, <1>3, Phases DEF LaunchInv, Kept
  <2>2. Running' => AttachFields \subseteq edges'
    BY <1>4, <1>6, Phases DEF Called, Entered
  <2>3. "root" \in held => Running'
    BY <1>3, <1>4, <1>8, Phases
  <2>4. Running' => held \subseteq live
    <3>1. i = 3 => held \subseteq live
      BY DEF MethodReturns, HostPointersLive
    <3>2. i \in 4 .. 7 => held \subseteq live
      BY <1>3, Phases DEF LaunchInv, Kept, HostPointersLive
    <3>3. Running' => i \in 3 .. 7
      BY <1>4, Phases DEF Called, Entered
    <3> QED BY <1>2, <3>1, <3>2, <3>3
  <2> QED BY <1>1, <1>5, <2>1, <2>2, <2>3, <2>4 DEF LaunchInv, Kept, HostPointersLive
<1>10. Adding'
  BY <1>1 DEF LaunchInv, Adding
<1>11. Viewing'
  BY <1>1, <1>3, <1>4 DEF LaunchInv, Viewing, Called, Entered
<1>12. pc' # "objects"
  BY <1>4 DEF Called, Entered
<1> QED BY <1>7, <1>9, <1>10, <1>11, <1>12 DEF LaunchInv

LEMMA MethodFailsKeeps ==
  ASSUME LaunchInv, MethodFails
  PROVE  LaunchInv'
<1>1. /\ pc \in Called /\ pc' = "failed" /\ add.by = "nobody" /\ live' = live /\ edges' = edges
      /\ roots' = roots /\ held' = held /\ add' = add /\ view' = view
      /\ budget' = [budget EXCEPT !.refusals = @ - 1] /\ budget.refusals > 0
  BY Phases DEF MethodFails, Refuse
<1>2. LaunchTypes'
  BY <1>1 DEF LaunchInv, LaunchTypes, Views, Adds
<1>3. Kept'
  BY <1>1, Phases DEF LaunchInv, Kept, Called, Entered
<1>4. Adding' /\ Viewing'
  BY <1>1 DEF LaunchInv, Adding, Viewing, Called, Entered
<1> QED BY <1>1, <1>2, <1>3, <1>4 DEF LaunchInv

(* What was freed before it is attached was freed in a constructor.        *)
LEMMA AttachesFreedKeeps ==
  ASSUME LaunchInv, AttachesFreed
  PROVE  LaunchInv'
<1>1. /\ pc = "activity.<init>" /\ pc' = "undefined" /\ live' = live /\ edges' = edges
      /\ roots' = roots /\ held' = held /\ add' = add /\ view' = view /\ budget' = budget
  BY MethodNames DEF AttachesFreed
<1>2. "root" \notin held /\ add.next = 0 /\ add.by \notin {"done", "refused"}
  BY <1>1, Phases DEF LaunchInv, LaunchTypes, Adds, Kept, Adding, Called, Entered
<1>3. LaunchTypes'
  BY <1>1 DEF LaunchInv, LaunchTypes, Views, Adds
<1>4. Kept'
  BY <1>1, <1>2, Phases DEF LaunchInv, Kept, Called, Entered
<1>5. Adding' /\ Viewing'
  BY <1>1, <1>2 DEF LaunchInv, Adding, Viewing
<1> QED BY <1>1, <1>3, <1>4, <1>5 DEF LaunchInv

LEMMA GuestCollectsKeeps ==
  ASSUME LaunchInv, GuestCollects
  PROVE  LaunchInv'
<1>1. /\ pc' = pc /\ live' = live \cap Reachable /\ edges' = edges /\ roots' = roots
      /\ held' = held /\ add' = add /\ view' = view /\ budget' = budget /\ add.by = "nobody"
  BY DEF GuestCollects
<1>2. InMethod \/ pc = "resumed"
  BY DEF GuestCollects
<1>4. Running => held \subseteq live'
  BY <1>1, HeldIsReachable DEF LaunchInv, Kept, HostPointersLive
<1>5. LaunchTypes'
  BY <1>1 DEF LaunchInv, LaunchTypes, Views, Adds
<1>6. Kept'
  BY <1>1, <1>4, Phases DEF LaunchInv, Kept, HostPointersLive
<1>7. Adding' /\ Viewing'
  BY <1>1, Phases DEF LaunchInv, Adding, Viewing
<1>8. pc # "objects"
  BY <1>2, Phases DEF Called, Entered
<1> QED BY <1>1, <1>5, <1>6, <1>7, <1>8 DEF LaunchInv

LEMMA SetVisibilityKeeps ==
  ASSUME LaunchInv, SetVisibility
  PROVE  LaunchInv'
<1>1. /\ pc' = pc /\ live' = live /\ edges' = edges /\ roots' = roots /\ held' = held /\ add' = add
      /\ view' = [view EXCEPT !.visible = ~view.visible]
      /\ budget' = [budget EXCEPT !.changes = @ - 1] /\ budget.changes > 0
  BY DEF SetVisibility, Change
<1>2. LaunchTypes'
  <2>1. PICK b \in BOOLEAN : b = ~view.visible
    OBVIOUS
  <2>2. view' = [view EXCEPT !.visible = b]
    BY <1>1, <2>1
  <2>3. view' \in Views
    BY <2>2 DEF LaunchInv, LaunchTypes, Views, Adds
  <2> QED BY <1>1, <2>3 DEF LaunchInv, LaunchTypes, Views, Adds
<1>3. Kept'
  BY <1>1, Phases DEF LaunchInv, Kept, HostPointersLive
<1>4. Adding'
  BY <1>1, Phases DEF LaunchInv, LaunchTypes, Views, Adds, Adding
<1>5. Viewing'
  BY <1>1 DEF LaunchInv, LaunchTypes, Views, Adds, Viewing
<1>6. pc # "objects"
  BY Phases DEF SetVisibility, Entered
<1> QED BY <1>1, <1>2, <1>3, <1>4, <1>5, <1>6 DEF LaunchInv

(* The beginning of addView, by whomever.                                  *)
LEMMA BeginAddKeeps ==
  ASSUME LaunchInv, NEW by \in {"application", "launch"}, NEW v \in {"decor", "ownView"},
         NEW p \in {"attributes", "ownParams"}, BeginAdd(by, v, p),
         IF by = "launch" THEN pc = "cluster" /\ v = "decor" /\ p = "attributes"
                          ELSE Attached \/ pc = "resumed",
         \/ view' = view
         \/ view' = [view EXCEPT !.visible = FALSE]
  PROVE  LaunchInv'
<1>1. /\ pc' = pc /\ edges' = edges /\ roots' = roots /\ held' = held /\ budget' = budget
      /\ add.by = "nobody"
  BY DEF BeginAdd
<1>2. /\ view' \in Views
      /\ view'.decor = view.decor /\ view'.params = view.params /\ view'.added = view.added
      /\ view'.pending = view.pending /\ view'.phase = view.phase /\ view'.valid = view.valid
      /\ view'.drawn = view.drawn
  BY DEF LaunchInv, LaunchTypes, Views, Adds
<1>3. v \in Roles /\ p \in Roles
  BY RolesAre
<1>4. \/ /\ "root" \in held /\ live' = live
         /\ add' = [NoAdd EXCEPT !.by = IF by = "launch" THEN "refused" ELSE "nobody"]
      \/ /\ "root" \notin held /\ live' = live \cup {v, p}
         /\ add' = [by |-> by, next |-> 1, view |-> v, params |-> p]
  BY DEF BeginAdd, Refuses
<1>5. /\ live \subseteq live' /\ live' \subseteq Roles
      /\ add' \in Adds
  BY <1>3, <1>4 DEF LaunchInv, LaunchTypes, Views, Adds, Adders, NoAdd
<1>6. LaunchTypes'
  BY <1>1, <1>2, <1>5 DEF LaunchInv, LaunchTypes, Views, Adds
<1>7. Kept'
  BY <1>1, <1>5, Phases DEF LaunchInv, Kept, HostPointersLive
<1>8. Adding'
  <2>1. CASE "root" \in held
    BY <1>1, <1>4, <2>1 DEF Adding, NoAdd
  <2>2. CASE "root" \notin held
    <3>1. ~view'.added
      BY <1>1, <1>2, <2>2, Phases DEF LaunchInv, LaunchTypes, Views, Adds, Viewing, Entered
    <3>2. pc # "resumed"
      BY <2>2 DEF LaunchInv, Viewing
    <3> QED BY <1>1, <1>4, <2>2, <3>1, <3>2, Phases DEF Adding
  <2> QED BY <2>1, <2>2
<1>9. add'.by # "done"
  BY <1>4 DEF NoAdd
<1>10. Viewing'
  BY <1>1, <1>2, <1>9, Phases DEF LaunchInv, LaunchTypes, Views, Adds, Viewing
<1>11. pc # "objects"
  BY Phases DEF Entered
<1> QED BY <1>1, <1>6, <1>7, <1>8, <1>10, <1>11 DEF LaunchInv

LEMMA AddsKeep ==
  ASSUME LaunchInv, ApplicationAdds \/ LaunchAdds
  PROVE  LaunchInv'
<1>1. CASE ApplicationAdds
  <2>1. PICK v \in {"decor", "ownView"}, p \in {"attributes", "ownParams"} : BeginAdd("application", v, p)
    BY <1>1 DEF ApplicationAdds
  <2> QED BY <1>1, <2>1, BeginAddKeeps DEF ApplicationAdds
<1>2. CASE LaunchAdds
  BY <1>2, BeginAddKeeps DEF LaunchAdds
<1> QED BY <1>1, <1>2

LEMMA AddAllocatesKeeps ==
  ASSUME LaunchInv, AddAllocates
  PROVE  LaunchInv'
<1> DEFINE o == ViewRootObjects[add.next]
<1>1. PICK kept \in Survivors :
        \/ /\ live' = kept \cup {o} /\ held' = held \cup {o} /\ edges' = edges \cup RootedBy(o)
           /\ add' = [add EXCEPT !.next = add.next + 1] /\ budget' = budget
        \/ /\ live' = kept /\ held' = held /\ edges' = edges
           /\ add' = [NoAdd EXCEPT !.by = IF add.by = "launch" THEN "refused" ELSE "nobody"]
           /\ budget' = [budget EXCEPT !.refusals = @ - 1] /\ budget.refusals > 0
  BY DEF AddAllocates, Refuse
<1>2. pc' = pc /\ roots' = roots /\ view' = view /\ add.next \in 1 .. 4
  BY RolesAre DEF AddAllocates
<1>3. /\ add.by = "launch" => pc = "cluster"
      /\ add.by \in {"launch", "application"} /\ (add.by = "application" => Attached)
      /\ add.view \in Roles /\ {add.view, add.params} \subseteq live /\ ~view.added
      /\ (add.next = 1 <=> "root" \notin held)
  BY <1>2, RolesAre DEF LaunchInv, Adding
<1>4. Running
  BY <1>3 DEF Running
<1>5. kept \subseteq live /\ {add.view, add.params} \subseteq kept /\ held \subseteq kept
  <2>1. kept = live \/ kept = live \cap Reachable
    BY <1>1 DEF Survivors
  <2>2. held \subseteq Reachable
    BY <1>4, HeldIsReachable DEF LaunchInv
  <2>3. {add.view, add.params} \subseteq Reachable
    BY <1>3, ThreeSteps
  <2> QED BY <1>3, <1>4, <2>1, <2>2, <2>3 DEF LaunchInv, Kept, HostPointersLive
<1>6. /\ o \in {"root", "session", "attachInfo", "surface"} /\ o \in Roles
      /\ (o = "root" <=> add.next = 1)
  <2>1. add.next = 1 \/ add.next = 2 \/ add.next = 3 \/ add.next = 4
    BY <1>2
  <2> QED BY <2>1, RolesAre
<1>7. /\ RootedBy(o) \subseteq Roles \X Roles
      /\ o = "root" => <<"manager", "root">> \in RootedBy(o)
      /\ o # "root" => <<"root", o>> \in RootedBy(o)
  BY <1>3, <1>6, RolesAre DEF RootedBy, Field
<1> HIDE DEF o
<1>8. CASE add'.next = 0
  <2>1. /\ live' = kept /\ held' = held /\ edges' = edges
        /\ add' = [NoAdd EXCEPT !.by = IF add.by = "launch" THEN "refused" ELSE "nobody"]
        /\ budget' = [budget EXCEPT !.refusals = @ - 1] /\ budget.refusals > 0
    BY <1>1, <1>2, <1>8 DEF LaunchInv, LaunchTypes, Views, Adds
  <2>2. LaunchTypes'
    BY <1>2, <1>5, <2>1 DEF LaunchInv, LaunchTypes, Views, Adds, NoAdd, Adders
  <2>3. Kept'
    BY <1>2, <1>5, <2>1, Phases DEF LaunchInv, Kept, HostPointersLive
  <2>4. Adding'
    BY <1>2, <1>3, <2>1 DEF Adding, NoAdd
  <2>5. Viewing'
    BY <1>2, <1>3, <2>1 DEF LaunchInv, Viewing, NoAdd
  <2> QED BY <1>2, <1>4, <2>2, <2>3, <2>4, <2>5, Phases DEF LaunchInv, Entered
<1>9. CASE add'.next # 0
  <2>1. /\ live' = kept \cup {o} /\ held' = held \cup {o} /\ edges' = edges \cup RootedBy(o)
        /\ add' = [add EXCEPT !.next = add.next + 1] /\ budget' = budget
    BY <1>1, <1>9 DEF NoAdd
  <2>2. /\ add'.next = add.next + 1 /\ add'.by = add.by /\ add'.view = add.view
        /\ add'.params = add.params
        /\ add' \in Adds
    BY <1>2, <2>1 DEF LaunchInv, LaunchTypes, Views, Adds
  <2>3. LaunchTypes'
    BY <1>2, <1>5, <1>6, <1>7, <2>1, <2>2 DEF LaunchInv, LaunchTypes, Views, Adds
  <2>4. "root" \in held'
    BY <1>3, <1>6, <2>1
  <2>5. Kept'
    <3>1. <<"manager", "root">> \in edges'
      BY <1>3, <1>6, <1>7, <2>1 DEF LaunchInv, Kept
    <3>2. \A x \in held' \cap ({"session", "attachInfo", "surface"} \cup OwnObjects) : <<"root", x>> \in edges'
      BY <1>6, <1>7, <2>1 DEF LaunchInv, Kept, OwnObjects
    <3>3. held' \subseteq live'
      BY <1>5, <2>1
    <3> QED BY <1>2, <1>4, <2>1, <2>4, <3>1, <3>2, <3>3, Phases DEF LaunchInv, Kept, HostPointersLive
  <2>6. Adding'
    BY <1>2, <1>3, <1>5, <2>1, <2>2, <2>4, Phases DEF LaunchInv, Adding
  <2>7. Viewing'
    BY <1>2, <1>3, <2>2, <2>4 DEF LaunchInv, Viewing
  <2> QED BY <1>2, <1>4, <2>3, <2>5, <2>6, <2>7, Phases DEF LaunchInv, Entered
<1> QED BY <1>8, <1>9

LEMMA AddFinishesKeeps ==
  ASSUME LaunchInv, AddFinishes
  PROVE  LaunchInv'
<1>1. /\ add.next = 5 /\ pc' = pc /\ live' = live /\ roots' = roots /\ budget' = budget
      /\ held' = held \cup {add.view, add.params}
      /\ add' = [NoAdd EXCEPT !.by = IF add.by = "launch" THEN "done" ELSE "nobody"]
  BY RolesAre DEF AddFinishes
<1>2. PICK b \in BOOLEAN : b <=> add.params = "attributes"
  OBVIOUS
<1>3. view' = [view EXCEPT !.decor = add.view, !.params = add.params, !.added = TRUE,
                           !.pending = TRUE, !.phase = "scheduled", !.complete = b]
  <2>1. b = (add.params = "attributes")
    BY <1>2
  <2> QED BY <2>1 DEF AddFinishes
<1>4. edges' = edges \cup ({"root"} \X {add.view, add.params}) \cup Field(add.view, add.params)
                 \cup (IF add.params = "attributes"
                       THEN {<<"session", "window">>, <<add.view, "root">>,
                             <<"manager", add.view>>, <<"manager", add.params>>} ELSE {})
  BY DEF AddFinishes
<1>5. /\ IF add.by = "launch" THEN pc = "cluster" /\ add.view = "decor" /\ add.params = "attributes"
                             ELSE add.by = "application" /\ Attached
      /\ add.view \in Roles /\ add.params \in Roles /\ {add.view, add.params} \subseteq live
      /\ add.view \in {"decor", "ownView"} /\ add.params \in {"attributes", "ownParams"}
      /\ "root" \in held
  BY <1>1, RolesAre DEF LaunchInv, Adding
<1>6. Running
  BY <1>5 DEF Running
<1>7. /\ view' \in Views
      /\ view'.decor = add.view /\ view'.params = add.params /\ view'.added = TRUE
      /\ view'.phase = "scheduled" /\ view'.valid = view.valid /\ view'.drawn = view.drawn
  BY <1>3, <1>5 DEF LaunchInv, LaunchTypes, Views, Adds
<1>8. add' \in Adds
  BY <1>1 DEF NoAdd, Adders, Adds
<1>9. edges' \subseteq Roles \X Roles /\ edges \subseteq edges'
  <2>1. {"root", "session", "window", "manager"} \subseteq Roles
    BY RolesAre
  <2> QED BY <1>4, <1>5, <2>1 DEF LaunchInv, LaunchTypes, Views, Adds, Field
<1>10. LaunchTypes'
  BY <1>1, <1>5, <1>7, <1>8, <1>9 DEF LaunchInv, LaunchTypes, Views, Adds
<1>11. Kept'
  <2>1. <<"root", add.view>> \in edges' /\ <<"root", add.params>> \in edges'
    BY <1>4
  <2>2. \A x \in held' \cap ({"session", "attachInfo", "surface"} \cup OwnObjects) : <<"root", x>> \in edges'
    BY <1>1, <1>9, <2>1 DEF LaunchInv, Kept
  <2>3. held' \subseteq live'
    BY <1>1, <1>5, <1>6 DEF LaunchInv, Kept, HostPointersLive
  <2>4. <<"manager", "root">> \in edges' /\ "root" \in held'
    BY <1>1, <1>5, <1>9 DEF LaunchInv, Kept
  <2> QED BY <1>1, <1>6, <1>9, <2>2, <2>3, <2>4, Phases DEF LaunchInv, Kept, HostPointersLive
<1>12. Adding'
  BY <1>1, <1>5 DEF Adding, NoAdd
<1>13. Viewing'
  BY <1>1, <1>5, <1>7, Phases DEF LaunchInv, Viewing, NoAdd, Entered
<1> QED BY <1>1, <1>6, <1>10, <1>11, <1>12, <1>13, Phases DEF LaunchInv, Entered

LEMMA ClusterEndsKeeps ==
  ASSUME LaunchInv, ClusterEnds
  PROVE  LaunchInv'
<1>1. /\ pc = "cluster" /\ live' = live /\ edges' = edges /\ roots' = roots /\ held' = held
      /\ budget' = budget /\ add' = NoAdd
  BY DEF ClusterEnds
<1>2. \/ add.by = "done" /\ pc' = "resumed" /\ view' = [view EXCEPT !.visible = TRUE]
      \/ add.by = "refused" /\ pc' = "failed" /\ view' = view
  BY DEF ClusterEnds
<1>3. /\ view' \in Views
      /\ view'.decor = view.decor /\ view'.params = view.params /\ view'.added = view.added
      /\ view'.pending = view.pending /\ view'.phase = view.phase /\ view'.valid = view.valid
      /\ view'.drawn = view.drawn
  BY <1>2 DEF LaunchInv, LaunchTypes, Views, Adds
<1>4. LaunchTypes'
  BY <1>1, <1>2, <1>3 DEF LaunchInv, LaunchTypes, Views, Adds, NoAdd, Adders
<1>5. Kept'
  BY <1>1, <1>2, Phases DEF LaunchInv, Kept, HostPointersLive, Called, Entered
<1>6. Adding'
  BY <1>1 DEF Adding, NoAdd
<1>7. Viewing'
  BY <1>1, <1>2, <1>3 DEF LaunchInv, LaunchTypes, Views, Adds, Viewing, NoAdd
<1> QED BY <1>2, <1>4, <1>5, <1>6, <1>7 DEF LaunchInv

(* A pass of the ViewRoot: what it leaves when it completes.               *)
LEMMA PassCompletes ==
  ASSUME LaunchTypes, Viewing, NEW w, w = Completed(Relayout(view))
  PROVE  /\ w \in Views
         /\ w.decor = view.decor /\ w.params = view.params /\ w.added = view.added
         /\ w.valid => w.drawn >= 1
         /\ w.phase = "completed" => ~w.pending /\ (w.valid => w.drawn >= 2)
<1>1. view \in Views
  BY DEF LaunchTypes, Views, Adds
<1>2. PICK u : u = Relayout(view)
  OBVIOUS
<1>3. /\ u \in Views /\ u.decor = view.decor /\ u.params = view.params /\ u.added = view.added
      /\ u.valid /\ ~u.first => u.drawn >= 1
  <2>1. CASE view.visible /\ ~view.valid
    <3>1. u = [view EXCEPT !.valid = TRUE, !.first = TRUE, !.drawn = 0]
      BY <1>2, <2>1 DEF Relayout
    <3> QED BY <1>1, <3>1 DEF Views
  <2>2. CASE ~view.visible /\ view.valid
    <3>1. u = [view EXCEPT !.valid = FALSE]
      BY <1>2, <2>2 DEF Relayout, Release
    <3> QED BY <1>1, <3>1 DEF Views
  <2>3. CASE (view.visible <=> view.valid)
    <3>1. u = view
      BY <1>2, <2>3 DEF Relayout
    <3> QED BY <1>1, <3>1 DEF Viewing
  <2> QED BY <2>1, <2>2, <2>3
<1>4. PICK d \in Nat : d = u.drawn + 1
  BY <1>3 DEF Views
<1>5. CASE u.first /\ u.valid
  <2>1. w = [u EXCEPT !.first = FALSE, !.pending = TRUE, !.phase = "scheduled", !.drawn = d]
    BY <1>2, <1>5, <1>4 DEF Completed
  <2>2. /\ w \in Views /\ w.decor = u.decor /\ w.params = u.params /\ w.added = u.added
        /\ w.phase = "scheduled" /\ w.drawn = d
    BY <1>3, <2>1 DEF Views
  <2> QED BY <1>3, <1>4, <2>2 DEF Views
<1>6. CASE ~u.first /\ u.valid
  <2>1. w = [u EXCEPT !.first = FALSE, !.pending = FALSE, !.phase = "completed", !.drawn = d]
    BY <1>2, <1>6, <1>4 DEF Completed
  <2>2. /\ w \in Views /\ w.decor = u.decor /\ w.params = u.params /\ w.added = u.added
        /\ w.pending = FALSE /\ w.drawn = d
    BY <1>3, <2>1 DEF Views
  <2> QED BY <1>3, <1>6, <1>4, <2>2 DEF Views
<1>7. CASE ~u.valid
  <2>1. PICK b \in BOOLEAN, n \in Nat : b = (u.first /\ ~ (u.first /\ u.valid)) /\ n = 0
    OBVIOUS
  <2>2. w = [u EXCEPT !.first = b, !.pending = FALSE, !.phase = "completed", !.drawn = n]
    <3>1. PICK c \in BOOLEAN : c = (u.first /\ u.valid)
      OBVIOUS
    <3>2. w = [u EXCEPT !.first = b, !.pending = c, !.phase = IF c THEN "scheduled" ELSE "completed",
                        !.drawn = n]
      BY <1>2, <1>7, <2>1, <3>1 DEF Completed
    <3>3. c = FALSE
      BY <1>7, <3>1
    <3> QED BY <3>2, <3>3
  <2>3. /\ w \in Views /\ w.decor = u.decor /\ w.params = u.params /\ w.added = u.added
        /\ w.pending = FALSE /\ w.valid = u.valid
    BY <1>3, <2>2 DEF Views
  <2> QED BY <1>3, <1>7, <2>3 DEF Views
<1> QED BY <1>5, <1>6, <1>7

LEMMA TraverseKeeps ==
  ASSUME LaunchInv, Traverse
  PROVE  LaunchInv'
<1>1. /\ pc = "resumed" /\ pc' = pc /\ live' = live /\ roots' = roots /\ held' = held /\ add' = add
  BY DEF Traverse
<1>2. \/ /\ view' = Completed(Relayout(view)) /\ budget' = budget
         /\ edges' = edges \cup {<<view.decor, "attachInfo">>, <<"session", "surface">>}
      \/ /\ view' = [view EXCEPT !.pending = TRUE, !.phase = "scheduled"]
         /\ edges' = edges \cup Field(view.decor, "attachInfo")
         /\ budget' = [budget EXCEPT !.refusals = @ - 1] /\ budget.refusals > 0
  BY DEF Traverse, Failed, Refuse
<1>3. view.added /\ view.decor = "decor" /\ view.params = "attributes" /\ add.next = 0
  BY <1>1, Phases DEF LaunchInv, Viewing, Adding, Entered
<1>4. /\ view' \in Views
      /\ view'.decor = view.decor /\ view'.params = view.params /\ view'.added = view.added
      /\ view'.valid => view'.drawn >= 1
      /\ view'.phase = "completed" => ~view'.pending /\ (view'.valid => view'.drawn >= 2)
  <2>1. CASE view' = Completed(Relayout(view))
    BY <2>1, PassCompletes DEF LaunchInv
  <2>2. CASE view' = [view EXCEPT !.pending = TRUE, !.phase = "scheduled"]
    BY <2>2 DEF LaunchInv, LaunchTypes, Views, Adds, Viewing
  <2> QED BY <1>2, <2>1, <2>2
<1>5. edges \subseteq edges' /\ edges' \subseteq Roles \X Roles
  <2>1. {"decor", "attachInfo", "session", "surface"} \subseteq Roles
    BY RolesAre
  <2> QED BY <1>2, <1>3, <2>1 DEF LaunchInv, LaunchTypes, Views, Adds, Field
<1>6. budget' \in [refusals : Nat, changes : Nat]
  BY <1>2 DEF LaunchInv, LaunchTypes, Views, Adds
<1>7. LaunchTypes'
  BY <1>1, <1>4, <1>5, <1>6 DEF LaunchInv, LaunchTypes, Views, Adds
<1>8. Kept'
  BY <1>1, <1>5, Phases DEF LaunchInv, Kept, HostPointersLive
<1>9. Adding'
  BY <1>1, <1>3 DEF LaunchInv, Adding
<1>10. Viewing'
  BY <1>1, <1>3, <1>4 DEF LaunchInv, Viewing
<1> QED BY <1>1, <1>7, <1>8, <1>9, <1>10 DEF LaunchInv

LEMMA DestroyKeeps ==
  ASSUME LaunchInv, Destroy
  PROVE  LaunchInv'
<1>1. /\ pc \in {"resumed", "failed"} /\ pc' = "destroyed" /\ view' = [view EXCEPT !.valid = FALSE]
      /\ live' = {} /\ held' = {} /\ edges' = {} /\ roots' = {} /\ add' = add /\ budget' = budget
  BY DEF Destroy, Release
<1>2. add.next = 0 /\ add.by = "nobody"
  BY <1>1, Phases DEF LaunchInv, LaunchTypes, Views, Adds, Adding, Entered, Adders
<1>3. /\ view' \in Views
      /\ view'.valid = FALSE /\ view'.pending = view.pending /\ view'.phase = view.phase
  BY <1>1 DEF LaunchInv, LaunchTypes, Views, Adds
<1>4. LaunchTypes'
  BY <1>1, <1>3 DEF LaunchInv, LaunchTypes, Views, Adds
<1>5. Kept'
  BY <1>1, Phases DEF Kept, Called, Entered
<1>6. Adding'
  BY <1>1, <1>2 DEF LaunchInv, Adding
<1>7. Viewing'
  BY <1>1, <1>2, <1>3 DEF LaunchInv, Viewing
<1> QED BY <1>1, <1>4, <1>5, <1>6, <1>7 DEF LaunchInv

LEMMA LaunchStarts == LaunchInit => LaunchInv
<1> SUFFICES ASSUME LaunchInit PROVE LaunchInv
  OBVIOUS
<1>1. pc = "create" /\ live = {} /\ edges = {} /\ roots = {} /\ held = {}
  BY DEF LaunchInit
<1>2. LaunchTypes
  BY LaunchAssumption DEF LaunchInit, LaunchTypes, Views, Adds, NoAdd, NoView, Adders
<1>3. Kept
  BY <1>1, Phases DEF Kept, Called, Entered
<1>4. Adding /\ Viewing
  BY <1>1 DEF LaunchInit, Adding, Viewing, NoAdd, NoView
<1> QED BY <1>1, <1>2, <1>3, <1>4 DEF LaunchInv

LEMMA LaunchSteps == LaunchInv /\ [LaunchNext]_launchVars => LaunchInv'
<1> SUFFICES ASSUME LaunchInv, [LaunchNext]_launchVars PROVE LaunchInv'
  OBVIOUS
<1>1. ASSUME UNCHANGED launchVars PROVE LaunchInv'
  <2>1. /\ pc' = pc /\ live' = live /\ edges' = edges /\ roots' = roots /\ held' = held
        /\ add' = add /\ view' = view /\ budget' = budget
    BY <1>1 DEF launchVars
  <2>2. LaunchTypes' /\ Kept' /\ Adding' /\ Viewing'
    BY <2>1, Phases DEF LaunchInv, LaunchTypes, Views, Adds, Kept, HostPointersLive, Adding, Viewing
  <2> QED BY <2>1, <2>2 DEF LaunchInv, Made
<1>2. CASE \E i \in DOMAIN Methods : MethodReturns(i)
  BY <1>2, MethodReturnsKeeps
<1>3. CASE ApplicationAdds \/ LaunchAdds
  BY <1>3, AddsKeep
<1>4. CASE Done
  BY <1>1, <1>4 DEF Done
<1> QED BY <1>1, <1>2, <1>3, <1>4, CreateGameKeeps, LaunchAllocateKeeps, MethodFailsKeeps, AttachesFreedKeeps,
           GuestCollectsKeeps, SetVisibilityKeeps, AddAllocatesKeeps, AddFinishesKeeps,
           ClusterEndsKeeps, TraverseKeeps, DestroyKeeps DEF LaunchNext

-----------------------------------------------------------------------------
(* The theorems about the launch                                           *)

(* What the objects of a launch, a call of addView and the attach state    *)
(* say of each other holds in every reachable state, collections in the    *)
(* constructors or not.                                                    *)
THEOREM LaunchInvariance == LaunchSpec => []LaunchInv
BY LaunchStarts, LaunchSteps, PTL DEF LaunchSpec

(* Collections run wherever guest code or an allocation does; the only     *)
(* ones that take what C structures point to are those of the constructors *)
(* and of Application.onCreate (game_dex_runner.c: start_activity), for    *)
(* any number of refusals, of changes and of calls of addView.             *)
THEOREM OnlyConstructorsLose == LaunchSpec => HostPointersKept
<1>1. ASSUME LaunchInv, [LaunchNext]_launchVars, HostPointersLive, ~HostPointersLive'
      PROVE  InMethod /\ ~Attached
  <2>1. ~(held' = held /\ live' = live)
    BY <1>1 DEF HostPointersLive
  <2>2. ~CreateGame
    BY <1>1 DEF CreateGame, HostPointersLive
  <2>3. ~LaunchAllocate
    BY <1>1 DEF LaunchAllocate, HostPointersLive
  <2>4. ~(ApplicationAdds \/ LaunchAdds)
    BY <1>1 DEF ApplicationAdds, LaunchAdds, BeginAdd, HostPointersLive
  <2>5. ~AddAllocates
    <3>1. SUFFICES ASSUME AddAllocates PROVE FALSE
      OBVIOUS
    <3>2. Running
      <4>1. add.next # 0
        BY <3>1, RolesAre DEF AddAllocates
      <4> QED BY <1>1, <4>1 DEF LaunchInv, Adding, Running
    <3>3. held \subseteq Reachable
      BY <1>1, <3>2, HeldIsReachable DEF LaunchInv
    <3>4. PICK kept \in Survivors :
                 \/ \E o : (live' = kept \cup {o}) /\ (held' = held \cup {o})
                 \/ (live' = kept) /\ (held' = held)
      BY <3>1 DEF AddAllocates
    <3>5. held \subseteq kept
      BY <1>1, <3>3, <3>4 DEF Survivors, HostPointersLive
    <3> QED BY <1>1, <3>4, <3>5 DEF HostPointersLive
  <2>6. ~AddFinishes
    <3>1. SUFFICES ASSUME AddFinishes PROVE FALSE
      OBVIOUS
    <3>2. {add.view, add.params} \subseteq live
      BY <1>1, <3>1, RolesAre DEF LaunchInv, Adding, AddFinishes
    <3> QED BY <1>1, <3>1, <3>2 DEF AddFinishes, HostPointersLive
  <2>7. ~Destroy
    BY <1>1 DEF Destroy, HostPointersLive
  <2>8. GuestCollects
    BY <1>1, <2>1, <2>2, <2>3, <2>4, <2>5, <2>6, <2>7
       DEF LaunchNext, launchVars, MethodFails, AttachesFreed, SetVisibility, MethodReturns,
           ClusterEnds, Traverse, Done
  <2>9. ~Running
    <3>1. SUFFICES ASSUME Running PROVE FALSE
      OBVIOUS
    <3>2. held \subseteq Reachable
      BY <1>1, <3>1, HeldIsReachable DEF LaunchInv
    <3> QED BY <1>1, <2>8, <3>2 DEF GuestCollects, HostPointersLive
  <2> QED BY <2>8, <2>9 DEF GuestCollects, Running
<1>2. ASSUME LaunchInv, [LaunchNext]_launchVars
      PROVE  [HostPointersLive /\ ~HostPointersLive' => InMethod /\ ~Attached]_launchVars
  BY <1>1, <1>2
<1> QED BY <1>2, LaunchInvariance, PTL DEF LaunchSpec, HostPointersKept

(* A visible surface has been drawn by a second pass when no traversal is  *)
(* scheduled any more.                                                     *)
THEOREM SurfaceIsDrawn == LaunchSpec => []SurfaceDrawn
<1>1. LaunchInv => SurfaceDrawn
  BY DEF LaunchInv, Viewing, SurfaceDrawn
<1> QED BY <1>1, LaunchInvariance, PTL

(* A view that was added is not replaced, and the launch resumes with its  *)
(* own.                                                                    *)
THEOREM WindowAddedOnce == LaunchSpec => AddedOnce
<1> DEFINE Once == /\ view.added => UNCHANGED <<view.decor, view.params>>
                   /\ pc' = "resumed" => view'.decor = "decor" /\ view'.params = "attributes"
<1>1. ASSUME LaunchInv, LaunchInv', [LaunchNext]_launchVars PROVE [Once]_launchVars
  <2>1. pc' = "resumed" => view'.decor = "decor" /\ view'.params = "attributes"
    BY <1>1 DEF LaunchInv, Viewing
  <2>2. ASSUME view.added PROVE view'.decor = view.decor /\ view'.params = view.params
    <3>1. ~AddFinishes
      BY <1>1, <2>2, RolesAre DEF LaunchInv, Adding, AddFinishes
    <3>2. CASE view' = view
      BY <3>2
    <3>3. CASE SetVisibility
      BY <1>1, <3>3 DEF SetVisibility, LaunchInv, LaunchTypes, Views, Adds
    <3>4. CASE LaunchAdds
      BY <1>1, <3>4 DEF LaunchAdds, LaunchInv, LaunchTypes, Views, Adds
    <3>5. CASE ClusterEnds
      BY <1>1, <3>5 DEF ClusterEnds, LaunchInv, LaunchTypes, Views, Adds
    <3>6. CASE Traverse
      <4>1. CASE view' = Completed(Relayout(view))
        BY <1>1, <4>1, PassCompletes DEF LaunchInv
      <4>2. CASE view' = Failed(view)
        BY <1>1, <4>2 DEF Failed, LaunchInv, LaunchTypes, Views, Adds
      <4> QED BY <3>6, <4>1, <4>2 DEF Traverse
    <3>7. CASE Destroy
      BY <1>1, <3>7 DEF Destroy, Release, LaunchInv, LaunchTypes, Views, Adds
    <3>8. \/ view' = view \/ SetVisibility \/ LaunchAdds \/ ClusterEnds \/ Traverse \/ Destroy
      BY <1>1, <3>1 DEF LaunchNext, launchVars, CreateGame, LaunchAllocate, MethodFails, AttachesFreed, GuestCollects,
                        MethodReturns, ApplicationAdds, AddAllocates, Done
    <3> QED BY <3>2, <3>3, <3>4, <3>5, <3>6, <3>7, <3>8
  <2> QED BY <2>1, <2>2
<1> QED BY <1>1, LaunchInvariance, PTL DEF LaunchSpec, AddedOnce

=============================================================================
