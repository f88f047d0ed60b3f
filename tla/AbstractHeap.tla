----------------------------- MODULE AbstractHeap -----------------------------
(***************************************************************************)
(* What a tracing collector promises the code that runs on its heap: only  *)
(* objects that nothing can reach disappear, and a collection changes      *)
(* neither the objects a program can reach nor the places it reads, except *)
(* that the one place an allocation was for may be empty when it fails.    *)
(***************************************************************************)
CONSTANTS Objects, Places, Slots, Null

VARIABLES live, root, field

heapVars == <<live, root, field>>

Pointer == Objects \cup {Null}

Empty == [s \in Slots |-> Null]

Targets(f, o) == {f[o][s] : s \in Slots} \cap Objects

Closed(f, T) == \A o \in T : Targets(f, o) \subseteq T

(* The least set of objects that holds `from' and is closed under fields. *)
Reach(f, from) ==
    {o \in Objects : \A T \in SUBSET Objects :
        from \subseteq T /\ Closed(f, T) => o \in T}

Held == {root[p] : p \in Places} \cap Objects

Reachable == Reach(field, Held)

HeapInit ==
    /\ live = {}
    /\ root = [p \in Places |-> Null]
    /\ field = [o \in Objects |-> Empty]

(* Only garbage disappears, and storage that goes or comes forgets its fields. *)
Survive(new) ==
    /\ Reachable \cup new \subseteq live'
    /\ live' \subseteq live \cup new
    /\ field' = [o \in Objects |-> IF o \in live' \ new THEN field[o] ELSE Empty]

(* A collection, perhaps for an allocation that then fails for place p. *)
Collect ==
    /\ Survive({})
    /\ \/ UNCHANGED root
       \/ \E p \in Places : root' = [root EXCEPT ![p] = Null]

Allocate ==
    \E o \in Objects \ Reachable :
        /\ Survive({o})
        /\ root' \in [Places -> Pointer]
        /\ \A p \in Places : root'[p] \in {root[p], o}

Assign(p, x) ==
    /\ root' = [root EXCEPT ![p] = x]
    /\ UNCHANGED <<live, field>>

Store(o, s, x) ==
    /\ field' = [field EXCEPT ![o][s] = x]
    /\ UNCHANGED <<live, root>>

HeapNext ==
    \/ Collect
    \/ Allocate
    \/ \E p \in Places : Assign(p, Null)
    \/ \E p, q \in Places : Assign(p, root[q])
    \/ \E p, q \in Places, s \in Slots :
          /\ root[q] \in Objects
          /\ \/ Assign(p, field[root[q]][s])
             \/ Store(root[q], s, root[p])

HeapSpec == HeapInit /\ [][HeapNext]_heapVars
===============================================================================
