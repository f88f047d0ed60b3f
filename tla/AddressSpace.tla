----------------------------- MODULE AddressSpace -----------------------------
(***************************************************************************)
(* What the guest is promised of its address space: every page is free or  *)
(* has a protection, a call changes the pages it names and no other, and a *)
(* mapping without a fixed place takes the first room at or above its      *)
(* hint.  A call the host has no memory for may give pages up; it never    *)
(* changes a protection or makes a page appear.                            *)
(***************************************************************************)
EXTENDS Integers

CONSTANTS NumPages, Prots, Free, MaxFailures

VARIABLES space, failures

Page == 0 .. NumPages - 1
Span(s, e) == s .. e - 1
SetPages(s, e, x) == [p \in Page |-> IF p \in Span(s, e) THEN x ELSE space[p]]
Room(s, len) == s + len <= NumPages /\ \A p \in Span(s, s + len) : space[p] = Free

Map(s, e, prot) == space' = SetPages(s, e, prot)

MapAnywhere(hint, len, prot) ==
    \E s \in Page :
        /\ hint <= s /\ Room(s, len)
        /\ \A t \in Page : hint <= t /\ Room(t, len) => s <= t
        /\ Map(s, s + len, prot)

Unmap(s, e) == space' = SetPages(s, e, Free)

Protect(s, e, prot) ==
    /\ \A p \in Span(s, e) : space[p] # Free
    /\ space' = SetPages(s, e, prot)

GiveUp ==
    /\ failures < MaxFailures /\ failures' = failures + 1
    /\ space' \in [Page -> Prots \cup {Free}]
    /\ \A p \in Page : space'[p] \in {space[p], Free}

Init == space = [p \in Page |-> Free] /\ failures = 0
Next ==
    \/ /\ \E s \in Page : \E e \in s + 1 .. NumPages :
             \/ Unmap(s, e)
             \/ \E prot \in Prots : Map(s, e, prot) \/ Protect(s, e, prot)
       /\ UNCHANGED failures
    \/ /\ \E hint \in Page, len \in 1 .. NumPages, prot \in Prots :
             MapAnywhere(hint, len, prot)
       /\ UNCHANGED failures
    \/ GiveUp
Spec == Init /\ [][Next]_<<space, failures>>
===============================================================================
