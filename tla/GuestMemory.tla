----------------------------- MODULE GuestMemory -----------------------------
(***************************************************************************)
(* The guest's mappings: the region array of Runtime/Process/              *)
(* agr_guest_vma.c and the mmap, mprotect and munmap of Runtime/Bionic/    *)
(* agr_bionic_mmap.cpp, which publish a region's protection to the pages   *)
(* of the interpreter.                                                     *)
(*                                                                         *)
(* Addresses are page numbers above the lower bound.  The array is sorted  *)
(* and without overlaps, so a set of regions says the same.  Inserting     *)
(* into a full array asks the host for memory, which it may refuse: the    *)
(* call returns there and then.  One call is one action.  Its callers are  *)
(* the linker, the allocator and the thread start with arguments of their  *)
(* own; here every range and protection is tried.                          *)
(***************************************************************************)
EXTENDS Integers, FiniteSets

CONSTANTS NumPages,       \* pages between the bounds
          Prots,          \* protections
          NoAccess,       \* PROT_NONE
          AllAccess,      \* what the interpreter's pages have at the start
          Free,           \* no region here
          FirstCapacity,  \* regions of the first allocation: 8
          MaxRefusals     \* bound: allocations the host refuses

ASSUME MemoryAssumption ==
    /\ NumPages \in Nat \ {0}
    /\ NoAccess \in Prots /\ AllAccess \in Prots /\ Free \notin Prots
    /\ FirstCapacity \in Nat \ {0} /\ MaxRefusals \in Nat

VARIABLES regions, capacity,  \* the region array
          perm,               \* the interpreter's page permissions
          refusals,
          stray               \* pages without a region that nobody has closed

vars == <<regions, capacity, perm, refusals, stray>>

Page == 0 .. NumPages - 1
Span(s, e) == s .. e - 1
Region == [start : Page, end : 1 .. NumPages, prot : Prots]
NewRegion(s, e, prot) == [start |-> s, end |-> e, prot |-> prot]

-----------------------------------------------------------------------------
(* agr_guest_vma_find                                                      *)
Covers(r, p) == r.start <= p /\ p < r.end
ProtAt(R, p) ==
    IF \E r \in R : Covers(r, p)
      THEN (CHOOSE r \in R : Covers(r, p)).prot ELSE Free
Mapped(R) == {p \in Page : \E r \in R : Covers(r, p)}

(* What an unmap of s .. e - 1 leaves: regions outside, what is below s    *)
(* and what is above e of the regions across a border.                     *)
Outside(R, s, e) == {r \in R : r.end <= s \/ e <= r.start}
HeadOf(r, s) == [r EXCEPT !.end = s]
TailOf(r, e) == [r EXCEPT !.start = e]
Heads(R, s) == {HeadOf(r, s) : r \in {q \in R : q.start < s /\ s < q.end}}
Tails(R, e) == {TailOf(r, e) : r \in {q \in R : q.start < e /\ e < q.end}}

\* fault: a region across the upper border goes as a whole
WithoutTails(R, s, e) == Outside(R, s, e) \cup Heads(R, s)
Cut(R, s, e) == Outside(R, s, e) \cup Heads(R, s) \cup Tails(R, e)

(* A region across both borders is cut in two and needs a place more; when *)
(* there is none its upper part is gone.  split_at is the cut of nothing.  *)
Straddled(R, s, e) == \E r \in R : r.start < s /\ e < r.end
CutTorn(R, s, e) == Outside(R, s, e) \cup Heads(R, s)

(* coalesce: each run of touching regions of one protection becomes one.   *)
Joins(a, b) == a.end = b.start /\ a.prot = b.prot
Firsts(R) == {r \in R : \A q \in R : ~Joins(q, r)}
Lasts(R) == {r \in R : \A q \in R : ~Joins(r, q)}
EndsFrom(R, r) == {l.end : l \in {q \in Lasts(R) : r.start <= q.start}}
RunEnd(R, r) == CHOOSE e \in EndsFrom(R, r) : \A f \in EndsFrom(R, r) : e <= f
\* fault: regions stay as they are
NotCoalesced(R) == R
Coalesce(R) == {[r EXCEPT !.end = RunEnd(R, r)] : r \in Firsts(R)}

(* find_first_fit: the cursor starts at the hint and moves to the ends of  *)
(* the regions in its way.                                                 *)
FitsAt(R, s, len) ==
    s + len <= NumPages /\ \A r \in R : r.end <= s \/ s + len <= r.start
\* fault: the cursor stops whatever is in its way
CursorsBlind(R, hint, len) == {hint} \cup {r.end : r \in {q \in R : q.end > hint}}
Cursors(R, hint, len) ==
    {c \in {hint} \cup {r.end : r \in {q \in R : q.end > hint}} : FitsAt(R, c, len)}

(* agr_guest_vma_protect: every page must have a region.                   *)
Covered(R, s, e) == Span(s, e) \subseteq Mapped(R)
Split(R, s, e) == Cut(Cut(R, s, s), e, e)
Reprotect(R, s, e, prot) ==
    {IF r.end <= s \/ e <= r.start THEN r ELSE [r EXCEPT !.prot = prot] : r \in R}

-----------------------------------------------------------------------------
(* ensure_capacity for one region more than n.                             *)
Full(n, cap) == n + 1 > cap
Grown(n, cap) ==
    IF ~Full(n, cap) THEN cap ELSE IF cap = 0 THEN FirstCapacity ELSE 2 * cap

(* The capacity after an unmap or a split that may need a place more.      *)
CutCapacity(R, s, e, cap) ==
    IF Straddled(R, s, e) THEN Grown(Cardinality(R), cap) ELSE cap
CutRefused(R, s, e, cap) == Straddled(R, s, e) /\ Full(Cardinality(R), cap)

(* A call the host refused memory returns with what is in the array.       *)
Refused(R) ==
    /\ refusals < MaxRefusals /\ refusals' = refusals + 1
    /\ regions' = R
    /\ stray' = stray \cup (Mapped(regions) \ Mapped(R))
    /\ UNCHANGED perm

\* fault: the protection is not given to the pages
NotPublished(s, e, prot) == perm
Publish(s, e, prot) == [p \in Page |-> IF p \in Span(s, e) THEN prot ELSE perm[p]]

Succeeds(R, s, e, prot) ==
    /\ regions' = R
    /\ perm' = Publish(s, e, prot)
    /\ stray' = stray \ Span(s, e)
    /\ UNCHANGED refusals

-----------------------------------------------------------------------------
(* agr_bionic_munmap                                                       *)
Munmap(s, e) ==
    /\ Succeeds(Cut(regions, s, e), s, e, NoAccess)
    /\ capacity' = CutCapacity(regions, s, e, capacity)

MunmapRefused(s, e) ==
    /\ CutRefused(regions, s, e, capacity)
    /\ Refused(CutTorn(regions, s, e))
    /\ UNCHANGED capacity

(* agr_bionic_mmap2 with MAP_FIXED: what is there is unmapped first.       *)
MmapFixed(s, e, prot) ==
    LET R   == Cut(regions, s, e)
        cap == CutCapacity(regions, s, e, capacity)
    IN /\ Succeeds(Coalesce(R \cup {NewRegion(s, e, prot)}), s, e, prot)
       /\ capacity' = Grown(Cardinality(R), cap)

(* The unmap finds no place, or there is none for the new region: what it  *)
(* was to replace is gone.                                                 *)
MmapFixedRefused(s, e) ==
    LET R   == Cut(regions, s, e)
        cap == CutCapacity(regions, s, e, capacity)
    IN \/ /\ CutRefused(regions, s, e, capacity)
          /\ Refused(CutTorn(regions, s, e))
          /\ UNCHANGED capacity
       \/ /\ Full(Cardinality(R), cap)
          /\ Refused(R)
          /\ capacity' = cap

(* agr_bionic_mmap2 without it: thread stacks and the span of an image.    *)
Mmap(hint, len, prot) ==
    \E s \in Cursors(regions, hint, len) :
        /\ \A t \in Cursors(regions, hint, len) : s <= t
        /\ Succeeds(Coalesce(regions \cup {NewRegion(s, s + len, prot)}), s, s + len, prot)
        /\ capacity' = Grown(Cardinality(regions), capacity)

(* agr_bionic_mprotect                                                     *)
Mprotect(s, e, prot) ==
    /\ Covered(regions, s, e)
    /\ Succeeds(Coalesce(Reprotect(Split(regions, s, e), s, e, prot)), s, e, prot)
    /\ capacity' = CutCapacity(Cut(regions, s, s), e, e,
                               CutCapacity(regions, s, s, capacity))

(* The first split finds no place, or the second.                          *)
MprotectRefused(s, e) ==
    LET R   == Cut(regions, s, s)
        cap == CutCapacity(regions, s, s, capacity)
    IN /\ Covered(regions, s, e)
       /\ \/ /\ CutRefused(regions, s, s, capacity)
             /\ Refused(CutTorn(regions, s, s))
             /\ UNCHANGED capacity
          \/ /\ CutRefused(R, e, e, cap)
             /\ Refused(CutTorn(R, e, e))
             /\ capacity' = cap

-----------------------------------------------------------------------------
Init == /\ regions = {} /\ capacity = 0
        /\ perm = [p \in Page |-> AllAccess]
        /\ refusals = 0 /\ stray = Page

Next ==
    \/ \E s \in Page : \E e \in s + 1 .. NumPages :
         \/ Munmap(s, e) \/ MunmapRefused(s, e) \/ MmapFixedRefused(s, e)
         \/ MprotectRefused(s, e)
         \/ \E prot \in Prots : MmapFixed(s, e, prot) \/ Mprotect(s, e, prot)
    \/ \E hint \in Page, len \in 1 .. NumPages, prot \in Prots : Mmap(hint, len, prot)

Spec == Init /\ [][Next]_vars

-----------------------------------------------------------------------------
(* Type invariant.                                                         *)
TypeOK ==
    /\ regions \subseteq Region /\ capacity \in Nat
    /\ perm \in [Page -> Prots]
    /\ refusals \in 0 .. MaxRefusals /\ stray \subseteq Page

(* agr_guest_vma_validate: regions are not empty and do not overlap,       *)
(* whatever was mapped over, cut or refused.                               *)
Valid(R) ==
    /\ \A r \in R : r.start < r.end
    /\ \A a, b \in R : a # b => a.end <= b.start \/ b.end <= a.start
RegionsValid == Valid(regions)

(* As long as the host refuses nothing, regions that touch differ, so the  *)
(* array is as short as it can be; and it never holds more than its        *)
(* capacity.                                                               *)
RegionsCoalesced ==
    /\ refusals = 0 => \A a, b \in regions : ~Joins(a, b)
    /\ Cardinality(regions) <= capacity

(* The interpreter's permissions are those of the regions.  A page without *)
(* a region is closed, unless nothing was ever mapped there or a refused   *)
(* call has given it up.                                                   *)
PermsPublished ==
    \A p \in Page :
        IF p \in Mapped(regions) THEN perm[p] = ProtAt(regions, p)
        ELSE p \in stray \/ perm[p] = NoAccess

(* The array implements the address space the guest is promised.           *)
Abstract == INSTANCE AddressSpace WITH
              space <- [p \in Page |-> ProtAt(regions, p)],
              failures <- refusals, MaxFailures <- MaxRefusals
IsAddressSpace == Abstract!Spec
=============================================================================
