--------------------------- MODULE ProcessProofs ---------------------------
(***************************************************************************)
(* Theorems about two parts of one Android process.                        *)
(*                                                                         *)
(* GuestMemory, for any number of pages and protections: regions and       *)
(* permissions agree, the whole implements AddressSpace, and the array     *)
(* stays short.  The argument is about Has(R, p, x), page p has protection *)
(* x in R: what each operator on regions does to it, first, and then that  *)
(* each call leaves it in step with the permissions.                       *)
(*                                                                         *)
(* BionicTls, for any threads, stacks, keys and bounds: a thread only      *)
(* finds what it put under a key in the key's present life, a destroyed    *)
(* value is out of the slots for good, and a cleanup that stops early      *)
(* leaves nothing behind.  All three rest on which stack is whose.  A      *)
(* living thread is registered with the stack it runs on and no two        *)
(* threads hold one stack; so a deleted key is cleared for everybody who   *)
(* lives, although the registrations that failed destructors leave behind  *)
(* name stacks that are gone or have been given to others.                 *)
(***************************************************************************)
EXTENDS BionicTls, GuestMemory, FiniteSetTheorems, WellFoundedInduction, TLAPS

-----------------------------------------------------------------------------
(* The address space                                                       *)

Has(R, p, x) == \E r \in R : Covers(r, p) /\ r.prot = x
Good(R) == R \subseteq Region /\ Valid(R)

(* A non-empty set of numbers has a least element.                         *)
LEMMA LeastElement ==
  ASSUME NEW T, T \subseteq Nat, T # {}
  PROVE  \E x \in T : \A y \in T : x <= y
<1> DEFINE D == {0 .. x : x \in T}
           R == StrictSubsetOrdering(Nat)
           S == FiniteSubsetsOf(Nat)
<1>1. IsWellFoundedOn(R, S)
  BY FS_StrictSubsetOrderingWellFounded
<1>2. ASSUME NEW x \in T PROVE 0 .. x \in S
  <2>1. IsFiniteSet(0 .. x)
    BY FS_Interval
  <2> QED BY <2>1 DEF FiniteSubsetsOf
<1>3. D \subseteq S /\ D # {}
  BY <1>2
<1>4. \E X \in D : \A Y \in D : ~ (<<Y, X>> \in R)
  <2> HIDE DEF D, R, S
  <2> QED BY <1>1, <1>3, WFMin
<1>5. PICK x \in T : \A Y \in D : ~ (<<Y, 0 .. x>> \in R)
  BY <1>4
<1>6. ASSUME NEW y \in T, y < x PROVE FALSE
  <2>1. 0 .. y \subseteq 0 .. x
    BY <1>6
  <2>2. x \in 0 .. x /\ x \notin 0 .. y
    BY <1>6
  <2>3. <<0 .. y, 0 .. x>> \in R
    BY <2>1, <2>2 DEF StrictSubsetOrdering
  <2> QED BY <1>5, <2>3
<1> QED BY <1>5, <1>6

(* Of some regions, one has the highest start, and one the lowest.         *)
LEMMA HighestStart ==
  ASSUME NEW Q, Q \subseteq Region, Q # {}
  PROVE  \E q \in Q : \A u \in Q : u.start <= q.start
<1> DEFINE T == {NumPages - q.start : q \in Q}
<1>1. T \subseteq Nat /\ T # {}
  BY MemoryAssumption DEF Region, Page
<1>2. PICK x \in T : \A y \in T : x <= y
  BY <1>1, LeastElement
<1>3. PICK q \in Q : x = NumPages - q.start
  OBVIOUS
<1>4. \A u \in Q : NumPages - q.start <= NumPages - u.start
  BY <1>2, <1>3
<1> QED BY <1>4, MemoryAssumption DEF Region, Page

LEMMA LowestStart ==
  ASSUME NEW Q, Q \subseteq Region, Q # {}
  PROVE  \E q \in Q : \A u \in Q : q.start <= u.start
<1> DEFINE T == {q.start : q \in Q}
<1>1. T \subseteq Nat /\ T # {}
  BY DEF Region, Page
<1>2. PICK x \in T : \A y \in T : x <= y
  BY <1>1, LeastElement
<1> QED BY <1>2

(* In valid regions a page has one protection, the one ProtAt finds.       *)
LEMMA OneProtection ==
  ASSUME NEW R, Good(R), NEW p \in Page, NEW r \in R, Covers(r, p)
  PROVE  ProtAt(R, p) = r.prot /\ p \in Mapped(R)
<1>1. \A q \in R : Covers(q, p) => q = r
  BY DEF Good, Valid, Covers, Region, Page
<1>2. (CHOOSE q \in R : Covers(q, p)) = r
  BY <1>1
<1> QED BY <1>2 DEF ProtAt, Mapped

LEMMA HasIsMapped ==
  ASSUME NEW R, Good(R), NEW p \in Page
  PROVE  /\ p \in Mapped(R) <=> \E x : Has(R, p, x)
         /\ \A x : Has(R, p, x) => ProtAt(R, p) = x
BY OneProtection DEF Has, Mapped

-----------------------------------------------------------------------------
(* Cutting: good regions stay good, pages in the span lose what they had   *)
(* and the others keep it.                                                 *)
LEMMA CutGood ==
  ASSUME NEW R, Good(R), NEW s \in Nat, NEW e \in Nat, s <= e
  PROVE  Good(Cut(R, s, e)) /\ Good(CutTorn(R, s, e))
<1> DEFINE PieceOf(c, r) ==
      /\ c.prot = r.prot /\ r.start <= c.start /\ c.start < c.end /\ c.end <= r.end
      /\ c.end <= s \/ e <= c.start
<1>1. ASSUME NEW c \in Cut(R, s, e)
      PROVE  c \in Region /\ \E r \in R : PieceOf(c, r)
  <2>1. CASE c \in Outside(R, s, e)
    BY <2>1 DEF Outside, Good, Valid, Region, Page
  <2>2. CASE c \in Heads(R, s)
    <3>1. PICK r \in R : r.start < s /\ s < r.end /\ c = HeadOf(r, s)
      BY <2>2 DEF Heads
    <3>2. c = [start |-> r.start, end |-> s, prot |-> r.prot]
      BY <3>1 DEF HeadOf, Good, Region
    <3> QED BY <3>1, <3>2, MemoryAssumption DEF Good, Region, Page
  <2>3. CASE c \in Tails(R, e)
    <3>1. PICK r \in R : r.start < e /\ e < r.end /\ c = TailOf(r, e)
      BY <2>3 DEF Tails
    <3>2. c = [start |-> e, end |-> r.end, prot |-> r.prot]
      BY <3>1 DEF TailOf, Good, Region
    <3> QED BY <3>1, <3>2, MemoryAssumption DEF Good, Region, Page
  <2> QED BY <2>1, <2>2, <2>3 DEF Cut
<1>2. ASSUME NEW a \in Cut(R, s, e), NEW b \in Cut(R, s, e), a # b
      PROVE  a.end <= b.start \/ b.end <= a.start
  <2>1. PICK r \in R : PieceOf(a, r)
    BY <1>1
  <2>2. PICK q \in R : PieceOf(b, q)
    BY <1>1
  <2>3. a \in Region /\ b \in Region /\ r \in Region /\ q \in Region
    BY <1>1 DEF Good
  <2>4. CASE r # q
    <3>1. r.end <= q.start \/ q.end <= r.start
      BY <2>4 DEF Good, Valid
    <3> QED BY <2>1, <2>2, <2>3, <3>1 DEF Region, Page
  <2>5. CASE r = q
    \* Both are pieces of one region: the head and the tail, or the same.
    <3> DEFINE Shape(c) ==
          \/ c = r /\ (r.end <= s \/ e <= r.start)
          \/ c = [start |-> r.start, end |-> s, prot |-> r.prot] /\ r.start < s /\ s < r.end
          \/ c = [start |-> e, end |-> r.end, prot |-> r.prot] /\ r.start < e /\ e < r.end
    <3>1. ASSUME NEW c \in Cut(R, s, e), PieceOf(c, r) PROVE Shape(c)
      <4>1. CASE c \in Outside(R, s, e)
        <5>1. c \in R /\ (c.end <= s \/ e <= c.start)
          BY <4>1 DEF Outside
        <5>2. c = r
          BY <5>1, <3>1, <2>3 DEF Good, Valid, Region, Page
        <5> QED BY <5>1, <5>2
      <4>2. CASE c \in Heads(R, s)
        <5>1. PICK u \in R : u.start < s /\ s < u.end /\ c = HeadOf(u, s)
          BY <4>2 DEF Heads
        <5>2. c = [start |-> u.start, end |-> s, prot |-> u.prot] /\ u \in Region
          BY <5>1 DEF HeadOf, Good, Region
        <5>3. u = r
          BY <5>1, <5>2, <3>1, <2>3 DEF Good, Valid, Region, Page
        <5> QED BY <5>1, <5>2, <5>3
      <4>3. CASE c \in Tails(R, e)
        <5>1. PICK u \in R : u.start < e /\ e < u.end /\ c = TailOf(u, e)
          BY <4>3 DEF Tails
        <5>2. c = [start |-> e, end |-> u.end, prot |-> u.prot] /\ u \in Region
          BY <5>1 DEF TailOf, Good, Region
        <5>3. u = r
          BY <5>1, <5>2, <3>1, <2>3 DEF Good, Valid, Region, Page
        <5> QED BY <5>1, <5>2, <5>3
      <4> QED BY <4>1, <4>2, <4>3 DEF Cut
    <3>2. Shape(a) /\ Shape(b)
      BY <3>1, <2>1, <2>2, <2>5
    <3> QED BY <3>2, <2>3, <1>2 DEF Region, Page
  <2> QED BY <2>4, <2>5
<1>3. Good(Cut(R, s, e))
  BY <1>1, <1>2 DEF Good, Valid
<1>4. CutTorn(R, s, e) \subseteq Cut(R, s, e)
  BY DEF Cut, CutTorn
<1> QED BY <1>3, <1>4 DEF Good, Valid

LEMMA CutPages ==
  ASSUME NEW R, Good(R), NEW s \in Nat, NEW e \in Nat, s <= e, NEW p \in Page, NEW x
  PROVE  /\ Has(Cut(R, s, e), p, x) <=> Has(R, p, x) /\ p \notin Span(s, e)
         /\ Has(CutTorn(R, s, e), p, x) => Has(R, p, x)
<1> USE DEF Covers
<1>1. ASSUME NEW r \in R, Covers(r, p), p \notin Span(s, e)
      PROVE  \E c \in Cut(R, s, e) : Covers(c, p) /\ c.prot = r.prot
  <2>1. r \in Region /\ p \in Nat
    BY DEF Good, Page
  <2>2. CASE r.end <= s \/ e <= r.start
    BY <2>2, <1>1 DEF Cut, Outside
  <2>3. CASE r.start < s /\ s < r.end /\ p < s
    <3>1. HeadOf(r, s) \in Cut(R, s, e)
      BY <2>3 DEF Cut, Heads
    <3>2. HeadOf(r, s) = [start |-> r.start, end |-> s, prot |-> r.prot]
      BY <2>1 DEF HeadOf, Region
    <3> QED BY <3>1, <3>2, <2>3, <1>1
  <2>4. CASE r.start < e /\ e < r.end /\ e <= p
    <3>1. TailOf(r, e) \in Cut(R, s, e)
      BY <2>4 DEF Cut, Tails
    <3>2. TailOf(r, e) = [start |-> e, end |-> r.end, prot |-> r.prot]
      BY <2>1 DEF TailOf, Region
    <3> QED BY <3>1, <3>2, <2>4, <1>1
  <2> QED BY <2>1, <2>2, <2>3, <2>4, <1>1 DEF Span, Region, Page
<1>2. ASSUME NEW c \in Cut(R, s, e), Covers(c, p)
      PROVE  p \notin Span(s, e) /\ \E r \in R : Covers(r, p) /\ r.prot = c.prot
  <2>1. CASE c \in Outside(R, s, e)
    BY <2>1, <1>2 DEF Outside, Span, Good, Region, Page
  <2>2. CASE c \in Heads(R, s)
    <3>1. PICK r \in R : r.start < s /\ s < r.end /\ c = HeadOf(r, s)
      BY <2>2 DEF Heads
    <3>2. c = [start |-> r.start, end |-> s, prot |-> r.prot]
      BY <3>1 DEF HeadOf, Good, Region
    <3> QED BY <3>1, <3>2, <1>2 DEF Span, Good, Region, Page
  <2>3. CASE c \in Tails(R, e)
    <3>1. PICK r \in R : r.start < e /\ e < r.end /\ c = TailOf(r, e)
      BY <2>3 DEF Tails
    <3>2. c = [start |-> e, end |-> r.end, prot |-> r.prot]
      BY <3>1 DEF TailOf, Good, Region
    <3> QED BY <3>1, <3>2, <1>2 DEF Span, Good, Region, Page
  <2> QED BY <2>1, <2>2, <2>3 DEF Cut
<1>3. CutTorn(R, s, e) \subseteq Cut(R, s, e)
  BY DEF Cut, CutTorn
<1> QED BY <1>1, <1>2, <1>3 DEF Has

(* Each piece lies in a region of R, and none reaches into the span.       *)
LEMMA CutPieces ==
  ASSUME NEW R, Good(R), NEW s \in Nat, NEW e \in Nat, s <= e, NEW c \in Cut(R, s, e)
  PROVE  /\ c.end <= s \/ e <= c.start
         /\ \E r \in R : r.start <= c.start /\ c.end <= r.end
<1>1. CASE c \in Outside(R, s, e)
  BY <1>1 DEF Outside, Good, Region, Page
<1>2. CASE c \in Heads(R, s)
  <2>1. PICK r \in R : r.start < s /\ s < r.end /\ c = HeadOf(r, s)
    BY <1>2 DEF Heads
  <2>2. c = [start |-> r.start, end |-> s, prot |-> r.prot]
    BY <2>1 DEF HeadOf, Good, Region
  <2> QED BY <2>1, <2>2 DEF Good, Region, Page
<1>3. CASE c \in Tails(R, e)
  <2>1. PICK r \in R : r.start < e /\ e < r.end /\ c = TailOf(r, e)
    BY <1>3 DEF Tails
  <2>2. c = [start |-> e, end |-> r.end, prot |-> r.prot]
    BY <2>1 DEF TailOf, Good, Region
  <2> QED BY <2>1, <2>2 DEF Good, Region, Page
<1> QED BY <1>1, <1>2, <1>3 DEF Cut

-----------------------------------------------------------------------------
(* Coalescing: the run that starts with r ends with the first region at or *)
(* above r that joins no other.                                            *)
LEMMA RunEndIsLast ==
  ASSUME NEW R, Good(R), NEW r \in R
  PROVE  \E l \in Lasts(R) :
            /\ r.start <= l.start /\ RunEnd(R, r) = l.end
            /\ \A m \in Lasts(R) : r.start <= m.start => l.end <= m.end
<1> DEFINE Q == {q \in R : r.start <= q.start}
           T == EndsFrom(R, r)
<1>1. Q \subseteq Region /\ r \in Q
  BY DEF Good, Region, Page
<1>2. PICK q \in Q : \A u \in Q : u.start <= q.start
  BY <1>1, HighestStart
<1>3. ASSUME NEW u \in R, Joins(q, u) PROVE FALSE
  <2>1. u.start = q.end /\ q.start < q.end
    BY <1>3 DEF Joins, Good, Valid
  <2> QED BY <1>2, <2>1 DEF Good, Region, Page
<1>4. q.end \in T
  BY <1>3 DEF Lasts, EndsFrom
<1>5. T \subseteq Nat
  BY DEF EndsFrom, Lasts, Good, Region
<1>6. \E x \in T : \A y \in T : x <= y
  <2> HIDE DEF T
  <2> QED BY <1>4, <1>5, LeastElement
<1>7. RunEnd(R, r) \in T /\ \A f \in T : RunEnd(R, r) <= f
  BY <1>6 DEF RunEnd
<1> QED BY <1>7 DEF EndsFrom

(* A run ends before a later run begins.                                   *)
LEMMA RunsApart ==
  ASSUME NEW R, Good(R), NEW r \in R, NEW f \in Firsts(R), r.end <= f.start
  PROVE  RunEnd(R, r) <= f.start
<1> DEFINE Q == {q \in R : r.start <= q.start /\ q.end <= f.start}
<1>1. Q \subseteq Region /\ r \in Q
  BY DEF Good, Region, Page
<1>2. PICK q \in Q : \A u \in Q : u.start <= q.start
  BY <1>1, HighestStart
<1>3. ASSUME NEW u \in R, Joins(q, u) PROVE FALSE
  <2>1. u.start = q.end /\ q.start < q.end /\ u.start < u.end /\ f \in R /\ f.start < f.end
    BY <1>3 DEF Joins, Good, Valid, Firsts
  <2>2. u # f
    BY <1>3 DEF Firsts
  <2>3. u.end <= f.start \/ f.end <= u.start
    BY <2>1, <2>2 DEF Good, Valid
  <2> QED BY <1>2, <2>1, <2>3 DEF Good, Region, Page
<1>4. q \in Lasts(R)
  BY <1>3 DEF Lasts
<1>5. PICK l \in Lasts(R) : RunEnd(R, r) = l.end
                            /\ \A m \in Lasts(R) : r.start <= m.start => l.end <= m.end
  BY RunEndIsLast
<1>6. l \in Region /\ f \in Region
  BY DEF Lasts, Firsts, Good
<1> QED BY <1>4, <1>5, <1>6 DEF Good, Region, Page

LEMMA CoalesceGood ==
  ASSUME NEW R, Good(R)
  PROVE  Good(Coalesce(R))
<1> DEFINE Whole(r) == [start |-> r.start, end |-> RunEnd(R, r), prot |-> r.prot]
<1>1. ASSUME NEW c \in Coalesce(R)
      PROVE  \E r \in Firsts(R) : c = Whole(r)
  BY DEF Coalesce, Firsts, Good, Region
<1>2. ASSUME NEW r \in Firsts(R)
      PROVE  Whole(r) \in Region /\ r.start < RunEnd(R, r)
  <2>1. r \in R /\ r \in Region
    BY DEF Firsts, Good
  <2>2. PICK l \in Lasts(R) : r.start <= l.start /\ RunEnd(R, r) = l.end
    BY <2>1, RunEndIsLast
  <2>3. l \in Region /\ l.start < l.end
    BY DEF Lasts, Good, Valid
  <2> QED BY <2>1, <2>2, <2>3 DEF Region, Page
<1>3. ASSUME NEW c \in Coalesce(R), NEW d \in Coalesce(R), c # d
      PROVE  c.end <= d.start \/ d.end <= c.start
  <2>1. PICK r \in Firsts(R) : c = Whole(r)
    BY <1>1
  <2>2. PICK q \in Firsts(R) : d = Whole(q)
    BY <1>1
  <2>3. r # q /\ r \in R /\ q \in R
    BY <2>1, <2>2, <1>3 DEF Firsts
  <2>4. r.end <= q.start \/ q.end <= r.start
    BY <2>3 DEF Good, Valid
  <2>5. RunEnd(R, r) <= q.start \/ RunEnd(R, q) <= r.start
    BY <2>3, <2>4, RunsApart
  <2> QED BY <2>1, <2>2, <2>5
<1> QED BY <1>1, <1>2, <1>3 DEF Good, Valid

LEMMA CoalescePages ==
  ASSUME NEW R, Good(R), NEW p \in Page, NEW x
  PROVE  Has(Coalesce(R), p, x) <=> Has(R, p, x)
<1> DEFINE Whole(r) == [start |-> r.start, end |-> RunEnd(R, r), prot |-> r.prot]
<1>1. \A r \in Firsts(R) : r \in R /\ r \in Region /\ [r EXCEPT !.end = RunEnd(R, r)] = Whole(r)
  BY DEF Firsts, Good, Region
<1>2. \A a, b \in R : /\ a \in Region /\ a.start < a.end
                      /\ a # b => a.end <= b.start \/ b.end <= a.start
  BY DEF Good, Valid
<1>3. ASSUME NEW r \in Firsts(R), Covers(Whole(r), p)
      PROVE  \E q \in R : Covers(q, p) /\ q.prot = r.prot
  <2>1. PICK l \in Lasts(R) :
           /\ r.start <= l.start /\ RunEnd(R, r) = l.end
           /\ \A m \in Lasts(R) : r.start <= m.start => l.end <= m.end
    BY <1>1, RunEndIsLast
  <2> DEFINE G == {q \in R : /\ r.start <= q.start /\ q.start <= p
                             /\ q.prot = r.prot /\ q.end <= l.end}
  <2>2. l \in R /\ r \in R /\ r.start <= p /\ p < l.end
    BY <1>1, <1>3, <2>1 DEF Lasts, Covers
  <2>3. G \subseteq Region /\ r \in G
    BY <2>1, <2>2, <1>2 DEF Region, Page
  <2>4. PICK g \in G : \A u \in G : u.start <= g.start
    BY <2>3, HighestStart
  <2>5. ASSUME g.end <= p PROVE FALSE
    <3>1. g \notin Lasts(R)
      BY <2>1, <2>2, <2>4, <2>5, <1>2 DEF Region, Page
    <3>2. PICK u \in R : Joins(g, u)
      BY <3>1 DEF Lasts
    <3>3. u \in G
      BY <3>2, <2>2, <2>5, <1>2 DEF Joins, Region, Page
    <3> QED BY <3>2, <3>3, <2>4, <1>2 DEF Joins, Region, Page
  <2> QED BY <2>4, <2>5, <1>2 DEF Covers, Region, Page
<1>4. ASSUME NEW q \in R, Covers(q, p)
      PROVE  \E r \in Firsts(R) : Covers(Whole(r), p) /\ r.prot = q.prot
  <2> DEFINE F == {r \in R : /\ r.start <= q.start /\ r.prot = q.prot
                             /\ \A l \in Lasts(R) : r.start <= l.start => q.end <= l.end}
  <2>1. q \in F
    <3>1. ASSUME NEW l \in Lasts(R), q.start <= l.start PROVE q.end <= l.end
      <4>1. l \in R
        BY DEF Lasts
      <4> QED BY <3>1, <4>1, <1>2 DEF Region, Page
    <3> QED BY <3>1, <1>2 DEF Region, Page
  <2>2. F \subseteq Region
    BY <1>2
  <2>3. PICK f \in F : \A u \in F : f.start <= u.start
    BY <2>1, <2>2, LowestStart
  <2>4. ASSUME NEW u \in R, Joins(u, f) PROVE FALSE
    <3>1. u.start < f.start /\ u.start <= q.start /\ u.prot = q.prot /\ u.end = f.start
      BY <2>4, <1>2 DEF Joins, Region, Page
    <3>2. ASSUME NEW l \in Lasts(R), u.start <= l.start PROVE q.end <= l.end
      <4>1. l \in R /\ l # u
        BY <2>4 DEF Lasts
      <4>2. f.start <= l.start
        BY <4>1, <3>1, <3>2, <1>2 DEF Region, Page
      <4> QED BY <4>2
    <3>3. u \in F
      BY <3>1, <3>2
    <3> QED BY <3>1, <3>3, <2>3, <1>2 DEF Region, Page
  <2>5. f \in Firsts(R)
    BY <2>4 DEF Firsts
  <2>6. PICK l \in Lasts(R) : f.start <= l.start /\ RunEnd(R, f) = l.end
    BY RunEndIsLast
  <2>7. l \in R /\ q.end <= l.end
    BY <2>6 DEF Lasts
  <2>8. Covers(Whole(f), p)
    BY <1>4, <2>6, <2>7, <1>2 DEF Covers, Region, Page
  <2> QED BY <2>5, <2>8
<1>5. ASSUME NEW r \in Firsts(R) PROVE Whole(r) \in Coalesce(R)
  BY <1>1 DEF Coalesce
<1>6. ASSUME NEW c \in Coalesce(R) PROVE \E r \in Firsts(R) : c = Whole(r)
  BY <1>1 DEF Coalesce
<1>7. ASSUME Has(Coalesce(R), p, x) PROVE Has(R, p, x)
  <2>1. PICK c \in Coalesce(R) : Covers(c, p) /\ c.prot = x
    BY <1>7 DEF Has
  <2>2. PICK r \in Firsts(R) : c = Whole(r)
    BY <1>6
  <2>3. Covers(Whole(r), p) /\ r.prot = x
    BY <2>1, <2>2
  <2> QED BY <2>3, <1>3 DEF Has
<1>8. ASSUME Has(R, p, x) PROVE Has(Coalesce(R), p, x)
  <2>1. PICK q \in R : Covers(q, p) /\ q.prot = x
    BY <1>8 DEF Has
  <2>2. PICK r \in Firsts(R) : Covers(Whole(r), p) /\ r.prot = q.prot
    BY <1>4, <2>1
  <2>3. Whole(r).prot = x
    BY <2>1, <2>2
  <2> HIDE DEF Whole
  <2> QED BY <1>5, <2>2, <2>3 DEF Has
<1> QED BY <1>7, <1>8

-----------------------------------------------------------------------------
(* A region put where there is none.                                       *)
LEMMA InsertPages ==
  ASSUME NEW R, Good(R), NEW s \in Page, NEW e \in 1 .. NumPages, s < e, NEW prot \in Prots,
         \A r \in R : r.end <= s \/ e <= r.start
  PROVE  /\ Good(R \cup {NewRegion(s, e, prot)})
         /\ \A p \in Page : \A x :
              Has(R \cup {NewRegion(s, e, prot)}, p, x)
                <=> Has(R, p, x) \/ (p \in Span(s, e) /\ x = prot)
<1> DEFINE n == NewRegion(s, e, prot)
<1>1. n = [start |-> s, end |-> e, prot |-> prot] /\ n \in Region
  BY DEF NewRegion, Region
<1>2. Good(R \cup {n})
  BY <1>1 DEF Good, Valid, Region, Page
<1>3. \A p \in Page : Covers(n, p) <=> p \in Span(s, e)
  BY <1>1 DEF Covers, Span, Page
<1> QED BY <1>1, <1>2, <1>3 DEF Has

(* A protection given to the regions of a span.                            *)
LEMMA ReprotectPages ==
  ASSUME NEW R, Good(R), NEW s \in Nat, NEW e \in Nat, s < e, NEW prot \in Prots,
         \A r \in R : \/ r.end <= s \/ e <= r.start
                      \/ s <= r.start /\ r.end <= e
  PROVE  /\ Good(Reprotect(R, s, e, prot))
         /\ \A p \in Page : \A x :
              Has(Reprotect(R, s, e, prot), p, x)
                <=> IF p \in Span(s, e) THEN x = prot /\ \E y : Has(R, p, y)
                                        ELSE Has(R, p, x)
<1> DEFINE To(r) == [start |-> r.start, end |-> r.end, prot |-> prot]
           New(r) == IF r.end <= s \/ e <= r.start THEN r ELSE To(r)
           Q == Reprotect(R, s, e, prot)
<1>1. \A r \in R : /\ r \in Region /\ r.start < r.end /\ [r EXCEPT !.prot = prot] = To(r)
                   /\ \A q \in R : q # r => r.end <= q.start \/ q.end <= r.start
  BY DEF Good, Valid, Region
<1>2. ASSUME NEW c \in Q PROVE \E r \in R : c = New(r)
  BY <1>1 DEF Reprotect
<1>3. ASSUME NEW r \in R PROVE New(r) \in Q
  BY <1>1 DEF Reprotect
<1>4. ASSUME NEW r \in R
      PROVE  New(r) \in Region /\ New(r).start = r.start /\ New(r).end = r.end
  BY <1>1 DEF Region
<1>5. Good(Q)
  <2> HIDE DEF New, Q
  <2>1. Q \subseteq Region
    BY <1>2, <1>4
  <2>2. ASSUME NEW c \in Q PROVE c.start < c.end
    BY <1>2, <1>4, <1>1
  <2>3. ASSUME NEW c \in Q, NEW d \in Q, c # d PROVE c.end <= d.start \/ d.end <= c.start
    <3>1. PICK r \in R : c = New(r)
      BY <1>2
    <3>2. PICK q \in R : d = New(q)
      BY <1>2
    <3> QED BY <3>1, <3>2, <2>3, <1>1, <1>4
  <2> QED BY <2>1, <2>2, <2>3 DEF Good, Valid
<1>6. ASSUME NEW p \in Page, NEW r \in R, Covers(r, p)
      PROVE  /\ Covers(New(r), p)
             /\ New(r).prot = IF p \in Span(s, e) THEN prot ELSE r.prot
  <2>1. Covers(New(r), p)
    BY <1>4, <1>6 DEF Covers
  <2> DEFINE a == r.start
             b == r.end
  <2>4. a \in Nat /\ b \in Nat /\ p \in Nat /\ a <= p /\ p < b
    <3>1. r \in Region /\ r.start <= p /\ p < r.end
      BY <1>6 DEF Covers, Good
    <3> QED BY <3>1 DEF Region, Page
  <2>5. (b <= s \/ e <= a) \/ (s <= a /\ b <= e)
    OBVIOUS
  <2>2. CASE p \in Span(s, e)
    <3>1. ~(b <= s \/ e <= a)
      <4> HIDE DEF a, b
      <4> QED BY <2>2, <2>4 DEF Span
    <3> QED BY <2>1, <2>2, <3>1
  <2>3. CASE p \notin Span(s, e)
    <3>1. b <= s \/ e <= a
      <4> HIDE DEF a, b
      <4> QED BY <2>3, <2>4, <2>5 DEF Span
    <3> QED BY <2>1, <2>3, <3>1
  <2> QED BY <2>2, <2>3
<1>7. ASSUME NEW p \in Page, NEW r \in R, Covers(New(r), p) PROVE Covers(r, p)
  <2> HIDE DEF New
  <2> QED BY <1>4, <1>7 DEF Covers
<1>8. ASSUME NEW p \in Page, NEW x
      PROVE  Has(Q, p, x) <=> IF p \in Span(s, e) THEN x = prot /\ \E y : Has(R, p, y)
                                                  ELSE Has(R, p, x)
  <2> HIDE DEF New, Q
  <2>1. Has(Q, p, x) <=> \E r \in R : Covers(New(r), p) /\ New(r).prot = x
    BY <1>2, <1>3 DEF Has
  <2>2. Has(Q, p, x) <=> \E r \in R : /\ Covers(r, p)
                                      /\ x = IF p \in Span(s, e) THEN prot ELSE r.prot
    BY <2>1, <1>6, <1>7
  <2> QED BY <2>2 DEF Has
<1> QED BY <1>5, <1>8

(* The two splits of an mprotect move no page and leave no region across a *)
(* border of the span.                                                     *)
LEMMA SplitPages ==
  ASSUME NEW R, Good(R), NEW s \in Nat, NEW e \in Nat, s < e
  PROVE  /\ Good(Split(R, s, e))
         /\ \A p \in Page : \A x : Has(Split(R, s, e), p, x) <=> Has(R, p, x)
         /\ \A r \in Split(R, s, e) : \/ r.end <= s \/ e <= r.start
                                      \/ s <= r.start /\ r.end <= e
<1> DEFINE C == Cut(R, s, s)
<1>1. Good(C) /\ Good(Cut(C, e, e))
  BY CutGood
<1>2. Span(s, s) = {} /\ Span(e, e) = {}
  BY DEF Span
<1>3. ASSUME NEW p \in Page, NEW x PROVE Has(Cut(C, e, e), p, x) <=> Has(R, p, x)
  <2>1. Has(C, p, x) <=> Has(R, p, x)
    BY <1>2, CutPages
  <2> HIDE DEF C
  <2> QED BY <2>1, <1>1, <1>2, CutPages
<1>4. ASSUME NEW r \in Cut(C, e, e)
      PROVE  r.end <= s \/ e <= r.start \/ (s <= r.start /\ r.end <= e)
  <2>1. \A c \in C : c.end <= s \/ s <= c.start
    BY CutPieces
  <2> HIDE DEF C
  <2>2. /\ r.end <= e \/ e <= r.start
        /\ \E c \in C : c.start <= r.start /\ r.end <= c.end
    BY <1>1, CutPieces
  <2>3. r \in Region /\ \A c \in C : c \in Region
    BY <1>1 DEF Good
  <2> QED BY <2>1, <2>2, <2>3 DEF Region, Page
<1> QED BY <1>1, <1>3, <1>4 DEF Split

-----------------------------------------------------------------------------
(* The permissions P are those of the regions R, up to the stray pages T.  *)
InStep(R, P, T) ==
    \A p \in Page : /\ \A x : Has(R, p, x) => P[p] = x
                    /\ (\A x : ~Has(R, p, x)) => p \in T \/ P[p] = NoAccess

MemoryInv == TypeOK /\ RegionsValid /\ PermsPublished

LEMMA InStepIsPublished ==
  ASSUME NEW R, Good(R), NEW P, NEW T
  PROVE  InStep(R, P, T) <=>
           \A p \in Page : IF p \in Mapped(R) THEN P[p] = ProtAt(R, p)
                                              ELSE p \in T \/ P[p] = NoAccess
<1>1. ASSUME NEW p \in Page, p \in Mapped(R)
      PROVE  \E x : Has(R, p, x) /\ ProtAt(R, p) = x /\ \A y : Has(R, p, y) => y = x
  BY <1>1, HasIsMapped
<1>2. ASSUME NEW p \in Page, p \notin Mapped(R) PROVE \A x : ~Has(R, p, x)
  BY <1>2, HasIsMapped
<1> QED BY <1>1, <1>2 DEF InStep

(* A call that succeeds: pages outside its span keep what they had, those  *)
(* inside have the protection that is published, or none is left open.     *)
LEMMA SucceedsInStep ==
  ASSUME MemoryInv, NEW R, Good(R), NEW s, NEW e, NEW prot \in Prots,
         Succeeds(R, s, e, prot),
         \A p \in Page : \A x : p \notin Span(s, e) => (Has(R, p, x) <=> Has(regions, p, x)),
         \A p \in Page : \A x : p \in Span(s, e) /\ Has(R, p, x) => x = prot,
         \A p \in Page : p \in Span(s, e) /\ (\A x : ~Has(R, p, x)) => prot = NoAccess,
         capacity' \in Nat
  PROVE  MemoryInv'
<1>1. regions' = R /\ perm' = Publish(s, e, prot) /\ stray' = stray \ Span(s, e)
      /\ refusals' = refusals
  BY DEF Succeeds
<1>2. Good(regions) /\ InStep(regions, perm, stray)
  BY InStepIsPublished DEF MemoryInv, TypeOK, RegionsValid, PermsPublished, Good
<1>3. TypeOK' /\ RegionsValid'
  BY <1>1 DEF MemoryInv, TypeOK, RegionsValid, Good, Publish
<1>4. \A p \in Page : perm'[p] = IF p \in Span(s, e) THEN prot ELSE perm[p]
  BY <1>1 DEF Publish
<1>5. InStep(R, perm', stray')
  BY <1>1, <1>2, <1>4 DEF InStep
<1>6. PermsPublished'
  BY <1>1, <1>5, InStepIsPublished DEF PermsPublished
<1> QED BY <1>3, <1>6 DEF MemoryInv

(* A call the host refuses memory: no page has anything it did not have.   *)
LEMMA RefusedInStep ==
  ASSUME MemoryInv, NEW R, Good(R), Refused(R),
         \A p \in Page : \A x : Has(R, p, x) => Has(regions, p, x),
         capacity' \in Nat
  PROVE  MemoryInv'
<1>1. /\ regions' = R /\ perm' = perm /\ refusals' = refusals + 1 /\ refusals < MaxRefusals
      /\ stray' = stray \cup (Mapped(regions) \ Mapped(R))
  BY DEF Refused
<1>2. Good(regions) /\ InStep(regions, perm, stray)
  BY InStepIsPublished DEF MemoryInv, TypeOK, RegionsValid, PermsPublished, Good
<1>3. refusals' \in 0 .. MaxRefusals
  BY <1>1, MemoryAssumption DEF MemoryInv, TypeOK
<1>4. stray' \subseteq Page
  BY <1>1 DEF MemoryInv, TypeOK, Mapped
<1>5. TypeOK' /\ RegionsValid'
  BY <1>1, <1>3, <1>4 DEF MemoryInv, TypeOK, RegionsValid, Good
<1>6. \A p \in Page : (\A x : ~Has(R, p, x)) =>
         p \in stray' \/ (\A x : ~Has(regions, p, x))
  BY <1>1, <1>2, HasIsMapped
<1>7. InStep(R, perm', stray')
  BY <1>1, <1>2, <1>6 DEF InStep
<1>8. PermsPublished'
  BY <1>1, <1>7, InStepIsPublished DEF PermsPublished
<1> QED BY <1>5, <1>8 DEF MemoryInv

LEMMA CapacityType ==
  ASSUME NEW cap \in Nat, NEW n, NEW R, NEW s, NEW e
  PROVE  Grown(n, cap) \in Nat /\ CutCapacity(R, s, e, cap) \in Nat
BY MemoryAssumption DEF Grown, CutCapacity

-----------------------------------------------------------------------------
(* Each call.                                                              *)
LEMMA MunmapKeeps ==
  ASSUME MemoryInv, NEW s \in Page, NEW e \in s + 1 .. NumPages, Munmap(s, e)
  PROVE  MemoryInv'
<1> DEFINE R == Cut(regions, s, e)
<1>1. s \in Nat /\ e \in Nat /\ s <= e /\ NoAccess \in Prots
  BY MemoryAssumption DEF Page
<1>2. Good(regions)
  BY DEF MemoryInv, TypeOK, RegionsValid, Good
<1>3. Good(R)
  BY <1>1, <1>2, CutGood
<1>4. \A p \in Page : \A x : Has(R, p, x) <=> Has(regions, p, x) /\ p \notin Span(s, e)
  BY <1>1, <1>2, CutPages
<1>5. Succeeds(R, s, e, NoAccess) /\ capacity' \in Nat
  BY CapacityType DEF Munmap, MemoryInv, TypeOK
<1> QED
  <2> HIDE DEF R
  <2> QED BY <1>1, <1>3, <1>4, <1>5, SucceedsInStep

LEMMA MunmapRefusedKeeps ==
  ASSUME MemoryInv, NEW s \in Page, NEW e \in s + 1 .. NumPages, MunmapRefused(s, e)
  PROVE  MemoryInv'
<1> DEFINE R == CutTorn(regions, s, e)
<1>1. s \in Nat /\ e \in Nat /\ s <= e
  BY MemoryAssumption DEF Page
<1>2. Good(regions)
  BY DEF MemoryInv, TypeOK, RegionsValid, Good
<1>3. Good(R) /\ \A p \in Page : \A x : Has(R, p, x) => Has(regions, p, x)
  BY <1>1, <1>2, CutGood, CutPages
<1>4. Refused(R) /\ capacity' \in Nat
  BY DEF MunmapRefused, MemoryInv, TypeOK
<1> QED
  <2> HIDE DEF R
  <2> QED BY <1>3, <1>4, RefusedInStep

(* What a mapping puts where it has cut, or where there is room.           *)
LEMMA PlacedInStep ==
  ASSUME MemoryInv, NEW R, Good(R), NEW s \in Page, NEW e \in 1 .. NumPages, s < e,
         NEW prot \in Prots,
         \A r \in R : r.end <= s \/ e <= r.start,
         \A p \in Page : \A x : p \notin Span(s, e) => (Has(R, p, x) <=> Has(regions, p, x)),
         Succeeds(Coalesce(R \cup {NewRegion(s, e, prot)}), s, e, prot),
         capacity' \in Nat
  PROVE  MemoryInv'
<1> DEFINE Q == R \cup {NewRegion(s, e, prot)}
           W == Coalesce(Q)
<1>1. Good(Q) /\ \A p \in Page : \A x :
        Has(Q, p, x) <=> Has(R, p, x) \/ (p \in Span(s, e) /\ x = prot)
  BY InsertPages
<1>2. \A p \in Page : \A x : p \in Span(s, e) => ~Has(R, p, x)
  BY DEF Has, Covers, Span, Good, Region, Page
<1>3. Good(W) /\ \A p \in Page : \A x : Has(W, p, x) <=> Has(Q, p, x)
  <2> HIDE DEF Q
  <2> QED BY <1>1, CoalesceGood, CoalescePages
<1>4. Succeeds(W, s, e, prot)
  OBVIOUS
<1> QED
  <2> HIDE DEF Q, W
  <2>1. \A p \in Page : \A x :
          p \notin Span(s, e) => (Has(W, p, x) <=> Has(regions, p, x))
    BY <1>1, <1>3
  <2>2. \A p \in Page : \A x : p \in Span(s, e) => (Has(W, p, x) <=> x = prot)
    BY <1>1, <1>2, <1>3
  <2> QED BY <1>3, <1>4, <2>1, <2>2, SucceedsInStep

LEMMA MmapFixedKeeps ==
  ASSUME MemoryInv, NEW s \in Page, NEW e \in s + 1 .. NumPages, NEW prot \in Prots,
         MmapFixed(s, e, prot)
  PROVE  MemoryInv'
<1> DEFINE R == Cut(regions, s, e)
<1>1. s \in Nat /\ e \in Nat /\ s < e /\ s <= e /\ e \in 1 .. NumPages
  BY MemoryAssumption DEF Page
<1>2. Good(regions)
  BY DEF MemoryInv, TypeOK, RegionsValid, Good
<1>3. Good(R) /\ \A r \in R : r.end <= s \/ e <= r.start
  BY <1>1, <1>2, CutGood, CutPieces
<1>4. \A p \in Page : \A x : p \notin Span(s, e) => (Has(R, p, x) <=> Has(regions, p, x))
  BY <1>1, <1>2, CutPages
<1>5. Succeeds(Coalesce(R \cup {NewRegion(s, e, prot)}), s, e, prot) /\ capacity' \in Nat
  BY CapacityType DEF MmapFixed, MemoryInv, TypeOK
<1> QED
  <2> HIDE DEF R
  <2> QED BY <1>1, <1>3, <1>4, <1>5, PlacedInStep

LEMMA MmapFixedRefusedKeeps ==
  ASSUME MemoryInv, NEW s \in Page, NEW e \in s + 1 .. NumPages, MmapFixedRefused(s, e)
  PROVE  MemoryInv'
<1>1. s \in Nat /\ e \in Nat /\ s <= e
  BY MemoryAssumption DEF Page
<1>2. Good(regions)
  BY DEF MemoryInv, TypeOK, RegionsValid, Good
<1>3. ASSUME NEW R \in {Cut(regions, s, e), CutTorn(regions, s, e)}
      PROVE  Good(R) /\ \A p \in Page : \A x : Has(R, p, x) => Has(regions, p, x)
  BY <1>1, <1>2, CutGood, CutPages
<1>4. /\ Refused(Cut(regions, s, e)) \/ Refused(CutTorn(regions, s, e))
      /\ capacity' \in Nat
  BY CapacityType DEF MmapFixedRefused, MemoryInv, TypeOK
<1> QED BY <1>3, <1>4, RefusedInStep

LEMMA MmapKeeps ==
  ASSUME MemoryInv, NEW hint \in Page, NEW len \in 1 .. NumPages, NEW prot \in Prots,
         Mmap(hint, len, prot)
  PROVE  MemoryInv'
<1>1. Good(regions)
  BY DEF MemoryInv, TypeOK, RegionsValid, Good
<1>2. PICK s \in Cursors(regions, hint, len) :
         /\ Succeeds(Coalesce(regions \cup {NewRegion(s, s + len, prot)}), s, s + len, prot)
         /\ capacity' = Grown(Cardinality(regions), capacity)
  BY DEF Mmap
<1>3. s \in Nat /\ FitsAt(regions, s, len)
  <2>1. hint \in Nat /\ \A r \in regions : r.end \in Nat
    BY <1>1 DEF Good, Region, Page
  <2> QED BY <1>2, <2>1 DEF Cursors
<1>4. s \in Page /\ s + len \in 1 .. NumPages /\ s < s + len
  BY <1>3, MemoryAssumption DEF FitsAt, Page
<1>5. \A r \in regions : r.end <= s \/ s + len <= r.start
  BY <1>3 DEF FitsAt
<1>6. capacity' \in Nat
  BY <1>2, CapacityType DEF MemoryInv, TypeOK
<1> QED BY <1>1, <1>2, <1>4, <1>5, <1>6, PlacedInStep

LEMMA MprotectKeeps ==
  ASSUME MemoryInv, NEW s \in Page, NEW e \in s + 1 .. NumPages, NEW prot \in Prots,
         Mprotect(s, e, prot)
  PROVE  MemoryInv'
<1> DEFINE R == Split(regions, s, e)
           Q == Reprotect(R, s, e, prot)
           W == Coalesce(Q)
<1>1. s \in Nat /\ e \in Nat /\ s < e
  BY MemoryAssumption DEF Page
<1>2. Good(regions)
  BY DEF MemoryInv, TypeOK, RegionsValid, Good
<1>3. /\ Good(R)
      /\ \A p \in Page : \A x : Has(R, p, x) <=> Has(regions, p, x)
      /\ \A r \in R : r.end <= s \/ e <= r.start \/ (s <= r.start /\ r.end <= e)
  BY <1>1, <1>2, SplitPages
<1>4. /\ Good(Q)
      /\ \A p \in Page : \A x :
           Has(Q, p, x) <=> IF p \in Span(s, e) THEN x = prot /\ \E y : Has(R, p, y)
                                                ELSE Has(R, p, x)
  <2> HIDE DEF R
  <2> QED BY <1>1, <1>3, ReprotectPages
<1>5. Good(W) /\ \A p \in Page : \A x : Has(W, p, x) <=> Has(Q, p, x)
  <2> HIDE DEF Q
  <2> QED BY <1>4, CoalesceGood, CoalescePages
<1>6. \A p \in Page : p \in Span(s, e) => \E x : Has(regions, p, x)
  BY <1>2, HasIsMapped DEF Mprotect, Covered
<1>7. Succeeds(W, s, e, prot) /\ capacity' \in Nat
  BY CapacityType DEF Mprotect, MemoryInv, TypeOK
<1> QED
  <2> HIDE DEF R, Q, W
  <2>1. \A p \in Page : \A x :
          p \notin Span(s, e) => (Has(W, p, x) <=> Has(regions, p, x))
    BY <1>3, <1>4, <1>5
  <2>2. \A p \in Page : \A x : p \in Span(s, e) => (Has(W, p, x) <=> x = prot)
    BY <1>3, <1>4, <1>5, <1>6
  <2> QED BY <1>5, <1>7, <2>1, <2>2, SucceedsInStep

LEMMA MprotectRefusedKeeps ==
  ASSUME MemoryInv, NEW s \in Page, NEW e \in s + 1 .. NumPages, MprotectRefused(s, e)
  PROVE  MemoryInv'
<1> DEFINE C == Cut(regions, s, s)
<1>1. s \in Nat /\ e \in Nat /\ s <= e
  BY MemoryAssumption DEF Page
<1>2. Good(regions)
  BY DEF MemoryInv, TypeOK, RegionsValid, Good
<1>3. /\ Good(C) /\ Good(CutTorn(regions, s, s))
      /\ \A p \in Page : \A x : /\ Has(C, p, x) => Has(regions, p, x)
                                /\ Has(CutTorn(regions, s, s), p, x) => Has(regions, p, x)
  BY <1>1, <1>2, CutGood, CutPages
<1>4. Good(CutTorn(C, e, e)) /\ \A p \in Page : \A x : Has(CutTorn(C, e, e), p, x) => Has(regions, p, x)
  <2> HIDE DEF C
  <2> QED BY <1>1, <1>3, CutGood, CutPages
<1>5. /\ Refused(CutTorn(regions, s, s)) \/ Refused(CutTorn(C, e, e))
      /\ capacity' \in Nat
  BY CapacityType DEF MprotectRefused, MemoryInv, TypeOK
<1> QED BY <1>3, <1>4, <1>5, RefusedInStep

-----------------------------------------------------------------------------
(* Every call keeps the invariant, and the system starts in it.            *)
THEOREM MemoryInvariance == Spec => []MemoryInv
<1>1. Init => MemoryInv
  <2> SUFFICES ASSUME Init PROVE MemoryInv
    OBVIOUS
  <2>1. TypeOK
    BY MemoryAssumption DEF Init, TypeOK
  <2>2. RegionsValid /\ PermsPublished
    BY DEF Init, RegionsValid, Valid, PermsPublished, Mapped
  <2> QED BY <2>1, <2>2 DEF MemoryInv
<1>2. MemoryInv /\ [Next]_vars => MemoryInv'
  <2> SUFFICES ASSUME MemoryInv, [Next]_vars PROVE MemoryInv'
    OBVIOUS
  <2>1. ASSUME NEW s \in Page, NEW e \in s + 1 .. NumPages, Munmap(s, e) PROVE MemoryInv'
    BY <2>1, MunmapKeeps
  <2>2. ASSUME NEW s \in Page, NEW e \in s + 1 .. NumPages, MunmapRefused(s, e) PROVE MemoryInv'
    BY <2>2, MunmapRefusedKeeps
  <2>3. ASSUME NEW s \in Page, NEW e \in s + 1 .. NumPages, NEW prot \in Prots,
               MmapFixed(s, e, prot)
        PROVE  MemoryInv'
    BY <2>3, MmapFixedKeeps
  <2>4. ASSUME NEW s \in Page, NEW e \in s + 1 .. NumPages, MmapFixedRefused(s, e) PROVE MemoryInv'
    BY <2>4, MmapFixedRefusedKeeps
  <2>5. ASSUME NEW hint \in Page, NEW len \in 1 .. NumPages, NEW prot \in Prots,
               Mmap(hint, len, prot)
        PROVE  MemoryInv'
    BY <2>5, MmapKeeps
  <2>6. ASSUME NEW s \in Page, NEW e \in s + 1 .. NumPages, NEW prot \in Prots,
               Mprotect(s, e, prot)
        PROVE  MemoryInv'
    BY <2>6, MprotectKeeps
  <2>7. ASSUME NEW s \in Page, NEW e \in s + 1 .. NumPages, MprotectRefused(s, e) PROVE MemoryInv'
    BY <2>7, MprotectRefusedKeeps
  <2>8. CASE UNCHANGED vars
    BY <2>8 DEF vars, MemoryInv, TypeOK, RegionsValid, PermsPublished
  <2> QED BY <2>1, <2>2, <2>3, <2>4, <2>5, <2>6, <2>7, <2>8 DEF Next
<1> QED BY <1>1, <1>2, PTL DEF Spec

(* The array and the permissions have their types.                         *)
THEOREM TypeCorrect == Spec => []TypeOK
<1>1. MemoryInv => TypeOK
  BY DEF MemoryInv
<1> QED BY <1>1, MemoryInvariance, PTL

(* Regions are never empty and never overlap, over every order of mmap,    *)
(* mprotect and munmap and every refusal of the host (agr_guest_vma.c).    *)
THEOREM NoOverlap == Spec => []RegionsValid
<1>1. MemoryInv => RegionsValid
  BY DEF MemoryInv
<1> QED BY <1>1, MemoryInvariance, PTL

(* The interpreter enforces on every mapped page the protection the region *)
(* array says, and an unmapped page is open only if no call ever closed it *)
(* (agr_bionic_mmap.cpp: publish_protection).                              *)
THEOREM PermsFollowRegions == Spec => []PermsPublished
<1>1. MemoryInv => PermsPublished
  BY DEF MemoryInv
<1> QED BY <1>1, MemoryInvariance, PTL
-----------------------------------------------------------------------------
(***************************************************************************)
(* GuestMemory implements AddressSpace, for any number of pages,           *)
(* protections and refusals.  What a call does to the protection of each   *)
(* page is what the lemmas above say; the work here is that                *)
(* find_first_fit, which looks only at its hint and at the ends of         *)
(* regions, finds the first room of all.                                   *)
(***************************************************************************)

Space(R) == [p \in Page |-> ProtAt(R, p)]
SetSpan(R, s, e, y) == [p \in Page |-> IF p \in Span(s, e) THEN y ELSE Space(R)[p]]

-----------------------------------------------------------------------------
(* The protection of a page in the abstract space.                         *)
LEMMA SpaceIs ==
  ASSUME NEW R, Good(R), NEW p \in Page
  PROVE  /\ Space(R)[p] \in Prots \cup {Free}
         /\ \A x : Has(R, p, x) => Space(R)[p] = x /\ x # Free
         /\ (\A x : ~Has(R, p, x)) => Space(R)[p] = Free
<1>1. Space(R)[p] = ProtAt(R, p)
  BY DEF Space
<1>2. \A x : Has(R, p, x) => x \in Prots /\ x # Free
  BY MemoryAssumption DEF Has, Good, Region
<1>3. \A x : Has(R, p, x) => Space(R)[p] = x
  BY <1>1, HasIsMapped
<1>4. (\A x : ~Has(R, p, x)) => Space(R)[p] = Free
  BY <1>1 DEF ProtAt, Has
<1> QED BY <1>2, <1>3, <1>4

(* A call that sets the pages of a span and leaves the others alone.       *)
LEMMA SpanIsSet ==
  ASSUME NEW R, Good(R), NEW Q, Good(Q), NEW s, NEW e, NEW y,
         \A p \in Page : \A x : p \notin Span(s, e) => (Has(Q, p, x) <=> Has(R, p, x)),
         \A p \in Page : \A x : p \in Span(s, e) => (Has(Q, p, x) <=> x = y /\ y # Free)
  PROVE  Space(Q) = SetSpan(R, s, e, y)
<1>1. ASSUME NEW p \in Page, p \in Span(s, e) PROVE Space(Q)[p] = y
  <2>1. CASE y = Free
    BY <1>1, <2>1, SpaceIs
  <2>2. CASE y # Free
    BY <1>1, <2>2, SpaceIs
  <2> QED BY <2>1, <2>2
<1>2. ASSUME NEW p \in Page, p \notin Span(s, e) PROVE Space(Q)[p] = Space(R)[p]
  <2>1. CASE \A x : ~Has(R, p, x)
    BY <1>2, <2>1, SpaceIs
  <2>2. CASE \E x : Has(R, p, x)
    BY <1>2, <2>2, SpaceIs
  <2> QED BY <2>1, <2>2
<1>3. Space(Q) = [p \in Page |-> Space(Q)[p]]
  BY DEF Space
<1> QED BY <1>1, <1>2, <1>3 DEF SetSpan

(* A refused call: no page has anything it did not have.                   *)
LEMMA SpanGivenUp ==
  ASSUME NEW R, Good(R), NEW Q, Good(Q),
         \A p \in Page : \A x : Has(Q, p, x) => Has(R, p, x)
  PROVE  /\ Space(Q) \in [Page -> Prots \cup {Free}]
         /\ \A p \in Page : Space(Q)[p] \in {Space(R)[p], Free}
<1>1. \A p \in Page : Space(Q)[p] \in Prots \cup {Free}
  BY SpaceIs
<1>2. Space(Q) = [p \in Page |-> Space(Q)[p]]
  BY DEF Space
<1>3. ASSUME NEW p \in Page PROVE Space(Q)[p] \in {Space(R)[p], Free}
  <2>1. CASE \A x : ~Has(Q, p, x)
    BY <2>1, SpaceIs
  <2>2. CASE \E x : Has(Q, p, x)
    BY <2>2, SpaceIs
  <2> QED BY <2>1, <2>2
<1> QED BY <1>1, <1>2, <1>3

-----------------------------------------------------------------------------
(* find_first_fit                                                          *)

(* Room between regions is room in the space.                              *)
LEMMA FitIsRoom ==
  ASSUME NEW R, Good(R), NEW t \in Page, NEW len \in 1 .. NumPages
  PROVE  FitsAt(R, t, len) <=>
           t + len <= NumPages /\ \A p \in Span(t, t + len) : Space(R)[p] = Free
<1>1. t \in Nat /\ len \in Nat /\ len >= 1
  BY MemoryAssumption DEF Page
<1>2. ASSUME FitsAt(R, t, len), NEW p \in Span(t, t + len) PROVE Space(R)[p] = Free
  <2>1. p \in Page
    BY <1>1, <1>2, MemoryAssumption DEF FitsAt, Span, Page
  <2>2. \A x : ~Has(R, p, x)
    BY <1>1, <1>2, <2>1 DEF FitsAt, Span, Has, Covers, Good, Region, Page
  <2> QED BY <2>1, <2>2, SpaceIs
<1>3. ASSUME t + len <= NumPages, \A p \in Span(t, t + len) : Space(R)[p] = Free,
             NEW r \in R, ~(r.end <= t \/ t + len <= r.start)
      PROVE  FALSE
  <2> DEFINE p == IF r.start <= t THEN t ELSE r.start
  <2>1. r.start \in Page /\ r.end \in Nat /\ r.start < r.end
    BY MemoryAssumption DEF Good, Valid, Region
  <2>2. p \in Page /\ p \in Span(t, t + len) /\ Covers(r, p)
    BY <1>1, <1>3, <2>1, MemoryAssumption DEF Page, Span, Covers
  <2>3. Has(R, p, r.prot)
    BY <2>2 DEF Has
  <2> HIDE DEF p
  <2> QED BY <1>3, <2>2, <2>3, SpaceIs
<1> QED BY <1>2, <1>3 DEF FitsAt

(* Wherever there is room at or above the hint, a cursor stops no later.   *)
LEMMA CursorBelow ==
  ASSUME NEW R, Good(R), NEW hint \in Page, NEW t \in Page, hint <= t,
         NEW len \in 1 .. NumPages, FitsAt(R, t, len)
  PROVE  \E c \in Cursors(R, hint, len) : c <= t
<1> DEFINE C == {c \in {hint} \cup {r.end : r \in {q \in R : q.end > hint}} : c <= t}
           T == {t - c : c \in C}
<1>1. /\ hint \in Nat /\ t \in Nat /\ len \in Nat
      /\ \A r \in R : r.end \in Nat /\ r.start \in Nat
  BY MemoryAssumption DEF Page, Good, Region
<1>2. C \subseteq Nat /\ hint \in C
  BY <1>1
<1>3. T \subseteq Nat /\ T # {}
  BY <1>1, <1>2
<1>4. PICK x \in T : \A y \in T : x <= y
  BY <1>3, LeastElement
<1>5. PICK c \in C : x = t - c
  OBVIOUS
<1>6. c \in Nat /\ c <= t /\ \A d \in C : d <= c
  <2>1. c \in Nat /\ c <= t
    BY <1>2
  <2>2. ASSUME NEW d \in C PROVE d <= c
    <3>1. t - c <= t - d
      BY <1>4, <1>5
    <3>2. d \in Nat
      BY <1>2
    <3> QED BY <1>1, <2>1, <3>1, <3>2
  <2> QED BY <2>1, <2>2
<1>7. ASSUME NEW r \in R PROVE r.end <= c \/ c + len <= r.start
  <2>1. CASE r.end <= t
    <3>1. hint <= c
      BY <1>2, <1>6
    <3>2. r.end > hint => r.end \in C
      BY <2>1
    <3> QED BY <1>1, <1>6, <3>1, <3>2
  <2>2. CASE ~(r.end <= t)
    BY <1>1, <1>6, <2>2 DEF FitsAt
  <2> QED BY <2>1, <2>2
<1>8. FitsAt(R, c, len)
  BY <1>1, <1>6, <1>7, MemoryAssumption DEF FitsAt
<1>9. c \in {hint} \cup {r.end : r \in {q \in R : q.end > hint}}
  BY <1>5
<1> QED BY <1>6, <1>8, <1>9 DEF Cursors

-----------------------------------------------------------------------------
(* Each call is a call of the address space.                               *)

(* What a mapping puts where it has cut, or where there is room.           *)
LEMMA PlacedIsSet ==
  ASSUME NEW V, Good(V), NEW R, Good(R), NEW s \in Page, NEW e \in 1 .. NumPages, s < e,
         NEW prot \in Prots,
         \A r \in R : r.end <= s \/ e <= r.start,
         \A p \in Page : \A x : p \notin Span(s, e) => (Has(R, p, x) <=> Has(V, p, x)),
         NEW W, W = Coalesce(R \cup {NewRegion(s, e, prot)})
  PROVE  Space(W) = SetSpan(V, s, e, prot)
<1> DEFINE Q == R \cup {NewRegion(s, e, prot)}
<1>1. Good(Q) /\ \A p \in Page : \A x :
        Has(Q, p, x) <=> Has(R, p, x) \/ (p \in Span(s, e) /\ x = prot)
  BY InsertPages
<1>2. \A p \in Page : \A x : p \in Span(s, e) => ~Has(R, p, x)
  BY DEF Has, Covers, Span, Good, Region, Page
<1>3. Good(W) /\ \A p \in Page : \A x : Has(W, p, x) <=> Has(Q, p, x)
  <2>1. W = Coalesce(Q)
    OBVIOUS
  <2> HIDE DEF Q
  <2> QED BY <1>1, <2>1, CoalesceGood, CoalescePages
<1>4. prot # Free
  BY MemoryAssumption
<1> QED
  <2> HIDE DEF Q
  <2>1. \A p \in Page : \A x :
          p \notin Span(s, e) => (Has(W, p, x) <=> Has(V, p, x))
    BY <1>1, <1>3
  <2>2. \A p \in Page : \A x :
          p \in Span(s, e) => (Has(W, p, x) <=> x = prot /\ prot # Free)
    BY <1>1, <1>2, <1>3, <1>4
  <2> QED BY <1>3, <2>1, <2>2, SpanIsSet
LEMMA MunmapIs ==
  ASSUME MemoryInv, NEW s \in Page, NEW e \in s + 1 .. NumPages, Munmap(s, e)
  PROVE  Space(regions') = SetSpan(regions, s, e, Free)
<1> DEFINE R == Cut(regions, s, e)
<1>1. s \in Nat /\ e \in Nat /\ s <= e
  BY MemoryAssumption DEF Page
<1>2. Good(regions) /\ Good(R)
  BY <1>1, CutGood DEF MemoryInv, TypeOK, RegionsValid, Good
<1>3. \A p \in Page : \A x : Has(R, p, x) <=> Has(regions, p, x) /\ p \notin Span(s, e)
  BY <1>1, <1>2, CutPages
<1>4. regions' = R
  BY DEF Munmap, Succeeds
<1> HIDE DEF R
<1>5. Space(R) = SetSpan(regions, s, e, Free)
  BY <1>2, <1>3, SpanIsSet
<1> QED BY <1>4, <1>5

LEMMA MmapFixedIs ==
  ASSUME MemoryInv, NEW s \in Page, NEW e \in s + 1 .. NumPages, NEW prot \in Prots,
         MmapFixed(s, e, prot)
  PROVE  Space(regions') = SetSpan(regions, s, e, prot)
<1> DEFINE R == Cut(regions, s, e)
           W == Coalesce(R \cup {NewRegion(s, e, prot)})
<1>1. s \in Nat /\ e \in Nat /\ s < e /\ s <= e /\ e \in 1 .. NumPages
  BY MemoryAssumption DEF Page
<1>2. Good(regions)
  BY DEF MemoryInv, TypeOK, RegionsValid, Good
<1>3. Good(R) /\ \A r \in R : r.end <= s \/ e <= r.start
  BY <1>1, <1>2, CutGood, CutPieces
<1>4. \A p \in Page : \A x : p \notin Span(s, e) => (Has(R, p, x) <=> Has(regions, p, x))
  BY <1>1, <1>2, CutPages
<1>5. regions' = W
  BY DEF MmapFixed, Succeeds
<1>6. Space(W) = SetSpan(regions, s, e, prot)
  <2> HIDE DEF R
  <2> QED BY <1>1, <1>2, <1>3, <1>4, PlacedIsSet
<1> HIDE DEF W
<1> QED BY <1>5, <1>6

(* The place is the first with room.                                       *)
LEMMA MmapIs ==
  ASSUME MemoryInv, NEW hint \in Page, NEW len \in 1 .. NumPages, NEW prot \in Prots,
         Mmap(hint, len, prot)
  PROVE  \E s \in Page :
            /\ hint <= s /\ FitsAt(regions, s, len)
            /\ \A t \in Page : hint <= t /\ FitsAt(regions, t, len) => s <= t
            /\ Space(regions') = SetSpan(regions, s, s + len, prot)
<1>1. Good(regions)
  BY DEF MemoryInv, TypeOK, RegionsValid, Good
<1>2. PICK s \in Cursors(regions, hint, len) :
         /\ \A t \in Cursors(regions, hint, len) : s <= t
         /\ regions' = Coalesce(regions \cup {NewRegion(s, s + len, prot)})
  BY DEF Mmap, Succeeds
<1>3. hint \in Nat /\ len \in Nat /\ len >= 1 /\ \A r \in regions : r.end \in Nat
  BY <1>1, MemoryAssumption DEF Good, Region, Page
<1>4. s \in Nat /\ hint <= s /\ FitsAt(regions, s, len)
  BY <1>2, <1>3 DEF Cursors
<1>5. s \in Page /\ s + len \in 1 .. NumPages /\ s < s + len
  BY <1>3, <1>4, MemoryAssumption DEF FitsAt, Page
<1>6. ASSUME NEW t \in Page, hint <= t, FitsAt(regions, t, len) PROVE s <= t
  <2>1. PICK c \in Cursors(regions, hint, len) : c <= t
    BY <1>1, <1>6, CursorBelow
  <2>2. c \in Nat /\ t \in Nat /\ s <= c
    BY <1>2, <1>3 DEF Cursors, Page
  <2> QED BY <1>4, <2>1, <2>2
<1>7. \A r \in regions : r.end <= s \/ s + len <= r.start
  BY <1>4 DEF FitsAt
<1> DEFINE W == Coalesce(regions \cup {NewRegion(s, s + len, prot)})
<1>8. Space(W) = SetSpan(regions, s, s + len, prot)
  BY <1>1, <1>5, <1>7, PlacedIsSet
<1>9. regions' = W
  BY <1>2
<1> HIDE DEF W
<1> QED BY <1>4, <1>5, <1>6, <1>8, <1>9

LEMMA MprotectIs ==
  ASSUME MemoryInv, NEW s \in Page, NEW e \in s + 1 .. NumPages, NEW prot \in Prots,
         Mprotect(s, e, prot)
  PROVE  /\ \A p \in Span(s, e) : Space(regions)[p] # Free
         /\ Space(regions') = SetSpan(regions, s, e, prot)
<1> DEFINE R == Split(regions, s, e)
           Q == Reprotect(R, s, e, prot)
           W == Coalesce(Q)
<1>1. s \in Nat /\ e \in Nat /\ s < e /\ prot # Free
  BY MemoryAssumption DEF Page
<1>2. Good(regions)
  BY DEF MemoryInv, TypeOK, RegionsValid, Good
<1>3. /\ Good(R)
      /\ \A p \in Page : \A x : Has(R, p, x) <=> Has(regions, p, x)
      /\ \A r \in R : r.end <= s \/ e <= r.start \/ (s <= r.start /\ r.end <= e)
  BY <1>1, <1>2, SplitPages
<1>4. /\ Good(Q)
      /\ \A p \in Page : \A x :
           Has(Q, p, x) <=> IF p \in Span(s, e) THEN x = prot /\ \E y : Has(R, p, y)
                                                ELSE Has(R, p, x)
  <2> HIDE DEF R
  <2> QED BY <1>1, <1>3, ReprotectPages
<1>5. Good(W) /\ \A p \in Page : \A x : Has(W, p, x) <=> Has(Q, p, x)
  <2> HIDE DEF Q
  <2> QED BY <1>4, CoalesceGood, CoalescePages
<1>6. \A p \in Span(s, e) : p \in Page /\ \E x : Has(regions, p, x)
  BY <1>1, <1>2, HasIsMapped, MemoryAssumption DEF Mprotect, Covered, Span, Page
<1>7. \A p \in Span(s, e) : Space(regions)[p] # Free
  BY <1>2, <1>6, SpaceIs
<1>8. regions' = W
  BY DEF Mprotect, Succeeds
<1>9. Space(W) = SetSpan(regions, s, e, prot)
  <2> HIDE DEF R, Q, W
  <2>1. \A p \in Page : \A x :
          p \notin Span(s, e) => (Has(W, p, x) <=> Has(regions, p, x))
    BY <1>3, <1>4, <1>5
  <2>2. \A p \in Page : \A x :
          p \in Span(s, e) => (Has(W, p, x) <=> x = prot /\ prot # Free)
    BY <1>1, <1>3, <1>4, <1>5, <1>6
  <2> QED BY <1>2, <1>5, <2>1, <2>2, SpanIsSet
<1> HIDE DEF W
<1> QED BY <1>7, <1>8, <1>9

(* A refused call gives up pages, and changes no protection.               *)
LEMMA RefusedIs ==
  ASSUME MemoryInv, NEW R, Good(R), Refused(R),
         \A p \in Page : \A x : Has(R, p, x) => Has(regions, p, x)
  PROVE  Abstract!GiveUp
<1>1. regions' = R /\ refusals < MaxRefusals /\ refusals' = refusals + 1
  BY DEF Refused
<1>2. Good(regions)
  BY DEF MemoryInv, TypeOK, RegionsValid, Good
<1>3. /\ Space(R) \in [Page -> Prots \cup {Free}]
      /\ \A p \in Page : Space(R)[p] \in {Space(regions)[p], Free}
  BY <1>2, SpanGivenUp
<1> QED BY <1>1, <1>3 DEF Abstract!GiveUp, Abstract!Page, Page, Space

(* What the array holds after a refused call.                              *)
LEMMA RefusedKeepsLess ==
  ASSUME MemoryInv, NEW s \in Page, NEW e \in s + 1 .. NumPages,
         MunmapRefused(s, e) \/ MmapFixedRefused(s, e) \/ MprotectRefused(s, e)
  PROVE  \E R : /\ Good(R) /\ Refused(R)
                /\ \A p \in Page : \A x : Has(R, p, x) => Has(regions, p, x)
<1> DEFINE C == Cut(regions, s, s)
<1>1. s \in Nat /\ e \in Nat /\ s <= e
  BY MemoryAssumption DEF Page
<1>2. Good(regions)
  BY DEF MemoryInv, TypeOK, RegionsValid, Good
<1>3. ASSUME NEW R \in {Cut(regions, s, e), CutTorn(regions, s, e), C, CutTorn(regions, s, s)}
      PROVE  Good(R) /\ \A p \in Page : \A x : Has(R, p, x) => Has(regions, p, x)
  BY <1>1, <1>2, CutGood, CutPages
<1>4. /\ Good(CutTorn(C, e, e))
      /\ \A p \in Page : \A x : Has(CutTorn(C, e, e), p, x) => Has(regions, p, x)
  <2>1. Good(C) /\ \A p \in Page : \A x : Has(C, p, x) => Has(regions, p, x)
    BY <1>3
  <2> HIDE DEF C
  <2> QED BY <1>1, <2>1, CutGood, CutPages
<1>5. \/ Refused(Cut(regions, s, e)) \/ Refused(CutTorn(regions, s, e))
      \/ Refused(CutTorn(regions, s, s)) \/ Refused(CutTorn(C, e, e))
  BY DEF MunmapRefused, MmapFixedRefused, MprotectRefused
<1> QED BY <1>3, <1>4, <1>5

(* The other calls in the words of the address space.                      *)
LEMMA SetIsStep ==
  ASSUME NEW s, NEW e, NEW y, Space(regions') = SetSpan(regions, s, e, y)
  PROVE  Abstract!Map(s, e, y) /\ (y = Free => Abstract!Unmap(s, e))
BY DEF Abstract!Map, Abstract!Unmap, Abstract!SetPages, Abstract!Page, Abstract!Span,
       Page, Span, Space, SetSpan

LEMMA ProtectIsStep ==
  ASSUME NEW s, NEW e, NEW prot, s \in Page, e \in s + 1 .. NumPages,
         \A p \in Span(s, e) : Space(regions)[p] # Free,
         Space(regions') = SetSpan(regions, s, e, prot)
  PROVE  Abstract!Protect(s, e, prot)
<1>1. \A p \in Span(s, e) : p \in Page
  BY MemoryAssumption DEF Span, Page
<1> QED BY <1>1 DEF Abstract!Protect, Abstract!SetPages, Abstract!Page, Abstract!Span,
                    Page, Span, Space, SetSpan

LEMMA PlaceIsStep ==
  ASSUME MemoryInv, NEW hint \in Page, NEW len \in 1 .. NumPages, NEW prot,
         NEW s \in Page, hint <= s, FitsAt(regions, s, len),
         \A t \in Page : hint <= t /\ FitsAt(regions, t, len) => s <= t,
         Space(regions') = SetSpan(regions, s, s + len, prot)
  PROVE  Abstract!MapAnywhere(hint, len, prot)
<1>1. Good(regions)
  BY DEF MemoryInv, TypeOK, RegionsValid, Good
<1>2. ASSUME NEW t \in Page PROVE Abstract!Room(t, len) <=> FitsAt(regions, t, len)
  <2>1. t + len <= NumPages => Span(t, t + len) \subseteq Page
    BY MemoryAssumption DEF Span, Page
  <2>2. FitsAt(regions, t, len) <=>
          t + len <= NumPages /\ \A p \in Span(t, t + len) : Space(regions)[p] = Free
    BY <1>1, FitIsRoom
  <2> QED BY <2>1, <2>2 DEF Abstract!Room, Abstract!Span, Abstract!Page, Span, Space
<1>3. Abstract!Map(s, s + len, prot)
  BY SetIsStep
<1> QED BY <1>2, <1>3 DEF Abstract!MapAnywhere, Abstract!Page, Page

(* Every mmap, mprotect and munmap does to the protection of each page     *)
(* what the address space promises, and a call that fails for want of      *)
(* memory only gives pages up (agr_guest_vma.c, agr_bionic_mmap.cpp).      *)
THEOREM ImplementsAddressSpace == Spec => IsAddressSpace
<1>1. Init => Abstract!Init
  BY DEF Init, Abstract!Init, Abstract!Page, Page, ProtAt
<1>2. MemoryInv /\ [Next]_vars => [Abstract!Next]_<<[p \in Page |-> ProtAt(regions, p)], refusals>>
  <2> DEFINE Same == UNCHANGED <<[p \in Page |-> ProtAt(regions, p)], refusals>>
  <2> SUFFICES ASSUME MemoryInv, [Next]_vars PROVE Abstract!Next \/ Same
    OBVIOUS
  <2>1. ASSUME NEW s \in Page, NEW e \in s + 1 .. NumPages, Munmap(s, e)
        PROVE  Abstract!Next
    <3>1. refusals' = refusals
      BY <2>1 DEF Munmap, Succeeds
    <3>2. Abstract!Unmap(s, e)
      BY <2>1, MunmapIs, SetIsStep
    <3> QED BY <3>1, <3>2 DEF Abstract!Next, Abstract!Page, Page
  <2>2. ASSUME NEW s \in Page, NEW e \in s + 1 .. NumPages, NEW prot \in Prots,
               MmapFixed(s, e, prot)
        PROVE  Abstract!Next
    <3>1. refusals' = refusals
      BY <2>2 DEF MmapFixed, Succeeds
    <3>2. Abstract!Map(s, e, prot)
      BY <2>2, MmapFixedIs, SetIsStep
    <3> QED BY <3>1, <3>2 DEF Abstract!Next, Abstract!Page, Page
  <2>3. ASSUME NEW s \in Page, NEW e \in s + 1 .. NumPages, NEW prot \in Prots,
               Mprotect(s, e, prot)
        PROVE  Abstract!Next
    <3>1. refusals' = refusals
      BY <2>3 DEF Mprotect, Succeeds
    <3>2. Abstract!Protect(s, e, prot)
      BY <2>3, MprotectIs, ProtectIsStep
    <3> QED BY <3>1, <3>2 DEF Abstract!Next, Abstract!Page, Page
  <2>4. ASSUME NEW hint \in Page, NEW len \in 1 .. NumPages, NEW prot \in Prots,
               Mmap(hint, len, prot)
        PROVE  Abstract!Next
    <3>1. refusals' = refusals
      BY <2>4 DEF Mmap, Succeeds
    <3>2. Abstract!MapAnywhere(hint, len, prot)
      BY <2>4, MmapIs, PlaceIsStep
    <3> QED BY <3>1, <3>2 DEF Abstract!Next, Abstract!Page, Page
  <2>5. ASSUME NEW s \in Page, NEW e \in s + 1 .. NumPages,
               MunmapRefused(s, e) \/ MmapFixedRefused(s, e) \/ MprotectRefused(s, e)
        PROVE  Abstract!Next
    <3>1. \E R : /\ Good(R) /\ Refused(R)
                 /\ \A p \in Page : \A x : Has(R, p, x) => Has(regions, p, x)
      BY <2>5, RefusedKeepsLess
    <3>2. Abstract!GiveUp
      BY <3>1, RefusedIs
    <3> QED BY <3>2 DEF Abstract!Next
  <2>6. CASE UNCHANGED vars
    BY <2>6 DEF vars
  <2> QED BY <2>1, <2>2, <2>3, <2>4, <2>5, <2>6 DEF Next
<1> QED BY <1>1, <1>2, MemoryInvariance, PTL DEF Spec, IsAddressSpace, Abstract!Spec
-----------------------------------------------------------------------------
(***************************************************************************)
(* The size of the region array, for any number of pages, protections and  *)
(* refusals: it never holds more regions than it has places for, and it is *)
(* as short as the mappings allow while nothing was refused.               *)
(***************************************************************************)

Distinct(R) == \A a, b \in R : ~Joins(a, b)
Fits(R, cap) == IsFiniteSet(R) /\ Cardinality(R) <= cap

ArrayInv ==
    /\ Fits(regions, capacity)
    /\ refusals = 0 => Distinct(regions)

-----------------------------------------------------------------------------
(* How many regions                                                        *)

(* What a function makes of a set is not larger.                           *)
LEMMA AtMostImage ==
  ASSUME NEW R, IsFiniteSet(R), NEW f, f = [r \in R |-> f[r]],
         NEW T, T \subseteq {f[r] : r \in R}
  PROVE  IsFiniteSet(T) /\ Cardinality(T) <= Cardinality(R)
<1> DEFINE I == {f[r] : r \in R}
<1>1. f \in Surjection(R, I)
  BY DEF Surjection
<1>2. IsFiniteSet(I) /\ Cardinality(I) <= Cardinality(R)
  <2> HIDE DEF I
  <2> QED BY <1>1, FS_Surjection
<1>3. IsFiniteSet(T) /\ Cardinality(T) <= Cardinality(I)
  <2>1. T \in SUBSET I
    OBVIOUS
  <2> HIDE DEF I
  <2> QED BY <1>2, <2>1, FS_Subset
<1>4. Cardinality(T) \in Nat /\ Cardinality(I) \in Nat /\ Cardinality(R) \in Nat
  BY <1>2, <1>3, FS_CardinalityType
<1> QED BY <1>2, <1>3, <1>4

(* ensure_capacity makes place for one region more.                        *)
LEMMA GrownEnough ==
  ASSUME NEW n \in Nat, NEW cap \in Nat, n <= cap
  PROVE  Grown(n, cap) \in Nat /\ n + 1 <= Grown(n, cap)
BY MemoryAssumption DEF Grown, Full

LEMMA AtMostOneMore ==
  ASSUME NEW S, IsFiniteSet(S), NEW x
  PROVE  /\ IsFiniteSet(S \cup {x})
         /\ Cardinality(S) \in Nat /\ Cardinality(S \cup {x}) \in Nat
         /\ Cardinality(S \cup {x}) <= Cardinality(S) + 1
<1>1. /\ IsFiniteSet(S \cup {x})
      /\ Cardinality(S \cup {x}) = IF x \in S THEN Cardinality(S) ELSE Cardinality(S) + 1
  BY FS_AddElement
<1>2. Cardinality(S) \in Nat
  BY FS_CardinalityType
<1> QED BY <1>1, <1>2

(* An unmap needs a place more only for a region it cuts in two.           *)
LEMMA CutSmall ==
  ASSUME NEW R, Good(R), NEW s \in Nat, NEW e \in Nat, s <= e, NEW cap \in Nat, Fits(R, cap)
  PROVE  Fits(Cut(R, s, e), CutCapacity(R, s, e, cap)) /\ CutCapacity(R, s, e, cap) \in Nat
<1>1. Cardinality(R) \in Nat /\ IsFiniteSet(R) /\ Cardinality(R) <= cap
  BY FS_CardinalityType DEF Fits
<1>2. \A r \in R : r.start \in Nat /\ r.end \in Nat /\ r.start < r.end
  BY MemoryAssumption DEF Good, Valid, Region, Page
<1>3. CASE ~Straddled(R, s, e)
  <2> DEFINE f == [r \in R |-> IF r.end <= s \/ e <= r.start THEN r
                               ELSE IF r.start < s THEN HeadOf(r, s) ELSE TailOf(r, e)]
  <2>1. ASSUME NEW c \in Cut(R, s, e) PROVE c \in {f[r] : r \in R}
    <3>1. CASE c \in Outside(R, s, e)
      BY <3>1 DEF Outside
    <3>2. CASE c \in Heads(R, s)
      <4>1. PICK q \in R : q.start < s /\ s < q.end /\ c = HeadOf(q, s)
        BY <3>2 DEF Heads
      <4>2. ~(q.end <= s \/ e <= q.start)
        BY <1>2, <4>1
      <4>3. c = f[q]
        BY <4>1, <4>2
      <4> QED BY <4>3
    <3>3. CASE c \in Tails(R, e)
      <4>1. PICK q \in R : q.start < e /\ e < q.end /\ c = TailOf(q, e)
        BY <3>3 DEF Tails
      <4>2. ~(q.end <= s \/ e <= q.start) /\ ~(q.start < s)
        BY <1>2, <1>3, <4>1 DEF Straddled
      <4>3. c = f[q]
        BY <4>1, <4>2
      <4> QED BY <4>3
    <3> QED BY <3>1, <3>2, <3>3 DEF Cut
  <2>2. f = [r \in R |-> f[r]]
    OBVIOUS
  <2>3. Cut(R, s, e) \subseteq {f[r] : r \in R}
    BY <2>1
  <2>4. IsFiniteSet(Cut(R, s, e)) /\ Cardinality(Cut(R, s, e)) <= Cardinality(R)
    <3> HIDE DEF f
    <3> QED BY <1>1, <2>2, <2>3, AtMostImage
  <2>5. Cardinality(Cut(R, s, e)) \in Nat
    BY <2>4, FS_CardinalityType
  <2>6. CutCapacity(R, s, e, cap) = cap
    BY <1>3 DEF CutCapacity
  <2> QED BY <1>1, <2>4, <2>5, <2>6 DEF Fits
<1>4. CASE Straddled(R, s, e)
  <2>1. PICK r \in R : r.start < s /\ e < r.end
    BY <1>4 DEF Straddled
  <2> DEFINE Rest == R \ {r}
             Most == Rest \cup {HeadOf(r, s)}
             All == Most \cup {TailOf(r, e)}
  <2>2. ASSUME NEW q \in R, q # r PROVE q.end <= s \/ e <= q.start
    BY <1>2, <2>1, <2>2 DEF Good, Valid
  <2>3. Cut(R, s, e) \subseteq All
    BY <1>2, <2>1, <2>2 DEF Cut, Outside, Heads, Tails
  <2>4. IsFiniteSet(Rest) /\ Cardinality(Rest) = Cardinality(R) - 1
    BY <1>1, FS_RemoveElement
  <2>5. /\ IsFiniteSet(Most) /\ Cardinality(Most) \in Nat
        /\ Cardinality(Most) <= Cardinality(Rest) + 1
    <3> HIDE DEF Rest
    <3> QED BY <2>4, AtMostOneMore
  <2>6. /\ IsFiniteSet(All) /\ Cardinality(All) \in Nat
        /\ Cardinality(All) <= Cardinality(R) + 1
    <3>1. /\ IsFiniteSet(All) /\ Cardinality(All) \in Nat
          /\ Cardinality(All) <= Cardinality(Most) + 1
      <4> HIDE DEF Most
      <4> QED BY <2>5, AtMostOneMore
    <3> HIDE DEF Rest, Most, All
    <3> QED BY <1>1, <2>4, <2>5, <3>1
  <2>7. IsFiniteSet(Cut(R, s, e)) /\ Cardinality(Cut(R, s, e)) <= Cardinality(All)
    <3>1. Cut(R, s, e) \in SUBSET All
      BY <2>3
    <3> HIDE DEF All
    <3> QED BY <2>6, <3>1, FS_Subset
  <2>8. Cardinality(Cut(R, s, e)) \in Nat /\ Cardinality(All) \in Nat
    <3> HIDE DEF All
    <3> QED BY <2>6, <2>7, FS_CardinalityType
  <2>9. CutCapacity(R, s, e, cap) = Grown(Cardinality(R), cap)
    BY <1>4 DEF CutCapacity
  <2>10. Grown(Cardinality(R), cap) \in Nat /\ Cardinality(R) + 1 <= Grown(Cardinality(R), cap)
    BY <1>1, GrownEnough
  <2> HIDE DEF All
  <2> QED BY <1>1, <2>6, <2>7, <2>8, <2>9, <2>10 DEF Fits
<1> QED BY <1>3, <1>4

(* A torn cut needs no place.                                              *)
LEMMA CutTornSmall ==
  ASSUME NEW R, Good(R), NEW s \in Nat, NEW e \in Nat, s <= e, NEW cap \in Nat, Fits(R, cap)
  PROVE  Fits(CutTorn(R, s, e), cap)
<1> DEFINE f == [r \in R |-> IF r.end <= s \/ e <= r.start THEN r ELSE HeadOf(r, s)]
<1>1. Cardinality(R) \in Nat /\ IsFiniteSet(R) /\ Cardinality(R) <= cap
  BY FS_CardinalityType DEF Fits
<1>2. \A r \in R : r.start \in Nat /\ r.end \in Nat
  BY MemoryAssumption DEF Good, Region, Page
<1>3. ASSUME NEW c \in CutTorn(R, s, e) PROVE c \in {f[r] : r \in R}
  <2>1. CASE c \in Outside(R, s, e)
    BY <2>1 DEF Outside
  <2>2. CASE c \in Heads(R, s)
    <3>1. PICK q \in R : q.start < s /\ s < q.end /\ c = HeadOf(q, s)
      BY <2>2 DEF Heads
    <3>2. c = f[q]
      BY <1>2, <3>1
    <3> QED BY <3>2
  <2> QED BY <1>3, <2>1, <2>2 DEF CutTorn
<1>4. f = [r \in R |-> f[r]] /\ CutTorn(R, s, e) \subseteq {f[r] : r \in R}
  BY <1>3
<1>5. IsFiniteSet(CutTorn(R, s, e)) /\ Cardinality(CutTorn(R, s, e)) <= Cardinality(R)
  <2> HIDE DEF f
  <2> QED BY <1>1, <1>4, AtMostImage
<1>6. Cardinality(CutTorn(R, s, e)) \in Nat
  BY <1>5, FS_CardinalityType
<1> QED BY <1>1, <1>5, <1>6 DEF Fits

(* Coalescing and a change of protection make no region.                   *)
LEMMA CoalesceSmall ==
  ASSUME NEW R, NEW cap \in Nat, Fits(R, cap)
  PROVE  Fits(Coalesce(R), cap)
<1> DEFINE f == [r \in R |-> [r EXCEPT !.end = RunEnd(R, r)]]
<1>1. Cardinality(R) \in Nat /\ IsFiniteSet(R) /\ Cardinality(R) <= cap
  BY FS_CardinalityType DEF Fits
<1>2. f = [r \in R |-> f[r]] /\ Coalesce(R) \subseteq {f[r] : r \in R}
  BY DEF Coalesce, Firsts
<1>3. IsFiniteSet(Coalesce(R)) /\ Cardinality(Coalesce(R)) <= Cardinality(R)
  <2> HIDE DEF f
  <2> QED BY <1>1, <1>2, AtMostImage
<1>4. Cardinality(Coalesce(R)) \in Nat
  BY <1>3, FS_CardinalityType
<1> QED BY <1>1, <1>3, <1>4 DEF Fits

LEMMA ReprotectSmall ==
  ASSUME NEW R, NEW cap \in Nat, Fits(R, cap), NEW s, NEW e, NEW prot
  PROVE  Fits(Reprotect(R, s, e, prot), cap)
<1> DEFINE f == [r \in R |-> IF r.end <= s \/ e <= r.start THEN r ELSE [r EXCEPT !.prot = prot]]
           Q == Reprotect(R, s, e, prot)
<1>1. Cardinality(R) \in Nat /\ IsFiniteSet(R) /\ Cardinality(R) <= cap
  BY FS_CardinalityType DEF Fits
<1>2. f = [r \in R |-> f[r]] /\ Q \subseteq {f[r] : r \in R}
  BY DEF Reprotect
<1>3. IsFiniteSet(Q) /\ Cardinality(Q) <= Cardinality(R)
  <2> HIDE DEF f, Q
  <2> QED BY <1>1, <1>2, AtMostImage
<1>4. Cardinality(Q) \in Nat
  BY <1>3, FS_CardinalityType
<1> QED BY <1>1, <1>3, <1>4 DEF Fits

LEMMA InsertSmall ==
  ASSUME NEW R, NEW cap \in Nat, Fits(R, cap), NEW r
  PROVE  Fits(R \cup {r}, Grown(Cardinality(R), cap)) /\ Grown(Cardinality(R), cap) \in Nat
<1>1. Cardinality(R) \in Nat /\ IsFiniteSet(R) /\ Cardinality(R) <= cap
  BY FS_CardinalityType DEF Fits
<1>2. Grown(Cardinality(R), cap) \in Nat /\ Cardinality(R) + 1 <= Grown(Cardinality(R), cap)
  BY <1>1, GrownEnough
<1>3. IsFiniteSet(R \cup {r}) /\ Cardinality(R \cup {r}) <= Cardinality(R) + 1
  BY <1>1, FS_AddElement
<1>4. Cardinality(R \cup {r}) \in Nat
  BY <1>3, FS_CardinalityType
<1> QED BY <1>1, <1>2, <1>3, <1>4 DEF Fits

-----------------------------------------------------------------------------
(* Which of them touch                                                     *)

(* The two pieces of one region are apart, and those of two touch only     *)
(* where the regions did.                                                  *)
LEMMA CutDistinct ==
  ASSUME NEW R, Good(R), Distinct(R), NEW s \in Nat, NEW e \in Nat, s < e
  PROVE  Distinct(Cut(R, s, e))
<1>1. \A r \in R : r.start \in Nat /\ r.end \in Nat /\ r.start < r.end
  BY MemoryAssumption DEF Good, Valid, Region, Page
<1>2. ASSUME NEW c \in Cut(R, s, e)
      PROVE  \E r \in R : /\ r.start <= c.start /\ c.end <= r.end /\ c.prot = r.prot
                         /\ c.start < c.end /\ c.start \in Nat /\ c.end \in Nat
                         /\ \/ c.start = r.start
                            \/ c.start = e
                         /\ \/ c.end = r.end
                            \/ c.end = s
  <2>1. CASE c \in Outside(R, s, e)
    BY <1>1, <2>1 DEF Outside
  <2>2. CASE c \in Heads(R, s)
    <3>1. PICK q \in R : q.start < s /\ s < q.end /\ c = HeadOf(q, s)
      BY <2>2 DEF Heads
    <3>2. c.start = q.start /\ c.end = s /\ c.prot = q.prot
      BY <3>1 DEF HeadOf, Good, Region
    <3> QED BY <1>1, <3>1, <3>2
  <2>3. CASE c \in Tails(R, e)
    <3>1. PICK q \in R : q.start < e /\ e < q.end /\ c = TailOf(q, e)
      BY <2>3 DEF Tails
    <3>2. c.start = e /\ c.end = q.end /\ c.prot = q.prot
      BY <3>1 DEF TailOf, Good, Region
    <3> QED BY <1>1, <3>1, <3>2
  <2> QED BY <1>2, <2>1, <2>2, <2>3 DEF Cut
<1>3. ASSUME NEW a \in Cut(R, s, e), NEW b \in Cut(R, s, e), Joins(a, b) PROVE FALSE
  <2>1. PICK q \in R : /\ q.start <= a.start /\ a.end <= q.end /\ a.prot = q.prot
                       /\ a.start < a.end /\ a.start \in Nat /\ a.end \in Nat
                       /\ a.end = q.end \/ a.end = s
    BY <1>2
  <2>2. PICK r \in R : /\ r.start <= b.start /\ b.end <= r.end /\ b.prot = r.prot
                       /\ b.start < b.end /\ b.start \in Nat /\ b.end \in Nat
                       /\ b.start = r.start \/ b.start = e
    BY <1>2
  <2>3. a.end = b.start /\ a.prot = b.prot
    BY <1>3 DEF Joins
  <2>4. CASE q = r
    BY <1>1, <2>1, <2>2, <2>3, <2>4
  <2>5. CASE q # r
    <3>1. q.end <= r.start
      BY <1>1, <2>1, <2>2, <2>3, <2>5 DEF Good, Valid
    <3>2. q.end = r.start
      BY <1>1, <2>1, <2>2, <2>3, <3>1
    <3> QED BY <2>1, <2>2, <2>3, <3>2 DEF Distinct, Joins
  <2> QED BY <2>4, <2>5
<1> QED BY <1>3 DEF Distinct

(* A run ends where nothing of its protection goes on.                     *)
LEMMA CoalesceDistinct ==
  ASSUME NEW R, Good(R)
  PROVE  Distinct(Coalesce(R))
<1>1. \A r \in R : r.start \in Nat /\ r.end \in Nat /\ r.start < r.end /\ r.end <= NumPages
  BY MemoryAssumption DEF Good, Valid, Region, Page
<1>2. Good(Coalesce(R))
  BY CoalesceGood
<1>3. ASSUME NEW a \in Coalesce(R), NEW b \in Coalesce(R), Joins(a, b) PROVE FALSE
  <2>1. PICK f \in Firsts(R) : a = [f EXCEPT !.end = RunEnd(R, f)]
    BY DEF Coalesce
  <2>2. PICK g \in Firsts(R) : b = [g EXCEPT !.end = RunEnd(R, g)]
    BY DEF Coalesce
  <2>3. f \in R /\ g \in R /\ \A q \in R : ~Joins(q, g)
    BY DEF Firsts
  <2>4. a.start = f.start /\ a.end = RunEnd(R, f) /\ a.prot = f.prot /\ b.start = g.start /\ b.prot = g.prot
    BY <2>1, <2>2, <2>3 DEF Good, Region
  <2>5. PICK l \in Lasts(R) : f.start <= l.start /\ RunEnd(R, f) = l.end
    BY <2>3, RunEndIsLast
  <2>6. l \in R
    BY DEF Lasts
  <2> DEFINE p == l.end - 1
  <2>7. p \in Page /\ Covers(l, p) /\ Covers(a, p)
    BY <1>1, <2>3, <2>4, <2>5, <2>6, MemoryAssumption DEF Covers, Page
  <2>8. Has(R, p, f.prot)
    <3>1. Has(Coalesce(R), p, f.prot)
      BY <2>4, <2>7 DEF Has
    <3> HIDE DEF p
    <3> QED BY <2>7, <3>1, CoalescePages
  <2>9. l.prot = f.prot
    <3> HIDE DEF p
    <3> QED BY <2>6, <2>7, <2>8, OneProtection DEF Has
  <2>10. Joins(l, g)
    BY <1>3, <2>4, <2>5, <2>9 DEF Joins
  <2> QED BY <2>3, <2>6, <2>10
<1> QED BY <1>3 DEF Distinct

-----------------------------------------------------------------------------
(* Each call                                                               *)

(* What a call needs to show: all that is new is the array it leaves.      *)
LEMMA SucceedsFits ==
  ASSUME MemoryInv, NEW R, NEW s, NEW e, NEW prot, Succeeds(R, s, e, prot),
         refusals = 0 => Distinct(R), Fits(R, capacity')
  PROVE  ArrayInv'
<1>1. regions' = R /\ refusals' = refusals
  BY DEF Succeeds
<1> QED BY <1>1 DEF ArrayInv, Fits, Distinct, Joins

LEMMA RefusedFits ==
  ASSUME MemoryInv, NEW R, Refused(R), Fits(R, capacity')
  PROVE  ArrayInv'
<1>1. regions' = R /\ refusals' # 0
  BY DEF Refused, MemoryInv, TypeOK
<1> QED BY <1>1 DEF ArrayInv, Fits, Distinct, Joins

LEMMA MunmapFits ==
  ASSUME MemoryInv, ArrayInv, NEW s \in Page, NEW e \in s + 1 .. NumPages,
         Munmap(s, e) \/ MunmapRefused(s, e)
  PROVE  ArrayInv'
<1>1. s \in Nat /\ e \in Nat /\ s < e /\ s <= e
  BY MemoryAssumption DEF Page
<1>2. Good(regions) /\ capacity \in Nat /\ Fits(regions, capacity)
  BY DEF MemoryInv, TypeOK, RegionsValid, Good, ArrayInv
<1>3. CASE Munmap(s, e)
  <2>1. Succeeds(Cut(regions, s, e), s, e, NoAccess) /\ capacity' = CutCapacity(regions, s, e, capacity)
    BY <1>3 DEF Munmap
  <2>2. refusals = 0 => Distinct(Cut(regions, s, e))
    BY <1>1, <1>2, CutDistinct DEF ArrayInv
  <2>3. Fits(Cut(regions, s, e), capacity')
    BY <1>1, <1>2, <2>1, CutSmall
  <2> QED BY <2>1, <2>2, <2>3, SucceedsFits
<1>4. CASE MunmapRefused(s, e)
  <2>1. Refused(CutTorn(regions, s, e)) /\ capacity' = capacity
    BY <1>4 DEF MunmapRefused
  <2>2. Fits(CutTorn(regions, s, e), capacity')
    BY <1>1, <1>2, <2>1, CutTornSmall
  <2> QED BY <2>1, <2>2, RefusedFits
<1> QED BY <1>3, <1>4

(* A new region, and what touches it joined.                               *)
LEMMA PlacedFits ==
  ASSUME MemoryInv, NEW R, Good(R), NEW cap \in Nat, Fits(R, cap),
         NEW s \in Page, NEW e \in 1 .. NumPages, s < e, NEW prot \in Prots,
         \A r \in R : r.end <= s \/ e <= r.start,
         Succeeds(Coalesce(R \cup {NewRegion(s, e, prot)}), s, e, prot),
         capacity' = Grown(Cardinality(R), cap)
  PROVE  ArrayInv'
<1> DEFINE Q == R \cup {NewRegion(s, e, prot)}
<1>1. Good(Q)
  BY InsertPages
<1>2. Fits(Q, capacity') /\ capacity' \in Nat
  BY InsertSmall
<1>3. Succeeds(Coalesce(Q), s, e, prot)
  OBVIOUS
<1> HIDE DEF Q
<1>4. Distinct(Coalesce(Q)) /\ Fits(Coalesce(Q), capacity')
  BY <1>1, <1>2, CoalesceDistinct, CoalesceSmall
<1> QED BY <1>3, <1>4, SucceedsFits

LEMMA MmapFixedFits ==
  ASSUME MemoryInv, ArrayInv, NEW s \in Page, NEW e \in s + 1 .. NumPages, NEW prot \in Prots,
         MmapFixed(s, e, prot)
  PROVE  ArrayInv'
<1> DEFINE R == Cut(regions, s, e)
           cap == CutCapacity(regions, s, e, capacity)
<1>1. s \in Nat /\ e \in Nat /\ s < e /\ s <= e /\ e \in 1 .. NumPages
  BY MemoryAssumption DEF Page
<1>2. Good(regions) /\ capacity \in Nat /\ Fits(regions, capacity)
  BY DEF MemoryInv, TypeOK, RegionsValid, Good, ArrayInv
<1>3. Good(R) /\ \A r \in R : r.end <= s \/ e <= r.start
  BY <1>1, <1>2, CutGood, CutPieces
<1>4. Fits(R, cap) /\ cap \in Nat
  BY <1>1, <1>2, CutSmall
<1>5. /\ Succeeds(Coalesce(R \cup {NewRegion(s, e, prot)}), s, e, prot)
      /\ capacity' = Grown(Cardinality(R), cap)
  BY DEF MmapFixed
<1> HIDE DEF R, cap
<1> QED BY <1>1, <1>3, <1>4, <1>5, PlacedFits

LEMMA MmapFixedRefusedFits ==
  ASSUME MemoryInv, ArrayInv, NEW s \in Page, NEW e \in s + 1 .. NumPages, MmapFixedRefused(s, e)
  PROVE  ArrayInv'
<1> DEFINE R == Cut(regions, s, e)
           cap == CutCapacity(regions, s, e, capacity)
<1>1. s \in Nat /\ e \in Nat /\ s <= e
  BY MemoryAssumption DEF Page
<1>2. Good(regions) /\ capacity \in Nat /\ Fits(regions, capacity)
  BY DEF MemoryInv, TypeOK, RegionsValid, Good, ArrayInv
<1>3. Fits(R, cap) /\ Fits(CutTorn(regions, s, e), capacity)
  BY <1>1, <1>2, CutSmall, CutTornSmall
<1>4. \/ Refused(R) /\ capacity' = cap
      \/ Refused(CutTorn(regions, s, e)) /\ capacity' = capacity
  BY DEF MmapFixedRefused
<1> HIDE DEF R, cap
<1> QED BY <1>3, <1>4, RefusedFits

LEMMA MmapFits ==
  ASSUME MemoryInv, ArrayInv, NEW hint \in Page, NEW len \in 1 .. NumPages, NEW prot \in Prots,
         Mmap(hint, len, prot)
  PROVE  ArrayInv'
<1>1. Good(regions) /\ capacity \in Nat /\ Fits(regions, capacity)
  BY DEF MemoryInv, TypeOK, RegionsValid, Good, ArrayInv
<1>2. PICK s \in Cursors(regions, hint, len) :
         /\ Succeeds(Coalesce(regions \cup {NewRegion(s, s + len, prot)}), s, s + len, prot)
         /\ capacity' = Grown(Cardinality(regions), capacity)
  BY DEF Mmap
<1>3. s \in Nat /\ FitsAt(regions, s, len)
  <2>1. hint \in Nat /\ \A r \in regions : r.end \in Nat
    BY <1>1 DEF Good, Region, Page
  <2> QED BY <1>2, <2>1 DEF Cursors
<1>4. s \in Page /\ s + len \in 1 .. NumPages /\ s < s + len
  BY <1>3, MemoryAssumption DEF FitsAt, Page
<1>5. \A r \in regions : r.end <= s \/ s + len <= r.start
  BY <1>3 DEF FitsAt
<1> QED BY <1>1, <1>2, <1>4, <1>5, PlacedFits

(* Two splits, each of which may need a place.                             *)
LEMMA MprotectFits ==
  ASSUME MemoryInv, ArrayInv, NEW s \in Page, NEW e \in s + 1 .. NumPages, NEW prot \in Prots,
         Mprotect(s, e, prot)
  PROVE  ArrayInv'
<1> DEFINE C == Cut(regions, s, s)
           cap == CutCapacity(regions, s, s, capacity)
           D == Cut(C, e, e)
           Q == Reprotect(D, s, e, prot)
<1>1. s \in Nat /\ e \in Nat /\ s < e /\ s <= s /\ e <= e
  BY MemoryAssumption DEF Page
<1>2. Good(regions) /\ capacity \in Nat /\ Fits(regions, capacity)
  BY DEF MemoryInv, TypeOK, RegionsValid, Good, ArrayInv
<1>3. Good(C) /\ Fits(C, cap) /\ cap \in Nat
  BY <1>1, <1>2, CutGood, CutSmall
<1>4. capacity' = CutCapacity(C, e, e, cap) /\ Succeeds(Coalesce(Q), s, e, prot)
  BY DEF Mprotect, Split
<1>5. Fits(D, capacity') /\ capacity' \in Nat
  <2> HIDE DEF C, cap
  <2> QED BY <1>1, <1>3, <1>4, CutSmall
<1>6. Good(Q)
  <2>1. /\ Good(D)
        /\ \A r \in D : r.end <= s \/ e <= r.start \/ (s <= r.start /\ r.end <= e)
    BY <1>1, <1>2, SplitPages DEF Split
  <2> HIDE DEF D
  <2> QED BY <1>1, <2>1, ReprotectPages
<1>7. Fits(Q, capacity')
  <2> HIDE DEF D
  <2> QED BY <1>5, ReprotectSmall
<1> HIDE DEF Q
<1>8. Distinct(Coalesce(Q)) /\ Fits(Coalesce(Q), capacity')
  BY <1>5, <1>6, <1>7, CoalesceDistinct, CoalesceSmall
<1> QED BY <1>4, <1>8, SucceedsFits

LEMMA MprotectRefusedFits ==
  ASSUME MemoryInv, ArrayInv, NEW s \in Page, NEW e \in s + 1 .. NumPages, MprotectRefused(s, e)
  PROVE  ArrayInv'
<1> DEFINE C == Cut(regions, s, s)
           cap == CutCapacity(regions, s, s, capacity)
<1>1. s \in Nat /\ e \in Nat /\ s <= s /\ e <= e
  BY MemoryAssumption DEF Page
<1>2. Good(regions) /\ capacity \in Nat /\ Fits(regions, capacity)
  BY DEF MemoryInv, TypeOK, RegionsValid, Good, ArrayInv
<1>3. Good(C) /\ Fits(C, cap) /\ cap \in Nat /\ Fits(CutTorn(regions, s, s), capacity)
  BY <1>1, <1>2, CutGood, CutSmall, CutTornSmall
<1>4. \/ Refused(CutTorn(regions, s, s)) /\ capacity' = capacity
      \/ Refused(CutTorn(C, e, e)) /\ capacity' = cap
  BY DEF MprotectRefused
<1>5. Fits(CutTorn(C, e, e), cap)
  <2> HIDE DEF C, cap
  <2> QED BY <1>1, <1>3, CutTornSmall
<1> HIDE DEF C, cap
<1> QED BY <1>3, <1>4, <1>5, RefusedFits

-----------------------------------------------------------------------------
(* The array never holds more regions than it has places for, and no two   *)
(* regions that touch have one protection while the host has refused       *)
(* nothing (ensure_capacity and coalesce of agr_guest_vma.c).              *)
THEOREM ArrayIsShort == Spec => []RegionsCoalesced
<1>1. Init => ArrayInv
  BY FS_EmptySet DEF Init, ArrayInv, Fits, Distinct
<1>2. MemoryInv /\ ArrayInv /\ [Next]_vars => ArrayInv'
  <2> SUFFICES ASSUME MemoryInv, ArrayInv, [Next]_vars PROVE ArrayInv'
    OBVIOUS
  <2>1. ASSUME NEW s \in Page, NEW e \in s + 1 .. NumPages, Munmap(s, e) \/ MunmapRefused(s, e)
        PROVE  ArrayInv'
    BY <2>1, MunmapFits
  <2>2. ASSUME NEW s \in Page, NEW e \in s + 1 .. NumPages, MmapFixedRefused(s, e)
        PROVE  ArrayInv'
    BY <2>2, MmapFixedRefusedFits
  <2>3. ASSUME NEW s \in Page, NEW e \in s + 1 .. NumPages, MprotectRefused(s, e)
        PROVE  ArrayInv'
    BY <2>3, MprotectRefusedFits
  <2>4. ASSUME NEW s \in Page, NEW e \in s + 1 .. NumPages, NEW prot \in Prots,
               MmapFixed(s, e, prot)
        PROVE  ArrayInv'
    BY <2>4, MmapFixedFits
  <2>5. ASSUME NEW s \in Page, NEW e \in s + 1 .. NumPages, NEW prot \in Prots,
               Mprotect(s, e, prot)
        PROVE  ArrayInv'
    BY <2>5, MprotectFits
  <2>6. ASSUME NEW hint \in Page, NEW len \in 1 .. NumPages, NEW prot \in Prots,
               Mmap(hint, len, prot)
        PROVE  ArrayInv'
    BY <2>6, MmapFits
  <2>7. CASE UNCHANGED vars
    BY <2>7 DEF vars, ArrayInv, Fits, Distinct, Joins
  <2> QED BY <2>1, <2>2, <2>3, <2>4, <2>5, <2>6, <2>7 DEF Next
<1>3. ArrayInv => RegionsCoalesced
  BY DEF ArrayInv, RegionsCoalesced, Fits, Distinct
<1> QED BY <1>1, <1>2, <1>3, MemoryInvariance, PTL DEF Spec

-----------------------------------------------------------------------------
(* Thread-specific data                                                    *)

Places == {"none", "guest", "cleanup", "destructor", "unregister", "unmap", "gone"}
Births == [thread : Threads \cup {AnyThread}, key : Nat, life : Nat]

KeyTypes ==
    /\ allocated \in [Keys -> BOOLEAN] /\ hasDestructor \in [Keys -> BOOLEAN]
    /\ life \in [Keys -> Nat]
SlotTypes == slot \in [Bases -> [Keys -> Nat]]
ThreadTypes ==
    /\ pc \in [Threads -> Places] /\ base \in [Threads -> Bases]
    /\ round \in [Threads -> Nat] /\ pos \in [Threads -> Nat]
    /\ calledOne \in [Threads -> BOOLEAN]
BirthTypes == born \in [Serials -> Births] /\ sets \in 0 .. MaxSets
TlsTypes == KeyTypes /\ SlotTypes /\ ThreadTypes /\ BirthTypes

(* A thread holds its stack from the registration to the unmap; what a     *)
(* failed destructor leaves registered is the stack the thread had.        *)
Holds(t) == pc[t] \notin {"none", "gone"}

Stacks ==
    /\ Registered \subseteq Threads
    /\ \A t \in Registered : registered[t] = base[t]
    /\ \A t \in Threads : /\ Alive(t) => t \in Registered
                          /\ Holds(t) => base[t] \in mapped
    /\ \A t, u \in Threads : Holds(t) /\ Holds(u) /\ base[t] = base[u] => t = u

(* The slots of the living, key by key.                                    *)
Own(t, k) ==
    Alive(t) => LET v == slot[base[t]][k] IN
                /\ v \in 0 .. sets
                /\ v # Null => allocated[k] /\ born[v] = [thread |-> t, key |-> k, life |-> life[k]]
                /\ v \notin destroyed

Values ==
    /\ \A t \in Threads, k \in Keys : Own(t, k)
    /\ destroyed \subseteq 1 .. sets

(* A pass that has called nothing yet is the first one, at its beginning.  *)
Pass(t) ==
    /\ pc[t] = "cleanup" /\ ~calledOne[t] => pos[t] = 1
    /\ pc[t] = "destructor" => calledOne[t]
    /\ pc[t] = "unregister" /\ round[t] < Rounds => Due(t, 1) = {}

Passes == \A t \in Threads : Pass(t)

TlsInv == TlsTypes /\ Stacks /\ Values /\ Passes

-----------------------------------------------------------------------------
(* One part of the state moves                                             *)

LEMMA Moves ==
  ASSUME ThreadTypes, NEW t \in Threads, NEW l \in Places, Goes(t, l)
  PROVE  /\ pc' \in [Threads -> Places] /\ pc'[t] = l
         /\ \A u \in Threads \ {t} : pc'[u] = pc[u]
BY DEF ThreadTypes, Goes

Writes(b, k, v) == slot' = [slot EXCEPT ![b][k] = v]

LEMMA WritesSlot ==
  ASSUME SlotTypes, NEW b \in Bases, NEW k \in Keys, NEW v \in Nat, Writes(b, k, v)
  PROVE  /\ SlotTypes' /\ slot'[b][k] = v
         /\ \A c \in Bases, j \in Keys : c # b \/ j # k => slot'[c][j] = slot[c][j]
<1> DEFINE s == [slot[b] EXCEPT ![k] = v]
<1>1. slot[b] \in [Keys -> Nat]
  BY DEF SlotTypes
<1>2. s \in [Keys -> Nat] /\ s[k] = v /\ \A j \in Keys \ {k} : s[j] = slot[b][j]
  BY <1>1
<1>3. slot' = [slot EXCEPT ![b] = s]
  BY DEF Writes
<1> HIDE DEF s
<1>4. slot'[b] = s /\ \A c \in Bases \ {b} : slot'[c] = slot[c]
  BY <1>3 DEF SlotTypes
<1>5. SlotTypes'
  BY <1>2, <1>3 DEF SlotTypes
<1> QED BY <1>2, <1>4, <1>5

LEMMA ClearsKey ==
  ASSUME SlotTypes, NEW B \in SUBSET Bases, NEW k \in Keys, ClearIn(B, k)
  PROVE  /\ SlotTypes'
         /\ \A c \in B : slot'[c][k] = Null
         /\ \A c \in Bases, j \in Keys : slot'[c][j] = slot[c][j] \/ (c \in B /\ j = k /\ slot'[c][j] = Null)
<1> DEFINE s(c) == [slot[c] EXCEPT ![k] = Null]
<1>1. ASSUME NEW c \in Bases
      PROVE  s(c) \in [Keys -> Nat] /\ s(c)[k] = Null /\ \A j \in Keys \ {k} : s(c)[j] = slot[c][j]
  <2>1. slot[c] \in [Keys -> Nat]
    BY DEF SlotTypes
  <2> QED BY <2>1 DEF Null
<1>2. slot' = [b \in Bases |-> IF b \in B THEN s(b) ELSE slot[b]]
  BY DEF ClearIn
<1> HIDE DEF s
<1>3. \A c \in Bases : slot'[c] = IF c \in B THEN s(c) ELSE slot[c]
  BY <1>2
<1>4. SlotTypes'
  BY <1>1, <1>2 DEF SlotTypes
<1> QED BY <1>1, <1>3, <1>4

LEMMA Facts ==
  ASSUME TlsInv
  PROVE  /\ KeyTypes /\ SlotTypes /\ ThreadTypes /\ BirthTypes
         /\ Bases # {} /\ Keys \subseteq Nat /\ Rounds \in Nat \ {0}
         /\ \A t \in Threads : base[t] \in Bases /\ (Alive(t) => Holds(t))
         /\ \A b \in Bases, k \in Keys : slot[b][k] \in Nat
BY TlsAssumption DEF TlsInv, TlsTypes, SlotTypes, ThreadTypes, Alive, Holds, Keys

(* The slots, the keys and the values stay, and nobody comes to life.      *)
LEMMA ValuesStay ==
  ASSUME TlsInv, UNCHANGED <<keyVars, valueVars, slot, base, destroyed>>,
         \A u \in Threads : Alive(u)' => Alive(u)
  PROVE  KeyTypes' /\ SlotTypes' /\ BirthTypes' /\ Values'
BY DEF TlsInv, TlsTypes, KeyTypes, SlotTypes, BirthTypes, keyVars, valueVars, Values, Own, Keys, Null

(* A thread that goes on with its stack.                                   *)
LEMMA StacksStay ==
  ASSUME TlsInv, NEW t \in Threads, NEW l \in Places, Goes(t, l), UNCHANGED <<registered, mapped, base>>,
         Holds(t), l \in {"guest", "cleanup", "destructor", "unregister"} => Alive(t)
  PROVE  Stacks' /\ \A u \in Threads : Alive(u)' => Alive(u)
<1>1. pc'[t] = l /\ \A u \in Threads \ {t} : pc'[u] = pc[u]
  BY Facts, Moves
<1>2. \A u \in Threads : (Alive(u)' => Alive(u)) /\ (Holds(u)' => Holds(u))
  BY <1>1 DEF Alive, Holds
<1>3. Registered' = Registered
  BY DEF Registered
<1> QED BY <1>2, <1>3 DEF TlsInv, Stacks

LEMMA PassesStay ==
  ASSUME TlsInv, NEW t \in Threads, \A u \in Threads \ {t} : pc'[u] = pc[u],
         \A u \in Threads \ {t} : /\ pos'[u] = pos[u] /\ calledOne'[u] = calledOne[u]
                                  /\ round'[u] = round[u] /\ (Alive(u) => Due(u, 1)' \subseteq Due(u, 1)),
         Pass(t)'
  PROVE  Passes'
<1>1. ASSUME NEW u \in Threads \ {t}
      PROVE  Pass(u)'
  BY DEF TlsInv, Passes, Pass, Alive
<1> QED BY <1>1 DEF Passes

(* A step of t that moves nothing but its own place.                       *)
LEMMA OnlyMoves ==
  ASSUME TlsInv, NEW t \in Threads, NEW l \in Places, Goes(t, l), Holds(t),
         l \in {"guest", "cleanup", "destructor", "unregister"} => Alive(t),
         UNCHANGED <<keyVars, passVars, valueVars, registered, mapped, slot, base, destroyed>>,
         Pass(t)'
  PROVE  TlsInv'
<1>1. Stacks' /\ \A u \in Threads : Alive(u)' => Alive(u)
  BY StacksStay
<1>2. KeyTypes' /\ SlotTypes' /\ BirthTypes' /\ Values'
  BY <1>1, ValuesStay
<1>3. ThreadTypes' /\ \A u \in Threads \ {t} : pc'[u] = pc[u]
  BY Facts, Moves DEF ThreadTypes, passVars
<1>4. Passes'
  BY <1>3, PassesStay DEF passVars, Due, keyVars
<1> QED BY <1>1, <1>2, <1>3, <1>4 DEF TlsInv, TlsTypes

-----------------------------------------------------------------------------
(* The actions                                                             *)

LEMMA AttachKeeps ==
  ASSUME TlsInv, NEW t \in Threads, Attach(t)
  PROVE  TlsInv'
<1>1. PICK b \in Bases \ mapped :
         /\ mapped' = mapped \cup {b} /\ base' = [base EXCEPT ![t] = b]
         /\ registered' = [u \in Registered \cup {t} |-> IF u = t THEN b ELSE registered[u]]
         /\ slot' = [slot EXCEPT ![b] = SlotsCleared(b)]
  BY DEF Attach
<1>2. pc[t] = "none" /\ Goes(t, "guest") /\ UNCHANGED <<keyVars, passVars, valueVars, destroyed>>
  BY DEF Attach
<1>3. pc' \in [Threads -> Places] /\ pc'[t] = "guest" /\ \A u \in Threads \ {t} : pc'[u] = pc[u]
  BY <1>2, Facts, Moves DEF Places
<1>4. base' \in [Threads -> Bases] /\ base'[t] = b /\ \A u \in Threads \ {t} : base'[u] = base[u]
  BY <1>1, Facts DEF ThreadTypes
<1>5. SlotTypes' /\ (\A k \in Keys : slot'[b][k] = Null) /\ \A c \in Bases \ {b} : slot'[c] = slot[c]
  BY <1>1, Facts DEF SlotTypes, SlotsCleared, Null
<1>6. Registered' = Registered \cup {t} /\ registered'[t] = b
      /\ \A u \in Registered \ {t} : registered'[u] = registered[u]
  BY <1>1 DEF Registered
<1>7. \A u \in Threads \ {t} : Holds(u) => base[u] # b
  BY DEF TlsInv, Stacks
<1>8. Stacks'
  <2>1. Registered' \subseteq Threads /\ \A u \in Registered' : registered'[u] = base'[u]
    BY <1>4, <1>6 DEF TlsInv, Stacks
  <2>2. \A u \in Threads : (Alive(u)' => u \in Registered') /\ (Holds(u)' => base'[u] \in mapped')
    BY <1>1, <1>3, <1>4, <1>6 DEF TlsInv, Stacks, Alive, Holds
  <2>3. \A u, w \in Threads : Holds(u)' /\ Holds(w)' /\ base'[u] = base'[w] => u = w
    BY <1>3, <1>4, <1>7 DEF TlsInv, Stacks, Holds
  <2> QED BY <2>1, <2>2, <2>3 DEF Stacks
<1>9. KeyTypes' /\ BirthTypes' /\ ThreadTypes'
  BY <1>2, <1>3, <1>4, Facts DEF KeyTypes, BirthTypes, ThreadTypes, keyVars, valueVars, passVars
<1>10. \A u \in Threads \ {t}, k \in Keys : Alive(u) => slot'[base'[u]][k] = slot[base[u]][k]
  BY <1>4, <1>5, <1>7, Facts
<1>11. Values'
  <2>1. ASSUME NEW k \in Keys PROVE Own(t, k)'
    BY <1>2, <1>3, <1>4, <1>5, Facts DEF Own, TlsInv, Values, valueVars, Null, BirthTypes
  <2>2. ASSUME NEW u \in Threads \ {t}, NEW k \in Keys PROVE Own(u, k)'
    BY <1>2, <1>3, <1>10 DEF Own, TlsInv, Values, valueVars, keyVars, Alive
  <2>3. destroyed' \subseteq 1 .. sets'
    BY <1>2 DEF TlsInv, Values, valueVars
  <2> QED BY <2>1, <2>2, <2>3 DEF Values
<1>12. Passes'
  <2>1. \A u \in Threads \ {t} : Alive(u) => Due(u, 1)' \subseteq Due(u, 1)
    BY <1>2, <1>10 DEF Due, keyVars
  <2> QED BY <1>2, <1>3, <2>1, PassesStay DEF passVars, Pass
<1> QED BY <1>5, <1>8, <1>9, <1>11, <1>12 DEF TlsInv, TlsTypes

LEMMA KeyCreateKeeps ==
  ASSUME TlsInv, NEW t \in Threads, KeyCreate(t)
  PROVE  TlsInv'
<1>1. PICK k \in Keys, d \in BOOLEAN :
         /\ ~allocated[k] /\ allocated' = [allocated EXCEPT ![k] = TRUE]
         /\ life' = [life EXCEPT ![k] = @ + 1] /\ hasDestructor' = [hasDestructor EXCEPT ![k] = d]
  BY DEF KeyCreate
<1>2. UNCHANGED <<passVars, valueVars, registered, mapped, slot, pc, base, destroyed>>
  BY DEF KeyCreate
<1>3. KeyTypes' /\ \A j \in Keys \ {k} : /\ allocated'[j] = allocated[j] /\ life'[j] = life[j]
                                        /\ hasDestructor'[j] = hasDestructor[j]
  BY <1>1, Facts DEF KeyTypes
<1>4. \A u \in Threads : Alive(u) => slot[base[u]][k] = Null
  BY <1>1 DEF TlsInv, Values, Own
<1>5. SlotTypes' /\ ThreadTypes' /\ BirthTypes' /\ Stacks'
  BY <1>2, Facts DEF SlotTypes, ThreadTypes, BirthTypes, passVars, valueVars, TlsInv, Stacks, Registered, Alive, Holds
<1>6. ASSUME NEW u \in Threads, NEW j \in Keys PROVE Own(u, j)'
  <2>1. Own(u, j)
    BY DEF TlsInv, Values
  <2>2. CASE j = k
    BY <1>2, <1>4, <2>1, <2>2 DEF Own, Alive, valueVars
  <2>3. CASE j # k
    BY <1>2, <1>3, <2>1, <2>3 DEF Own, Alive, valueVars
  <2> QED BY <2>2, <2>3
<1>7. destroyed' \subseteq 1 .. sets'
  BY <1>2 DEF TlsInv, Values, valueVars
<1>8. ASSUME NEW u \in Threads, Alive(u) PROVE Due(u, 1)' \subseteq Due(u, 1)
  BY <1>2, <1>3, <1>4, <1>8 DEF Due
<1>9. Passes'
  BY <1>2, <1>8 DEF TlsInv, Passes, Pass, passVars, Alive
<1> QED BY <1>3, <1>5, <1>6, <1>7, <1>9 DEF TlsInv, TlsTypes, Values

LEMMA KeyDeleteKeeps ==
  ASSUME TlsInv, NEW t \in Threads, NEW k \in Keys, KeyDelete(t, k)
  PROVE  TlsInv'
<1>1. /\ UNCHANGED <<life, lives, passVars, valueVars, registered, mapped, pc, base, destroyed>>
      /\ allocated[k]
  BY DEF KeyDelete
<1>2. SlotTypes' /\ \A b \in Bases, j \in Keys :
         slot'[b][j] = slot[b][j] \/ (j = k /\ slot'[b][j] = Null)
  <2>1. DeletedIn(t) \subseteq Bases
    BY Facts DEF DeletedIn, TlsInv, Stacks
  <2>2. PICK B \in SUBSET Bases : ClearIn(B, k)
    BY <2>1 DEF KeyDelete
  <2> QED BY <2>2, ClearsKey, Facts
<1>3. /\ KeyTypes'
      /\ \A j \in Keys : \/ allocated'[j] = allocated[j] /\ hasDestructor'[j] = hasDestructor[j]
                         \/ j = k /\ ~allocated'[j]
  BY <1>1, Facts DEF KeyTypes, KeyDelete
<1>4. ~allocated'[k] => \A u \in Threads : Alive(u) => slot'[base[u]][k] = Null
  <2> SUFFICES ASSUME ~allocated'[k], NEW u \in Threads, Alive(u) PROVE slot'[base[u]][k] = Null
    OBVIOUS
  <2>1. ClearIn(DeletedIn(t), k)
    BY <1>1 DEF KeyDelete
  <2>2. base[u] \in DeletedIn(t) /\ DeletedIn(t) \subseteq Bases
    BY Facts DEF DeletedIn, TlsInv, Stacks
  <2>3. \A c \in DeletedIn(t) : slot'[c][k] = Null
    BY <2>1, <2>2, ClearsKey, Facts
  <2> QED BY <2>2, <2>3
<1>5. ThreadTypes' /\ BirthTypes' /\ Stacks'
  BY <1>1, Facts DEF ThreadTypes, BirthTypes, passVars, valueVars, TlsInv, Stacks, Registered, Alive, Holds
<1>6. \A u \in Threads : base[u] \in Bases
  BY Facts
<1>7. Null \in 0 .. sets /\ Null \notin destroyed
  BY Facts DEF TlsInv, Values, Null, BirthTypes
<1>8. ASSUME NEW u \in Threads, NEW j \in Keys PROVE Own(u, j)'
  <2>1. Own(u, j)
    BY DEF TlsInv, Values
  <2>2. CASE slot'[base[u]][j] = Null
    BY <1>1, <1>7, <2>2 DEF Own, valueVars
  <2>3. CASE slot'[base[u]][j] # Null
    <3>1. slot'[base[u]][j] = slot[base[u]][j]
      BY <1>2, <1>6, <2>3
    <3>2. Alive(u) => allocated'[j] = allocated[j]
      BY <1>3, <1>4, <2>3
    <3> QED BY <1>1, <2>1, <3>1, <3>2 DEF Own, Alive, valueVars
  <2> QED BY <2>2, <2>3
<1>9. destroyed' \subseteq 1 .. sets'
  BY <1>1 DEF TlsInv, Values, valueVars
<1>10. ASSUME NEW u \in Threads PROVE Due(u, 1)' \subseteq Due(u, 1)
  BY <1>1, <1>2, <1>3, <1>6 DEF Due
<1>11. Passes'
  BY <1>1, <1>10 DEF TlsInv, Passes, Pass, passVars
<1> QED BY <1>2, <1>3, <1>5, <1>8, <1>9, <1>11 DEF TlsInv, TlsTypes, Values

(* A living thread writes a slot of its own stack.                         *)
LEMMA OthersKeep ==
  ASSUME TlsInv, NEW t \in Threads, Alive(t), NEW k \in Keys, NEW v \in Nat,
         Writes(base[t], k, v), base' = base
  PROVE  /\ SlotTypes' /\ slot'[base'[t]][k] = v
         /\ \A u \in Threads, j \in Keys : Alive(u) /\ (u # t \/ j # k) =>
               slot'[base'[u]][j] = slot[base[u]][j]
<1>1. /\ SlotTypes' /\ slot'[base[t]][k] = v
      /\ \A c \in Bases, j \in Keys : c # base[t] \/ j # k => slot'[c][j] = slot[c][j]
  BY WritesSlot, Facts
<1>2. \A u \in Threads : Alive(u) /\ u # t => base[u] # base[t]
  BY Facts DEF TlsInv, Stacks
<1> QED BY <1>1, <1>2, Facts

LEMMA SetSpecificKeeps ==
  ASSUME TlsInv, NEW t \in Threads, NEW k \in Keys, SetSpecific(t, k)
  PROVE  TlsInv'
<1> DEFINE n == sets + 1
           birth == [thread |-> t, key |-> k, life |-> life[k]]
<1>1. /\ sets' = n /\ born' = [born EXCEPT ![n] = birth] /\ allocated[k] /\ Alive(t)
      /\ slot' = [slot EXCEPT ![registered[t]][k] = n]
      /\ UNCHANGED <<keyVars, passVars, registered, mapped, pc, base, destroyed>>
  BY DEF SetSpecific, InGuest, Alive
<1>2. n \in Serials /\ n \in Nat /\ n # Null /\ n > sets /\ sets \in Nat
  BY <1>1, Facts, TlsAssumption DEF SetSpecific, BirthTypes, Serials, Null
<1>3. birth \in Births
  BY Facts DEF Births, KeyTypes
<1>4. birth.thread = t /\ birth.key = k /\ birth.life = life[k]
  OBVIOUS
<1>5. registered[t] = base[t]
  BY <1>1 DEF TlsInv, Stacks
<1>6. born' \in [Serials -> Births] /\ born'[n] = birth /\ \A s \in Serials \ {n} : born'[s] = born[s]
  BY <1>1, <1>2, <1>3, Facts DEF BirthTypes
<1>7. BirthTypes'
  BY <1>1, <1>2, <1>6 DEF BirthTypes, Serials
<1> HIDE DEF n
<1>8. /\ SlotTypes' /\ slot'[base'[t]][k] = n
      /\ \A u \in Threads, j \in Keys : Alive(u) /\ (u # t \/ j # k) =>
            slot'[base'[u]][j] = slot[base[u]][j]
  <2>1. Writes(base[t], k, n) /\ base' = base
    BY <1>1, <1>5 DEF Writes
  <2> QED BY <1>1, <1>2, <2>1, OthersKeep
<1>9. KeyTypes' /\ ThreadTypes' /\ Stacks'
  BY <1>1, Facts DEF KeyTypes, ThreadTypes, keyVars, passVars, TlsInv, Stacks, Registered, Alive, Holds
<1>10. ASSUME NEW u \in Threads, NEW j \in Keys, u # t \/ j # k PROVE Own(u, j)'
  <2> SUFFICES ASSUME Alive(u) PROVE Own(u, j)'
    BY <1>1 DEF Own, Alive
  <2> DEFINE v == slot[base[u]][j]
  <2>1. /\ v \in 0 .. sets /\ v \notin destroyed
        /\ v # Null => allocated[j] /\ born[v] = [thread |-> u, key |-> j, life |-> life[j]]
    BY DEF TlsInv, Values, Own
  <2>2. slot'[base'[u]][j] = v
    BY <1>8, <1>10
  <2> HIDE DEF v
  <2>3. v \in 0 .. sets' /\ v # n
    BY <1>1, <1>2, <2>1
  <2>4. v # Null => v \in Serials \ {n}
    BY <1>2, <2>1, <2>3, TlsAssumption DEF Serials, Null
  <2>5. v # Null => born'[v] = born[v]
    BY <1>6, <2>4
  <2> QED BY <1>1, <2>1, <2>2, <2>3, <2>5 DEF Own, keyVars
<1>11. Own(t, k)'
  <2>1. n \in 0 .. sets' /\ n \notin destroyed
    BY <1>1, <1>2 DEF TlsInv, Values
  <2>2. born'[n] = [thread |-> t, key |-> k, life |-> life[k]]
    BY <1>6
  <2> QED BY <1>1, <1>8, <2>1, <2>2 DEF Own, keyVars
<1>12. destroyed' \subseteq 1 .. sets'
  BY <1>1, <1>2 DEF TlsInv, Values
<1>13. ASSUME NEW u \in Threads \ {t}, Alive(u) PROVE Due(u, 1)' \subseteq Due(u, 1)
  BY <1>1, <1>8, <1>13 DEF Due, keyVars
<1>14. Passes'
  <2>1. Pass(t)'
    BY <1>1 DEF SetSpecific, InGuest, TlsInv, Passes, Pass, passVars
  <2> QED BY <1>1, <1>13, <2>1, PassesStay DEF passVars
<1> QED BY <1>7, <1>8, <1>9, <1>10, <1>11, <1>12, <1>14 DEF TlsInv, TlsTypes, Values

LEMMA SetNullKeeps ==
  ASSUME TlsInv, NEW t \in Threads, NEW k \in Keys, SetNull(t, k)
  PROVE  TlsInv'
<1>1. /\ Alive(t) /\ slot' = [slot EXCEPT ![registered[t]][k] = Null]
      /\ UNCHANGED <<keyVars, passVars, valueVars, registered, mapped, pc, base, destroyed>>
  BY DEF SetNull, InGuest, Alive
<1>2. registered[t] = base[t]
  BY <1>1 DEF TlsInv, Stacks
<1>3. /\ SlotTypes' /\ slot'[base'[t]][k] = Null
      /\ \A u \in Threads, j \in Keys : Alive(u) /\ (u # t \/ j # k) =>
            slot'[base'[u]][j] = slot[base[u]][j]
  <2>1. Writes(base[t], k, Null) /\ base' = base /\ Null \in Nat
    BY <1>1, <1>2 DEF Writes, Null
  <2> QED BY <1>1, <2>1, OthersKeep
<1>4. KeyTypes' /\ ThreadTypes' /\ BirthTypes' /\ Stacks'
  BY <1>1, Facts DEF KeyTypes, ThreadTypes, BirthTypes, keyVars, passVars, valueVars, TlsInv, Stacks,
     Registered, Alive, Holds
<1>5. ASSUME NEW u \in Threads, NEW j \in Keys, u # t \/ j # k PROVE Own(u, j)'
  BY <1>1, <1>3, <1>5 DEF TlsInv, Values, Own, Alive, keyVars, valueVars
<1>6. Own(t, k)'
  BY <1>1, <1>3, Facts DEF TlsInv, Values, Own, Null, BirthTypes, valueVars
<1>7. destroyed' \subseteq 1 .. sets'
  BY <1>1 DEF TlsInv, Values, valueVars
<1>8. ASSUME NEW u \in Threads \ {t}, Alive(u) PROVE Due(u, 1)' \subseteq Due(u, 1)
  BY <1>1, <1>3, <1>8 DEF Due, keyVars
<1>9. Passes'
  <2>1. Pass(t)'
    BY <1>1 DEF SetNull, InGuest, TlsInv, Passes, Pass, passVars
  <2> QED BY <1>1, <1>8, <2>1, PassesStay DEF passVars
<1> QED BY <1>3, <1>4, <1>5, <1>6, <1>7, <1>9 DEF TlsInv, TlsTypes, Values

LEMMA ExitKeeps ==
  ASSUME TlsInv, NEW t \in Threads, Exit(t)
  PROVE  TlsInv'
<1>1. /\ Holds(t) /\ Alive(t) /\ Goes(t, "cleanup") /\ "cleanup" \in Places
      /\ round' = [round EXCEPT ![t] = 1] /\ pos' = [pos EXCEPT ![t] = 1]
      /\ calledOne' = [calledOne EXCEPT ![t] = FALSE]
      /\ UNCHANGED <<keyVars, valueVars, registered, mapped, slot, base, destroyed>>
  BY DEF Exit, Holds, Alive, Places
<1>2. Stacks' /\ \A u \in Threads : Alive(u)' => Alive(u)
  BY <1>1, StacksStay
<1>3. KeyTypes' /\ SlotTypes' /\ BirthTypes' /\ Values'
  BY <1>1, <1>2, ValuesStay
<1>4. pc' \in [Threads -> Places] /\ pc'[t] = "cleanup" /\ \A u \in Threads \ {t} : pc'[u] = pc[u]
  BY <1>1, Facts, Moves
<1>5. ThreadTypes' /\ pos'[t] = 1
      /\ \A u \in Threads \ {t} : pos'[u] = pos[u] /\ calledOne'[u] = calledOne[u] /\ round'[u] = round[u]
  BY <1>1, <1>4, Facts DEF ThreadTypes
<1>6. Passes'
  <2>1. Pass(t)'
    BY <1>4, <1>5 DEF Pass
  <2>2. \A u \in Threads : Due(u, 1)' = Due(u, 1)
    BY <1>1 DEF Due, keyVars
  <2> QED BY <1>4, <1>5, <2>1, <2>2, PassesStay
<1> QED BY <1>2, <1>3, <1>5, <1>6 DEF TlsInv, TlsTypes

LEMMA CleanupCallsKeeps ==
  ASSUME TlsInv, NEW t \in Threads, CleanupCalls(t)
  PROVE  TlsInv'
<1>1. PICK k \in Candidates(t) : /\ destroyed' = destroyed \cup {slot[base[t]][k]}
                                 /\ slot' = Cleared(t, k) /\ pos' = [pos EXCEPT ![t] = k + 1]
  BY DEF CleanupCalls
<1>2. /\ Holds(t) /\ Alive(t) /\ Goes(t, "destructor") /\ "destructor" \in Places
      /\ round' = [round EXCEPT ![t] = IF AnotherPass(t) THEN @ + 1 ELSE @]
      /\ calledOne' = [calledOne EXCEPT ![t] = TRUE]
      /\ UNCHANGED <<keyVars, valueVars, registered, mapped, base>>
  BY DEF CleanupCalls, Holds, Alive, Places
<1> DEFINE v == slot[base[t]][k]
<1>3. k \in Keys /\ k \in Nat /\ v # Null
  BY <1>1, Facts DEF Candidates, Due
<1>4. v \in 1 .. sets /\ born[v] = [thread |-> t, key |-> k, life |-> life[k]]
  BY <1>2, <1>3, Facts DEF TlsInv, Values, Own, Null, BirthTypes
<1>5. \A u \in Threads, j \in Keys : Alive(u) /\ (u # t \/ j # k) => slot[base[u]][j] # v
  <2> SUFFICES ASSUME NEW u \in Threads, NEW j \in Keys, Alive(u), slot[base[u]][j] = v
               PROVE  u = t /\ j = k
    OBVIOUS
  <2>1. born[v] = [thread |-> u, key |-> j, life |-> life[j]]
    BY <1>3 DEF TlsInv, Values, Own
  <2>2. born[v].thread = u /\ born[v].key = j
    BY <2>1
  <2>3. born[v].thread = t /\ born[v].key = k
    BY <1>4
  <2> QED BY <2>2, <2>3
<1> HIDE DEF v
<1>6. /\ SlotTypes' /\ slot'[base'[t]][k] = Null
      /\ \A u \in Threads, j \in Keys : Alive(u) /\ (u # t \/ j # k) =>
            slot'[base'[u]][j] = slot[base[u]][j]
  <2>1. Writes(base[t], k, Null) /\ base' = base /\ Null \in Nat
    BY <1>1, <1>2 DEF Writes, Null, Cleared
  <2> QED BY <1>2, <1>3, <2>1, OthersKeep
<1>7. Stacks' /\ \A u \in Threads : Alive(u)' => Alive(u)
  BY <1>2, StacksStay
<1>8. KeyTypes' /\ BirthTypes'
  BY <1>2, Facts DEF KeyTypes, BirthTypes, keyVars, valueVars
<1>9. pc' \in [Threads -> Places] /\ pc'[t] = "destructor" /\ \A u \in Threads \ {t} : pc'[u] = pc[u]
  BY <1>2, Facts, Moves
<1>10. ThreadTypes' /\ calledOne'[t]
       /\ \A u \in Threads \ {t} : pos'[u] = pos[u] /\ calledOne'[u] = calledOne[u] /\ round'[u] = round[u]
  BY <1>1, <1>2, <1>3, <1>9, Facts DEF ThreadTypes
<1>11. destroyed' = destroyed \cup {v} /\ v # Null
  BY <1>1, <1>3 DEF v
<1>12. ASSUME NEW u \in Threads, NEW j \in Keys, u # t \/ j # k PROVE Own(u, j)'
  BY <1>2, <1>5, <1>6, <1>7, <1>11, <1>12 DEF TlsInv, Values, Own, keyVars, valueVars
<1>13. Own(t, k)'
  BY <1>2, <1>6, <1>11, Facts DEF TlsInv, Values, Own, Null, BirthTypes, valueVars
<1>14. destroyed' \subseteq 1 .. sets'
  BY <1>2, <1>4, <1>11 DEF TlsInv, Values, valueVars
<1>15. ASSUME NEW u \in Threads \ {t}, Alive(u) PROVE Due(u, 1)' \subseteq Due(u, 1)
  BY <1>2, <1>6, <1>15 DEF Due, keyVars
<1>16. Passes'
  <2>1. Pass(t)'
    BY <1>9, <1>10 DEF Pass
  <2> QED BY <1>9, <1>10, <1>15, <2>1, PassesStay
<1> QED BY <1>6, <1>7, <1>8, <1>10, <1>12, <1>13, <1>14, <1>16 DEF TlsInv, TlsTypes, Values

LEMMA DestructorReturnsKeeps ==
  ASSUME TlsInv, NEW t \in Threads, DestructorReturns(t)
  PROVE  TlsInv'
<1>1. /\ Holds(t) /\ Alive(t) /\ Goes(t, "cleanup") /\ "cleanup" \in Places
      /\ UNCHANGED <<keyVars, passVars, valueVars, registered, mapped, slot, base, destroyed>>
  BY DEF DestructorReturns, Holds, Alive, Places
<1>2. calledOne'[t]
  BY <1>1 DEF DestructorReturns, TlsInv, Passes, Pass, passVars
<1>3. Pass(t)'
  BY <1>1, <1>2, Facts, Moves DEF Pass
<1> QED BY <1>1, <1>3, OnlyMoves

LEMMA DestructorFailsKeeps ==
  ASSUME TlsInv, NEW t \in Threads, DestructorFails(t)
  PROVE  TlsInv'
<1>1. /\ Holds(t) /\ Goes(t, "unmap") /\ "unmap" \in Places
      /\ UNCHANGED <<keyVars, passVars, valueVars, registered, mapped, slot, base, destroyed>>
  BY DEF DestructorFails, Holds, Places
<1>2. Pass(t)'
  BY <1>1, Facts, Moves DEF Pass
<1> QED BY <1>1, <1>2, OnlyMoves

LEMMA CleanupEndsKeeps ==
  ASSUME TlsInv, NEW t \in Threads, CleanupEnds(t)
  PROVE  TlsInv'
<1>1. /\ Holds(t) /\ Alive(t) /\ Goes(t, "unregister") /\ "unregister" \in Places
      /\ UNCHANGED <<keyVars, passVars, valueVars, registered, mapped, slot, base, destroyed>>
      /\ pc[t] = "cleanup" /\ Candidates(t) = {}
  BY DEF CleanupEnds, Holds, Alive, Places
<1>2. round[t] < Rounds => Due(t, 1) = {}
  BY <1>1 DEF TlsInv, Passes, Pass, Candidates, AnotherPass
<1>3. Pass(t)'
  BY <1>1, <1>2, Facts, Moves DEF Pass, passVars, Due, keyVars
<1> QED BY <1>1, <1>3, OnlyMoves

LEMMA UnregisterKeeps ==
  ASSUME TlsInv, NEW t \in Threads, Unregister(t)
  PROVE  TlsInv'
<1>1. /\ pc[t] = "unregister" /\ Goes(t, "unmap") /\ "unmap" \in Places
      /\ registered' = [u \in Registered \ {t} |-> registered[u]]
      /\ UNCHANGED <<keyVars, passVars, valueVars, mapped, slot, base, destroyed>>
  BY DEF Unregister, Places
<1>2. pc' \in [Threads -> Places] /\ pc'[t] = "unmap" /\ \A u \in Threads \ {t} : pc'[u] = pc[u]
  BY <1>1, Facts, Moves
<1>3. Registered' = Registered \ {t} /\ \A u \in Registered' : registered'[u] = registered[u]
  BY <1>1 DEF Registered
<1>4. Stacks' /\ \A u \in Threads : Alive(u)' => Alive(u)
  BY <1>1, <1>2, <1>3 DEF TlsInv, Stacks, Alive, Holds
<1>5. KeyTypes' /\ SlotTypes' /\ BirthTypes' /\ Values'
  BY <1>1, <1>4, ValuesStay
<1>6. ThreadTypes'
  BY <1>1, <1>2, Facts DEF ThreadTypes, passVars
<1>7. Passes'
  <2>1. Pass(t)'
    BY <1>2 DEF Pass
  <2> QED BY <1>1, <1>2, <2>1, PassesStay DEF passVars, Due, keyVars
<1> QED BY <1>4, <1>5, <1>6, <1>7 DEF TlsInv, TlsTypes

LEMMA UnmapKeeps ==
  ASSUME TlsInv, NEW t \in Threads, Unmap(t)
  PROVE  TlsInv'
<1>1. /\ pc[t] = "unmap" /\ Goes(t, "gone") /\ "gone" \in Places /\ mapped' = mapped \ {base[t]}
      /\ UNCHANGED <<keyVars, passVars, valueVars, registered, slot, base, destroyed>>
  BY DEF Unmap, Places
<1>2. pc' \in [Threads -> Places] /\ pc'[t] = "gone" /\ \A u \in Threads \ {t} : pc'[u] = pc[u]
  BY <1>1, Facts, Moves
<1>3. Stacks'
  <2>1. \A u \in Threads : (Alive(u)' => Alive(u)) /\ (Holds(u)' => Holds(u) /\ u # t)
    BY <1>1, <1>2 DEF Alive, Holds
  <2>2. Holds(t)
    BY <1>1 DEF Holds
  <2>3. \A u \in Threads : Holds(u)' => base'[u] \in mapped'
    BY <1>1, <2>1, <2>2 DEF TlsInv, Stacks
  <2> QED BY <1>1, <2>1, <2>3 DEF TlsInv, Stacks, Registered
<1>4. \A u \in Threads : Alive(u)' => Alive(u)
  BY <1>2 DEF Alive
<1>5. KeyTypes' /\ SlotTypes' /\ BirthTypes' /\ Values'
  BY <1>1, <1>4, ValuesStay
<1>6. ThreadTypes'
  BY <1>1, <1>2, Facts DEF ThreadTypes, passVars
<1>7. Passes'
  <2>1. Pass(t)'
    BY <1>2 DEF Pass
  <2> QED BY <1>1, <1>2, <2>1, PassesStay DEF passVars, Due, keyVars
<1> QED BY <1>3, <1>5, <1>6, <1>7 DEF TlsInv, TlsTypes

-----------------------------------------------------------------------------
(* The theorems                                                            *)

LEMMA InitHolds == TlsInit => TlsInv
<1> SUFFICES ASSUME TlsInit PROVE TlsInv
  OBVIOUS
<1>1. AnyBase \in Bases
  BY TlsAssumption DEF AnyBase
<1>2. KeyTypes /\ SlotTypes /\ ThreadTypes
  BY <1>1 DEF TlsInit, KeyTypes, SlotTypes, ThreadTypes, Places, Null
<1>3. BirthTypes
  <2>1. [thread |-> AnyThread, key |-> 0, life |-> 0] \in Births
    BY DEF Births
  <2> QED BY <2>1, TlsAssumption DEF TlsInit, BirthTypes
<1>4. Stacks
  BY DEF TlsInit, Stacks, Registered, Alive, Holds
<1>5. Values /\ Passes
  BY DEF TlsInit, Values, Own, Passes, Pass, Alive
<1> QED BY <1>2, <1>3, <1>4, <1>5 DEF TlsInv, TlsTypes

LEMMA NextKeeps == TlsInv /\ [TlsNext]_tlsVars => TlsInv'
<1> SUFFICES ASSUME TlsInv, [TlsNext]_tlsVars PROVE TlsInv'
  OBVIOUS
<1>1. ASSUME NEW t \in Threads, Step(t) PROVE TlsInv'
  BY <1>1, AttachKeeps, KeyCreateKeeps, ExitKeeps, KeyDeleteKeeps, SetSpecificKeeps, SetNullKeeps,
     CleanupCallsKeeps, DestructorReturnsKeeps, DestructorFailsKeeps, CleanupEndsKeeps,
     UnregisterKeeps, UnmapKeeps DEF Step
<1>2. CASE UNCHANGED tlsVars
  BY <1>2 DEF tlsVars, keyVars, passVars, valueVars, TlsInv, TlsTypes, KeyTypes, SlotTypes, ThreadTypes,
     BirthTypes, Stacks, Registered, Alive, Holds, Values, Own, Passes, Pass, Due
<1> QED BY <1>1, <1>2 DEF TlsNext

(* Who holds which stack, and what that says of the slots and the passes,  *)
(* is always true.                                                         *)
THEOREM TlsInvariance == TlsSpec => []TlsInv
BY InitHolds, NextKeeps, PTL DEF TlsSpec

(* pthread_getspecific never shows a thread a value that another thread,   *)
(* an earlier key of that number or an earlier owner of the stack put      *)
(* there (agr_bionic_tls.cpp, register, key_delete and setspecific).       *)
THEOREM OwnValues == TlsSpec => []ValueIsOwn
<1>1. TlsInv => ValueIsOwn
  BY DEF TlsInv, Values, Own, ValueIsOwn
<1> QED BY <1>1, TlsInvariance, PTL

(* The slot is cleared before its destructor runs, so nobody finds the     *)
(* destroyed value again, in no later pass either (cleanup_thread).        *)
THEOREM DestroyedOnce == TlsSpec => []DestroyedGone
<1>1. TlsInv => DestroyedGone
  BY DEF TlsInv, Values, Own, DestroyedGone
<1> QED BY <1>1, TlsInvariance, PTL

(* A cleanup that stops before the fourth pass has no destructor left to   *)
(* call, whatever keys the other threads created or deleted meanwhile.     *)
THEOREM CleanupComplete == TlsSpec => []NothingLeft
<1>1. TlsInv => NothingLeft
  BY DEF TlsInv, Passes, Pass, NothingLeft
<1> QED BY <1>1, TlsInvariance, PTL

=============================================================================
