------------------------- MODULE AospDynamicProofs -------------------------
(***************************************************************************)
(* Theorems about AospDynamic, for any finite libraries, any dependencies  *)
(* between them and any number of calls and failures: no pointer outlives  *)
(* its library, constructors run after those of what a library needs,      *)
(* finalizers run when nothing needs it any more, and between the calls    *)
(* every reference has a holder.                                           *)
(*                                                                         *)
(* The argument is about references.  While no guest function has failed,  *)
(* a library has as many as there are handles, needs of other libraries    *)
(* and frames of the C++ stack that own one, together with the one a       *)
(* returned value hands to its caller; after a failure it has no fewer.    *)
(* So what a frame is working on cannot be deleted under it, although the  *)
(* constructors it calls open and close libraries in any order and the     *)
(* finalizers close them.                                                  *)
(*                                                                         *)
(* What a frame may rely on is said of it alone (Fits), of it and its      *)
(* caller (Calls), and of it and every frame further up (Under).           *)
(***************************************************************************)
EXTENDS AospDynamic, FiniteSetTheorems, SequenceTheorems, WellFoundedInduction, TLAPS

-----------------------------------------------------------------------------
(* What the linker's invariant says                                        *)

Ops == {"open", "link", "ctor", "init", "close", "unload", "fini", "release", "undo"}
Closing == {"close", "unload", "fini", "release"}
FrameSet == [op : Ops, so : Name, i : Nat, deps : Seq(Name)]
Rets == {"none", "found", "null", "ok", "err"}

LinkTypes ==
    /\ solist \in Seq(Name) /\ somain \in Name \cup {NoLibrary}
    /\ alive \subseteq Name /\ ref \in [Name -> Nat] /\ needed \in [Name -> Seq(Name)]
    /\ linked \subseteq alive /\ called \subseteq linked /\ ready \subseteq called
    /\ stack \in Seq(FrameSet) /\ ret \in Rets
    /\ held \in [Lib -> Nat] /\ failed \in Nat

(* A library is linked as long as somebody has a reference to it; what     *)
(* libraries need is linked, and constructed before they are.              *)
Objects ==
    /\ somain # NoLibrary => somain \in alive
    /\ \A n \in Host : (n \in alive => n \in linked) /\ needed[n] = <<>>
    /\ \A n \in Name \ alive : needed[n] = <<>>
    /\ \A x \in Name : \A k \in DOMAIN needed[x] : needed[x][k] \in linked
    /\ \A n \in Lib : n \in linked <=> ref[n] # 0
    /\ \A x \in ready : \A k \in DOMAIN needed[x] : needed[x][k] \in called

(* Each frame of the C++ stack, by itself.                                 *)
Live == failed = 0 /\ ListIsLive

Fits(f) ==
    /\ f.op \notin {"release", "undo"} => f.deps = <<>>
    /\ \A k \in DOMAIN f.deps : f.deps[k] \in linked
    /\ f.op = "open" => f.i \in {0, 1} /\ (f.i = 1 => f.so \in Lib \cap linked)
    /\ f.op = "link" => /\ f.so \in (Lib \cap alive) \ linked
                        /\ f.i \in 1 .. Len(Needs[f.so]) + 1
    /\ f.op = "ctor" => /\ f.so \in linked /\ f.i <= Len(needed[f.so]) + 1
                        /\ f.i # 0 => f.so \in called
                        /\ \A k \in 1 .. f.i - 1 : needed[f.so][k] \in called
    /\ f.op = "init" => /\ f.so \in Lib \cap linked
                        /\ \A k \in DOMAIN needed[f.so] : needed[f.so][k] \in called
    /\ f.op = "close" => f.so \in Lib
    /\ f.op = "unload" => f.so \in linked
    /\ f.op = "release" => f.so \in Lib \ alive
    /\ f.op = "fini" => f.so \in Lib /\ ref[f.so] = 1 /\ (Live => f.so \in ready)

(* Which function calls which: b is the caller of a.                       *)
Calls(b, a) ==
    /\ a.op = "open" => b.op = "init"
    /\ a.op = "link" => \/ b.op = "open" /\ b.i = 0 /\ b.so = a.so
                        \/ b.op = "link" /\ b.i <= Len(Needs[b.so]) /\ Needs[b.so][b.i] = a.so
    /\ a.op = "undo" => b.op \in {"open", "link"}
    /\ a.op = "ctor" => \/ b.op = "open" /\ b.i = 1 /\ b.so = a.so
                        \/ /\ b.op = "ctor" /\ b.i \in 1 .. Len(needed[b.so])
                           /\ needed[b.so][b.i] = a.so
    /\ a.op = "init" => b.op = "ctor" /\ b.so = a.so /\ b.i = Len(needed[b.so]) + 1
    /\ a.op = "close" => b.op \in {"init", "fini"}
    /\ a.op \in {"unload", "release"} => \/ b.op = "close" /\ b.so = a.so
                                         \/ b.op \in {"release", "undo"}
    /\ a.op = "fini" => b.op = "unload" /\ b.so = a.so

(* Whatever is further up: while libraries go, none comes; and the         *)
(* libraries that are being linked are on the list in the order of their   *)
(* frames.                                                                 *)
Before(m, n) == \E p, q \in DOMAIN solist : p < q /\ solist[p] = m /\ solist[q] = n

Under(b, a) ==
    /\ b.op \in Closing \cup {"undo"} => a.op \in Closing
    /\ b.op = "link" /\ a.op = "link" => Before(b.so, a.so)

FramesOf(s) == {s[k] : k \in 1 .. Len(s)}

Shape(s) ==
    /\ \A f \in FramesOf(s) : Fits(f)
    /\ \A k \in 1 .. Len(s) - 1 : Calls(s[k + 1], s[k])
    /\ \A j, k \in 1 .. Len(s) : j < k => Under(s[k], s[j])
    /\ s # <<>> => s[Len(s)].op \in {"open", "close"}

LinkingIn(s, n) == \E f \in FramesOf(s) : f.op = "link" /\ f.so = n
OpenedIn(s, n) == \E f \in FramesOf(s) : f.op = "open" /\ f.i = 1 /\ f.so = n
BegunIn(s, n) == \E f \in FramesOf(s) : f.op = "ctor" /\ f.i # 0 /\ f.so = n

(* What a returned value means to the function that gets it.               *)
Wants(t, n) == IF t.op = "open" THEN t.i = 0 /\ t.so = n
               ELSE t.op = "link" /\ t.i <= Len(Needs[t.so]) /\ Needs[t.so][t.i] = n

Answer(t, r) ==
    /\ r = "found" => \E n \in linked : Wants(t, n)
    /\ r = "null" => t.op \in {"open", "link"}
    /\ r = "ok" =>
         /\ t.op \in {"open", "ctor", "unload", "close", "release", "undo"}
         /\ t.op = "open" => t.so \in called
         /\ t.op = "ctor" => /\ t.i # 0
                             /\ t.i <= Len(needed[t.so]) => needed[t.so][t.i] \in called
         /\ t.op = "unload" => t.so \in Lib /\ ref[t.so] = 1 /\ (Live => t.so \in ready)
    /\ r = "err" => failed # 0 /\ t.op \in {"open", "ctor", "unload", "close", "release", "undo"}

Answers == IF stack = <<>> THEN ret = "none" ELSE Answer(Head(stack), ret)

(* The list: every name once; unless an entry is dead, all that is alive.  *)
OnList ==
    /\ \A p, q \in DOMAIN solist : solist[p] = solist[q] => p = q
    /\ ListIsLive => \A n \in alive : \E p \in DOMAIN solist : solist[p] = n
    /\ \A n \in Name : LinkingIn(stack, n) => \E p \in DOMAIN solist : solist[p] = n
    /\ \A n \in (Lib \cap alive) \ linked : LinkingIn(stack, n)

(* A library whose constructors were not called is needed by the one that  *)
(* loaded it, which is before it on the list, or is about to be.           *)
Loader(n) == \E x \in Name : Before(x, n) /\ \E k \in DOMAIN needed[x] : needed[x][k] = n

Promised(s, r, n) ==
    \/ OpenedIn(s, n)
    \/ r = "found" /\ Wants(Head(s), n) /\ (Head(s).op = "link" => Before(Head(s).so, n))

Constructors ==
    /\ Live => \A n \in (Lib \cap linked) \ called : Loader(n) \/ Promised(stack, ret, n)
    /\ failed = 0 => \A n \in called : n \in ready \/ BegunIn(stack, n)

(* The references: handles, needs of libraries, references of frames, and  *)
(* the one that a return value carries.                                    *)
Places(q, n) == {m \in 1 .. Len(q) : q[Len(q) + 1 - m] = n}
Owns(f, n) == \/ f.op = "unload" /\ f.so = n
              \/ f.op = "open" /\ f.i = 1 /\ f.so = n
Marks(f, n) == Places(f.deps, n) \cup {m \in {0} : Owns(f, n)}
Tokens(s, n) == UNION {{k} \X Marks(s[Len(s) + 1 - k], n) : k \in 1 .. Len(s)}
NeedsOf(q, n) == {k \in DOMAIN q : q[k] = n}
Needing(nd, n) == UNION {{x} \X NeedsOf(nd[x], n) : x \in Name}

Load(f, n) == Cardinality(Marks(f, n))
Weight(s, n) == Cardinality(Tokens(s, n))
Needed(nd, n) == Cardinality(Needing(nd, n))
Carried(s, r, n) ==
    IF \/ r = "found" /\ Wants(Head(s), n)
       \/ r = "err" /\ Head(s).op = "close" /\ Head(s).so = n /\ n \in alive
    THEN 1 ELSE 0

Rest(n) == held[n] + Weight(stack, n) + Carried(stack, ret, n)
Total(n) == Needed(needed, n) + Rest(n)
Counts == \A n \in Lib : Total(n) <= ref[n] /\ (failed = 0 => Total(n) = ref[n])

LinkInv == LinkTypes /\ Objects /\ Shape(stack) /\ Answers /\ OnList /\ Constructors /\ Counts

-----------------------------------------------------------------------------
(* Sequences of frames                                                     *)

LEMMA Pushed ==
  ASSUME NEW s \in Seq(FrameSet), NEW f \in FrameSet
  PROVE  LET t == <<f>> \o s IN
         /\ t \in Seq(FrameSet) /\ t # <<>> /\ Len(t) = Len(s) + 1 /\ Len(s) \in Nat
         /\ t[1] = f /\ \A k \in 1 .. Len(s) : t[k + 1] = s[k]
         /\ Head(t) = f /\ Tail(t) = s
<1> DEFINE t == <<f>> \o s
<1>1. <<f>> \in Seq(FrameSet) /\ Len(<<f>>) = 1 /\ <<f>>[1] = f
  OBVIOUS
<1>2. /\ t \in Seq(FrameSet) /\ Len(t) = Len(s) + 1 /\ Len(s) \in Nat
      /\ \A k \in 1 .. 1 + Len(s) : t[k] = IF k <= 1 THEN f ELSE s[k - 1]
  BY <1>1, ConcatProperties
<1>3. t[1] = f /\ \A k \in 1 .. Len(s) : t[k + 1] = s[k]
  BY <1>2
<1>4. t # <<>> /\ Head(t) = f
  BY <1>2, <1>3
<1>5. Tail(t) = s
  <2>1. /\ Tail(t) \in Seq(FrameSet) /\ Len(Tail(t)) = Len(s)
        /\ \A k \in 1 .. Len(Tail(t)) : Tail(t)[k] = t[k + 1]
    BY <1>2, <1>4, HeadTailProperties
  <2> QED BY <2>1, <1>3, SeqEqual
<1> QED BY <1>2, <1>3, <1>4, <1>5

LEMMA Popped ==
  ASSUME NEW t \in Seq(FrameSet), t # <<>>
  PROVE  /\ Head(t) \in FrameSet /\ Tail(t) \in Seq(FrameSet) /\ t = <<Head(t)>> \o Tail(t)
<1>1. Head(t) \in FrameSet /\ Tail(t) \in Seq(FrameSet)
  BY HeadTailProperties
<1>2. Len(t) \in Nat \ {0} /\ Head(t) = t[1]
  BY EmptySeq
<1>3. Len(Tail(t)) = Len(t) - 1 /\ \A k \in 1 .. Len(Tail(t)) : Tail(t)[k] = t[k + 1]
  BY HeadTailProperties
<1> DEFINE u == <<Head(t)>> \o Tail(t)
<1>4. /\ u \in Seq(FrameSet) /\ Len(u) = Len(t) /\ u[1] = Head(t)
      /\ \A k \in 1 .. Len(Tail(t)) : u[k + 1] = Tail(t)[k]
  BY <1>1, <1>2, <1>3, Pushed
<1>5. \A k \in 1 .. Len(t) : u[k] = t[k]
  <2> TAKE k \in 1 .. Len(t)
  <2>1. CASE k = 1
    BY <2>1, <1>2, <1>4
  <2>2. CASE k # 1
    <3>1. k - 1 \in 1 .. Len(Tail(t)) /\ (k - 1) + 1 = k
      BY <2>2, <1>2, <1>3
    <3> QED BY <3>1, <1>3, <1>4
  <2> QED BY <2>1, <2>2
<1> QED BY <1>1, <1>4, <1>5, SeqEqual

(* What is in a stack with a new frame.                                    *)
LEMMA PushedFrames ==
  ASSUME NEW s \in Seq(FrameSet), NEW f \in FrameSet
  PROVE  /\ FramesOf(<<f>> \o s) = {f} \cup FramesOf(s)
         /\ FramesOf(s) \subseteq FrameSet
         /\ \A n : LinkingIn(<<f>> \o s, n) <=> (f.op = "link" /\ f.so = n) \/ LinkingIn(s, n)
         /\ \A n : OpenedIn(<<f>> \o s, n) <=> (f.op = "open" /\ f.i = 1 /\ f.so = n) \/ OpenedIn(s, n)
         /\ \A n : BegunIn(<<f>> \o s, n) <=> (f.op = "ctor" /\ f.i # 0 /\ f.so = n) \/ BegunIn(s, n)
         /\ s # <<>> => Head(s) = s[1] /\ Head(s) \in FramesOf(s)
         /\ s = <<>> => FramesOf(s) = {}
<1> DEFINE t == <<f>> \o s
<1>1. /\ Len(t) = Len(s) + 1 /\ Len(s) \in Nat
      /\ t[1] = f /\ \A k \in 1 .. Len(s) : t[k + 1] = s[k]
  BY Pushed
<1> HIDE DEF t
<1>2. FramesOf(t) = {f} \cup FramesOf(s)
  <2>1. ASSUME NEW g \in FramesOf(t) PROVE g \in {f} \cup FramesOf(s)
    <3>1. PICK k \in 1 .. Len(t) : g = t[k]
      BY DEF FramesOf
    <3>2. CASE k = 1
      BY <3>1, <3>2, <1>1
    <3>3. CASE k # 1
      <4>1. k - 1 \in 1 .. Len(s) /\ t[(k - 1) + 1] = s[k - 1] /\ (k - 1) + 1 = k
        BY <3>3, <1>1
      <4> QED BY <4>1, <3>1 DEF FramesOf
    <3> QED BY <3>2, <3>3
  <2>2. f \in FramesOf(t)
    BY <1>1 DEF FramesOf
  <2>3. ASSUME NEW g \in FramesOf(s) PROVE g \in FramesOf(t)
    <3>1. PICK k \in 1 .. Len(s) : g = s[k]
      BY DEF FramesOf
    <3>2. k + 1 \in 1 .. Len(t) /\ t[k + 1] = g
      BY <3>1, <1>1
    <3> QED BY <3>2 DEF FramesOf
  <2> QED BY <2>1, <2>2, <2>3
<1>3. FramesOf(s) \subseteq FrameSet
  BY ElementOfSeq DEF FramesOf
<1>4. s # <<>> => Head(s) = s[1] /\ Head(s) \in FramesOf(s)
  <2>1. s # <<>> => Len(s) >= 1
    BY EmptySeq
  <2> QED BY <2>1, <1>1 DEF FramesOf
<1>5. s = <<>> => FramesOf(s) = {}
  BY DEF FramesOf
<1>6. \A n : LinkingIn(t, n) <=> (f.op = "link" /\ f.so = n) \/ LinkingIn(s, n)
  BY <1>2 DEF LinkingIn
<1>7. \A n : OpenedIn(t, n) <=> (f.op = "open" /\ f.i = 1 /\ f.so = n) \/ OpenedIn(s, n)
  BY <1>2 DEF OpenedIn
<1>8. \A n : BegunIn(t, n) <=> (f.op = "ctor" /\ f.i # 0 /\ f.so = n) \/ BegunIn(s, n)
  BY <1>2 DEF BegunIn
<1> QED BY <1>2, <1>3, <1>4, <1>5, <1>6, <1>7, <1>8 DEF t

LEMMA ShapePops ==
  ASSUME NEW s \in Seq(FrameSet), NEW f \in FrameSet, Shape(<<f>> \o s)
  PROVE  /\ Shape(s) /\ Fits(f)
         /\ IF s = <<>> THEN f.op \in {"open", "close"} ELSE Calls(Head(s), f)
         /\ \A g \in FramesOf(s) : Under(g, f)
<1> DEFINE t == <<f>> \o s
<1>1. /\ Len(t) = Len(s) + 1 /\ Len(s) \in Nat /\ t # <<>>
      /\ t[1] = f /\ \A k \in 1 .. Len(s) : t[k + 1] = s[k]
  BY Pushed
<1>2. Shape(t)
  OBVIOUS
<1>3. FramesOf(t) = {f} \cup FramesOf(s) /\ (s # <<>> => Head(s) = s[1])
  BY PushedFrames
<1>4. s # <<>> => Len(s) >= 1
  BY EmptySeq
<1> HIDE DEF t
<1>5. (\A g \in FramesOf(s) : Fits(g)) /\ Fits(f)
  BY <1>2, <1>3 DEF Shape
<1>6. \A k \in 1 .. Len(s) - 1 : Calls(s[k + 1], s[k])
  <2> TAKE k \in 1 .. Len(s) - 1
  <2>1. k + 1 \in 1 .. Len(t) - 1 /\ Calls(t[(k + 1) + 1], t[k + 1])
    BY <1>1, <1>2 DEF Shape
  <2>2. k + 1 \in 1 .. Len(s) /\ k \in 1 .. Len(s)
    BY <1>1
  <2>3. t[(k + 1) + 1] = s[k + 1] /\ t[k + 1] = s[k]
    BY <1>1, <2>2
  <2> QED BY <2>1, <2>3
<1>7. \A j, k \in 1 .. Len(s) : j < k => Under(s[k], s[j])
  <2> SUFFICES ASSUME NEW j \in 1 .. Len(s), NEW k \in 1 .. Len(s), j < k PROVE Under(s[k], s[j])
    OBVIOUS
  <2>1. j + 1 \in 1 .. Len(t) /\ k + 1 \in 1 .. Len(t) /\ j + 1 < k + 1
    BY <1>1
  <2>2. Under(t[k + 1], t[j + 1])
    BY <2>1, <1>2 DEF Shape
  <2> QED BY <2>2, <1>1
<1>8. s # <<>> => s[Len(s)].op \in {"open", "close"}
  <2> SUFFICES ASSUME s # <<>> PROVE s[Len(s)].op \in {"open", "close"}
    OBVIOUS
  <2>1. t[Len(t)] = s[Len(s)]
    BY <1>1, <1>4
  <2> QED BY <2>1, <1>1, <1>2 DEF Shape
<1>9. IF s = <<>> THEN f.op \in {"open", "close"} ELSE Calls(Head(s), f)
  <2>1. CASE s = <<>>
    <3>1. Len(s) = 0
      BY <2>1, EmptySeq
    <3>2. t[Len(t)] = f
      BY <3>1, <1>1
    <3> QED BY <2>1, <3>2, <1>1, <1>2 DEF Shape
  <2>2. CASE s # <<>>
    <3>1. 1 \in 1 .. Len(t) - 1 /\ t[1 + 1] = s[1]
      BY <2>2, <1>1, <1>4
    <3>2. Calls(t[1 + 1], t[1])
      BY <3>1, <1>2 DEF Shape
    <3> QED BY <3>1, <3>2, <1>1, <1>3, <2>2
  <2> QED BY <2>1, <2>2
<1>10. \A g \in FramesOf(s) : Under(g, f)
  <2> TAKE g \in FramesOf(s)
  <2>1. PICK k \in 1 .. Len(s) : g = s[k]
    BY DEF FramesOf
  <2>2. 1 \in 1 .. Len(t) /\ k + 1 \in 1 .. Len(t) /\ 1 < k + 1
    BY <1>1
  <2>3. Under(t[k + 1], t[1])
    BY <2>2, <1>2 DEF Shape
  <2> QED BY <2>1, <2>3, <1>1
<1> QED BY <1>5, <1>6, <1>7, <1>8, <1>9, <1>10 DEF Shape

LEMMA ShapePushes ==
  ASSUME NEW s \in Seq(FrameSet), NEW f \in FrameSet, Shape(s)', Fits(f)',
         IF s = <<>> THEN f.op \in {"open", "close"} ELSE Calls(Head(s), f)',
         \A g \in FramesOf(s) : Under(g, f)'
  PROVE  Shape(<<f>> \o s)'
<1> DEFINE t == <<f>> \o s
<1>1. /\ Len(t) = Len(s) + 1 /\ Len(s) \in Nat /\ t # <<>>
      /\ t[1] = f /\ \A k \in 1 .. Len(s) : t[k + 1] = s[k]
  BY Pushed
<1>2. FramesOf(t) = {f} \cup FramesOf(s) /\ (s # <<>> => Head(s) = s[1])
  BY PushedFrames
<1>3. s # <<>> => Len(s) >= 1
  BY EmptySeq
<1>4. s = <<>> => Len(s) = 0
  BY EmptySeq
<1> SUFFICES Shape(t)'
  OBVIOUS
<1> HIDE DEF t
<1>5. (\A g \in FramesOf(t) : Fits(g))'
  BY <1>2 DEF Shape, FramesOf
<1>6. (\A k \in 1 .. Len(t) - 1 : Calls(t[k + 1], t[k]))'
  <2> SUFFICES ASSUME NEW k \in 1 .. Len(t) - 1 PROVE Calls(t[k + 1], t[k])'
    OBVIOUS
  <2>1. CASE k = 1
    <3>1. s # <<>> /\ t[k + 1] = s[1]
      BY <2>1, <1>1, <1>4
    <3> QED BY <2>1, <3>1, <1>1, <1>2
  <2>2. CASE k # 1
    <3>1. k - 1 \in 1 .. Len(s) - 1 /\ k - 1 \in 1 .. Len(s) /\ (k - 1) + 1 \in 1 .. Len(s)
      BY <2>2, <1>1
    <3>2. Calls(s[(k - 1) + 1], s[k - 1])'
      BY <3>1 DEF Shape
    <3>3. t[k + 1] = s[(k - 1) + 1] /\ t[k] = s[k - 1]
      BY <3>1, <1>1
    <3> QED BY <3>2, <3>3
  <2> QED BY <2>1, <2>2
<1>7. (\A j, k \in 1 .. Len(t) : j < k => Under(t[k], t[j]))'
  <2> SUFFICES ASSUME NEW j \in 1 .. Len(t), NEW k \in 1 .. Len(t), j < k PROVE Under(t[k], t[j])'
    OBVIOUS
  <2>1. k - 1 \in 1 .. Len(s) /\ t[k] = s[k - 1]
    <3>1. k - 1 \in 1 .. Len(s) /\ (k - 1) + 1 = k
      BY <1>1
    <3> QED BY <3>1, <1>1
  <2>2. CASE j = 1
    <3>1. s[k - 1] \in FramesOf(s)
      BY <2>1 DEF FramesOf
    <3> QED BY <3>1, <2>1, <2>2, <1>1
  <2>3. CASE j # 1
    <3>1. j - 1 \in 1 .. Len(s) /\ (j - 1) + 1 = j /\ j - 1 < k - 1
      BY <2>3, <1>1
    <3>2. Under(s[k - 1], s[j - 1])'
      BY <3>1, <2>1 DEF Shape
    <3>3. t[j] = s[j - 1]
      BY <3>1, <1>1
    <3> QED BY <3>2, <3>3, <2>1
  <2> QED BY <2>2, <2>3
<1>8. t[Len(t)].op \in {"open", "close"}
  <2>1. CASE s = <<>>
    BY <2>1, <1>1, <1>4
  <2>2. CASE s # <<>>
    <3>1. t[Len(t)] = s[Len(s)]
      BY <1>1, <1>3, <2>2
    <3> QED BY <3>1, <2>2 DEF Shape
  <2> QED BY <2>1, <2>2
<1> QED BY <1>5, <1>6, <1>7, <1>8 DEF Shape

(* A stack nobody pushes on stays well shaped when its frames do.          *)
LEMMA ShapeStays ==
  ASSUME NEW s \in Seq(FrameSet), Shape(s),
         \A f \in FramesOf(s) : Fits(f) => Fits(f)',
         \A f, g \in FramesOf(s) : Calls(f, g) => Calls(f, g)',
         \A f, g \in FramesOf(s) : Under(f, g) => Under(f, g)'
  PROVE  Shape(s)'
<1>1. \A k \in 1 .. Len(s) : s[k] \in FramesOf(s)
  BY DEF FramesOf
<1>2. Len(s) \in Nat
  OBVIOUS
<1>3. (\A k \in 1 .. Len(s) - 1 : Calls(s[k + 1], s[k]))'
  <2> SUFFICES ASSUME NEW k \in 1 .. Len(s) - 1 PROVE Calls(s[k + 1], s[k])'
    OBVIOUS
  <2>1. k \in 1 .. Len(s) /\ k + 1 \in 1 .. Len(s)
    BY <1>2
  <2> QED BY <2>1, <1>1 DEF Shape
<1>4. (\A j, k \in 1 .. Len(s) : j < k => Under(s[k], s[j]))'
  BY <1>1 DEF Shape
<1>5. (\A f \in FramesOf(s) : Fits(f))'
  BY DEF Shape, FramesOf
<1> QED BY <1>3, <1>4, <1>5 DEF Shape

-----------------------------------------------------------------------------
(* Counting                                                                *)

LEMMA PlacesCount ==
  ASSUME NEW q \in Seq(Name), NEW n
  PROVE  /\ IsFiniteSet(Places(q, n)) /\ IsFiniteSet(NeedsOf(q, n))
         /\ Cardinality(Places(q, n)) \in Nat
         /\ Cardinality(Places(q, n)) = Cardinality(NeedsOf(q, n))
         /\ \A k \in 1 .. Len(q) : q[k] = n => Places(q, n) # {}
         /\ q = <<>> => Cardinality(Places(q, n)) = 0 /\ Places(q, n) = {}
<1>1. Len(q) \in Nat /\ DOMAIN q = 1 .. Len(q) /\ (q = <<>> => Len(q) = 0)
  BY LenProperties, EmptySeq
<1>2. IsFiniteSet(1 .. Len(q))
  BY <1>1, FS_Interval
<1>3. IsFiniteSet(Places(q, n)) /\ IsFiniteSet(NeedsOf(q, n))
  BY <1>1, <1>2, FS_Subset DEF Places, NeedsOf
<1> DEFINE g == [m \in Places(q, n) |-> Len(q) + 1 - m]
<1>4. g \in Bijection(Places(q, n), NeedsOf(q, n))
  <2>1. \A m \in Places(q, n) : Len(q) + 1 - m \in NeedsOf(q, n)
    BY <1>1 DEF Places, NeedsOf
  <2>2. \A a, b \in Places(q, n) : g[a] = g[b] => a = b
    BY <1>1 DEF Places
  <2>3. \A k \in NeedsOf(q, n) : \E m \in Places(q, n) : g[m] = k
    <3> TAKE k \in NeedsOf(q, n)
    <3>1. k \in 1 .. Len(q) /\ q[k] = n
      BY <1>1 DEF NeedsOf
    <3>2. Len(q) + 1 - k \in 1 .. Len(q) /\ Len(q) + 1 - (Len(q) + 1 - k) = k
      BY <3>1, <1>1
    <3>3. Len(q) + 1 - k \in Places(q, n)
      BY <3>1, <3>2 DEF Places
    <3> QED BY <3>2, <3>3
  <2>4. g \in [Places(q, n) -> NeedsOf(q, n)]
    BY <2>1
  <2> QED BY <2>2, <2>3, <2>4 DEF Bijection, Injection, Surjection, IsInjective
<1>5. ExistsBijection(Places(q, n), NeedsOf(q, n))
  BY <1>4 DEF ExistsBijection
<1>6. Cardinality(Places(q, n)) = Cardinality(NeedsOf(q, n)) /\ Cardinality(Places(q, n)) \in Nat
  BY <1>3, <1>5, FS_Bijection, FS_CardinalityType
<1>7. \A k \in 1 .. Len(q) : q[k] = n => Places(q, n) # {}
  <2> SUFFICES ASSUME NEW k \in 1 .. Len(q), q[k] = n PROVE Places(q, n) # {}
    OBVIOUS
  <2>1. Len(q) + 1 - k \in 1 .. Len(q) /\ Len(q) + 1 - (Len(q) + 1 - k) = k
    BY <1>1
  <2>2. Len(q) + 1 - k \in Places(q, n)
    BY <2>1 DEF Places
  <2> QED BY <2>2
<1>8. q = <<>> => Places(q, n) = {}
  BY <1>1 DEF Places
<1> QED BY <1>3, <1>6, <1>7, <1>8, FS_EmptySet

LEMMA PlacesTail ==
  ASSUME NEW q \in Seq(Name), q # <<>>, NEW n
  PROVE  Cardinality(Places(q, n)) = Cardinality(Places(Tail(q), n)) + IF Head(q) = n THEN 1 ELSE 0
<1>1. /\ Tail(q) \in Seq(Name) /\ Len(Tail(q)) = Len(q) - 1 /\ Len(q) \in Nat \ {0}
      /\ \A k \in 1 .. Len(Tail(q)) : Tail(q)[k] = q[k + 1]
  BY HeadTailProperties, EmptySeq
<1>2. Head(q) = q[1]
  OBVIOUS
<1>3. \A m \in 1 .. Len(q) - 1 : Tail(q)[Len(q) - 1 + 1 - m] = q[Len(q) + 1 - m]
  <2> TAKE m \in 1 .. Len(q) - 1
  <2>1. Len(q) - 1 + 1 - m \in 1 .. Len(Tail(q)) /\ (Len(q) - 1 + 1 - m) + 1 = Len(q) + 1 - m
    BY <1>1
  <2> QED BY <2>1, <1>1
<1>4. \A m : m \in Places(Tail(q), n) <=> m \in Places(q, n) /\ m # Len(q)
  BY <1>1, <1>3 DEF Places
<1>5. Len(q) \in Places(q, n) <=> Head(q) = n
  BY <1>1, <1>2 DEF Places
<1>6. Places(Tail(q), n) = Places(q, n) \ {Len(q)}
  BY <1>4
<1>7. IsFiniteSet(Places(q, n)) /\ Cardinality(Places(q, n)) \in Nat
  BY PlacesCount
<1>8. Cardinality(Places(Tail(q), n)) = IF Len(q) \in Places(q, n) THEN Cardinality(Places(q, n)) - 1
                                        ELSE Cardinality(Places(q, n))
  BY <1>6, <1>7, FS_RemoveElement
<1> QED BY <1>5, <1>7, <1>8

(* What one frame counts for.                                              *)
LEMMA Loads ==
  ASSUME NEW f \in FrameSet, NEW n
  PROVE  /\ IsFiniteSet(Marks(f, n)) /\ Load(f, n) \in Nat
         /\ Load(f, n) = Cardinality(Places(f.deps, n)) + IF Owns(f, n) THEN 1 ELSE 0
         /\ f.deps = <<>> => Load(f, n) = IF Owns(f, n) THEN 1 ELSE 0
         /\ Owns(f, n) => Marks(f, n) # {}
         /\ \A k \in DOMAIN f.deps : f.deps[k] = n => Marks(f, n) # {}
<1>1. f.deps \in Seq(Name) /\ DOMAIN f.deps = 1 .. Len(f.deps)
  BY LenProperties DEF FrameSet
<1>2. IsFiniteSet(Places(f.deps, n)) /\ Cardinality(Places(f.deps, n)) \in Nat /\ 0 \notin Places(f.deps, n)
  <2>1. 0 \notin Places(f.deps, n)
    BY DEF Places
  <2> QED BY <1>1, <2>1, PlacesCount
<1>3. CASE Owns(f, n)
  <2>1. Marks(f, n) = Places(f.deps, n) \cup {0}
    BY <1>3 DEF Marks
  <2>2. IsFiniteSet(Marks(f, n)) /\ Load(f, n) = Cardinality(Places(f.deps, n)) + 1
    BY <1>2, <2>1, FS_AddElement DEF Load
  <2> QED BY <1>1, <1>2, <1>3, <2>1, <2>2, PlacesCount
<1>4. CASE ~Owns(f, n)
  <2>1. Marks(f, n) = Places(f.deps, n)
    BY <1>4 DEF Marks
  <2> QED BY <1>1, <1>2, <1>4, <2>1, PlacesCount DEF Load
<1> QED BY <1>3, <1>4

LEMMA WeightPushed ==
  ASSUME NEW s \in Seq(FrameSet), NEW n
  PROVE  /\ Weight(s, n) \in Nat
         /\ \A f \in FramesOf(s) : Marks(f, n) # {} => Weight(s, n) # 0
         /\ \A f \in FrameSet : Weight(<<f>> \o s, n) = Weight(s, n) + Load(f, n)
<1>1. Len(s) \in Nat /\ \A k \in 1 .. Len(s) : s[k] \in FrameSet
  BY LenProperties, ElementOfSeq
<1>2. \A k \in 1 .. Len(s) : Len(s) + 1 - k \in 1 .. Len(s)
  BY <1>1
<1> DEFINE P(k) == {k} \X Marks(s[Len(s) + 1 - k], n)
           PP == {P(k) : k \in 1 .. Len(s)}
<1>3. \A k \in 1 .. Len(s) : IsFiniteSet(P(k))
  <2> TAKE k \in 1 .. Len(s)
  <2>1. IsFiniteSet(Marks(s[Len(s) + 1 - k], n)) /\ IsFiniteSet({k})
    BY <1>1, <1>2, Loads, FS_Singleton
  <2> QED BY <2>1, FS_Product
<1>4. IsFiniteSet(PP)
  <2>1. IsFiniteSet(1 .. Len(s))
    BY <1>1, FS_Interval
  <2> DEFINE g == [k \in 1 .. Len(s) |-> P(k)]
  <2>2. g \in Surjection(1 .. Len(s), PP)
    BY DEF Surjection
  <2> HIDE DEF g, PP, P
  <2> QED BY <2>1, <2>2, FS_Surjection
<1>5. Tokens(s, n) = UNION PP
  BY DEF Tokens
<1>6. IsFiniteSet(Tokens(s, n))
  <2>1. \A S \in PP : IsFiniteSet(S)
    BY <1>3
  <2> HIDE DEF PP
  <2> QED BY <1>4, <1>5, <2>1, FS_UNION
<1>7. Weight(s, n) \in Nat
  BY <1>6, FS_CardinalityType DEF Weight
<1>8. ASSUME NEW f \in FramesOf(s), Marks(f, n) # {} PROVE Weight(s, n) # 0
  <2>1. PICK k \in 1 .. Len(s) : f = s[k]
    BY DEF FramesOf
  <2>2. PICK m : m \in Marks(f, n)
    BY <1>8
  <2>3. Len(s) + 1 - k \in 1 .. Len(s) /\ Len(s) + 1 - (Len(s) + 1 - k) = k
    BY <1>1
  <2>4. <<Len(s) + 1 - k, m>> \in P(Len(s) + 1 - k)
    BY <2>1, <2>2, <2>3
  <2>5. Tokens(s, n) # {}
    BY <2>3, <2>4, <1>5
  <2> QED BY <2>5, <1>6, FS_EmptySet DEF Weight
<1>9. ASSUME NEW f \in FrameSet PROVE Weight(<<f>> \o s, n) = Weight(s, n) + Load(f, n)
  <2> DEFINE t == <<f>> \o s
             Q == {Len(s) + 1} \X Marks(f, n)
  <2>1. /\ Len(t) = Len(s) + 1 /\ t[1] = f /\ \A k \in 1 .. Len(s) : t[k + 1] = s[k]
    BY Pushed
  <2> HIDE DEF t
  <2>2. \A k \in 1 .. Len(s) : t[Len(t) + 1 - k] = s[Len(s) + 1 - k]
    <3> TAKE k \in 1 .. Len(s)
    <3>1. Len(s) + 1 - k \in 1 .. Len(s) /\ (Len(s) + 1 - k) + 1 = Len(t) + 1 - k
      BY <1>1, <2>1
    <3> QED BY <3>1, <2>1
  <2>3. Len(t) + 1 - Len(t) = 1 /\ Len(t) \in 1 .. Len(t)
    BY <1>1, <2>1
  <2>4. Tokens(t, n) = Tokens(s, n) \cup Q
    <3>1. ASSUME NEW x \in Tokens(t, n) PROVE x \in Tokens(s, n) \cup Q
      <4>1. PICK k \in 1 .. Len(t) : x \in {k} \X Marks(t[Len(t) + 1 - k], n)
        BY DEF Tokens
      <4>2. CASE k = Len(t)
        BY <4>1, <4>2, <2>1, <2>3
      <4>3. CASE k # Len(t)
        <5>1. k \in 1 .. Len(s)
          BY <4>3, <1>1, <2>1
        <5> QED BY <5>1, <4>1, <2>2, <1>5
      <4> QED BY <4>2, <4>3
    <3>2. ASSUME NEW x \in Tokens(s, n) PROVE x \in Tokens(t, n)
      <4>1. PICK k \in 1 .. Len(s) : x \in P(k)
        BY <1>5
      <4>2. k \in 1 .. Len(t)
        BY <1>1, <2>1
      <4> QED BY <4>1, <4>2, <2>2 DEF Tokens
    <3>3. ASSUME NEW x \in Q PROVE x \in Tokens(t, n)
      <4>1. x \in {Len(t)} \X Marks(t[Len(t) + 1 - Len(t)], n)
        BY <2>1, <2>3
      <4> QED BY <4>1, <2>3 DEF Tokens
    <3> QED BY <3>1, <3>2, <3>3
  <2>5. Tokens(s, n) \cap Q = {}
    <3>1. \A k \in 1 .. Len(s) : k # Len(s) + 1
      BY <1>1
    <3> QED BY <3>1, <1>5
  <2>6. IsFiniteSet(Q) /\ Cardinality(Q) = Load(f, n)
    <3>1. IsFiniteSet(Marks(f, n)) /\ Load(f, n) \in Nat /\ Load(f, n) = Cardinality(Marks(f, n))
      BY Loads DEF Load
    <3>2. IsFiniteSet({Len(s) + 1}) /\ Cardinality({Len(s) + 1}) = 1
      BY FS_Singleton
    <3>3. IsFiniteSet(Q) /\ Cardinality(Q) = 1 * Load(f, n)
      BY <3>1, <3>2, FS_Product
    <3> QED BY <3>1, <3>3
  <2> HIDE DEF Q
  <2>7. Cardinality(Tokens(t, n)) = Cardinality(Tokens(s, n)) + Cardinality(Q) - Cardinality({})
    BY <1>6, <2>4, <2>5, <2>6, FS_Union
  <2>8. Load(f, n) \in Nat
    BY Loads
  <2> QED BY <2>6, <2>7, <2>8, <1>7, FS_EmptySet DEF Weight, t
<1> QED BY <1>7, <1>8, <1>9

LEMMA WeightEmpty == \A n : Weight(<<>>, n) = 0
<1>1. \A n : Tokens(<<>>, n) = {}
  BY DEF Tokens
<1> QED BY <1>1, FS_EmptySet DEF Weight

LEMMA NamesFinite == IsFiniteSet(Name) /\ Lib \subseteq Name /\ Host \subseteq Name /\ Lib \cap Host = {}
BY DynamicAssumption, FS_Union DEF Name

(* What the libraries need.                                                *)
LEMMA NeedsCount ==
  ASSUME NEW nd \in [Name -> Seq(Name)], NEW n
  PROVE  /\ IsFiniteSet(Needing(nd, n)) /\ Needed(nd, n) \in Nat
         /\ \A x \in Name : \A k \in DOMAIN nd[x] : nd[x][k] = n => Needed(nd, n) # 0
<1> DEFINE P(x) == {x} \X NeedsOf(nd[x], n)
           PP == {P(x) : x \in Name}
           g == [x \in Name |-> P(x)]
<1>1. \A x \in Name : IsFiniteSet(P(x))
  <2> TAKE x \in Name
  <2>1. IsFiniteSet(NeedsOf(nd[x], n)) /\ IsFiniteSet({x})
    BY PlacesCount, FS_Singleton
  <2> QED BY <2>1, FS_Product
<1>2. g \in Surjection(Name, PP)
  BY DEF Surjection
<1>3. \A S \in PP : IsFiniteSet(S)
  BY <1>1
<1>4. Needing(nd, n) = UNION PP
  BY DEF Needing
<1>5. \A x \in Name : P(x) \in PP
  OBVIOUS
<1>6. IsFiniteSet(Needing(nd, n))
  <2> HIDE DEF PP, P, g
  <2>1. IsFiniteSet(PP)
    BY <1>2, NamesFinite, FS_Surjection
  <2> QED BY <1>3, <1>4, <2>1, FS_UNION
<1>7. ASSUME NEW x \in Name, NEW k \in DOMAIN nd[x], nd[x][k] = n PROVE Needed(nd, n) # 0
  <2>1. <<x, k>> \in P(x)
    BY <1>7 DEF NeedsOf
  <2>2. Needing(nd, n) # {}
    BY <2>1, <1>4, <1>5
  <2> QED BY <2>2, <1>6, FS_EmptySet DEF Needed
<1> QED BY <1>6, <1>7, FS_CardinalityType DEF Needed

LEMMA InNeeding ==
  ASSUME NEW nd, NEW n, NEW z
  PROVE  z \in Needing(nd, n) <=> \E x \in Name : \E k \in NeedsOf(nd[x], n) : z = <<x, k>>
BY DEF Needing

NeedsGone(nd, md, x) ==
    /\ nd \in [Name -> Seq(Name)] /\ md \in [Name -> Seq(Name)] /\ x \in Name
    /\ md[x] = <<>> /\ \A y \in Name \ {x} : md[y] = nd[y]

LEMMA NeedsCleared ==
  ASSUME NEW nd, NEW md, NEW x, NEW n, NeedsGone(nd, md, x)
  PROVE  Needed(nd, n) = Needed(md, n) + Cardinality(Places(nd[x], n))
<1> DEFINE Q == {x} \X NeedsOf(nd[x], n)
<1>0. nd \in [Name -> Seq(Name)] /\ x \in Name /\ nd[x] \in Seq(Name)
  BY DEF NeedsGone
<1>1. md \in [Name -> Seq(Name)] /\ md[x] = <<>> /\ \A y \in Name \ {x} : md[y] = nd[y]
  BY DEF NeedsGone
<1>2. NeedsOf(md[x], n) = {}
  BY <1>1 DEF NeedsOf
<1>3. Needing(nd, n) = Needing(md, n) \cup Q
  <2>1. ASSUME NEW z PROVE z \in Needing(nd, n) <=> z \in Needing(md, n) \cup Q
    <3>1. z \in Needing(nd, n) <=> \E y \in Name : \E k \in NeedsOf(nd[y], n) : z = <<y, k>>
      BY InNeeding
    <3>2. z \in Needing(md, n) <=> \E y \in Name : \E k \in NeedsOf(md[y], n) : z = <<y, k>>
      BY InNeeding
    <3>3. z \in Q <=> \E k \in NeedsOf(nd[x], n) : z = <<x, k>>
      OBVIOUS
    <3>4. \A y \in Name \ {x} : NeedsOf(md[y], n) = NeedsOf(nd[y], n)
      BY <1>1
    <3> HIDE DEF Q
    <3> QED BY <3>1, <3>2, <3>3, <3>4, <1>2, <1>0
  <2> QED BY <2>1
<1>4. Needing(md, n) \cap Q = {}
  <2> SUFFICES ASSUME NEW z \in Needing(md, n), z \in Q PROVE FALSE
    OBVIOUS
  <2>1. PICK y \in Name : \E k \in NeedsOf(md[y], n) : z = <<y, k>>
    BY InNeeding
  <2>2. y = x
    BY <2>1
  <2> QED BY <2>1, <2>2, <1>2
<1>5. IsFiniteSet(Needing(md, n)) /\ Needed(md, n) \in Nat
  BY <1>1, NeedsCount
<1>6. IsFiniteSet(Q) /\ Cardinality(Q) = Cardinality(Places(nd[x], n))
  <2>1. /\ IsFiniteSet(NeedsOf(nd[x], n)) /\ Cardinality(Places(nd[x], n)) \in Nat
        /\ Cardinality(Places(nd[x], n)) = Cardinality(NeedsOf(nd[x], n))
    BY <1>0, PlacesCount
  <2>2. IsFiniteSet({x}) /\ Cardinality({x}) = 1
    BY FS_Singleton
  <2>3. IsFiniteSet(Q) /\ Cardinality(Q) = 1 * Cardinality(NeedsOf(nd[x], n))
    BY ONLY <2>1, <2>2, FS_Product
  <2> QED BY <2>1, <2>3
<1>7. Cardinality(Places(nd[x], n)) \in Nat
  BY <1>0, PlacesCount
<1> HIDE DEF Q
<1>8. Cardinality(Needing(nd, n)) = Cardinality(Needing(md, n)) + Cardinality(Q) - Cardinality({})
  BY <1>3, <1>4, <1>5, <1>6, FS_Union
<1> QED BY <1>5, <1>6, <1>7, <1>8, FS_EmptySet DEF Needed

OneMore(nd, md, x, w) ==
    /\ nd \in [Name -> Seq(Name)] /\ md \in [Name -> Seq(Name)] /\ x \in Name /\ w \in Name
    /\ Len(md[x]) = Len(nd[x]) + 1 /\ md[x][Len(nd[x]) + 1] = w
    /\ \A k \in 1 .. Len(nd[x]) : md[x][k] = nd[x][k]
    /\ \A y \in Name \ {x} : md[y] = nd[y]

LEMMA NeedsAppended ==
  ASSUME NEW nd, NEW md, NEW x, NEW w, NEW n, OneMore(nd, md, x, w)
  PROVE  Needed(md, n) = Needed(nd, n) + IF w = n THEN 1 ELSE 0
<1> DEFINE e == <<x, Len(nd[x]) + 1>>
<1>0. nd \in [Name -> Seq(Name)] /\ x \in Name
  BY DEF OneMore
<1>1. \A y \in Name \ {x} : md[y] = nd[y]
  BY DEF OneMore
<1>2. /\ Len(nd[x]) \in Nat /\ DOMAIN nd[x] = 1 .. Len(nd[x])
      /\ DOMAIN md[x] = 1 .. Len(nd[x]) + 1
      /\ md[x][Len(nd[x]) + 1] = w /\ \A k \in 1 .. Len(nd[x]) : md[x][k] = nd[x][k]
  BY LenProperties DEF OneMore
<1>3. NeedsOf(md[x], n) = NeedsOf(nd[x], n) \cup {k \in {Len(nd[x]) + 1} : w = n}
  <2>1. 1 .. Len(nd[x]) + 1 = (1 .. Len(nd[x])) \cup {Len(nd[x]) + 1}
    BY <1>2
  <2>2. NeedsOf(md[x], n) = {k \in 1 .. Len(nd[x]) : md[x][k] = n} \cup {k \in {Len(nd[x]) + 1} : md[x][k] = n}
    BY <1>2, <2>1 DEF NeedsOf
  <2>3. NeedsOf(nd[x], n) = {k \in 1 .. Len(nd[x]) : md[x][k] = n}
    BY <1>2 DEF NeedsOf
  <2> QED BY <1>2, <2>2, <2>3
<1>4. Len(nd[x]) + 1 \notin NeedsOf(nd[x], n)
  BY <1>2 DEF NeedsOf
<1>5. e \notin Needing(nd, n)
  BY <1>4 DEF Needing
<1>6. Needing(md, n) = IF w = n THEN Needing(nd, n) \cup {e} ELSE Needing(nd, n)
  <2>1. \A y \in Name \ {x} : NeedsOf(md[y], n) = NeedsOf(nd[y], n)
    BY <1>1
  <2>2. CASE w = n
    <3>1. NeedsOf(md[x], n) = NeedsOf(nd[x], n) \cup {Len(nd[x]) + 1}
      BY <2>2, <1>3
    <3>2. ASSUME NEW z PROVE z \in Needing(md, n) <=> z \in Needing(nd, n) \cup {e}
      <4>1. z \in Needing(nd, n) <=> \E y \in Name : \E k \in NeedsOf(nd[y], n) : z = <<y, k>>
        BY InNeeding
      <4>2. z \in Needing(md, n) <=> \E y \in Name : \E k \in NeedsOf(md[y], n) : z = <<y, k>>
        BY InNeeding
      <4> QED BY <4>1, <4>2, <2>1, <3>1, <1>0
    <3> QED BY <2>2, <3>2
  <2>3. CASE w # n
    <3>1. NeedsOf(md[x], n) = NeedsOf(nd[x], n)
      BY <2>3, <1>3
    <3> QED BY <2>1, <2>3, <3>1 DEF Needing
  <2> QED BY <2>2, <2>3
<1>7. IsFiniteSet(Needing(nd, n)) /\ Cardinality(Needing(nd, n)) \in Nat
  BY <1>0, NeedsCount DEF Needed
<1> HIDE DEF e
<1>8. CASE w = n
  <2>1. Cardinality(Needing(md, n)) = Cardinality(Needing(nd, n)) + 1
    BY <1>5, <1>6, <1>7, <1>8, FS_AddElement
  <2> QED BY <2>1, <1>8 DEF Needed
<1>9. CASE w # n
  BY <1>6, <1>7, <1>9 DEF Needed
<1> QED BY <1>8, <1>9

-----------------------------------------------------------------------------
(* The running frame and those under it                                    *)

LEMMA NewFrame ==
  ASSUME NEW op \in Ops, NEW n \in Name
  PROVE  /\ Frame(op, n, 0, <<>>) \in FrameSet
         /\ Frame(op, n, 0, <<>>).op = op /\ Frame(op, n, 0, <<>>).so = n
         /\ Frame(op, n, 0, <<>>).i = 0 /\ Frame(op, n, 0, <<>>).deps = <<>>
BY DEF Frame, FrameSet

LEMMA FrameAt ==
  ASSUME NEW t \in FrameSet, NEW j \in Nat
  PROVE  LET f == [t EXCEPT !.i = j] IN
         f \in FrameSet /\ f.op = t.op /\ f.so = t.so /\ f.i = j /\ f.deps = t.deps
BY DEF FrameSet

LEMMA FrameOwes ==
  ASSUME NEW t \in FrameSet, NEW q \in Seq(Name)
  PROVE  LET f == [t EXCEPT !.deps = q] IN
         f \in FrameSet /\ f.op = t.op /\ f.so = t.so /\ f.i = t.i /\ f.deps = q
BY DEF FrameSet

LEMMA FrameFields ==
  ASSUME NEW t \in FrameSet
  PROVE  t.op \in Ops /\ t.so \in Name /\ t.i \in Nat /\ t.deps \in Seq(Name)
BY DEF FrameSet

Split(s, t) ==
    /\ s \in Seq(FrameSet) /\ t \in FrameSet
    /\ stack = <<t>> \o s /\ stack # <<>> /\ Top = t /\ Head(stack) = t /\ Tail(stack) = s
    /\ Shape(s) /\ Fits(t) /\ Answer(t, ret)
    /\ IF s = <<>> THEN t.op \in {"open", "close"} ELSE Calls(Head(s), t)
    /\ \A g \in FramesOf(s) : Under(g, t)

LEMMA Splits ==
  ASSUME LinkInv, stack # <<>>
  PROVE  \E s, t : Split(s, t)
<1>1. stack \in Seq(FrameSet)
  BY DEF LinkInv, LinkTypes
<1>2. Head(stack) \in FrameSet /\ Tail(stack) \in Seq(FrameSet) /\ stack = <<Head(stack)>> \o Tail(stack)
  BY <1>1, Popped
<1>3. PICK s, t : s = Tail(stack) /\ t = Head(stack)
  OBVIOUS
<1>4. Shape(<<t>> \o s) /\ s \in Seq(FrameSet) /\ t \in FrameSet
  BY <1>2, <1>3 DEF LinkInv
<1>5. /\ Shape(s) /\ Fits(t)
      /\ IF s = <<>> THEN t.op \in {"open", "close"} ELSE Calls(Head(s), t)
      /\ \A g \in FramesOf(s) : Under(g, t)
  BY <1>4, ShapePops
<1>6. Answer(t, ret)
  BY <1>3 DEF LinkInv, Answers
<1>7. Split(s, t)
  BY <1>2, <1>3, <1>4, <1>5, <1>6 DEF Split, Top
<1> QED BY <1>7

(* No object and no entry of the list changes.                             *)
Quiet == UNCHANGED <<objectVars, listVars>> /\ failed' \in {failed, failed + 1}

LEMMA QuietSame ==
  ASSUME LinkTypes, Quiet
  PROVE  /\ solist' = solist /\ somain' = somain /\ alive' = alive /\ ref' = ref /\ linked' = linked
         /\ called' = called /\ needed' = needed /\ ready' = ready /\ failed' \in Nat
         /\ (Live' => Live) /\ (ListIsLive' <=> ListIsLive) /\ (failed' = 0 => failed = 0)
         /\ \A f : Fits(f) => Fits(f)'
         /\ \A f, g : Calls(f, g) => Calls(f, g)'
         /\ \A f, g : Under(f, g) => Under(f, g)'
         /\ \A m, n : Before(m, n)' <=> Before(m, n)
<1>1. /\ solist' = solist /\ somain' = somain /\ alive' = alive /\ ref' = ref /\ linked' = linked
      /\ called' = called /\ needed' = needed /\ ready' = ready
  BY DEF Quiet, objectVars, listVars
<1>2. failed' \in Nat /\ (failed' = 0 => failed = 0)
  BY DEF Quiet, LinkTypes
<1>3. ListIsLive' <=> ListIsLive
  BY <1>1 DEF ListIsLive
<1>4. Live' => Live
  BY <1>2, <1>3 DEF Live
<1>5. \A f : Fits(f) => Fits(f)'
  BY <1>1, <1>4 DEF Fits
<1>6. \A f, g : Calls(f, g) => Calls(f, g)'
  BY <1>1 DEF Calls
<1>7. \A m, n : Before(m, n)' <=> Before(m, n)
  BY <1>1 DEF Before
<1>8. \A f, g : Under(f, g) => Under(f, g)'
  BY <1>7 DEF Under
<1> QED BY <1>1, <1>2, <1>3, <1>4, <1>5, <1>6, <1>7, <1>8

LEMMA QuietShape ==
  ASSUME LinkTypes, Quiet, NEW s \in Seq(FrameSet), Shape(s)
  PROVE  Shape(s)'
BY QuietSame, ShapeStays

(* What a quiet step has to keep of the rest.                              *)
LEMMA QuietKeeps ==
  ASSUME LinkInv, Quiet, stack' \in Seq(FrameSet), ret' \in Rets, held' \in [Lib -> Nat],
         Shape(stack)', Answers',
         \A n : LinkingIn(stack, n)' <=> LinkingIn(stack, n),
         failed' = 0 => \A n \in called : n \in ready \/ BegunIn(stack, n)',
         failed' = 0 => \A n \in Lib : Promised(stack, ret, n) => n \in called \/ Promised(stack, ret, n)',
         \A n \in Lib : Rest(n)' <= Rest(n) /\ (failed' = 0 => Rest(n)' = Rest(n)),
         \A n \in Lib : Rest(n)' \in Nat /\ Rest(n) \in Nat
  PROVE  LinkInv'
<1>1. /\ solist' = solist /\ somain' = somain /\ alive' = alive /\ ref' = ref /\ linked' = linked
      /\ called' = called /\ needed' = needed /\ ready' = ready /\ failed' \in Nat
      /\ (Live' => Live) /\ (ListIsLive' <=> ListIsLive) /\ (failed' = 0 => failed = 0)
      /\ \A m, n : Before(m, n)' <=> Before(m, n)
  BY QuietSame DEF LinkInv
<1>2. LinkTypes'
  BY <1>1 DEF LinkInv, LinkTypes
<1>3. Objects'
  BY <1>1 DEF LinkInv, Objects
<1>4. OnList'
  BY <1>1 DEF LinkInv, OnList
<1>5. Constructors'
  <2>1. \A n : Loader(n) => Loader(n)'
    BY <1>1 DEF Loader
  <2>2. Live' => \A n \in (Lib \cap linked) \ called : Loader(n)' \/ Promised(stack, ret, n)'
    <3> SUFFICES ASSUME Live', NEW n \in (Lib \cap linked) \ called
                 PROVE  Loader(n)' \/ Promised(stack, ret, n)'
      OBVIOUS
    <3>1. Loader(n) \/ Promised(stack, ret, n)
      BY <1>1 DEF LinkInv, Constructors
    <3>2. failed' = 0
      BY DEF Live
    <3> QED BY <2>1, <3>1, <3>2
  <2> QED BY <1>1, <2>2 DEF Constructors
<1>6. Counts'
  <2>1. \A n \in Lib : Needed(needed, n) \in Nat /\ ref[n] \in Nat
    BY NeedsCount, NamesFinite DEF LinkInv, LinkTypes
  <2>2. \A n \in Lib : Total(n) = Needed(needed, n) + Rest(n) /\ Total(n)' = Needed(needed, n) + Rest(n)'
    BY <1>1 DEF Total
  <2> QED BY <1>1, <2>1, <2>2 DEF LinkInv, Counts
<1> QED BY <1>2, <1>3, <1>4, <1>5, <1>6 DEF LinkInv

LEMMA QuietBegun ==
  ASSUME LinkInv, Quiet, \A n : BegunIn(stack, n) => BegunIn(stack, n)'
  PROVE  failed' = 0 => \A n \in called : n \in ready \/ BegunIn(stack, n)'
<1>1. failed' = 0 => failed = 0
  BY QuietSame DEF LinkInv
<1>2. failed = 0 => \A n \in called : n \in ready \/ BegunIn(stack, n)
  BY DEF LinkInv, Constructors
<1> QED BY <1>1, <1>2

LEMMA Weighs ==
  ASSUME NEW s, NEW t, Split(s, t), NEW n
  PROVE  /\ Weight(stack, n) = Weight(s, n) + Load(t, n)
         /\ Weight(s, n) \in Nat /\ Load(t, n) \in Nat
         /\ t.op \notin {"release", "undo"} => Load(t, n) = IF Owns(t, n) THEN 1 ELSE 0
<1>1. s \in Seq(FrameSet) /\ t \in FrameSet /\ stack = <<t>> \o s /\ Fits(t)
  BY DEF Split
<1>2. t.op \notin {"release", "undo"} => t.deps = <<>>
  BY <1>1 DEF Fits
<1> QED BY <1>1, <1>2, WeightPushed, Loads

LEMMA RestIs ==
  ASSUME LinkInv, NEW n \in Lib
  PROVE  /\ held[n] \in Nat /\ ref[n] \in Nat /\ Weight(stack, n) \in Nat
         /\ Carried(stack, ret, n) \in {0, 1}
         /\ Rest(n) = held[n] + Weight(stack, n) + Carried(stack, ret, n)
         /\ Needed(needed, n) \in Nat /\ Total(n) = Needed(needed, n) + Rest(n) /\ Total(n) <= ref[n]
         /\ failed = 0 => Total(n) = ref[n]
<1>1. held[n] \in Nat /\ ref[n] \in Nat /\ stack \in Seq(FrameSet) /\ needed \in [Name -> Seq(Name)]
  BY NamesFinite DEF LinkInv, LinkTypes
<1>2. Weight(stack, n) \in Nat /\ Needed(needed, n) \in Nat
  BY <1>1, WeightPushed, NeedsCount
<1> QED BY <1>1, <1>2 DEF Rest, Total, Carried, LinkInv, Counts

(* A function returns and leaves the objects alone.                        *)
LEMMA QuietReturns ==
  ASSUME LinkInv, Quiet, NEW s, NEW t, Split(s, t), stack' = s,
         ret' \in {"none", "null", "ok", "err"}, held' \in [Lib -> Nat],
         t.op # "link", t.op = "ctor" => t.i = 0,
         Answers',
         ret = "found" => t.op = "open" /\ t.so \in Host,
         failed' = 0 /\ t.op = "open" /\ t.i = 1 => t.so \in called,
         \A n \in Lib :
           /\ held'[n] + Carried(stack, ret, n)' <= held[n] + Load(t, n) + Carried(stack, ret, n)
           /\ failed' = 0 => held'[n] + Carried(stack, ret, n)' = held[n] + Load(t, n) + Carried(stack, ret, n)
  PROVE  LinkInv'
<1>1. s \in Seq(FrameSet) /\ t \in FrameSet /\ stack = <<t>> \o s /\ Shape(s) /\ Head(stack) = t
  BY DEF Split
<1>2. Shape(stack)'
  BY <1>1, QuietShape DEF LinkInv
<1>3. Answers'
  OBVIOUS
<1>4. /\ \A n : LinkingIn(stack, n) <=> LinkingIn(s, n)
      /\ \A n : OpenedIn(stack, n) <=> (t.op = "open" /\ t.i = 1 /\ t.so = n) \/ OpenedIn(s, n)
      /\ \A n : BegunIn(stack, n) <=> BegunIn(s, n)
  BY <1>1, PushedFrames
<1>5. \A n : /\ LinkingIn(stack, n)' <=> LinkingIn(s, n)
             /\ OpenedIn(stack, n)' <=> OpenedIn(s, n)
             /\ BegunIn(stack, n)' <=> BegunIn(s, n)
  BY DEF LinkingIn, OpenedIn, BegunIn
<1>6. failed' = 0 => \A n \in called : n \in ready \/ BegunIn(stack, n)'
  BY <1>4, <1>5, QuietSame DEF LinkInv, Constructors
<1>7. failed' = 0 => \A n \in Lib : Promised(stack, ret, n) => n \in called \/ Promised(stack, ret, n)'
  <2> SUFFICES ASSUME failed' = 0, NEW n \in Lib, Promised(stack, ret, n)
               PROVE  n \in called \/ Promised(stack, ret, n)'
    OBVIOUS
  <2>1. CASE OpenedIn(stack, n)
    BY <2>1, <1>4, <1>5 DEF Promised
  <2>2. CASE ret = "found" /\ Wants(Head(stack), n)
    <3>1. n = t.so /\ n \in Host
      BY <2>2, <1>1 DEF Wants
    <3> QED BY <3>1, NamesFinite
  <2> QED BY <2>1, <2>2 DEF Promised
<1>8. \A n \in Lib : /\ Rest(n)' <= Rest(n) /\ (failed' = 0 => Rest(n)' = Rest(n))
                     /\ Rest(n)' \in Nat /\ Rest(n) \in Nat
  <2> TAKE n \in Lib
  <2>1. Weight(stack, n) = Weight(s, n) + Load(t, n) /\ Weight(s, n) \in Nat /\ Load(t, n) \in Nat
    BY Weighs
  <2>2. Carried(stack, ret, n) \in {0, 1} /\ Carried(stack, ret, n)' \in {0, 1}
    BY DEF Carried
  <2>3. /\ Rest(n) = held[n] + Weight(stack, n) + Carried(stack, ret, n)
        /\ Rest(n)' = held'[n] + Weight(s, n) + Carried(stack, ret, n)'
    BY DEF Rest, Weight
  <2>4. held[n] \in Nat /\ held'[n] \in Nat
    BY DEF LinkInv, LinkTypes
  <2>5. /\ held'[n] + Carried(stack, ret, n)' <= held[n] + Load(t, n) + Carried(stack, ret, n)
        /\ failed' = 0 => held'[n] + Carried(stack, ret, n)' = held[n] + Load(t, n) + Carried(stack, ret, n)
    OBVIOUS
  <2>6. Carried(stack, ret, n) \in Nat /\ Carried(stack, ret, n)' \in Nat
    BY <2>2
  <2>7. Rest(n) \in Nat /\ Rest(n)' \in Nat
    BY <2>1, <2>3, <2>4, <2>6
  <2>8. Rest(n)' <= Rest(n)
    BY <2>1, <2>3, <2>4, <2>5, <2>6
  <2>9. failed' = 0 => Rest(n)' = Rest(n)
    BY <2>1, <2>3, <2>4, <2>5, <2>6
  <2> QED BY <2>7, <2>8, <2>9
<1> QED BY <1>1, <1>2, <1>3, <1>4, <1>5, <1>6, <1>7, <1>8, QuietKeeps DEF Rets

LEMMA NothingCarried ==
  /\ \A s, n : Carried(s, "none", n) = 0 /\ Carried(s, "null", n) = 0 /\ Carried(s, "ok", n) = 0
  /\ \A s, n : Head(s).op # "close" => Carried(s, "err", n) = 0
  /\ ret' \in {"none", "null", "ok"} => \A n : Carried(stack, ret, n)' = 0
  /\ ret' = "err" /\ Head(stack').op # "close" => \A n : Carried(stack, ret, n)' = 0
BY DEF Carried

(* A constructor answers whoever asked for it.                             *)
LEMMA CtorAnswers ==
  ASSUME NEW s, NEW t, Split(s, t), t.op = "ctor", needed' = needed, t.so \in called'
  PROVE  s # <<>> /\ Head(s).op \in {"open", "ctor"} /\ Answer(Head(s), "ok")'
<1>1. s # <<>> /\ Calls(Head(s), t)
  BY DEF Split
<1>2. \/ Head(s).op = "open" /\ Head(s).i = 1 /\ Head(s).so = t.so
      \/ Head(s).op = "ctor" /\ Head(s).i \in 1 .. Len(needed[Head(s).so]) /\ needed[Head(s).so][Head(s).i] = t.so
  BY <1>1 DEF Calls
<1>3. CASE Head(s).op = "open"
  BY <1>1, <1>2, <1>3 DEF Answer
<1>4. CASE Head(s).op = "ctor"
  BY <1>1, <1>2, <1>4 DEF Answer
<1> QED BY <1>1, <1>2, <1>3, <1>4

LEMMA QuietIs ==
  /\ UNCHANGED <<objectVars, listVars, guestVars, broken>> => Quiet /\ held' = held /\ failed' = failed
  /\ UNCHANGED <<objectVars, listVars, calls, failed, broken>> => Quiet /\ failed' = failed
  /\ UNCHANGED <<objectVars, listVars, held, failed, broken>> => Quiet /\ held' = held /\ failed' = failed
  /\ UNCHANGED <<objectVars, listVars, ret, failed, broken>> => Quiet /\ ret' = ret /\ failed' = failed
  /\ UNCHANGED <<objectVars, listVars, stack, guestVars, broken>> => Quiet /\ stack' = stack /\ held' = held /\ failed' = failed
  /\ UNCHANGED <<objectVars, listVars, stack, guestVars>> => Quiet /\ stack' = stack /\ held' = held /\ failed' = failed
  /\ UNCHANGED <<objectVars, listVars, held, calls, broken>> /\ failed' = failed + 1 => Quiet /\ held' = held
  /\ UNCHANGED <<objectVars, listVars, ret, guestVars, broken>> => Quiet /\ ret' = ret /\ held' = held /\ failed' = failed
BY DEF Quiet, guestVars

LEMMA DlopenNotFoundKeeps ==
  ASSUME LinkInv, DlopenNotFound
  PROVE  LinkInv'
<1>1. PICK s, t : Split(s, t)
  BY Splits DEF DlopenNotFound, Running
<1>2. t.op = "open" /\ t.i = 0 /\ ret = "null" /\ stack' = s /\ ret' = "none" /\ Quiet /\ held' = held
  BY <1>1, QuietIs DEF DlopenNotFound, Running, Split, Return
<1>3. Answers'
  BY <1>2 DEF Answers, Answer
<1>4. \A n \in Lib : Load(t, n) = 0 /\ Carried(stack, ret, n) = 0 /\ Carried(stack, ret, n)' = 0 /\ held[n] \in Nat
  BY <1>1, <1>2, Weighs, NothingCarried DEF Owns, LinkInv, LinkTypes
<1>5. held \in [Lib -> Nat]
  BY DEF LinkInv, LinkTypes
<1> QED BY <1>1, <1>2, <1>3, <1>4, <1>5, QuietReturns

LEMMA DlopenReturnsKeeps ==
  ASSUME LinkInv, DlopenReturns
  PROVE  LinkInv'
<1>1. PICK s, t : Split(s, t)
  BY Splits DEF DlopenReturns, Running
<1>2. /\ t.op = "open" /\ t.i = 1 /\ ret = "ok" /\ stack' = s /\ ret' = "none" /\ Quiet
      /\ held' = [held EXCEPT ![t.so] = @ + 1]
  BY <1>1, QuietIs DEF DlopenReturns, Running, Split, Return
<1>3. Answers'
  BY <1>2 DEF Answers, Answer
<1>4. t.so \in called /\ t.so \in Lib
  BY <1>1, <1>2 DEF Split, Answer, Fits
<1>5. held \in [Lib -> Nat] /\ held' \in [Lib -> Nat]
  BY <1>2, <1>4 DEF LinkInv, LinkTypes
<1>6. \A n \in Lib : /\ Load(t, n) = IF n = t.so THEN 1 ELSE 0
                     /\ Carried(stack, ret, n) = 0 /\ Carried(stack, ret, n)' = 0
                     /\ held[n] \in Nat /\ held'[n] = held[n] + IF n = t.so THEN 1 ELSE 0
  BY <1>1, <1>2, <1>4, <1>5, Weighs, NothingCarried DEF Owns
<1> QED BY <1>1, <1>2, <1>3, <1>4, <1>5, <1>6, QuietReturns

LEMMA DlopenFailsKeeps ==
  ASSUME LinkInv, DlopenFails
  PROVE  LinkInv'
<1>1. PICK s, t : Split(s, t)
  BY Splits DEF DlopenFails, Running
<1>2. /\ t.op = "open" /\ t.i = 1 /\ ret = "err" /\ stack' = s /\ ret' = "none" /\ Quiet /\ held' = held
      /\ failed' = failed
  BY <1>1, QuietIs DEF DlopenFails, Running, Split, Return
<1>3. Answers'
  BY <1>2 DEF Answers, Answer
<1>4. failed' # 0
  BY <1>1, <1>2 DEF Split, Answer
<1>5. held \in [Lib -> Nat]
  BY DEF LinkInv, LinkTypes
<1>6. \A n \in Lib : /\ Load(t, n) \in Nat /\ held[n] \in Nat
                     /\ Carried(stack, ret, n) \in {0, 1} /\ Carried(stack, ret, n)' = 0
  BY <1>1, <1>2, <1>5, Weighs, NothingCarried, RestIs
<1> QED BY <1>1, <1>2, <1>3, <1>4, <1>5, <1>6, QuietReturns

LEMMA CtorAlreadyKeeps ==
  ASSUME LinkInv, CtorAlready
  PROVE  LinkInv'
<1>1. PICK s, t : Split(s, t)
  BY Splits DEF CtorAlready, Running
<1>2. /\ t.op = "ctor" /\ t.i = 0 /\ ret = "none" /\ stack' = s /\ ret' = "ok" /\ Quiet /\ held' = held
      /\ t.so \in called
  BY <1>1, QuietIs DEF CtorAlready, Running, Split, Return
<1>3. needed' = needed /\ called' = called
  BY <1>2, QuietSame DEF LinkInv
<1>4. Answers'
  BY <1>1, <1>2, <1>3, CtorAnswers DEF Answers
<1>5. \A n \in Lib : Load(t, n) = 0 /\ Carried(stack, ret, n) = 0 /\ Carried(stack, ret, n)' = 0 /\ held[n] \in Nat
  BY <1>1, <1>2, Weighs, NothingCarried DEF Owns, LinkInv, LinkTypes
<1>6. held \in [Lib -> Nat]
  BY DEF LinkInv, LinkTypes
<1> QED BY <1>1, <1>2, <1>4, <1>5, <1>6, QuietReturns

(* A function calls another one and leaves the objects alone.              *)
LEMMA Twice ==
  ASSUME NEW s \in Seq(FrameSet), NEW a \in FrameSet, NEW b \in FrameSet
  PROVE  <<a, b>> \o s = <<a>> \o (<<b>> \o s)
<1>1. <<a>> \in Seq(FrameSet) /\ <<b>> \in Seq(FrameSet)
  OBVIOUS
<1>2. <<a>> \o <<b>> = <<a, b>>
  <2>1. /\ <<a>> \o <<b>> \in Seq(FrameSet) /\ Len(<<a>> \o <<b>>) = 2
        /\ \A k \in 1 .. 2 : (<<a>> \o <<b>>)[k] = IF k <= 1 THEN a ELSE b
    <3>1. Len(<<a>>) = 1 /\ Len(<<b>>) = 1 /\ <<a>>[1] = a /\ <<b>>[1] = b
      OBVIOUS
    <3>2. /\ <<a>> \o <<b>> \in Seq(FrameSet) /\ Len(<<a>> \o <<b>>) = 1 + 1
          /\ \A k \in 1 .. 1 + 1 : (<<a>> \o <<b>>)[k] = IF k <= 1 THEN <<a>>[k] ELSE <<b>>[k - 1]
      BY <1>1, <3>1, ConcatProperties
    <3> QED BY <3>1, <3>2
  <2>2. <<a, b>> \in Seq(FrameSet) /\ Len(<<a, b>>) = 2 /\ <<a, b>>[1] = a /\ <<a, b>>[2] = b
    OBVIOUS
  <2>3. \A k \in 1 .. 2 : (<<a>> \o <<b>>)[k] = <<a, b>>[k]
    BY <2>1, <2>2
  <2> QED BY <2>1, <2>2, <2>3, SeqEqual
<1>3. (<<a>> \o <<b>>) \o s = <<a>> \o (<<b>> \o s)
  BY <1>1, ConcatAssociative
<1> QED BY <1>2, <1>3

LEMMA NothingOwed ==
  ASSUME NEW s, NEW t, Split(s, t), t.op \notin Closing \cup {"undo"}
  PROVE  \A g \in FramesOf(s) : g.op \notin Closing \cup {"undo"}
BY DEF Split, Under, Closing

LEMMA QuietPushes ==
  ASSUME LinkInv, Quiet, ret = "none", ret' = "none", held' = held,
         NEW f \in FrameSet, stack' = <<f>> \o stack, f.op # "link", Fits(f),
         IF stack = <<>> THEN f.op \in {"open", "close"} ELSE Calls(Head(stack), f),
         f.op \in Closing \/ \A g \in FramesOf(stack) : g.op \notin Closing \cup {"undo"},
         \A n \in Lib : ~Owns(f, n), f.deps = <<>>
  PROVE  LinkInv'
<1>1. stack \in Seq(FrameSet) /\ Shape(stack)
  BY DEF LinkInv, LinkTypes
<1>2. PICK s : s = stack
  OBVIOUS
<1>3. s \in Seq(FrameSet) /\ Shape(s) /\ stack' = <<f>> \o s
  BY <1>1, <1>2
<1>4. Shape(s)'
  BY <1>3, QuietShape DEF LinkInv
<1>5. Fits(f)' /\ (IF s = <<>> THEN f.op \in {"open", "close"} ELSE Calls(Head(s), f)')
  BY <1>2, QuietSame DEF LinkInv
<1>6. \A g \in FramesOf(s) : Under(g, f)'
  BY <1>2 DEF Under
<1>7. Shape(stack)' /\ stack' \in Seq(FrameSet)
  <2>1. Shape(<<f>> \o s)'
    BY <1>3, <1>4, <1>5, <1>6, ShapePushes
  <2> QED BY <1>3, <2>1, Pushed
<1>8. Answers'
  <2>1. stack' # <<>>
    BY <1>3, Pushed
  <2> QED BY <2>1 DEF Answers, Answer
<1>9. \A n : /\ LinkingIn(stack, n)' <=> LinkingIn(stack, n)
             /\ OpenedIn(stack, n) => OpenedIn(stack, n)'
             /\ BegunIn(stack, n) => BegunIn(stack, n)'
  BY <1>2, <1>3, PushedFrames
<1>10. failed' = 0 => \A n \in called : n \in ready \/ BegunIn(stack, n)'
  BY <1>9, QuietSame DEF LinkInv, Constructors
<1>11. \A n \in Lib : Promised(stack, ret, n) => Promised(stack, ret, n)'
  BY <1>9 DEF Promised
<1>12. \A n \in Lib : Rest(n)' = Rest(n) /\ Rest(n) \in Nat
  <2> TAKE n \in Lib
  <2>1. Load(f, n) = 0 /\ Weight(s, n) \in Nat /\ Weight(<<f>> \o s, n) = Weight(s, n) + Load(f, n)
    BY <1>3, WeightPushed, Loads
  <2>2. Carried(stack, ret, n) = 0 /\ Carried(stack, ret, n)' = 0
    BY DEF Carried
  <2>3. Rest(n) = held[n] + Weight(s, n) + 0 /\ Rest(n)' = held[n] + Weight(s, n) + 0 /\ held[n] \in Nat
    BY <1>2, <1>3, <2>1, <2>2 DEF Rest, Weight, LinkInv, LinkTypes
  <2> QED BY <2>1, <2>3
<1>13. held' \in [Lib -> Nat] /\ ret' \in Rets
  BY DEF LinkInv, LinkTypes, Rets
<1>14. \A n \in Lib : /\ Rest(n)' <= Rest(n) /\ (failed' = 0 => Rest(n)' = Rest(n))
                      /\ Rest(n)' \in Nat /\ Rest(n) \in Nat
  BY <1>12
<1> QED BY <1>7, <1>8, <1>9, <1>10, <1>11, <1>13, <1>14, QuietKeeps

LEMMA QuietTwo ==
  ASSUME LinkInv, Quiet, NEW s \in Seq(FrameSet), Shape(s), NEW f \in FrameSet, NEW u \in FrameSet,
         stack' = <<f>> \o (<<u>> \o s), Fits(u), Fits(f), Calls(u, f), Under(u, f),
         IF s = <<>> THEN u.op \in {"open", "close"} ELSE Calls(Head(s), u),
         \A g \in FramesOf(s) : Under(g, u) /\ Under(g, f)
  PROVE  /\ Shape(stack)' /\ stack' \in Seq(FrameSet) /\ stack' # <<>> /\ Head(stack') = f
         /\ \A n : /\ LinkingIn(stack, n)' <=> \/ f.op = "link" /\ f.so = n
                                               \/ u.op = "link" /\ u.so = n
                                               \/ LinkingIn(s, n)
                   /\ OpenedIn(stack, n)' <=> \/ f.op = "open" /\ f.i = 1 /\ f.so = n
                                              \/ u.op = "open" /\ u.i = 1 /\ u.so = n
                                              \/ OpenedIn(s, n)
                   /\ BegunIn(stack, n)' <=> \/ f.op = "ctor" /\ f.i # 0 /\ f.so = n
                                             \/ u.op = "ctor" /\ u.i # 0 /\ u.so = n
                                             \/ BegunIn(s, n)
                   /\ Weight(stack, n)' = Weight(s, n) + Load(u, n) + Load(f, n)
                   /\ Weight(s, n) \in Nat /\ Load(u, n) \in Nat /\ Load(f, n) \in Nat
<1> DEFINE r == <<u>> \o s
<1>1. r \in Seq(FrameSet) /\ r # <<>> /\ Head(r) = u
  BY Pushed
<1>2. Shape(s)' /\ Fits(u)' /\ Fits(f)' /\ Calls(u, f)' /\ Under(u, f)'
  BY QuietSame, QuietShape DEF LinkInv
<1>3. IF s = <<>> THEN u.op \in {"open", "close"} ELSE Calls(Head(s), u)'
  BY QuietSame DEF LinkInv
<1>4. \A g \in FramesOf(s) : Under(g, u)' /\ Under(g, f)'
  BY QuietSame DEF LinkInv
<1>5. Shape(r)'
  BY <1>2, <1>3, <1>4, ShapePushes
<1>6. FramesOf(r) = {u} \cup FramesOf(s)
  BY PushedFrames
<1>7. \A n : /\ LinkingIn(r, n) <=> (u.op = "link" /\ u.so = n) \/ LinkingIn(s, n)
             /\ OpenedIn(r, n) <=> (u.op = "open" /\ u.i = 1 /\ u.so = n) \/ OpenedIn(s, n)
             /\ BegunIn(r, n) <=> (u.op = "ctor" /\ u.i # 0 /\ u.so = n) \/ BegunIn(s, n)
             /\ Weight(r, n) = Weight(s, n) + Load(u, n) /\ Weight(s, n) \in Nat
             /\ Load(u, n) \in Nat /\ Load(f, n) \in Nat
  BY PushedFrames, WeightPushed, Loads
<1>8. stack' = <<f>> \o r
  OBVIOUS
<1> HIDE DEF r
<1>9. \A g \in FramesOf(r) : Under(g, f)'
  BY <1>2, <1>4, <1>6
<1>10. Calls(Head(r), f)'
  BY <1>1, <1>2
<1>11. Shape(<<f>> \o r)'
  BY <1>1, <1>2, <1>5, <1>9, <1>10, ShapePushes
<1>12. \A n : /\ LinkingIn(<<f>> \o r, n) <=> (f.op = "link" /\ f.so = n) \/ LinkingIn(r, n)
              /\ OpenedIn(<<f>> \o r, n) <=> (f.op = "open" /\ f.i = 1 /\ f.so = n) \/ OpenedIn(r, n)
              /\ BegunIn(<<f>> \o r, n) <=> (f.op = "ctor" /\ f.i # 0 /\ f.so = n) \/ BegunIn(r, n)
              /\ Weight(<<f>> \o r, n) = Weight(r, n) + Load(f, n)
  BY <1>1, PushedFrames, WeightPushed
<1>13. /\ <<f>> \o r \in Seq(FrameSet) /\ <<f>> \o r # <<>> /\ Head(<<f>> \o r) = f
  BY <1>1, Pushed
<1>14. \A n : /\ LinkingIn(stack, n)' <=> LinkingIn(<<f>> \o r, n)
              /\ OpenedIn(stack, n)' <=> OpenedIn(<<f>> \o r, n)
              /\ BegunIn(stack, n)' <=> BegunIn(<<f>> \o r, n)
              /\ Weight(stack, n)' = Weight(<<f>> \o r, n)
  BY <1>8 DEF LinkingIn, OpenedIn, BegunIn, Weight
<1> QED BY <1>7, <1>8, <1>11, <1>12, <1>13, <1>14

LEMMA DlopenKeeps ==
  ASSUME LinkInv, NEW n \in Name, Dlopen(n)
  PROVE  LinkInv'
<1> DEFINE f == Frame("open", n, 0, <<>>)
<1>1. /\ ret = "none" /\ ret' = "none" /\ stack' = <<f>> \o stack /\ Quiet /\ held' = held
      /\ stack = <<>> \/ Top.op = "init"
  BY QuietIs DEF Dlopen, GuestTurn, Running, Push
<1>2. f \in FrameSet /\ f.op = "open" /\ f.so = n /\ f.i = 0 /\ f.deps = <<>>
  BY NewFrame DEF Ops
<1> HIDE DEF f
<1>3. Fits(f) /\ \A m \in Lib : ~Owns(f, m)
  BY <1>2 DEF Fits, Owns
<1>4. /\ IF stack = <<>> THEN f.op \in {"open", "close"} ELSE Calls(Head(stack), f)
      /\ \A g \in FramesOf(stack) : g.op \notin Closing \cup {"undo"}
  <2>1. CASE stack = <<>>
    BY <2>1, <1>2, PushedFrames DEF LinkInv, LinkTypes
  <2>2. CASE stack # <<>>
    <3>1. PICK s, t : Split(s, t)
      BY <2>2, Splits
    <3>2. t.op = "init" /\ Head(stack) = t /\ s \in Seq(FrameSet) /\ t \in FrameSet /\ stack = <<t>> \o s
      BY <1>1, <2>2, <3>1 DEF Split
    <3>3. \A g \in FramesOf(s) : g.op \notin Closing \cup {"undo"}
      BY <3>1, <3>2, NothingOwed DEF Closing
    <3>4. FramesOf(stack) = {t} \cup FramesOf(s)
      BY <3>2, PushedFrames
    <3> QED BY <1>2, <2>2, <3>2, <3>3, <3>4 DEF Calls, Closing
  <2> QED BY <2>1, <2>2
<1> QED BY <1>1, <1>2, <1>3, <1>4, QuietPushes

LEMMA DlopenFoundKeeps ==
  ASSUME LinkInv, DlopenFound
  PROVE  LinkInv'
<1>1. PICK s, t : Split(s, t)
  BY Splits DEF DlopenFound, Running
<1>2. t.op = "open" /\ t.i = 0 /\ ret = "found" /\ ret' = "none" /\ Quiet /\ held' = held
  BY <1>1, QuietIs DEF DlopenFound, Running, Split, Return
<1>3. t \in FrameSet /\ s \in Seq(FrameSet) /\ Shape(s) /\ t.so \in Name /\ Fits(t) /\ Head(stack) = t /\ stack = <<t>> \o s
  BY <1>1, FrameFields DEF Split
<1>4. held \in [Lib -> Nat] /\ t.so \in linked /\ t.deps = <<>>
  BY <1>1, <1>2, <1>3 DEF LinkInv, LinkTypes, Split, Answer, Wants, Fits
<1>5. CASE t.so \in Host
  <2>1. stack' = s
    BY <1>1, <1>2, <1>5 DEF DlopenFound, Split, Return
  <2>2. Answers'
    BY <1>2, <2>1 DEF Answers, Answer
  <2>3. \A n \in Lib : Load(t, n) = 0 /\ Carried(stack, ret, n) = 0 /\ Carried(stack, ret, n)' = 0 /\ held[n] \in Nat
    <3> TAKE n \in Lib
    <3>1. n # t.so
      BY <1>5, NamesFinite
    <3>2. Carried(stack, ret, n) = 0
      BY <1>2, <1>3, <3>1 DEF Carried, Wants
    <3> QED BY <1>1, <1>2, <1>4, <3>2, Weighs, NothingCarried DEF Owns
  <2> QED BY <1>1, <1>2, <1>4, <1>5, <2>1, <2>2, <2>3, QuietReturns
<1>6. CASE t.so \notin Host
  <2> DEFINE u == [t EXCEPT !.i = 1]
             f == Frame("ctor", t.so, 0, <<>>)
  <2>1. u \in FrameSet /\ u.op = "open" /\ u.so = t.so /\ u.i = 1 /\ u.deps = <<>>
    BY <1>2, <1>3, <1>4 DEF FrameSet
  <2>2. f \in FrameSet /\ f.op = "ctor" /\ f.so = t.so /\ f.i = 0 /\ f.deps = <<>>
    BY <1>3, NewFrame DEF Ops
  <2>3. stack' = <<f, u>> \o s
    BY <1>1, <1>2, <1>6 DEF DlopenFound, Split
  <2> HIDE DEF u, f
  <2>4. stack' = <<f>> \o (<<u>> \o s)
    BY <1>3, <2>1, <2>2, <2>3, Twice
  <2>5. t.so \in Lib
    BY <1>3, <1>6 DEF Name
  <2>6. Fits(u) /\ Fits(f) /\ Calls(u, f) /\ Under(u, f)
    <3>1. Len(needed[t.so]) \in Nat
      BY <1>3 DEF LinkInv, LinkTypes
    <3>2. Fits(u)
      BY <1>4, <2>1, <2>5 DEF Fits
    <3>3. Fits(f)
      BY <1>4, <2>2, <3>1 DEF Fits
    <3> QED BY <2>1, <2>2, <3>2, <3>3 DEF Calls, Under, Closing
  <2>7. IF s = <<>> THEN u.op \in {"open", "close"} ELSE Calls(Head(s), u)
    BY <1>1, <1>2, <2>1 DEF Split, Calls
  <2>8. \A g \in FramesOf(s) : Under(g, u) /\ Under(g, f)
    BY <1>1, <1>2, <2>1, <2>2, NothingOwed DEF Under, Closing
  <2>9. /\ Shape(stack)' /\ stack' \in Seq(FrameSet) /\ stack' # <<>>
        /\ \A n : /\ LinkingIn(stack, n)' <=> LinkingIn(s, n)
                  /\ OpenedIn(stack, n)' <=> t.so = n \/ OpenedIn(s, n)
                  /\ BegunIn(stack, n)' <=> BegunIn(s, n)
                  /\ Weight(stack, n)' = Weight(s, n) + Load(u, n) + Load(f, n)
                  /\ Weight(s, n) \in Nat
    BY <1>2, <1>3, <2>1, <2>2, <2>4, <2>6, <2>7, <2>8, QuietTwo
  <2>10. Answers'
    BY <1>2, <2>9 DEF Answers, Answer
  <2>11. \A n : /\ LinkingIn(stack, n) <=> LinkingIn(s, n)
                /\ OpenedIn(stack, n) <=> OpenedIn(s, n)
                /\ BegunIn(stack, n) <=> BegunIn(s, n)
    BY <1>2, <1>3, PushedFrames
  <2>12. \A n \in Lib : Promised(stack, ret, n) => Promised(stack, ret, n)'
    <3>1. \A n \in Lib : Wants(t, n) => n = t.so
      BY <1>2 DEF Wants
    <3> QED BY <1>3, <2>9, <2>11, <3>1 DEF Promised
  <2>13. failed' = 0 => \A n \in called : n \in ready \/ BegunIn(stack, n)'
    BY <1>2, <2>9, <2>11, QuietBegun
  <2>14. \A n \in Lib : Rest(n)' = Rest(n) /\ Rest(n) \in Nat
    <3> TAKE n \in Lib
    <3>1. Load(u, n) = (IF t.so = n THEN 1 ELSE 0) /\ Load(f, n) = 0 /\ Load(t, n) = 0
      BY <1>2, <1>3, <1>4, <2>1, <2>2, Loads DEF Owns
    <3>2. Weight(stack, n) = Weight(s, n)
      BY <1>1, <2>9, <3>1, Weighs
    <3>3. Carried(stack, ret, n)' = 0 /\ Carried(stack, ret, n) = IF t.so = n THEN 1 ELSE 0
      BY <1>2, <1>3 DEF Carried, Wants
    <3> QED BY <1>2, <1>4, <2>9, <3>1, <3>2, <3>3 DEF Rest
  <2>15. \A n \in Lib : /\ Rest(n)' <= Rest(n) /\ (failed' = 0 => Rest(n)' = Rest(n))
                        /\ Rest(n)' \in Nat /\ Rest(n) \in Nat
    BY <2>14
  <2> QED BY <1>2, <1>4, <2>9, <2>10, <2>11, <2>12, <2>13, <2>15, QuietKeeps DEF Rets
<1> QED BY <1>5, <1>6

(* A function that goes on after an answer that refers to nothing.         *)
LEMMA QuietStays ==
  ASSUME LinkInv, Quiet, stack' = stack, held' = held, Answers', ret' \in {"none", "null"},
         ret \in {"none", "ok"} \/ (ret = "err" /\ Head(stack).op # "close")
  PROVE  LinkInv'
<1>1. \A n : Carried(stack, ret, n) = 0 /\ Carried(stack, ret, n)' = 0
  BY DEF Carried
<1>2. \A n : /\ LinkingIn(stack, n)' <=> LinkingIn(stack, n)
             /\ OpenedIn(stack, n)' <=> OpenedIn(stack, n)
             /\ BegunIn(stack, n)' <=> BegunIn(stack, n)
             /\ Weight(stack, n)' = Weight(stack, n)
  BY DEF LinkingIn, OpenedIn, BegunIn, Weight
<1>3. \A n : Promised(stack, ret, n) => Promised(stack, ret, n)'
  BY <1>2 DEF Promised
<1>4. failed' = 0 => \A n \in called : n \in ready \/ BegunIn(stack, n)'
  BY <1>2, QuietBegun
<1>5. stack' \in Seq(FrameSet) /\ ret' \in Rets /\ held' \in [Lib -> Nat]
  BY DEF LinkInv, LinkTypes, Rets
<1>6. Shape(stack)'
  <2>1. PICK s : s = stack
    OBVIOUS
  <2>2. s \in Seq(FrameSet) /\ Shape(s) /\ stack' = s
    BY <2>1 DEF LinkInv, LinkTypes
  <2>3. Shape(s)'
    BY <2>2, QuietShape DEF LinkInv
  <2> QED BY <2>2, <2>3
<1>7. \A n \in Lib : /\ Rest(n)' <= Rest(n) /\ (failed' = 0 => Rest(n)' = Rest(n))
                     /\ Rest(n)' \in Nat /\ Rest(n) \in Nat
  <2> TAKE n \in Lib
  <2>1. held[n] \in Nat /\ Weight(stack, n) \in Nat /\ Rest(n) = held[n] + Weight(stack, n) + 0
    BY <1>1, RestIs
  <2>2. Rest(n)' = held[n] + Weight(stack, n) + 0
    BY <1>1, <1>2 DEF Rest
  <2> QED BY <2>1, <2>2
<1> QED BY <1>2, <1>3, <1>4, <1>5, <1>6, <1>7, QuietKeeps

LEMMA FindLinkingKeeps ==
  ASSUME LinkInv, FindLinking
  PROVE  LinkInv'
<1>1. /\ ret = "none" /\ ret' = "null" /\ stack' = stack /\ Quiet /\ held' = held
      /\ stack # <<>> /\ Head(stack).op \in {"open", "link"}
  BY QuietIs DEF FindLinking, Finding, Top
<1>2. Answers'
  BY <1>1 DEF Answers, Answer
<1> QED BY <1>1, <1>2, QuietStays

LEMMA LoadMissingKeeps ==
  ASSUME LinkInv, LoadMissing
  PROVE  LinkInv'
<1>1. /\ ret = "none" /\ ret' = "null" /\ stack' = stack /\ Quiet /\ held' = held
      /\ stack # <<>> /\ Head(stack).op \in {"open", "link"}
  BY QuietIs DEF LoadMissing, Finding, Top
<1>2. Answers'
  BY <1>1 DEF Answers, Answer
<1> QED BY <1>1, <1>2, QuietStays

LEMMA ReleaseGoesOnKeeps ==
  ASSUME LinkInv, ReleaseGoesOn
  PROVE  LinkInv'
<1>1. /\ ret \in {"ok", "err"} /\ ret' = "none" /\ stack' = stack /\ Quiet /\ held' = held
      /\ stack # <<>> /\ Head(stack).op \in {"release", "undo"}
  BY QuietIs DEF ReleaseGoesOn, Releasing, Running, Top
<1>2. Answers'
  BY <1>1 DEF Answers, Answer
<1> QED BY <1>1, <1>2, QuietStays

LEMMA CtorDependencyKeeps ==
  ASSUME LinkInv, CtorDependency
  PROVE  LinkInv'
<1>1. PICK s, t : Split(s, t)
  BY Splits DEF CtorDependency, Running
<1> DEFINE x == needed[t.so][t.i]
           f == Frame("ctor", x, 0, <<>>)
<1>2. /\ t.op = "ctor" /\ t.i \in 1 .. Len(needed[t.so]) /\ ret = "none" /\ ret' = "none"
      /\ stack' = <<f>> \o stack /\ Quiet /\ held' = held /\ stack # <<>> /\ Head(stack) = t
  BY <1>1, QuietIs DEF CtorDependency, Running, Split, Push
<1>3. t \in FrameSet /\ s \in Seq(FrameSet) /\ t.so \in Name /\ stack = <<t>> \o s
  BY <1>1, FrameFields DEF Split
<1>4. needed[t.so] \in Seq(Name) /\ x \in Name /\ x \in linked
  <2>1. needed[t.so] \in Seq(Name) /\ DOMAIN needed[t.so] = 1 .. Len(needed[t.so])
    BY <1>3 DEF LinkInv, LinkTypes
  <2> QED BY <1>2, <1>3, <2>1, ElementOfSeq DEF LinkInv, Objects
<1>5. needed[x] \in Seq(Name) /\ Len(needed[x]) \in Nat
  BY <1>4 DEF LinkInv, LinkTypes
<1> HIDE DEF x
<1>6. f \in FrameSet /\ f.op = "ctor" /\ f.so = x /\ f.i = 0 /\ f.deps = <<>>
  BY <1>4, NewFrame DEF Ops
<1> HIDE DEF f
<1>7. Fits(f) /\ \A m \in Lib : ~Owns(f, m)
  BY <1>4, <1>5, <1>6 DEF Fits, Owns
<1>8. Calls(t, f)
  BY <1>2, <1>6 DEF Calls, x
<1>9. \A g \in FramesOf(stack) : g.op \notin Closing \cup {"undo"}
  <2>1. \A g \in FramesOf(s) : g.op \notin Closing \cup {"undo"}
    BY <1>1, <1>2, NothingOwed DEF Closing
  <2>2. FramesOf(stack) = {t} \cup FramesOf(s)
    BY <1>3, PushedFrames
  <2> QED BY <1>2, <2>1, <2>2 DEF Closing
<1> QED BY <1>2, <1>6, <1>7, <1>8, <1>9, QuietPushes

LEMMA GuestTops ==
  ASSUME LinkInv, GuestTurn, NEW s, NEW t, Split(s, t)
  PROVE  /\ t.op \in {"init", "fini"} /\ ret = "none" /\ s # <<>> /\ Calls(Head(s), t) /\ Fits(t)
         /\ Head(s).op \in {"ctor", "unload"}
<1>1. t.op \in {"init", "fini"} /\ ret = "none"
  BY DEF GuestTurn, Running, Split
<1>2. s # <<>> /\ Calls(Head(s), t) /\ Fits(t)
  BY <1>1 DEF Split
<1> QED BY <1>1, <1>2 DEF Calls

LEMMA GuestReturnsKeeps ==
  ASSUME LinkInv, GuestReturns
  PROVE  LinkInv'
<1>1. PICK s, t : Split(s, t)
  BY Splits DEF GuestReturns
<1>2. stack' = s /\ ret' = "ok" /\ Quiet /\ held' = held /\ failed' = failed
  BY <1>1, QuietIs DEF GuestReturns, Split, Return
<1>3. /\ t.op \in {"init", "fini"} /\ ret = "none" /\ s # <<>> /\ Calls(Head(s), t) /\ Fits(t)
      /\ Head(s).op \in {"ctor", "unload"}
  BY <1>1, GuestTops DEF GuestReturns
<1>4. needed' = needed /\ ref' = ref /\ ready' = ready /\ (Live' => Live)
  BY <1>2, QuietSame DEF LinkInv
<1>5. Answer(Head(s), "ok")'
  <2>1. CASE t.op = "init"
    <3>1. Head(s).op = "ctor" /\ Head(s).so = t.so /\ Head(s).i = Len(needed[t.so]) + 1
      BY <1>3, <2>1 DEF Calls
    <3>2. Len(needed[t.so]) \in Nat
      <4>1. t.so \in Name
        BY <1>1, FrameFields DEF Split
      <4> QED BY <4>1 DEF LinkInv, LinkTypes
    <3> QED BY <1>4, <3>1, <3>2 DEF Answer
  <2>2. CASE t.op = "fini"
    <3>1. Head(s).op = "unload" /\ Head(s).so = t.so
      BY <1>3, <2>2 DEF Calls
    <3>2. t.so \in Lib /\ ref[t.so] = 1 /\ (Live => t.so \in ready)
      BY <1>3, <2>2 DEF Fits
    <3> QED BY <1>4, <3>1, <3>2 DEF Answer
  <2> QED BY <1>3, <2>1, <2>2
<1>6. Answers'
  BY <1>2, <1>3, <1>5 DEF Answers
<1>7. \A n \in Lib : Load(t, n) = 0 /\ Carried(stack, ret, n) = 0 /\ Carried(stack, ret, n)' = 0 /\ held[n] \in Nat
  BY <1>1, <1>2, <1>3, Weighs, NothingCarried DEF Owns, LinkInv, LinkTypes
<1>8. held \in [Lib -> Nat]
  BY DEF LinkInv, LinkTypes
<1> QED BY <1>1, <1>2, <1>3, <1>6, <1>7, <1>8, QuietReturns

LEMMA GuestFailsKeeps ==
  ASSUME LinkInv, GuestFails
  PROVE  LinkInv'
<1>1. PICK s, t : Split(s, t)
  BY Splits DEF GuestFails
<1>2. stack' = s /\ ret' = "err" /\ Quiet /\ held' = held /\ failed' = failed + 1
  BY <1>1, QuietIs DEF GuestFails, Split, Return
<1>3. t.op \in {"init", "fini"} /\ ret = "none" /\ s # <<>> /\ Head(s).op \in {"ctor", "unload"}
  BY <1>1, GuestTops DEF GuestFails
<1>4. failed' # 0
  BY <1>2 DEF LinkInv, LinkTypes
<1>5. Answers'
  BY <1>2, <1>3, <1>4 DEF Answers, Answer
<1>6. \A n \in Lib : Load(t, n) = 0 /\ Carried(stack, ret, n) = 0 /\ Carried(stack, ret, n)' = 0 /\ held[n] \in Nat
  BY <1>1, <1>2, <1>3, Weighs, NothingCarried DEF Owns, LinkInv, LinkTypes
<1>7. held \in [Lib -> Nat]
  BY DEF LinkInv, LinkTypes
<1> QED BY <1>1, <1>2, <1>3, <1>4, <1>5, <1>6, <1>7, QuietReturns

LEMMA DlcloseReturnsKeeps ==
  ASSUME LinkInv, DlcloseReturns
  PROVE  LinkInv'
<1>1. PICK s, t : Split(s, t)
  BY Splits DEF DlcloseReturns, Running
<1>2. t.op = "close" /\ stack' = s /\ ret' = "none" /\ Quiet /\ ret # "none"
  BY <1>1, QuietIs DEF DlcloseReturns, Running, Split, Return
<1>3. held' = IF ret = "err" /\ t.so \in alive THEN [held EXCEPT ![t.so] = @ + 1] ELSE held
  BY <1>1 DEF DlcloseReturns, Split
<1>4. t.so \in Lib /\ ret \in {"ok", "err"}
  <2>1. Fits(t) /\ Answer(t, ret) /\ ret \in Rets
    BY <1>1 DEF Split, LinkInv, LinkTypes
  <2> QED BY <1>2, <2>1 DEF Fits, Answer, Wants, Rets
<1>5. held \in [Lib -> Nat] /\ held' \in [Lib -> Nat]
  BY <1>3, <1>4 DEF LinkInv, LinkTypes
<1>6. Answers'
  BY <1>2 DEF Answers, Answer
<1>7. \A n \in Lib : /\ Load(t, n) = 0 /\ Carried(stack, ret, n)' = 0 /\ held[n] \in Nat
                     /\ held'[n] = held[n] + Carried(stack, ret, n) /\ Carried(stack, ret, n) \in {0, 1}
  <2> TAKE n \in Lib
  <2>1. Load(t, n) = 0 /\ Carried(stack, ret, n)' = 0 /\ held[n] \in Nat
    BY <1>1, <1>2, <1>5, Weighs, NothingCarried DEF Owns
  <2>2. Carried(stack, ret, n) = IF ret = "err" /\ t.so = n /\ n \in alive THEN 1 ELSE 0
    BY <1>1, <1>2, <1>4 DEF Carried, Split
  <2>3. held'[n] = held[n] + Carried(stack, ret, n)
    BY <1>3, <1>4, <1>5, <2>1, <2>2
  <2> QED BY <2>1, <2>2, <2>3
<1>8. \A n \in Lib : held'[n] + Carried(stack, ret, n)' = held[n] + Load(t, n) + Carried(stack, ret, n)
  BY <1>7
<1>9. \A n \in Lib : held'[n] + Carried(stack, ret, n)' \in Nat
  BY <1>5, <1>7
<1>10. \A n \in Lib : held'[n] + Carried(stack, ret, n)' <= held[n] + Load(t, n) + Carried(stack, ret, n)
  BY <1>8, <1>9
<1> QED BY <1>1, <1>2, <1>4, <1>5, <1>6, <1>8, <1>10, QuietReturns

LEMMA UnloadFailsKeeps ==
  ASSUME LinkInv, UnloadFails
  PROVE  LinkInv'
<1>1. PICK s, t : Split(s, t)
  BY Splits DEF UnloadFails, Running
<1>2. t.op = "unload" /\ ret = "err" /\ stack' = s /\ ret' = "err" /\ Quiet /\ held' = held /\ failed' = failed
  BY <1>1, QuietIs DEF UnloadFails, Running, Split, Return
<1>3. failed' # 0
  BY <1>1, <1>2 DEF Split, Answer
<1>4. s # <<>> /\ ((Head(s).op = "close" /\ Head(s).so = t.so) \/ Head(s).op \in {"release", "undo"})
  BY <1>1, <1>2 DEF Split, Calls
<1>5. Answers'
  BY <1>2, <1>3, <1>4 DEF Answers, Answer
<1>6. \A n \in Lib : /\ Load(t, n) = (IF t.so = n THEN 1 ELSE 0) /\ Carried(stack, ret, n) = 0
                     /\ Carried(stack, ret, n)' \in {0, Load(t, n)} /\ held[n] \in Nat
  <2> TAKE n \in Lib
  <2>1. Load(t, n) = (IF t.so = n THEN 1 ELSE 0) /\ held[n] \in Nat
    BY <1>1, <1>2, Weighs DEF Owns, LinkInv, LinkTypes
  <2>2. Carried(stack, ret, n) = 0
    BY <1>1, <1>2 DEF Carried, Split
  <2>3. Carried(stack, ret, n)' \in {0, Load(t, n)}
    BY <1>2, <1>4, <2>1 DEF Carried
  <2> QED BY <2>1, <2>2, <2>3
<1>7. held \in [Lib -> Nat]
  BY DEF LinkInv, LinkTypes
<1> QED BY <1>1, <1>2, <1>3, <1>5, <1>6, <1>7, QuietReturns

LEMMA ReleaseFailsKeeps ==
  ASSUME LinkInv, ReleaseFails
  PROVE  LinkInv'
<1>1. PICK s, t : Split(s, t)
  BY Splits DEF ReleaseFails, Running
<1>2. t.op = "release" /\ ret = "err" /\ stack' = s /\ ret' = "err" /\ Quiet /\ held' = held /\ failed' = failed
  BY <1>1, QuietIs DEF ReleaseFails, Running, Split, Return
<1>3. failed' # 0 /\ t.so \notin alive
  BY <1>1, <1>2 DEF Split, Answer, Fits
<1>4. s # <<>> /\ ((Head(s).op = "close" /\ Head(s).so = t.so) \/ Head(s).op \in {"release", "undo"})
  BY <1>1, <1>2 DEF Split, Calls
<1>5. Answers'
  BY <1>2, <1>3, <1>4 DEF Answers, Answer
<1>6. \A n \in Lib : /\ Load(t, n) \in Nat /\ Carried(stack, ret, n) = 0
                     /\ Carried(stack, ret, n)' = 0 /\ held[n] \in Nat
  <2> TAKE n \in Lib
  <2>1. Load(t, n) \in Nat /\ held[n] \in Nat
    BY <1>1, Weighs DEF LinkInv, LinkTypes
  <2>2. Carried(stack, ret, n) = 0
    BY <1>1, <1>2 DEF Carried, Split
  <2>3. alive' = alive
    BY <1>2, QuietSame DEF LinkInv
  <2>4. Carried(stack, ret, n)' = 0
    BY <1>2, <1>3, <1>4, <2>3 DEF Carried
  <2> QED BY <2>1, <2>2, <2>4
<1>7. held \in [Lib -> Nat]
  BY DEF LinkInv, LinkTypes
<1> QED BY <1>1, <1>2, <1>3, <1>5, <1>6, <1>7, QuietReturns

LEMMA ReleasedKeeps ==
  ASSUME LinkInv, Released
  PROVE  LinkInv'
<1>1. PICK s, t : Split(s, t)
  BY Splits DEF Released, Releasing
<1>2. /\ t.op \in {"release", "undo"} /\ ret = "none" /\ stack' = s /\ Quiet /\ held' = held
      /\ t.deps = <<>> /\ ret' = IF t.op = "undo" THEN "null" ELSE "ok"
  BY <1>1, QuietIs DEF Released, Releasing, Split, Return
<1>3. s # <<>> /\ Head(s).op \in IF t.op = "undo" THEN {"open", "link"} ELSE {"close", "release", "undo"}
  BY <1>1, <1>2 DEF Split, Calls
<1>4. Answers'
  BY <1>2, <1>3 DEF Answers, Answer
<1>5. \A n \in Lib : Load(t, n) = 0 /\ Carried(stack, ret, n) = 0 /\ Carried(stack, ret, n)' = 0 /\ held[n] \in Nat
  <2> TAKE n \in Lib
  <2>1. Load(t, n) = 0 /\ held[n] \in Nat
    BY <1>1, <1>2, Loads DEF Split, Owns, LinkInv, LinkTypes
  <2> QED BY <1>2, <2>1, NothingCarried
<1>6. held \in [Lib -> Nat]
  BY DEF LinkInv, LinkTypes
<1> QED BY <1>1, <1>2, <1>4, <1>5, <1>6, QuietReturns

LEMMA CtorNextKeeps ==
  ASSUME LinkInv, CtorNext
  PROVE  LinkInv'
<1>1. PICK s, t : Split(s, t)
  BY Splits DEF CtorNext, Running
<1> DEFINE u == [t EXCEPT !.i = t.i + 1]
<1>2. /\ t.op = "ctor" /\ t.i \in 1 .. Len(needed[t.so]) /\ ret = "ok" /\ ret' = "none"
      /\ stack' = <<u>> \o s /\ Quiet /\ held' = held /\ Head(stack) = t
  BY <1>1, QuietIs DEF CtorNext, Running, Split, Goto
<1>3. t \in FrameSet /\ s \in Seq(FrameSet) /\ t.so \in Name /\ t.i \in Nat /\ stack = <<t>> \o s /\ Shape(s)
  BY <1>1, FrameFields DEF Split
<1>4. u \in FrameSet /\ u.op = "ctor" /\ u.so = t.so /\ u.i = t.i + 1 /\ u.deps = t.deps
  <2>1. t.i + 1 \in Nat
    BY <1>3
  <2> QED BY <1>2, <1>3, <2>1, FrameAt
<1>5. Len(needed[t.so]) \in Nat
  BY <1>3 DEF LinkInv, LinkTypes
<1> HIDE DEF u
<1>6. Fits(u)
  <2>1. Fits(t) /\ Answer(t, ret)
    BY <1>1 DEF Split
  <2>2. /\ t.deps = <<>> /\ t.so \in linked /\ t.so \in called
        /\ \A k \in 1 .. t.i - 1 : needed[t.so][k] \in called
        /\ \A k \in DOMAIN t.deps : t.deps[k] \in linked
    BY <1>2, <2>1 DEF Fits
  <2>3. needed[t.so][t.i] \in called
    BY <1>2, <2>1 DEF Answer
  <2>4. u.i <= Len(needed[t.so]) + 1 /\ u.i # 0
    BY <1>2, <1>4, <1>5
  <2>5. \A k \in 1 .. u.i - 1 : needed[t.so][k] \in called
    BY <1>2, <1>3, <1>4, <2>2, <2>3
  <2> QED BY <1>4, <2>2, <2>4, <2>5 DEF Fits
<1>7. IF s = <<>> THEN u.op \in {"open", "close"} ELSE Calls(Head(s), u)
  BY <1>1, <1>2, <1>4 DEF Split, Calls
<1>8. \A g \in FramesOf(s) : Under(g, u)
  BY <1>1, <1>2, <1>4, NothingOwed DEF Under, Closing
<1>9. Shape(stack)' /\ stack' \in Seq(FrameSet) /\ stack' # <<>>
  <2>1. Shape(s)' /\ Fits(u)' /\ (\A g \in FramesOf(s) : Under(g, u)')
    BY <1>2, <1>3, <1>6, <1>8, QuietSame, QuietShape DEF LinkInv
  <2>2. IF s = <<>> THEN u.op \in {"open", "close"} ELSE Calls(Head(s), u)'
    BY <1>2, <1>7, QuietSame DEF LinkInv
  <2>3. Shape(<<u>> \o s)'
    BY <1>3, <1>4, <2>1, <2>2, ShapePushes
  <2> QED BY <1>2, <1>3, <1>4, <2>3, Pushed
<1>10. Answers'
  BY <1>2, <1>9 DEF Answers, Answer
<1>11. \A n : /\ LinkingIn(stack, n) <=> LinkingIn(s, n)
              /\ OpenedIn(stack, n) <=> OpenedIn(s, n)
              /\ BegunIn(stack, n) <=> t.so = n \/ BegunIn(s, n)
  BY <1>2, <1>3, PushedFrames
<1>12. \A n : /\ LinkingIn(<<u>> \o s, n) <=> LinkingIn(s, n)
              /\ OpenedIn(<<u>> \o s, n) <=> OpenedIn(s, n)
              /\ BegunIn(<<u>> \o s, n) <=> t.so = n \/ BegunIn(s, n)
  BY <1>2, <1>3, <1>4, PushedFrames
<1>13. \A n : /\ LinkingIn(stack, n)' <=> LinkingIn(<<u>> \o s, n)
              /\ OpenedIn(stack, n)' <=> OpenedIn(<<u>> \o s, n)
              /\ BegunIn(stack, n)' <=> BegunIn(<<u>> \o s, n)
              /\ Weight(stack, n)' = Weight(<<u>> \o s, n)
  BY <1>2 DEF LinkingIn, OpenedIn, BegunIn, Weight
<1>14. failed' = 0 => \A n \in called : n \in ready \/ BegunIn(stack, n)'
  BY <1>2, <1>11, <1>12, <1>13, QuietBegun
<1>15. \A n \in Lib : Promised(stack, ret, n) => Promised(stack, ret, n)'
  BY <1>2, <1>11, <1>12, <1>13 DEF Promised
<1>16. \A n \in Lib : Rest(n)' = Rest(n) /\ Rest(n) \in Nat
  <2> TAKE n \in Lib
  <2>1. Load(u, n) = Load(t, n) /\ Load(u, n) \in Nat
    BY <1>1, <1>2, <1>3, <1>4, Loads DEF Owns
  <2>2. Weight(<<u>> \o s, n) = Weight(stack, n)
    BY <1>3, <1>4, <2>1, WeightPushed
  <2>3. Carried(stack, ret, n) = 0 /\ Carried(stack, ret, n)' = 0
    BY <1>2 DEF Carried
  <2>4. held[n] \in Nat /\ Weight(stack, n) \in Nat /\ Rest(n) = held[n] + Weight(stack, n) + 0
    BY <2>3, RestIs
  <2>5. Rest(n)' = held[n] + Weight(stack, n) + 0
    BY <1>2, <1>13, <2>2, <2>3 DEF Rest
  <2> QED BY <2>4, <2>5
<1>17. \A n \in Lib : /\ Rest(n)' <= Rest(n) /\ (failed' = 0 => Rest(n)' = Rest(n))
                      /\ Rest(n)' \in Nat /\ Rest(n) \in Nat
  BY <1>16
<1>18. held' \in [Lib -> Nat] /\ ret' \in Rets
  BY <1>2 DEF LinkInv, LinkTypes, Rets
<1> QED BY <1>2, <1>9, <1>10, <1>11, <1>12, <1>13, <1>14, <1>15, <1>17, <1>18, QuietKeeps

LEMMA DlcloseKeeps ==
  ASSUME LinkInv, NEW n \in Lib, Dlclose(n)
  PROVE  LinkInv'
<1> DEFINE f == Frame("unload", n, 0, <<>>)
           u == Frame("close", n, 0, <<>>)
<1>1. /\ ret = "none" /\ ret' = "none" /\ GuestTurn /\ held[n] > 0
      /\ stack' = <<f, u>> \o stack /\ held' = [held EXCEPT ![n] = @ - 1]
  BY DEF Dlclose, GuestTurn
<1>2. Quiet
  BY DEF Dlclose, Quiet
<1>3. n \in Name /\ held \in [Lib -> Nat] /\ stack \in Seq(FrameSet) /\ Shape(stack)
  BY NamesFinite DEF LinkInv, LinkTypes
<1>4. f \in FrameSet /\ f.op = "unload" /\ f.so = n /\ f.i = 0 /\ f.deps = <<>>
  BY <1>3, NewFrame DEF Ops
<1>5. u \in FrameSet /\ u.op = "close" /\ u.so = n /\ u.i = 0 /\ u.deps = <<>>
  BY <1>3, NewFrame DEF Ops
<1> HIDE DEF u, f
<1>6. PICK s : s = stack
  OBVIOUS
<1>7. stack' = <<f>> \o (<<u>> \o s) /\ s \in Seq(FrameSet) /\ Shape(s)
  BY <1>1, <1>3, <1>4, <1>5, <1>6, Twice
<1>8. n \in linked
  <2>1. held[n] \in Nat /\ Weight(stack, n) \in Nat /\ Carried(stack, ret, n) \in {0, 1} /\ ref[n] \in Nat
        /\ Needed(needed, n) \in Nat
        /\ Needed(needed, n) + (held[n] + Weight(stack, n) + Carried(stack, ret, n)) <= ref[n]
    BY RestIs
  <2>2. ref[n] # 0
    BY <1>1, <2>1
  <2> QED BY <2>2 DEF LinkInv, Objects
<1>9. Fits(u) /\ Fits(f) /\ Calls(u, f) /\ Under(u, f)
  BY <1>4, <1>5, <1>8 DEF Fits, Calls, Under, Closing
<1>10. IF s = <<>> THEN u.op \in {"open", "close"} ELSE Calls(Head(s), u)
  <2>1. CASE s = <<>>
    BY <1>5, <2>1
  <2>2. CASE s # <<>>
    <3>1. Head(s).op \in {"init", "fini"}
      BY <1>1, <1>6, <2>2 DEF GuestTurn, Running, Top
    <3> QED BY <1>5, <2>2, <3>1 DEF Calls
  <2> QED BY <2>1, <2>2
<1>11. \A g \in FramesOf(s) : Under(g, u) /\ Under(g, f)
  BY <1>4, <1>5 DEF Under, Closing
<1>12. /\ Shape(stack)' /\ stack' \in Seq(FrameSet) /\ stack' # <<>>
       /\ \A m : /\ LinkingIn(stack, m)' <=> LinkingIn(s, m)
                 /\ OpenedIn(stack, m)' <=> OpenedIn(s, m)
                 /\ BegunIn(stack, m)' <=> BegunIn(s, m)
                 /\ Weight(stack, m)' = Weight(s, m) + Load(u, m) + Load(f, m)
                 /\ Weight(s, m) \in Nat
  BY <1>2, <1>4, <1>5, <1>7, <1>9, <1>10, <1>11, QuietTwo
<1>13. Answers'
  BY <1>1, <1>12 DEF Answers, Answer
<1>14. failed' = 0 => \A m \in called : m \in ready \/ BegunIn(stack, m)'
  BY <1>2, <1>6, <1>12, QuietBegun
<1>15. \A m \in Lib : Promised(stack, ret, m) => Promised(stack, ret, m)'
  BY <1>1, <1>6, <1>12 DEF Promised
<1>16. \A m \in Lib : Rest(m)' = Rest(m) /\ Rest(m) \in Nat
  <2> TAKE m \in Lib
  <2>1. Load(u, m) = 0 /\ Load(f, m) = IF m = n THEN 1 ELSE 0
    BY <1>4, <1>5, Loads DEF Owns
  <2>2. held[m] \in Nat /\ held'[m] + Load(f, m) = held[m] /\ held'[m] \in Nat
    BY <1>1, <1>3, <2>1
  <2>3. Carried(stack, ret, m) = 0 /\ Carried(stack, ret, m)' = 0
    BY <1>1 DEF Carried
  <2>4. Rest(m) = held[m] + Weight(s, m) + 0 /\ Rest(m)' = held'[m] + (Weight(s, m) + Load(u, m) + Load(f, m)) + 0
    BY <1>6, <1>12, <2>3 DEF Rest
  <2> QED BY <1>12, <2>1, <2>2, <2>4
<1>17. \A m \in Lib : /\ Rest(m)' <= Rest(m) /\ (failed' = 0 => Rest(m)' = Rest(m))
                      /\ Rest(m)' \in Nat /\ Rest(m) \in Nat
  BY <1>16
<1>18. held' \in [Lib -> Nat] /\ ret' \in Rets
  BY <1>1, <1>3 DEF Rets
<1> QED BY <1>2, <1>6, <1>12, <1>13, <1>14, <1>15, <1>17, <1>18, QuietKeeps

LEMMA ReleaseNextKeeps ==
  ASSUME LinkInv, ReleaseNext
  PROVE  LinkInv'
<1>1. PICK s, t : Split(s, t)
  BY Splits DEF ReleaseNext, Releasing
<1> DEFINE u == [t EXCEPT !.deps = Tail(t.deps)]
           x == Head(t.deps)
           f == Frame("unload", x, 0, <<>>)
<1>2. /\ t.op \in {"release", "undo"} /\ ret = "none" /\ ret' = "none" /\ t.deps # <<>>
      /\ stack' = <<f, u>> \o s /\ Quiet /\ held' = held /\ Head(stack) = t
  BY <1>1, QuietIs DEF ReleaseNext, Releasing, Split
<1>3. t \in FrameSet /\ s \in Seq(FrameSet) /\ t.so \in Name /\ t.deps \in Seq(Name) /\ stack = <<t>> \o s /\ Shape(s)
  BY <1>1, FrameFields DEF Split
<1>4. /\ x \in Name /\ Tail(t.deps) \in Seq(Name) /\ Len(Tail(t.deps)) = Len(t.deps) - 1
      /\ \A k \in 1 .. Len(Tail(t.deps)) : Tail(t.deps)[k] = t.deps[k + 1]
      /\ DOMAIN t.deps = 1 .. Len(t.deps) /\ Len(t.deps) \in Nat \ {0} /\ x = t.deps[1]
      /\ DOMAIN Tail(t.deps) = 1 .. Len(Tail(t.deps))
  BY <1>2, <1>3, HeadTailProperties, EmptySeq, LenProperties
<1>5. u \in FrameSet /\ u.op = t.op /\ u.so = t.so /\ u.i = t.i /\ u.deps = Tail(t.deps)
  BY <1>3, <1>4, FrameOwes
<1> HIDE DEF x
<1>6. f \in FrameSet /\ f.op = "unload" /\ f.so = x /\ f.i = 0 /\ f.deps = <<>>
  BY <1>4, NewFrame DEF Ops
<1> HIDE DEF u, f
<1>7. stack' = <<f>> \o (<<u>> \o s)
  BY <1>2, <1>3, <1>5, <1>6, Twice
<1>8. Fits(u) /\ Fits(f) /\ Calls(u, f) /\ Under(u, f)
  <2>1. (t.op = "release" => t.so \in Lib \ alive) /\ \A k \in DOMAIN t.deps : t.deps[k] \in linked
    BY <1>1 DEF Split, Fits
  <2>2. x \in linked
    BY <1>4, <2>1
  <2>3. \A k \in DOMAIN u.deps : u.deps[k] \in linked
    BY <1>4, <1>5, <2>1
  <2>4. Fits(u)
    BY <1>2, <1>5, <2>1, <2>3 DEF Fits
  <2> QED BY <1>2, <1>5, <1>6, <2>2, <2>4 DEF Fits, Calls, Under, Closing
<1>9. IF s = <<>> THEN u.op \in {"open", "close"} ELSE Calls(Head(s), u)
  BY <1>1, <1>2, <1>5 DEF Split, Calls
<1>10. \A g \in FramesOf(s) : Under(g, u) /\ Under(g, f)
  BY <1>1, <1>2, <1>5, <1>6 DEF Split, Under, Closing
<1>11. /\ Shape(stack)' /\ stack' \in Seq(FrameSet) /\ stack' # <<>>
       /\ \A n : /\ LinkingIn(stack, n)' <=> LinkingIn(s, n)
                 /\ OpenedIn(stack, n)' <=> OpenedIn(s, n)
                 /\ BegunIn(stack, n)' <=> BegunIn(s, n)
                 /\ Weight(stack, n)' = Weight(s, n) + Load(u, n) + Load(f, n)
                 /\ Weight(s, n) \in Nat /\ Load(u, n) \in Nat /\ Load(f, n) \in Nat
  BY <1>2, <1>3, <1>5, <1>6, <1>7, <1>8, <1>9, <1>10, QuietTwo
<1>12. Answers'
  BY <1>2, <1>11 DEF Answers, Answer
<1>13. \A n : /\ LinkingIn(stack, n) <=> LinkingIn(s, n)
              /\ OpenedIn(stack, n) <=> OpenedIn(s, n)
              /\ BegunIn(stack, n) <=> BegunIn(s, n)
  BY <1>2, <1>3, PushedFrames
<1>14. failed' = 0 => \A n \in called : n \in ready \/ BegunIn(stack, n)'
  BY <1>2, <1>11, <1>13, QuietBegun
<1>15. \A n \in Lib : Promised(stack, ret, n) => Promised(stack, ret, n)'
  BY <1>2, <1>11, <1>13 DEF Promised
<1>16. \A n \in Lib : Rest(n)' = Rest(n) /\ Rest(n) \in Nat
  <2> TAKE n \in Lib
  <2>1. /\ Load(t, n) = Cardinality(Places(t.deps, n)) /\ Load(u, n) = Cardinality(Places(u.deps, n))
        /\ Load(f, n) = IF x = n THEN 1 ELSE 0
    <3>1. ~Owns(t, n) /\ ~Owns(u, n) /\ (Owns(f, n) <=> x = n)
      BY <1>2, <1>5, <1>6 DEF Owns
    <3>2. Cardinality(Places(t.deps, n)) \in Nat /\ Cardinality(Places(u.deps, n)) \in Nat
      BY <1>3, <1>4, <1>5, PlacesCount
    <3> QED BY <1>3, <1>5, <1>6, <3>1, <3>2, Loads
  <2>2. Cardinality(Places(t.deps, n)) = Cardinality(Places(u.deps, n)) + IF x = n THEN 1 ELSE 0
    BY <1>2, <1>3, <1>5, PlacesTail DEF x
  <2>3. Weight(stack, n) = Weight(s, n) + Load(u, n) + Load(f, n)
    <3>1. Weight(stack, n) = Weight(s, n) + Load(t, n)
      BY <1>1, Weighs
    <3> QED BY <1>11, <2>1, <2>2, <3>1
  <2>4. Carried(stack, ret, n) = 0 /\ Carried(stack, ret, n)' = 0
    BY <1>2 DEF Carried
  <2>5. held[n] \in Nat /\ Weight(stack, n) \in Nat /\ Rest(n) = held[n] + Weight(stack, n) + 0
    BY <2>4, RestIs
  <2>6. Rest(n)' = held[n] + Weight(stack, n) + 0
    BY <1>2, <1>11, <2>3, <2>4 DEF Rest
  <2> QED BY <2>5, <2>6
<1>17. \A n \in Lib : /\ Rest(n)' <= Rest(n) /\ (failed' = 0 => Rest(n)' = Rest(n))
                      /\ Rest(n)' \in Nat /\ Rest(n) \in Nat
  BY <1>16
<1>18. held' \in [Lib -> Nat] /\ ret' \in Rets
  BY <1>2 DEF LinkInv, LinkTypes, Rets
<1> QED BY <1>2, <1>11, <1>12, <1>13, <1>14, <1>15, <1>17, <1>18, QuietKeeps

(* A frame of a constructor stands on a reference to the library.          *)
LEMMA ConstructedIsHeld ==
  ASSUME LinkTypes, NEW s \in Seq(FrameSet), Shape(s), NEW f \in FramesOf(s), f.op \in {"ctor", "init"}
  PROVE  f.so \in Lib => Weight(s, f.so) # 0 \/ Needed(needed, f.so) # 0
<1>0. \A g \in FramesOf(s) : g.op = "ctor" => Weight(s, g.so) # 0 \/ Needed(needed, g.so) # 0
  <2> SUFFICES ASSUME NEW g \in FramesOf(s), g.op = "ctor"
               PROVE  Weight(s, g.so) # 0 \/ Needed(needed, g.so) # 0
    OBVIOUS
  <2>1. PICK k \in 1 .. Len(s) : g = s[k]
    BY DEF FramesOf
  <2>2. Len(s) \in Nat /\ s # <<>>
    BY <2>1, EmptySeq
  <2>3. k # Len(s)
    BY <2>1, <2>2 DEF Shape
  <2>4. k \in 1 .. Len(s) - 1 /\ k + 1 \in 1 .. Len(s)
    BY <2>2, <2>3
  <2>5. Calls(s[k + 1], g) /\ s[k + 1] \in FramesOf(s) /\ s[k + 1] \in FrameSet
    BY <2>1, <2>4, ElementOfSeq DEF Shape, FramesOf
  <2>6. PICK b : b = s[k + 1]
    OBVIOUS
  <2>7. \/ b.op = "open" /\ b.i = 1 /\ b.so = g.so
        \/ b.op = "ctor" /\ b.i \in 1 .. Len(needed[b.so]) /\ needed[b.so][b.i] = g.so
    BY <2>5, <2>6 DEF Calls
  <2>8. CASE b.op = "open" /\ b.i = 1 /\ b.so = g.so
    <3>1. Marks(b, g.so) # {}
      BY <2>8 DEF Marks, Owns
    <3> QED BY <2>5, <2>6, <3>1, WeightPushed
  <2>9. CASE b.op = "ctor" /\ b.i \in 1 .. Len(needed[b.so]) /\ needed[b.so][b.i] = g.so
    <3>1. b.so \in Name /\ needed \in [Name -> Seq(Name)]
      BY <2>5, <2>6, FrameFields DEF LinkTypes
    <3>2. DOMAIN needed[b.so] = 1 .. Len(needed[b.so])
      BY <3>1, LenProperties
    <3> QED BY <2>9, <3>1, <3>2, NeedsCount
  <2> QED BY <2>7, <2>8, <2>9
<1>1. CASE f.op = "ctor"
  BY <1>0, <1>1
<1>2. CASE f.op = "init"
  <2>1. PICK k \in 1 .. Len(s) : f = s[k]
    BY DEF FramesOf
  <2>2. Len(s) \in Nat /\ s # <<>>
    BY <2>1, EmptySeq
  <2>3. k # Len(s)
    BY <1>2, <2>1, <2>2 DEF Shape
  <2>4. k \in 1 .. Len(s) - 1 /\ k + 1 \in 1 .. Len(s)
    BY <2>2, <2>3
  <2>5. Calls(s[k + 1], f) /\ s[k + 1] \in FramesOf(s)
    BY <2>1, <2>4 DEF Shape, FramesOf
  <2>6. s[k + 1].op = "ctor" /\ s[k + 1].so = f.so
    BY <1>2, <2>5 DEF Calls
  <2> QED BY <1>0, <2>5, <2>6
<1> QED BY <1>1, <1>2

LEMMA OpenedIsHeld ==
  ASSUME NEW s \in Seq(FrameSet), NEW n, OpenedIn(s, n)
  PROVE  Weight(s, n) # 0
<1>1. PICK f \in FramesOf(s) : f.op = "open" /\ f.i = 1 /\ f.so = n
  BY DEF OpenedIn
<1>2. Marks(f, n) # {}
  BY <1>1 DEF Marks, Owns
<1> QED BY <1>1, <1>2, WeightPushed

LEMMA UnloadStartsKeeps ==
  ASSUME LinkInv, UnloadStarts
  PROVE  LinkInv'
<1>1. PICK s, t : Split(s, t)
  BY Splits DEF UnloadStarts, Running
<1> DEFINE f == Frame("fini", t.so, 0, <<>>)
<1>2. /\ t.op = "unload" /\ ret = "none" /\ ret' = "none" /\ t.so \in Lib /\ ref[t.so] = 1
      /\ stack' = <<f>> \o stack /\ Quiet /\ held' = held /\ stack # <<>> /\ Head(stack) = t
  BY <1>1, QuietIs DEF UnloadStarts, Running, Split, Push, LastReference
<1>3. t \in FrameSet /\ s \in Seq(FrameSet) /\ t.so \in Name /\ stack = <<t>> \o s /\ Shape(s) /\ t.so \in linked
  BY <1>1, <1>2, FrameFields DEF Split, Fits
<1>4. f \in FrameSet /\ f.op = "fini" /\ f.so = t.so /\ f.i = 0 /\ f.deps = <<>>
  BY <1>3, NewFrame DEF Ops
<1> HIDE DEF f
<1>5. Live => t.so \in ready
  <2> SUFFICES ASSUME Live PROVE t.so \in ready
    OBVIOUS
  <2> DEFINE x == t.so
  <2>1. /\ held[x] \in Nat /\ Weight(stack, x) \in Nat /\ Carried(stack, ret, x) \in {0, 1}
        /\ Needed(needed, x) \in Nat
        /\ Needed(needed, x) + (held[x] + Weight(stack, x) + Carried(stack, ret, x)) = 1
    BY <1>2, RestIs DEF Live
  <2>2. Weight(stack, x) = Weight(s, x) + 1 /\ Weight(s, x) \in Nat
    BY <1>1, <1>2, Weighs DEF Owns
  <2>3. Weight(s, x) = 0 /\ Needed(needed, x) = 0
    BY <2>1, <2>2
  <2>4. ~OpenedIn(s, x) /\ ~OpenedIn(stack, x)
    BY <1>2, <1>3, <2>3, OpenedIsHeld, PushedFrames
  <2>5. ~Loader(x)
    <3> SUFFICES ASSUME NEW y \in Name, NEW k \in DOMAIN needed[y], needed[y][k] = x PROVE FALSE
      BY DEF Loader
    <3>1. needed \in [Name -> Seq(Name)]
      BY DEF LinkInv, LinkTypes
    <3> QED BY <2>3, <3>1, NeedsCount
  <2>6. x \in called
    BY <1>2, <1>3, <2>4, <2>5 DEF LinkInv, Constructors, Promised
  <2>7. ~BegunIn(s, x)
    <3> SUFFICES ASSUME NEW g \in FramesOf(s), g.op = "ctor", g.so = x PROVE FALSE
      BY DEF BegunIn
    <3> QED BY <1>2, <1>3, <2>3, ConstructedIsHeld DEF LinkInv
  <2>8. ~BegunIn(stack, x)
    BY <1>2, <1>3, <2>7, PushedFrames
  <2> QED BY <2>6, <2>8 DEF LinkInv, Constructors, Live
<1>6. Fits(f) /\ (\A m \in Lib : ~Owns(f, m)) /\ Calls(t, f)
  BY <1>2, <1>4, <1>5 DEF Fits, Owns, Calls
<1>7. f.op \in Closing
  BY <1>4 DEF Closing
<1> QED BY <1>2, <1>4, <1>6, <1>7, QuietPushes

-----------------------------------------------------------------------------
(* Steps that change objects                                               *)

(* While nothing is being released, the objects may grow.                  *)
LEMMA GrowShape ==
  ASSUME LinkTypes, NEW s \in Seq(FrameSet), Shape(s),
         \A f \in FramesOf(s) : f.op \notin Closing \cup {"undo"},
         alive \subseteq alive', linked \subseteq linked', called \subseteq called',
         \A n \in linked : needed'[n] = needed[n],
         \A f \in FramesOf(s) : f.op = "link" => f.so \notin linked',
         \A m, n : Before(m, n) => Before(m, n)'
  PROVE  Shape(s)'
<1>1. \A f \in FramesOf(s) : Fits(f) /\ f.op \notin {"undo", "close", "unload", "fini", "release"}
  BY DEF Shape, Closing
<1>2. \A f \in FramesOf(s) : Fits(f) => Fits(f)'
  <2> SUFFICES ASSUME NEW f \in FramesOf(s) PROVE Fits(f)'
    OBVIOUS
  <2>1. f.op \notin {"undo", "close", "unload", "fini", "release"} /\ f.deps = <<>>
    BY <1>1 DEF Fits
  <2>2. CASE f.op = "open"
    BY <1>1, <2>1, <2>2 DEF Fits
  <2>3. CASE f.op = "link"
    BY <1>1, <2>1, <2>3 DEF Fits
  <2>4. CASE f.op \in {"ctor", "init"}
    <3>1. f.so \in linked
      BY <1>1, <2>4 DEF Fits
    <3>2. needed'[f.so] = needed[f.so]
      BY <3>1
    <3> QED BY <1>1, <2>1, <2>4, <3>1, <3>2 DEF Fits
  <2>5. CASE f.op \notin {"open", "link", "ctor", "init"}
    BY <1>1, <2>1, <2>5 DEF Fits
  <2> QED BY <2>2, <2>3, <2>4, <2>5
<1>3. \A f, g \in FramesOf(s) : Calls(f, g) => Calls(f, g)'
  <2> SUFFICES ASSUME NEW f \in FramesOf(s), NEW g \in FramesOf(s), Calls(f, g) PROVE Calls(f, g)'
    OBVIOUS
  <2>1. f.op = "ctor" => needed'[f.so] = needed[f.so]
    BY <1>1 DEF Fits
  <2> QED BY <2>1 DEF Calls
<1>4. \A f, g \in FramesOf(s) : Under(f, g) => Under(f, g)'
  BY DEF Under
<1> QED BY <1>2, <1>3, <1>4, ShapeStays

LEMMA CtorStartsKeeps ==
  ASSUME LinkInv, CtorStarts
  PROVE  LinkInv'
<1>1. PICK s, t : Split(s, t)
  BY Splits DEF CtorStarts, Running
<1> DEFINE u == [t EXCEPT !.i = 1]
<1>2. /\ t.op = "ctor" /\ t.i = 0 /\ t.so \notin called /\ called' = called \cup {t.so}
      /\ stack' = <<u>> \o s /\ ret' = "none" /\ Head(stack) = t
  BY <1>1 DEF CtorStarts, Running, Split, Goto, FirstDependency
<1>3. /\ solist' = solist /\ somain' = somain /\ alive' = alive /\ ref' = ref /\ linked' = linked
      /\ needed' = needed /\ ready' = ready /\ held' = held /\ failed' = failed
  BY DEF CtorStarts, listVars, guestVars
<1>4. t \in FrameSet /\ s \in Seq(FrameSet) /\ t.so \in Name /\ stack = <<t>> \o s /\ Shape(s) /\ Fits(t)
  BY <1>1, FrameFields DEF Split
<1>5. u \in FrameSet /\ u.op = "ctor" /\ u.so = t.so /\ u.i = 1 /\ u.deps = t.deps /\ t.deps = <<>>
  <2>1. t.deps = <<>>
    BY <1>2, <1>4 DEF Fits
  <2>2. 1 \in Nat
    OBVIOUS
  <2> QED BY <1>2, <1>4, <2>1, <2>2, FrameAt
<1>6. Len(needed[t.so]) \in Nat /\ t.so \in linked
  BY <1>2, <1>4 DEF LinkInv, LinkTypes, Fits
<1> HIDE DEF u
<1>7. \A g \in FramesOf(s) : g.op \notin Closing \cup {"undo"}
  BY <1>1, <1>2, NothingOwed DEF Closing
<1>8. \A m, n : Before(m, n)' <=> Before(m, n)
  BY <1>3 DEF Before
<1>9. Shape(s)'
  <2>1. \A f \in FramesOf(s) : f.op = "link" => f.so \notin linked'
    BY <1>3, <1>4 DEF Shape, Fits
  <2> QED BY <1>2, <1>3, <1>4, <1>7, <1>8, <2>1, GrowShape DEF LinkInv
<1>10. Shape(stack)' /\ stack' \in Seq(FrameSet) /\ stack' # <<>>
  <2>1. Fits(u)'
    BY <1>2, <1>3, <1>5, <1>6 DEF Fits
  <2>2. \A g \in FramesOf(s) : Under(g, u)'
    BY <1>5, <1>7 DEF Under
  <2>3. IF s = <<>> THEN u.op \in {"open", "close"} ELSE Calls(Head(s), u)'
    BY <1>1, <1>2, <1>3, <1>5 DEF Split, Calls
  <2>4. Shape(<<u>> \o s)'
    BY <1>4, <1>5, <1>9, <2>1, <2>2, <2>3, ShapePushes
  <2> QED BY <1>2, <1>4, <1>5, <2>4, Pushed
<1>11. LinkTypes'
  BY <1>2, <1>3, <1>6, <1>10 DEF LinkInv, LinkTypes, Rets
<1>12. Objects'
  BY <1>2, <1>3 DEF LinkInv, Objects
<1>13. Answers'
  BY <1>2, <1>10 DEF Answers, Answer
<1>14. \A n : /\ LinkingIn(stack, n) <=> LinkingIn(s, n)
              /\ OpenedIn(stack, n) <=> OpenedIn(s, n)
              /\ BegunIn(stack, n) <=> BegunIn(s, n)
  BY <1>2, <1>4, PushedFrames
<1>15. \A n : /\ LinkingIn(<<u>> \o s, n) <=> LinkingIn(s, n)
              /\ OpenedIn(<<u>> \o s, n) <=> OpenedIn(s, n)
              /\ BegunIn(<<u>> \o s, n) <=> t.so = n \/ BegunIn(s, n)
  BY <1>4, <1>5, PushedFrames
<1>16. \A n : /\ LinkingIn(stack, n)' <=> LinkingIn(<<u>> \o s, n)
              /\ OpenedIn(stack, n)' <=> OpenedIn(<<u>> \o s, n)
              /\ BegunIn(stack, n)' <=> BegunIn(<<u>> \o s, n)
              /\ Weight(stack, n)' = Weight(<<u>> \o s, n)
  BY <1>2 DEF LinkingIn, OpenedIn, BegunIn, Weight
<1>17. OnList'
  <2>1. ListIsLive' <=> ListIsLive
    BY <1>3 DEF ListIsLive
  <2> QED BY <1>3, <1>14, <1>15, <1>16, <2>1 DEF LinkInv, OnList
<1>18. Constructors'
  <2>1. Live' <=> Live
    BY <1>3 DEF Live, ListIsLive
  <2>2. \A n : Loader(n) => Loader(n)'
    BY <1>3, <1>8 DEF Loader
  <2>3. \A n : Promised(stack, ret, n) => Promised(stack, ret, n)'
    <3>1. \A n : ~Wants(t, n)
      BY <1>2 DEF Wants
    <3> QED BY <1>2, <1>14, <1>15, <1>16, <3>1 DEF Promised
  <2>4. Live' => \A n \in (Lib \cap linked') \ called' : Loader(n)' \/ Promised(stack, ret, n)'
    BY <1>2, <1>3, <2>1, <2>2, <2>3 DEF LinkInv, Constructors
  <2>5. failed' = 0 => \A n \in called' : n \in ready' \/ BegunIn(stack, n)'
    BY <1>2, <1>3, <1>14, <1>15, <1>16 DEF LinkInv, Constructors
  <2> QED BY <2>4, <2>5 DEF Constructors
<1>19. Counts'
  <2> SUFFICES ASSUME NEW n \in Lib PROVE Total(n)' = Total(n)
    BY <1>3 DEF LinkInv, Counts
  <2>1. Load(u, n) = 0 /\ Load(t, n) = 0
    BY <1>1, <1>2, <1>4, <1>5, Weighs, Loads DEF Owns
  <2>2. Weight(<<u>> \o s, n) = Weight(stack, n)
    BY <1>4, <1>5, <2>1, WeightPushed
  <2>3. Carried(stack, ret, n) = 0 /\ Carried(stack, ret, n)' = 0
    BY <1>2 DEF Carried, Wants
  <2> QED BY <1>3, <1>16, <2>2, <2>3 DEF Total, Rest
<1> QED BY <1>10, <1>11, <1>12, <1>13, <1>17, <1>18, <1>19 DEF LinkInv

(* A constructor call ends: of its library, or by a fault.                 *)
LEMMA CtorEnds ==
  ASSUME LinkInv, NEW s, NEW t, Split(s, t), t.op = "ctor", t.i # 0, ret' \in {"ok", "err"}, stack' = s,
         ready' = IF ret' = "ok" THEN ready \cup {t.so} ELSE ready,
         ret' = "ok" => t.i = Len(needed[t.so]) + 1, ret' = "err" => failed # 0,
         UNCHANGED <<solist, somain, alive, ref, linked, called, needed, held, failed>>
  PROVE  LinkInv'
<1>1. /\ solist' = solist /\ somain' = somain /\ alive' = alive /\ ref' = ref /\ linked' = linked
      /\ called' = called /\ needed' = needed /\ held' = held /\ failed' = failed
  OBVIOUS
<1>2. /\ t \in FrameSet /\ s \in Seq(FrameSet) /\ t.so \in Name /\ stack = <<t>> \o s /\ Shape(s) /\ Fits(t)
      /\ Head(stack) = t
  BY FrameFields DEF Split
<1>3. /\ needed[t.so] \in Seq(Name) /\ Len(needed[t.so]) \in Nat /\ DOMAIN needed[t.so] = 1 .. Len(needed[t.so])
      /\ t.so \in called
  BY <1>2, LenProperties DEF LinkInv, LinkTypes, Fits
<1>4. \A g \in FramesOf(s) : g.op \notin Closing \cup {"undo"}
  BY NothingOwed DEF Closing
<1>5. \A m, n : Before(m, n)' <=> Before(m, n)
  BY <1>1 DEF Before
<1>6. Shape(stack)'
  <2>1. \A f \in FramesOf(s) : f.op = "link" => f.so \notin linked'
    BY <1>1, <1>2 DEF Shape, Fits
  <2>2. Shape(s)'
    BY <1>1, <1>2, <1>4, <1>5, <2>1, GrowShape DEF LinkInv
  <2> QED BY <2>2
<1>7. LinkTypes'
  BY <1>1, <1>2, <1>3 DEF LinkInv, LinkTypes, Rets
<1>8. Objects'
  <2>1. ret' = "ok" => \A k \in DOMAIN needed[t.so] : needed[t.so][k] \in called
    BY <1>2, <1>3 DEF Fits
  <2>2. \A x \in ready' : \A k \in DOMAIN needed'[x] : needed'[x][k] \in called'
    BY <1>1, <2>1 DEF LinkInv, Objects
  <2> QED BY <1>1, <2>2 DEF LinkInv, Objects
<1>9. Answers'
  <2>1. s # <<>> /\ Head(s).op \in {"open", "ctor"} /\ Answer(Head(s), "ok")'
    BY <1>1, <1>3, CtorAnswers
  <2>2. CASE ret' = "ok"
    BY <2>1, <2>2 DEF Answers
  <2>3. CASE ret' = "err"
    BY <1>1, <2>1, <2>3 DEF Answers, Answer
  <2> QED BY <2>2, <2>3
<1>10. \A n : /\ LinkingIn(stack, n) <=> LinkingIn(s, n)
              /\ OpenedIn(stack, n) <=> OpenedIn(s, n)
              /\ BegunIn(stack, n) <=> t.so = n \/ BegunIn(s, n)
  BY <1>2, PushedFrames
<1>11. \A n : /\ LinkingIn(stack, n)' <=> LinkingIn(s, n)
              /\ OpenedIn(stack, n)' <=> OpenedIn(s, n)
              /\ BegunIn(stack, n)' <=> BegunIn(s, n)
              /\ Weight(stack, n)' = Weight(s, n)
  BY DEF LinkingIn, OpenedIn, BegunIn, Weight
<1>12. OnList'
  <2>1. ListIsLive' <=> ListIsLive
    BY <1>1 DEF ListIsLive
  <2> QED BY <1>1, <1>10, <1>11, <2>1 DEF LinkInv, OnList
<1>13. Constructors'
  <2>1. Live' <=> Live
    BY <1>1 DEF Live, ListIsLive
  <2>2. \A n : Loader(n) => Loader(n)'
    BY <1>1, <1>5 DEF Loader
  <2>3. \A n : Promised(stack, ret, n) => Promised(stack, ret, n)'
    <3>1. \A n : ~Wants(t, n)
      BY DEF Wants
    <3> QED BY <1>2, <1>10, <1>11, <3>1 DEF Promised
  <2>4. Live' => \A n \in (Lib \cap linked') \ called' : Loader(n)' \/ Promised(stack, ret, n)'
    BY <1>1, <2>1, <2>2, <2>3 DEF LinkInv, Constructors
  <2>5. failed' = 0 => \A n \in called' : n \in ready' \/ BegunIn(stack, n)'
    BY <1>1, <1>10, <1>11 DEF LinkInv, Constructors
  <2> QED BY <2>4, <2>5 DEF Constructors
<1>14. Counts'
  <2> SUFFICES ASSUME NEW n \in Lib PROVE Total(n)' = Total(n)
    BY <1>1 DEF LinkInv, Counts
  <2>1. Load(t, n) = 0 /\ Weight(stack, n) = Weight(s, n)
    BY Weighs DEF Owns
  <2>2. Carried(stack, ret, n) = 0
    BY <1>2 DEF Carried, Wants
  <2>3. Carried(stack, ret, n)' = 0
    <3>1. s # <<>> /\ Head(s).op \in {"open", "ctor"}
      BY <1>1, <1>3, CtorAnswers
    <3> QED BY <3>1, NothingCarried
  <2> QED BY <1>1, <1>11, <2>1, <2>2, <2>3 DEF Total, Rest
<1> QED BY <1>6, <1>7, <1>8, <1>9, <1>12, <1>13, <1>14 DEF LinkInv

LEMMA CtorReturnsKeeps ==
  ASSUME LinkInv, CtorReturns
  PROVE  LinkInv'
<1>1. PICK s, t : Split(s, t)
  BY Splits DEF CtorReturns, Running
<1>2. /\ t.op = "ctor" /\ stack' = s /\ ret' = ret /\ ret \in {"ok", "err"}
      /\ ret = "ok" => t.i = Len(needed[t.so]) + 1
      /\ ready' = IF ret = "ok" THEN ready \cup {t.so} ELSE ready
  BY <1>1 DEF CtorReturns, Running, Split, Return
<1>3. UNCHANGED <<solist, somain, alive, ref, linked, called, needed, held, failed>>
  BY DEF CtorReturns, listVars, guestVars
<1>4. Answer(t, ret) /\ t.so \in Name /\ Len(needed[t.so]) \in Nat
  BY <1>1, FrameFields DEF Split, LinkInv, LinkTypes
<1>5. CASE t.i # 0
  BY <1>1, <1>2, <1>3, <1>4, <1>5, CtorEnds DEF Answer
<1>6. CASE t.i = 0
  <2>1. ret = "err" /\ failed # 0
    <3>1. ret # "ok"
      BY <1>2, <1>4, <1>6
    <3> QED BY <1>2, <1>4, <3>1 DEF Answer
  <2>2. Quiet /\ held' = held /\ failed' = failed
    BY <1>2, <1>3, <2>1 DEF Quiet, objectVars, listVars
  <2>3. s # <<>> /\ Head(s).op \in {"open", "ctor"}
    BY <1>1, <1>2 DEF Split, Calls
  <2>4. Answers'
    BY <1>2, <2>1, <2>2, <2>3 DEF Answers, Answer
  <2>5. \A n \in Lib : Load(t, n) = 0 /\ Carried(stack, ret, n) = 0 /\ Carried(stack, ret, n)' = 0 /\ held[n] \in Nat
    <3> TAKE n \in Lib
    <3>1. Load(t, n) = 0 /\ held[n] \in Nat
      BY <1>1, <1>2, Weighs DEF Owns, LinkInv, LinkTypes
    <3>2. Carried(stack, ret, n) = 0
      BY <1>1, <1>2, <2>1 DEF Carried, Split
    <3>3. Carried(stack, ret, n)' = 0
      BY <1>2, <2>1, <2>3 DEF Carried
    <3> QED BY <3>1, <3>2, <3>3
  <2>6. held \in [Lib -> Nat]
    BY DEF LinkInv, LinkTypes
  <2> QED BY <1>1, <1>2, <1>6, <2>1, <2>2, <2>4, <2>5, <2>6, QuietReturns
<1> QED BY <1>5, <1>6

LEMMA CtorOwnKeeps ==
  ASSUME LinkInv, CtorOwn
  PROVE  LinkInv'
<1>1. PICK s, t : Split(s, t)
  BY Splits DEF CtorOwn, Running
<1>2. t.op = "ctor" /\ t.i = Len(needed[t.so]) + 1 /\ ret = "none" /\ Head(stack) = t /\ stack # <<>>
  BY <1>1 DEF CtorOwn, Running, Split
<1>3. UNCHANGED <<solist, somain, alive, ref, linked, called, needed, held, failed>>
  BY DEF CtorOwn, listVars, guestVars
<1>4. t \in FrameSet /\ s \in Seq(FrameSet) /\ t.so \in Name /\ stack = <<t>> \o s /\ Fits(t)
  BY <1>1, FrameFields DEF Split
<1>5. /\ needed[t.so] \in Seq(Name) /\ Len(needed[t.so]) \in Nat /\ DOMAIN needed[t.so] = 1 .. Len(needed[t.so])
      /\ t.i # 0
  BY <1>2, <1>4, LenProperties DEF LinkInv, LinkTypes
<1>6. CASE t.so \in Host
  <2>1. stack' = s /\ ret' = "ok" /\ ready' = ready \cup {t.so}
    BY <1>1, <1>6 DEF CtorOwn, Split, Return
  <2> QED BY <1>1, <1>2, <1>3, <1>5, <2>1, CtorEnds
<1>7. CASE t.so \notin Host
  <2> DEFINE f == Frame("init", t.so, 0, <<>>)
  <2>1. stack' = <<f>> \o stack /\ ret' = "none" /\ ready' = ready
    BY <1>1, <1>7 DEF CtorOwn, Split, Push
  <2>2. f \in FrameSet /\ f.op = "init" /\ f.so = t.so /\ f.i = 0 /\ f.deps = <<>>
    BY <1>4, NewFrame DEF Ops
  <2> HIDE DEF f
  <2>3. Quiet /\ held' = held
    BY <1>3, <2>1 DEF Quiet, objectVars, listVars
  <2>4. Fits(f)
    <3>1. t.so \in Lib /\ t.so \in linked /\ \A k \in DOMAIN needed[t.so] : needed[t.so][k] \in called
      BY <1>2, <1>4, <1>5, <1>7 DEF Fits, Name
    <3> QED BY <2>2, <3>1 DEF Fits
  <2>5. Calls(t, f) /\ \A m \in Lib : ~Owns(f, m)
    BY <1>2, <2>2 DEF Calls, Owns
  <2>6. \A g \in FramesOf(stack) : g.op \notin Closing \cup {"undo"}
    <3>1. \A g \in FramesOf(s) : g.op \notin Closing \cup {"undo"}
      BY <1>1, <1>2, NothingOwed DEF Closing
    <3>2. FramesOf(stack) = {t} \cup FramesOf(s)
      BY <1>4, PushedFrames
    <3> QED BY <1>2, <3>1, <3>2 DEF Closing
  <2> QED BY <1>2, <2>1, <2>2, <2>3, <2>4, <2>5, <2>6, QuietPushes
<1> QED BY <1>6, <1>7

(* A search, and a new entry of the list.                                  *)
LEMMA FindingFrames ==
  ASSUME LinkInv, Finding
  PROVE  /\ \E s, t : Split(s, t) /\ t.op \in {"open", "link"} /\ \A n : Wants(t, n) <=> n = Wanted
         /\ Wanted \in Name /\ ret = "none" /\ stack # <<>>
         /\ \A g \in FramesOf(stack) : g.op \notin Closing \cup {"undo"}
<1>1. stack # <<>> /\ ret = "none"
  BY DEF Finding
<1>2. PICK s, t : Split(s, t)
  BY <1>1, Splits
<1>3. Top = t /\ t \in FrameSet /\ s \in Seq(FrameSet) /\ stack = <<t>> \o s /\ Fits(t) /\ t.so \in Name
  BY <1>2, FrameFields DEF Split
<1>4. \/ t.op = "open" /\ t.i = 0
      \/ t.op = "link" /\ t.i <= Len(Needs[t.so])
  BY <1>3 DEF Finding
<1>5. (\A n : Wants(t, n) <=> n = Wanted) /\ Wanted \in Name
  <2>1. CASE t.op = "open" /\ t.i = 0
    BY <1>3, <2>1 DEF Wants, Wanted
  <2>2. CASE t.op = "link" /\ t.i <= Len(Needs[t.so])
    <3>1. t.so \in Lib /\ t.i \in 1 .. Len(Needs[t.so]) + 1
      BY <1>3, <2>2 DEF Fits
    <3>2. Needs[t.so] \in Seq(Name) /\ Len(Needs[t.so]) \in Nat
      BY <3>1, DynamicAssumption
    <3>3. Needs[t.so][t.i] \in Name
      BY <2>2, <3>1, <3>2, ElementOfSeq
    <3> QED BY <1>3, <2>2, <3>3 DEF Wants, Wanted
  <2> QED BY <1>4, <2>1, <2>2
<1>6. \A g \in FramesOf(stack) : g.op \notin Closing \cup {"undo"}
  <2>1. \A g \in FramesOf(s) : g.op \notin Closing \cup {"undo"}
    BY <1>2, <1>4, NothingOwed DEF Closing
  <2>2. FramesOf(stack) = {t} \cup FramesOf(s)
    BY <1>3, PushedFrames
  <2> QED BY <1>4, <2>1, <2>2 DEF Closing
<1> QED BY <1>1, <1>2, <1>4, <1>5, <1>6

LEMMA NotFoundIsLive ==
  ASSUME LinkInv, NEW n \in Name, Readable(n), Entries(n) = {}
  PROVE  ListIsLive /\ n \notin alive
<1>1. ListIsLive
  BY DEF Readable, ListIsLive
<1>2. \A p \in DOMAIN solist : solist[p] # n
  BY DEF Entries
<1> QED BY <1>1, <1>2 DEF LinkInv, OnList

LEMMA Appended ==
  ASSUME LinkInv, NEW w \in Name, Entries(w) = {}, solist' = Append(solist, w), alive' = alive \cup {w}
  PROVE  /\ solist' \in Seq(Name)
         /\ \A m, n : Before(m, n) => Before(m, n)'
         /\ \A p \in DOMAIN solist : p \in DOMAIN solist' /\ solist'[p] = solist[p]
         /\ \A p \in DOMAIN solist : Before(solist[p], w)'
         /\ \A p, q \in DOMAIN solist' : solist'[p] = solist'[q] => p = q
         /\ \E p \in DOMAIN solist' : solist'[p] = w
         /\ ListIsLive' => ListIsLive
<1>1. solist \in Seq(Name) /\ \A p, q \in DOMAIN solist : solist[p] = solist[q] => p = q
  BY DEF LinkInv, LinkTypes, OnList
<1>2. \A p \in DOMAIN solist : solist[p] # w
  BY DEF Entries
<1>3. /\ DOMAIN solist = 1 .. Len(solist) /\ Len(solist) \in Nat
      /\ DOMAIN solist' = 1 .. Len(solist) + 1 /\ solist' \in Seq(Name)
      /\ solist'[Len(solist) + 1] = w
      /\ \A p \in 1 .. Len(solist) : solist'[p] = solist[p]
  BY <1>1, LenProperties, AppendProperties
<1>4. Len(solist) + 1 \in DOMAIN solist' /\ \A p \in DOMAIN solist : p \in DOMAIN solist' /\ p < Len(solist) + 1
  BY <1>3
<1>5. \A p \in DOMAIN solist : p \in DOMAIN solist' /\ solist'[p] = solist[p]
  BY <1>3, <1>4
<1>6. ASSUME NEW m, NEW n, Before(m, n) PROVE Before(m, n)'
  <2>1. PICK p \in DOMAIN solist, q \in DOMAIN solist : p < q /\ solist[p] = m /\ solist[q] = n
    BY <1>6 DEF Before
  <2> QED BY <1>5, <2>1 DEF Before
<1>7. ASSUME NEW p \in DOMAIN solist PROVE Before(solist[p], w)'
  <2>1. PICK m : m = solist[p]
    OBVIOUS
  <2>2. Before(m, w)'
    BY <1>3, <1>4, <1>5, <2>1 DEF Before
  <2>3. \E a, b \in DOMAIN solist' : a < b /\ solist'[a] = solist[p] /\ solist'[b] = w
    BY <1>3, <1>4, <1>5
  <2> QED BY <1>3, <1>4, <1>5 DEF Before
<1>8. \A p, q \in DOMAIN solist' : solist'[p] = solist'[q] => p = q
  <2> SUFFICES ASSUME NEW p \in DOMAIN solist', NEW q \in DOMAIN solist', solist'[p] = solist'[q] PROVE p = q
    OBVIOUS
  <2>1. p \in DOMAIN solist \/ p = Len(solist) + 1
    BY <1>3
  <2>2. q \in DOMAIN solist \/ q = Len(solist) + 1
    BY <1>3
  <2> QED BY <1>1, <1>2, <1>3, <1>5, <2>1, <2>2
<1>9. ListIsLive' => ListIsLive
  BY <1>2, <1>5 DEF ListIsLive
<1> QED BY <1>3, <1>4, <1>5, <1>6, <1>7, <1>8, <1>9

LEMMA SameStack ==
  ASSUME stack' = stack
  PROVE  \A n : /\ LinkingIn(stack, n)' <=> LinkingIn(stack, n)
                /\ OpenedIn(stack, n)' <=> OpenedIn(stack, n)
                /\ BegunIn(stack, n)' <=> BegunIn(stack, n)
                /\ Weight(stack, n)' = Weight(stack, n)
BY DEF LinkingIn, OpenedIn, BegunIn, Weight

LEMMA FindLoadedKeeps ==
  ASSUME LinkInv, FindLoaded
  PROVE  LinkInv'
<1>0. PICK w : w = Wanted
  OBVIOUS
<1>1. PICK s, t : Split(s, t) /\ t.op \in {"open", "link"} /\ \A n : Wants(t, n) <=> n = w
  BY <1>0, FindingFrames DEF FindLoaded
<1>2. /\ w \in Name /\ ret = "none" /\ stack # <<>> /\ Head(stack) = t
      /\ \A g \in FramesOf(stack) : g.op \notin Closing \cup {"undo"}
  BY <1>0, <1>1, FindingFrames DEF FindLoaded, Split
<1>3. w \in linked /\ ref' = [ref EXCEPT ![w] = @ + 1] /\ ret' = "found"
  BY <1>0 DEF FindLoaded, FoundAgain, Referenced
<1>4. /\ solist' = solist /\ somain' = somain /\ alive' = alive /\ linked' = linked /\ called' = called
      /\ needed' = needed /\ ready' = ready /\ held' = held /\ failed' = failed /\ stack' = stack
  BY DEF FindLoaded, listVars, guestVars
<1>5. \A m, n : Before(m, n)' <=> Before(m, n)
  BY <1>4 DEF Before
<1>6. Shape(stack)'
  <2>1. PICK v : v = stack
    OBVIOUS
  <2>2. v \in Seq(FrameSet) /\ Shape(v) /\ \A g \in FramesOf(v) : g.op \notin Closing \cup {"undo"}
    BY <1>2, <2>1 DEF LinkInv, LinkTypes
  <2>3. \A f \in FramesOf(v) : f.op = "link" => f.so \notin linked'
    BY <1>4, <2>2 DEF Shape, Fits
  <2>4. Shape(v)'
    BY <1>4, <1>5, <2>2, <2>3, GrowShape DEF LinkInv
  <2> QED BY <1>4, <2>1, <2>4
<1>7. LinkTypes'
  BY <1>2, <1>3, <1>4 DEF LinkInv, LinkTypes, Rets
<1>8. Objects'
  <2>1. \A n \in Lib : n \in linked <=> ref'[n] # 0
    BY <1>3, NamesFinite DEF LinkInv, LinkTypes, Objects
  <2> QED BY <1>4, <2>1 DEF LinkInv, Objects
<1>9. Answers'
  <2>1. Wants(t, w)'
    BY <1>1 DEF Wants
  <2> QED BY <1>2, <1>3, <1>4, <2>1 DEF Answers, Answer
<1>10. OnList'
  <2>1. ListIsLive' <=> ListIsLive
    BY <1>4 DEF ListIsLive
  <2> QED BY <1>4, <2>1, SameStack DEF LinkInv, OnList
<1>11. Constructors'
  <2>1. Live' <=> Live
    BY <1>4 DEF Live, ListIsLive
  <2>2. \A n : Loader(n) => Loader(n)'
    BY <1>4, <1>5 DEF Loader
  <2>3. \A n : Promised(stack, ret, n) => Promised(stack, ret, n)'
    BY <1>2, <1>4, SameStack DEF Promised
  <2> QED BY <1>4, <2>1, <2>2, <2>3, SameStack DEF LinkInv, Constructors
<1>12. Counts'
  <2> SUFFICES ASSUME NEW n \in Lib PROVE (Total(n) <= ref[n] /\ (failed = 0 => Total(n) = ref[n]))'
    BY DEF Counts
  <2>1. Carried(stack, ret, n) = 0 /\ Carried(stack, ret, n)' = IF n = w THEN 1 ELSE 0
    BY <1>1, <1>2, <1>3, <1>4 DEF Carried, Wants
  <2>2. /\ held[n] \in Nat /\ ref[n] \in Nat /\ Weight(stack, n) \in Nat /\ Needed(needed, n) \in Nat
        /\ Needed(needed, n) + (held[n] + Weight(stack, n) + 0) <= ref[n]
        /\ failed = 0 => Needed(needed, n) + (held[n] + Weight(stack, n) + 0) = ref[n]
    BY <2>1, RestIs
  <2>3. Total(n)' = Needed(needed, n) + (held[n] + Weight(stack, n) + IF n = w THEN 1 ELSE 0)
    BY <1>4, <2>1, SameStack DEF Total, Rest
  <2>4. ref'[n] = ref[n] + IF n = w THEN 1 ELSE 0
    BY <1>3, <2>2, NamesFinite DEF LinkInv, LinkTypes
  <2> QED BY <1>4, <2>2, <2>3, <2>4
<1> QED BY <1>6, <1>7, <1>8, <1>9, <1>10, <1>11, <1>12 DEF LinkInv

LEMMA LoadHostKeeps ==
  ASSUME LinkInv, LoadHost
  PROVE  LinkInv'
<1>0. PICK w : w = Wanted
  OBVIOUS
<1>1. PICK s, t : Split(s, t) /\ t.op \in {"open", "link"} /\ \A n : Wants(t, n) <=> n = w
  BY <1>0, FindingFrames DEF LoadHost
<1>2. /\ w \in Name /\ ret = "none" /\ stack # <<>> /\ Head(stack) = t
      /\ \A g \in FramesOf(stack) : g.op \notin Closing \cup {"undo"}
  BY <1>0, <1>1, FindingFrames DEF LoadHost, Split
<1>3. /\ w \in Host /\ Entries(w) = {} /\ solist' = Append(solist, w) /\ alive' = alive \cup {w}
      /\ linked' = linked \cup {w} /\ ref' = [ref EXCEPT ![w] = 1] /\ ret' = "found"
  BY <1>0 DEF LoadHost
<1>4. /\ somain' = somain /\ called' = called /\ stack' = stack
      /\ needed' = needed /\ ready' = ready /\ held' = held /\ failed' = failed
  BY DEF LoadHost, guestVars
<1>5. w \notin Lib
  BY <1>3, NamesFinite
<1>6. /\ solist' \in Seq(Name)
      /\ \A m, n : Before(m, n) => Before(m, n)'
      /\ \A p \in DOMAIN solist : p \in DOMAIN solist' /\ solist'[p] = solist[p]
      /\ \A p, q \in DOMAIN solist' : solist'[p] = solist'[q] => p = q
      /\ \E p \in DOMAIN solist' : solist'[p] = w
      /\ ListIsLive' => ListIsLive
  BY <1>2, <1>3, Appended
<1>7. Shape(stack)'
  <2>1. PICK v : v = stack
    OBVIOUS
  <2>2. v \in Seq(FrameSet) /\ Shape(v) /\ \A g \in FramesOf(v) : g.op \notin Closing \cup {"undo"}
    BY <1>2, <2>1 DEF LinkInv, LinkTypes
  <2>3. \A f \in FramesOf(v) : f.op = "link" => f.so \notin linked'
    BY <1>3, <1>5, <2>2 DEF Shape, Fits
  <2>4. Shape(v)'
    BY <1>3, <1>4, <1>6, <2>2, <2>3, GrowShape DEF LinkInv
  <2> QED BY <1>4, <2>1, <2>4
<1>8. LinkTypes'
  BY <1>2, <1>3, <1>4, <1>6 DEF LinkInv, LinkTypes, Rets
<1>9. Objects'
  <2>1. \A n \in Lib : n \in linked' <=> ref'[n] # 0
    BY <1>3, <1>5, NamesFinite DEF LinkInv, LinkTypes, Objects
  <2>2. \A n \in Host : n \in alive' => n \in linked'
    BY <1>3 DEF LinkInv, Objects
  <2> QED BY <1>3, <1>4, <2>1, <2>2 DEF LinkInv, Objects
<1>10. Answers'
  <2>1. Wants(t, w)'
    BY <1>1 DEF Wants
  <2> QED BY <1>2, <1>3, <1>4, <2>1 DEF Answers, Answer
<1>11. OnList'
  <2>1. ListIsLive' => \A n \in alive' : \E p \in DOMAIN solist' : solist'[p] = n
    BY <1>3, <1>6 DEF LinkInv, OnList
  <2>2. \A n \in Name : LinkingIn(stack, n)' => \E p \in DOMAIN solist' : solist'[p] = n
    BY <1>4, <1>6, SameStack DEF LinkInv, OnList
  <2>3. \A n \in (Lib \cap alive') \ linked' : LinkingIn(stack, n)'
    BY <1>3, <1>4, <1>5, SameStack DEF LinkInv, OnList
  <2> QED BY <1>6, <2>1, <2>2, <2>3 DEF OnList
<1>12. Constructors'
  <2>1. Live' => Live
    BY <1>4, <1>6 DEF Live
  <2>2. \A n : Loader(n) => Loader(n)'
    BY <1>4, <1>6 DEF Loader
  <2>3. \A n : Promised(stack, ret, n) => Promised(stack, ret, n)'
    BY <1>2, <1>4, SameStack DEF Promised
  <2>4. Live' => \A n \in (Lib \cap linked') \ called' : Loader(n)' \/ Promised(stack, ret, n)'
    BY <1>3, <1>4, <1>5, <2>1, <2>2, <2>3 DEF LinkInv, Constructors
  <2> QED BY <1>4, <2>4, SameStack DEF LinkInv, Constructors
<1>13. Counts'
  <2> SUFFICES ASSUME NEW n \in Lib PROVE Total(n)' = Total(n) /\ ref'[n] = ref[n]
    BY <1>4 DEF LinkInv, Counts
  <2>1. Carried(stack, ret, n) = 0 /\ Carried(stack, ret, n)' = 0
    BY <1>1, <1>2, <1>3, <1>4, <1>5 DEF Carried, Wants
  <2>2. ref'[n] = ref[n]
    BY <1>3, <1>5, NamesFinite DEF LinkInv, LinkTypes
  <2> QED BY <1>4, <2>1, <2>2, SameStack DEF Total, Rest
<1> QED BY <1>7, <1>8, <1>9, <1>10, <1>11, <1>12, <1>13 DEF LinkInv

LEMMA LoadMappedKeeps ==
  ASSUME LinkInv, LoadMapped
  PROVE  LinkInv'
<1>0. PICK w : w = Wanted
  OBVIOUS
<1> DEFINE f == Frame("link", w, 1, <<>>)
<1>1. PICK s, t : Split(s, t) /\ t.op \in {"open", "link"} /\ \A n : Wants(t, n) <=> n = w
  BY <1>0, FindingFrames DEF LoadMapped
<1>2. /\ w \in Name /\ ret = "none" /\ stack # <<>> /\ Head(stack) = t
      /\ \A g \in FramesOf(stack) : g.op \notin Closing \cup {"undo"}
  BY <1>0, <1>1, FindingFrames DEF LoadMapped, Split
<1>3. /\ w \in Lib /\ Readable(w) /\ Entries(w) = {} /\ solist' = Append(solist, w)
      /\ alive' = alive \cup {w} /\ stack' = <<f>> \o stack /\ ret' = "none"
      /\ somain' \in {somain, w}
  BY <1>0 DEF LoadMapped, Push
<1>4. /\ ref' = ref /\ linked' = linked /\ called' = called
      /\ needed' = needed /\ ready' = ready /\ held' = held /\ failed' = failed
  BY DEF LoadMapped, guestVars
<1>5. w \notin alive /\ w \notin linked
  BY <1>2, <1>3, NotFoundIsLive DEF LinkInv, LinkTypes
<1>6. f \in FrameSet /\ f.op = "link" /\ f.so = w /\ f.i = 1 /\ f.deps = <<>>
  BY <1>2 DEF Frame, FrameSet, Ops
<1> HIDE DEF f
<1>7. /\ solist' \in Seq(Name)
      /\ \A m, n : Before(m, n) => Before(m, n)'
      /\ \A p \in DOMAIN solist : p \in DOMAIN solist' /\ solist'[p] = solist[p]
      /\ \A p \in DOMAIN solist : Before(solist[p], w)'
      /\ \A p, q \in DOMAIN solist' : solist'[p] = solist'[q] => p = q
      /\ \E p \in DOMAIN solist' : solist'[p] = w
      /\ ListIsLive' => ListIsLive
  BY <1>2, <1>3, Appended
<1>8. PICK v : v = stack
  OBVIOUS
<1>9. v \in Seq(FrameSet) /\ Shape(v) /\ \A g \in FramesOf(v) : g.op \notin Closing \cup {"undo"}
  BY <1>2, <1>8 DEF LinkInv, LinkTypes
<1>10. Shape(stack)' /\ stack' \in Seq(FrameSet) /\ stack' # <<>>
  <2>1. \A g \in FramesOf(v) : g.op = "link" => g.so \notin linked'
    BY <1>4, <1>9 DEF Shape, Fits
  <2>2. Shape(v)'
    BY <1>3, <1>4, <1>7, <1>9, <2>1, GrowShape DEF LinkInv
  <2>3. Fits(f)'
    <3>1. Len(Needs[w]) \in Nat
      BY <1>3, DynamicAssumption
    <3> QED BY <1>3, <1>4, <1>5, <1>6, <3>1 DEF Fits
  <2>4. v # <<>> /\ Calls(Head(v), f)'
    <3>1. Wants(t, w)
      BY <1>1
    <3>2. Calls(t, f)'
      BY <1>1, <1>6, <3>1 DEF Calls, Wants
    <3> QED BY <1>2, <1>8, <3>2
  <2>5. \A g \in FramesOf(v) : Under(g, f)'
    <3> SUFFICES ASSUME NEW g \in FramesOf(v) PROVE Under(g, f)'
      OBVIOUS
    <3>1. CASE g.op = "link"
      <4>1. g.so \in Name /\ LinkingIn(stack, g.so)
        <5>1. g \in FrameSet
          BY <1>9, ElementOfSeq DEF FramesOf
        <5> QED BY <1>8, <3>1, <5>1, FrameFields DEF LinkingIn
      <4>2. PICK p \in DOMAIN solist : solist[p] = g.so
        BY <4>1 DEF LinkInv, OnList
      <4>3. Before(g.so, w)'
        BY <1>7, <4>2
      <4> QED BY <1>6, <1>9, <4>3 DEF Under
    <3>2. CASE g.op # "link"
      BY <1>6, <1>9, <3>2 DEF Under
    <3> QED BY <3>1, <3>2
  <2>6. Shape(<<f>> \o v)'
    BY <1>6, <1>9, <2>2, <2>3, <2>4, <2>5, ShapePushes
  <2> QED BY <1>3, <1>6, <1>8, <1>9, <2>6, Pushed
<1>11. LinkTypes'
  BY <1>2, <1>3, <1>4, <1>7, <1>10 DEF LinkInv, LinkTypes, Rets
<1>12. Objects'
  <2>1. somain' # NoLibrary => somain' \in alive'
    BY <1>3 DEF LinkInv, Objects
  <2>2. \A n \in Host : n \in alive' => n \in linked'
    BY <1>3, <1>4, NamesFinite DEF LinkInv, Objects
  <2> QED BY <1>3, <1>4, <2>1, <2>2 DEF LinkInv, Objects
<1>13. Answers'
  BY <1>3, <1>10 DEF Answers, Answer
<1>14. \A n : /\ LinkingIn(<<f>> \o v, n) <=> w = n \/ LinkingIn(v, n)
              /\ OpenedIn(<<f>> \o v, n) <=> OpenedIn(v, n)
              /\ BegunIn(<<f>> \o v, n) <=> BegunIn(v, n)
  BY <1>6, <1>9, PushedFrames
<1>15. \A n : /\ LinkingIn(stack, n)' <=> w = n \/ LinkingIn(stack, n)
              /\ OpenedIn(stack, n)' <=> OpenedIn(stack, n)
              /\ BegunIn(stack, n)' <=> BegunIn(stack, n)
              /\ Weight(stack, n)' = Weight(<<f>> \o v, n)
  BY <1>3, <1>8, <1>14 DEF LinkingIn, OpenedIn, BegunIn, Weight
<1>16. OnList'
  <2>1. ListIsLive' => \A n \in alive' : \E p \in DOMAIN solist' : solist'[p] = n
    BY <1>3, <1>7 DEF LinkInv, OnList
  <2>2. \A n \in Name : LinkingIn(stack, n)' => \E p \in DOMAIN solist' : solist'[p] = n
    BY <1>7, <1>15 DEF LinkInv, OnList
  <2>3. \A n \in (Lib \cap alive') \ linked' : LinkingIn(stack, n)'
    BY <1>3, <1>4, <1>15 DEF LinkInv, OnList
  <2> QED BY <1>7, <2>1, <2>2, <2>3 DEF OnList
<1>17. Constructors'
  <2>1. Live' => Live
    BY <1>4, <1>7 DEF Live
  <2>2. \A n : Loader(n) => Loader(n)'
    BY <1>4, <1>7 DEF Loader
  <2>3. \A n : Promised(stack, ret, n) => Promised(stack, ret, n)'
    BY <1>2, <1>15 DEF Promised
  <2>4. Live' => \A n \in (Lib \cap linked') \ called' : Loader(n)' \/ Promised(stack, ret, n)'
    BY <1>4, <2>1, <2>2, <2>3 DEF LinkInv, Constructors
  <2> QED BY <1>4, <1>15, <2>4 DEF LinkInv, Constructors
<1>18. Counts'
  <2> SUFFICES ASSUME NEW n \in Lib PROVE Total(n)' = Total(n)
    BY <1>4 DEF LinkInv, Counts
  <2>1. Carried(stack, ret, n) = 0 /\ Carried(stack, ret, n)' = 0
    BY <1>2, <1>3 DEF Carried
  <2>2. Load(f, n) = 0 /\ Weight(v, n) \in Nat /\ Weight(<<f>> \o v, n) = Weight(v, n) + Load(f, n)
    BY <1>6, <1>9, Loads, WeightPushed DEF Owns
  <2>3. Weight(stack, n)' = Weight(stack, n)
    BY <1>8, <1>15, <2>2
  <2> QED BY <1>4, <2>1, <2>3 DEF Total, Rest
<1> QED BY <1>10, <1>11, <1>12, <1>13, <1>16, <1>17, <1>18 DEF LinkInv

LEMMA LinkTops ==
  ASSUME LinkInv, NEW s, NEW t, Split(s, t), t.op = "link"
  PROVE  /\ t \in FrameSet /\ s \in Seq(FrameSet) /\ stack = <<t>> \o s /\ Shape(s) /\ Head(stack) = t
         /\ t.so \in Name /\ t.so \in Lib /\ t.so \in alive /\ t.so \notin linked /\ t.deps = <<>>
         /\ Needs[t.so] \in Seq(Name) /\ Len(Needs[t.so]) \in Nat /\ t.i \in 1 .. Len(Needs[t.so]) + 1
         /\ s # <<>> /\ Wants(Head(s), t.so) /\ \A n : Wants(Head(s), n) => n = t.so
         /\ Head(s) \in FramesOf(s) /\ (Head(s).op = "link" => Before(Head(s).so, t.so))
         /\ \A g \in FramesOf(s) : g.op \notin Closing \cup {"undo"}
         /\ \A g \in FramesOf(s) : g.op = "link" => g.so \notin linked /\ g.so # t.so
<1>1. /\ t \in FrameSet /\ s \in Seq(FrameSet) /\ stack = <<t>> \o s /\ Shape(s) /\ Head(stack) = t
      /\ t.so \in Name /\ Fits(t) /\ \A g \in FramesOf(s) : Under(g, t)
  BY FrameFields DEF Split
<1>2. t.so \in Lib /\ t.so \in alive /\ t.so \notin linked /\ t.deps = <<>> /\ t.i \in 1 .. Len(Needs[t.so]) + 1
  BY <1>1 DEF Fits
<1>3. Needs[t.so] \in Seq(Name) /\ Len(Needs[t.so]) \in Nat
  BY <1>2, DynamicAssumption
<1>4. s # <<>> /\ Calls(Head(s), t)
  BY DEF Split
<1>5. Wants(Head(s), t.so) /\ \A n : Wants(Head(s), n) => n = t.so
  BY <1>4 DEF Calls, Wants
<1>6. Head(s) \in FramesOf(s)
  BY <1>1, <1>4, PushedFrames
<1>7. Head(s).op = "link" => Before(Head(s).so, t.so)
  BY <1>1, <1>6 DEF Under
<1>8. \A g \in FramesOf(s) : g.op \notin Closing \cup {"undo"}
  BY NothingOwed DEF Closing
<1>9. \A g \in FramesOf(s) : g.op = "link" => g.so \notin linked /\ g.so # t.so
  <2> SUFFICES ASSUME NEW g \in FramesOf(s), g.op = "link" PROVE g.so \notin linked /\ g.so # t.so
    OBVIOUS
  <2>1. g.so \notin linked
    BY <1>1 DEF Shape, Fits
  <2>2. Before(g.so, t.so)
    BY <1>1 DEF Under
  <2>3. PICK p \in DOMAIN solist, q \in DOMAIN solist : p < q /\ solist[p] = g.so /\ solist[q] = t.so
    BY <2>2 DEF Before
  <2>4. solist \in Seq(Name) /\ p # q
    <3>1. DOMAIN solist \subseteq Nat
      BY LenProperties DEF LinkInv, LinkTypes
    <3> QED BY <2>3, <3>1 DEF LinkInv, LinkTypes
  <2>5. g.so # t.so
    BY <2>3, <2>4 DEF LinkInv, OnList
  <2> QED BY <2>1, <2>5
<1> QED BY <1>1, <1>2, <1>3, <1>4, <1>5, <1>6, <1>7, <1>8, <1>9

LEMMA LinkNeededKeeps ==
  ASSUME LinkInv, LinkNeeded
  PROVE  LinkInv'
<1>1. PICK s, t : Split(s, t)
  BY Splits DEF LinkNeeded, Running
<1>2. t.op = "link"
  BY <1>1 DEF LinkNeeded, Running, Split
<1> DEFINE u == [t EXCEPT !.i = t.i + 1]
           w == Needs[t.so][t.i]
<1>3. /\ ret = "found" /\ ret' = "none" /\ stack' = <<u>> \o s
      /\ needed' = [needed EXCEPT ![t.so] = Append(@, w)]
  BY <1>1 DEF LinkNeeded, Split, Goto
<1>4. /\ solist' = solist /\ somain' = somain /\ alive' = alive /\ linked' = linked /\ called' = called
      /\ ref' = ref /\ ready' = ready /\ held' = held /\ failed' = failed
  BY DEF LinkNeeded, listVars, guestVars
<1>5. /\ t \in FrameSet /\ s \in Seq(FrameSet) /\ stack = <<t>> \o s /\ Shape(s) /\ Head(stack) = t
      /\ t.so \in Name /\ t.so \in Lib /\ t.so \in alive /\ t.so \notin linked /\ t.deps = <<>>
      /\ Needs[t.so] \in Seq(Name) /\ Len(Needs[t.so]) \in Nat /\ t.i \in 1 .. Len(Needs[t.so]) + 1
      /\ \A g \in FramesOf(s) : g.op \notin Closing \cup {"undo"}
      /\ \A g \in FramesOf(s) : g.op = "link" => g.so \notin linked /\ g.so # t.so
  BY <1>1, <1>2, LinkTops
<1>6. t.i <= Len(Needs[t.so]) /\ w \in linked /\ \A n : Wants(t, n) <=> n = w
  BY <1>1, <1>2, <1>3 DEF Split, Answer, Wants
<1>7. w \in Name
  BY <1>6 DEF LinkInv, LinkTypes
<1>8. u \in FrameSet /\ u.op = "link" /\ u.so = t.so /\ u.i = t.i + 1 /\ u.deps = <<>>
  <2>1. t.i + 1 \in Nat
    BY <1>5
  <2> QED BY <1>2, <1>5, <2>1, FrameAt
<1> HIDE DEF u, w
<1>9. /\ needed \in [Name -> Seq(Name)] /\ needed' \in [Name -> Seq(Name)]
      /\ needed'[t.so] = Append(needed[t.so], w)
      /\ \A x \in Name : x # t.so => needed'[x] = needed[x]
  BY <1>3, <1>5, <1>7 DEF LinkInv, LinkTypes
<1>10. /\ DOMAIN needed[t.so] = 1 .. Len(needed[t.so]) /\ Len(needed[t.so]) \in Nat
       /\ DOMAIN needed'[t.so] = 1 .. Len(needed[t.so]) + 1
       /\ needed'[t.so][Len(needed[t.so]) + 1] = w
       /\ \A k \in 1 .. Len(needed[t.so]) : needed'[t.so][k] = needed[t.so][k]
  BY <1>5, <1>7, <1>9, LenProperties, AppendProperties
<1>11. /\ \A x \in Name : \A k \in DOMAIN needed[x] : k \in DOMAIN needed'[x] /\ needed'[x][k] = needed[x][k]
       /\ \A k \in DOMAIN needed'[t.so] : k \in DOMAIN needed[t.so] \/ needed'[t.so][k] = w
  <2>1. ASSUME NEW x \in Name, NEW k \in DOMAIN needed[x]
        PROVE  k \in DOMAIN needed'[x] /\ needed'[x][k] = needed[x][k]
    <3>1. CASE x = t.so
      <4>1. k \in 1 .. Len(needed[t.so]) /\ k \in 1 .. Len(needed[t.so]) + 1
        BY <1>10, <2>1, <3>1
      <4> QED BY <1>10, <3>1, <4>1
    <3>2. CASE x # t.so
      BY <1>9, <2>1, <3>2
    <3> QED BY <3>1, <3>2
  <2>2. \A k \in DOMAIN needed'[t.so] : k \in DOMAIN needed[t.so] \/ needed'[t.so][k] = w
    BY <1>10
  <2> QED BY <2>1, <2>2
<1>12. \A m, n : Before(m, n)' <=> Before(m, n)
  BY <1>4 DEF Before
<1>13. Shape(stack)' /\ stack' \in Seq(FrameSet) /\ stack' # <<>>
  <2>1. Shape(s)'
    <3>1. \A n \in linked : needed'[n] = needed[n]
      BY <1>5, <1>9 DEF LinkInv, LinkTypes
    <3> QED BY <1>4, <1>5, <1>12, <3>1, GrowShape DEF LinkInv
  <2>2. Fits(u)'
    <3>1. u.i \in 1 .. Len(Needs[t.so]) + 1
      BY <1>5, <1>6, <1>8
    <3> QED BY <1>4, <1>5, <1>8, <3>1 DEF Fits
  <2>3. IF s = <<>> THEN u.op \in {"open", "close"} ELSE Calls(Head(s), u)'
    BY <1>1, <1>2, <1>8 DEF Split, Calls
  <2>4. \A g \in FramesOf(s) : Under(g, u)'
    BY <1>1, <1>2, <1>5, <1>8, <1>12 DEF Split, Under
  <2>5. Shape(<<u>> \o s)'
    BY <1>5, <1>8, <2>1, <2>2, <2>3, <2>4, ShapePushes
  <2> QED BY <1>3, <1>5, <1>8, <2>5, Pushed
<1>14. LinkTypes'
  BY <1>3, <1>4, <1>9, <1>13 DEF LinkInv, LinkTypes, Rets
<1>15. Objects'
  <2>1. \A x \in Name : \A k \in DOMAIN needed'[x] : needed'[x][k] \in linked
    <3> SUFFICES ASSUME NEW x \in Name, NEW k \in DOMAIN needed'[x] PROVE needed'[x][k] \in linked
      OBVIOUS
    <3>1. CASE x = t.so
      BY <1>6, <1>10, <1>11, <3>1 DEF LinkInv, Objects
    <3>2. CASE x # t.so
      BY <1>9, <3>2 DEF LinkInv, Objects
    <3> QED BY <3>1, <3>2
  <2>2. t.so \notin Host /\ t.so \notin ready
    BY <1>5, NamesFinite DEF LinkInv, LinkTypes
  <2>3. \A n \in Host : needed'[n] = <<>>
    BY <1>9, <2>2, NamesFinite DEF LinkInv, Objects
  <2>4. \A n \in Name \ alive : needed'[n] = <<>>
    BY <1>5, <1>9 DEF LinkInv, Objects
  <2>5. \A x \in ready : x \in Name /\ needed'[x] = needed[x]
    BY <1>9, <2>2 DEF LinkInv, LinkTypes
  <2> QED BY <1>4, <2>1, <2>3, <2>4, <2>5 DEF LinkInv, Objects
<1>16. Answers'
  BY <1>3, <1>13 DEF Answers, Answer
<1>17. \A n : /\ LinkingIn(stack, n) <=> t.so = n \/ LinkingIn(s, n)
              /\ OpenedIn(stack, n) <=> OpenedIn(s, n)
              /\ BegunIn(stack, n) <=> BegunIn(s, n)
  BY <1>2, <1>5, PushedFrames
<1>18. \A n : /\ LinkingIn(<<u>> \o s, n) <=> t.so = n \/ LinkingIn(s, n)
              /\ OpenedIn(<<u>> \o s, n) <=> OpenedIn(s, n)
              /\ BegunIn(<<u>> \o s, n) <=> BegunIn(s, n)
  BY <1>5, <1>8, PushedFrames
<1>19. \A n : /\ LinkingIn(stack, n)' <=> LinkingIn(stack, n)
              /\ OpenedIn(stack, n)' <=> OpenedIn(stack, n)
              /\ BegunIn(stack, n)' <=> BegunIn(stack, n)
              /\ Weight(stack, n)' = Weight(<<u>> \o s, n)
  <2>1. \A n : /\ LinkingIn(stack, n)' <=> LinkingIn(<<u>> \o s, n)
               /\ OpenedIn(stack, n)' <=> OpenedIn(<<u>> \o s, n)
               /\ BegunIn(stack, n)' <=> BegunIn(<<u>> \o s, n)
               /\ Weight(stack, n)' = Weight(<<u>> \o s, n)
    BY <1>3 DEF LinkingIn, OpenedIn, BegunIn, Weight
  <2> QED BY <1>17, <1>18, <2>1
<1>20. OnList'
  <2>1. ListIsLive' <=> ListIsLive
    BY <1>4 DEF ListIsLive
  <2> QED BY <1>4, <1>19, <2>1 DEF LinkInv, OnList
<1>21. Constructors'
  <2>1. Live' <=> Live
    BY <1>4 DEF Live, ListIsLive
  <2>2. \A n : Loader(n) => Loader(n)'
    <3> SUFFICES ASSUME NEW n, Loader(n) PROVE Loader(n)'
      OBVIOUS
    <3>1. PICK x \in Name : Before(x, n) /\ \E k \in DOMAIN needed[x] : needed[x][k] = n
      BY DEF Loader
    <3>2. \E k \in DOMAIN needed'[x] : needed'[x][k] = n
      BY <1>11, <3>1
    <3> QED BY <1>12, <3>1, <3>2 DEF Loader
  <2>3. \A n : Promised(stack, ret, n) => Loader(n)' \/ Promised(stack, ret, n)'
    <3> SUFFICES ASSUME NEW n, Promised(stack, ret, n), ~OpenedIn(stack, n) PROVE Loader(n)'
      BY <1>19 DEF Promised
    <3>1. Wants(t, n) /\ Before(t.so, n)
      BY <1>2, <1>5 DEF Promised
    <3>2. n = w
      BY <1>6, <3>1
    <3>3. \E k \in DOMAIN needed'[t.so] : needed'[t.so][k] = n
      BY <1>10, <3>2
    <3> QED BY <1>5, <1>12, <3>1, <3>3 DEF Loader
  <2>4. Live' => \A n \in (Lib \cap linked') \ called' : Loader(n)' \/ Promised(stack, ret, n)'
    BY <1>4, <2>1, <2>2, <2>3 DEF LinkInv, Constructors
  <2> QED BY <1>4, <1>19, <2>4 DEF LinkInv, Constructors
<1>22. Counts'
  <2> SUFFICES ASSUME NEW n \in Lib PROVE Total(n)' = Total(n)
    BY <1>4 DEF LinkInv, Counts
  <2>1. Carried(stack, ret, n) = (IF w = n THEN 1 ELSE 0) /\ Carried(stack, ret, n)' = 0
    BY <1>3, <1>5, <1>6 DEF Carried
  <2>2. Load(u, n) = 0 /\ Load(t, n) = 0
    BY <1>2, <1>5, <1>8, Loads DEF Owns
  <2>3. Weight(stack, n)' = Weight(stack, n)
    <3>1. /\ Weight(<<u>> \o s, n) = Weight(s, n) + Load(u, n) /\ Weight(s, n) \in Nat
          /\ Weight(<<t>> \o s, n) = Weight(s, n) + Load(t, n)
      BY <1>5, <1>8, WeightPushed
    <3> QED BY <1>5, <1>19, <2>2, <3>1
  <2>4. Needed(needed, n)' = Needed(needed, n) + IF w = n THEN 1 ELSE 0
    <3>1. Needed(needed', n) = Needed(needed, n) + IF w = n THEN 1 ELSE 0
      <4>1. /\ needed \in [Name -> Seq(Name)] /\ needed' \in [Name -> Seq(Name)]
            /\ t.so \in Name /\ w \in Name
            /\ \A y \in Name \ {t.so} : needed'[y] = needed[y]
        BY <1>5, <1>7, <1>9
      <4>2. /\ Len(needed'[t.so]) = Len(needed[t.so]) + 1 /\ needed'[t.so][Len(needed[t.so]) + 1] = w
            /\ \A k \in 1 .. Len(needed[t.so]) : needed'[t.so][k] = needed[t.so][k]
        BY <1>10, <4>1, LenProperties
      <4>3. OneMore(needed, needed', t.so, w)
        BY <4>1, <4>2 DEF OneMore
      <4> QED BY <4>3, NeedsAppended
    <3>2. Needed(needed, n)' = Needed(needed', n)
      BY DEF Needed, Needing, NeedsOf
    <3> QED BY <3>1, <3>2
  <2>5. Needed(needed, n) \in Nat /\ held[n] \in Nat /\ Weight(stack, n) \in Nat
    BY RestIs
  <2>6. Total(n) = Needed(needed, n) + (held[n] + Weight(stack, n) + IF w = n THEN 1 ELSE 0)
    BY <2>1 DEF Total, Rest
  <2>7. Total(n)' = (Needed(needed, n) + IF w = n THEN 1 ELSE 0) + (held[n] + Weight(stack, n) + 0)
    BY <1>4, <2>1, <2>3, <2>4 DEF Total, Rest
  <2> QED BY <2>5, <2>6, <2>7
<1> QED BY <1>13, <1>14, <1>15, <1>16, <1>20, <1>21, <1>22 DEF LinkInv

LEMMA LinkDoneKeeps ==
  ASSUME LinkInv, LinkDone
  PROVE  LinkInv'
<1>1. PICK s, t : Split(s, t)
  BY Splits DEF LinkDone, Running
<1>2. t.op = "link"
  BY <1>1 DEF LinkDone, Running, Split
<1>3. /\ ret = "none" /\ ret' = "found" /\ stack' = s
      /\ linked' = linked \cup {t.so} /\ ref' = [ref EXCEPT ![t.so] = @ + 1]
  BY <1>1 DEF LinkDone, Split, Return, NowLinked, Referenced
<1>4. /\ solist' = solist /\ somain' = somain /\ alive' = alive /\ called' = called
      /\ needed' = needed /\ ready' = ready /\ held' = held /\ failed' = failed
  BY DEF LinkDone, listVars, guestVars
<1>5. /\ t \in FrameSet /\ s \in Seq(FrameSet) /\ stack = <<t>> \o s /\ Shape(s) /\ Head(stack) = t
      /\ t.so \in Name /\ t.so \in Lib /\ t.so \in alive /\ t.so \notin linked /\ t.deps = <<>>
      /\ s # <<>> /\ Wants(Head(s), t.so) /\ (\A n : Wants(Head(s), n) => n = t.so)
      /\ Head(s) \in FramesOf(s) /\ (Head(s).op = "link" => Before(Head(s).so, t.so))
      /\ \A g \in FramesOf(s) : g.op \notin Closing \cup {"undo"}
      /\ \A g \in FramesOf(s) : g.op = "link" => g.so \notin linked /\ g.so # t.so
  BY <1>1, <1>2, LinkTops
<1>6. \A m, n : Before(m, n)' <=> Before(m, n)
  BY <1>4 DEF Before
<1>7. Shape(stack)'
  <2>1. Shape(s)'
    BY <1>3, <1>4, <1>5, <1>6, GrowShape DEF LinkInv
  <2> QED BY <1>3, <2>1
<1>8. LinkTypes'
  BY <1>3, <1>4, <1>5 DEF LinkInv, LinkTypes, Rets
<1>9. Objects'
  <2>1. \A n \in Lib : n \in linked' <=> ref'[n] # 0
    BY <1>3, <1>5, NamesFinite DEF LinkInv, LinkTypes, Objects
  <2> QED BY <1>3, <1>4, <2>1 DEF LinkInv, Objects
<1>10. Answers'
  <2>1. PICK h : h = Head(s)
    OBVIOUS
  <2>2. Wants(h, t.so)'
    BY <1>5, <2>1 DEF Wants
  <2>3. Answer(h, "found")'
    BY <1>3, <2>2 DEF Answer
  <2> QED BY <1>3, <1>5, <2>1, <2>3 DEF Answers
<1>11. \A n : /\ LinkingIn(stack, n) <=> t.so = n \/ LinkingIn(s, n)
              /\ OpenedIn(stack, n) <=> OpenedIn(s, n)
              /\ BegunIn(stack, n) <=> BegunIn(s, n)
  BY <1>2, <1>5, PushedFrames
<1>12. \A n : /\ LinkingIn(stack, n)' <=> LinkingIn(s, n)
              /\ OpenedIn(stack, n)' <=> OpenedIn(s, n)
              /\ BegunIn(stack, n)' <=> BegunIn(s, n)
              /\ Weight(stack, n)' = Weight(s, n)
  BY <1>3 DEF LinkingIn, OpenedIn, BegunIn, Weight
<1>13. OnList'
  <2>1. ListIsLive' <=> ListIsLive
    BY <1>4 DEF ListIsLive
  <2>2. \A n \in (Lib \cap alive') \ linked' : LinkingIn(stack, n)'
    BY <1>3, <1>4, <1>11, <1>12 DEF LinkInv, OnList
  <2> QED BY <1>4, <1>11, <1>12, <2>1, <2>2 DEF LinkInv, OnList
<1>14. Constructors'
  <2>1. Live' <=> Live
    BY <1>4 DEF Live, ListIsLive
  <2>2. \A n : Loader(n) => Loader(n)'
    BY <1>4, <1>6 DEF Loader
  <2>3. \A n : Promised(stack, ret, n) => Promised(stack, ret, n)'
    BY <1>3, <1>11, <1>12 DEF Promised
  <2>4. Promised(stack, ret, t.so)'
    <3>1. PICK h : h = Head(s)
      OBVIOUS
    <3>2. Wants(h, t.so)' /\ (h.op = "link" => Before(h.so, t.so)')
      BY <1>5, <1>6, <3>1 DEF Wants
    <3> QED BY <1>3, <3>1, <3>2 DEF Promised
  <2>5. Live' => \A n \in (Lib \cap linked') \ called' : Loader(n)' \/ Promised(stack, ret, n)'
    BY <1>3, <1>4, <2>1, <2>2, <2>3, <2>4 DEF LinkInv, Constructors
  <2> QED BY <1>4, <1>11, <1>12, <2>5 DEF LinkInv, Constructors
<1>15. Counts'
  <2> SUFFICES ASSUME NEW n \in Lib PROVE (Total(n) <= ref[n] /\ (failed = 0 => Total(n) = ref[n]))'
    BY DEF Counts
  <2>1. Carried(stack, ret, n) = 0 /\ Carried(stack, ret, n)' = IF n = t.so THEN 1 ELSE 0
    BY <1>3, <1>5 DEF Carried
  <2>2. Weight(stack, n)' = Weight(stack, n)
    <3>1. Load(t, n) = 0 /\ Weight(s, n) \in Nat /\ Weight(stack, n) = Weight(s, n) + Load(t, n)
      BY <1>1, <1>2, Weighs DEF Owns
    <3> QED BY <1>12, <3>1
  <2>3. /\ held[n] \in Nat /\ ref[n] \in Nat /\ Weight(stack, n) \in Nat /\ Needed(needed, n) \in Nat
        /\ Needed(needed, n) + (held[n] + Weight(stack, n) + 0) <= ref[n]
        /\ failed = 0 => Needed(needed, n) + (held[n] + Weight(stack, n) + 0) = ref[n]
    BY <2>1, RestIs
  <2>4. Total(n)' = Needed(needed, n) + (held[n] + Weight(stack, n) + IF n = t.so THEN 1 ELSE 0)
    BY <1>4, <2>1, <2>2 DEF Total, Rest
  <2>5. ref'[n] = ref[n] + IF n = t.so THEN 1 ELSE 0
    BY <1>3, <1>5, <2>3, NamesFinite DEF LinkInv, LinkTypes
  <2> QED BY <1>4, <2>3, <2>4, <2>5
<1> QED BY <1>7, <1>8, <1>9, <1>10, <1>13, <1>14, <1>15 DEF LinkInv

-----------------------------------------------------------------------------
(* Steps that give references back                                         *)

LEMMA Least ==
  ASSUME NEW T \in SUBSET Nat, T # {}
  PROVE  \E p \in T : \A q \in T : p <= q
<1>1. PICK R : R = OpToRel(<, Nat)
  OBVIOUS
<1>2. IsWellFoundedOn(R, Nat)
  BY <1>1, NatLessThanWellFounded
<1>3. PICK p \in T : \A q \in T : ~ (<<q, p>> \in R)
  BY <1>2, WFMin
<1>4. \A q \in T : q < p => <<q, p>> \in R
  BY <1>1 DEF OpToRel
<1>5. p \in Nat /\ \A q \in T : q \in Nat /\ ~ (q < p)
  BY <1>3, <1>4
<1> QED BY <1>5

(* Only references change, and of no library that is being finalized.      *)
LEMMA RefShape ==
  ASSUME NEW s \in Seq(FrameSet), Shape(s),
         solist' = solist, alive' = alive, linked' = linked, called' = called,
         needed' = needed, ready' = ready, failed' = failed,
         \A f \in FramesOf(s) : f.op = "fini" => ref'[f.so] = ref[f.so]
  PROVE  Shape(s)'
<1>1. Live' <=> Live
  BY DEF Live, ListIsLive
<1>2. \A f \in FramesOf(s) : Fits(f) => Fits(f)'
  BY <1>1 DEF Fits
<1>3. \A f, g \in FramesOf(s) : Calls(f, g) => Calls(f, g)'
  BY DEF Calls
<1>4. \A f, g \in FramesOf(s) : Under(f, g) => Under(f, g)'
  BY DEF Under, Before
<1> QED BY <1>2, <1>3, <1>4, ShapeStays

LEMMA DlcloseNullKeeps ==
  ASSUME LinkInv, DlcloseNull
  PROVE  LinkInv'
<1>1. PICK h : /\ h = solist[CHOOSE p \in HostEntries : \A q \in HostEntries : p <= q]
               /\ ref' = [ref EXCEPT ![h] = IF @ > 0 THEN @ - 1 ELSE 0]
  BY DEF DlcloseNull
<1>2. /\ solist' = solist /\ somain' = somain /\ alive' = alive /\ linked' = linked /\ called' = called
      /\ needed' = needed /\ ready' = ready /\ held' = held /\ failed' = failed
      /\ stack' = stack /\ ret' = ret /\ ret = "none"
  BY DEF DlcloseNull, listVars, GuestTurn
<1>3. h \in Host
  <2>1. HostEntries # {} /\ DOMAIN solist \subseteq Nat
    BY LenProperties DEF DlcloseNull, LinkInv, LinkTypes
  <2>2. \E p \in HostEntries : \A q \in HostEntries : p <= q
    BY <2>1, Least DEF HostEntries
  <2>3. (CHOOSE p \in HostEntries : \A q \in HostEntries : p <= q) \in HostEntries
    BY <2>2
  <2> QED BY <1>1, <2>3 DEF HostEntries
<1>4. ref' \in [Name -> Nat] /\ \A n \in Lib : ref'[n] = ref[n]
  <2>1. ref \in [Name -> Nat] /\ h \in Name /\ h \notin Lib
    BY <1>3, NamesFinite DEF LinkInv, LinkTypes
  <2>2. (IF ref[h] > 0 THEN ref[h] - 1 ELSE 0) \in Nat
    BY <2>1
  <2> QED BY <1>1, <2>1, <2>2, NamesFinite
<1>5. Shape(stack)'
  <2>1. PICK v : v = stack
    OBVIOUS
  <2>2. v \in Seq(FrameSet) /\ Shape(v)
    BY <2>1 DEF LinkInv, LinkTypes
  <2>3. \A f \in FramesOf(v) : f.op = "fini" => ref'[f.so] = ref[f.so]
    BY <1>4, <2>2 DEF Shape, Fits
  <2>4. Shape(v)'
    BY <1>2, <2>2, <2>3, RefShape
  <2> QED BY <1>2, <2>1, <2>4
<1>6. LinkTypes'
  BY <1>2, <1>4 DEF LinkInv, LinkTypes
<1>7. Objects'
  BY <1>2, <1>4 DEF LinkInv, Objects
<1>8. Answers'
  BY <1>2 DEF Answers, Answer
<1>9. ListIsLive' <=> ListIsLive
  BY <1>2 DEF ListIsLive
<1>10. OnList'
  BY <1>2, <1>9, SameStack DEF LinkInv, OnList
<1>11. Constructors'
  <2>1. Live' <=> Live
    BY <1>2, <1>9 DEF Live
  <2>2. \A n : Loader(n) => Loader(n)'
    BY <1>2 DEF Loader, Before
  <2>3. \A n : Promised(stack, ret, n) => Promised(stack, ret, n)'
    BY <1>2, SameStack DEF Promised
  <2> QED BY <1>2, <2>1, <2>2, <2>3, SameStack DEF LinkInv, Constructors
<1>12. Counts'
  <2> SUFFICES ASSUME NEW n \in Lib PROVE Total(n)' = Total(n) /\ ref'[n] = ref[n]
    BY <1>2 DEF LinkInv, Counts
  <2>1. Carried(stack, ret, n) = 0 /\ Carried(stack, ret, n)' = 0
    BY <1>2 DEF Carried
  <2> QED BY <1>2, <1>4, <2>1, SameStack DEF Total, Rest
<1> QED BY <1>5, <1>6, <1>7, <1>8, <1>10, <1>11, <1>12 DEF LinkInv

LEMMA UnloadCountsKeeps ==
  ASSUME LinkInv, UnloadCounts
  PROVE  LinkInv'
<1>1. PICK s, t : Split(s, t)
  BY Splits DEF UnloadCounts, Running
<1>2. /\ t.op = "unload" /\ ret = "none" /\ ~(t.so \in Lib /\ ref[t.so] = 1) /\ stack' = s /\ ret' = "ok"
      /\ ref' = [ref EXCEPT ![t.so] = IF @ > 0 THEN @ - 1 ELSE 0]
  BY <1>1 DEF UnloadCounts, Running, Split, Return, LastReference
<1>3. /\ solist' = solist /\ somain' = somain /\ alive' = alive /\ linked' = linked /\ called' = called
      /\ needed' = needed /\ ready' = ready /\ held' = held /\ failed' = failed
  BY DEF UnloadCounts, listVars, guestVars
<1>4. /\ t \in FrameSet /\ s \in Seq(FrameSet) /\ stack = <<t>> \o s /\ Shape(s) /\ t.so \in Name /\ t.so \in linked
      /\ s # <<>> /\ ((Head(s).op = "close" /\ Head(s).so = t.so) \/ Head(s).op \in {"release", "undo"})
  BY <1>1, <1>2, FrameFields DEF Split, Fits, Calls
<1>5. /\ ref' \in [Name -> Nat]
      /\ \A n \in Lib : /\ ref[n] \in Nat /\ (n = t.so => ref[n] > 1)
                        /\ ref'[n] = ref[n] - IF n = t.so THEN 1 ELSE 0
  <2>1. ref \in [Name -> Nat]
    BY DEF LinkInv, LinkTypes
  <2>2. t.so \in Lib => ref[t.so] > 1
    BY <1>2, <1>4, <2>1 DEF LinkInv, Objects
  <2>3. (IF ref[t.so] > 0 THEN ref[t.so] - 1 ELSE 0) \in Nat
    BY <1>4, <2>1
  <2> QED BY <1>2, <1>4, <2>1, <2>2, <2>3, NamesFinite
<1>6. Shape(stack)'
  <2>1. \A f \in FramesOf(s) : f.op = "fini" => ref'[f.so] = ref[f.so]
    <3> SUFFICES ASSUME NEW f \in FramesOf(s), f.op = "fini" PROVE ref'[f.so] = ref[f.so]
      OBVIOUS
    <3>1. f.so \in Lib /\ ref[f.so] = 1
      BY <1>4 DEF Shape, Fits
    <3> QED BY <3>1, <1>5
  <2>2. Shape(s)'
    BY <1>3, <1>4, <2>1, RefShape
  <2> QED BY <1>2, <2>2
<1>7. LinkTypes'
  BY <1>2, <1>3, <1>4, <1>5 DEF LinkInv, LinkTypes, Rets
<1>8. Objects'
  <2>1. \A n \in Lib : ref'[n] # 0 <=> ref[n] # 0
    BY <1>5
  <2> QED BY <1>3, <2>1 DEF LinkInv, Objects
<1>9. Answers'
  BY <1>2, <1>4 DEF Answers, Answer
<1>10. ListIsLive' <=> ListIsLive
  BY <1>3 DEF ListIsLive
<1>11. \A n : /\ LinkingIn(stack, n) <=> LinkingIn(s, n)
              /\ OpenedIn(stack, n) <=> OpenedIn(s, n)
              /\ BegunIn(stack, n) <=> BegunIn(s, n)
  BY <1>2, <1>4, PushedFrames
<1>12. \A n : /\ LinkingIn(stack, n)' <=> LinkingIn(s, n)
              /\ OpenedIn(stack, n)' <=> OpenedIn(s, n)
              /\ BegunIn(stack, n)' <=> BegunIn(s, n)
              /\ Weight(stack, n)' = Weight(s, n)
  BY <1>2 DEF LinkingIn, OpenedIn, BegunIn, Weight
<1>13. OnList'
  BY <1>3, <1>10, <1>11, <1>12 DEF LinkInv, OnList
<1>14. Constructors'
  <2>1. Live' <=> Live
    BY <1>3, <1>10 DEF Live
  <2>2. \A n : Loader(n) => Loader(n)'
    BY <1>3 DEF Loader, Before
  <2>3. \A n : Promised(stack, ret, n) => Promised(stack, ret, n)'
    BY <1>2, <1>11, <1>12 DEF Promised
  <2> QED BY <1>3, <1>11, <1>12, <2>1, <2>2, <2>3 DEF LinkInv, Constructors
<1>15. Counts'
  <2> SUFFICES ASSUME NEW n \in Lib PROVE (Total(n) <= ref[n] /\ (failed = 0 => Total(n) = ref[n]))'
    BY DEF Counts
  <2>1. Carried(stack, ret, n) = 0 /\ Carried(stack, ret, n)' = 0
    BY <1>2 DEF Carried
  <2>2. Weight(stack, n) = Weight(stack, n)' + (IF n = t.so THEN 1 ELSE 0) /\ Weight(stack, n)' \in Nat
    <3>1. Load(t, n) = (IF n = t.so THEN 1 ELSE 0) /\ Weight(s, n) \in Nat /\ Weight(stack, n) = Weight(s, n) + Load(t, n)
      BY <1>1, <1>2, Weighs DEF Owns
    <3> QED BY <1>12, <3>1
  <2>3. /\ held[n] \in Nat /\ ref[n] \in Nat /\ Needed(needed, n) \in Nat
        /\ Needed(needed, n) + (held[n] + Weight(stack, n) + 0) <= ref[n]
        /\ failed = 0 => Needed(needed, n) + (held[n] + Weight(stack, n) + 0) = ref[n]
    BY <2>1, RestIs
  <2>4. Total(n)' = Needed(needed, n) + (held[n] + Weight(stack, n)' + 0)
    BY <1>3, <2>1 DEF Total, Rest
  <2>5. ref'[n] = ref[n] - IF n = t.so THEN 1 ELSE 0
    BY <1>5
  <2> QED BY <1>3, <2>2, <2>3, <2>4, <2>5
<1> QED BY <1>6, <1>7, <1>8, <1>9, <1>13, <1>14, <1>15 DEF LinkInv

-----------------------------------------------------------------------------
(* Steps that delete a library                                             *)

(* Nothing a frame follows is the deleted library.                         *)
Forgotten(s, x) ==
    /\ \A f \in FramesOf(s) :
         /\ f.so = x => f.op \notin {"link", "ctor", "init", "unload", "fini"}
         /\ f.so = x => ~(f.op = "open" /\ f.i = 1)
         /\ \A k \in DOMAIN f.deps : f.deps[k] # x
    /\ \A y \in Name : \A k \in DOMAIN needed[y] : needed[y][k] # x

LEMMA GoneShape ==
  ASSUME LinkTypes, NEW s \in Seq(FrameSet), Shape(s), NEW x, Forgotten(s, x),
         alive' = alive \ {x}, linked' = linked \ {x}, called' = called \ {x}, ready' = ready \ {x},
         \A n \in Name \ {x} : needed'[n] = needed[n] /\ ref'[n] = ref[n],
         Live' => Live,
         \A f, g \in FramesOf(s) :
            f.op = "link" /\ g.op = "link" /\ Before(f.so, g.so) => Before(f.so, g.so)'
  PROVE  Shape(s)'
<1>1. \A f \in FramesOf(s) : Fits(f) /\ f \in FrameSet /\ f.so \in Name
  BY ElementOfSeq, FrameFields DEF Shape, FramesOf
<1>2. \A f \in FramesOf(s) : Fits(f)'
  <2> SUFFICES ASSUME NEW f \in FramesOf(s) PROVE Fits(f)'
    OBVIOUS
  <2>1. \A k \in DOMAIN f.deps : f.deps[k] \in linked'
    BY <1>1 DEF Fits, Forgotten
  <2>2. CASE f.op = "open"
    BY <1>1, <2>1, <2>2 DEF Fits, Forgotten
  <2>3. CASE f.op \in {"ctor", "init"}
    <3>1. f.so # x /\ f.so \in linked /\ needed'[f.so] = needed[f.so] /\ f.so \in Name
      BY <1>1, <2>3 DEF Fits, Forgotten
    <3>2. \A k \in DOMAIN needed[f.so] : needed[f.so][k] # x
      BY <3>1 DEF Forgotten
    <3>3. needed[f.so] \in Seq(Name) /\ DOMAIN needed[f.so] = 1 .. Len(needed[f.so]) /\ Len(needed[f.so]) \in Nat
      BY <3>1, LenProperties DEF LinkTypes
    <3>4. CASE f.op = "init"
      BY <1>1, <2>1, <3>1, <3>2, <3>4 DEF Fits
    <3>5. CASE f.op = "ctor"
      <4>1. \A k \in 1 .. f.i - 1 : needed[f.so][k] \in called'
        <5> SUFFICES ASSUME NEW k \in 1 .. f.i - 1 PROVE needed[f.so][k] \in called'
          OBVIOUS
        <5>1. needed[f.so][k] \in called /\ f.i <= Len(needed[f.so]) + 1 /\ f.i \in Nat
          BY <1>1, <3>5, FrameFields DEF Fits
        <5>2. k \in DOMAIN needed[f.so]
          BY <3>3, <5>1
        <5> QED BY <3>2, <5>1, <5>2
      <4> QED BY <1>1, <2>1, <3>1, <3>5, <4>1 DEF Fits
    <3> QED BY <2>3, <3>4, <3>5
  <2>4. CASE f.op = "link"
    BY <1>1, <2>1, <2>4 DEF Fits, Forgotten
  <2>5. CASE f.op = "fini"
    <3>1. f.so # x /\ ref'[f.so] = ref[f.so]
      BY <1>1, <2>5 DEF Forgotten
    <3> QED BY <1>1, <2>1, <2>5, <3>1 DEF Fits
  <2>6. CASE f.op \notin {"open", "ctor", "init", "link", "fini"}
    BY <1>1, <2>1, <2>6 DEF Fits, Forgotten
  <2> QED BY <2>2, <2>3, <2>4, <2>5, <2>6
<1>3. \A f, g \in FramesOf(s) : Calls(f, g) => Calls(f, g)'
  <2> SUFFICES ASSUME NEW f \in FramesOf(s), NEW g \in FramesOf(s), Calls(f, g) PROVE Calls(f, g)'
    OBVIOUS
  <2>1. f.op = "ctor" => needed'[f.so] = needed[f.so]
    BY <1>1 DEF Forgotten
  <2> QED BY <2>1 DEF Calls
<1>4. \A f, g \in FramesOf(s) : Under(f, g) => Under(f, g)'
  BY DEF Under
<1> QED BY <1>2, <1>3, <1>4, ShapeStays

(* The list without the entry e.                                           *)
Thinned(e) ==
    /\ e \in DOMAIN solist /\ solist' \in Seq(Name) /\ DOMAIN solist' = 1 .. Len(solist) - 1
    /\ \A p \in 1 .. Len(solist) - 1 : solist'[p] = solist[IF p < e THEN p ELSE p + 1]

LEMMA ThinnedList ==
  ASSUME LinkInv, NEW e, Thinned(e), alive' \subseteq alive
  PROVE  /\ \A p, q \in DOMAIN solist' : solist'[p] = solist'[q] => p = q
         /\ \A p \in DOMAIN solist : solist[p] # solist[e] => \E q \in DOMAIN solist' : solist'[q] = solist[p]
         /\ \A m, n : Before(m, n) /\ m # solist[e] /\ n # solist[e] => Before(m, n)'
         /\ ListIsLive' /\ solist[e] \in alive => ListIsLive
<1>1. /\ solist \in Seq(Name) /\ DOMAIN solist = 1 .. Len(solist) /\ Len(solist) \in Nat
      /\ \A p, q \in DOMAIN solist : solist[p] = solist[q] => p = q
  BY LenProperties DEF LinkInv, LinkTypes, OnList
<1>2. /\ e \in 1 .. Len(solist) /\ DOMAIN solist' = 1 .. Len(solist) - 1
      /\ \A p \in 1 .. Len(solist) - 1 : solist'[p] = solist[IF p < e THEN p ELSE p + 1]
  BY <1>1 DEF Thinned
<1>3. ASSUME NEW p \in DOMAIN solist', NEW q \in DOMAIN solist', solist'[p] = solist'[q] PROVE p = q
  <2> DEFINE a == IF p < e THEN p ELSE p + 1
             b == IF q < e THEN q ELSE q + 1
  <2>1. a \in 1 .. Len(solist) /\ b \in 1 .. Len(solist)
    BY <1>1, <1>2
  <2>2. solist'[p] = solist[a] /\ solist'[q] = solist[b]
    BY <1>2
  <2>3. a = b
    <3> HIDE DEF a, b
    <3> QED BY <1>1, <1>3, <2>1, <2>2
  <2> QED BY <1>1, <1>2, <2>3
<1> DEFINE at(p) == IF p < e THEN p ELSE p - 1
<1>4. ASSUME NEW p \in 1 .. Len(solist), p # e
      PROVE  at(p) \in 1 .. Len(solist) - 1 /\ solist'[at(p)] = solist[p]
  <2>1. CASE p < e
    <3>1. p \in 1 .. Len(solist) - 1
      BY <1>1, <1>2, <2>1
    <3> QED BY <1>2, <2>1, <3>1
  <2>2. CASE ~(p < e)
    <3>1. p - 1 \in 1 .. Len(solist) - 1 /\ ~(p - 1 < e) /\ (p - 1) + 1 = p
      BY <1>1, <1>2, <1>4, <2>2
    <3> QED BY <1>2, <2>2, <3>1
  <2> QED BY <2>1, <2>2
<1>5. \A p, q \in 1 .. Len(solist) : p # e /\ q # e /\ p < q => at(p) < at(q)
  BY <1>1, <1>2
<1> HIDE DEF at
<1>6. \A p \in DOMAIN solist : solist[p] # solist[e] => \E q \in DOMAIN solist' : solist'[q] = solist[p]
  <2> SUFFICES ASSUME NEW p \in DOMAIN solist, solist[p] # solist[e]
               PROVE  \E q \in DOMAIN solist' : solist'[q] = solist[p]
    OBVIOUS
  <2>1. p \in 1 .. Len(solist) /\ p # e
    BY <1>1
  <2> QED BY <1>2, <1>4, <2>1
<1>7. ASSUME NEW m, NEW n, Before(m, n), m # solist[e], n # solist[e] PROVE Before(m, n)'
  <2>1. PICK p \in DOMAIN solist, q \in DOMAIN solist : p < q /\ solist[p] = m /\ solist[q] = n
    BY <1>7 DEF Before
  <2>2. p \in 1 .. Len(solist) /\ q \in 1 .. Len(solist) /\ p # e /\ q # e
    BY <1>1, <1>7, <2>1
  <2>3. /\ at(p) \in DOMAIN solist' /\ at(q) \in DOMAIN solist' /\ at(p) < at(q)
        /\ solist'[at(p)] = m /\ solist'[at(q)] = n
    BY <1>2, <1>4, <1>5, <2>1, <2>2
  <2> QED BY <2>3 DEF Before
<1>8. ListIsLive' /\ solist[e] \in alive => ListIsLive
  <2> SUFFICES ASSUME ListIsLive', solist[e] \in alive, NEW p \in DOMAIN solist PROVE solist[p] \in alive
    BY DEF ListIsLive
  <2>1. CASE solist[p] = solist[e]
    BY <2>1
  <2>2. CASE solist[p] # solist[e]
    <3>1. PICK q \in DOMAIN solist' : solist'[q] = solist[p]
      BY <1>6, <2>2
    <3>2. solist'[q] \in alive'
      BY DEF ListIsLive
    <3> QED BY <3>1, <3>2
  <2> QED BY <2>1, <2>2
<1> QED BY <1>3, <1>6, <1>7, <1>8

(* The fields of the objects once x is deleted.                            *)
LEMMA DeletedFields ==
  ASSUME LinkInv, NEW x \in Lib, Deleted(x)
  PROVE  /\ alive' = alive \ {x} /\ linked' = linked \ {x} /\ called' = called \ {x} /\ ready' = ready \ {x}
         /\ ref' \in [Name -> Nat] /\ needed' \in [Name -> Seq(Name)]
         /\ \A n \in Name \ {x} : needed'[n] = needed[n] /\ ref'[n] = ref[n]
         /\ ref'[x] = 0 /\ needed'[x] = <<>> /\ NeedsGone(needed, needed', x)
         /\ somain' \in Name \cup {NoLibrary} /\ (somain' # NoLibrary => somain' \in alive')
<1>1. /\ alive' = alive \ {x} /\ linked' = linked \ {x} /\ called' = called \ {x} /\ ready' = ready \ {x}
      /\ ref' = [ref EXCEPT ![x] = 0] /\ needed' = [needed EXCEPT ![x] = <<>>]
      /\ somain' = IF somain = x THEN NoLibrary ELSE somain
  BY DEF Deleted
<1>2. x \in Name /\ ref \in [Name -> Nat] /\ needed \in [Name -> Seq(Name)]
  BY NamesFinite DEF LinkInv, LinkTypes
<1>3. <<>> \in Seq(Name)
  OBVIOUS
<1>4. /\ ref' \in [Name -> Nat] /\ needed' \in [Name -> Seq(Name)]
      /\ \A n \in Name \ {x} : needed'[n] = needed[n] /\ ref'[n] = ref[n]
      /\ ref'[x] = 0 /\ needed'[x] = <<>>
  BY <1>1, <1>2, <1>3
<1>5. NeedsGone(needed, needed', x)
  BY <1>2, <1>4 DEF NeedsGone
<1>6. somain' \in Name \cup {NoLibrary} /\ (somain' # NoLibrary => somain' \in alive')
  BY <1>1 DEF LinkInv, LinkTypes, Objects
<1> QED BY <1>1, <1>4, <1>5, <1>6

(* What the list keeps when x goes.                                        *)
ListLoses(s, x) ==
    /\ solist' \in Seq(Name)
    /\ \A p, q \in DOMAIN solist' : solist'[p] = solist'[q] => p = q
    /\ \A n \in Name : LinkingIn(s, n) => \E p \in DOMAIN solist' : solist'[p] = n
    /\ \A f, g \in FramesOf(s) :
          f.op = "link" /\ g.op = "link" /\ Before(f.so, g.so) => Before(f.so, g.so)'
    /\ ListIsLive' => ListIsLive
    /\ ListIsLive' => \A m, n \in Name \ {x} : Before(m, n) => Before(m, n)'
    /\ ListIsLive' => \A n \in Name \ {x} :
          (\E p \in DOMAIN solist : solist[p] = n) => \E p \in DOMAIN solist' : solist'[p] = n
    /\ Live' => \A n : Before(x, n) /\ (\E k \in DOMAIN needed[x] : needed[x][k] = n) => n \in called

(* A frame u that gives back what the deleted library needs takes the      *)
(* place of the frame t that deleted it.                                   *)
LEMMA Deletes ==
  ASSUME LinkInv, NEW s, NEW t, Split(s, t), NEW x \in Lib, x = t.so, Deleted(x),
         t.op \in {"link", "unload"}, ret \in {"none", "null", "ok"}, ret' = "none",
         held' = held, failed' = failed,
         NEW u \in FrameSet, stack' = <<u>> \o s, u.so = x, u.deps = needed[x],
         u.op = IF t.op = "link" THEN "undo" ELSE "release",
         ref[x] = IF t.op = "link" THEN 0 ELSE 1,
         Forgotten(s, x),
         ListLoses(s, x)
  PROVE  LinkInv'
<1>0. /\ solist' \in Seq(Name)
      /\ \A p, q \in DOMAIN solist' : solist'[p] = solist'[q] => p = q
      /\ \A n \in Name : LinkingIn(s, n) => \E p \in DOMAIN solist' : solist'[p] = n
      /\ \A f, g \in FramesOf(s) :
            f.op = "link" /\ g.op = "link" /\ Before(f.so, g.so) => Before(f.so, g.so)'
      /\ ListIsLive' => ListIsLive
      /\ ListIsLive' => \A m, n \in Name \ {x} : Before(m, n) => Before(m, n)'
      /\ ListIsLive' => \A n \in Name \ {x} :
            (\E p \in DOMAIN solist : solist[p] = n) => \E p \in DOMAIN solist' : solist'[p] = n
      /\ Live' => \A n : Before(x, n) /\ (\E k \in DOMAIN needed[x] : needed[x][k] = n) => n \in called
  BY DEF ListLoses
<1>1. /\ t \in FrameSet /\ s \in Seq(FrameSet) /\ stack = <<t>> \o s /\ Shape(s) /\ Head(stack) = t
      /\ s # <<>> /\ Calls(Head(s), t) /\ \A g \in FramesOf(s) : Under(g, t)
  BY DEF Split
<1>2. /\ alive' = alive \ {x} /\ linked' = linked \ {x} /\ called' = called \ {x} /\ ready' = ready \ {x}
      /\ ref' \in [Name -> Nat] /\ needed' \in [Name -> Seq(Name)]
      /\ \A n \in Name \ {x} : needed'[n] = needed[n] /\ ref'[n] = ref[n]
      /\ ref'[x] = 0 /\ needed'[x] = <<>> /\ NeedsGone(needed, needed', x)
      /\ somain' \in Name \cup {NoLibrary} /\ (somain' # NoLibrary => somain' \in alive')
  BY DeletedFields
<1>3. x \in Name /\ x \notin Host /\ needed[x] \in Seq(Name)
  BY NamesFinite DEF LinkInv, LinkTypes
<1>4. \A y \in Name : \A k \in DOMAIN needed[y] : needed[y][k] \in linked'
  BY <1>2 DEF Forgotten, LinkInv, Objects
<1>5. Live' => Live
  BY <1>0 DEF Live
<1>6. Shape(stack)' /\ stack' \in Seq(FrameSet) /\ stack' # <<>>
  <2>1. Shape(s)'
    BY <1>0, <1>1, <1>2, <1>5, GoneShape DEF LinkInv
  <2>2. Fits(u)'
    BY <1>2, <1>3, <1>4 DEF Fits
  <2>3. Calls(Head(s), u)'
    BY <1>1 DEF Calls
  <2>4. \A g \in FramesOf(s) : Under(g, u)'
    <3>1. CASE t.op = "link"
      <4>1. \A g \in FramesOf(s) : g.op \notin Closing \cup {"undo"}
        BY <3>1, NothingOwed DEF Closing
      <4> QED BY <3>1, <4>1 DEF Under
    <3>2. CASE t.op = "unload"
      BY <3>2 DEF Under, Closing
    <3> QED BY <3>1, <3>2
  <2>5. Shape(<<u>> \o s)'
    BY <1>1, <2>1, <2>2, <2>3, <2>4, ShapePushes
  <2> QED BY <1>1, <2>5, Pushed
<1>7. LinkTypes'
  BY <1>0, <1>2, <1>6 DEF LinkInv, LinkTypes, Rets
<1>8. Objects'
  <2>1. \A n \in Host : (n \in alive' => n \in linked') /\ needed'[n] = <<>>
    BY <1>2, <1>3, NamesFinite DEF LinkInv, Objects
  <2>2. \A n \in Name \ alive' : needed'[n] = <<>>
    BY <1>2 DEF LinkInv, Objects
  <2>3. \A y \in Name : \A k \in DOMAIN needed'[y] : needed'[y][k] \in linked'
    <3> SUFFICES ASSUME NEW y \in Name, NEW k \in DOMAIN needed'[y] PROVE needed'[y][k] \in linked'
      OBVIOUS
    <3>1. y # x
      BY <1>2
    <3> QED BY <1>2, <1>4, <3>1
  <2>4. \A n \in Lib : n \in linked' <=> ref'[n] # 0
    <3> SUFFICES ASSUME NEW n \in Lib PROVE n \in linked' <=> ref'[n] # 0
      OBVIOUS
    <3>1. CASE n = x
      BY <1>2, <3>1
    <3>2. CASE n # x
      <4>1. ref'[n] = ref[n] /\ (n \in linked' <=> n \in linked)
        BY <1>2, <3>2, NamesFinite
      <4>2. n \in linked <=> ref[n] # 0
        BY DEF LinkInv, Objects
      <4> QED BY <4>1, <4>2
    <3> QED BY <3>1, <3>2
  <2>5. \A y \in ready' : \A k \in DOMAIN needed'[y] : needed'[y][k] \in called'
    <3> SUFFICES ASSUME NEW y \in ready', NEW k \in DOMAIN needed'[y] PROVE needed'[y][k] \in called'
      OBVIOUS
    <3>1. y \in ready /\ y # x /\ y \in Name
      BY <1>2 DEF LinkInv, LinkTypes
    <3>2. needed'[y] = needed[y]
      BY <1>2, <3>1
    <3>3. needed[y][k] \in called /\ needed[y][k] # x
      BY <3>1, <3>2 DEF Forgotten, LinkInv, Objects
    <3> QED BY <1>2, <3>2, <3>3
  <2> QED BY <1>2, <2>1, <2>2, <2>3, <2>4, <2>5 DEF Objects
<1>9. Answers'
  BY <1>6 DEF Answers, Answer
<1>10. \A n : /\ LinkingIn(stack, n) <=> (t.op = "link" /\ n = x) \/ LinkingIn(s, n)
              /\ OpenedIn(stack, n) <=> OpenedIn(s, n)
              /\ BegunIn(stack, n) <=> BegunIn(s, n)
  BY <1>1, PushedFrames
<1>11. \A n : /\ LinkingIn(stack, n)' <=> LinkingIn(s, n)
              /\ OpenedIn(stack, n)' <=> OpenedIn(s, n)
              /\ BegunIn(stack, n)' <=> BegunIn(s, n)
              /\ Weight(stack, n)' = Weight(<<u>> \o s, n)
  <2>1. \A n : /\ LinkingIn(stack, n)' <=> LinkingIn(<<u>> \o s, n)
               /\ OpenedIn(stack, n)' <=> OpenedIn(<<u>> \o s, n)
               /\ BegunIn(stack, n)' <=> BegunIn(<<u>> \o s, n)
               /\ Weight(stack, n)' = Weight(<<u>> \o s, n)
    BY DEF LinkingIn, OpenedIn, BegunIn, Weight
  <2>2. \A n : /\ LinkingIn(<<u>> \o s, n) <=> LinkingIn(s, n)
               /\ OpenedIn(<<u>> \o s, n) <=> OpenedIn(s, n)
               /\ BegunIn(<<u>> \o s, n) <=> BegunIn(s, n)
    BY <1>1, PushedFrames
  <2> QED BY <2>1, <2>2
<1>12. OnList'
  <2>1. ListIsLive' => \A n \in alive' : \E p \in DOMAIN solist' : solist'[p] = n
    <3> SUFFICES ASSUME ListIsLive', NEW n \in alive' PROVE \E p \in DOMAIN solist' : solist'[p] = n
      OBVIOUS
    <3>1. n \in Name \ {x} /\ n \in alive
      BY <1>2 DEF LinkInv, LinkTypes
    <3>2. \E p \in DOMAIN solist : solist[p] = n
      BY <1>0, <3>1 DEF LinkInv, OnList
    <3> QED BY <1>0, <3>1, <3>2
  <2>2. \A n \in Name : LinkingIn(stack, n)' => \E p \in DOMAIN solist' : solist'[p] = n
    BY <1>0, <1>11
  <2>3. \A n \in (Lib \cap alive') \ linked' : LinkingIn(stack, n)'
    <3> SUFFICES ASSUME NEW n \in (Lib \cap alive') \ linked' PROVE LinkingIn(stack, n)'
      OBVIOUS
    <3>1. n # x /\ n \in (Lib \cap alive) \ linked
      BY <1>2
    <3>2. LinkingIn(stack, n)
      BY <3>1 DEF LinkInv, OnList
    <3> QED BY <1>10, <1>11, <3>1, <3>2
  <2> QED BY <1>0, <2>1, <2>2, <2>3 DEF OnList
<1>13. Constructors'
  <2>1. ASSUME Live', NEW n \in (Lib \cap linked') \ called' PROVE Loader(n)' \/ Promised(stack, ret, n)'
    <3>1. n \in (Lib \cap linked) \ called /\ n \in Name \ {x} /\ ListIsLive'
      BY <1>2, <2>1, NamesFinite DEF Live
    <3>2. CASE Loader(n)
      <4>1. PICK y \in Name : Before(y, n) /\ \E k \in DOMAIN needed[y] : needed[y][k] = n
        BY <3>2 DEF Loader
      <4>2. y # x
        BY <1>0, <2>1, <3>1, <4>1
      <4>3. Before(y, n)' /\ needed'[y] = needed[y]
        BY <1>0, <1>2, <3>1, <4>1, <4>2
      <4> QED BY <4>1, <4>3 DEF Loader
    <3>3. CASE ~Loader(n)
      <4>1. Promised(stack, ret, n)
        BY <1>5, <2>1, <3>1, <3>3 DEF LinkInv, Constructors
      <4>2. OpenedIn(stack, n)
        BY <4>1 DEF Promised
      <4> QED BY <1>10, <1>11, <4>2 DEF Promised
    <3> QED BY <3>2, <3>3
  <2>2. failed' = 0 => \A n \in called' : n \in ready' \/ BegunIn(stack, n)'
    BY <1>2, <1>10, <1>11 DEF LinkInv, Constructors
  <2> QED BY <2>1, <2>2 DEF Constructors
<1>14. Counts'
  <2> SUFFICES ASSUME NEW n \in Lib PROVE (Total(n) <= ref[n] /\ (failed = 0 => Total(n) = ref[n]))'
    BY DEF Counts
  <2>1. Carried(stack, ret, n) = 0 /\ Carried(stack, ret, n)' = 0
    BY NothingCarried
  <2>2. PICK c : c = Cardinality(Places(needed[x], n))
    OBVIOUS
  <2>3. PICK d : d = IF t.op = "unload" /\ n = x THEN 1 ELSE 0
    OBVIOUS
  <2>4. c \in Nat /\ d \in {0, 1}
    BY <1>3, <2>2, <2>3, PlacesCount
  <2>5. Weight(s, n) \in Nat /\ Weight(stack, n) = Weight(s, n) + d
    <3>0. t.op \notin {"release", "undo"}
      OBVIOUS
    <3>1. /\ Weight(stack, n) = Weight(s, n) + Load(t, n) /\ Weight(s, n) \in Nat
          /\ Load(t, n) = IF Owns(t, n) THEN 1 ELSE 0
      BY ONLY <3>0, Split(s, t), Weighs
    <3>2. Owns(t, n) <=> t.op = "unload" /\ n = x
      BY DEF Owns
    <3> QED BY <2>3, <3>1, <3>2
  <2>6. Weight(stack, n)' = Weight(s, n) + c
    <3>1. Load(u, n) = c
      <4>1. ~Owns(u, n)
        BY DEF Owns
      <4> QED BY <2>2, <2>4, <4>1, Loads
    <3>2. Weight(<<u>> \o s, n) = Weight(s, n) + Load(u, n)
      BY <1>1, WeightPushed
    <3> QED BY <1>11, <3>1, <3>2
  <2>7. Needed(needed, n) = Needed(needed', n) + c /\ Needed(needed', n) \in Nat
    <3>1. NeedsGone(needed, needed', x) /\ needed' \in [Name -> Seq(Name)]
      BY <1>2
    <3>2. Needed(needed, n) = Needed(needed', n) + Cardinality(Places(needed[x], n))
      BY ONLY <3>1, NeedsCleared
    <3>3. Needed(needed', n) \in Nat
      BY ONLY <3>1, NeedsCount
    <3> QED BY <2>2, <3>2, <3>3
  <2>8. /\ held[n] \in Nat /\ ref[n] \in Nat
        /\ Needed(needed, n) + (held[n] + Weight(stack, n) + 0) <= ref[n]
        /\ failed = 0 => Needed(needed, n) + (held[n] + Weight(stack, n) + 0) = ref[n]
    BY <2>1, RestIs
  <2>9. Total(n)' = Needed(needed', n) + (held[n] + (Weight(s, n) + c) + 0)
    <3>1. Needed(needed, n)' = Needed(needed', n)
      BY DEF Needed, Needing, NeedsOf
    <3> QED BY <2>1, <2>6, <3>1 DEF Total, Rest
  <2>10. ref'[n] = ref[n] - d
    <3>1. n \in Name
      BY NamesFinite
    <3> QED BY <1>2, <2>3, <2>8, <3>1
  <2> QED BY <2>4, <2>5, <2>7, <2>8, <2>9, <2>10
<1> QED BY <1>6, <1>7, <1>8, <1>9, <1>12, <1>13, <1>14 DEF LinkInv

LEMMA LinkFailsKeeps ==
  ASSUME LinkInv, LinkFails
  PROVE  LinkInv'
<1>1. PICK s, t : Split(s, t)
  BY Splits DEF LinkFails, Running
<1>2. t.op = "link"
  BY <1>1 DEF LinkFails, Running, Split
<1>3. PICK x : x = t.so
  OBVIOUS
<1>4. PICK u : u = Frame("undo", x, 0, needed[x])
  OBVIOUS
<1>5. /\ ret \in {"none", "null"} /\ ret' = "none" /\ Deleted(x) /\ stack' = <<u>> \o s
      /\ solist' = SubSeq(solist, 1, Len(solist) - 1) /\ held' = held /\ failed' = failed
  BY <1>1, <1>3, <1>4 DEF LinkFails, Split, Unsound, Become, DepsFound, guestVars
<1>6. /\ t \in FrameSet /\ s \in Seq(FrameSet) /\ stack = <<t>> \o s /\ Shape(s)
      /\ x \in Name /\ x \in Lib /\ x \in alive /\ x \notin linked
      /\ \A g \in FramesOf(s) : g.op \notin Closing \cup {"undo"}
      /\ \A g \in FramesOf(s) : g.op = "link" => g.so # x
  BY <1>1, <1>2, <1>3, LinkTops
<1>7. u \in FrameSet /\ u.op = "undo" /\ u.so = x /\ u.deps = needed[x]
  <2>1. needed[x] \in Seq(Name) /\ "undo" \in Ops /\ 0 \in Nat
    BY <1>6 DEF LinkInv, LinkTypes, Ops
  <2> QED BY <1>4, <1>6, <2>1 DEF Frame, FrameSet
<1>8. ref[x] = 0
  BY <1>6 DEF LinkInv, Objects
<1>9. Forgotten(s, x)
  <2>1. ASSUME NEW f \in FramesOf(s)
        PROVE  /\ f.so = x => f.op \notin {"link", "ctor", "init", "unload", "fini"}
               /\ f.so = x => ~(f.op = "open" /\ f.i = 1)
               /\ \A k \in DOMAIN f.deps : f.deps[k] # x
    <3>1. Fits(f) /\ f.op \notin {"close", "unload", "fini", "release", "undo"}
      BY <1>6 DEF Shape, Closing
    <3> QED BY <1>6, <3>1 DEF Fits
  <2>2. \A y \in Name : \A k \in DOMAIN needed[y] : needed[y][k] # x
    BY <1>6 DEF LinkInv, Objects
  <2> QED BY <2>1, <2>2 DEF Forgotten
<1>10. PICK p0 \in DOMAIN solist : solist[p0] = x
  <2>1. LinkingIn(stack, x)
    BY <1>2, <1>3, <1>6, PushedFrames
  <2> QED BY <1>6, <2>1 DEF LinkInv, OnList
<1>11. /\ solist \in Seq(Name) /\ DOMAIN solist = 1 .. Len(solist) /\ Len(solist) \in Nat
       /\ \A p, q \in DOMAIN solist : solist[p] = solist[q] => p = q
  BY LenProperties DEF LinkInv, LinkTypes, OnList
<1>12. PICK e : e = Len(solist)
  OBVIOUS
<1>13. e \in DOMAIN solist
  BY <1>10, <1>11, <1>12
<1>14. Thinned(e)
  <2>1. \A k \in 1 .. Len(solist) - 1 : solist[k] \in Name
    BY <1>11, ElementOfSeq
  <2>2. 1 \in Int /\ Len(solist) - 1 \in Int /\ Len(solist) - 1 \in Nat
    BY <1>11, <1>12, <1>13
  <2>3. /\ solist' \in Seq(Name)
        /\ Len(solist') = IF 1 <= Len(solist) - 1 THEN (Len(solist) - 1) - 1 + 1 ELSE 0
        /\ \A k \in 1 .. (Len(solist) - 1) - 1 + 1 : solist'[k] = solist[1 + k - 1]
    BY <1>5, <2>1, <2>2, SubSeqProperties
  <2>4. Len(solist') = Len(solist) - 1 /\ DOMAIN solist' = 1 .. Len(solist) - 1
    <3>1. Len(solist') = Len(solist) - 1
      <4>1. PICK l, m : l = Len(solist) /\ m = Len(solist')
        OBVIOUS
      <4>2. l \in Nat /\ l - 1 \in Nat /\ m = IF 1 <= l - 1 THEN (l - 1) - 1 + 1 ELSE 0
        BY <1>11, <2>2, <2>3, <4>1
      <4>3. m = l - 1
        BY ONLY <4>2
      <4> QED BY <4>1, <4>3
    <3>2. DOMAIN solist' = 1 .. Len(solist')
      BY <2>3, LenProperties
    <3> QED BY <3>1, <3>2
  <2>5. \A k \in 1 .. Len(solist) - 1 : solist'[k] = solist[IF k < e THEN k ELSE k + 1]
    <3> SUFFICES ASSUME NEW k \in 1 .. Len(solist) - 1
                 PROVE  solist'[k] = solist[IF k < e THEN k ELSE k + 1]
      OBVIOUS
    <3>1. k \in 1 .. (Len(solist) - 1) - 1 + 1 /\ 1 + k - 1 = k /\ k < e
      BY <1>12, <2>2
    <3> QED BY <2>3, <3>1
  <2> QED BY <1>13, <2>3, <2>4, <2>5 DEF Thinned
<1>15. alive' = alive \ {x}
  BY <1>5 DEF Deleted
<1>16. /\ \A p, q \in DOMAIN solist' : solist'[p] = solist'[q] => p = q
       /\ \A p \in DOMAIN solist : solist[p] # solist[e] => \E q \in DOMAIN solist' : solist'[q] = solist[p]
       /\ \A m, n : Before(m, n) /\ m # solist[e] /\ n # solist[e] => Before(m, n)'
       /\ ListIsLive' /\ solist[e] \in alive => ListIsLive
  BY <1>14, <1>15, ThinnedList
<1>17. ListIsLive' => solist[e] = x
  <2> SUFFICES ASSUME ListIsLive', solist[e] # x PROVE FALSE
    OBVIOUS
  <2>1. PICK q \in DOMAIN solist' : solist'[q] = x
    BY <1>10, <1>16
  <2> QED BY <1>15, <2>1 DEF ListIsLive
<1>18. \A g \in FramesOf(s) : g.op = "link" => Before(g.so, x) /\ g.so # solist[e]
  <2> SUFFICES ASSUME NEW g \in FramesOf(s), g.op = "link" PROVE Before(g.so, x) /\ g.so # solist[e]
    OBVIOUS
  <2>1. Before(g.so, x)
    BY <1>1, <1>2, <1>3 DEF Split, Under
  <2>2. PICK p, q \in DOMAIN solist : p < q /\ solist[p] = g.so /\ solist[q] = x
    BY <2>1 DEF Before
  <2>3. p # e
    BY <1>11, <1>12, <2>2
  <2> QED BY <1>11, <1>13, <2>1, <2>2, <2>3
<1>19. \A n \in Name : LinkingIn(s, n) => \E p \in DOMAIN solist' : solist'[p] = n
  <2> SUFFICES ASSUME NEW g \in FramesOf(s), g.op = "link" PROVE \E p \in DOMAIN solist' : solist'[p] = g.so
    BY DEF LinkingIn
  <2>1. PICK p \in DOMAIN solist : solist[p] = g.so
    BY <1>18 DEF Before
  <2> QED BY <1>16, <1>18, <2>1
<1>20. \A f, g \in FramesOf(s) :
          f.op = "link" /\ g.op = "link" /\ Before(f.so, g.so) => Before(f.so, g.so)'
  BY <1>16, <1>18
<1>21. ListIsLive' => ListIsLive
  BY <1>6, <1>16, <1>17
<1>22. ListIsLive' => \A m, n \in Name \ {x} : Before(m, n) => Before(m, n)'
  BY <1>16, <1>17
<1>23. ListIsLive' => \A n \in Name \ {x} :
          (\E p \in DOMAIN solist : solist[p] = n) => \E p \in DOMAIN solist' : solist'[p] = n
  BY <1>16, <1>17
<1>24. Live' => \A n : Before(x, n) /\ (\E k \in DOMAIN needed[x] : needed[x][k] = n) => n \in called
  <2> SUFFICES ASSUME ListIsLive', NEW n, Before(x, n) PROVE FALSE
    BY DEF Live
  <2>1. PICK p, q \in DOMAIN solist : p < q /\ solist[p] = x /\ solist[q] = n
    BY DEF Before
  <2>2. p = e
    BY <1>11, <1>13, <1>17, <2>1
  <2> QED BY <1>11, <1>12, <2>1, <2>2
<1>25. solist' \in Seq(Name)
  BY <1>14 DEF Thinned
<1>26. ListLoses(s, x)
  BY <1>16, <1>19, <1>20, <1>21, <1>22, <1>23, <1>24, <1>25 DEF ListLoses
<1> QED BY <1>1, <1>2, <1>3, <1>5, <1>6, <1>7, <1>8, <1>9, <1>26, Deletes

(* A finalizer runs inside the unload of its library.                      *)
LEMMA FinalizedIsHeld ==
  ASSUME NEW s \in Seq(FrameSet), Shape(s), NEW f \in FramesOf(s), f.op \in {"unload", "fini"}
  PROVE  Weight(s, f.so) # 0
<1>1. \A g \in FramesOf(s) : g.op = "unload" => Weight(s, g.so) # 0
  <2> SUFFICES ASSUME NEW g \in FramesOf(s), g.op = "unload" PROVE Weight(s, g.so) # 0
    OBVIOUS
  <2>1. Marks(g, g.so) # {}
    BY DEF Marks, Owns
  <2> QED BY <2>1, WeightPushed
<1>2. CASE f.op = "fini"
  <2>1. PICK k \in 1 .. Len(s) : f = s[k]
    BY DEF FramesOf
  <2>2. Len(s) \in Nat /\ s # <<>>
    BY <2>1, EmptySeq
  <2>3. k # Len(s)
    BY <1>2, <2>1, <2>2 DEF Shape
  <2>4. k \in 1 .. Len(s) - 1 /\ k + 1 \in 1 .. Len(s)
    BY <2>2, <2>3
  <2>5. Calls(s[k + 1], f) /\ s[k + 1] \in FramesOf(s)
    BY <2>1, <2>4 DEF Shape, FramesOf
  <2>6. s[k + 1].op = "unload" /\ s[k + 1].so = f.so
    BY <1>2, <2>5 DEF Calls
  <2> QED BY <1>1, <2>5, <2>6
<1> QED BY <1>1, <1>2

LEMMA UnloadedKeeps ==
  ASSUME LinkInv, Unloaded
  PROVE  LinkInv'
<1>1. PICK s, t : Split(s, t)
  BY Splits DEF Unloaded, Running
<1>2. t.op = "unload"
  BY <1>1 DEF Unloaded, Running, Split
<1>3. PICK x : x = t.so
  OBVIOUS
<1>4. PICK u : u = Frame("release", x, 0, needed[x])
  OBVIOUS
<1>5. /\ ret = "ok" /\ ret' = "none" /\ Deleted(x) /\ stack' = <<u>> \o s
      /\ solist' = WithoutEntry(x) /\ held' = held /\ failed' = failed
  BY <1>1, <1>3, <1>4 DEF Unloaded, Split, Become, guestVars
<1>6. /\ t \in FrameSet /\ s \in Seq(FrameSet) /\ stack = <<t>> \o s /\ Shape(s)
      /\ x \in Name /\ x \in Lib /\ x \in linked /\ x \in alive /\ ref[x] = 1 /\ (Live => x \in ready)
  BY <1>1, <1>2, <1>3, <1>5, FrameFields DEF Split, Fits, Answer, LinkInv, LinkTypes
<1>7. u \in FrameSet /\ u.op = "release" /\ u.so = x /\ u.deps = needed[x]
  <2>1. needed[x] \in Seq(Name) /\ "release" \in Ops /\ 0 \in Nat
    BY <1>6 DEF LinkInv, LinkTypes, Ops
  <2> QED BY <1>4, <1>6, <2>1 DEF Frame, FrameSet
<1>8. Weight(s, x) = 0 /\ Needed(needed, x) = 0
  <2>1. /\ held[x] \in Nat /\ Weight(stack, x) \in Nat /\ Carried(stack, ret, x) \in {0, 1}
        /\ Needed(needed, x) \in Nat
        /\ Needed(needed, x) + (held[x] + Weight(stack, x) + Carried(stack, ret, x)) <= 1
    BY <1>6, RestIs
  <2>2. Weight(stack, x) = Weight(s, x) + 1 /\ Weight(s, x) \in Nat
    BY <1>1, <1>2, <1>3, Weighs DEF Owns
  <2> QED BY <2>1, <2>2
<1>9. Forgotten(s, x)
  <2>1. ASSUME NEW f \in FramesOf(s)
        PROVE  /\ f.so = x => f.op \notin {"link", "ctor", "init", "unload", "fini"}
               /\ f.so = x => ~(f.op = "open" /\ f.i = 1)
               /\ \A k \in DOMAIN f.deps : f.deps[k] # x
    <3>1. Fits(f) /\ f \in FrameSet
      BY <1>6, ElementOfSeq DEF Shape, FramesOf
    <3>2. f.so = x => f.op # "link"
      BY <1>6, <3>1 DEF Fits
    <3>3. f.so = x => f.op \notin {"ctor", "init"}
      BY <1>6, <1>8, ConstructedIsHeld DEF LinkInv
    <3>4. f.so = x => f.op \notin {"unload", "fini"}
      BY <1>6, <1>8, FinalizedIsHeld
    <3>5. f.so = x => ~(f.op = "open" /\ f.i = 1)
      BY <1>6, <1>8, OpenedIsHeld DEF OpenedIn
    <3>6. \A k \in DOMAIN f.deps : f.deps[k] # x
      <4>1. Marks(f, x) = {}
        BY <1>6, <1>8, WeightPushed
      <4> QED BY <3>1, <4>1, Loads
    <3> QED BY <3>2, <3>3, <3>4, <3>5, <3>6
  <2>2. \A y \in Name : \A k \in DOMAIN needed[y] : needed[y][k] # x
    <3>1. needed \in [Name -> Seq(Name)]
      BY DEF LinkInv, LinkTypes
    <3> QED BY <1>8, <3>1, NeedsCount
  <2> QED BY <2>1, <2>2 DEF Forgotten
<1>10. /\ solist \in Seq(Name) /\ DOMAIN solist = 1 .. Len(solist) /\ Len(solist) \in Nat
       /\ \A p, q \in DOMAIN solist : solist[p] = solist[q] => p = q
  BY LenProperties DEF LinkInv, LinkTypes, OnList
<1>11. alive' = alive \ {x}
  BY <1>5 DEF Deleted
<1>12. /\ solist' \in Seq(Name)
       /\ \A p, q \in DOMAIN solist' : solist'[p] = solist'[q] => p = q
       /\ \A p \in DOMAIN solist : solist[p] # x => \E q \in DOMAIN solist' : solist'[q] = solist[p]
       /\ \A m, n : Before(m, n) /\ m # x /\ n # x => Before(m, n)'
       /\ ListIsLive' => ListIsLive
  <2>1. CASE Entries(x) = {}
    <3>1. solist' = solist
      BY <1>5, <2>1 DEF WithoutEntry
    <3>2. \A m, n : Before(m, n)' <=> Before(m, n)
      BY <3>1 DEF Before
    <3>3. ListIsLive' => ListIsLive
      BY <1>11, <3>1 DEF ListIsLive
    <3> QED BY <1>10, <3>1, <3>2, <3>3
  <2>2. CASE Entries(x) # {}
    <3>1. PICK e : e = Entry(x)
      OBVIOUS
    <3>2. e \in DOMAIN solist /\ solist[e] = x
      <4>1. Entries(x) # {} /\ Entries(x) \subseteq Nat
        BY <1>10, <2>2 DEF Entries
      <4>2. \E p \in Entries(x) : \A q \in Entries(x) : p <= q
        BY <4>1, Least
      <4>3. e \in Entries(x)
        BY <3>1, <4>2 DEF Entry
      <4> QED BY <4>3 DEF Entries
    <3>3. solist' = SubSeq(solist, 1, e - 1) \o SubSeq(solist, e + 1, Len(solist))
      BY <1>5, <2>2, <3>1 DEF WithoutEntry
    <3>4. Thinned(e)
      <4>1. e \in 1 .. Len(solist) /\ \A k \in 1 .. Len(solist) : solist[k] \in Name
        BY <1>10, <3>2, ElementOfSeq
      <4>2. PICK a, b : a = SubSeq(solist, 1, e - 1) /\ b = SubSeq(solist, e + 1, Len(solist))
        OBVIOUS
      <4>3. /\ a \in Seq(Name) /\ Len(a) = (IF 1 <= e - 1 THEN (e - 1) - 1 + 1 ELSE 0)
            /\ \A k \in 1 .. (e - 1) - 1 + 1 : a[k] = solist[1 + k - 1]
        <5>1. \A k \in 1 .. e - 1 : solist[k] \in Name
          BY <1>10, <4>1
        <5>2. 1 \in Int /\ e - 1 \in Int
          BY <1>10, <4>1
        <5> QED BY <4>2, <5>1, <5>2, SubSeqProperties
      <4>4. /\ b \in Seq(Name) /\ Len(b) = (IF e + 1 <= Len(solist) THEN Len(solist) - (e + 1) + 1 ELSE 0)
            /\ \A k \in 1 .. Len(solist) - (e + 1) + 1 : b[k] = solist[(e + 1) + k - 1]
        <5>1. \A k \in e + 1 .. Len(solist) : solist[k] \in Name
          BY <1>10, <4>1
        <5>2. e + 1 \in Int /\ Len(solist) \in Int
          BY <1>10, <4>1
        <5>3. PICK c, l : c = e + 1 /\ l = Len(solist)
          OBVIOUS
        <5>4. /\ SubSeq(solist, c, l) \in Seq(Name)
              /\ Len(SubSeq(solist, c, l)) = (IF c <= l THEN l - c + 1 ELSE 0)
              /\ \A k \in 1 .. l - c + 1 : SubSeq(solist, c, l)[k] = solist[c + k - 1]
          BY ONLY <5>1, <5>2, <5>3, SubSeqProperties
        <5> QED BY <4>2, <5>3, <5>4
      <4>5. Len(a) = e - 1 /\ Len(b) = Len(solist) - e
        <5>1. PICK l, m, n : l = Len(solist) /\ m = Len(a) /\ n = Len(b)
          OBVIOUS
        <5>2. /\ l \in Nat /\ e \in 1 .. l /\ m = (IF 1 <= e - 1 THEN (e - 1) - 1 + 1 ELSE 0)
              /\ n = IF e + 1 <= l THEN l - (e + 1) + 1 ELSE 0
          BY <1>10, <4>1, <4>3, <4>4, <5>1
        <5>3. m = e - 1 /\ n = l - e
          BY ONLY <5>2
        <5> QED BY <5>1, <5>3
      <4>6. /\ solist' \in Seq(Name) /\ Len(solist') = Len(a) + Len(b)
            /\ \A k \in 1 .. Len(a) + Len(b) : solist'[k] = IF k <= Len(a) THEN a[k] ELSE b[k - Len(a)]
        BY <3>3, <4>2, <4>3, <4>4, ConcatProperties
      <4>7. Len(solist') = Len(solist) - 1 /\ DOMAIN solist' = 1 .. Len(solist) - 1
        BY <1>10, <4>1, <4>5, <4>6, LenProperties
      <4>8. ASSUME NEW k \in 1 .. Len(solist) - 1
            PROVE  solist'[k] = solist[IF k < e THEN k ELSE k + 1]
        <5>1. k \in 1 .. Len(a) + Len(b)
          BY <1>10, <4>1, <4>5
        <5>2. CASE k < e
          <6>1. k <= Len(a) /\ k \in 1 .. (e - 1) - 1 + 1 /\ 1 + k - 1 = k
            BY <1>10, <4>1, <4>5, <5>2
          <6> QED BY <4>3, <4>6, <5>1, <5>2, <6>1
        <5>3. CASE ~(k < e)
          <6>1. /\ ~(k <= Len(a)) /\ k - Len(a) \in 1 .. Len(solist) - (e + 1) + 1
                /\ (e + 1) + (k - Len(a)) - 1 = k + 1
            BY <1>10, <4>1, <4>5, <5>3
          <6>2. b[k - Len(a)] = solist[k + 1]
            BY <4>4, <6>1
          <6> QED BY <4>6, <5>1, <5>3, <6>1, <6>2
        <5> QED BY <5>2, <5>3
      <4> QED BY <3>2, <4>6, <4>7, <4>8 DEF Thinned
    <3>5. solist' \in Seq(Name)
      BY <3>4 DEF Thinned
    <3> QED BY <1>6, <1>11, <3>2, <3>4, <3>5, ThinnedList
  <2> QED BY <2>1, <2>2
<1>13. \A n \in Name : LinkingIn(s, n) => n # x /\ \E p \in DOMAIN solist : solist[p] = n
  <2> SUFFICES ASSUME NEW n \in Name, LinkingIn(s, n) PROVE n # x /\ \E p \in DOMAIN solist : solist[p] = n
    OBVIOUS
  <2>1. n # x
    BY <1>9 DEF LinkingIn, Forgotten
  <2>2. LinkingIn(stack, n)
    BY <1>6, PushedFrames
  <2> QED BY <2>1, <2>2 DEF LinkInv, OnList
<1>14. \A n \in Name : LinkingIn(s, n) => \E p \in DOMAIN solist' : solist'[p] = n
  BY <1>12, <1>13
<1>15. \A f, g \in FramesOf(s) :
          f.op = "link" /\ g.op = "link" /\ Before(f.so, g.so) => Before(f.so, g.so)'
  BY <1>9, <1>12 DEF Forgotten
<1>16. Live' => \A n : Before(x, n) /\ (\E k \in DOMAIN needed[x] : needed[x][k] = n) => n \in called
  <2>1. Live' => x \in ready
    BY <1>5, <1>6, <1>12 DEF Live
  <2> QED BY <2>1 DEF LinkInv, Objects
<1>17. ListIsLive' => \A m, n \in Name \ {x} : Before(m, n) => Before(m, n)'
  BY <1>12
<1>18. ListIsLive' => \A n \in Name \ {x} :
          (\E p \in DOMAIN solist : solist[p] = n) => \E p \in DOMAIN solist' : solist'[p] = n
  BY <1>12
<1>19. solist' \in Seq(Name)
  BY <1>12
<1>20. \A p, q \in DOMAIN solist' : solist'[p] = solist'[q] => p = q
  BY <1>12
<1>21. ListIsLive' => ListIsLive
  BY <1>12
<1>22. ListLoses(s, x)
  BY <1>14, <1>15, <1>16, <1>17, <1>18, <1>19, <1>20, <1>21 DEF ListLoses
<1> QED BY <1>1, <1>2, <1>3, <1>5, <1>6, <1>7, <1>9, <1>22, Deletes

-----------------------------------------------------------------------------
(* The theorems                                                            *)

LEMMA LinkStarts == LinkerInit => LinkInv
<1> SUFFICES ASSUME LinkerInit PROVE LinkInv
  OBVIOUS
<1>1. /\ solist = <<>> /\ alive = {} /\ somain = NoLibrary
      /\ ref = [n \in Name |-> 0] /\ needed = [n \in Name |-> <<>>]
      /\ linked = {} /\ called = {} /\ ready = {}
      /\ stack = <<>> /\ ret = "none" /\ held = [n \in Lib |-> 0] /\ failed = 0
  BY DEF LinkerInit
<1>2. <<>> \in Seq(Name) /\ <<>> \in Seq(FrameSet)
  OBVIOUS
<1>3. /\ DOMAIN solist = {} /\ Len(stack) = 0 /\ \A n \in Name : DOMAIN needed[n] = {}
  BY <1>1
<1>4. LinkTypes
  BY <1>1, <1>2 DEF LinkTypes, Rets
<1>5. Objects
  BY <1>1, <1>3, NamesFinite DEF Objects
<1>6. FramesOf(stack) = {}
  BY <1>3 DEF FramesOf
<1>7. Shape(stack)
  BY <1>1, <1>3, <1>6 DEF Shape
<1>8. Answers
  BY <1>1 DEF Answers
<1>9. OnList
  BY <1>1, <1>3, <1>6 DEF OnList, LinkingIn
<1>10. Constructors
  BY <1>1 DEF Constructors
<1>11. Counts
  <2> SUFFICES ASSUME NEW n \in Lib PROVE Total(n) = 0 /\ ref[n] = 0
    BY DEF Counts
  <2>1. Needed(needed, n) = 0
    <3>1. Needing(needed, n) = {}
      BY <1>3 DEF Needing, NeedsOf
    <3> QED BY <3>1, FS_EmptySet DEF Needed
  <2>2. Weight(stack, n) = 0 /\ Carried(stack, ret, n) = 0
    BY <1>1, WeightEmpty DEF Carried
  <2> QED BY <1>1, <2>1, <2>2, NamesFinite DEF Total, Rest
<1> QED BY <1>4, <1>5, <1>7, <1>8, <1>9, <1>10, <1>11 DEF LinkInv

LEMMA LinkStutters == LinkInv /\ UNCHANGED linkerVars => LinkInv'
<1> SUFFICES ASSUME LinkInv, UNCHANGED linkerVars PROVE LinkInv'
  OBVIOUS
<1>1. /\ solist' = solist /\ somain' = somain /\ alive' = alive /\ ref' = ref /\ linked' = linked
      /\ called' = called /\ needed' = needed /\ ready' = ready /\ stack' = stack /\ ret' = ret
      /\ held' = held /\ failed' = failed
  BY DEF linkerVars, objectVars, listVars, guestVars
<1>2. Quiet
  BY <1>1 DEF Quiet, objectVars, listVars
<1>3. Shape(stack)'
  <2>1. PICK v : v = stack
    OBVIOUS
  <2>2. v \in Seq(FrameSet) /\ Shape(v)
    BY <2>1 DEF LinkInv, LinkTypes
  <2>3. Shape(v)'
    BY <1>2, <2>2, QuietShape DEF LinkInv
  <2> QED BY <1>1, <2>1, <2>3
<1>4. LinkTypes' /\ Objects'
  BY <1>1 DEF LinkInv, LinkTypes, Objects
<1>5. ListIsLive' <=> ListIsLive
  BY <1>1 DEF ListIsLive
<1>6. Answers'
  <2>1. Live' <=> Live
    BY <1>1, <1>5 DEF Live
  <2>2. \A t, r : Answer(t, r)' <=> Answer(t, r)
    BY <1>1, <2>1 DEF Answer, Wants
  <2>3. Answers' <=> IF stack = <<>> THEN ret = "none" ELSE Answer(Head(stack), ret)
    <3>1. PICK h, r : h = Head(stack) /\ r = ret
      OBVIOUS
    <3> QED BY <1>1, <2>2, <3>1 DEF Answers
  <2> QED BY <2>3 DEF LinkInv, Answers
<1>7. OnList'
  BY <1>1, <1>5, SameStack DEF LinkInv, OnList
<1>8. Constructors'
  <2>1. Live' <=> Live
    BY <1>1, <1>5 DEF Live
  <2>2. \A n : Loader(n) <=> Loader(n)'
    BY <1>1 DEF Loader, Before
  <2>3. \A n : Promised(stack, ret, n) <=> Promised(stack, ret, n)'
    BY <1>1, SameStack DEF Promised, Wants, Before
  <2> QED BY <1>1, <2>1, <2>2, <2>3, SameStack DEF LinkInv, Constructors
<1>9. Counts'
  <2> SUFFICES ASSUME NEW n \in Lib PROVE Total(n)' = Total(n)
    BY <1>1 DEF LinkInv, Counts
  <2>1. Carried(stack, ret, n)' = Carried(stack, ret, n)
    BY <1>1 DEF Carried, Wants
  <2>2. Weight(stack, n)' = Weight(stack, n)
    BY <1>1, SameStack
  <2> QED BY <1>1, <2>1, <2>2 DEF Total, Rest
<1> QED BY <1>3, <1>4, <1>6, <1>7, <1>8, <1>9 DEF LinkInv

LEMMA LinkSteps == LinkInv /\ LinkerNext => LinkInv'
<1> SUFFICES ASSUME LinkInv, LinkerNext PROVE LinkInv'
  OBVIOUS
<1>1. ASSUME NEW n \in Name, Dlopen(n) PROVE LinkInv'
  BY <1>1, DlopenKeeps
<1>2. CASE DlopenFound
  BY <1>2, DlopenFoundKeeps
<1>3. CASE DlopenNotFound
  BY <1>3, DlopenNotFoundKeeps
<1>4. CASE DlopenReturns
  BY <1>4, DlopenReturnsKeeps
<1>5. CASE DlopenFails
  BY <1>5, DlopenFailsKeeps
<1>6. CASE FindLoaded
  BY <1>6, FindLoadedKeeps
<1>7. CASE FindLinking
  BY <1>7, FindLinkingKeeps
<1>8. CASE LoadHost
  BY <1>8, LoadHostKeeps
<1>9. CASE LoadMissing
  BY <1>9, LoadMissingKeeps
<1>10. CASE LoadMapped
  BY <1>10, LoadMappedKeeps
<1>11. CASE LinkNeeded
  BY <1>11, LinkNeededKeeps
<1>12. CASE LinkDone
  BY <1>12, LinkDoneKeeps
<1>13. CASE LinkFails
  BY <1>13, LinkFailsKeeps
<1>14. CASE CtorAlready
  BY <1>14, CtorAlreadyKeeps
<1>15. CASE CtorStarts
  BY <1>15, CtorStartsKeeps
<1>16. CASE CtorDependency
  BY <1>16, CtorDependencyKeeps
<1>17. CASE CtorNext
  BY <1>17, CtorNextKeeps
<1>18. CASE CtorOwn
  BY <1>18, CtorOwnKeeps
<1>19. CASE CtorReturns
  BY <1>19, CtorReturnsKeeps
<1>20. CASE GuestReturns
  BY <1>20, GuestReturnsKeeps
<1>21. CASE GuestFails
  BY <1>21, GuestFailsKeeps
<1>22. ASSUME NEW n \in Lib, Dlclose(n) PROVE LinkInv'
  BY <1>22, DlcloseKeeps
<1>23. CASE DlcloseNull
  BY <1>23, DlcloseNullKeeps
<1>24. CASE DlcloseReturns
  BY <1>24, DlcloseReturnsKeeps
<1>25. CASE UnloadCounts
  BY <1>25, UnloadCountsKeeps
<1>26. CASE UnloadStarts
  BY <1>26, UnloadStartsKeeps
<1>27. CASE UnloadFails
  BY <1>27, UnloadFailsKeeps
<1>28. CASE Unloaded
  BY <1>28, UnloadedKeeps
<1>29. CASE ReleaseNext
  BY <1>29, ReleaseNextKeeps
<1>30. CASE ReleaseGoesOn
  BY <1>30, ReleaseGoesOnKeeps
<1>31. CASE ReleaseFails
  BY <1>31, ReleaseFailsKeeps
<1>32. CASE Released
  BY <1>32, ReleasedKeeps
<1> QED BY <1>1, <1>2, <1>3, <1>4, <1>5, <1>6, <1>7, <1>8, <1>9, <1>10, <1>11, <1>12, <1>13, <1>14,
           <1>15, <1>16, <1>17, <1>18, <1>19, <1>20, <1>21, <1>22, <1>23, <1>24, <1>25, <1>26, <1>27,
           <1>28, <1>29, <1>30, <1>31, <1>32 DEF LinkerNext

(* The linker's invariant holds in every reachable state.                  *)
THEOREM LinkInvariance == LinkerSpec => []LinkInv
<1>1. LinkInv /\ [LinkerNext]_linkerVars => LinkInv'
  BY LinkSteps, LinkStutters
<1> QED BY <1>1, LinkStarts, PTL DEF LinkerSpec

LEMMA FramesAre == LinkInv => Frames = FramesOf(stack)
BY LenProperties DEF LinkInv, LinkTypes, Frames, FramesOf

(* No pointer that is going to be followed points to a deleted library.    *)
THEOREM PointersStayLive == LinkerSpec => []PointersLive
<1>1. LinkInv => PointersLive
  <2> SUFFICES ASSUME LinkInv PROVE PointersLive
    OBVIOUS
  <2>1. somain # NoLibrary => somain \in alive
    BY DEF LinkInv, Objects
  <2>2. \A n \in alive : \A k \in DOMAIN needed[n] : needed[n][k] \in alive
    BY DEF LinkInv, LinkTypes, Objects
  <2>3. ASSUME NEW f \in Frames
        PROVE  /\ f.op \in {"link", "ctor", "init", "unload", "fini"} => f.so \in alive
               /\ f.op = "open" /\ f.i = 1 => f.so \in alive
               /\ \A k \in DOMAIN f.deps : f.deps[k] \in alive
    <3>1. Fits(f) /\ linked \subseteq alive
      BY FramesAre DEF LinkInv, LinkTypes, Shape
    <3>2. f.op = "fini" => f.so \in linked
      BY <3>1 DEF LinkInv, Objects, Fits
    <3>3. f.op \in {"link", "ctor", "init", "unload", "fini"} => f.so \in alive
      BY <3>1, <3>2 DEF Fits
    <3>4. f.op = "open" /\ f.i = 1 => f.so \in alive
      BY <3>1 DEF Fits
    <3>5. \A k \in DOMAIN f.deps : f.deps[k] \in alive
      BY <3>1 DEF Fits
    <3> QED BY <3>3, <3>4, <3>5
  <2> QED BY <2>1, <2>2, <2>3 DEF PointersLive
<1> QED BY <1>1, LinkInvariance, PTL

(* A library's constructors run when those of everything it needs have, or *)
(* from inside them.                                                       *)
THEOREM DependenciesComeFirst == LinkerSpec => []DependenciesFirst
<1>1. LinkInv => DependenciesFirst
  <2> SUFFICES ASSUME LinkInv, NEW f \in Frames, f.op = "init", failed = 0, NEW k \in DOMAIN needed[f.so]
               PROVE  needed[f.so][k] \in ready \/ Constructing(needed[f.so][k])
    BY DEF DependenciesFirst
  <2>1. Fits(f)
    BY FramesAre DEF LinkInv, Shape
  <2>2. PICK n : n = needed[f.so][k]
    OBVIOUS
  <2>3. n \in called
    BY <2>1, <2>2 DEF Fits
  <2>4. n \in ready \/ BegunIn(stack, n)
    BY <2>3 DEF LinkInv, Constructors
  <2>5. BegunIn(stack, n) => Constructing(n)
    BY FramesAre DEF BegunIn, Constructing
  <2> QED BY <2>2, <2>4, <2>5
<1> QED BY <1>1, LinkInvariance, PTL

(* Finalizers run for a library that was constructed and that no other     *)
(* library needs any more.                                                 *)
THEOREM FinalizersComeLast == LinkerSpec => []FinalizedLast
<1>1. LinkInv => FinalizedLast
  <2> SUFFICES ASSUME LinkInv, NEW f \in Frames, f.op = "fini"
               PROVE  /\ failed = 0 /\ ListIsLive => f.so \in ready
                      /\ \A y \in alive \ {f.so} : \A k \in DOMAIN needed[y] : needed[y][k] # f.so
    BY DEF FinalizedLast
  <2>1. PICK x : x = f.so
    OBVIOUS
  <2>2. f \in FramesOf(stack) /\ x \in Lib /\ ref[x] = 1 /\ (Live => x \in ready)
    BY <2>1, FramesAre DEF LinkInv, Shape, Fits
  <2>3. Weight(stack, x) # 0
    BY <2>1, <2>2, FinalizedIsHeld DEF LinkInv, LinkTypes
  <2>4. Needed(needed, x) = 0
    <3>1. /\ held[x] \in Nat /\ Weight(stack, x) \in Nat /\ Carried(stack, ret, x) \in {0, 1}
          /\ Needed(needed, x) \in Nat
          /\ Needed(needed, x) + (held[x] + Weight(stack, x) + Carried(stack, ret, x)) <= 1
      BY <2>2, RestIs
    <3>2. Weight(stack, x) >= 1
      BY <2>3, <3>1
    <3> QED BY <3>1, <3>2
  <2>5. \A y \in alive : \A k \in DOMAIN needed[y] : needed[y][k] # x
    BY <2>4, NeedsCount DEF LinkInv, LinkTypes
  <2> QED BY <2>1, <2>2, <2>5 DEF Live
<1> QED BY <1>1, LinkInvariance, PTL

(* Between calls a library is referenced once for every handle and once    *)
(* for every library that needs it, exists as long as it is referenced,    *)
(* and is on the list once.                                                *)
THEOREM ReferencesCounted == LinkerSpec => []CountsAtRest
<1>1. LinkInv => CountsAtRest
  <2> SUFFICES ASSUME LinkInv, stack = <<>>, ret = "none", failed = 0, ListIsLive, NEW n \in Lib
               PROVE  /\ ref[n] = held[n] + Cardinality(NeededBy(n))
                      /\ n \in alive <=> ref[n] > 0
                      /\ Cardinality(Entries(n)) = IF n \in alive THEN 1 ELSE 0
    BY DEF CountsAtRest
  <2>1. NeededBy(n) = Needing(needed, n)
    <3>1. \A y \in Name \ alive : NeedsOf(needed[y], n) = {}
      BY DEF LinkInv, Objects, NeedsOf
    <3>2. alive \subseteq Name
      BY DEF LinkInv, LinkTypes
    <3>3. NeededBy(n) = UNION {{y} \X NeedsOf(needed[y], n) : y \in alive}
      BY DEF NeededBy, NeedsOf
    <3>4. ASSUME NEW z PROVE z \in NeededBy(n) <=> z \in Needing(needed, n)
      <4>1. z \in NeededBy(n) <=> \E y \in alive : \E k \in NeedsOf(needed[y], n) : z = <<y, k>>
        BY <3>3
      <4>2. z \in Needing(needed, n) <=> \E y \in Name : \E k \in NeedsOf(needed[y], n) : z = <<y, k>>
        BY InNeeding
      <4> QED BY <3>1, <3>2, <4>1, <4>2
    <3> QED BY <3>4
  <2>2. ref[n] = held[n] + Cardinality(NeededBy(n)) /\ ref[n] \in Nat
    <3>1. Carried(stack, ret, n) = 0 /\ Weight(stack, n) = 0
      BY WeightEmpty DEF Carried
    <3>2. /\ held[n] \in Nat /\ ref[n] \in Nat /\ Needed(needed, n) \in Nat
          /\ Needed(needed, n) + (held[n] + 0 + 0) = ref[n]
      BY <3>1, RestIs
    <3> QED BY <2>1, <3>2 DEF Needed
  <2>3. n \in alive <=> ref[n] > 0
    <3>1. FramesOf(stack) = {}
      BY DEF FramesOf
    <3>2. n \in alive <=> n \in linked
      BY <3>1 DEF LinkInv, LinkTypes, OnList, LinkingIn
    <3> QED BY <2>2, <3>2 DEF LinkInv, Objects
  <2>4. Cardinality(Entries(n)) = IF n \in alive THEN 1 ELSE 0
    <3>1. CASE n \in alive
      <4>1. PICK p \in DOMAIN solist : solist[p] = n
        BY <3>1 DEF LinkInv, OnList
      <4>2. Entries(n) = {p}
        BY <4>1 DEF LinkInv, OnList, Entries
      <4> QED BY <3>1, <4>2, FS_Singleton
    <3>2. CASE n \notin alive
      <4>1. Entries(n) = {}
        BY <3>2 DEF ListIsLive, Entries
      <4> QED BY <3>2, <4>1, FS_EmptySet
    <3> QED BY <3>1, <3>2
  <2> QED BY <2>2, <2>3, <2>4
<1> QED BY <1>1, LinkInvariance, PTL

=============================================================================
