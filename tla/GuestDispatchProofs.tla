-------------------------- MODULE GuestDispatchProofs --------------------------
(***************************************************************************)
(* Theorems about GuestDispatch, for any pthreads, any depth of nested     *)
(* calls and any number of calls a host function makes, and, at the end,   *)
(* about GuestInput, for any sizes of the ring and the pipe.               *)
(*                                                                         *)
(* The argument has two halves.  Of one thread: host functions and guest   *)
(* activations alternate on its stack, the program counter says which of   *)
(* the two is on top, and its counters count them.  Of all threads: the    *)
(* one that is inside a JNI function has the lock.  The third part follows *)
(* the registers of interrupted functions.                                 *)
(***************************************************************************)
EXTENDS GuestDispatch, GuestInput, FiniteSetTheorems, SequenceTheorems, TLAPS

Registers == [at : Nat, sp : Nat, lr : Nat]
HostFrames == [kind : {"entry", "dex", "jni", "import"}, left : Nat, saved : Registers]
GuestFrames == [kind : {"guest"}, level : Nat, lost : BOOLEAN]
Frame == HostFrames \cup GuestFrames
Places == {"idle", "host", "check", "arm", "spin", "decode", "import", "wait", "fail", "done"}

Last(s) == s[Len(s)]
Front(s) == SubSeq(s, 1, Len(s) - 1)
Frames(s, kind) == {i \in 1..Len(s) : s[i].kind = kind}
Number(s, kind) == Cardinality(Frames(s, kind))

(* The host is at the bottom; above it guest and host take turns.          *)
Alternates(s) ==
    \A i \in 1..Len(s) :
        /\ i = 1 <=> s[i].kind \in {"entry", "dex"}
        /\ i > 1 => (s[i].kind = "guest" <=> s[i-1].kind # "guest")

(* What the next thing to do says about the top of the stack.              *)
Fits(s, p) ==
    /\ p \in {"idle", "done"} <=> s = <<>>
    /\ p \in {"check", "arm", "import", "wait"} => Last(s).kind = "guest"
    /\ p \in {"spin", "decode"} => Last(s).kind = "jni"
    /\ p = "host" => Last(s).kind # "guest"

Local(s, p, d, j) ==
    /\ Alternates(s) /\ Fits(s, p)
    /\ d = Number(s, "guest") /\ j = Number(s, "jni")
    /\ p = "spin" => j = 1

Types ==
    /\ stack \in [Threads -> Seq(Frame)]
    /\ pc \in [Threads -> Places]
    /\ regs \in [Threads -> Registers]
    /\ depth \in [Threads -> Nat] /\ jniDepth \in [Threads -> Nat]
    /\ jniLock \in BOOLEAN

Stacks == \A t \in Threads : Local(stack[t], pc[t], depth[t], jniDepth[t])

Inside(j, p) == j > 0 /\ p # "spin"
Locked ==
    /\ \A t \in Threads : Inside(jniDepth[t], pc[t]) => jniLock
    /\ \A t, u \in Threads : Inside(jniDepth[t], pc[t]) /\ Inside(jniDepth[u], pc[u]) => t = u
    /\ jniLock => \E t \in Threads : Inside(jniDepth[t], pc[t])

IInv == Types /\ Stacks /\ Locked

-----------------------------------------------------------------------------
(* Stacks                                                                  *)

LEMMA NumberIsNat ==
  ASSUME NEW s \in Seq(Frame), NEW kind
  PROVE  IsFiniteSet(Frames(s, kind)) /\ Number(s, kind) \in Nat
<1>1. IsFiniteSet(1..Len(s))
  BY FS_Interval
<1>2. Frames(s, kind) \in SUBSET (1..Len(s))
  BY DEF Frames
<1>3. IsFiniteSet(Frames(s, kind))
  BY <1>1, <1>2, FS_Subset
<1> QED BY <1>3, FS_CardinalityType DEF Number

(* A frame more.                                                           *)
LEMMA PushNumber ==
  ASSUME NEW s \in Seq(Frame), NEW f \in Frame, NEW kind
  PROVE  Number(Append(s, f), kind) = Number(s, kind) + (IF f.kind = kind THEN 1 ELSE 0)
<1> DEFINE q == Append(s, f)
<1>1. /\ Len(s) \in Nat /\ Len(q) = Len(s) + 1 /\ q[Len(q)] = f
      /\ \A i \in 1..Len(s) : q[i] = s[i]
  OBVIOUS
<1>2. CASE f.kind = kind
  <2>1. Frames(q, kind) = Frames(s, kind) \cup {Len(q)}
    <3> HIDE DEF q
    <3> QED BY <1>1, <1>2 DEF Frames
  <2>2. Len(q) \notin Frames(s, kind)
    <3> HIDE DEF q
    <3> QED BY <1>1 DEF Frames
  <2> HIDE DEF q
  <2>3. Cardinality(Frames(q, kind)) = Cardinality(Frames(s, kind)) + 1
    BY <2>1, <2>2, NumberIsNat, FS_AddElement
  <2> QED BY <1>2, <2>3 DEF Number, q
<1>3. CASE f.kind # kind
  <2>1. Frames(q, kind) = Frames(s, kind)
    <3> HIDE DEF q
    <3> QED BY <1>1, <1>3 DEF Frames
  <2> QED BY <1>3, <2>1, NumberIsNat DEF Number
<1> QED BY <1>2, <1>3

LEMMA PushStack ==
  ASSUME NEW s \in Seq(Frame), Alternates(s), s # <<>>, NEW f \in Frame,
         f.kind \notin {"entry", "dex"},
         f.kind = "guest" <=> Last(s).kind # "guest"
  PROVE  /\ Append(s, f) \in Seq(Frame) /\ Append(s, f) # <<>>
         /\ Alternates(Append(s, f)) /\ Last(Append(s, f)) = f
<1> DEFINE q == Append(s, f)
<1>1. /\ Len(s) \in Nat /\ Len(s) > 0 /\ Len(q) = Len(s) + 1 /\ q[Len(q)] = f
      /\ q \in Seq(Frame) /\ \A i \in 1..Len(s) : q[i] = s[i]
  OBVIOUS
<1> HIDE DEF q
<1>2. ASSUME NEW i \in 1..Len(q)
      PROVE  /\ i = 1 <=> q[i].kind \in {"entry", "dex"}
             /\ i > 1 => (q[i].kind = "guest" <=> q[i-1].kind # "guest")
  <2>1. CASE i \in 1..Len(s)
    <3>1. q[i] = s[i] /\ (i > 1 => q[i-1] = s[i-1])
      BY <1>1, <2>1
    <3> QED BY <2>1, <3>1 DEF Alternates
  <2>2. CASE i = Len(q)
    <3>1. q[i] = f /\ q[i-1] = s[Len(s)] /\ i > 1
      BY <1>1, <2>2
    <3> QED BY <3>1 DEF Last
  <2> QED BY <1>1, <2>1, <2>2
<1>3. Alternates(q)
  BY <1>2 DEF Alternates
<1>4. q # <<>> /\ Last(q) = f
  BY <1>1 DEF Last
<1> QED BY <1>1, <1>3, <1>4 DEF q

(* A frame less.                                                           *)
LEMMA FrontIs ==
  ASSUME NEW s \in Seq(Frame), s # <<>>
  PROVE  /\ Front(s) \in Seq(Frame) /\ Len(Front(s)) = Len(s) - 1 /\ Len(s) \in Nat \ {0}
         /\ \A i \in 1..Len(s) - 1 : Front(s)[i] = s[i]
         /\ Last(s) \in Frame /\ s = Append(Front(s), Last(s))
<1>1. Len(s) \in Nat /\ Len(s) > 0
  BY EmptySeq
<1>2. /\ Front(s) \in Seq(Frame) /\ Len(Front(s)) = Len(s) - 1
      /\ \A i \in 1..Len(s) - 1 : Front(s)[i] = s[i]
  <2> DEFINE n == Len(s) - 1
  <2>1. 1 \in Int /\ n \in Int /\ \A i \in 1..n : s[i] \in Frame
    BY <1>1
  <2>2. Front(s) = SubSeq(s, 1, n)
    BY DEF Front
  <2> HIDE DEF n
  <2>3. /\ SubSeq(s, 1, n) \in Seq(Frame)
        /\ Len(SubSeq(s, 1, n)) = IF 1 <= n THEN n - 1 + 1 ELSE 0
        /\ \A i \in 1..n - 1 + 1 : SubSeq(s, 1, n)[i] = s[1 + i - 1]
    BY <2>1, SubSeqProperties
  <2>4. n = Len(s) - 1
    BY DEF n
  <2> QED BY <1>1, <2>2, <2>3, <2>4
<1>3. Last(s) \in Frame
  BY <1>1 DEF Last
<1>4. s = Append(Front(s), Last(s))
  <2> DEFINE q == Append(Front(s), Last(s))
  <2>1. q \in Seq(Frame) /\ Len(q) = Len(s) /\ \A i \in 1..Len(s) : q[i] = s[i]
    BY <1>1, <1>2, <1>3 DEF Last
  <2> HIDE DEF q
  <2>2. s = q
    BY <2>1, SeqEqual
  <2> QED BY <2>2 DEF q
<1> QED BY <1>1, <1>2, <1>3, <1>4

LEMMA PopNumber ==
  ASSUME NEW s \in Seq(Frame), s # <<>>, NEW kind
  PROVE  Number(s, kind) = Number(Front(s), kind) + (IF Last(s).kind = kind THEN 1 ELSE 0)
<1>1. Front(s) \in Seq(Frame) /\ Last(s) \in Frame /\ s = Append(Front(s), Last(s))
  BY FrontIs
<1> QED BY <1>1, PushNumber

LEMMA PopStack ==
  ASSUME NEW s \in Seq(Frame), Alternates(s), s # <<>>, Last(s).kind \notin {"entry", "dex"}
  PROVE  /\ Front(s) \in Seq(Frame) /\ Alternates(Front(s)) /\ Front(s) # <<>>
         /\ Last(Front(s)).kind = "guest" <=> Last(s).kind # "guest"
<1> DEFINE q == Front(s)
<1>1. /\ q \in Seq(Frame) /\ Len(q) = Len(s) - 1 /\ Len(s) \in Nat \ {0}
      /\ \A i \in 1..Len(s) - 1 : q[i] = s[i]
  BY FrontIs
<1> HIDE DEF q
<1>2. Len(s) > 1
  BY <1>1 DEF Alternates, Last
<1>3. ASSUME NEW i \in 1..Len(q)
      PROVE  /\ i = 1 <=> q[i].kind \in {"entry", "dex"}
             /\ i > 1 => (q[i].kind = "guest" <=> q[i-1].kind # "guest")
  <2>1. i \in 1..Len(s) /\ q[i] = s[i] /\ (i > 1 => q[i-1] = s[i-1])
    BY <1>1
  <2> QED BY <2>1 DEF Alternates
<1>4. Alternates(q) /\ q # <<>>
  BY <1>1, <1>2, <1>3 DEF Alternates
<1>5. Last(q) = s[Len(s) - 1]
  BY <1>1, <1>2 DEF Last
<1>6. s[Len(s)].kind = "guest" <=> s[Len(s) - 1].kind # "guest"
  BY <1>1, <1>2 DEF Alternates
<1> QED BY <1>1, <1>4, <1>5, <1>6 DEF q, Last

(* Another frame of the same kind on top.                                  *)
LEMMA SwapStack ==
  ASSUME NEW s \in Seq(Frame), Alternates(s), s # <<>>, NEW f \in Frame, f.kind = Last(s).kind,
         NEW q, q = Append(Front(s), f)
  PROVE  /\ q \in Seq(Frame) /\ Alternates(q) /\ q # <<>> /\ Last(q) = f
         /\ \A kind : Number(q, kind) = Number(s, kind)
<1> DEFINE r == Front(s)
<1>1. /\ r \in Seq(Frame) /\ Len(r) = Len(s) - 1 /\ Len(s) \in Nat \ {0}
      /\ \A i \in 1..Len(s) - 1 : r[i] = s[i]
  BY FrontIs
<1>2. q = Append(r, f)
  OBVIOUS
<1> HIDE DEF r
<1>3. /\ q \in Seq(Frame) /\ Len(q) = Len(s) /\ q[Len(s)] = f
      /\ \A i \in 1..Len(s) - 1 : q[i] = s[i]
  BY <1>1, <1>2
<1>4. \A i \in 1..Len(s) : q[i].kind = s[i].kind
  BY <1>1, <1>3 DEF Last
<1>5. ASSUME NEW i \in 1..Len(q)
      PROVE  /\ i = 1 <=> q[i].kind \in {"entry", "dex"}
             /\ i > 1 => (q[i].kind = "guest" <=> q[i-1].kind # "guest")
  <2>1. i \in 1..Len(s) /\ q[i].kind = s[i].kind /\ (i > 1 => q[i-1].kind = s[i-1].kind)
    BY <1>1, <1>3, <1>4
  <2> QED BY <2>1 DEF Alternates
<1>6. Alternates(q) /\ q # <<>> /\ Last(q) = f
  BY <1>1, <1>3, <1>5 DEF Alternates, Last
<1>7. \A kind : Frames(q, kind) = Frames(s, kind)
  BY <1>3, <1>4 DEF Frames
<1> QED BY <1>3, <1>6, <1>7 DEF Number

LEMMA TwoMore ==
  ASSUME NEW s \in Seq(Frame), NEW f \in Frame, NEW g \in Frame
  PROVE  s \o <<f, g>> = Append(Append(s, f), g)
<1> DEFINE p == s \o <<f, g>>
           q == Append(Append(s, f), g)
<1>1. /\ q \in Seq(Frame) /\ Len(q) = Len(s) + 2 /\ Len(s) \in Nat
      /\ \A i \in 1..Len(s) : q[i] = s[i]
      /\ q[Len(s) + 1] = f /\ q[Len(s) + 2] = g
  OBVIOUS
<1>2. <<f, g>> \in Seq(Frame) /\ Len(<<f, g>>) = 2 /\ <<f, g>>[1] = f /\ <<f, g>>[2] = g
  OBVIOUS
<1>3. /\ p \in Seq(Frame) /\ Len(p) = Len(s) + 2
      /\ \A i \in 1..Len(s) + 2 : p[i] = IF i <= Len(s) THEN s[i] ELSE <<f, g>>[i - Len(s)]
  BY <1>2, ConcatProperties
<1> HIDE DEF p, q
<1>4. \A i \in 1..Len(s) + 2 : p[i] = q[i]
  <2>1. p[Len(s) + 1] = f /\ p[Len(s) + 2] = g
    BY <1>1, <1>2, <1>3
  <2>2. \A i \in 1..Len(s) : p[i] = s[i]
    BY <1>1, <1>3
  <2>3. \A i \in 1..Len(s) + 2 : i \in 1..Len(s) \/ i = Len(s) + 1 \/ i = Len(s) + 2
    BY <1>1
  <2> QED BY <1>1, <2>1, <2>2, <2>3
<1>5. p = q
  BY <1>1, <1>3, <1>4, SeqEqual
<1> QED BY <1>5 DEF p, q

-----------------------------------------------------------------------------
(* One thread moves                                                        *)

Moves(t) ==
    \A u \in Threads \ {t} : /\ stack'[u] = stack[u] /\ pc'[u] = pc[u]
                             /\ depth'[u] = depth[u] /\ jniDepth'[u] = jniDepth[u]

LEMMA OneMoves ==
  ASSUME IInv, NEW t \in Threads, Types', Moves(t),
         Local(stack'[t], pc'[t], depth'[t], jniDepth'[t]),
         \/ /\ Inside(jniDepth'[t], pc'[t]) <=> Inside(jniDepth[t], pc[t])
            /\ jniLock' = jniLock
         \/ /\ Inside(jniDepth[t], pc[t]) /\ ~Inside(jniDepth'[t], pc'[t])
            /\ ~jniLock'
         \/ /\ ~jniLock /\ Inside(jniDepth'[t], pc'[t])
            /\ jniLock'
  PROVE  IInv'
<1>1. Stacks'
  BY DEF Stacks, Moves, IInv
<1>2. Locked'
  BY DEF Locked, Moves, IInv
<1> QED BY <1>1, <1>2 DEF IInv

(* A step that leaves stack and counters alone, outside the spin loop.     *)
LEMMA GoesKeeps ==
  ASSUME IInv, NEW t \in Threads, NEW p \in Places \ {"spin"}, pc[t] # "spin",
         Goes(t, p), Fits(stack[t], p),
         UNCHANGED <<stack, regs, depth, jniDepth, jniLock>>
  PROVE  IInv'
<1>1. Types' /\ Moves(t) /\ pc'[t] = p
  BY DEF IInv, Types, Moves, Goes
<1>2. Local(stack'[t], pc'[t], depth'[t], jniDepth'[t])
  BY <1>1 DEF IInv, Stacks, Local
<1>3. Inside(jniDepth'[t], pc'[t]) <=> Inside(jniDepth[t], pc[t])
  BY <1>1 DEF Inside
<1> QED BY <1>1, <1>2, <1>3, OneMoves

(* What the program counter says about a thread's stack.                   *)
LEMMA Stack ==
  ASSUME IInv, NEW t \in Threads
  PROVE  /\ stack[t] \in Seq(Frame) /\ Alternates(stack[t]) /\ Fits(stack[t], pc[t])
         /\ pc[t] \in Places /\ depth[t] \in Nat /\ jniDepth[t] \in Nat
         /\ depth[t] = Number(stack[t], "guest") /\ jniDepth[t] = Number(stack[t], "jni")
         /\ regs[t] \in Registers
         /\ Top(t) = Last(stack[t]) /\ Pop(t) = Front(stack[t])
         /\ stack[t] # <<>> => Top(t) \in Frame
<1>1. stack[t] \in Seq(Frame) /\ Top(t) = Last(stack[t]) /\ Pop(t) = Front(stack[t])
  BY DEF IInv, Types, Top, Last, Pop, Front
<1>2. stack[t] # <<>> => Top(t) \in Frame
  BY <1>1, FrontIs
<1> QED BY <1>1, <1>2 DEF IInv, Types, Stacks, Local

LEMMA PlainSteps ==
  ASSUME IInv, NEW t \in Threads,
         \/ Run(t) \/ StopRunning(t) \/ GuestFaults(t) \/ IsJni(t) \/ JniRefuses(t)
         \/ CallService(t) \/ ImportFails(t) \/ CallWait(t) \/ Woken(t) \/ ImportSeesFailure(t)
  PROVE  IInv'
<1>1. Fits(stack[t], pc[t]) /\ Top(t) = Last(stack[t]) /\ pc[t] \in Places
  BY Stack
<1>2. PICK p \in {"arm", "fail", "host", "check", "wait"} :
         /\ Goes(t, p) /\ UNCHANGED <<stack, regs, depth, jniDepth, jniLock>>
         /\ pc[t] \in {"check", "arm", "decode", "host", "import", "wait", "fail"}
         /\ p \in {"arm", "check", "wait"} => pc[t] \in {"check", "import", "wait"}
         /\ p = "host" => pc[t] = "decode" \/ Top(t).kind = "import"
  BY DEF Run, StopRunning, GuestFaults, IsJni, JniRefuses, CallService, ImportFails,
         CallWait, Woken, ImportSeesFailure, At
<1>3. Fits(stack[t], p)
  BY <1>1, <1>2 DEF Fits
<1>4. p \in Places \ {"spin"} /\ pc[t] # "spin"
  BY <1>2 DEF Places
<1> QED BY <1>2, <1>3, <1>4, GoesKeeps

LEMMA TakeJniLockKeeps ==
  ASSUME IInv, NEW t \in Threads, TakeJniLock(t)
  PROVE  IInv'
<1>1. /\ pc[t] = "spin" /\ ~jniLock /\ jniLock' = TRUE /\ Goes(t, "decode")
      /\ UNCHANGED <<stack, regs, depth, jniDepth>>
  BY DEF TakeJniLock, At
<1>2. Types' /\ Moves(t) /\ pc'[t] = "decode"
  BY <1>1 DEF IInv, Types, Moves, Goes, Places
<1>3. Local(stack[t], "spin", depth[t], jniDepth[t])
  BY <1>1 DEF IInv, Stacks
<1>4. Local(stack'[t], pc'[t], depth'[t], jniDepth'[t])
  BY <1>1, <1>2, <1>3 DEF Local, Fits
<1>5. Inside(jniDepth'[t], pc'[t])
  BY <1>1, <1>2, <1>3 DEF Local, Inside
<1> QED BY <1>1, <1>2, <1>4, <1>5, OneMoves

(* A step that changes the stack.                                          *)
Stands(t, q, p) ==
    /\ q \in Seq(Frame) /\ Alternates(q) /\ Fits(q, p) /\ p \in Places \ {"spin"}
    /\ stack' = [stack EXCEPT ![t] = q]
    /\ pc' \in [Threads -> Places] /\ pc'[t] = p
    /\ \A u \in Threads \ {t} : pc'[u] = pc[u]
    /\ regs' \in [Threads -> Registers]

DepthIs(t, n) ==
    /\ depth' \in [Threads -> Nat] /\ depth'[t] = n
    /\ \A u \in Threads \ {t} : depth'[u] = depth[u]

LEMMA StackMoves ==
  ASSUME IInv, NEW t \in Threads, NEW q, NEW p, pc[t] # "spin", Stands(t, q, p),
         DepthIs(t, Number(q, "guest")),
         Number(q, "jni") = jniDepth[t], UNCHANGED <<jniDepth, jniLock>>
  PROVE  IInv'
<1>1. Types' /\ Moves(t) /\ stack'[t] = q /\ pc'[t] = p
  BY DEF IInv, Types, Moves, Stands, DepthIs
<1>2. Local(stack'[t], pc'[t], depth'[t], jniDepth'[t])
  BY <1>1 DEF Local, Stands, DepthIs
<1>3. Inside(jniDepth'[t], pc'[t]) <=> Inside(jniDepth[t], pc[t])
  BY <1>1 DEF Inside, Stands
<1> QED BY <1>1, <1>2, <1>3, OneMoves

LEMMA StackLeavesJni ==
  ASSUME IInv, NEW t \in Threads, NEW q, NEW p, pc[t] # "spin", Stands(t, q, p),
         Number(q, "guest") = depth[t], UNCHANGED depth,
         jniDepth[t] > 0, Number(q, "jni") = jniDepth[t] - 1, LeaveJni(t)
  PROVE  IInv'
<1>1. jniDepth[t] \in Nat /\ jniDepth'[t] = jniDepth[t] - 1
  BY DEF LeaveJni, IInv, Types
<1>2. Types' /\ Moves(t) /\ stack'[t] = q /\ pc'[t] = p
  BY <1>1 DEF IInv, Types, Moves, Stands, LeaveJni
<1>3. Local(stack'[t], pc'[t], depth'[t], jniDepth'[t])
  BY <1>1, <1>2 DEF Local, Stands
<1>4. Inside(jniDepth[t], pc[t]) /\ jniLock = TRUE
  BY DEF Inside, IInv, Types, Locked
<1>5. CASE jniDepth[t] = 1
  <2>1. ~Inside(jniDepth'[t], pc'[t])
    BY <1>1, <1>5 DEF Inside
  <2>2. ~(jniDepth[t] > 1)
    BY <1>5
  <2>3. ~jniLock'
    BY <2>2 DEF LeaveJni
  <2> QED BY <1>2, <1>3, <1>4, <2>1, <2>3, OneMoves
<1>6. CASE jniDepth[t] # 1
  <2>1. Inside(jniDepth'[t], pc'[t])
    BY <1>1, <1>2, <1>6 DEF Inside, Stands
  <2>2. jniDepth[t] > 1
    BY <1>1, <1>6
  <2>3. jniLock' = jniLock
    BY <1>4, <2>2 DEF LeaveJni
  <2> QED BY <1>2, <1>3, <1>4, <2>1, <2>3, OneMoves
<1> QED BY <1>5, <1>6

-----------------------------------------------------------------------------
(* Each step                                                               *)

(* A host function that calls keeps its kind.                              *)
LEMMA CallerIsHost ==
  ASSUME IInv, NEW t \in Threads, stack[t] # <<>>, Top(t).kind # "guest"
  PROVE  /\ Top(t) \in HostFrames
         /\ \A n \in Nat : /\ [Top(t) EXCEPT !.left = n] \in HostFrames
                           /\ [Top(t) EXCEPT !.left = n].kind = Top(t).kind
         /\ Top(t).left > 0 => CallerFrame(t) \in HostFrames /\ CallerFrame(t).kind = Top(t).kind
<1>1. Top(t) \in HostFrames /\ regs[t] \in Registers
  BY Stack DEF Frame, GuestFrames
<1> DEFINE f == Top(t)
<1>2. \A n \in Nat : [f EXCEPT !.left = n] \in HostFrames /\ [f EXCEPT !.left = n].kind = f.kind
  <2> HIDE DEF f
  <2>1. f \in HostFrames
    BY <1>1 DEF f
  <2> QED BY <2>1 DEF HostFrames
<1>3. ASSUME f.left > 0
      PROVE  CallerFrame(t) \in HostFrames /\ CallerFrame(t).kind = f.kind
  <2> DEFINE n == f.left - 1
             v == IF f.kind = "import" THEN regs[t] ELSE f.saved
  <2>1. f.left \in Nat /\ f.saved \in Registers
    BY <1>1 DEF HostFrames
  <2>2. n \in Nat /\ v \in Registers
    BY <1>1, <1>3, <2>1
  <2>3. CallerFrame(t) = [f EXCEPT !.left = n, !.saved = v]
    BY DEF CallerFrame
  <2> HIDE DEF f, n, v
  <2>4. f \in HostFrames
    BY <1>1 DEF f
  <2>5. [f EXCEPT !.left = n, !.saved = v] \in HostFrames /\ [f EXCEPT !.left = n, !.saved = v].kind = f.kind
    BY <2>2, <2>4 DEF HostFrames
  <2> QED BY <2>3, <2>5
<1> QED BY <1>1, <1>2, <1>3

(* The first frame, and the last one that goes.                            *)
LEMMA OneFrame ==
  ASSUME NEW f \in Frame, f.kind \in {"entry", "dex"}
  PROVE  /\ <<f>> \in Seq(Frame) /\ Alternates(<<f>>) /\ Last(<<f>>) = f /\ <<f>> # <<>>
         /\ \A kind : kind \notin {"entry", "dex"} => Number(<<f>>, kind) = 0
<1>1. <<f>> \in Seq(Frame) /\ Len(<<f>>) = 1 /\ <<f>>[1] = f /\ <<f>> # <<>>
  OBVIOUS
<1>2. Alternates(<<f>>) /\ Last(<<f>>) = f
  BY <1>1 DEF Alternates, Last
<1>3. ASSUME NEW kind, kind \notin {"entry", "dex"} PROVE Number(<<f>>, kind) = 0
  <2>1. Frames(<<f>>, kind) = {}
    BY <1>1, <1>3 DEF Frames
  <2> QED BY <2>1, FS_EmptySet DEF Number
<1> QED BY <1>1, <1>2, <1>3

LEMMA NoFrame ==
  /\ <<>> \in Seq(Frame) /\ Alternates(<<>>)
  /\ \A kind : Number(<<>>, kind) = 0
<1>1. Len(<<>>) = 0 /\ <<>> \in Seq(Frame)
  BY EmptySeq
<1>2. Alternates(<<>>)
  BY <1>1 DEF Alternates
<1>3. \A kind : Frames(<<>>, kind) = {}
  BY <1>1 DEF Frames
<1> QED BY <1>1, <1>2, <1>3, FS_EmptySet DEF Number

LEMMA EnterKeeps ==
  ASSUME IInv, NEW t \in Threads, StartThread(t) \/ EnterMain(t)
  PROVE  IInv'
<1>1. PICK f \in {HostFrame("entry", HostCalls), HostFrame("entry", 1), HostFrame("dex", HostCalls)} :
         /\ pc[t] = "idle" /\ stack' = [stack EXCEPT ![t] = <<f>>] /\ Goes(t, "host")
         /\ UNCHANGED <<regs, depth, jniDepth, jniLock>>
  BY DEF StartThread, EnterMain, At
<1>2. f \in Frame /\ f.kind \in {"entry", "dex"}
  BY DispatchAssumption DEF HostFrame, Frame, HostFrames, Registers
<1>3. stack[t] = <<>> /\ depth[t] = 0 /\ jniDepth[t] = 0
  BY <1>1, Stack, NoFrame DEF Fits
<1>4. Fits(<<f>>, "host")
  BY <1>2, OneFrame DEF Fits
<1>5. Stands(t, <<f>>, "host")
  BY <1>1, <1>2, <1>4, OneFrame DEF Stands, Goes, IInv, Types, Places
<1>6. DepthIs(t, Number(<<f>>, "guest")) /\ Number(<<f>>, "jni") = jniDepth[t]
  BY <1>1, <1>2, <1>3, OneFrame DEF DepthIs, IInv, Types
<1> QED BY <1>1, <1>5, <1>6, StackMoves

LEMMA LeaveKeeps ==
  ASSUME IInv, NEW t \in Threads, Leave(t)
  PROVE  IInv'
<1>1. /\ Len(stack[t]) = 1 /\ pc[t] # "spin" /\ stack' = [stack EXCEPT ![t] = <<>>]
      /\ UNCHANGED <<depth, jniDepth, jniLock>>
      /\ regs' = [regs EXCEPT ![t] = [at |-> 0, sp |-> 0, lr |-> 0]]
  BY DEF Leave, At
<1>2. PICK p \in {"idle", "done"} : Goes(t, p)
  BY DEF Leave
<1>3. /\ stack[t] \in Seq(Frame) /\ Alternates(stack[t])
      /\ depth[t] = Number(stack[t], "guest") /\ jniDepth[t] = Number(stack[t], "jni")
  BY Stack
<1>4. stack[t][1].kind \in {"entry", "dex"} /\ Len(stack[t]) = 1
  BY <1>1, <1>3 DEF Alternates
<1>5. Frames(stack[t], "guest") = {} /\ Frames(stack[t], "jni") = {}
  BY <1>4 DEF Frames
<1>6. depth[t] = 0 /\ jniDepth[t] = 0
  BY <1>3, <1>5, FS_EmptySet DEF Number
<1>7. Stands(t, <<>>, p)
  BY <1>1, <1>2, NoFrame DEF Stands, Fits, Goes, IInv, Types, Places, Registers
<1>8. DepthIs(t, Number(<<>>, "guest")) /\ Number(<<>>, "jni") = jniDepth[t]
  BY <1>1, <1>6, NoFrame DEF DepthIs, IInv, Types
<1> QED BY <1>1, <1>7, <1>8, StackMoves

(* The top frame changes, its kind does not.                               *)
LEMMA SwapKeeps ==
  ASSUME IInv, NEW t \in Threads, CallTooDeep(t) \/ ThreadSeesFailure(t)
  PROVE  IInv'
<1>1. /\ stack[t] \in Seq(Frame) /\ Alternates(stack[t]) /\ Fits(stack[t], pc[t])
      /\ Top(t) = Last(stack[t]) /\ Pop(t) = Front(stack[t]) /\ regs[t] \in Registers
      /\ depth[t] = Number(stack[t], "guest") /\ jniDepth[t] = Number(stack[t], "jni")
  BY Stack
<1>2. stack[t] # <<>> /\ pc[t] # "spin"
  BY <1>1 DEF CallTooDeep, ThreadSeesFailure, At, Fits
<1>3. Top(t) \in Frame
  BY <1>2, Stack
<1>4. PICK f \in Frame, p \in {"fail", "host"} :
         /\ stack' = [stack EXCEPT ![t] = Append(Pop(t), f)] /\ Goes(t, p)
         /\ f.kind = Top(t).kind /\ (p = "host" => f.kind = "entry")
         /\ UNCHANGED <<regs, depth, jniDepth, jniLock>>
  <2>1. CASE CallTooDeep(t)
    <3>1. Top(t).kind # "guest" /\ Top(t).left > 0
      BY <1>1, <2>1 DEF CallTooDeep, At, Fits
    <3>2. CallerFrame(t) \in Frame /\ CallerFrame(t).kind = Top(t).kind
      BY <1>2, <3>1, CallerIsHost DEF Frame
    <3> QED BY <2>1, <3>2 DEF CallTooDeep
  <2>2. CASE ThreadSeesFailure(t)
    <3> DEFINE f == IF Top(t).left = HostCalls - 1 THEN Top(t) ELSE [Top(t) EXCEPT !.left = 0]
    <3>0. Top(t).kind = "entry"
      BY <2>2 DEF ThreadSeesFailure
    <3>1. f \in Frame /\ f.kind = "entry"
      BY <1>2, <1>3, <3>0, CallerIsHost DEF Frame
    <3>2. /\ stack' = [stack EXCEPT ![t] = Append(Pop(t), f)] /\ Goes(t, "host")
          /\ UNCHANGED <<regs, depth, jniDepth, jniLock>>
      BY <2>2 DEF ThreadSeesFailure
    <3> HIDE DEF f
    <3> QED BY <3>0, <3>1, <3>2
  <2> QED BY <2>1, <2>2
<1> DEFINE q == Append(Pop(t), f)
<1>5. /\ q \in Seq(Frame) /\ Alternates(q) /\ q # <<>> /\ Last(q) = f
      /\ \A kind : Number(q, kind) = Number(stack[t], kind)
  BY <1>1, <1>2, <1>4, SwapStack
<1>6. stack' = [stack EXCEPT ![t] = q]
  BY <1>4
<1> HIDE DEF q
<1>7. Fits(q, p)
  BY <1>4, <1>5 DEF Fits
<1>8. Stands(t, q, p)
  BY <1>4, <1>5, <1>6, <1>7 DEF Stands, Goes, IInv, Types, Places
<1>9. DepthIs(t, Number(q, "guest")) /\ Number(q, "jni") = jniDepth[t]
  BY <1>1, <1>4, <1>5 DEF DepthIs, IInv, Types
<1> QED BY <1>2, <1>4, <1>8, <1>9, StackMoves

(* A nested call begins.                                                   *)
LEMMA CallGuestKeeps ==
  ASSUME IInv, NEW t \in Threads, CallGuest(t)
  PROVE  IInv'
<1> DEFINE n == depth[t] + 1
           g == GuestFrame(n)
           below == Append(Pop(t), CallerFrame(t))
           q == Append(below, g)
<1>1. /\ stack[t] \in Seq(Frame) /\ Alternates(stack[t]) /\ Fits(stack[t], pc[t])
      /\ Top(t) = Last(stack[t]) /\ Pop(t) = Front(stack[t]) /\ regs[t] \in Registers
      /\ depth[t] = Number(stack[t], "guest") /\ jniDepth[t] = Number(stack[t], "jni")
      /\ depth[t] \in Nat
  BY Stack
<1>2. /\ pc[t] = "host" /\ Top(t).left > 0 /\ Goes(t, "check")
      /\ stack' = [stack EXCEPT ![t] = Pop(t) \o <<CallerFrame(t), g>>]
      /\ regs' = [regs EXCEPT ![t] = [at |-> n, sp |-> n, lr |-> 0]]
      /\ depth' = [depth EXCEPT ![t] = n]
      /\ UNCHANGED <<jniDepth, jniLock>>
  BY DEF CallGuest, At
<1>3. stack[t] # <<>> /\ Top(t).kind # "guest"
  BY <1>1, <1>2 DEF Fits
<1>4. Top(t) \in Frame
  BY <1>3, Stack
<1>5. CallerFrame(t) \in Frame /\ CallerFrame(t).kind = Top(t).kind
  BY <1>2, <1>3, CallerIsHost DEF Frame
<1>6. g \in Frame /\ g.kind = "guest" /\ n \in Nat
  BY <1>1 DEF GuestFrame, Frame, GuestFrames
<1>7. Pop(t) \in Seq(Frame)
  BY <1>1, <1>3, FrontIs
<1>8. stack' = [stack EXCEPT ![t] = q]
  <2> HIDE DEF g, n
  <2>1. Pop(t) \o <<CallerFrame(t), g>> = q
    BY <1>5, <1>6, <1>7, TwoMore
  <2> QED BY <1>2, <2>1
<1>9. /\ below \in Seq(Frame) /\ Alternates(below) /\ below # <<>> /\ Last(below) = CallerFrame(t)
      /\ \A kind : Number(below, kind) = Number(stack[t], kind)
  BY <1>1, <1>3, <1>5, SwapStack
<1>10. /\ q \in Seq(Frame) /\ q # <<>> /\ Alternates(q) /\ Last(q) = g
       /\ \A kind : Number(q, kind) = Number(below, kind) + (IF g.kind = kind THEN 1 ELSE 0)
  <2> HIDE DEF below, g
  <2> QED BY <1>3, <1>5, <1>6, <1>9, PushStack, PushNumber
<1>11. Number(q, "guest") = n /\ Number(q, "jni") = jniDepth[t]
  <2>1. Number(stack[t], "jni") \in Nat
    BY <1>1, NumberIsNat
  <2> HIDE DEF q, below, g
  <2> QED BY <1>1, <1>6, <1>9, <1>10, <2>1
<1> HIDE DEF q
<1>12. Fits(q, "check")
  BY <1>6, <1>10 DEF Fits
<1>13. Stands(t, q, "check")
  BY <1>2, <1>6, <1>8, <1>10, <1>12 DEF Stands, Goes, IInv, Types, Places, Registers
<1>14. DepthIs(t, Number(q, "guest"))
  BY <1>2, <1>6, <1>11 DEF DepthIs, IInv, Types
<1> QED BY <1>2, <1>11, <1>13, <1>14, StackMoves

(* It ends, in whatever way.                                               *)
LEMMA LeaveCallKeeps ==
  ASSUME IInv, NEW t \in Threads, NEW rc \in {"host", "fail"}, LeaveCall(t, rc),
         Top(t).kind = "guest", pc[t] \in {"arm", "import", "fail"}
  PROVE  IInv'
<1> DEFINE q == Pop(t)
<1>1. /\ stack[t] \in Seq(Frame) /\ Alternates(stack[t]) /\ Fits(stack[t], pc[t])
      /\ Top(t) = Last(stack[t]) /\ Pop(t) = Front(stack[t])
      /\ depth[t] = Number(stack[t], "guest") /\ jniDepth[t] = Number(stack[t], "jni")
      /\ depth[t] \in Nat
  BY Stack
<1>2. stack[t] # <<>> /\ pc[t] # "spin"
  BY <1>1 DEF Fits
<1>3. Top(t) \in Frame
  BY <1>2, Stack
<1>4. q \in Seq(Frame) /\ Alternates(q) /\ q # <<>> /\ Last(q).kind # "guest"
  BY <1>1, <1>2, PopStack
<1>5. Number(stack[t], "guest") = Number(q, "guest") + 1 /\ Number(stack[t], "jni") = Number(q, "jni") + 0
  BY <1>1, <1>2, PopNumber
<1>6. Number(q, "guest") \in Nat /\ Number(q, "jni") \in Nat
  BY <1>4, NumberIsNat
<1>7. Last(q) \in Frame /\ q[Len(q)] = Last(q)
  BY <1>4, FrontIs DEF Last
<1>8. /\ stack' = [stack EXCEPT ![t] = q] /\ Goes(t, rc) /\ depth' = [depth EXCEPT ![t] = @ - 1]
      /\ UNCHANGED <<jniDepth, jniLock>>
  BY DEF LeaveCall
<1>9. PICK r \in RegsAfter(t, q[Len(q)]) : regs' = [regs EXCEPT ![t] = r]
  BY DEF LeaveCall
<1>10. r \in Registers
  <2>1. Top(t).level \in Nat
    BY <1>3 DEF Frame, HostFrames, GuestFrames
  <2>2. Last(q).kind = "import" => Last(q).saved \in Registers
    BY <1>7 DEF Frame, HostFrames, GuestFrames
  <2> QED BY <1>7, <1>9, <2>1, <2>2 DEF RegsAfter, Registers
<1> HIDE DEF q
<1>11. Fits(q, rc)
  BY <1>4 DEF Fits
<1>12. Stands(t, q, rc)
  BY <1>4, <1>8, <1>9, <1>10, <1>11 DEF Stands, Goes, IInv, Types, Places
<1>13. DepthIs(t, Number(q, "guest")) /\ Number(q, "jni") = jniDepth[t]
  BY <1>1, <1>5, <1>6, <1>8 DEF DepthIs, IInv, Types
<1> QED BY <1>2, <1>8, <1>12, <1>13, StackMoves

LEMMA CallEnds ==
  ASSUME IInv, NEW t \in Threads, GuestReturns(t) \/ GuestFails(t) \/ GuestExits(t)
  PROVE  IInv'
<1>1. Fits(stack[t], pc[t]) /\ Top(t) = Last(stack[t])
  BY Stack
<1>2. Top(t).kind = "guest" /\ pc[t] \in {"arm", "import", "fail"}
  BY <1>1 DEF GuestReturns, GuestFails, GuestExits, At, Fits
<1>3. LeaveCall(t, "host") \/ LeaveCall(t, "fail")
  BY DEF GuestReturns, GuestFails, GuestExits
<1> QED BY <1>2, <1>3, LeaveCallKeeps

(* A trap, which is the host on top of the guest.                          *)
LEMMA TrapKeeps ==
  ASSUME IInv, NEW t \in Threads, Trap(t)
  PROVE  IInv'
<1> DEFINE f == HostFrame("jni", HostCalls)
           q == Append(stack[t], f)
<1>1. /\ stack[t] \in Seq(Frame) /\ Alternates(stack[t]) /\ Fits(stack[t], pc[t])
      /\ depth[t] = Number(stack[t], "guest") /\ jniDepth[t] = Number(stack[t], "jni")
      /\ jniDepth[t] \in Nat /\ regs[t] \in Registers
  BY Stack
<1>2. PICK p \in {"spin", "decode"} :
         /\ pc[t] = "arm" /\ stack' = [stack EXCEPT ![t] = q]
         /\ regs' = [regs EXCEPT ![t].lr = regs[t].at]
         /\ jniDepth' = [jniDepth EXCEPT ![t] = @ + 1]
         /\ p = "spin" <=> jniDepth[t] = 0
         /\ Goes(t, p) /\ UNCHANGED <<depth, jniLock>>
  BY DEF Trap, At, Outermost
<1>3. stack[t] # <<>> /\ Last(stack[t]).kind = "guest"
  BY <1>1, <1>2 DEF Fits
<1>4. f \in Frame /\ f.kind = "jni"
  BY DispatchAssumption DEF HostFrame, Frame, HostFrames, Registers
<1>5. q \in Seq(Frame) /\ q # <<>> /\ Alternates(q) /\ Last(q) = f
  <2> HIDE DEF f
  <2> QED BY <1>1, <1>3, <1>4, PushStack
<1>6. Number(q, "guest") = Number(stack[t], "guest") + 0 /\ Number(q, "jni") = Number(stack[t], "jni") + 1
  <2> HIDE DEF f
  <2> QED BY <1>1, <1>4, PushNumber
<1>7. Number(stack[t], "guest") \in Nat
  BY <1>1, NumberIsNat
<1> HIDE DEF q
<1>8. Fits(q, p)
  BY <1>4, <1>5 DEF Fits
<1>9. Types' /\ Moves(t) /\ stack'[t] = q /\ pc'[t] = p
  <2>1. regs' \in [Threads -> Registers]
    BY <1>2 DEF IInv, Types, Registers
  <2>2. /\ stack' \in [Threads -> Seq(Frame)] /\ jniDepth' \in [Threads -> Nat]
        /\ depth' \in [Threads -> Nat] /\ jniLock' \in BOOLEAN
    BY <1>2, <1>5 DEF IInv, Types
  <2>3. pc' \in [Threads -> Places] /\ pc'[t] = p
    BY <1>2 DEF IInv, Types, Goes, Places
  <2>4. Moves(t) /\ stack'[t] = q
    BY <1>2 DEF IInv, Types, Moves, Goes
  <2> QED BY <2>1, <2>2, <2>3, <2>4 DEF Types
<1>10. jniDepth'[t] = jniDepth[t] + 1 /\ depth'[t] = depth[t]
  BY <1>2 DEF IInv, Types
<1>11. Local(stack'[t], pc'[t], depth'[t], jniDepth'[t])
  BY <1>1, <1>2, <1>5, <1>6, <1>7, <1>8, <1>9, <1>10 DEF Local
<1>12. Inside(jniDepth'[t], pc'[t]) <=> Inside(jniDepth[t], pc[t])
  BY <1>1, <1>2, <1>9, <1>10 DEF Inside
<1> QED BY <1>2, <1>9, <1>11, <1>12, OneMoves

LEMMA CallImportKeeps ==
  ASSUME IInv, NEW t \in Threads, CallImport(t)
  PROVE  IInv'
<1> DEFINE f == HostFrame("import", HostCalls)
           q == Append(stack[t], f)
<1>1. /\ stack[t] \in Seq(Frame) /\ Alternates(stack[t]) /\ Fits(stack[t], pc[t])
      /\ depth[t] = Number(stack[t], "guest") /\ jniDepth[t] = Number(stack[t], "jni")
  BY Stack
<1>2. /\ pc[t] = "import" /\ stack' = [stack EXCEPT ![t] = q] /\ Goes(t, "host")
      /\ UNCHANGED <<regs, depth, jniDepth, jniLock>>
  BY DEF CallImport, At
<1>3. stack[t] # <<>> /\ Last(stack[t]).kind = "guest"
  BY <1>1, <1>2 DEF Fits
<1>4. f \in Frame /\ f.kind = "import"
  BY DispatchAssumption DEF HostFrame, Frame, HostFrames, Registers
<1>5. q \in Seq(Frame) /\ q # <<>> /\ Alternates(q) /\ Last(q) = f
  <2> HIDE DEF f
  <2> QED BY <1>1, <1>3, <1>4, PushStack
<1>6. Number(q, "guest") = Number(stack[t], "guest") + 0 /\ Number(q, "jni") = Number(stack[t], "jni") + 0
  <2> HIDE DEF f
  <2> QED BY <1>1, <1>4, PushNumber
<1>7. Number(stack[t], "guest") \in Nat /\ Number(stack[t], "jni") \in Nat
  BY <1>1, NumberIsNat
<1> HIDE DEF q
<1>8. Fits(q, "host")
  BY <1>4, <1>5 DEF Fits
<1>9. Stands(t, q, "host")
  BY <1>2, <1>5, <1>8 DEF Stands, Goes, IInv, Types, Places
<1>10. DepthIs(t, Number(q, "guest")) /\ Number(q, "jni") = jniDepth[t]
  BY <1>1, <1>2, <1>6, <1>7 DEF DepthIs, IInv, Types
<1> QED BY <1>2, <1>9, <1>10, StackMoves

(* The host function is done, with whatever result: the guest is on top.   *)
LEMMA HostPopped ==
  ASSUME IInv, NEW t \in Threads, stack[t] # <<>>, Top(t).kind \in {"jni", "import"}
  PROVE  /\ Pop(t) \in Seq(Frame) /\ Alternates(Pop(t)) /\ Pop(t) # <<>>
         /\ Last(Pop(t)).kind = "guest"
         /\ Number(Pop(t), "guest") = depth[t]
         /\ Top(t).kind = "jni" => Number(Pop(t), "jni") = jniDepth[t] - 1 /\ jniDepth[t] > 0
         /\ Top(t).kind = "import" => Number(Pop(t), "jni") = jniDepth[t]
<1>1. /\ stack[t] \in Seq(Frame) /\ Alternates(stack[t])
      /\ Top(t) = Last(stack[t]) /\ Pop(t) = Front(stack[t])
      /\ depth[t] = Number(stack[t], "guest") /\ jniDepth[t] = Number(stack[t], "jni")
  BY Stack
<1>2. /\ Pop(t) \in Seq(Frame) /\ Alternates(Pop(t)) /\ Pop(t) # <<>>
      /\ Last(Pop(t)).kind = "guest"
  BY <1>1, PopStack
<1>3. /\ Number(stack[t], "guest") = Number(Pop(t), "guest") + 0
      /\ Number(stack[t], "jni") = Number(Pop(t), "jni") + (IF Top(t).kind = "jni" THEN 1 ELSE 0)
  BY <1>1, PopNumber
<1>4. Number(Pop(t), "guest") \in Nat /\ Number(Pop(t), "jni") \in Nat
  BY <1>2, NumberIsNat
<1> QED BY <1>1, <1>2, <1>3, <1>4

(* It marks the activation it goes back to, or not.                        *)
LEMMA Marked ==
  ASSUME NEW s \in Seq(Frame), Alternates(s), s # <<>>, Last(s).kind = "guest",
         NEW lost \in BOOLEAN,
         NEW q, q = [s EXCEPT ![Len(s)].lost = @ \/ lost]
  PROVE  /\ q \in Seq(Frame) /\ Alternates(q) /\ q # <<>> /\ Last(q).kind = "guest"
         /\ \A kind : Number(q, kind) = Number(s, kind)
<1> DEFINE f == [Last(s) EXCEPT !.lost = @ \/ lost]
           r == Append(Front(s), f)
<1>1. Len(s) \in Nat \ {0} /\ Last(s) \in GuestFrames
  BY FrontIs DEF Frame, HostFrames
<1>2. f \in GuestFrames /\ f.kind = "guest"
  BY <1>1 DEF GuestFrames
<1>3. q = [s EXCEPT ![Len(s)] = f]
  BY DEF Last
<1>4. f \in Frame
  BY <1>2 DEF Frame
<1> HIDE DEF f
<1>5. /\ q \in Seq(Frame) /\ Len(q) = Len(s)
      /\ \A j \in 1..Len(s) : q[j] = IF j = Len(s) THEN f ELSE s[j]
  BY <1>1, <1>3, <1>4, ExceptSeq
<1>6. /\ r \in Seq(Frame) /\ Len(r) = Len(s)
      /\ \A j \in 1..Len(s) : r[j] = IF j = Len(s) THEN f ELSE s[j]
  BY <1>1, <1>4, FrontIs
<1> HIDE DEF r
<1>7. q = r
  BY <1>5, <1>6, SeqEqual
<1>8. q = Append(Front(s), f)
  BY <1>7 DEF r
<1>9. f.kind = Last(s).kind
  BY <1>2
<1>10. /\ r \in Seq(Frame) /\ Alternates(r) /\ r # <<>> /\ Last(r) = f
       /\ \A kind : Number(r, kind) = Number(s, kind)
  <2>1. Append(Front(s), f) \in Seq(Frame) /\ Alternates(Append(Front(s), f))
        /\ Append(Front(s), f) # <<>> /\ Last(Append(Front(s), f)) = f
        /\ \A kind : Number(Append(Front(s), f), kind) = Number(s, kind)
    BY ONLY s \in Seq(Frame), Alternates(s), s # <<>>, <1>4, <1>9, SwapStack
  <2> QED BY <2>1 DEF r
<1> QED BY <1>2, <1>7, <1>10

LEMMA ReturnsToGuest ==
  ASSUME IInv, NEW t \in Threads, stack[t] # <<>>, Top(t).kind \in {"jni", "import"},
         pc[t] = "host", NEW lost \in BOOLEAN, ReturnToGuest(t, lost)
  PROVE  \E q : /\ Stands(t, q, "check")
                /\ \A kind : Number(q, kind) = Number(Pop(t), kind)
<1> DEFINE q == [Pop(t) EXCEPT ![Len(Pop(t))].lost = @ \/ lost]
<1>1. Pop(t) \in Seq(Frame) /\ Alternates(Pop(t)) /\ Pop(t) # <<>> /\ Last(Pop(t)).kind = "guest"
  BY HostPopped
<1>2. /\ stack' = [stack EXCEPT ![t] = q]
      /\ regs' = [regs EXCEPT ![t].at = regs[t].lr] /\ Goes(t, "check")
  BY DEF ReturnToGuest
<1>3. /\ q \in Seq(Frame) /\ Alternates(q) /\ q # <<>> /\ Last(q).kind = "guest"
      /\ \A kind : Number(q, kind) = Number(Pop(t), kind)
  BY <1>1, Marked
<1> HIDE DEF q
<1>4. Fits(q, "check")
  BY <1>3 DEF Fits
<1>5. regs' \in [Threads -> Registers]
  BY <1>2 DEF IInv, Types, Registers
<1>6. Stands(t, q, "check")
  BY <1>2, <1>3, <1>4, <1>5 DEF Stands, Goes, IInv, Types, Places
<1> QED BY <1>3, <1>6

LEMMA ImportReturnsKeeps ==
  ASSUME IInv, NEW t \in Threads, ImportReturns(t)
  PROVE  IInv'
<1>1. /\ pc[t] = "host" /\ Top(t).kind = "import" /\ ReturnToGuest(t, FALSE)
      /\ UNCHANGED <<depth, jniDepth, jniLock>>
  BY DEF ImportReturns, At
<1>2. stack[t] # <<>>
  BY <1>1, Stack DEF Fits
<1>3. PICK q : Stands(t, q, "check") /\ \A kind : Number(q, kind) = Number(Pop(t), kind)
  BY <1>1, <1>2, ReturnsToGuest
<1>4. DepthIs(t, Number(q, "guest")) /\ Number(q, "jni") = jniDepth[t]
  BY <1>1, <1>2, <1>3, HostPopped DEF DepthIs, IInv, Types
<1> QED BY <1>1, <1>3, <1>4, StackMoves

LEMMA JniReturnsKeeps ==
  ASSUME IInv, NEW t \in Threads, JniReturns(t)
  PROVE  IInv'
<1>1. /\ pc[t] = "host" /\ Top(t).kind = "jni" /\ ReturnToGuest(t, Top(t).left < HostCalls)
      /\ LeaveJni(t) /\ UNCHANGED depth
  BY DEF JniReturns, At
<1>2. stack[t] # <<>>
  BY <1>1, Stack DEF Fits
<1>3. (Top(t).left < HostCalls) \in BOOLEAN
  OBVIOUS
<1>4. PICK q : Stands(t, q, "check") /\ \A kind : Number(q, kind) = Number(Pop(t), kind)
  BY <1>1, <1>2, <1>3, ReturnsToGuest
<1>5. /\ Number(q, "guest") = depth[t]
      /\ jniDepth[t] > 0 /\ Number(q, "jni") = jniDepth[t] - 1
  BY <1>1, <1>2, <1>4, HostPopped
<1> QED BY <1>1, <1>4, <1>5, StackLeavesJni

(* A trap that is no JNI function, and a JNI function that failed.         *)
LEMMA JniLeaves ==
  ASSUME IInv, NEW t \in Threads, IsImport(t) \/ JniFails(t)
  PROVE  IInv'
<1>1. Fits(stack[t], pc[t]) /\ Top(t) = Last(stack[t])
  BY Stack
<1>2. /\ pc[t] \in {"decode", "fail"} /\ Top(t).kind = "jni" /\ LeaveJni(t)
      /\ stack' = [stack EXCEPT ![t] = Pop(t)] /\ UNCHANGED <<regs, depth>>
  BY <1>1 DEF IsImport, JniFails, At, Fits
<1>3. stack[t] # <<>>
  BY <1>1, <1>2 DEF Fits
<1>4. /\ Pop(t) \in Seq(Frame) /\ Alternates(Pop(t)) /\ Pop(t) # <<>>
      /\ Last(Pop(t)).kind = "guest" /\ Number(Pop(t), "guest") = depth[t]
      /\ jniDepth[t] > 0 /\ Number(Pop(t), "jni") = jniDepth[t] - 1
  BY <1>2, <1>3, HostPopped
<1>5. PICK p \in {"import", "fail"} :
         pc' \in [Threads -> Places] /\ pc'[t] = p /\ \A u \in Threads \ {t} : pc'[u] = pc[u]
  <2>1. CASE IsImport(t)
    BY <2>1 DEF IsImport, Goes, IInv, Types, Places
  <2>2. CASE JniFails(t)
    BY <2>2 DEF JniFails, At, IInv, Types, Places
  <2> QED BY <2>1, <2>2
<1>6. Fits(Pop(t), p)
  BY <1>4 DEF Fits
<1>7. Stands(t, Pop(t), p)
  BY <1>2, <1>4, <1>5, <1>6 DEF Stands, IInv, Types, Places
<1> QED BY <1>2, <1>4, <1>7, StackLeavesJni

-----------------------------------------------------------------------------
(* Every step keeps the invariant, and the system starts in it.            *)
THEOREM Invariance == DispatchSpec => []IInv
<1>1. DispatchInit => IInv
  <2> SUFFICES ASSUME DispatchInit PROVE IInv
    OBVIOUS
  <2>1. Types
    BY NoFrame DEF DispatchInit, Types, Places, Registers
  <2>2. Stacks
    <3>1. \A t \in Threads : /\ stack[t] = <<>> /\ pc[t] = "idle"
                             /\ depth[t] = 0 /\ jniDepth[t] = 0
      BY DEF DispatchInit
    <3>2. Local(<<>>, "idle", 0, 0)
      BY NoFrame DEF Local, Fits
    <3> QED BY <3>1, <3>2 DEF Stacks
  <2>3. Locked
    BY DEF DispatchInit, Locked, Inside
  <2> QED BY <2>1, <2>2, <2>3 DEF IInv
<1>2. IInv /\ [DispatchNext]_dispatchVars => IInv'
  <2> SUFFICES ASSUME IInv, [DispatchNext]_dispatchVars PROVE IInv'
    OBVIOUS
  <2>1. ASSUME NEW t \in Threads, Step(t) \/ EnterMain(t) PROVE IInv'
    BY <2>1, EnterKeeps, LeaveKeeps, PlainSteps, SwapKeeps, CallGuestKeeps, CallEnds, TrapKeeps,
       TakeJniLockKeeps, CallImportKeeps, ImportReturnsKeeps, JniReturnsKeeps, JniLeaves DEF Step
  <2>2. CASE Shutdown \/ CancelWaits \/ UNCHANGED dispatchVars
    <3>1. UNCHANGED <<stack, pc, regs, depth, jniDepth, jniLock>>
      BY <2>2 DEF Shutdown, CancelWaits, dispatchVars, calls
    <3> QED BY <3>1 DEF IInv, Types, Stacks, Locked
  <2> QED BY <2>1, <2>2 DEF DispatchNext
<1> QED BY <1>1, <1>2, PTL DEF DispatchSpec

(* The JNI lock is set exactly while one thread is inside a JNI function,  *)
(* and the two counters of a thread count its frames, on every way in and  *)
(* out (agr_guest_runtime.c: dispatch_jni and call_address).               *)
THEOREM LockAndCountersExact == DispatchSpec => []DispatchExact
<1>1. IInv => DispatchExact
  <2> SUFFICES ASSUME IInv PROVE DispatchExact
    OBVIOUS
  <2>1. ASSUME NEW t \in Threads
        PROVE  /\ depth[t] = Cardinality(FramesOf(t, "guest"))
               /\ jniDepth[t] = Cardinality(FramesOf(t, "jni"))
               /\ FramesOf(t, "jni") # {} <=> jniDepth[t] > 0
    <3>1. /\ depth[t] = Cardinality(FramesOf(t, "guest"))
          /\ jniDepth[t] = Cardinality(FramesOf(t, "jni"))
          /\ IsFiniteSet(FramesOf(t, "jni")) /\ jniDepth[t] \in Nat
      BY Stack, NumberIsNat DEF Number, Frames, FramesOf
    <3> QED BY <3>1, FS_EmptySet
  <2>2. \A t \in Threads : InJni(t) <=> Inside(jniDepth[t], pc[t])
    BY <2>1 DEF InJni, At, Inside
  <2> DEFINE S == {t \in Threads : InJni(t)}
  <2>3. Cardinality(S) = IF jniLock THEN 1 ELSE 0
    <3>1. CASE jniLock
      <4>1. PICK t \in Threads : S = {t}
        BY <2>2, <3>1 DEF IInv, Locked
      <4>2. Cardinality(S) = 1
        BY <4>1, FS_Singleton
      <4> QED BY <3>1, <4>2
    <3>2. CASE ~jniLock
      <4>1. S = {}
        BY <2>2, <3>2 DEF IInv, Locked
      <4>2. Cardinality(S) = 0
        BY <4>1, FS_EmptySet
      <4> QED BY <3>2, <4>2
    <3> QED BY <3>1, <3>2
  <2> QED BY <2>1, <2>3 DEF DispatchExact
<1> QED BY <1>1, Invariance, PTL
-----------------------------------------------------------------------------
(***************************************************************************)
(* What an interrupted function finds when it goes on, for any pthreads,   *)
(* any depth of nested calls and any number of calls a host function       *)
(* makes.                                                                  *)
(*                                                                         *)
(* The invariant is about every guest activation of a stack, not the top   *)
(* one only: where its registers are depends on how many frames are above  *)
(* it.  On top they are in the processor; under one host function they     *)
(* still are, until that function calls the guest; from then on the linker *)
(* and once have saved them, and a JNI function has counted its call,      *)
(* which will mark the activation as lost.                                 *)
(***************************************************************************)

(* Executing at v, on the stack of v, with a return address in v.          *)
AllAt(v) == [at |-> v, sp |-> v, lr |-> v]

OnTop(p, r, v) ==
    /\ p \in {"check", "arm", "wait", "import"} => r.at = v /\ r.sp = v
    /\ p = "import" => r.lr = v

(* Of a host function that has not called the guest, or has returned from  *)
(* there.                                                                  *)
Untouched(f, r, v) ==
    f.kind = "import" \/ (f.kind = "jni" /\ f.left = HostCalls) => r = AllAt(v)

(* Of one whose call is running.                                           *)
Remembers(f, v) ==
    /\ f.kind = "import" => f.saved = AllAt(v)
    /\ f.kind = "jni" => f.left < HostCalls

Intact(s, i, p, r) ==
    /\ i = Len(s) => OnTop(p, r, s[i].level)
    /\ i + 1 = Len(s) => Untouched(s[i+1], r, s[i].level)
    /\ i + 1 < Len(s) => Remembers(s[i+1], s[i].level)

Kept(s, p, r) == \A i \in 1..Len(s) : s[i].kind = "guest" /\ ~s[i].lost => Intact(s, i, p, r)

Budgets(s, p) ==
    /\ \A i \in 1..Len(s) : s[i].kind = "jni" => s[i].left <= HostCalls
    /\ p \in {"spin", "decode"} => Last(s).left = HostCalls

Resumes(s, p, r) == Kept(s, p, r) /\ Budgets(s, p)

Returning == \A t \in Threads : Resumes(stack[t], pc[t], regs[t])

-----------------------------------------------------------------------------
(* Stacks                                                                  *)

HostPcs == {"idle", "done", "host", "fail"}

(* Two neighbours are not both guest.                                      *)
LEMMA Neighbours ==
  ASSUME NEW s \in Seq(Frame), Alternates(s), NEW i \in 1..Len(s), i + 1 \in 1..Len(s),
         s[i].kind = "guest"
  PROVE  s[i+1].kind # "guest"
<1>1. i \in Nat /\ i + 1 > 1 /\ (i + 1) - 1 = i
  OBVIOUS
<1>2. s[i+1].kind = "guest" <=> s[(i + 1) - 1].kind # "guest"
  BY <1>1 DEF Alternates
<1> QED BY <1>1, <1>2

(* The program counter moves, nothing else.                                *)
LEMMA PcMoves ==
  ASSUME NEW s, NEW p, NEW r, Resumes(s, p, r), NEW q,
         q \in {"check", "arm", "wait"} => p \in {"check", "arm", "wait", "import"},
         q # "import", q \in {"spin", "decode"} => p \in {"spin", "decode"}
  PROVE  Resumes(s, q, r)
BY DEF Resumes, Kept, Budgets, Intact, OnTop

(* A host function begins on top of the guest.                             *)
LEMMA HostBegins ==
  ASSUME NEW s \in Seq(Frame), Alternates(s), s # <<>>, Last(s).kind = "guest",
         NEW p, NEW r, Resumes(s, p, r),
         NEW f \in HostFrames, f.left = HostCalls,
         NEW r2, ~Last(s).lost => r2 = AllAt(Last(s).level),
         NEW p2
  PROVE  Resumes(Append(s, f), p2, r2)
<1> DEFINE q == Append(s, f)
<1>1. /\ Len(s) \in Nat \ {0} /\ Len(q) = Len(s) + 1 /\ q[Len(s) + 1] = f
      /\ \A i \in 1..Len(s) : q[i] = s[i]
  BY FrontIs
<1>2. HostCalls \in Nat /\ f.kind # "guest" /\ Last(q) = f
  BY <1>1, DispatchAssumption DEF HostFrames, Last
<1> HIDE DEF q
<1>3. Budgets(q, p2)
  <2>1. ASSUME NEW i \in 1..Len(q), q[i].kind = "jni" PROVE q[i].left <= HostCalls
    <3>1. CASE i = Len(s) + 1
      BY <1>1, <1>2, <3>1
    <3>2. CASE i # Len(s) + 1
      BY <1>1, <2>1, <3>2 DEF Resumes, Budgets
    <3> QED BY <3>1, <3>2
  <2> QED BY <1>2, <2>1 DEF Budgets
<1>4. ASSUME NEW i \in 1..Len(q), q[i].kind = "guest", ~q[i].lost PROVE Intact(q, i, p2, r2)
  <2>1. i \in 1..Len(s) /\ q[i] = s[i]
    BY <1>1, <1>2, <1>4
  <2>2. CASE i = Len(s)
    <3>1. r2 = AllAt(q[i].level) /\ i + 1 = Len(q)
      BY <1>1, <1>4, <2>1, <2>2 DEF Last
    <3> QED BY <1>1, <2>2, <3>1 DEF Intact, Untouched
  <2>3. CASE i # Len(s)
    <3>1. i + 1 \in 1..Len(s) /\ q[i+1] = s[i+1]
      BY <1>1, <2>1, <2>3
    <3>2. i + 1 # Len(s)
      BY <1>4, <2>1, <3>1, Neighbours DEF Last
    <3>3. Remembers(s[i+1], s[i].level)
      BY <1>1, <1>4, <2>1, <3>1, <3>2 DEF Resumes, Kept, Intact
    <3> QED BY <1>1, <2>1, <3>1, <3>2, <3>3 DEF Intact
  <2> QED BY <2>2, <2>3
<1>5. Resumes(q, p2, r2)
  BY <1>3, <1>4 DEF Resumes, Kept
<1> QED BY <1>5 DEF q

(* It ends, perhaps with a mark on the activation below.                   *)
LEMMA HostEnds ==
  ASSUME NEW s \in Seq(Frame), Alternates(s), NEW p, NEW r, Resumes(s, p, r),
         NEW q \in Seq(Frame), q # <<>>, Len(q) = Len(s) - 1,
         \A i \in 1..Len(q) - 1 : q[i] = s[i],
         s[Len(q)].kind = "guest", Last(q).kind = "guest", Last(q).level = s[Len(q)].level,
         NEW p2, p2 \notin {"spin", "decode"},
         NEW r2, ~Last(q).lost => OnTop(p2, r2, Last(q).level)
  PROVE  Resumes(q, p2, r2)
<1>1. Len(q) \in Nat \ {0} /\ Len(s) \in Nat /\ Len(s) = Len(q) + 1
  <2>1. Len(q) \in Nat /\ Len(s) \in Nat /\ Len(q) # 0
    BY EmptySeq
  <2>2. Len(s) = Len(q) + 1
    BY <2>1
  <2> QED BY <2>1, <2>2
<1>2. Budgets(q, p2)
  <2>1. ASSUME NEW i \in 1..Len(q), q[i].kind = "jni" PROVE q[i].left <= HostCalls
    <3>1. i # Len(q)
      BY <2>1 DEF Last
    <3>2. q[i] = s[i] /\ i \in 1..Len(s)
      BY <1>1, <3>1
    <3> QED BY <2>1, <3>2 DEF Resumes, Budgets
  <2> QED BY <2>1 DEF Budgets
<1>3. ASSUME NEW i \in 1..Len(q), q[i].kind = "guest", ~q[i].lost PROVE Intact(q, i, p2, r2)
  <2>1. CASE i = Len(q)
    BY <1>1, <1>3, <2>1 DEF Intact, Last
  <2>2. CASE i # Len(q)
    <3>1. i \in 1..Len(s) /\ i + 1 \in 1..Len(s) /\ q[i] = s[i] /\ i + 1 < Len(s)
      BY <1>1, <2>2
    <3>2. i + 1 # Len(q)
      BY <1>3, <3>1, Neighbours
    <3>3. q[i+1] = s[i+1] /\ i + 1 < Len(q)
      BY <1>1, <2>2, <3>2
    <3>4. Remembers(s[i+1], s[i].level)
      BY <1>3, <3>1 DEF Resumes, Kept, Intact
    <3> QED BY <2>2, <3>1, <3>2, <3>3, <3>4 DEF Intact
  <2> QED BY <2>1, <2>2
<1> QED BY <1>2, <1>3 DEF Resumes, Kept

(* A guest activation ends: its caller has the registers it saved.         *)
LEMMA GuestEnds ==
  ASSUME NEW s \in Seq(Frame), Alternates(s), s # <<>>, Last(s).kind = "guest",
         NEW p, NEW r, Resumes(s, p, r),
         NEW p2 \in HostPcs, NEW r2,
         Last(Front(s)).kind = "import" => r2 = Last(Front(s)).saved
  PROVE  Resumes(Front(s), p2, r2)
<1> DEFINE q == Front(s)
<1>1. /\ q \in Seq(Frame) /\ Len(q) = Len(s) - 1 /\ Len(s) \in Nat \ {0}
      /\ \A i \in 1..Len(q) : q[i] = s[i]
  BY FrontIs
<1>2. q # <<>> /\ Last(q).kind # "guest" /\ Alternates(q)
  BY PopStack
<1>3. Len(q) \in Nat \ {0}
  BY <1>1, <1>2, EmptySeq
<1> HIDE DEF q
<1>4. Budgets(q, p2)
  <2>1. ASSUME NEW i \in 1..Len(q), q[i].kind = "jni" PROVE q[i].left <= HostCalls
    <3>1. q[i] = s[i] /\ i \in 1..Len(s)
      BY <1>1
    <3> QED BY <2>1, <3>1 DEF Resumes, Budgets
  <2> QED BY <2>1 DEF Budgets, HostPcs
<1>5. ASSUME NEW i \in 1..Len(q), q[i].kind = "guest", ~q[i].lost PROVE Intact(q, i, p2, r2)
  <2>1. i # Len(q)
    BY <1>2, <1>5 DEF Last
  <2>2. i \in 1..Len(s) /\ i + 1 < Len(s) /\ q[i] = s[i] /\ q[i+1] = s[i+1]
    BY <1>1, <2>1
  <2>3. Remembers(q[i+1], q[i].level)
    BY <1>5, <2>2 DEF Resumes, Kept, Intact
  <2>4. i + 1 = Len(q) => Untouched(q[i+1], r2, q[i].level)
    <3>1. SUFFICES ASSUME i + 1 = Len(q) PROVE Untouched(q[i+1], r2, q[i].level)
      OBVIOUS
    <3>2. q[i+1] \in Frame /\ q[i+1] = Last(q)
      BY <1>1, <2>2, <3>1 DEF Last
    <3>3. q[i+1].kind = "import" => r2 = q[i+1].saved
      BY <3>2 DEF q
    <3>4. q[i+1].kind = "jni" => q[i+1].left \in Nat
      BY <3>2 DEF Frame, HostFrames, GuestFrames
    <3>5. q[i+1].kind = "jni" => q[i+1].left # HostCalls
      BY <2>3, <3>4, DispatchAssumption DEF Remembers
    <3> QED BY <2>3, <3>3, <3>5 DEF Remembers, Untouched
  <2> QED BY <2>1, <2>3, <2>4 DEF Intact
<1>6. Resumes(q, p2, r2)
  BY <1>4, <1>5 DEF Resumes, Kept
<1> QED BY <1>6 DEF q

(* The host function on top changes: it has made one call more, which was  *)
(* refused, or it is a thread's.                                           *)
LEMMA HostChanges ==
  ASSUME NEW s \in Seq(Frame), Alternates(s), s # <<>>, Last(s) \in HostFrames,
         NEW p, NEW r, Resumes(s, p, r),
         NEW f \in HostFrames, f.kind = Last(s).kind, f.kind = "jni" => f.left < HostCalls,
         NEW p2 \in HostPcs
  PROVE  Resumes(Append(Front(s), f), p2, r)
<1> DEFINE q == Append(Front(s), f)
<1>1. /\ Len(q) = Len(s) /\ Len(s) \in Nat \ {0} /\ q[Len(s)] = f
      /\ \A i \in 1..Len(s) - 1 : q[i] = s[i]
  BY FrontIs
<1> HIDE DEF q
<1>2. f.left \in Nat /\ f.kind # "guest" /\ HostCalls \in Nat
  BY DispatchAssumption DEF HostFrames
<1>3. Budgets(q, p2)
  <2>1. ASSUME NEW i \in 1..Len(q), q[i].kind = "jni" PROVE q[i].left <= HostCalls
    <3>1. CASE i = Len(s)
      BY <1>1, <1>2, <2>1, <3>1
    <3>2. CASE i # Len(s)
      BY <1>1, <2>1, <3>2 DEF Resumes, Budgets
    <3> QED BY <3>1, <3>2
  <2> QED BY <2>1 DEF Budgets, HostPcs
<1>4. ASSUME NEW i \in 1..Len(q), q[i].kind = "guest", ~q[i].lost PROVE Intact(q, i, p2, r)
  <2>1. i # Len(s)
    BY <1>1, <1>2, <1>4
  <2>2. i \in 1..Len(s) /\ q[i] = s[i]
    BY <1>1, <2>1
  <2>3. Intact(s, i, p, r)
    BY <1>4, <2>2 DEF Resumes, Kept
  <2>4. CASE i + 1 = Len(s)
    <3>1. Untouched(s[Len(s)], r, s[i].level)
      BY <2>3, <2>4 DEF Intact
    <3>2. Untouched(f, r, s[i].level)
      BY <1>2, <3>1 DEF Untouched, Last
    <3> QED BY <1>1, <2>1, <2>2, <2>4, <3>2 DEF Intact
  <2>5. CASE i + 1 # Len(s)
    <3>1. i + 1 < Len(s) /\ q[i+1] = s[i+1]
      BY <1>1, <2>1, <2>2, <2>5
    <3> QED BY <1>1, <2>1, <2>2, <2>3, <3>1 DEF Intact
  <2> QED BY <2>4, <2>5
<1>5. Resumes(q, p2, r)
  BY <1>3, <1>4 DEF Resumes, Kept
<1> QED BY <1>5 DEF q

(* It calls the guest.                                                     *)
LEMMA HostCallsGuest ==
  ASSUME NEW s \in Seq(Frame), Alternates(s), s # <<>>, Last(s) \in HostFrames,
         NEW p, NEW r, Resumes(s, p, r),
         NEW f \in HostFrames, f.kind = Last(s).kind, f.kind = "jni" => f.left < HostCalls,
         f.kind = "import" => f.saved = r,
         NEW g \in GuestFrames, NEW r2, r2.at = g.level, r2.sp = g.level
  PROVE  Resumes(Append(Append(Front(s), f), g), "check", r2)
<1> DEFINE q == Append(Append(Front(s), f), g)
<1>1. /\ Len(q) = Len(s) + 1 /\ Len(s) \in Nat \ {0} /\ q[Len(s)] = f /\ q[Len(s) + 1] = g
      /\ \A i \in 1..Len(s) - 1 : q[i] = s[i]
  BY FrontIs DEF Frame
<1> HIDE DEF q
<1>2. f.left \in Nat /\ f.kind # "guest" /\ HostCalls \in Nat /\ g.kind = "guest"
  BY DispatchAssumption DEF HostFrames, GuestFrames
<1>3. Budgets(q, "check")
  <2>1. ASSUME NEW i \in 1..Len(q), q[i].kind = "jni" PROVE q[i].left <= HostCalls
    <3>1. CASE i = Len(s)
      BY <1>1, <1>2, <2>1, <3>1
    <3>2. CASE i = Len(s) + 1
      BY <1>1, <1>2, <2>1, <3>2
    <3>3. CASE i # Len(s) /\ i # Len(s) + 1
      BY <1>1, <2>1, <3>3 DEF Resumes, Budgets
    <3> QED BY <3>1, <3>2, <3>3
  <2> QED BY <2>1 DEF Budgets
<1>4. ASSUME NEW i \in 1..Len(q), q[i].kind = "guest", ~q[i].lost PROVE Intact(q, i, "check", r2)
  <2>1. i # Len(s)
    BY <1>1, <1>2, <1>4
  <2>2. CASE i = Len(s) + 1
    BY <1>1, <2>2 DEF Intact, OnTop
  <2>3. CASE i # Len(s) + 1
    <3>1. i \in 1..Len(s) /\ q[i] = s[i]
      BY <1>1, <2>1, <2>3
    <3>2. Intact(s, i, p, r)
      BY <1>4, <3>1 DEF Resumes, Kept
    <3>3. CASE i + 1 = Len(s)
      <4>1. Untouched(s[Len(s)], r, s[i].level)
        BY <3>2, <3>3 DEF Intact
      <4>2. Remembers(f, s[i].level)
        BY <1>2, <4>1 DEF Untouched, Remembers, Last
      <4> QED BY <1>1, <3>1, <3>3, <4>2 DEF Intact
    <3>4. CASE i + 1 # Len(s)
      <4>1. i + 1 < Len(s) /\ q[i+1] = s[i+1]
        BY <1>1, <2>1, <3>1, <3>4
      <4> QED BY <1>1, <3>1, <3>2, <4>1 DEF Intact
    <3> QED BY <3>3, <3>4
  <2> QED BY <2>2, <2>3
<1>5. Resumes(q, "check", r2)
  BY <1>3, <1>4 DEF Resumes, Kept
<1> QED BY <1>5 DEF q

(* No guest activation at all.                                             *)
LEMMA NoGuest ==
  ASSUME NEW s \in Seq(Frame), \A i \in 1..Len(s) : s[i].kind \in {"entry", "dex"},
         NEW p \in HostPcs, NEW r
  PROVE  Resumes(s, p, r)
BY DEF Resumes, Kept, Budgets, HostPcs

-----------------------------------------------------------------------------
(* Each step                                                               *)

Mine(t) == Resumes(stack[t], pc[t], regs[t])

(* What a step writes is what the thread has.                              *)
LEMMA Written ==
  ASSUME IInv, NEW t \in Threads
  PROVE  /\ \A q : stack' = [stack EXCEPT ![t] = q] => stack'[t] = q
         /\ \A p : Goes(t, p) => pc'[t] = p
         /\ \A r : regs' = [regs EXCEPT ![t] = r] => regs'[t] = r
BY DEF IInv, Types, Goes

LEMMA PlainResumes ==
  ASSUME IInv, NEW t \in Threads, Mine(t),
         \/ Run(t) \/ StopRunning(t) \/ GuestFaults(t) \/ IsJni(t) \/ JniRefuses(t)
         \/ CallService(t) \/ ImportFails(t) \/ CallWait(t) \/ Woken(t) \/ ImportSeesFailure(t)
         \/ TakeJniLock(t)
  PROVE  Mine(t)'
<1>1. PICK q \in {"arm", "fail", "host", "check", "wait", "decode"} :
         /\ Goes(t, q) /\ UNCHANGED <<stack, regs>>
         /\ q \in {"check", "arm", "wait"} => pc[t] \in {"check", "wait", "import"}
         /\ q = "decode" => pc[t] = "spin"
  BY DEF Run, StopRunning, GuestFaults, IsJni, JniRefuses, CallService, ImportFails,
         CallWait, Woken, ImportSeesFailure, TakeJniLock, At
<1>2. pc'[t] = q
  BY <1>1, Written
<1> QED BY <1>1, <1>2, PcMoves DEF Mine

LEMMA EnterResumes ==
  ASSUME IInv, NEW t \in Threads, StartThread(t) \/ EnterMain(t)
  PROVE  Mine(t)'
<1>1. PICK f \in {HostFrame("entry", HostCalls), HostFrame("entry", 1), HostFrame("dex", HostCalls)} :
         stack' = [stack EXCEPT ![t] = <<f>>] /\ Goes(t, "host")
  BY DEF StartThread, EnterMain
<1>2. f \in Frame /\ f.kind \in {"entry", "dex"}
  BY DispatchAssumption DEF HostFrame, Frame, HostFrames, Registers
<1>3. <<f>> \in Seq(Frame) /\ \A i \in 1..Len(<<f>>) : <<f>>[i] = f
  BY <1>2
<1>4. stack'[t] = <<f>> /\ pc'[t] = "host"
  BY <1>1, Written
<1>5. Resumes(<<f>>, "host", regs'[t])
  BY <1>2, <1>3, NoGuest DEF HostPcs
<1> QED BY <1>4, <1>5 DEF Mine

LEMMA LeaveResumes ==
  ASSUME IInv, NEW t \in Threads, Leave(t)
  PROVE  Mine(t)'
<1>1. PICK p \in {"idle", "done"} : stack' = [stack EXCEPT ![t] = <<>>] /\ Goes(t, p)
  BY DEF Leave
<1>2. <<>> \in Seq(Frame) /\ Len(<<>>) = 0
  OBVIOUS
<1> DEFINE none == <<>>
<1>3. Resumes(none, p, regs'[t])
  <2>1. none \in Seq(Frame) /\ \A i \in 1..Len(none) : none[i].kind \in {"entry", "dex"}
    BY <1>2
  <2> HIDE DEF none
  <2> QED BY <2>1, NoGuest DEF HostPcs
<1>4. stack'[t] = <<>> /\ pc'[t] = p
  BY <1>1, Written
<1> QED BY <1>3, <1>4 DEF Mine

(* What a frame with one call fewer is.                                    *)
LEMMA CallerIs ==
  ASSUME IInv, NEW t \in Threads, Mine(t), stack[t] # <<>>, Top(t).kind # "guest", Top(t).left > 0
  PROVE  /\ Top(t) \in HostFrames /\ CallerFrame(t) \in HostFrames
         /\ CallerFrame(t).kind = Top(t).kind
         /\ Top(t).kind = "jni" => CallerFrame(t).left < HostCalls
         /\ Top(t).kind = "import" => CallerFrame(t).saved = regs[t]
<1> DEFINE f == Top(t)
           v == IF f.kind = "import" THEN regs[t] ELSE f.saved
<1>1. f \in HostFrames /\ CallerFrame(t) \in HostFrames /\ CallerFrame(t).kind = f.kind
  BY CallerIsHost
<1>2. CallerFrame(t) = [f EXCEPT !.left = f.left - 1, !.saved = v]
  BY DEF CallerFrame
<1>3. f.kind = "jni" => f.left <= HostCalls
  <2>1. stack[t] \in Seq(Frame) /\ f = Last(stack[t])
    BY Stack
  <2>2. Len(stack[t]) \in 1..Len(stack[t])
    BY <2>1, FrontIs
  <2> QED BY <2>1, <2>2 DEF Mine, Resumes, Budgets, Last
<1> HIDE DEF f, v
<1>4. CallerFrame(t).left = f.left - 1 /\ CallerFrame(t).saved = v
  BY <1>1, <1>2 DEF HostFrames
<1>5. f.left \in Nat /\ HostCalls \in Nat
  BY <1>1, DispatchAssumption DEF HostFrames
<1>6. f.kind = "jni" => CallerFrame(t).left < HostCalls
  BY <1>3, <1>4, <1>5
<1> QED BY <1>1, <1>4, <1>6 DEF f, v

LEMMA SwapResumes ==
  ASSUME IInv, NEW t \in Threads, Mine(t), CallTooDeep(t) \/ ThreadSeesFailure(t)
  PROVE  Mine(t)'
<1>1. /\ stack[t] \in Seq(Frame) /\ Alternates(stack[t]) /\ Fits(stack[t], pc[t])
      /\ Top(t) = Last(stack[t]) /\ Pop(t) = Front(stack[t])
  BY Stack
<1>2. stack[t] # <<>>
  BY <1>1 DEF CallTooDeep, ThreadSeesFailure, At, Fits
<1>3. PICK f \in HostFrames, p \in {"fail", "host"} :
         /\ stack' = [stack EXCEPT ![t] = Append(Pop(t), f)] /\ Goes(t, p)
         /\ Top(t) \in HostFrames /\ f.kind = Top(t).kind /\ (f.kind = "jni" => f.left < HostCalls)
         /\ UNCHANGED regs
  <2>1. CASE CallTooDeep(t)
    <3>1. Top(t).kind # "guest" /\ Top(t).left > 0
      BY <1>1, <2>1 DEF CallTooDeep, At, Fits
    <3> QED BY <1>2, <2>1, <3>1, CallerIs DEF CallTooDeep
  <2>2. CASE ThreadSeesFailure(t)
    <3> DEFINE f == IF Top(t).left = HostCalls - 1 THEN Top(t) ELSE [Top(t) EXCEPT !.left = 0]
    <3>1. Top(t).kind = "entry"
      BY <2>2 DEF ThreadSeesFailure
    <3>2. Top(t) \in HostFrames /\ f \in HostFrames /\ f.kind = "entry"
      BY <1>2, <3>1, CallerIsHost
    <3>3. stack' = [stack EXCEPT ![t] = Append(Pop(t), f)] /\ Goes(t, "host") /\ UNCHANGED regs
      BY <2>2 DEF ThreadSeesFailure
    <3> HIDE DEF f
    <3> QED BY <3>1, <3>2, <3>3
  <2> QED BY <2>1, <2>2
<1>4. Resumes(Append(Front(stack[t]), f), p, regs[t])
  BY <1>1, <1>2, <1>3, HostChanges DEF Mine, HostPcs
<1>5. stack'[t] = Append(Front(stack[t]), f) /\ pc'[t] = p /\ regs'[t] = regs[t]
  BY <1>1, <1>3, Written
<1> QED BY <1>4, <1>5 DEF Mine

LEMMA CallGuestResumes ==
  ASSUME IInv, NEW t \in Threads, Mine(t), CallGuest(t)
  PROVE  Mine(t)'
<1> DEFINE n == depth[t] + 1
           f == CallerFrame(t)
           g == GuestFrame(n)
           r == [at |-> n, sp |-> n, lr |-> 0]
<1>1. /\ stack[t] \in Seq(Frame) /\ Alternates(stack[t]) /\ Fits(stack[t], pc[t])
      /\ Top(t) = Last(stack[t]) /\ Pop(t) = Front(stack[t]) /\ depth[t] \in Nat
  BY Stack
<1>2. /\ pc[t] = "host" /\ Top(t).left > 0 /\ Goes(t, "check")
      /\ stack' = [stack EXCEPT ![t] = Pop(t) \o <<f, g>>]
      /\ regs' = [regs EXCEPT ![t] = r]
  BY DEF CallGuest, At
<1>3. stack[t] # <<>> /\ Top(t).kind # "guest"
  BY <1>1, <1>2 DEF Fits
<1>4. /\ Top(t) \in HostFrames /\ f \in HostFrames /\ f.kind = Top(t).kind
      /\ f.kind = "jni" => f.left < HostCalls
      /\ f.kind = "import" => f.saved = regs[t]
  BY <1>2, <1>3, CallerIs
<1>5. g \in GuestFrames /\ r.at = g.level /\ r.sp = g.level
  BY <1>1 DEF GuestFrame, GuestFrames
<1>6. stack'[t] = Pop(t) \o <<f, g>> /\ pc'[t] = "check" /\ regs'[t] = r
  BY <1>2, Written
<1>7. Pop(t) \in Seq(Frame)
  BY <1>1, <1>3, FrontIs
<1> HIDE DEF f, g, r
<1>8. Pop(t) \o <<f, g>> = Append(Append(Front(stack[t]), f), g)
  BY <1>1, <1>4, <1>5, <1>7, TwoMore DEF Frame
<1>9. Resumes(Append(Append(Front(stack[t]), f), g), "check", r)
  BY <1>1, <1>3, <1>4, <1>5, HostCallsGuest DEF Mine
<1> QED BY <1>6, <1>8, <1>9 DEF Mine

LEMMA LeaveCallResumes ==
  ASSUME IInv, NEW t \in Threads, Mine(t), NEW rc \in {"host", "fail"}, LeaveCall(t, rc),
         Top(t).kind = "guest", pc[t] \in {"arm", "import", "fail"}
  PROVE  Mine(t)'
<1> DEFINE q == Pop(t)
<1>1. /\ stack[t] \in Seq(Frame) /\ Alternates(stack[t]) /\ Fits(stack[t], pc[t])
      /\ Top(t) = Last(stack[t]) /\ q = Front(stack[t])
  BY Stack
<1>2. stack[t] # <<>>
  BY <1>1 DEF Fits
<1>3. stack'[t] = q /\ pc'[t] = rc
  BY Written DEF LeaveCall
<1>4. PICK r \in RegsAfter(t, q[Len(q)]) : regs' = [regs EXCEPT ![t] = r]
  BY DEF LeaveCall
<1>5. regs'[t] = r
  BY <1>4, Written
<1>6. Last(q).kind = "import" => r = Last(q).saved
  BY <1>4 DEF RegsAfter, Last
<1> HIDE DEF q
<1>7. Resumes(Front(stack[t]), rc, r)
  BY <1>1, <1>2, <1>6, GuestEnds DEF Mine, HostPcs
<1> QED BY <1>1, <1>3, <1>5, <1>7 DEF Mine

LEMMA CallEndsResumes ==
  ASSUME IInv, NEW t \in Threads, Mine(t), GuestReturns(t) \/ GuestFails(t) \/ GuestExits(t)
  PROVE  Mine(t)'
<1>1. Fits(stack[t], pc[t]) /\ Top(t) = Last(stack[t])
  BY Stack
<1>2. Top(t).kind = "guest" /\ pc[t] \in {"arm", "import", "fail"}
  BY <1>1 DEF GuestReturns, GuestFails, GuestExits, At, Fits
<1>3. LeaveCall(t, "host") \/ LeaveCall(t, "fail")
  BY DEF GuestReturns, GuestFails, GuestExits
<1> QED BY <1>2, <1>3, LeaveCallResumes

(* What the processor has while the guest runs.                            *)
LEMMA Running ==
  ASSUME IInv, NEW t \in Threads, Mine(t), pc[t] \in {"check", "arm", "wait", "import"}, ~Top(t).lost
  PROVE  /\ regs[t].at = Top(t).level /\ regs[t].sp = Top(t).level
         /\ pc[t] = "import" => regs[t] = AllAt(Top(t).level)
<1>1. /\ stack[t] \in Seq(Frame) /\ Fits(stack[t], pc[t]) /\ Top(t) = Last(stack[t])
      /\ regs[t] \in Registers
  BY Stack
<1>2. stack[t] # <<>> /\ Last(stack[t]).kind = "guest"
  BY <1>1 DEF Fits
<1>3. Len(stack[t]) \in 1..Len(stack[t])
  BY <1>1, <1>2, FrontIs
<1>4. OnTop(pc[t], regs[t], Top(t).level)
  BY <1>1, <1>2, <1>3 DEF Mine, Resumes, Kept, Intact, Last
<1> QED BY <1>1, <1>4 DEF OnTop, AllAt, Registers

LEMMA TrapResumes ==
  ASSUME IInv, NEW t \in Threads, Mine(t), Trap(t) \/ CallImport(t)
  PROVE  Mine(t)'
<1>1. /\ stack[t] \in Seq(Frame) /\ Alternates(stack[t]) /\ Fits(stack[t], pc[t])
      /\ Top(t) = Last(stack[t]) /\ regs[t] \in Registers
  BY Stack
<1>2. pc[t] \in {"arm", "import"} /\ stack[t] # <<>> /\ Last(stack[t]).kind = "guest"
  BY <1>1 DEF Trap, CallImport, At, Fits
<1>3. PICK f \in {HostFrame("jni", HostCalls), HostFrame("import", HostCalls)}, p \in Places :
         stack' = [stack EXCEPT ![t] = Append(stack[t], f)] /\ Goes(t, p)
  BY DEF Trap, CallImport, Places
<1>4. f \in HostFrames /\ f.left = HostCalls
  BY DispatchAssumption DEF HostFrame, HostFrames, Registers
<1>5. ~Last(stack[t]).lost => regs'[t] = AllAt(Last(stack[t]).level)
  <2>1. SUFFICES ASSUME ~Top(t).lost PROVE regs'[t] = AllAt(Top(t).level)
    BY <1>1
  <2>2. CASE Trap(t)
    <3>1. regs' = [regs EXCEPT ![t] = [regs[t] EXCEPT !.lr = regs[t].at]]
      BY <2>2 DEF Trap
    <3>2. regs'[t] = [regs[t] EXCEPT !.lr = regs[t].at]
      BY <3>1, Written
    <3>3. regs[t].at = Top(t).level /\ regs[t].sp = Top(t).level
      BY <1>2, <2>1, Running
    <3> QED BY <1>1, <3>2, <3>3 DEF AllAt, Registers
  <2>3. CASE CallImport(t)
    <3>1. pc[t] = "import" /\ regs' = regs
      BY <2>3 DEF CallImport, At
    <3> QED BY <2>1, <3>1, Running
  <2> QED BY <2>2, <2>3
<1>6. stack'[t] = Append(stack[t], f) /\ pc'[t] = p
  BY <1>3, Written
<1> HIDE DEF Mine
<1>7. Resumes(Append(stack[t], f), p, regs'[t])
  <2>1. Resumes(stack[t], pc[t], regs[t])
    BY DEF Mine
  <2> QED BY <1>1, <1>2, <1>4, <1>5, <2>1, HostBegins
<1> QED BY <1>6, <1>7 DEF Mine

(* What is under a host function that has not touched the registers.       *)
LEMMA UnderHost ==
  ASSUME IInv, NEW t \in Threads, Mine(t), stack[t] # <<>>, Top(t).kind \in {"jni", "import"},
         Top(t).kind = "jni" => Top(t).left = HostCalls, ~Last(Pop(t)).lost
  PROVE  regs[t] = AllAt(Last(Pop(t)).level)
<1> DEFINE s == stack[t]
           i == Len(Pop(t))
<1>1. Pop(t) \in Seq(Frame) /\ Pop(t) # <<>> /\ Last(Pop(t)).kind = "guest"
  BY HostPopped
<1>2. s \in Seq(Frame) /\ Top(t) = Last(s) /\ Pop(t) = Front(s)
  BY Stack
<1>3. i = Len(s) - 1 /\ Len(s) \in Nat /\ i \in 1..Len(s) /\ i + 1 = Len(s) /\ s[i] = Last(Pop(t))
  <2>1. Len(s) \in Nat \ {0} /\ i = Len(s) - 1 /\ \A j \in 1..Len(s) - 1 : Pop(t)[j] = s[j]
    BY <1>2, FrontIs
  <2>2. i \in Nat \ {0} /\ Last(Pop(t)) = Pop(t)[i]
    BY <1>1, FrontIs DEF Last
  <2> HIDE DEF i, s
  <2>3. i = Len(s) - 1 /\ Len(s) \in Nat /\ i \in 1..Len(s) /\ i + 1 = Len(s) /\ i \in 1..Len(s) - 1
    BY <2>1, <2>2
  <2> QED BY <2>1, <2>2, <2>3
<1>4. Untouched(s[i+1], regs[t], s[i].level)
  BY <1>1, <1>3 DEF Mine, Resumes, Kept, Intact
<1> QED BY <1>2, <1>3, <1>4 DEF Untouched, Last

LEMMA JniLeavesResumes ==
  ASSUME IInv, NEW t \in Threads, Mine(t), IsImport(t) \/ JniFails(t)
  PROVE  Mine(t)'
<1> DEFINE q == Pop(t)
<1>1. /\ stack[t] \in Seq(Frame) /\ Alternates(stack[t]) /\ Fits(stack[t], pc[t])
      /\ Top(t) = Last(stack[t]) /\ q = Front(stack[t]) /\ regs[t] \in Registers
  BY Stack
<1>2. PICK p \in {"import", "fail"} :
         /\ stack' = [stack EXCEPT ![t] = q] /\ pc'[t] = p /\ UNCHANGED regs
         /\ Top(t).kind = "jni" /\ stack[t] # <<>>
         /\ p = "import" => pc[t] = "decode"
  <2>1. CASE IsImport(t)
    BY <1>1, <2>1, Written DEF IsImport, At, Fits
  <2>2. CASE JniFails(t)
    BY <1>1, <2>2 DEF JniFails, At, Fits
  <2> QED BY <2>1, <2>2
<1>3. q \in Seq(Frame) /\ q # <<>> /\ Last(q).kind = "guest"
  BY <1>2, HostPopped
<1>4. /\ Len(q) = Len(stack[t]) - 1 /\ \A i \in 1..Len(q) : q[i] = stack[t][i]
      /\ Len(q) \in Nat \ {0}
  BY <1>1, <1>2, <1>3, FrontIs
<1>5. ~Last(q).lost => OnTop(p, regs[t], Last(q).level)
  <2>1. p = "import" => Top(t).left = HostCalls
    BY <1>1, <1>2 DEF Mine, Resumes, Budgets
  <2>2. p = "import" /\ ~Last(q).lost => regs[t] = AllAt(Last(q).level)
    BY <1>2, <2>1, UnderHost
  <2> QED BY <1>2, <2>2 DEF OnTop, AllAt
<1>6. stack'[t] = q /\ regs'[t] = regs[t]
  BY <1>2, Written
<1> HIDE DEF q
<1>7. Resumes(stack[t], pc[t], regs[t])
  BY DEF Mine
<1>8. Resumes(q, p, regs[t])
  <2>1. p \notin {"spin", "decode"}
    BY <1>2
  <2>2. Len(q) \in 1..Len(q)
    BY <1>3, FrontIs
  <2>3. Last(q) = stack[t][Len(q)]
    BY <1>4, <2>2 DEF Last
  <2>4. \A i \in 1..Len(q) - 1 : q[i] = stack[t][i]
    BY <1>4
  <2>5. stack[t][Len(q)].kind = "guest" /\ Last(q).level = stack[t][Len(q)].level
    BY <1>3, <2>3
  <2> DEFINE s == stack[t]
  <2>6. s \in Seq(Frame) /\ Alternates(s) /\ Resumes(s, pc[t], regs[t])
        /\ Len(q) = Len(s) - 1 /\ (\A i \in 1..Len(q) - 1 : q[i] = s[i])
        /\ s[Len(q)].kind = "guest" /\ Last(q).level = s[Len(q)].level
    BY <1>1, <1>4, <1>7, <2>4, <2>5
  <2> HIDE DEF s
  <2> QED BY <1>3, <1>5, <2>1, <2>6, HostEnds
<1> QED BY <1>2, <1>6, <1>8 DEF Mine

(* A host function that does not mark the activation has called nobody.    *)
LEMMA ReturnResumes ==
  ASSUME IInv, NEW t \in Threads, Mine(t), pc[t] = "host", Top(t).kind \in {"jni", "import"},
         NEW lost \in BOOLEAN, Top(t).kind = "jni" /\ ~lost => ~(Top(t).left < HostCalls),
         ReturnToGuest(t, lost)
  PROVE  Mine(t)'
<1> DEFINE b == Pop(t)
           g == Last(b)
           f == [g EXCEPT !.lost = @ \/ lost]
           q == [b EXCEPT ![Len(b)].lost = @ \/ lost]
<1>1. /\ stack[t] \in Seq(Frame) /\ Alternates(stack[t]) /\ Fits(stack[t], pc[t])
      /\ Top(t) = Last(stack[t]) /\ b = Front(stack[t]) /\ regs[t] \in Registers
  BY Stack
<1>2. stack[t] # <<>> /\ Top(t) \in Frame
  BY <1>1, Stack DEF Fits
<1>3. b \in Seq(Frame) /\ b # <<>> /\ g.kind = "guest"
  BY <1>2, HostPopped
<1>4. /\ Len(b) = Len(stack[t]) - 1 /\ Len(b) \in Nat \ {0} /\ g \in Frame
      /\ \A i \in 1..Len(b) : b[i] = stack[t][i]
  BY <1>1, <1>2, <1>3, FrontIs
<1>5. f \in Frame /\ f.kind = "guest" /\ f.level = g.level /\ (~f.lost => ~g.lost /\ ~lost)
  <2> HIDE DEF g
  <2>1. g \in GuestFrames
    BY <1>3, <1>4 DEF Frame, HostFrames
  <2> QED BY <2>1 DEF Frame, GuestFrames
<1>6. q = [b EXCEPT ![Len(b)] = f]
  BY DEF Last
<1>7. /\ stack'[t] = q /\ pc'[t] = "check"
      /\ regs'[t] = [regs[t] EXCEPT !.at = regs[t].lr]
  <2>1. regs' = [regs EXCEPT ![t] = [regs[t] EXCEPT !.at = regs[t].lr]]
    BY DEF ReturnToGuest
  <2> QED BY <2>1, Written DEF ReturnToGuest
<1>8. ~f.lost => OnTop("check", regs'[t], f.level)
  <2>1. SUFFICES ASSUME ~f.lost PROVE OnTop("check", regs'[t], f.level)
    OBVIOUS
  <2>2. ~Last(Pop(t)).lost /\ ~lost /\ f.level = Last(Pop(t)).level
    BY <1>5, <2>1
  <2>3. Top(t).kind = "jni" => Top(t).left = HostCalls
    <3>1. Top(t).kind = "jni" => Top(t).left <= HostCalls
      <4>1. Len(stack[t]) \in 1..Len(stack[t])
        BY <1>1, <1>2, FrontIs
      <4> QED BY <1>1, <4>1 DEF Mine, Resumes, Budgets, Last
    <3>2. Top(t).kind = "jni" => Top(t).left \in Nat
      BY <1>2 DEF Frame, HostFrames, GuestFrames
    <3> QED BY <2>2, <3>1, <3>2, DispatchAssumption
  <2>4. regs[t] = AllAt(Last(Pop(t)).level)
    BY <1>2, <2>2, <2>3, UnderHost
  <2> QED BY <1>1, <1>7, <2>2, <2>4 DEF OnTop, AllAt, Registers
<1> HIDE DEF b, g, f, q
<1>9. /\ q \in Seq(Frame) /\ Len(q) = Len(b)
      /\ \A i \in 1..Len(b) : q[i] = IF i = Len(b) THEN f ELSE b[i]
  BY <1>3, <1>4, <1>5, <1>6, ExceptSeq
<1>10. Last(q) = f /\ q # <<>>
  <2>1. Len(b) \in 1..Len(b)
    BY <1>3, FrontIs
  <2>2. q[Len(b)] = f /\ Len(q) # 0
    BY <1>9, <2>1
  <2> QED BY <1>9, <2>2, EmptySeq DEF Last
<1>11. Resumes(q, "check", regs'[t])
  <2> DEFINE s == stack[t]
  <2>1. Len(b) \in 1..Len(b)
    BY <1>3, FrontIs
  <2>2. g = stack[t][Len(b)]
    BY <1>4, <2>1 DEF g, Last
  <2>3. \A i \in 1..Len(q) - 1 : q[i] = stack[t][i]
    BY <1>4, <1>9
  <2>4. /\ s \in Seq(Frame) /\ Alternates(s) /\ Resumes(s, pc[t], regs[t])
        /\ Len(q) = Len(s) - 1 /\ (\A i \in 1..Len(q) - 1 : q[i] = s[i])
        /\ s[Len(q)].kind = "guest" /\ Last(q).level = s[Len(q)].level
    BY <1>1, <1>3, <1>4, <1>5, <1>9, <1>10, <2>2, <2>3 DEF Mine
  <2> HIDE DEF s
  <2> QED BY <1>5, <1>8, <1>9, <1>10, <2>4, HostEnds
<1> QED BY <1>7, <1>11 DEF Mine

LEMMA HostReturnsResumes ==
  ASSUME IInv, NEW t \in Threads, Mine(t), ImportReturns(t) \/ JniReturns(t)
  PROVE  Mine(t)'
<1>1. CASE ImportReturns(t)
  <2>1. pc[t] = "host" /\ Top(t).kind = "import" /\ ReturnToGuest(t, FALSE)
    BY <1>1 DEF ImportReturns, At
  <2> QED BY <2>1, ReturnResumes
<1>2. CASE JniReturns(t)
  <2>1. pc[t] = "host" /\ Top(t).kind = "jni" /\ ReturnToGuest(t, Top(t).left < HostCalls)
    BY <1>2 DEF JniReturns, At
  <2>2. (Top(t).left < HostCalls) \in BOOLEAN
    OBVIOUS
  <2> QED BY <2>1, <2>2, ReturnResumes
<1> QED BY <1>1, <1>2

(* The other threads stand still.                                          *)
LEMMA OthersStand ==
  ASSUME IInv, NEW t \in Threads, Step(t) \/ EnterMain(t), NEW u \in Threads, u # t
  PROVE  stack'[u] = stack[u] /\ pc'[u] = pc[u] /\ regs'[u] = regs[u]
<1>1. /\ \E q : stack' = [stack EXCEPT ![t] = q]
      /\ \E p : pc' = [pc EXCEPT ![t] = p]
      /\ \E r : regs' = [regs EXCEPT ![t] = r]
  <2>1. /\ stack = [stack EXCEPT ![t] = stack[t]] /\ pc = [pc EXCEPT ![t] = pc[t]]
        /\ regs = [regs EXCEPT ![t] = regs[t]]
    BY DEF IInv, Types
  <2>2. CASE EnterMain(t) \/ StartThread(t) \/ CallTooDeep(t) \/ CallImport(t) \/ ThreadSeesFailure(t)
             \/ IsImport(t)
    BY <2>1, <2>2 DEF EnterMain, StartThread, CallTooDeep, CallImport, ThreadSeesFailure, IsImport, Goes
  <2>3. CASE Run(t) \/ StopRunning(t) \/ GuestFaults(t) \/ IsJni(t) \/ JniRefuses(t) \/ CallService(t)
             \/ ImportFails(t) \/ CallWait(t) \/ Woken(t) \/ ImportSeesFailure(t) \/ TakeJniLock(t)
    BY <2>1, <2>3 DEF Run, StopRunning, GuestFaults, IsJni, JniRefuses, CallService, ImportFails,
                      CallWait, Woken, ImportSeesFailure, TakeJniLock, Goes
  <2>4. CASE GuestReturns(t) \/ GuestFails(t) \/ GuestExits(t)
    BY <2>4 DEF GuestReturns, GuestFails, GuestExits, LeaveCall, Goes
  <2>5. CASE CallGuest(t) \/ Trap(t) \/ Leave(t)
    BY <2>5 DEF CallGuest, Trap, Leave, Goes
  <2>6. CASE JniReturns(t) \/ ImportReturns(t)
    BY <2>6 DEF JniReturns, ImportReturns, ReturnToGuest, Goes
  <2>7. CASE JniFails(t)
    BY <2>1, <2>7 DEF JniFails
  <2> QED BY <2>2, <2>3, <2>4, <2>5, <2>6, <2>7 DEF Step
<1> QED BY <1>1 DEF IInv, Types

-----------------------------------------------------------------------------
THEOREM AllResume == DispatchSpec => []Returning
<1>1. DispatchInit => Returning
  <2> SUFFICES ASSUME DispatchInit, NEW t \in Threads PROVE Mine(t)
    BY DEF Returning, Mine
  <2>1. stack[t] = <<>> /\ pc[t] = "idle"
    BY DEF DispatchInit
  <2> DEFINE none == <<>>
  <2>2. none \in Seq(Frame) /\ \A i \in 1..Len(none) : none[i].kind \in {"entry", "dex"}
    OBVIOUS
  <2>3. Resumes(none, "idle", regs[t])
    <3> HIDE DEF none
    <3> QED BY <2>2, NoGuest DEF HostPcs
  <2> QED BY <2>1, <2>3 DEF Mine
<1>2. IInv /\ Returning /\ [DispatchNext]_dispatchVars => Returning'
  <2> SUFFICES ASSUME IInv, Returning, [DispatchNext]_dispatchVars PROVE Returning'
    OBVIOUS
  <2>1. ASSUME NEW t \in Threads, Step(t) \/ EnterMain(t) PROVE Returning'
    <3>1. Mine(t)
      BY DEF Returning, Mine
    <3>2. Mine(t)'
      BY <2>1, <3>1, PlainResumes, EnterResumes, LeaveResumes, SwapResumes, CallGuestResumes,
         CallEndsResumes, TrapResumes, JniLeavesResumes, HostReturnsResumes DEF Step
    <3>3. ASSUME NEW u \in Threads, u # t PROVE Resumes(stack'[u], pc'[u], regs'[u])
      BY <2>1, <3>3, OthersStand DEF Returning
    <3> QED BY <3>2, <3>3 DEF Returning, Mine
  <2>2. CASE Shutdown \/ CancelWaits \/ UNCHANGED dispatchVars
    <3>1. UNCHANGED <<stack, pc, regs>>
      BY <2>2 DEF Shutdown, CancelWaits, dispatchVars, calls
    <3> QED BY <3>1 DEF Returning
  <2> QED BY <2>1, <2>2 DEF DispatchNext
<1> QED BY <1>1, <1>2, Invariance, PTL DEF DispatchSpec

(* A guest activation that is resumed executes its own code on its own     *)
(* stack, unless a native method that DEX called has run in between        *)
(* (agr_guest_runtime.c: invoke_linker_function, call_address).            *)
THEOREM CallersResume == DispatchSpec => []ImportsResumeCaller
<1>1. IInv /\ Returning => ImportsResumeCaller
  <2> SUFFICES ASSUME IInv, Returning, NEW t \in Threads, pc[t] \in {"check", "arm"}, ~Top(t).lost
               PROVE  regs[t].at = Top(t).level /\ regs[t].sp = Top(t).level
    BY DEF ImportsResumeCaller
  <2>1. Mine(t)
    BY DEF Returning, Mine
  <2> QED BY <2>1, Running
<1> QED BY <1>1, Invariance, AllResume, PTL

-----------------------------------------------------------------------------
(***************************************************************************)
(* GuestInput: the ring of touches and the pipe of commands.               *)
(***************************************************************************)
AppPlaces ==
    {"poll", "get", "handle", "finish", "pollfd", "read", "copied", "reset", "execute"}
Commands == {"none", "attach", "detach", "plain"}

Handle == 0 .. Handles - 1

Rings == [slots : [0 .. RingSize - 1 -> Handle], head : 0 .. RingSize - 1, count : 0 .. RingSize]
Pipes == [data : [0 .. PipeSize - 1 -> Nat], offset : Nat, size : 0 .. PipeSize]

InputTypes ==
    /\ ring \in Rings
    /\ nextHandle \in Handle /\ due \in Handle /\ attached \in BOOLEAN /\ met \in BOOLEAN
    /\ pipe \in Pipes
    /\ app \in [pc : AppPlaces, event : Handle, byte : Nat]
    /\ main \in [pc : {"idle", "append", "waiting"}, command : Commands, commands : Nat]
    /\ sent \in Seq(Commands) /\ received \in Seq(Nat)

LEMMA PipeFields ==
    ASSUME NEW p \in Pipes
    PROVE  /\ p.data \in [0 .. PipeSize - 1 -> Nat] /\ p.offset \in Nat /\ p.size \in 0 .. PipeSize
           /\ p = [data |-> p.data, offset |-> p.offset, size |-> p.size]
BY DEF Pipes

LEMMA PipeMade ==
    ASSUME NEW d \in [0 .. PipeSize - 1 -> Nat], NEW o \in Nat, NEW n \in 0 .. PipeSize
    PROVE  [data |-> d, offset |-> o, size |-> n] \in Pipes
BY DEF Pipes

LEMMA HandleCount ==
    Handles \in Nat /\ Handles > 1 /\ RingSize \in Nat \ {0} /\ RingSize < Handles
BY InputAssumption

LEMMA HandlesWrap ==
    \A n \in 0 .. 2 * Handles - 1 : Wrapped(n) \in Handle
BY HandleCount DEF Wrapped, Handle

(* Below twice the divisor a remainder is the number or what exceeds it.   *)
LEMMA Wraps ==
    ASSUME NEW n \in Nat \ {0}, NEW x \in Nat, x < 2 * n
    PROVE  x % n = IF x < n THEN x ELSE x - n
BY SMT

LEMMA InRange ==
    ASSUME NEW n \in Nat \ {0}, NEW x \in Nat
    PROVE  x % n \in 0 .. n - 1
BY SMT

(* The places after the head of a ring. *)
LEMMA RingPlaces ==
    ASSUME NEW n \in Nat \ {0}, NEW h \in 0 .. n - 1
    PROVE  /\ \A i \in 0 .. n : (h + i) % n \in 0 .. n - 1
           /\ \A i, j \in 0 .. n - 1 : (h + i) % n = (h + j) % n => i = j
           /\ \A i \in 0 .. n - 1 : (((h + 1) % n) + i) % n = (h + (i + 1)) % n
           /\ (h + 0) % n = h
<1>1. \A x \in 0 .. 2 * n - 1 : x % n = IF x < n THEN x ELSE x - n
  <2> TAKE x \in 0 .. 2 * n - 1
  <2>1. x \in Nat /\ x < 2 * n
    OBVIOUS
  <2> QED BY <2>1, Wraps
<1>2. \A i \in 0 .. n : h + i \in 0 .. 2 * n - 1
  OBVIOUS
<1>3. \A i \in 0 .. n : (h + i) % n = IF h + i < n THEN h + i ELSE h + i - n
  BY <1>1, <1>2
<1>4. \A i \in 0 .. n : (h + i) % n \in 0 .. n - 1
  BY <1>3
<1>5. \A i, j \in 0 .. n - 1 : (h + i) % n = (h + j) % n => i = j
  BY <1>3
<1>6. \A i \in 0 .. n - 1 : (((h + 1) % n) + i) % n = (h + (i + 1)) % n
  <2> SUFFICES ASSUME NEW i \in 0 .. n - 1
               PROVE  (((h + 1) % n) + i) % n = (h + (i + 1)) % n
    OBVIOUS
  <2> DEFINE g == (h + 1) % n
  <2>1. g = IF h + 1 < n THEN h + 1 ELSE h + 1 - n
    BY <1>3
  <2>2. g \in 0 .. n - 1 /\ g + i \in 0 .. 2 * n - 1
    BY <2>1
  <2> HIDE DEF g
  <2>3. (g + i) % n = IF g + i < n THEN g + i ELSE g + i - n
    BY <1>1, <2>2
  <2>4. (h + (i + 1)) % n = IF h + (i + 1) < n THEN h + (i + 1) ELSE h + (i + 1) - n
    BY <1>3
  <2>5. (g + i) % n = (h + (i + 1)) % n
    BY <2>1, <2>3, <2>4
  <2> QED BY <2>5 DEF g
<1>7. (h + 0) % n = h
  BY <1>3
<1> QED BY <1>4, <1>5, <1>6, <1>7

(* The slot a touch goes to, and the one that is first after a touch is    *)
(* finished, are slots of the ring.                                        *)
LEMMA SlotIsPlace ==
    ASSUME InputTypes
    PROVE  \A i \in 0 .. RingSize : Slot(i) \in 0 .. RingSize - 1
BY RingPlaces, InputAssumption DEF InputTypes, Rings, Slot

LEMMA PipeStepTypes ==
    ASSUME InputTypes,
           CopyByte \/ ResetPipe \/ AppendByte \/ \E c \in {"attach", "detach", "plain"} : BeginWrite(c)
    PROVE  InputTypes'
<1>0. /\ pipe.data \in [0 .. PipeSize - 1 -> Nat] /\ pipe.offset \in Nat /\ pipe.size \in 0 .. PipeSize
      /\ pipe = [data |-> pipe.data, offset |-> pipe.offset, size |-> pipe.size]
      /\ PipeSize \in Nat \ {0}
  BY PipeFields, InputAssumption DEF InputTypes
<1>1. CASE CopyByte
  <2>1. pipe.offset % PipeSize \in 0 .. PipeSize - 1
    BY <1>0, InRange
  <2>2. pipe.data[pipe.offset % PipeSize] \in Nat /\ pipe.offset + 1 \in Nat
    BY <1>0, <2>1
  <2>3. app' \in [pc : AppPlaces, event : Handle, byte : Nat]
    BY <1>1, <2>2 DEF CopyByte, InputTypes, AppPlaces
  <2>4. pipe' = [data |-> pipe.data, offset |-> pipe.offset + 1, size |-> pipe.size]
    BY <1>0, <1>1 DEF CopyByte
  <2>5. pipe' \in Pipes
    BY <1>0, <2>2, <2>4, PipeMade
  <2> QED BY <1>1, <2>3, <2>5 DEF CopyByte, InputTypes, ringVars
<1>2. CASE ResetPipe
  <2>1. pipe' = [data |-> pipe.data, offset |-> 0, size |-> 0]
    BY <1>0, <1>2 DEF ResetPipe
  <2>2. pipe' \in Pipes
    BY <1>0, <2>1, PipeMade
  <2> QED BY <1>2, <2>2 DEF ResetPipe, AppGoes, InputTypes, AppPlaces, ringVars
<1>3. CASE AppendByte
  <2>1. main.command \in Commands
    BY DEF InputTypes
  <2>2. sent \in Seq(Commands) /\ Len(sent) + 1 \in Nat
    BY DEF InputTypes
  <2>3. CASE pipe.size < PipeSize
    <3>1. pipe.size \in 0 .. PipeSize - 1 /\ pipe.size + 1 \in 0 .. PipeSize
      BY <1>0, <2>3
    <3> DEFINE d == [pipe.data EXCEPT ![pipe.size] = Len(sent) + 1]
    <3>2. d \in [0 .. PipeSize - 1 -> Nat]
      BY <1>0, <2>2
    <3>3. pipe' = [data |-> d, offset |-> pipe.offset, size |-> pipe.size + 1]
      BY <1>0, <1>3, <2>3 DEF AppendByte
    <3>4. sent' = Append(sent, main.command)
      BY <1>3, <2>3 DEF AppendByte
    <3> HIDE DEF d
    <3>5. pipe' \in Pipes
      BY <1>0, <3>1, <3>2, <3>3, PipeMade
    <3>6. sent' \in Seq(Commands)
      BY <2>1, <2>2, <3>4, AppendProperties
    <3> QED BY <1>3, <3>5, <3>6 DEF AppendByte, Waits, InputTypes, ringVars
  <2>4. CASE ~(pipe.size < PipeSize)
    BY <1>3, <2>4 DEF AppendByte, Waits, InputTypes, ringVars
  <2> QED BY <2>3, <2>4
<1>4. ASSUME NEW c \in {"attach", "detach", "plain"}, BeginWrite(c)
      PROVE  InputTypes'
  <2>1. pipe.offset \in 0 .. pipe.size /\ pipe.size - pipe.offset \in 0 .. PipeSize
    BY <1>0, <1>4 DEF BeginWrite
  <2>2. \A i \in 0 .. PipeSize - 1 : i < pipe.size - pipe.offset => i + pipe.offset \in 0 .. PipeSize - 1
    BY <1>0, <2>1
  <2> DEFINE d == [i \in DOMAIN pipe.data |-> IF i < pipe.size - pipe.offset
                                              THEN pipe.data[i + pipe.offset] ELSE pipe.data[i]]
  <2>3. d \in [0 .. PipeSize - 1 -> Nat]
    BY <1>0, <2>2
  <2>4. pipe' = [data |-> d, offset |-> 0, size |-> pipe.size - pipe.offset]
    BY <1>0, <1>4 DEF BeginWrite, Compacted
  <2> HIDE DEF d
  <2>5. pipe' \in Pipes
    BY <2>1, <2>3, <2>4, PipeMade
  <2>6. main.commands - 1 \in Nat
    BY <1>4 DEF BeginWrite, InputTypes
  <2> QED BY <1>4, <2>5, <2>6 DEF BeginWrite, InputTypes, Commands, ringVars
<1> QED BY <1>1, <1>2, <1>3, <1>4

LEMMA StepTypes ==
    ASSUME InputTypes, [InputNext]_inputVars
    PROVE  InputTypes'
<1>1. CASE UNCHANGED inputVars
  BY <1>1 DEF inputVars, InputTypes
<1>2. CASE Inject
  <2>1. Slot(ring.count) \in 0 .. RingSize - 1
    BY SlotIsPlace DEF InputTypes, Rings
  <2>2. ring.count + 1 \in 0 .. RingSize
    BY <1>2, InputAssumption DEF Inject, Room, InputTypes, Rings
  <2>3. nextHandle' \in Handle
    BY <1>2, HandlesWrap, HandleCount DEF Inject, InputTypes, Handle
  <2>4. ring' \in Rings
    BY <1>2, <2>1, <2>2 DEF Inject, InputTypes, Rings
  <2> QED BY <1>2, <2>3, <2>4 DEF Inject, InputTypes, pipeVars
<1>3. CASE FinishEvent
  <2>1. Slot(1) \in 0 .. RingSize - 1
    BY SlotIsPlace, InputAssumption
  <2>2. Matches => ring.count - 1 \in 0 .. RingSize
    BY InputAssumption DEF Matches, InputTypes, Rings
  <2>3. ring' \in Rings
    BY <1>3, <2>1, <2>2 DEF FinishEvent, InputTypes, Rings
  <2> QED BY <1>3, <2>3 DEF FinishEvent, AppGoes, InputTypes, AppPlaces, pipeVars
<1>4. CASE PollInput
  BY <1>4 DEF PollInput, AppGoes, InputTypes, AppPlaces, ringVars, pipeVars
<1>5. CASE PollPipe
  BY <1>5 DEF PollPipe, AppGoes, InputTypes, AppPlaces, ringVars, pipeVars
<1>6. CASE GetEvent
  <2>1. ring.slots[ring.head] \in Handle
    BY DEF InputTypes, Rings
  <2>2. app' \in [pc : AppPlaces, event : Handle, byte : Nat]
    BY <1>6, <2>1 DEF GetEvent, InputTypes, AppPlaces
  <2> QED BY <1>6, <2>2 DEF GetEvent, InputTypes, ringVars, pipeVars
<1>7. CASE HandleEvent
  <2>1. due' \in Handle
    BY <1>7, HandlesWrap, HandleCount DEF HandleEvent, InputTypes, Handle
  <2> QED BY <1>7, <2>1 DEF HandleEvent, AppGoes, InputTypes, AppPlaces, pipeVars
<1>8. CASE CompareOffset
  BY <1>8 DEF CompareOffset, AppGoes, InputTypes, AppPlaces, ringVars, pipeVars
<1>9. CASE Execute
  <2>1. received' \in Seq(Nat)
    BY <1>9, AppendProperties DEF Execute, InputTypes
  <2>2. attached' \in BOOLEAN
    BY <1>9 DEF Execute, InputTypes
  <2>3. main' \in [pc : {"idle", "append", "waiting"}, command : Commands, commands : Nat]
    BY <1>9 DEF Execute, InputTypes
  <2> QED BY <1>9, <2>1, <2>2, <2>3 DEF Execute, AppGoes, InputTypes, AppPlaces, ringVars
<1> QED
  BY <1>1, <1>2, <1>3, <1>4, <1>5, <1>6, <1>7, <1>8, <1>9, PipeStepTypes DEF InputNext, AppStep

-----------------------------------------------------------------------------
(* The ring: its slots hold the handles before the next one, and the        *)
(* handler works on the first of them.                                      *)
Place(head, i) == (head + i) % RingSize

Oldest == IF ring.count <= nextHandle THEN nextHandle - ring.count
          ELSE nextHandle + Handles - ring.count

Holds(slots, head, count, first) ==
    \A i \in 0 .. count - 1 : slots[Place(head, i)] = Wrapped(first + i)

(* The handler has the first touch, or has seen it, or has finished it.     *)
HandlerInStep(a, expected, first, count) ==
    /\ a.pc = "handle" => a.event = first /\ expected = first /\ count > 0
    /\ a.pc = "finish" => /\ expected = Wrapped(a.event + 1)
                          /\ (a.event = first /\ count > 0) \/ expected = first
    /\ a.pc \notin {"handle", "finish"} => expected = first

RingInv ==
    /\ InputTypes
    /\ Holds(ring.slots, ring.head, ring.count, Oldest)
    /\ HandlerInStep(app, due, Oldest, ring.count)

LEMMA RingFields ==
    ASSUME RingInv
    PROVE  /\ ring.slots \in [0 .. RingSize - 1 -> Handle] /\ ring.head \in 0 .. RingSize - 1
           /\ ring.count \in 0 .. RingSize /\ ring.count \in Nat /\ nextHandle \in Handle
           /\ app.event \in Handle /\ due \in Handle
           /\ RingSize \in Nat \ {0}
BY InputAssumption DEF RingInv, InputTypes, Rings

(* The counter after c more handles than o is n. *)
LEMMA Behind ==
    ASSUME NEW n \in Handle, NEW c \in 0 .. RingSize, NEW o,
           o = IF c <= n THEN n - c ELSE n + Handles - c
    PROVE  o \in Handle /\ Wrapped(o + 0) = o /\ Wrapped(o + c) = n
<1>1. n \in Nat /\ c \in Nat /\ n < Handles /\ c < Handles /\ Handles \in Nat
  BY HandleCount DEF Handle
<1>2. o \in Nat /\ o < Handles
  BY <1>1
<1>3. Wrapped(o + 0) = o
  BY <1>1, <1>2 DEF Wrapped
<1>4. Wrapped(o + c) = n
  BY <1>1, <1>2 DEF Wrapped
<1> QED BY <1>1, <1>2, <1>3, <1>4 DEF Handle

LEMMA BehindNext ==
    ASSUME NEW n \in Handle, NEW c \in 0 .. RingSize - 1
    PROVE  (IF c + 1 <= Wrapped(n + 1) THEN Wrapped(n + 1) - (c + 1)
            ELSE Wrapped(n + 1) + Handles - (c + 1))
               = (IF c <= n THEN n - c ELSE n + Handles - c)
<1>1. n \in Nat /\ c \in Nat /\ n < Handles /\ c + 1 < Handles /\ Handles \in Nat
  BY HandleCount DEF Handle
<1> QED BY <1>1 DEF Wrapped

LEMMA BehindLess ==
    ASSUME NEW n \in Handle, NEW c \in 1 .. RingSize, NEW o,
           o = IF c <= n THEN n - c ELSE n + Handles - c
    PROVE  (IF c - 1 <= n THEN n - (c - 1) ELSE n + Handles - (c - 1)) = Wrapped(o + 1)
<1>1. n \in Nat /\ c \in Nat /\ c > 0 /\ n < Handles /\ c < Handles /\ Handles \in Nat
  BY HandleCount DEF Handle
<1> QED BY <1>1 DEF Wrapped

LEMMA OldestIsHandle ==
    ASSUME RingInv
    PROVE  /\ Oldest \in Handle
           /\ Wrapped(Oldest + 0) = Oldest
           /\ Wrapped(Oldest + ring.count) = nextHandle
<1> USE DEF Oldest
<1> QED BY RingFields, Behind

LEMMA SlotsApart ==
    ASSUME RingInv
    PROVE  /\ \A i \in 0 .. RingSize : Place(ring.head, i) \in 0 .. RingSize - 1
           /\ \A i, j \in 0 .. RingSize - 1 :
                  Place(ring.head, i) = Place(ring.head, j) => i = j
           /\ \A i \in 0 .. RingSize - 1 :
                  Place(Slot(1), i) = Place(ring.head, i + 1)
           /\ Place(ring.head, 0) = ring.head
<1>1. RingSize \in Nat \ {0} /\ ring.head \in 0 .. RingSize - 1
  BY RingFields
<1> QED BY <1>1, RingPlaces DEF Slot, Place

LEMMA HeadIsOldest ==
    ASSUME RingInv, ring.count > 0
    PROVE  ring.slots[ring.head] = Oldest
<1>1. 0 \in 0 .. ring.count - 1 /\ Place(ring.head, 0) = ring.head
  BY RingFields, SlotsApart
<1>2. ring.slots[Place(ring.head, 0)] = Wrapped(Oldest + 0)
  BY <1>1 DEF RingInv, Holds
<1> QED BY <1>1, <1>2, OldestIsHandle

(* The application thread goes elsewhere, or another thread moves. *)
LEMMA RingStill ==
    ASSUME RingInv, InputTypes', UNCHANGED ringVars,
           \/ UNCHANGED app
           \/ app.pc \notin {"handle", "finish"} /\ app'.pc \notin {"handle", "finish"}
           \/ /\ app.pc \notin {"handle", "finish"} /\ app'.pc = "handle"
              /\ app'.event = Oldest /\ ring.count > 0
    PROVE  RingInv'
<1>1. ring' = ring /\ due' = due /\ Oldest' = Oldest
  BY DEF ringVars, Oldest
<1>2. HandlerInStep(app', due, Oldest, ring.count)
  BY DEF RingInv, HandlerInStep
<1> QED BY <1>1, <1>2 DEF RingInv

LEMMA InjectKeeps ==
    ASSUME RingInv, InputTypes', Inject
    PROVE  RingInv'
<1>1. /\ nextHandle' = Wrapped(nextHandle + 1) /\ ring'.head = ring.head
      /\ ring'.count = ring.count + 1
      /\ ring'.slots = [ring.slots EXCEPT ![Slot(ring.count)] = nextHandle]
      /\ ring.count < RingSize /\ due' = due /\ app' = app
  BY DEF Inject, Room, RingInv, InputTypes, Rings
<1>2. Oldest' = Oldest
  <2>1. ring.count \in 0 .. RingSize - 1
    BY <1>1, RingFields
  <2> QED BY <1>1, <2>1, RingFields, BehindNext DEF Oldest
<1>3. ASSUME NEW i \in 0 .. ring.count
      PROVE  ring'.slots[Place(ring.head, i)] = Wrapped(Oldest + i)
  <2>1. /\ ring.count \in 0 .. RingSize - 1 /\ i \in 0 .. RingSize - 1
        /\ Place(ring.head, i) \in 0 .. RingSize - 1
        /\ Place(ring.head, ring.count) \in 0 .. RingSize - 1
    <3>1. ring.count \in 0 .. RingSize - 1 /\ i \in 0 .. RingSize - 1
      BY <1>1, RingFields
    <3>2. ring.count \in 0 .. RingSize /\ i \in 0 .. RingSize
      BY <3>1, RingFields
    <3> QED BY <3>1, <3>2, SlotsApart
  <2>2. CASE i = ring.count
    <3>1. Slot(ring.count) = Place(ring.head, i)
      BY <2>2 DEF Slot, Place
    <3>2. ring'.slots[Place(ring.head, i)] = nextHandle
      BY <1>1, <2>1, <3>1, RingFields
    <3> QED BY <2>2, <3>2, OldestIsHandle
  <2>3. CASE i # ring.count
    <3>1. Place(ring.head, i) # Place(ring.head, ring.count)
      BY <2>1, <2>3, RingFields, SlotsApart
    <3>2. i \in 0 .. ring.count - 1
      BY <2>3, RingFields
    <3>3. ring.slots[Place(ring.head, i)] = Wrapped(Oldest + i)
      BY <3>2 DEF RingInv, Holds
    <3>4. Slot(ring.count) = Place(ring.head, ring.count)
      BY DEF Slot, Place
    <3> QED BY <1>1, <2>1, <3>1, <3>3, <3>4, RingFields
  <2> QED BY <2>2, <2>3
<1>4. Holds(ring'.slots, ring'.head, ring'.count, Oldest)
  <2>1. 0 .. ring'.count - 1 = 0 .. ring.count
    BY <1>1, RingFields
  <2> QED BY <1>1, <1>3, <2>1 DEF Holds
<1>5. HandlerInStep(app', due', Oldest, ring'.count)
  <2>1. ring.count > 0 => ring'.count > 0
    BY <1>1, RingFields
  <2> QED BY <1>1, <2>1 DEF HandlerInStep, RingInv
<1> QED BY <1>2, <1>4, <1>5 DEF RingInv

(* The handler sees the first touch of the ring. *)
LEMMA HandleEventKeeps ==
    ASSUME RingInv, InputTypes', HandleEvent
    PROVE  RingInv'
<1>1. /\ app.pc = "handle" /\ due' = Wrapped(app.event + 1)
      /\ app'.pc = "finish" /\ app'.event = app.event
      /\ ring' = ring /\ nextHandle' = nextHandle
  BY DEF HandleEvent, AppAt, AppGoes, RingInv, InputTypes
<1>2. Oldest' = Oldest
  BY <1>1 DEF Oldest
<1>3. HandlerInStep(app', due', Oldest, ring.count)
  BY <1>1 DEF HandlerInStep, RingInv
<1> QED BY <1>1, <1>2, <1>3 DEF RingInv

(* The touch that is first is the one the handler has seen, or it stays. *)
LEMMA FinishEventKeeps ==
    ASSUME RingInv, InputTypes', FinishEvent
    PROVE  RingInv'
<1> DEFINE f == Wrapped(Oldest + 1)
<1>1. /\ app.pc = "finish" /\ due' = due /\ nextHandle' = nextHandle
      /\ app'.pc \in {"get", "finish"} /\ app'.event = app.event
      /\ ~Matches => app'.pc = "get"
  BY DEF FinishEvent, AppAt, AppGoes, RingInv, InputTypes
<1>2. CASE ~Matches
  <2>1. ring' = ring
    BY <1>2 DEF FinishEvent
  <2>2. ~(app.event = Oldest /\ ring.count > 0)
    BY <1>2, HeadIsOldest DEF Matches
  <2>3. due = Oldest
    BY <1>1, <2>2 DEF RingInv, HandlerInStep
  <2>4. Oldest' = Oldest
    BY <1>1, <2>1 DEF Oldest
  <2> QED BY <1>1, <1>2, <2>1, <2>3, <2>4 DEF RingInv, HandlerInStep
<1>3. CASE Matches
  <2>1. /\ ring'.slots = ring.slots /\ ring'.head = Slot(1) /\ ring'.count = ring.count - 1
        /\ ring.count > 0 /\ ring.slots[ring.head] = app.event
    BY <1>3 DEF FinishEvent, Matches, RingInv, InputTypes, Rings
  <2>2. Oldest' = f
    <3>1. ring.count \in 1 .. RingSize
      BY <2>1, RingFields
    <3> QED BY <1>1, <2>1, <3>1, RingFields, BehindLess DEF Oldest
  <2>3. app.event = Oldest /\ due = f
    BY <1>1, <2>1, HeadIsOldest DEF RingInv, HandlerInStep
  <2>4. ASSUME NEW i \in 0 .. ring.count - 2
        PROVE  ring.slots[Place(Slot(1), i)] = Wrapped(f + i)
    <3>1. i \in 0 .. RingSize - 1 /\ i + 1 \in 0 .. ring.count - 1
      BY RingFields
    <3>2. Place(Slot(1), i) = Place(ring.head, i + 1)
      BY <3>1, SlotsApart
    <3>3. ring.slots[Place(ring.head, i + 1)] = Wrapped(Oldest + (i + 1))
      BY <3>1 DEF RingInv, Holds
    <3>4. Wrapped(Oldest + (i + 1)) = Wrapped(f + i)
      <4>1. Oldest \in 0 .. Handles - 1 /\ i \in 0 .. Handles - 1 /\ i + 1 \in 0 .. Handles - 1
        BY <3>1, RingFields, OldestIsHandle, HandleCount DEF Handle
      <4> QED BY <4>1, HandleCount DEF Wrapped
    <3> QED BY <3>2, <3>3, <3>4
  <2>5. Holds(ring'.slots, ring'.head, ring'.count, f)
    <3>1. 0 .. ring'.count - 1 = 0 .. ring.count - 2
      BY <2>1, RingFields
    <3> QED BY <2>1, <2>4, <3>1 DEF Holds
  <2>6. HandlerInStep(app', due', f, ring'.count)
    BY <1>1, <2>3 DEF HandlerInStep
  <2> QED BY <2>2, <2>5, <2>6 DEF RingInv
<1> QED BY <1>2, <1>3

LEMMA RingStep ==
    ASSUME RingInv, [InputNext]_inputVars
    PROVE  RingInv'
<1>0. InputTypes'
  BY StepTypes DEF RingInv
<1>1. CASE UNCHANGED inputVars
  BY <1>0, <1>1, RingStill DEF inputVars, ringVars
<1>2. CASE PollInput \/ PollPipe \/ CopyByte \/ CompareOffset \/ ResetPipe \/ Execute
  <2>1. UNCHANGED ringVars
    BY <1>2 DEF PollInput, PollPipe, CopyByte, CompareOffset, ResetPipe, Execute
  <2>2. app.pc \notin {"handle", "finish"} /\ app'.pc \notin {"handle", "finish"}
    BY <1>2 DEF PollInput, PollPipe, CopyByte, CompareOffset, ResetPipe, Execute, AppAt, AppGoes,
                RingInv, InputTypes
  <2> QED BY <1>0, <2>1, <2>2, RingStill
<1>3. CASE GetEvent
  <2>1. UNCHANGED ringVars /\ app.pc = "get"
    BY <1>3 DEF GetEvent, AppAt
  <2>2. CASE ring.count = 0
    <3>1. app'.pc = "poll"
      BY <1>3, <2>2 DEF GetEvent, RingInv, InputTypes
    <3> QED BY <1>0, <2>1, <3>1, RingStill
  <2>3. CASE ring.count # 0
    <3>1. app'.pc = "handle" /\ app'.event = ring.slots[ring.head]
      BY <1>3, <2>3 DEF GetEvent, RingInv, InputTypes
    <3>2. ring.count > 0
      BY <2>3, RingFields
    <3> QED BY <1>0, <2>1, <3>1, <3>2, HeadIsOldest, RingStill
  <2> QED BY <2>2, <2>3
<1>4. CASE AppendByte \/ \E c \in {"attach", "detach", "plain"} : BeginWrite(c)
  <2>1. UNCHANGED ringVars /\ UNCHANGED app
    BY <1>4 DEF AppendByte, BeginWrite
  <2> QED BY <1>0, <2>1, RingStill
<1> QED
  BY <1>0, <1>1, <1>2, <1>3, <1>4, InjectKeeps, HandleEventKeeps, FinishEventKeeps DEF InputNext, AppStep

LEMMA InputStarts ==
    ASSUME InputInit
    PROVE  InputTypes
<1>1. 0 \in 0 .. RingSize - 1 /\ 0 \in 0 .. RingSize /\ 0 \in 0 .. PipeSize /\ MaxCommands \in Nat
  BY InputAssumption
<1>2. [data |-> [i \in 0 .. PipeSize - 1 |-> 0], offset |-> 0, size |-> 0] \in Pipes
  <2>1. [i \in 0 .. PipeSize - 1 |-> 0] \in [0 .. PipeSize - 1 -> Nat]
    OBVIOUS
  <2> QED BY <1>1, <2>1, PipeMade
<1>3. 0 \in Handle /\ ring \in Rings
  BY <1>1, HandleCount DEF InputInit, Rings, Handle
<1>4. app \in [pc : AppPlaces, event : Handle, byte : Nat]
  BY <1>3 DEF InputInit, AppPlaces
<1>5. main \in [pc : {"idle", "append", "waiting"}, command : Commands, commands : Nat]
  BY <1>1 DEF InputInit, Commands
<1>6. sent \in Seq(Commands) /\ received \in Seq(Nat)
  BY DEF InputInit
<1> QED BY <1>1, <1>2, <1>3, <1>4, <1>5, <1>6 DEF InputInit, InputTypes

(* The ring and the handler agree in every state: touches come in order,   *)
(* each once (agr_guest_runtime.c: input_queue_push, input_queue_peek,     *)
(* input_queue_finish), for any size of the ring and any width of the      *)
(* counter of handles, however often it starts again, whatever the pipe    *)
(* does.                                                                   *)
THEOREM TouchesComeInOrder == InputSpec => []TouchesInOrder
<1>1. InputInit => RingInv
  <2> SUFFICES ASSUME InputInit PROVE RingInv
    OBVIOUS
  <2>1. InputTypes
    BY InputStarts
  <2>2. ring.count = 0 /\ nextHandle = 0 /\ due = 0 /\ app.pc = "poll"
    BY DEF InputInit
  <2> QED BY <2>1, <2>2 DEF RingInv, Holds, HandlerInStep, Oldest
<1>2. RingInv /\ [InputNext]_inputVars => RingInv'
  BY RingStep
<1>3. RingInv => TouchesInOrder
  <2> SUFFICES ASSUME RingInv PROVE TouchesInOrder
    OBVIOUS
  <2>1. ring.count <= RingSize
    BY RingFields
  <2>2. \A i \in 0 .. ring.count - 1 : ring.slots[Slot(i)] = Wrapped(Oldest + i)
    BY DEF RingInv, Holds, Slot, Place
  <2>3. due \in {Oldest, Wrapped(Oldest + 1)} /\ (AppAt("handle") => app.event = due)
    BY DEF RingInv, HandlerInStep, AppAt
  <2> QED BY <2>1, <2>2, <2>3 DEF TouchesInOrder, Oldest
<1> QED BY <1>1, <1>2, <1>3, PTL DEF InputSpec

-----------------------------------------------------------------------------
(* The pipe, until a read and a write have met: the bytes it keeps are the  *)
(* commands that were sent and not yet taken, numbered as they were sent.   *)
InHand == {"copied", "reset", "execute"}

(* Commands the application thread has taken out of the pipe. *)
Taken(place, n) == n + IF place \in InHand THEN 1 ELSE 0

Keeps(data, offset, size, first, last) ==
    /\ offset <= size
    /\ size - offset = last - first
    /\ \A i \in 0 .. size - offset - 1 : data[offset + i] = first + 1 + i

ReaderInStep(a, offset, size, n) ==
    /\ a.pc = "read" => offset < size
    /\ a.pc = "reset" => offset = size
    /\ a.pc \in InHand => a.byte = n + 1

PipeInv ==
    /\ InputTypes
    /\ Keeps(pipe.data, pipe.offset, pipe.size, Taken(app.pc, Len(received)), Len(sent))
    /\ ReaderInStep(app, pipe.offset, pipe.size, Len(received))
    /\ received = [i \in 1 .. Len(received) |-> i]
    /\ ~(Reading /\ Writing)

LEMMA PipeNumbers ==
    ASSUME InputTypes
    PROVE  /\ pipe.data \in [0 .. PipeSize - 1 -> Nat] /\ pipe.offset \in Nat /\ pipe.size \in 0 .. PipeSize
           /\ pipe = [data |-> pipe.data, offset |-> pipe.offset, size |-> pipe.size]
           /\ PipeSize \in Nat \ {0} /\ pipe.size \in Nat
           /\ Len(sent) \in Nat /\ Len(received) \in Nat
BY PipeFields, InputAssumption DEF InputTypes

(* The application thread goes from a place where it has no command to     *)
(* another, and leaves the pipe alone.                                     *)
LEMMA PipeStill ==
    ASSUME PipeInv, InputTypes', UNCHANGED pipeVars,
           \/ UNCHANGED app
           \/ /\ app.pc \notin InHand /\ app'.pc \notin InHand
              /\ app'.pc = "read" => pipe.size # pipe.offset
    PROVE  PipeInv'
<1>1. CASE UNCHANGED app
  BY <1>1 DEF PipeInv, Reading, Writing, pipeVars
<1>2. CASE /\ app.pc \notin InHand /\ app'.pc \notin InHand
           /\ app'.pc = "read" => pipe.size # pipe.offset
  <2>1. pipe' = pipe /\ main' = main /\ sent' = sent /\ received' = received
    BY DEF pipeVars
  <2>2. Taken(app.pc, Len(received)) = Len(received) /\ Taken(app'.pc, Len(received)) = Len(received)
    BY <1>2, PipeNumbers DEF Taken, PipeInv
  <2>3. ReaderInStep(app', pipe.offset, pipe.size, Len(received))
    BY <1>2, PipeNumbers DEF ReaderInStep, PipeInv, Keeps, InHand
  <2>4. ~(Reading /\ Writing)'
    BY <1>2 DEF Reading, InHand
  <2> QED BY <2>1, <2>2, <2>3, <2>4 DEF PipeInv
<1> QED BY <1>1, <1>2

LEMMA CopyByteKeeps ==
    ASSUME PipeInv, InputTypes', CopyByte, ~met'
    PROVE  PipeInv'
<1> DEFINE n == Len(received)
<1>1. /\ app.pc = "read" /\ app'.pc = "copied"
      /\ app'.byte = pipe.data[pipe.offset % PipeSize]
      /\ pipe'.data = pipe.data /\ pipe'.offset = pipe.offset + 1 /\ pipe'.size = pipe.size
      /\ main' = main /\ sent' = sent /\ received' = received /\ ~Writing
  BY DEF CopyByte, AppAt, PipeInv, InputTypes, Pipes
<1>2. pipe.offset < pipe.size /\ n \in Nat /\ Len(sent) \in Nat
  BY <1>1, PipeNumbers DEF PipeInv, ReaderInStep
<1>3. Taken(app.pc, n) = n /\ Taken(app'.pc, n) = n + 1
  BY <1>1, <1>2 DEF Taken, InHand
<1>4. Keeps(pipe.data, pipe.offset, pipe.size, n, Len(sent))
  BY <1>3 DEF PipeInv
<1>5. app'.byte = n + 1
  <2>1. pipe.offset % PipeSize = pipe.offset
    <3>1. pipe.offset \in Nat /\ pipe.offset < PipeSize /\ PipeSize \in Nat \ {0}
      BY <1>2, PipeNumbers DEF PipeInv
    <3>2. pipe.offset < 2 * PipeSize
      BY <3>1
    <3> QED BY <3>1, <3>2, Wraps
  <2>2. 0 \in 0 .. pipe.size - pipe.offset - 1
    BY <1>2, PipeNumbers DEF PipeInv
  <2>3. pipe.data[pipe.offset + 0] = n + 1 + 0
    BY <1>4, <2>2 DEF Keeps
  <2>4. pipe.offset + 0 = pipe.offset /\ n + 1 + 0 = n + 1
    BY <1>2, PipeNumbers DEF PipeInv
  <2> QED BY <1>1, <2>1, <2>3, <2>4
<1>6. Keeps(pipe.data, pipe.offset + 1, pipe.size, n + 1, Len(sent))
  <2> SUFFICES ASSUME NEW i \in 0 .. pipe.size - (pipe.offset + 1) - 1
               PROVE  pipe.data[(pipe.offset + 1) + i] = (n + 1) + 1 + i
    BY <1>2, <1>4, PipeNumbers DEF Keeps, PipeInv
  <2>1. i + 1 \in 0 .. pipe.size - pipe.offset - 1
    <3>1. pipe.offset \in Nat /\ pipe.size \in Nat
      BY PipeNumbers DEF PipeInv
    <3> QED BY <3>1
  <2>2. pipe.data[pipe.offset + (i + 1)] = n + 1 + (i + 1)
    BY <1>4, <2>1 DEF Keeps
  <2>3. pipe.offset + (i + 1) = (pipe.offset + 1) + i /\ n + 1 + (i + 1) = (n + 1) + 1 + i
    <3>1. pipe.offset \in Nat /\ n \in Nat /\ i \in Nat
      BY <1>2, PipeNumbers DEF PipeInv
    <3> HIDE DEF n
    <3> QED BY <3>1
  <2> QED BY <2>2, <2>3
<1>7. ReaderInStep(app', pipe'.offset, pipe'.size, n)
  BY <1>1, <1>5 DEF ReaderInStep
<1>8. ~(Reading /\ Writing)'
  BY <1>1 DEF Writing
<1> QED BY <1>1, <1>3, <1>6, <1>7, <1>8 DEF PipeInv

LEMMA CompareOffsetKeeps ==
    ASSUME PipeInv, InputTypes', CompareOffset
    PROVE  PipeInv'
<1>1. /\ app.pc = "copied" /\ app'.byte = app.byte
      /\ app'.pc = IF pipe.offset = pipe.size THEN "reset" ELSE "execute"
      /\ pipe' = pipe /\ main' = main /\ sent' = sent /\ received' = received
  BY DEF CompareOffset, AppAt, AppGoes, PipeInv, InputTypes, pipeVars
<1>2. Taken(app'.pc, Len(received)) = Taken(app.pc, Len(received))
  BY <1>1 DEF Taken, InHand
<1>3. ReaderInStep(app', pipe.offset, pipe.size, Len(received))
  BY <1>1 DEF ReaderInStep, PipeInv, InHand
<1>4. ~(Reading /\ Writing)'
  BY <1>1 DEF Reading, Writing, PipeInv
<1> QED BY <1>1, <1>2, <1>3, <1>4 DEF PipeInv

(* The pipe is empty when it is reset, and nobody has written since. *)
LEMMA ResetPipeKeeps ==
    ASSUME PipeInv, InputTypes', ResetPipe
    PROVE  PipeInv'
<1>1. /\ app.pc = "reset" /\ app'.pc = "execute" /\ app'.byte = app.byte
      /\ pipe'.data = pipe.data /\ pipe'.offset = 0 /\ pipe'.size = 0
      /\ main' = main /\ sent' = sent /\ received' = received
  BY DEF ResetPipe, AppAt, AppGoes, PipeInv, InputTypes, Pipes
<1>2. Taken(app.pc, Len(received)) = Len(received) + 1 /\ Taken(app'.pc, Len(received)) = Len(received) + 1
  BY <1>1 DEF Taken, InHand
<1>3. pipe.offset = pipe.size
  BY <1>1 DEF PipeInv, ReaderInStep
<1>4. Keeps(pipe.data, 0, 0, Len(received) + 1, Len(sent))
  BY <1>2, <1>3, PipeNumbers DEF PipeInv, Keeps
<1>5. ReaderInStep(app', 0, 0, Len(received))
  BY <1>1 DEF ReaderInStep, PipeInv, InHand
<1>6. ~(Reading /\ Writing)'
  BY <1>1 DEF Reading
<1> QED BY <1>1, <1>2, <1>4, <1>5, <1>6 DEF PipeInv

(* Compaction moves what is unread to the front and forgets nothing. *)
LEMMA BeginWriteKeeps ==
    ASSUME PipeInv, InputTypes', NEW c \in {"attach", "detach", "plain"}, BeginWrite(c), ~met'
    PROVE  PipeInv'
<1> DEFINE taken == Taken(app.pc, Len(received))
<1> DEFINE left == pipe.size - pipe.offset
<1>1. /\ pipe'.offset = 0 /\ pipe'.size = left /\ left \in 0 .. PipeSize
      /\ pipe'.data = [i \in DOMAIN pipe.data |-> IF i < left THEN pipe.data[i + pipe.offset] ELSE pipe.data[i]]
      /\ pipe.offset <= pipe.size
      /\ app' = app /\ sent' = sent /\ received' = received
  <2>1. /\ pipe.offset <= pipe.size /\ pipe' = Compacted(pipe)
        /\ app' = app /\ sent' = sent /\ received' = received
    BY DEF BeginWrite
  <2> QED BY <2>1, PipeNumbers DEF Compacted, PipeInv, InputTypes, Pipes
<1>0. ~Reading
  BY DEF BeginWrite
<1>2. Keeps(pipe.data, pipe.offset, pipe.size, taken, Len(sent))
  BY DEF PipeInv
<1>3. Keeps(pipe'.data, 0, left, taken, Len(sent))
  <2>1. left - 0 = left /\ 0 <= left
    BY <1>1
  <2> SUFFICES ASSUME NEW i \in 0 .. left - 1
               PROVE  pipe'.data[0 + i] = taken + 1 + i
    BY <1>1, <1>2, <2>1 DEF Keeps
  <2>2. i \in 0 .. PipeSize - 1 /\ 0 + i = i /\ i < left /\ i + pipe.offset = pipe.offset + i
    BY <1>1, PipeNumbers DEF PipeInv
  <2>3. pipe'.data[i] = pipe.data[pipe.offset + i]
    BY <1>1, <2>2, PipeNumbers DEF PipeInv
  <2> QED BY <1>2, <2>2, <2>3 DEF Keeps
<1>4. ReaderInStep(app', 0, left, Len(received))
  BY <1>0, <1>1, PipeNumbers DEF ReaderInStep, PipeInv, Reading
<1>5. ~(Reading /\ Writing)'
  BY <1>0, <1>1 DEF Reading
<1> QED BY <1>1, <1>3, <1>4, <1>5 DEF PipeInv

LEMMA AppendByteKeeps ==
    ASSUME PipeInv, InputTypes', AppendByte
    PROVE  PipeInv'
<1> DEFINE taken == Taken(app.pc, Len(received))
<1>1. app' = app /\ received' = received /\ main.pc = "append" /\ main'.pc # "append"
  BY DEF AppendByte, PipeInv, InputTypes
<1>2. ~(Reading /\ Writing)'
  BY <1>1 DEF Writing
<1>3. CASE pipe.size < PipeSize
  <2>1. /\ pipe'.data = [pipe.data EXCEPT ![pipe.size] = Len(sent) + 1]
        /\ pipe'.offset = pipe.offset /\ pipe'.size = pipe.size + 1
        /\ sent' = Append(sent, main.command)
    BY <1>3 DEF AppendByte, PipeInv, InputTypes, Pipes
  <2>2. Len(sent') = Len(sent) + 1
    BY <2>1, AppendProperties DEF PipeInv, InputTypes
  <2>3. Keeps(pipe.data, pipe.offset, pipe.size, taken, Len(sent))
    BY DEF PipeInv
  <2>4. taken \in Nat
    BY PipeNumbers DEF Taken, PipeInv
  <2>5. Keeps(pipe'.data, pipe.offset, pipe.size + 1, taken, Len(sent) + 1)
    <3> HIDE DEF taken
    <3>1. pipe.offset <= pipe.size + 1 /\ (pipe.size + 1) - pipe.offset = (Len(sent) + 1) - taken
      BY <2>3, <2>4, PipeNumbers DEF Keeps, PipeInv
    <3>2. ASSUME NEW i \in 0 .. (pipe.size + 1) - pipe.offset - 1
          PROVE  pipe'.data[pipe.offset + i] = taken + 1 + i
      <4>1. CASE i = pipe.size - pipe.offset
        <5>1. pipe.offset + i = pipe.size /\ taken + 1 + i = Len(sent) + 1
          BY <2>3, <2>4, <4>1, PipeNumbers DEF Keeps, PipeInv
        <5>2. pipe.size \in 0 .. PipeSize - 1
          BY <1>3, PipeNumbers DEF PipeInv
        <5> QED BY <2>1, <5>1, <5>2, PipeNumbers DEF PipeInv
      <4>2. CASE i # pipe.size - pipe.offset
        <5>1. i \in 0 .. pipe.size - pipe.offset - 1
          <6>1. pipe.offset \in Nat /\ pipe.size \in Nat /\ pipe.offset <= pipe.size
            BY <2>3, PipeNumbers DEF Keeps, PipeInv
          <6> QED BY <4>2, <6>1
        <5>2. pipe.offset + i \in 0 .. PipeSize - 1 /\ pipe.offset + i # pipe.size
          BY <1>3, <5>1, PipeNumbers DEF PipeInv
        <5>3. pipe.data[pipe.offset + i] = taken + 1 + i
          BY <2>3, <5>1 DEF Keeps
        <5> QED BY <2>1, <5>2, <5>3, PipeNumbers DEF PipeInv
      <4> QED BY <4>1, <4>2
    <3> QED BY <3>1, <3>2 DEF Keeps
  <2>6. ReaderInStep(app', pipe'.offset, pipe'.size, Len(received))
    BY <1>1, <2>1, PipeNumbers DEF ReaderInStep, PipeInv, Reading, Writing, InHand
  <2> QED BY <1>1, <1>2, <2>1, <2>2, <2>5, <2>6 DEF PipeInv
<1>4. CASE ~(pipe.size < PipeSize)
  <2>1. pipe' = pipe /\ sent' = sent
    BY <1>4 DEF AppendByte
  <2> QED BY <1>1, <1>2, <2>1 DEF PipeInv
<1> QED BY <1>3, <1>4

LEMMA ExecuteKeeps ==
    ASSUME PipeInv, InputTypes', Execute
    PROVE  PipeInv'
<1> DEFINE n == Len(received)
<1>1. /\ app.pc = "execute" /\ app'.pc = "poll" /\ received' = Append(received, app.byte)
      /\ pipe' = pipe /\ sent' = sent /\ app.byte \in Nat /\ received \in Seq(Nat)
  BY DEF Execute, AppAt, AppGoes, PipeInv, InputTypes
<1>2. app.byte = n + 1 /\ n \in Nat
  BY <1>1, PipeNumbers DEF PipeInv, ReaderInStep, InHand
<1>3. Len(received') = n + 1
  BY <1>1, AppendProperties
<1>4. received' = [i \in 1 .. Len(received') |-> i]
  <2>1. received = [i \in 1 .. n |-> i]
    BY DEF PipeInv
  <2>2. Append(received, n + 1) = [i \in 1 .. n + 1 |-> i]
    BY <1>1, <1>2, <2>1
  <2> QED BY <1>1, <1>2, <1>3, <2>2
<1>5. Taken(app.pc, n) = n + 1 /\ Taken(app'.pc, Len(received')) = n + 1
  BY <1>1, <1>2, <1>3 DEF Taken, InHand
<1>6. ReaderInStep(app', pipe'.offset, pipe'.size, Len(received'))
  BY <1>1 DEF ReaderInStep, InHand
<1>7. ~(Reading /\ Writing)'
  BY <1>1 DEF Reading
<1> QED BY <1>1, <1>4, <1>5, <1>6, <1>7 DEF PipeInv

LEMMA PipeStep ==
    ASSUME PipeInv, [InputNext]_inputVars, ~met'
    PROVE  PipeInv'
<1>0. InputTypes'
  BY StepTypes DEF PipeInv
<1>1. CASE UNCHANGED inputVars
  BY <1>0, <1>1, PipeStill DEF inputVars, pipeVars
<1>2. CASE PollInput \/ PollPipe \/ GetEvent \/ HandleEvent \/ FinishEvent
  <2>1. UNCHANGED pipeVars
    BY <1>2 DEF PollInput, PollPipe, GetEvent, HandleEvent, FinishEvent
  <2>2. app.pc \notin InHand
    BY <1>2 DEF PollInput, PollPipe, GetEvent, HandleEvent, FinishEvent, AppAt, InHand
  <2>3. app'.pc \notin InHand /\ (app'.pc = "read" => pipe.size # pipe.offset)
    <3>1. CASE PollPipe
      BY <3>1 DEF PollPipe, Unread, AppGoes, InHand, PipeInv, InputTypes
    <3>2. CASE PollInput \/ GetEvent \/ HandleEvent \/ FinishEvent
      BY <3>2 DEF PollInput, GetEvent, HandleEvent, FinishEvent, AppGoes, InHand, PipeInv, InputTypes
    <3> QED BY <1>2, <3>1, <3>2
  <2> QED BY <1>0, <2>1, <2>2, <2>3, PipeStill
<1>3. CASE Inject
  <2>1. UNCHANGED pipeVars /\ UNCHANGED app
    BY <1>3 DEF Inject
  <2> QED BY <1>0, <2>1, PipeStill
<1> QED
  BY <1>0, <1>1, <1>2, <1>3, CopyByteKeeps, CompareOffsetKeeps, ResetPipeKeeps, ExecuteKeeps,
     BeginWriteKeeps, AppendByteKeeps DEF InputNext, AppStep

(* Once a read and a write have met nothing more is claimed, and they have  *)
(* met for good.                                                            *)
PipeUntilMet == InputTypes /\ (met \/ PipeInv)

LEMMA MetForGood ==
    ASSUME met, InputTypes, [InputNext]_inputVars
    PROVE  met'
<1>1. CASE CopyByte \/ \E c \in {"attach", "detach", "plain"} : BeginWrite(c)
  BY <1>1 DEF CopyByte, BeginWrite
<1>2. CASE \/ PollInput \/ PollPipe \/ GetEvent \/ HandleEvent \/ FinishEvent
           \/ CompareOffset \/ ResetPipe \/ Execute \/ Inject \/ AppendByte \/ UNCHANGED inputVars
  BY <1>2 DEF PollInput, PollPipe, GetEvent, HandleEvent, FinishEvent, CompareOffset, ResetPipe,
              Execute, Inject, AppendByte, pipeVars, inputVars
<1> QED BY <1>1, <1>2 DEF InputNext, AppStep

(* A command is lost, repeated or moved only when a read and a write of    *)
(* the pipe overlap (agr_guest_runtime.c: fd_read_cb, fd_write_cb), which  *)
(* nothing in the code prevents: in any other interleaving of the two      *)
(* threads commands arrive once and in order, for any size of the pipe, of *)
(* the ring and any number of commands.                                    *)
THEOREM OnlyOverlapLoses == InputSpec => []CommandsDelivered
<1>1. InputInit => PipeUntilMet
  <2> SUFFICES ASSUME InputInit PROVE PipeUntilMet
    OBVIOUS
  <2>1. InputTypes
    BY InputStarts
  <2>2. /\ pipe.offset = 0 /\ pipe.size = 0 /\ app.pc = "poll"
        /\ received = <<>> /\ Len(received) = 0 /\ Len(sent) = 0
    BY DEF InputInit
  <2>3. Keeps(pipe.data, 0, 0, Taken(app.pc, Len(received)), Len(sent))
    <3>1. Taken(app.pc, Len(received)) = 0
      BY <2>2 DEF Taken, InHand
    <3> QED BY <2>2, <3>1 DEF Keeps
  <2>4. received = [i \in 1 .. Len(received) |-> i]
    BY <2>2
  <2>5. PipeInv
    BY <2>1, <2>2, <2>3, <2>4 DEF PipeInv, ReaderInStep, InHand, Reading
  <2> QED BY <2>1, <2>5 DEF PipeUntilMet
<1>2. PipeUntilMet /\ [InputNext]_inputVars => PipeUntilMet'
  <2> SUFFICES ASSUME PipeUntilMet, [InputNext]_inputVars PROVE PipeUntilMet'
    OBVIOUS
  <2>1. InputTypes'
    BY StepTypes DEF PipeUntilMet
  <2>2. CASE met'
    BY <2>1, <2>2 DEF PipeUntilMet
  <2>3. CASE ~met'
    <3>1. PipeInv
      BY <2>3, MetForGood DEF PipeUntilMet
    <3> QED BY <2>1, <2>3, <3>1, PipeStep DEF PipeUntilMet
  <2> QED BY <2>2, <2>3
<1>3. PipeUntilMet => CommandsDelivered
  <2> SUFFICES ASSUME PipeInv PROVE CommandsNotLost
    BY DEF PipeUntilMet, CommandsDelivered
  <2>1. ASSUME app.pc \in {"poll", "pollfd", "get", "handle", "finish"}
        PROVE  pipe.size - pipe.offset = Len(sent) - Len(received)
    <3>1. Taken(app.pc, Len(received)) = Len(received)
      <4>1. Len(received) \in Nat /\ app.pc \notin InHand
        BY <2>1, PipeNumbers DEF PipeInv, InHand
      <4> QED BY <4>1 DEF Taken
    <3> QED BY <3>1 DEF PipeInv, Keeps
  <2> QED BY <2>1 DEF PipeInv, CommandsNotLost
<1> QED BY <1>1, <1>2, <1>3, PTL DEF InputSpec
=============================================================================
