---------------------------- MODULE BionicOnceProofs ----------------------------
(***************************************************************************)
(* Theorems about BionicOnce, for any threads, any number of calls and any *)
(* number of callbacks that fail: the init function runs to its success    *)
(* once, in one thread.                                                    *)
(*                                                                         *)
(* Everything is about one word that all threads compare and swap: it is 1 *)
(* exactly while one thread initialises, and 2 after a success.            *)
(***************************************************************************)
EXTENDS BionicOnce, TLAPS

OncePcs == {"idle", "load", "cas", "wait", "sleep", "invoke", "publish", "restore", "wake", "wakefail"}

(* The word says whether somebody initialises, and whether somebody has.   *)
ControlWord(w) ==
    /\ w \in 0 .. 2
    /\ w = 1 <=> \E t \in Threads : Initialising(t)
    /\ completed = 0 \/ completed = 1
    /\ completed = 1 => w = 2 \/ \E t \in Threads : pc[t] = "publish"

OInv ==
    /\ word \in [Addrs -> Nat] /\ old \in [Threads -> Nat] /\ pc \in [Threads -> OncePcs]
    /\ ControlWord(word[Control])
    /\ \A t, u \in Threads : Initialising(t) /\ Initialising(u) => t = u
    /\ \A t \in Threads : /\ pc[t] = "cas" => old[t] \in 0 .. 1
                          /\ pc[t] = "publish" => completed = 1
                          /\ pc[t] \in {"invoke", "restore"} => completed = 0

(* A step of t to l that is no part of an initialisation.                  *)
LEMMA OnceMoves ==
  ASSUME OInv, NEW t \in Threads, NEW l \in OncePcs \ {"cas", "invoke", "publish", "restore"},
         pc[t] \notin {"invoke", "publish", "restore"},
         pc' = [pc EXCEPT ![t] = l], word' = word, old' = old, completed' = completed
  PROVE  OInv'
<1>1. pc' \in [Threads -> OncePcs] /\ pc'[t] = l /\ \A u \in Threads \ {t} : pc'[u] = pc[u]
  BY DEF OInv
<1>2. \A u \in Threads : /\ Initialising(u)' <=> Initialising(u)
                         /\ pc'[u] = "publish" <=> pc[u] = "publish"
                         /\ pc'[u] = "cas" => pc[u] = "cas"
  BY <1>1 DEF Initialising
<1>3. ControlWord(word[Control])'
  BY <1>2 DEF OInv, ControlWord
<1> QED BY <1>1, <1>2, <1>3 DEF OInv, Initialising

LEMMA LoadControlKeeps ==
  ASSUME OInv, NEW t \in Threads, LoadControl(t)
  PROVE  OInv'
<1>1. /\ pc[t] = "load" /\ word' = word /\ completed' = completed
      /\ old' = [old EXCEPT ![t] = word[Control]]
  BY DEF LoadControl
<1>2. PICK l \in {"idle", "cas"} : /\ pc' = [pc EXCEPT ![t] = l]
                                   /\ l = "cas" => word[Control] \div 2 # 1
  BY DEF LoadControl, Complete, Answer, Goto
<1>3. /\ pc' \in [Threads -> OncePcs] /\ pc'[t] = l /\ \A u \in Threads \ {t} : pc'[u] = pc[u]
  BY <1>2 DEF OInv, OncePcs
<1>4. word[Control] \in 0 .. 2
  BY DEF OInv, ControlWord
<1>5. old' \in [Threads -> Nat] /\ old'[t] = word[Control] /\ \A u \in Threads \ {t} : old'[u] = old[u]
  BY <1>1, <1>4 DEF OInv
<1>6. l = "cas" => word[Control] \in 0 .. 1
  BY <1>2, <1>4
<1>7. \A u \in Threads : /\ Initialising(u)' <=> Initialising(u)
                         /\ pc'[u] = "publish" <=> pc[u] = "publish"
  BY <1>1, <1>3 DEF Initialising
<1>8. ControlWord(word[Control])'
  BY <1>1, <1>7 DEF OInv, ControlWord
<1> QED BY <1>1, <1>3, <1>5, <1>6, <1>7, <1>8 DEF OInv

LEMMA CasControlKeeps ==
  ASSUME OInv, NEW t \in Threads, CasControl(t)
  PROVE  OInv'
<1>1. pc[t] = "cas" /\ old' = old /\ completed' = completed /\ Control \in Addrs
  BY OnceAssumption DEF CasControl
<1>2. CASE word[Control] # old[t]
  BY <1>1, <1>2, OnceMoves DEF CasControl, Goto, OncePcs
<1>3. CASE word[Control] = old[t]
  <2>1. old[t] \in 0 .. 1
    BY <1>1 DEF OInv
  <2>2. CASE old[t] = 1
    <3>1. word' = word /\ pc' = [pc EXCEPT ![t] = "wait"]
      BY <1>1, <1>3, <2>2 DEF CasControl, Goto, Assign, Begun, Running,
         MineToRun, OInv
    <3> QED BY <1>1, <3>1, OnceMoves DEF OncePcs
  <2>3. CASE old[t] = 0
    <3>1. word' = [word EXCEPT ![Control] = 1] /\ pc' = [pc EXCEPT ![t] = "invoke"]
      BY <1>1, <1>3, <2>3 DEF CasControl, Goto, Assign, Begun, Running,
         MineToRun, OInv
    <3>2. word' \in [Addrs -> Nat] /\ word'[Control] = 1
      BY <1>1, <3>1 DEF OInv
    <3>3. pc' \in [Threads -> OncePcs] /\ pc'[t] = "invoke" /\ \A u \in Threads \ {t} : pc'[u] = pc[u]
      BY <3>1 DEF OInv, OncePcs
    <3>4. \A u \in Threads : ~Initialising(u)
      BY <1>3, <2>3 DEF OInv, ControlWord
    <3>5. completed = 0
      BY <1>3, <2>3, <3>4 DEF OInv, ControlWord, Initialising
    <3>6. Initialising(t)' /\ \A u \in Threads \ {t} : ~Initialising(u)'
      BY <3>3, <3>4 DEF Initialising
    <3>7. ControlWord(word[Control])'
      BY <1>1, <3>2, <3>5, <3>6 DEF ControlWord
    <3> QED BY <1>1, <3>2, <3>3, <3>5, <3>6, <3>7 DEF OInv
  <2> QED BY <2>1, <2>2, <2>3
<1> QED BY <1>2, <1>3

(* The one that initialises, t, goes on to l.                              *)
LEMMA InvokeKeeps ==
  ASSUME OInv, NEW t \in Threads, Invoke(t)
  PROVE  OInv'
<1>1. pc[t] = "invoke" /\ word' = word /\ old' = old /\ completed = 0
  BY DEF Invoke, OInv
<1>2. PICK l \in {"publish", "restore"} : /\ pc' = [pc EXCEPT ![t] = l]
                                          /\ completed' = IF l = "publish" THEN 1 ELSE 0
  BY <1>1 DEF Invoke, Goto
<1>3. pc' \in [Threads -> OncePcs] /\ pc'[t] = l /\ \A u \in Threads \ {t} : pc'[u] = pc[u]
  BY <1>2 DEF OInv, OncePcs
<1>4. \A u \in Threads \ {t} : ~Initialising(u)
  BY <1>1 DEF OInv, Initialising
<1>5. Initialising(t)' /\ \A u \in Threads \ {t} : ~Initialising(u)'
  BY <1>3, <1>4 DEF Initialising
<1>6. word[Control] = 1
  BY <1>1 DEF OInv, ControlWord, Initialising
<1>7. ControlWord(word[Control])'
  BY <1>1, <1>2, <1>3, <1>5, <1>6 DEF ControlWord
<1> QED BY <1>1, <1>2, <1>3, <1>4, <1>5, <1>7 DEF OInv, Initialising

(* The outcome is stored: the word is v, and nobody initialises any more.  *)
LEMMA StoresOutcome ==
  ASSUME OInv, NEW t \in Threads, NEW v \in {0, 2},
         pc[t] \in {"publish", "restore"}, v = 2 <=> pc[t] = "publish",
         NEW l \in {"wake", "wakefail"}, pc' = [pc EXCEPT ![t] = l],
         word' = [word EXCEPT ![Control] = v], old' = old, completed' = completed
  PROVE  OInv'
<1>1. word' \in [Addrs -> Nat] /\ word'[Control] = v
  BY OnceAssumption DEF OInv
<1>2. pc' \in [Threads -> OncePcs] /\ pc'[t] = l /\ \A u \in Threads \ {t} : pc'[u] = pc[u]
  BY DEF OInv, OncePcs
<1>3. \A u \in Threads : ~Initialising(u)'
  BY <1>2 DEF OInv, Initialising
<1>4. completed = IF v = 2 THEN 1 ELSE 0
  BY DEF OInv
<1>5. ControlWord(word[Control])'
  BY <1>1, <1>3, <1>4 DEF ControlWord
<1> QED BY <1>1, <1>2, <1>3, <1>5 DEF OInv, Initialising

LEMMA OnceStepKeeps ==
  ASSUME OInv, NEW t \in Threads, Step(t)
  PROVE  OInv'
<1>1. CASE LoadControl(t)
  BY <1>1, LoadControlKeeps
<1>2. CASE CasControl(t)
  BY <1>2, CasControlKeeps
<1>3. CASE Wait(t)
  <2>1. pc[t] = "wait" /\ pc' = [pc EXCEPT ![t] = "sleep"] /\ word' = word /\ old' = old /\ completed' = completed
    BY <1>3 DEF Wait, Goto, FutexWait, Enter, EnterFails
  <2> QED BY <2>1, OnceMoves DEF OncePcs
<1>4. CASE Woken(t)
  <2>1. pc[t] = "sleep" /\ word' = word /\ old' = old /\ completed' = completed
    BY <1>4 DEF Woken, PickUp
  <2>2. PICK l \in {"load", "idle"} : pc' = [pc EXCEPT ![t] = l]
    BY <1>4 DEF Woken, Goto, Answer
  <2> QED BY <2>1, <2>2, OnceMoves DEF OncePcs
<1>5. CASE Invoke(t)
  BY <1>5, InvokeKeeps
<1>6. CASE Publish(t)
  <2>1. /\ pc[t] = "publish" /\ pc' = [pc EXCEPT ![t] = "wake"] /\ word' = [word EXCEPT ![Control] = 2]
        /\ old' = old /\ completed' = completed
    BY <1>6 DEF Publish, Assign, AfterSuccess, Goto
  <2> QED BY <2>1, StoresOutcome
<1>7. CASE Restore(t)
  <2>1. /\ pc[t] = "restore" /\ pc' = [pc EXCEPT ![t] = "wakefail"] /\ word' = [word EXCEPT ![Control] = 0]
        /\ old' = old /\ completed' = completed
    BY <1>7 DEF Restore, Assign, AfterFailure, Goto
  <2>2. 0 \in {0, 2} /\ "wakefail" \in {"wake", "wakefail"} /\ (0 = 2 <=> pc[t] = "publish")
    BY <2>1
  <2> QED BY <2>1, <2>2, StoresOutcome
<1>8. CASE WakeAll(t)
  <2>1. /\ pc[t] \in {"wake", "wakefail"} /\ pc' = [pc EXCEPT ![t] = "idle"]
        /\ word' = word /\ old' = old /\ completed' = completed
    BY <1>8 DEF WakeAll, Answer, Goto, Wake
  <2> QED BY <2>1, OnceMoves DEF OncePcs
<1> QED BY <1>1, <1>2, <1>3, <1>4, <1>5, <1>6, <1>7, <1>8 DEF Step

LEMMA OnceNextKeeps == OInv /\ [OnceNext]_vars => OInv'
<1> SUFFICES ASSUME OInv, [OnceNext]_vars PROVE OInv'
  OBVIOUS
<1>1. ASSUME NEW t \in Threads, Call(t) PROVE OInv'
  <2>1. pc[t] = "idle" /\ pc' = [pc EXCEPT ![t] = "load"] /\ word' = word /\ old' = old /\ completed' = completed
    BY <1>1 DEF Call, Goto
  <2> QED BY <2>1, OnceMoves DEF OncePcs
<1>2. CASE (\E t \in Threads : HostStep(t)) \/ Shutdown \/ UNCHANGED vars
  <2>1. word' = word /\ pc' = pc /\ old' = old /\ completed' = completed
    BY <1>2 DEF HostStep, Shutdown, onceVars, vars, futexVars,
       ResumeNotified, SpuriousWakeup, CancelAll
  <2> QED BY <2>1 DEF OInv, ControlWord, Initialising
<1> QED BY <1>1, <1>2, OnceStepKeeps DEF OnceNext

LEMMA OnceInitHolds == OnceInit => OInv
BY OnceAssumption DEF OnceInit, OInv, ControlWord, Initialising, OncePcs

(* The control word is right about who initialises and who has.            *)
THEOREM OnceInvariance == OnceSpec => []OInv
BY OnceInitHolds, OnceNextKeeps, PTL DEF OnceSpec

(* The init function runs in one thread at a time, again only after it has *)
(* failed, and never after it has succeeded, although the word goes back   *)
(* to 0 for the next caller (agr_bionic_sync.cpp, agr_bionic_once).        *)
THEOREM InitialisedOnce == OnceSpec => []InitOnce
<1>1. OInv => InitOnce
  BY DEF OInv, ControlWord, InitOnce, Initialising
<1> QED BY <1>1, OnceInvariance, PTL

=============================================================================
