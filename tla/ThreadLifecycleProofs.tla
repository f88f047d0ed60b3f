------------------------ MODULE ThreadLifecycleProofs ------------------------
(***************************************************************************)
(* Theorems about ThreadLifecycle, for any number of threads, any blocks   *)
(* and any number of refused host calls: every host handle is given back   *)
(* once, a joiner's record outlives the joiner's wait, and a shutdown that *)
(* is over has left no worker behind, and no host thread but those whose   *)
(* join the host refused it.                                               *)
(*                                                                         *)
(* The three are one argument.  A record owns its host handle as long as   *)
(* it says so; only the one joiner whose claim it carries, or the teardown *)
(* of a record without a claim, takes both away; and a worker that can     *)
(* still run guest code has a record.  What breaks that for a moment is    *)
(* the teardown between its host join and its erase: Erasing names the     *)
(* record whose handle is already spent, or was refused and is given up.   *)
(***************************************************************************)
EXTENDS ThreadLifecycle, TLAPS

Recs == [detached : BOOLEAN, joined : BOOLEAN, zombie : BOOLEAN, hasHost : BOOLEAN,
         block : Blocks \cup {NoBlock}]
Ends == {"none", "live", "joined", "detached"}
MainPlaces == {"guest", "joinwait", "hostjoin", "shutdown", "reap", "erase", "done"}
WorkerPlaces == {"none", "starting", "guest", "exiting", "over", "joinwait", "hostjoin"}
Places(t) == IF t = Main THEN MainPlaces ELSE WorkerPlaces

(* Handles are given out in order and never again.                         *)
RecTypes ==
    /\ Live \subseteq Threads /\ \A h \in Live : rec[h] \in Recs
    /\ next \in Nat /\ Main < next /\ \A h \in Live : h < next
PcTypes == pc \in [Threads -> MainPlaces \cup WorkerPlaces] /\ \A t \in Threads : pc[t] \in Places(t)
HostTypes == host \in [Threads -> Ends] /\ unjoined \subseteq Threads \ {Main}
LTypes == RecTypes /\ PcTypes /\ HostTypes /\ target \in [Threads -> Threads]

Erasing(h) == pc[Main] = "erase" /\ target[Main] = h

(* What a record says is true of its thread and of its host handle.        *)
RecordOf(h) ==
    /\ rec[h].hasHost <=> ~rec[h].detached
    /\ rec[h].joined => ~rec[h].detached
    /\ rec[h].zombie => pc[h] = "over"
    /\ rec[h].hasHost /\ ~Erasing(h) => host[h] = "live"

(* A worker with code to run has a record, and so has one with a host      *)
(* handle to give back, unless the teardown was refused the join of it:    *)
(* that one's record is on its way out, or gone, with the handle alive.    *)
ThreadOf(t) ==
    /\ pc[t] \notin {"none", "over"} => t \in Live
    /\ host[t] = "live" => t \in unjoined \/ (t \in Live /\ rec[t].hasHost /\ ~Erasing(t))
    /\ t \in unjoined => closing /\ host[t] = "live" /\ (t \notin Live \/ Erasing(t))

(* The record the teardown picked stays its own until it is erased.        *)
Joins(t) == pc[t] \in {"joinwait", "hostjoin"}
TeardownOf ==
    /\ pc[Main] \in {"shutdown", "reap", "erase", "done"} => closing
    /\ pc[Main] \in {"reap", "erase"} =>
          /\ target[Main] \in Live \ {Main}
          /\ rec[target[Main]].zombie /\ ~rec[target[Main]].joined
          /\ pc[Main] = "reap" => rec[target[Main]].hasHost
    /\ pc[Main] = "done" => Live \subseteq {Main}

Records == \A h \in Live : RecordOf(h)
Workings == \A t \in Threads \ {Main} : ThreadOf(t)

IInv == LTypes /\ ~misused /\ Records /\ Workings /\ JoinerHasRecord /\ TeardownOf

-----------------------------------------------------------------------------
(* One part of the state moves                                             *)

LEMMA MainIs == Main \in Threads /\ Main = 1 /\ Threads \subseteq Nat
BY LifecycleAssumption DEF Main, Threads

LEMMA Goes ==
  ASSUME PcTypes, NEW t \in Threads, NEW l \in Places(t), Goto(t, l)
  PROVE  PcTypes' /\ pc'[t] = l /\ \A u \in Threads \ {t} : pc'[u] = pc[u]
BY MainIs DEF PcTypes, Goto, Places, MainPlaces, WorkerPlaces

LEMMA Sets ==
  ASSUME RecTypes, NEW h \in Live, NEW r \in Recs, Set(h, r), next' = next
  PROVE  /\ RecTypes' /\ Live' = Live /\ rec'[h] = r
         /\ \A x \in Live \ {h} : rec'[x] = rec[x]
BY DEF RecTypes, Set, Live

LEMMA Drops ==
  ASSUME RecTypes, NEW h, Drop(h), next' = next
  PROVE  /\ RecTypes' /\ Live' = Live \ {h}
         /\ \A x \in Live \ {h} : rec'[x] = rec[x]
BY DEF RecTypes, Drop, Live

LEMMA Adds ==
  ASSUME RecTypes, next \in Threads, NEW r \in Recs,
         rec' = [x \in Live \cup {next} |-> IF x = next THEN r ELSE rec[x]], next' = next + 1
  PROVE  /\ RecTypes' /\ Live' = Live \cup {next} /\ next \notin Live /\ rec'[next] = r
         /\ \A x \in Live : rec'[x] = rec[x]
<1>1. next \notin Live
  BY MainIs DEF RecTypes
<1>2. Live' = Live \cup {next}
  BY DEF Live
<1>3. rec'[next] = r /\ \A x \in Live : rec'[x] = rec[x]
  BY <1>1
<1>4. \A x \in Live' : x \in Threads /\ rec'[x] \in Recs /\ x < next'
  BY <1>2, <1>3, MainIs DEF RecTypes
<1>5. next' \in Nat /\ Main < next'
  BY MainIs DEF RecTypes
<1> QED BY <1>1, <1>2, <1>3, <1>4, <1>5 DEF RecTypes

LEMMA Consumes ==
  ASSUME HostTypes, NEW h \in Threads, NEW how \in Ends, Consume(h, how), unjoined' = unjoined
  PROVE  /\ HostTypes' /\ host'[h] = how /\ \A x \in Threads \ {h} : host'[x] = host[x]
         /\ misused' <=> (misused \/ host[h] # "live")
BY DEF HostTypes, Consume

(* The table of records as it stands.                                      *)
LEMMA Stays ==
  ASSUME RecTypes, rec' = rec, next' = next
  PROVE  RecTypes' /\ Live' = Live /\ \A x \in Live : rec'[x] = rec[x]
BY DEF RecTypes, Live

LEMMA RecordIs ==
  ASSUME NEW d \in BOOLEAN
  PROVE  /\ Record(d, NoBlock) \in Recs
         /\ Record(d, NoBlock).detached = d /\ Record(d, NoBlock).joined = FALSE
         /\ Record(d, NoBlock).zombie = FALSE /\ Record(d, NoBlock).hasHost = ~d
BY DEF Record, Recs

LEMMA Parts ==
  ASSUME IInv
  PROVE  /\ RecTypes /\ PcTypes /\ HostTypes /\ target \in [Threads -> Threads]
         /\ \A h \in Live : h \in Threads /\ rec[h] \in Recs
BY DEF IInv, LTypes, RecTypes

-----------------------------------------------------------------------------
(* pthread_create                                                          *)

LEMMA CreateRefusedKeeps ==
  ASSUME IInv, NEW t \in Threads, CreateRefused(t)
  PROVE  IInv'
BY DEF CreateRefused, IInv, LTypes, RecTypes, PcTypes, HostTypes, Records, Workings, RecordOf, ThreadOf,
       Erasing, JoinerHasRecord, TeardownOf, Live

(* A new record with r, the thread started and its handle in state how.    *)
LEMMA CreateAdds ==
  ASSUME IInv, ~closing, closing' = closing, NEW n \in Threads, n = next, next' = next + 1, target' = target,
         misused' = misused, unjoined' = unjoined, NEW r \in Recs, NEW how \in Ends,
         rec' = [x \in Live \cup {n} |-> IF x = n THEN r ELSE rec[x]],
         Goto(n, "starting"), host' = [host EXCEPT ![n] = how],
         ~r.joined, ~r.zombie, r.hasHost <=> ~r.detached, r.hasHost <=> how = "live"
  PROVE  IInv'
<1>1. /\ RecTypes' /\ Live' = Live \cup {n} /\ n \notin Live /\ rec'[n] = r
      /\ \A x \in Live : rec'[x] = rec[x]
  BY Adds, Parts
<1>2. n # Main /\ Main \in Threads
  BY MainIs, Parts DEF RecTypes
<1>3. PcTypes' /\ pc'[n] = "starting" /\ \A u \in Threads \ {n} : pc'[u] = pc[u]
  BY <1>2, Goes, Parts DEF Places, WorkerPlaces
<1>4. HostTypes' /\ host'[n] = how /\ \A u \in Threads \ {n} : host'[u] = host[u]
  BY Parts DEF HostTypes
<1>5. pc[Main] \notin {"shutdown", "reap", "erase", "done"} /\ pc'[Main] = pc[Main]
  BY <1>2, <1>3 DEF IInv, TeardownOf
<1>6. Records'
  <2>1. RecordOf(n)'
    BY <1>1, <1>3, <1>4 DEF RecordOf
  <2>2. ASSUME NEW h \in Live PROVE RecordOf(h)'
    BY <1>1, <1>3, <1>4, <1>5, Parts DEF IInv, Records, RecordOf, Erasing
  <2> QED BY <1>1, <2>1, <2>2 DEF Records
<1>7. Workings'
  <2>0. n \notin unjoined
    BY <1>2 DEF IInv, Workings, ThreadOf
  <2>1. ThreadOf(n)'
    BY <1>1, <1>3, <1>4, <1>5, <2>0 DEF ThreadOf, Erasing
  <2>2. ASSUME NEW u \in Threads \ {Main, n} PROVE ThreadOf(u)'
    BY <1>1, <1>3, <1>4, <1>5 DEF IInv, Workings, ThreadOf, Erasing
  <2> QED BY <2>1, <2>2 DEF Workings
<1>8. JoinerHasRecord'
  BY <1>1, <1>3, Parts DEF IInv, JoinerHasRecord
<1>9. TeardownOf'
  BY <1>5 DEF TeardownOf
<1> QED BY <1>1, <1>3, <1>4, <1>6, <1>7, <1>8, <1>9, Parts DEF IInv, LTypes

LEMMA CreateKeeps ==
  ASSUME IInv, NEW t \in Threads, Create(t)
  PROVE  IInv'
<1>1. /\ ~closing /\ closing' = closing /\ next \in Threads /\ next' = next + 1 /\ target' = target
      /\ misused' = misused /\ unjoined' = unjoined
  BY MainIs, Parts, LifecycleAssumption DEF Create, RecTypes, Threads
<1>2. CASE \E detached \in BOOLEAN : CreateOk(t, detached)
  <2> PICK d \in BOOLEAN : CreateOk(t, d)
    BY <1>2
  <2> DEFINE r == Record(d, NoBlock)
             how == IF d THEN "detached" ELSE "live"
  <2>1. /\ rec' = [x \in Live \cup {next} |-> IF x = next THEN r ELSE rec[x]]
        /\ Goto(next, "starting") /\ host' = [host EXCEPT ![next] = how]
    BY DEF CreateOk, Goto
  <2>2. r \in Recs /\ how \in Ends /\ ~r.joined /\ ~r.zombie /\ (r.hasHost <=> ~r.detached)
        /\ (r.hasHost <=> how = "live")
    BY RecordIs DEF Ends
  <2> HIDE DEF r, how
  <2> QED BY <1>1, <2>1, <2>2, CreateAdds
<1>3. CASE CreateHostFails(t)
  <2>1. rec' = rec /\ pc' = pc /\ host' = host /\ Live' = Live
    BY <1>3 DEF CreateHostFails, Live
  <2>2. RecTypes'
    <3>1. next' \in Nat /\ Main < next'
      BY <1>1, Parts, MainIs DEF RecTypes
    <3>2. ASSUME NEW h \in Live PROVE h < next'
      <4>1. h \in Nat /\ h < next /\ next \in Nat
        BY Parts, MainIs DEF RecTypes
      <4> QED BY <4>1, <1>1
    <3> QED BY <2>1, <3>1, <3>2, Parts DEF RecTypes
  <2> QED BY <1>1, <2>1, <2>2 DEF IInv, LTypes, PcTypes, HostTypes, Records, Workings, RecordOf, ThreadOf,
       Erasing, JoinerHasRecord, TeardownOf
<1>4. CASE CreateDetachFails(t)
  <2> DEFINE r == Record(FALSE, NoBlock)
  <2>1. /\ rec' = [x \in Live \cup {next} |-> IF x = next THEN r ELSE rec[x]]
        /\ Goto(next, "starting") /\ host' = [host EXCEPT ![next] = "live"]
    BY <1>4 DEF CreateDetachFails, Goto
  <2>2. r \in Recs /\ "live" \in Ends /\ ~r.joined /\ ~r.zombie /\ (r.hasHost <=> ~r.detached) /\ r.hasHost
    BY RecordIs DEF Ends
  <2> HIDE DEF r
  <2> QED BY <1>1, <2>1, <2>2, CreateAdds
<1> QED BY <1>2, <1>3, <1>4 DEF Create

-----------------------------------------------------------------------------
(* The worker                                                              *)

LEMMA BindKeeps ==
  ASSUME IInv, NEW t \in Threads, Bind(t)
  PROVE  IInv'
<1>1. pc[t] = "starting" /\ Main \in Threads /\ t # Main /\ t \in Live
  BY MainIs, Parts DEF Bind, PcTypes, Places, MainPlaces, IInv, Workings, ThreadOf
<1>2. /\ closing' = closing /\ next' = next /\ target' = target /\ host' = host /\ misused' = misused
      /\ unjoined' = unjoined
      /\ Goto(t, "guest")
  BY DEF Bind
<1>3. PICK b \in Blocks : Set(t, [rec[t] EXCEPT !.block = b])
  BY DEF Bind, FreeBlocks, Set
<1> DEFINE r == [rec[t] EXCEPT !.block = b]
<1>4. r \in Recs /\ r.detached = rec[t].detached /\ r.joined = rec[t].joined
      /\ r.zombie = rec[t].zombie /\ r.hasHost = rec[t].hasHost
  BY <1>1, Parts DEF Recs
<1>5. Set(t, r)
  BY <1>3
<1> HIDE DEF r
<1>6. /\ RecTypes' /\ Live' = Live /\ rec'[t] = r /\ \A x \in Live \ {t} : rec'[x] = rec[x]
  BY <1>1, <1>2, <1>4, <1>5, Sets, Parts
<1>7. PcTypes' /\ pc'[t] = "guest" /\ \A u \in Threads \ {t} : pc'[u] = pc[u]
  BY <1>1, <1>2, Goes, Parts DEF Places, WorkerPlaces
<1>8. Records'
  BY <1>1, <1>2, <1>4, <1>6, <1>7, Parts DEF IInv, Records, RecordOf, Erasing
<1>9. Workings'
  BY <1>1, <1>2, <1>4, <1>6, <1>7, Parts DEF IInv, Workings, ThreadOf, Erasing
<1>10. JoinerHasRecord'
  BY <1>1, <1>2, <1>4, <1>6, <1>7, Parts DEF IInv, JoinerHasRecord
<1>11. TeardownOf'
  BY <1>1, <1>2, <1>4, <1>6, <1>7, Parts DEF IInv, TeardownOf
<1> QED BY <1>2, <1>6, <1>7, <1>8, <1>9, <1>10, <1>11, Parts DEF IInv, LTypes, HostTypes

(* A worker's step that leaves the records alone and ends at l.            *)
LEMMA WorkerMoves ==
  ASSUME IInv, NEW t \in Threads, t # Main, pc[t] \in {"starting", "guest"}, Goto(t, "exiting"),
         rec' = rec, next' = next, closing' = closing, target' = target, host' = host, misused' = misused,
         unjoined' = unjoined
  PROVE  IInv'
<1>1. Main \in Threads /\ t \in Live
  BY MainIs DEF IInv, Workings, ThreadOf
<1>2. RecTypes' /\ Live' = Live /\ \A x \in Live : rec'[x] = rec[x]
  BY Stays, Parts
<1>3. PcTypes' /\ pc'[t] = "exiting" /\ \A u \in Threads \ {t} : pc'[u] = pc[u]
  BY Goes, Parts DEF Places, WorkerPlaces
<1>4. Records' /\ Workings'
  BY <1>1, <1>2, <1>3, Parts DEF IInv, Records, RecordOf, Workings, ThreadOf, Erasing
<1>5. JoinerHasRecord' /\ TeardownOf'
  BY <1>1, <1>2, <1>3, Parts DEF IInv, JoinerHasRecord, TeardownOf
<1> QED BY <1>2, <1>3, <1>4, <1>5, Parts DEF IInv, LTypes, HostTypes

LEMMA BindFailsKeeps ==
  ASSUME IInv, NEW t \in Threads, BindFails(t)
  PROVE  IInv'
<1>1. t # Main
  BY MainIs, Parts DEF BindFails, PcTypes, Places, MainPlaces
<1> QED BY <1>1, WorkerMoves DEF BindFails

LEMMA GuestReturnsKeeps ==
  ASSUME IInv, NEW t \in Threads, GuestReturns(t)
  PROVE  IInv'
BY WorkerMoves DEF GuestReturns, InGuest

LEMMA ExitKeeps ==
  ASSUME IInv, NEW t \in Threads, Exit(t)
  PROVE  IInv'
<1>1. pc[t] = "exiting" /\ Main \in Threads /\ t # Main /\ t \in Live /\ ~rec[t].zombie
  BY MainIs, Parts DEF Exit, PcTypes, Places, MainPlaces, IInv, Workings, ThreadOf, Records, RecordOf
<1>2. /\ closing' = closing /\ next' = next /\ target' = target /\ host' = host /\ misused' = misused
      /\ unjoined' = unjoined
      /\ Goto(t, "over")
  BY DEF Exit
<1>3. PcTypes' /\ pc'[t] = "over" /\ \A u \in Threads \ {t} : pc'[u] = pc[u]
  BY <1>1, <1>2, Goes, Parts DEF Places, WorkerPlaces
<1>4. CASE rec[t].detached
  <2>1. RecTypes' /\ Live' = Live \ {t} /\ \A x \in Live \ {t} : rec'[x] = rec[x]
    BY <1>1, <1>2, <1>4, Drops, Parts DEF Exit
  <2>2. Records' /\ Workings'
    BY <1>1, <1>2, <1>3, <1>4, <2>1, Parts DEF IInv, Records, RecordOf, Workings, ThreadOf, Erasing
  <2>3. JoinerHasRecord'
    BY <1>1, <1>2, <1>3, <1>4, <2>1, Parts DEF IInv, Records, RecordOf, JoinerHasRecord
  <2>4. TeardownOf'
    BY <1>1, <1>2, <1>3, <1>4, <2>1, Parts DEF IInv, TeardownOf
  <2> QED BY <1>2, <1>3, <2>1, <2>2, <2>3, <2>4, Parts DEF IInv, LTypes, HostTypes
<1>5. CASE ~rec[t].detached
  <2> DEFINE r == [rec[t] EXCEPT !.zombie = TRUE]
  <2>1. r \in Recs /\ r.detached = rec[t].detached /\ r.joined = rec[t].joined
        /\ r.zombie /\ r.hasHost = rec[t].hasHost
    BY <1>1, Parts DEF Recs
  <2>2. Set(t, r)
    BY <1>1, <1>5 DEF Exit
  <2> HIDE DEF r
  <2>3. RecTypes' /\ Live' = Live /\ rec'[t] = r /\ \A x \in Live \ {t} : rec'[x] = rec[x]
    BY <1>1, <1>2, <2>1, <2>2, Sets, Parts
  <2>4. Records' /\ Workings'
    BY <1>1, <1>2, <1>3, <2>1, <2>3, Parts DEF IInv, Records, RecordOf, Workings, ThreadOf, Erasing
  <2>5. JoinerHasRecord' /\ TeardownOf'
    BY <1>1, <1>2, <1>3, <2>1, <2>3, Parts DEF IInv, JoinerHasRecord, TeardownOf
  <2> QED BY <1>2, <1>3, <2>3, <2>4, <2>5, Parts DEF IInv, LTypes, HostTypes
<1> QED BY <1>4, <1>5

-----------------------------------------------------------------------------
(* Join and detach                                                         *)

(* A record that changes only who claims it.                               *)
LEMMA Claimed ==
  ASSUME NEW q \in Recs, NEW b \in BOOLEAN
  PROVE  LET r == [q EXCEPT !.joined = b] IN
         /\ r \in Recs /\ r.joined = b /\ r.detached = q.detached
         /\ r.zombie = q.zombie /\ r.hasHost = q.hasHost
BY DEF Recs

LEMMA JoinKeeps ==
  ASSUME IInv, NEW t \in Threads, NEW h \in Threads, Join(t, h)
  PROVE  IInv'
<1>1. /\ pc[t] = "guest" /\ Main \in Threads /\ closing' = closing /\ next' = next /\ host' = host
      /\ misused' = misused /\ unjoined' = unjoined
  BY MainIs DEF Join, InGuest
<1>2. CASE JoinRefusal(t, h) # "none"
  BY <1>1, <1>2 DEF Join, IInv, LTypes, RecTypes, PcTypes, HostTypes, Records, Workings, RecordOf, ThreadOf,
       Erasing, JoinerHasRecord, TeardownOf, Live
<1>3. CASE JoinRefusal(t, h) = "none"
  <2>1. h \in Live /\ ~closing /\ ~rec[h].detached /\ ~rec[h].joined
    BY <1>3 DEF JoinRefusal
  <2>2. PICK l \in {"joinwait", "hostjoin"} : Goto(t, l)
    BY <1>3 DEF Join
  <2> DEFINE r == [rec[h] EXCEPT !.joined = TRUE]
  <2>3. r \in Recs /\ r.joined /\ r.detached = rec[h].detached /\ r.zombie = rec[h].zombie
        /\ r.hasHost = rec[h].hasHost
    BY <2>1, Claimed, Parts
  <2>4. Set(h, r) /\ target' = [target EXCEPT ![t] = h]
    BY <1>3 DEF Join
  <2> HIDE DEF r
  <2>5. RecTypes' /\ Live' = Live /\ rec'[h] = r /\ \A x \in Live \ {h} : rec'[x] = rec[x]
    BY <1>1, <2>1, <2>3, <2>4, Sets, Parts
  <2>6. PcTypes' /\ pc'[t] = l /\ \A u \in Threads \ {t} : pc'[u] = pc[u]
    BY <2>2, Goes, Parts DEF Places, WorkerPlaces, MainPlaces
  <2>7. target' \in [Threads -> Threads] /\ target'[t] = h /\ \A u \in Threads \ {t} : target'[u] = target[u]
    BY <2>4, Parts
  <2>8. pc'[Main] \notin {"shutdown", "reap", "erase", "done"} /\ pc[Main] # "erase"
    BY <1>1, <2>1, <2>6 DEF IInv, TeardownOf
  <2>9. Records' /\ Workings'
    BY <1>1, <2>1, <2>3, <2>5, <2>6, <2>8, Parts
       DEF IInv, Records, RecordOf, Workings, ThreadOf, Erasing
  <2>10. JoinerHasRecord'
    BY <1>1, <2>1, <2>3, <2>5, <2>6, <2>7, Parts DEF IInv, JoinerHasRecord
  <2>11. TeardownOf'
    BY <2>8 DEF TeardownOf
  <2> QED BY <1>1, <2>5, <2>6, <2>7, <2>9, <2>10, <2>11, Parts DEF IInv, LTypes, HostTypes
<1> QED BY <1>2, <1>3

(* A thread that ends its join, at l, and may give its claim back.         *)
LEMMA JoinEnds ==
  ASSUME IInv, NEW t \in Threads, pc[t] \in {"joinwait", "hostjoin"}, Goto(t, "guest"),
         Set(target[t], Unclaimed(rec[target[t]])),
         next' = next, closing' = closing, target' = target, host' = host, misused' = misused,
         unjoined' = unjoined
  PROVE  IInv'
<1> DEFINE h == target[t]
           r == Unclaimed(rec[h])
<1>1. /\ h \in Live /\ Main \in Threads /\ rec[h].joined
      /\ \A u \in Threads : Joins(u) /\ target[u] = h => u = t
  BY MainIs DEF IInv, JoinerHasRecord, Joins
<1>2. r \in Recs /\ ~r.joined /\ r.detached = rec[h].detached /\ r.zombie = rec[h].zombie
      /\ r.hasHost = rec[h].hasHost
  BY <1>1, Claimed, Parts DEF Unclaimed
<1>3. Set(h, r)
  OBVIOUS
<1> HIDE DEF h, r
<1>4. RecTypes' /\ Live' = Live /\ rec'[h] = r /\ \A x \in Live \ {h} : rec'[x] = rec[x]
  BY <1>1, <1>2, <1>3, Sets, Parts
<1>5. PcTypes' /\ pc'[t] = "guest" /\ \A u \in Threads \ {t} : pc'[u] = pc[u]
  BY Goes, Parts DEF Places, WorkerPlaces, MainPlaces
<1>6. Records' /\ Workings'
  BY <1>1, <1>2, <1>4, <1>5, Parts DEF IInv, Records, RecordOf, Workings, ThreadOf, Erasing
<1>7. JoinerHasRecord'
  BY <1>1, <1>2, <1>4, <1>5, Parts DEF IInv, JoinerHasRecord, Joins
<1>8. TeardownOf'
  BY <1>1, <1>2, <1>4, <1>5, Parts DEF IInv, TeardownOf
<1> QED BY <1>4, <1>5, <1>6, <1>7, <1>8, Parts DEF IInv, LTypes, HostTypes

LEMMA JoinWakesKeeps ==
  ASSUME IInv, NEW t \in Threads, JoinWakes(t)
  PROVE  IInv'
<1>1. /\ pc[t] = "joinwait" /\ Main \in Threads /\ closing' = closing /\ next' = next /\ host' = host
      /\ misused' = misused /\ unjoined' = unjoined /\ target' = target /\ target[t] \in Live
  BY MainIs DEF JoinWakes, IInv, JoinerHasRecord
<1>2. CASE closing
  BY <1>1, <1>2, JoinEnds DEF JoinWakes
<1>3. CASE ~closing /\ rec' = rec /\ Goto(t, "hostjoin")
  <2>1. rec' = rec /\ Goto(t, "hostjoin")
    BY <1>3
  <2>2. PcTypes' /\ pc'[t] = "hostjoin" /\ \A u \in Threads \ {t} : pc'[u] = pc[u]
    BY <2>1, Goes, Parts DEF Places, WorkerPlaces, MainPlaces
  <2>3. RecTypes' /\ Live' = Live
    BY <1>1, <2>1, Stays, Parts
  <2>4. Records' /\ Workings'
    BY <1>1, <2>1, <2>2, <2>3, Parts DEF IInv, Records, RecordOf, Workings, ThreadOf, Erasing
  <2>5. JoinerHasRecord' /\ TeardownOf'
    BY <1>1, <2>1, <2>2, <2>3, Parts DEF IInv, JoinerHasRecord, TeardownOf
  <2> QED BY <1>1, <2>2, <2>3, <2>4, <2>5, Parts DEF IInv, LTypes, HostTypes
<1>4. CASE ~closing /\ rec' = rec /\ pc' = pc
  BY <1>1, <1>4 DEF IInv, LTypes, RecTypes, PcTypes, HostTypes, Records, Workings, RecordOf, ThreadOf,
       Erasing, JoinerHasRecord, TeardownOf, Live
<1> QED BY <1>2, <1>3, <1>4 DEF JoinWakes

LEMMA HostJoinKeeps ==
  ASSUME IInv, NEW t \in Threads, HostJoin(t)
  PROVE  IInv'
<1> DEFINE h == target[t]
<1>1. /\ h \in Live /\ Main \in Threads /\ rec[h].joined
      /\ \A u \in Threads : Joins(u) /\ target[u] = h => u = t
  BY MainIs DEF HostJoin, IInv, JoinerHasRecord, Joins
<1>2. /\ pc[t] = "hostjoin" /\ pc[h] = "over" /\ Goto(t, "guest")
      /\ next' = next /\ closing' = closing /\ target' = target /\ unjoined' = unjoined
  BY DEF HostJoin
<1>3. CASE Consume(h, "joined") /\ Forget(h)
  <2>1. ~Erasing(h) /\ host[h] = "live" /\ h \in Threads /\ h # Main
    <3>1. ~Erasing(h)
      BY <1>1 DEF IInv, TeardownOf, Erasing
    <3>2. host[h] = "live"
      BY <1>1, <3>1, Parts DEF IInv, Records, RecordOf
    <3>3. h # Main
      BY <1>2, Parts, MainIs DEF PcTypes, Places, MainPlaces
    <3> QED BY <1>1, <3>1, <3>2, <3>3, Parts
  <2>2. Drop(h)
    BY <1>1, <1>3 DEF Forget
  <2> HIDE DEF h
  <2>3. RecTypes' /\ Live' = Live \ {h} /\ \A x \in Live \ {h} : rec'[x] = rec[x]
    BY <1>2, <2>2, Drops, Parts
  <2>4. PcTypes' /\ pc'[t] = "guest" /\ \A u \in Threads \ {t} : pc'[u] = pc[u]
    BY <1>2, Goes, Parts DEF Places, WorkerPlaces, MainPlaces
  <2>5. HostTypes' /\ host'[h] = "joined" /\ (\A x \in Threads \ {h} : host'[x] = host[x]) /\ ~misused'
    BY <1>2, <1>3, <2>1, Consumes, Parts DEF Ends, IInv
  <2>6. Records'
    BY <1>1, <1>2, <2>1, <2>3, <2>4, <2>5, Parts DEF IInv, Records, RecordOf, Erasing
  <2>7. Workings'
    BY <1>1, <1>2, <2>1, <2>3, <2>4, <2>5, Parts DEF IInv, Workings, ThreadOf, Erasing
  <2>8. JoinerHasRecord'
    BY <1>1, <1>2, <2>3, <2>4, Parts DEF IInv, JoinerHasRecord, Joins
  <2>9. TeardownOf'
    BY <1>1, <1>2, <2>3, <2>4, Parts DEF IInv, TeardownOf
  <2> QED BY <1>2, <2>3, <2>4, <2>5, <2>6, <2>7, <2>8, <2>9, Parts DEF IInv, LTypes
<1>4. CASE Set(h, Unclaimed(rec[h])) /\ host' = host /\ misused' = misused
      /\ unjoined' = unjoined
  BY <1>2, <1>4, JoinEnds
<1> QED BY <1>1, <1>3, <1>4 DEF HostJoin

LEMMA DetachKeeps ==
  ASSUME IInv, NEW t \in Threads, NEW h \in Threads, Detach(t, h)
  PROVE  IInv'
<1>1. /\ next' = next /\ closing' = closing /\ target' = target /\ pc' = pc /\ Main \in Threads
      /\ unjoined' = unjoined
  BY MainIs DEF Detach
<1>2. CASE UNCHANGED <<rec, host, misused>>
  BY <1>1, <1>2 DEF IInv, LTypes, RecTypes, PcTypes, HostTypes, Records, Workings, RecordOf, ThreadOf,
       Erasing, JoinerHasRecord, TeardownOf, Live
<1>3. CASE /\ DetachRefusal(h) = "none" /\ Consume(h, "detached")
           /\ IF rec[h].zombie THEN Drop(h)
              ELSE Set(h, [rec[h] EXCEPT !.detached = TRUE, !.hasHost = FALSE])
  <2>1. h \in Live /\ ~closing /\ ~rec[h].detached /\ ~rec[h].joined /\ rec[h].hasHost
    BY <1>3, Parts DEF DetachRefusal, IInv, Records, RecordOf
  <2>2. pc[Main] \notin {"shutdown", "reap", "erase", "done"} /\ ~Erasing(h)
    BY <2>1 DEF IInv, TeardownOf, Erasing
  <2>3. host[h] = "live"
    BY <2>1, <2>2 DEF IInv, Records, RecordOf
  <2>4. HostTypes' /\ host'[h] = "detached" /\ (\A x \in Threads \ {h} : host'[x] = host[x]) /\ ~misused'
    BY <1>1, <1>3, <2>3, Consumes, Parts DEF Ends, IInv
  <2>5. TeardownOf'
    BY <1>1, <2>2 DEF TeardownOf
  <2>6. CASE rec[h].zombie
    <3>1. RecTypes' /\ Live' = Live \ {h} /\ \A x \in Live \ {h} : rec'[x] = rec[x]
      BY <1>1, <1>3, <2>6, Drops, Parts
    <3>2. pc[h] = "over"
      BY <2>1, <2>6 DEF IInv, Records, RecordOf
    <3>3. Records' /\ Workings'
      BY <1>1, <2>1, <2>4, <3>1, <3>2, Parts DEF IInv, Records, RecordOf, Workings, ThreadOf, Erasing
    <3>4. JoinerHasRecord'
      BY <1>1, <2>1, <3>1, Parts DEF IInv, JoinerHasRecord
    <3> QED BY <1>1, <2>4, <2>5, <3>1, <3>3, <3>4, Parts DEF IInv, LTypes, PcTypes
  <2>7. CASE ~rec[h].zombie
    <3> DEFINE r == [rec[h] EXCEPT !.detached = TRUE, !.hasHost = FALSE]
    <3>1. r \in Recs /\ r.detached /\ ~r.joined /\ ~r.zombie /\ ~r.hasHost
      BY <2>1, <2>7, Parts DEF Recs
    <3>2. Set(h, r)
      BY <1>3, <2>7
    <3> HIDE DEF r
    <3>3. RecTypes' /\ Live' = Live /\ rec'[h] = r /\ \A x \in Live \ {h} : rec'[x] = rec[x]
      BY <1>1, <2>1, <3>1, <3>2, Sets, Parts
    <3>4. Records' /\ Workings'
      BY <1>1, <2>1, <2>2, <2>4, <3>1, <3>3, Parts DEF IInv, Records, RecordOf, Workings, ThreadOf, Erasing
    <3>5. JoinerHasRecord'
      BY <1>1, <2>1, <3>3, Parts DEF IInv, JoinerHasRecord
    <3> QED BY <1>1, <2>4, <2>5, <3>3, <3>4, <3>5, Parts DEF IInv, LTypes, PcTypes
  <2> QED BY <2>6, <2>7
<1> QED BY <1>2, <1>3 DEF Detach

-----------------------------------------------------------------------------
(* The teardown                                                            *)

LEMMA ShutdownBeginsKeeps ==
  ASSUME IInv, ShutdownBegins
  PROVE  IInv'
<1>1. /\ pc[Main] = "guest" /\ closing' /\ next' = next /\ target' = target /\ host' = host /\ rec' = rec
      /\ misused' = misused /\ unjoined' = unjoined /\ Goto(Main, "shutdown") /\ Main \in Threads
  BY MainIs DEF ShutdownBegins, InGuest
<1>2. PcTypes' /\ pc'[Main] = "shutdown" /\ \A u \in Threads \ {Main} : pc'[u] = pc[u]
  BY <1>1, Goes, Parts DEF Places, MainPlaces
<1>3. RecTypes' /\ Live' = Live
  BY <1>1, Stays, Parts
<1>4. Records' /\ Workings'
  BY <1>1, <1>2, <1>3, Parts DEF IInv, Records, RecordOf, Workings, ThreadOf, Erasing
<1>5. JoinerHasRecord' /\ TeardownOf'
  BY <1>1, <1>2, <1>3, Parts DEF IInv, JoinerHasRecord, TeardownOf
<1> QED BY <1>1, <1>2, <1>3, <1>4, <1>5, Parts DEF IInv, LTypes, HostTypes

LEMMA ShutdownPicksKeeps ==
  ASSUME IInv, ShutdownPicks
  PROVE  IInv'
<1>1. PICK h \in Workers : /\ Reapable(h) /\ target' = [target EXCEPT ![Main] = h]
                           /\ Goto(Main, IF rec[h].hasHost THEN "reap" ELSE "erase")
  BY DEF ShutdownPicks
<1>2. /\ pc[Main] = "shutdown" /\ closing' = closing /\ next' = next /\ host' = host /\ rec' = rec
      /\ misused' = misused /\ unjoined' = unjoined /\ Main \in Threads
  BY MainIs DEF ShutdownPicks, Looking
<1> DEFINE l == IF rec[h].hasHost THEN "reap" ELSE "erase"
<1>3. PcTypes' /\ pc'[Main] = l /\ \A u \in Threads \ {Main} : pc'[u] = pc[u]
  <2>1. l \in Places(Main) /\ Goto(Main, l)
    BY <1>1 DEF Places, MainPlaces
  <2> QED BY <1>2, <2>1, Goes, Parts
<1>4. h \in Live \ {Main} /\ h \in Threads /\ rec[h].zombie /\ ~rec[h].joined
  BY <1>1, Parts DEF Workers, Reapable
<1>5. target' \in [Threads -> Threads] /\ target'[Main] = h
      /\ \A u \in Threads \ {Main} : target'[u] = target[u]
  BY <1>1, <1>2, <1>4, Parts
<1>6. RecTypes' /\ Live' = Live
  BY <1>2, Stays, Parts
<1>7. \A u \in Threads \ {Main} : u \in unjoined \/ (host[u] = "live" => rec[u].hasHost /\ u \in Live)
  BY DEF IInv, Workings, ThreadOf
<1>8. Records'
  BY <1>2, <1>3, <1>4, <1>5, <1>6, Parts DEF IInv, Records, RecordOf, Erasing
<1>9. Workings'
  BY <1>2, <1>3, <1>4, <1>5, <1>6, <1>7, Parts DEF IInv, Workings, ThreadOf, Erasing
<1>10. JoinerHasRecord'
  BY <1>2, <1>3, <1>5, <1>6, Parts DEF IInv, JoinerHasRecord
<1>11. TeardownOf'
  BY <1>2, <1>3, <1>4, <1>5, <1>6 DEF IInv, TeardownOf
<1> QED BY <1>2, <1>3, <1>5, <1>6, <1>8, <1>9, <1>10, <1>11, Parts DEF IInv, LTypes, HostTypes

LEMMA ShutdownWaitsKeeps ==
  ASSUME IInv, ShutdownWaits
  PROVE  IInv'
BY DEF ShutdownWaits, IInv, LTypes, RecTypes, PcTypes, HostTypes, Records, Workings, RecordOf, ThreadOf,
       Erasing, JoinerHasRecord, TeardownOf, Live

(* Joined or refused, the record goes next.                                *)
LEMMA ShutdownReapsKeeps ==
  ASSUME IInv, ShutdownReaps
  PROVE  IInv'
<1> DEFINE h == target[Main]
<1>1. /\ pc[Main] = "reap" /\ pc[h] = "over" /\ Goto(Main, "erase")
      /\ rec' = rec /\ next' = next /\ closing' = closing /\ target' = target /\ Main \in Threads
  BY MainIs DEF ShutdownReaps
<1>2. h \in Live /\ h \in Threads /\ h # Main /\ rec[h].zombie /\ ~rec[h].joined /\ rec[h].hasHost
      /\ closing /\ h = target[Main]
  BY <1>1, Parts DEF IInv, TeardownOf
<1>3. \/ Consume(h, "joined") /\ unjoined' = unjoined
      \/ unjoined' = unjoined \cup {h} /\ host' = host /\ misused' = misused
  BY DEF ShutdownReaps
<1> HIDE DEF h
<1>4. host[h] = "live"
  BY <1>1, <1>2 DEF IInv, Records, RecordOf, Erasing
<1>5. /\ HostTypes' /\ ~misused' /\ \A x \in Threads \ {h} : host'[x] = host[x]
      /\ \/ host'[h] = "joined" /\ unjoined' = unjoined
         \/ host'[h] = "live" /\ unjoined' = unjoined \cup {h}
  <2>1. CASE Consume(h, "joined") /\ unjoined' = unjoined
    BY <1>2, <1>4, <2>1, Consumes, Parts DEF Ends, IInv
  <2>2. CASE unjoined' = unjoined \cup {h} /\ host' = host /\ misused' = misused
    BY <1>2, <1>4, <2>2, Parts DEF HostTypes, IInv
  <2> QED BY <1>3, <2>1, <2>2
<1>6. PcTypes' /\ pc'[Main] = "erase" /\ \A u \in Threads \ {Main} : pc'[u] = pc[u]
  BY <1>1, Goes, Parts DEF Places, MainPlaces
<1>7. RecTypes' /\ Live' = Live
  BY <1>1, Stays, Parts
<1>8. h \notin unjoined /\ \A u \in Threads : ~Erasing(u) /\ (Erasing(u)' <=> u = h)
  BY <1>1, <1>2, <1>6 DEF IInv, Workings, ThreadOf, Erasing
<1>9. Records'
  BY <1>1, <1>2, <1>5, <1>6, <1>7, <1>8, Parts DEF IInv, Records, RecordOf
<1>10. Workings'
  BY <1>1, <1>2, <1>5, <1>6, <1>7, <1>8, Parts DEF IInv, Workings, ThreadOf
<1>11. JoinerHasRecord' /\ TeardownOf'
  BY <1>1, <1>2, <1>6, <1>7, Parts DEF IInv, JoinerHasRecord, TeardownOf
<1> QED BY <1>1, <1>5, <1>6, <1>7, <1>9, <1>10, <1>11, Parts DEF IInv, LTypes

LEMMA ShutdownErasesKeeps ==
  ASSUME IInv, ShutdownErases
  PROVE  IInv'
<1> DEFINE h == target[Main]
<1>1. /\ pc[Main] = "erase" /\ Forget(h) /\ Goto(Main, "shutdown")
      /\ next' = next /\ closing' = closing /\ target' = target /\ host' = host /\ misused' = misused
      /\ unjoined' = unjoined
      /\ Main \in Threads
  BY MainIs DEF ShutdownErases
<1>2. h \in Live /\ h \in Threads /\ h # Main /\ rec[h].zombie /\ ~rec[h].joined
      /\ closing /\ h = target[Main]
  BY <1>1, Parts DEF IInv, TeardownOf
<1> HIDE DEF h
<1>3. Drop(h)
  BY <1>1, <1>2 DEF Forget
<1>4. PcTypes' /\ pc'[Main] = "shutdown" /\ \A u \in Threads \ {Main} : pc'[u] = pc[u]
  BY <1>1, Goes, Parts DEF Places, MainPlaces
<1>5. RecTypes' /\ Live' = Live \ {h} /\ \A x \in Live \ {h} : rec'[x] = rec[x]
  BY <1>1, <1>3, Drops, Parts
<1>6. pc[h] = "over" /\ (host[h] = "live" => h \in unjoined)
  BY <1>1, <1>2 DEF IInv, Records, RecordOf, Workings, ThreadOf, Erasing
<1>7. Records' /\ Workings'
  BY <1>1, <1>2, <1>4, <1>5, <1>6, Parts DEF IInv, Records, RecordOf, Workings, ThreadOf, Erasing
<1>8. JoinerHasRecord' /\ TeardownOf'
  BY <1>1, <1>2, <1>4, <1>5, Parts DEF IInv, JoinerHasRecord, TeardownOf
<1> QED BY <1>1, <1>4, <1>5, <1>7, <1>8, Parts DEF IInv, LTypes, HostTypes

LEMMA ShutdownEndsKeeps ==
  ASSUME IInv, ShutdownEnds
  PROVE  IInv'
<1>1. /\ pc[Main] = "shutdown" /\ Live \subseteq {Main} /\ Goto(Main, "done") /\ rec' = rec
      /\ next' = next /\ closing' = closing /\ target' = target /\ host' = host /\ misused' = misused
      /\ unjoined' = unjoined
      /\ Main \in Threads
  BY MainIs DEF ShutdownEnds, Looking, Workers
<1>2. PcTypes' /\ pc'[Main] = "done" /\ \A u \in Threads \ {Main} : pc'[u] = pc[u]
  BY <1>1, Goes, Parts DEF Places, MainPlaces
<1>3. RecTypes' /\ Live' = Live
  BY <1>1, Stays, Parts
<1>4. Records' /\ Workings'
  BY <1>1, <1>2, <1>3, Parts DEF IInv, Records, RecordOf, Workings, ThreadOf, Erasing
<1>5. JoinerHasRecord' /\ TeardownOf'
  BY <1>1, <1>2, <1>3, Parts DEF IInv, JoinerHasRecord, TeardownOf
<1> QED BY <1>1, <1>2, <1>3, <1>4, <1>5, Parts DEF IInv, LTypes, HostTypes

-----------------------------------------------------------------------------
(* The theorems                                                            *)

LEMMA InitHolds == Init => IInv
<1> SUFFICES ASSUME Init PROVE IInv
  OBVIOUS
<1>1. FirstBlock \in Blocks
  BY LifecycleAssumption DEF FirstBlock
<1>2. Live = {Main} /\ rec[Main] = [Record(TRUE, FirstBlock) EXCEPT !.hasHost = FALSE]
  BY DEF Init, Live
<1>3. rec[Main] \in Recs /\ rec[Main].detached /\ ~rec[Main].hasHost
      /\ ~rec[Main].joined /\ ~rec[Main].zombie
  BY <1>1, <1>2 DEF Record, Recs
<1>4. next = 2 /\ Main < next /\ Main \in Threads
  BY MainIs DEF Init
<1>5. pc[Main] = "guest" /\ (\A t \in Threads \ {Main} : pc[t] = "none") /\ \A t \in Threads : host[t] = "none"
  BY <1>4 DEF Init
<1>6. LTypes
  BY <1>2, <1>3, <1>4, <1>5
     DEF Init, LTypes, RecTypes, PcTypes, HostTypes, Places, MainPlaces, WorkerPlaces, Ends
<1> QED BY <1>2, <1>3, <1>4, <1>5, <1>6
       DEF IInv, Init, Records, Workings, RecordOf, ThreadOf, JoinerHasRecord, TeardownOf

LEMMA NextKeeps == IInv /\ [Next]_vars => IInv'
<1> SUFFICES ASSUME IInv, [Next]_vars PROVE IInv'
  OBVIOUS
<1>1. ASSUME NEW t \in Threads, CreateRefused(t) \/ Create(t) PROVE IInv'
  BY <1>1, CreateRefusedKeeps, CreateKeeps
<1>2. ASSUME NEW t \in Threads, Bind(t) \/ BindFails(t) \/ GuestReturns(t) \/ Exit(t) PROVE IInv'
  BY <1>2, BindKeeps, BindFailsKeeps, GuestReturnsKeeps, ExitKeeps
<1>3. ASSUME NEW t \in Threads, JoinWakes(t) \/ HostJoin(t) PROVE IInv'
  BY <1>3, JoinWakesKeeps, HostJoinKeeps
<1>7. ASSUME NEW t \in Threads, SpuriousWakeup(t) PROVE IInv'
  BY <1>7 DEF SpuriousWakeup, IInv, LTypes, RecTypes, PcTypes, HostTypes, Records, Workings, RecordOf,
       ThreadOf, Erasing, JoinerHasRecord, TeardownOf, Live
<1>4. ASSUME NEW t \in Threads, NEW h \in Threads, Join(t, h) \/ Detach(t, h) PROVE IInv'
  BY <1>4, JoinKeeps, DetachKeeps
<1>5. CASE ShutdownBegins \/ Teardown
  BY <1>5, ShutdownBeginsKeeps, ShutdownWaitsKeeps, ShutdownPicksKeeps, ShutdownReapsKeeps, ShutdownErasesKeeps,
     ShutdownEndsKeeps DEF Teardown
<1>6. CASE UNCHANGED vars
  BY <1>6 DEF vars, IInv, LTypes, RecTypes, PcTypes, HostTypes, Records, Workings, RecordOf, ThreadOf,
       Erasing, JoinerHasRecord, TeardownOf, Live
<1> QED BY <1>1, <1>2, <1>3, <1>4, <1>5, <1>6, <1>7 DEF Next

(* What the records, the workers and the teardown say of each other is     *)
(* always true.                                                            *)
THEOREM Invariance == Spec => []IInv
BY InitHolds, NextKeeps, PTL DEF Spec

(* No host handle is joined or detached twice, or after its end, whichever *)
(* of the joiner, the detacher, the creator and the shutdown comes first:  *)
(* a record that owns its handle is always right about it                  *)
(* (agr_bionic_thread_lifecycle.cpp, join, detach and shutdown).           *)
THEOREM HandlesOnce == Spec => []HostHandleOnce
<1>1. IInv => HostHandleOnce
  BY DEF IInv, Records, RecordOf, Erasing, HostHandleOnce
<1> QED BY <1>1, Invariance, PTL

(* A record a thread sleeps on, or whose host thread it is joining with    *)
(* the mutex let go, is in the table and carries that one thread's claim.  *)
THEOREM JoinersKeepRecords == Spec => []JoinerHasRecord
<1>1. IInv => JoinerHasRecord
  BY DEF IInv
<1> QED BY <1>1, Invariance, PTL

(* After the shutdown no worker runs or is about to, and the host threads  *)
(* nobody joined or detached are those whose join the host refused the     *)
(* shutdown itself, which drops the record all the same                    *)
(* (agr_bionic_thread_lifecycle.cpp:136-139).                              *)
THEOREM ShutdownLeavesNone == Spec => []ShutdownComplete
<1>1. IInv => ShutdownComplete
  <2> SUFFICES ASSUME IInv, pc[Main] = "done"
               PROVE  /\ \A t \in Threads \ {Main} : pc[t] \in {"none", "over"}
                      /\ {t \in Threads \ {Main} : host[t] = "live"} = unjoined
    BY DEF ShutdownComplete
  <2>1. \A t \in Threads \ {Main} : t \notin Live /\ ThreadOf(t)
    BY DEF IInv, TeardownOf, Workings
  <2>2. unjoined \subseteq Threads \ {Main}
    BY DEF IInv, LTypes, HostTypes
  <2> QED BY <2>1, <2>2 DEF ThreadOf
<1> QED BY <1>1, Invariance, PTL

=============================================================================
