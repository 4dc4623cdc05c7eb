------------------------ MODULE ExclusiveClaimProofs ------------------------
(***************************************************************************)
(* Type correctness of ExclusiveClaim and the exclusiveness of its claim,  *)
(* for any number of processes, readers, keys, items and rounds.           *)
(*                                                                         *)
(* The argument: while a lane is open nothing deletes a lock file in it,   *)
(* create_new lets a lock have one creator, and an honest reader signs     *)
(* only while it is the creator of the lock its item is behind.  Two       *)
(* honest records of one item therefore name the creator of one lock.     *)
(***************************************************************************)
EXTENDS ExclusiveClaim, FiniteSetTheorems, TLAPS

\* A lock is named by the first item behind it: a key's lock by its item of
\* sequence 0, an item's lock by the item.
LockOf(i) == IF Ordered THEN <<i[1], 0>> ELSE i

\* Inside a lane, and inside process() for an item of it.
Inside == {"try", "read", "sign", "write", "consume"}
Holding == {"read", "sign", "write", "consume"}

\* The readers of a process run only while it races them.
ReadersRace == \A h \in Holder : pc[h[1]] # "race" => at[h] = "out"

\* A process that has staged stands over a lane of its own, and the lane it
\* tears down is judged.
OwnLane == \A p \in Process :
    /\ pc[p] \in {"race", "settle", "check", "teardown"} =>
          /\ Own(p) \in Lane /\ lane[Own(p)] # "none"
    /\ pc[p] = "teardown" => lane[Own(p)] # "open"

\* A lane of a round to come is not there, and a lane not there is empty.
FutureLanes == \A l \in Lane : l[2] > round[l[1]] => lane[l] = "none"
NoLaneNoFiles == \A l \in Lane : lane[l] = "none" => locks[l] = {} /\ done[l] = {}

\* A reader goes only where a lane has been.
ReadersVisitLanes == \A h \in Holder :
    /\ \A l \in left[h] : lane[l] # "none"
    /\ at[h] \in Inside => lane[here[h]] # "none"

\* An honest Sequential reader tries keys.
KeysTried == \A h \in Holder :
    at[h] \in Inside /\ Ordered /\ ~broken[h[1]] => todo[h] \subseteq Key \X {0}

\* A lock has one creator...
OneCreator == \A l \in Lane : lane[l] = "open" =>
    \A i \in Item, g, h \in Holder : <<i, g>> \in locks[l] /\ <<i, h>> \in locks[l] => g = h

\* ...which is who processes what is behind it...
HolderHasLock == \A h \in Holder :
    at[h] \in Holding /\ ~broken[h[1]] /\ lane[here[h]] = "open" =>
        <<LockOf(cur[h]), h>> \in locks[here[h]]

\* ...and whom an honest record of it names.
RecordHasLock == \A l \in Lane : lane[l] = "open" =>
    \A d \in done[l] : ~d.injected => <<LockOf(d.item), d.holder>> \in locks[l]

IInv ==
    /\ TypeOK
    /\ ReadersRace /\ OwnLane /\ FutureLanes /\ NoLaneNoFiles
    /\ ReadersVisitLanes /\ KeysTried
    /\ OneCreator /\ HolderHasLock /\ RecordHasLock

-----------------------------------------------------------------------------
(* Facts about the operators. *)

\* A holder's process and a lane's process are processes, a lane's round a round.
LEMMA Parts ==
    /\ \A h \in Holder : h[1] \in Process
    /\ \A l \in Lane : l[1] \in Process /\ l[2] \in 1 .. MaxRound /\ l = <<l[1], l[2]>>
    /\ \A i \in Item : i[1] \in Key /\ i[2] \in Nat /\ i = <<i[1], i[2]>>
    /\ \A k \in Key : <<k, 0>> \in Item
    /\ <<0, 0>> \in Item
BY ConstantsAssumption DEF Holder, Lane, Item

\* The lock an item is behind is named by an item.
LEMMA LockIsItem == \A i \in Item : LockOf(i) \in Item
BY Parts DEF LockOf

\* judge() comes to one of its verdicts.
LEMMA JudgeType == \A ds, laid : Judge(ds, laid) \subseteq Verdict
BY DEF Judge, Verdict

-----------------------------------------------------------------------------
(* The invariant holds at first. *)

LEMMA InitInv == Init => IInv
<1> SUFFICES ASSUME Init PROVE IInv OBVIOUS
<1> USE DEF Init
<1>1. TypeOK
  BY ConstantsAssumption, Parts DEF TypeOK, Verdict, Lane, Holder
<1>2. ReadersRace /\ OwnLane /\ FutureLanes /\ NoLaneNoFiles
  BY Parts DEF ReadersRace, OwnLane, FutureLanes, NoLaneNoFiles
<1>3. ReadersVisitLanes /\ KeysTried
  BY DEF ReadersVisitLanes, KeysTried, Inside
<1>4. OneCreator /\ HolderHasLock /\ RecordHasLock
  BY DEF OneCreator, HolderHasLock, RecordHasLock, Holding
<1> QED BY <1>1, <1>2, <1>3, <1>4 DEF IInv

-----------------------------------------------------------------------------
(* Each action of a process preserves it. *)

LEMMA StageInv == ASSUME IInv, NEW p \in Process, Stage(p) PROVE IInv'
<1> DEFINE l == <<p, round[p] + 1>>
<1> USE DEF IInv
<1>1. PICK written \in Writable[p] :
        /\ lane'    = [lane EXCEPT ![l] = "open"]
        /\ items'   = [items EXCEPT ![l] = written]
        /\ dropped' = [dropped EXCEPT ![p] = written]
  BY DEF Stage
<1>2. PICK b \in BOOLEAN : broken' = [broken EXCEPT ![p] = b]
  BY DEF Stage
<1>3. /\ l \in Lane /\ lane[l] = "none" /\ locks[l] = {} /\ done[l] = {}
      /\ l[1] = p /\ l[2] = round[p] + 1
  <2>1. round[p] \in 0 .. MaxRound /\ round[p] < MaxRound
    BY DEF Stage, TypeOK
  <2>2. l \in Lane /\ l[1] = p /\ l[2] = round[p] + 1
    BY <2>1, ConstantsAssumption DEF Lane
  <2>3. lane[l] = "none"
    BY <2>1, <2>2 DEF FutureLanes
  <2> QED BY <2>2, <2>3 DEF NoLaneNoFiles
<1>4. /\ \A h \in Holder : h[1] = p => at[h] = "out"
      /\ \A h \in Holder : at'[h] # "out" /\ at'[h] # "pass" => at'[h] = at[h] /\ h[1] # p
  BY Parts DEF Stage, ReadersRace, TypeOK
<1>5. TypeOK'
  <2>1. written \in SUBSET Item
    BY <1>1, ConstantsAssumption
  <2>2. round'[p] \in 0 .. MaxRound /\ round' = [round EXCEPT ![p] = round'[p]]
    BY ConstantsAssumption DEF Stage, TypeOK
  <2>3. /\ at' \in [Holder -> {"out", "pass", "lanes", "try", "read", "sign", "write",
                              "consume"}]
        /\ scan' \in [Holder -> Nat]
    BY DEF Stage, TypeOK
  <2>4. verdict' \in [Process -> Verdict]
    BY DEF Stage, TypeOK, Verdict
  <2>5. /\ lane' \in [Lane -> {"none", "open", "judged", "gone"}]
        /\ items' \in [Lane -> SUBSET Item] /\ dropped' \in [Process -> SUBSET Item]
        /\ broken' \in [Process -> BOOLEAN]
    BY <1>1, <1>2, <1>3, <2>1 DEF TypeOK
  <2> QED BY <2>2, <2>3, <2>4, <2>5 DEF Stage, TypeOK
<1>6. ReadersRace' /\ OwnLane'
  <2>1. /\ pc' = [pc EXCEPT ![p] = "race"] /\ round' = [round EXCEPT ![p] = @ + 1]
        /\ \A h \in Holder : at'[h] = IF h[1] = p THEN "pass" ELSE at[h]
    BY DEF Stage
  <2>2. ReadersRace'
    BY <2>1, Parts DEF ReadersRace, TypeOK
  <2>3. \A q \in Process : q # p => <<q, round'[q]>> = Own(q) /\ pc'[q] = pc[q]
    BY <2>1 DEF Own, TypeOK
  <2>4. <<p, round'[p]>> = l /\ pc'[p] = "race"
    BY <2>1 DEF Own, TypeOK
  <2>5. \A k \in Lane : lane'[k] = IF k = l THEN "open" ELSE lane[k]
    BY <1>1, <1>3 DEF TypeOK
  <2>6. \A q \in Process : q # p => Own(q) # l
    BY DEF Own
  <2>7. OwnLane'
    <3> SUFFICES ASSUME NEW q \in Process
                 PROVE  /\ pc'[q] \in {"race", "settle", "check", "teardown"} =>
                              /\ <<q, round'[q]>> \in Lane
                              /\ lane'[<<q, round'[q]>>] # "none"
                        /\ pc'[q] = "teardown" => lane'[<<q, round'[q]>>] # "open"
      BY DEF OwnLane, Own
    <3>1. CASE q = p
      BY <1>3, <2>4, <2>5, <3>1
    <3>2. CASE q # p
      BY <2>3, <2>5, <2>6, <3>2 DEF OwnLane
    <3> QED BY <3>1, <3>2
  <2> QED BY <2>2, <2>7
<1>7. FutureLanes' /\ NoLaneNoFiles'
  BY <1>1, <1>3, Parts DEF Stage, FutureLanes, NoLaneNoFiles, TypeOK
<1>8. ReadersVisitLanes'
  BY <1>1, <1>3, <1>4 DEF Stage, ReadersVisitLanes, TypeOK, Inside
<1>9. KeysTried'
  BY <1>2, <1>4, Parts DEF Stage, KeysTried, TypeOK, Inside
<1>10. OneCreator' /\ RecordHasLock'
  BY <1>1, <1>3 DEF Stage, OneCreator, RecordHasLock, TypeOK
<1>11. HolderHasLock'
  <2> SUFFICES ASSUME NEW h \in Holder, at'[h] \in Holding, ~broken'[h[1]],
                      lane'[here'[h]] = "open"
               PROVE  <<LockOf(cur'[h]), h>> \in locks'[here'[h]]
    BY DEF HolderHasLock
  <2>1. h[1] # p /\ at[h] \in Holding /\ h[1] \in Process
    BY <1>4, Parts DEF Holding
  <2>2. ~broken[h[1]]
    BY <1>2, <2>1 DEF TypeOK
  <2>3. here'[h] = here[h] /\ cur'[h] = cur[h] /\ locks' = locks
    BY DEF Stage
  <2>4. here[h] # l
    BY <1>3, <2>1 DEF ReadersVisitLanes, Holding, Inside
  <2>5. lane[here[h]] = "open"
    BY <1>1, <2>3, <2>4 DEF TypeOK
  <2> QED BY <2>1, <2>2, <2>3, <2>5 DEF HolderHasLock
<1> QED BY <1>5, <1>6, <1>7, <1>8, <1>9, <1>10, <1>11

LEMMA QuietInv ==
    ASSUME IInv, NEW p \in Process,
           StageFails(p) \/ Join(p) \/ SettleRead(p) \/ SettleAgain(p) \/ LeaveLitter(p)
    PROVE  IInv'
<1> USE DEF IInv
<1>1. CASE StageFails(p)
  <2>1. TypeOK'
    <3>1. round' \in [Process -> 0 .. MaxRound]
      BY <1>1, ConstantsAssumption DEF StageFails, TypeOK
    <3>2. verdict' \in [Process -> Verdict]
      BY <1>1 DEF StageFails, TypeOK, Verdict
    <3> QED BY <1>1, <3>1, <3>2 DEF StageFails, TypeOK, dirVars, readerVars
  <2>2. OwnLane'
    BY <1>1 DEF StageFails, OwnLane, TypeOK, Own, dirVars, readerVars
  <2>3. FutureLanes'
    BY <1>1, Parts DEF StageFails, FutureLanes, TypeOK, dirVars, readerVars
  <2> QED BY <1>1, <2>1, <2>2, <2>3
    DEF StageFails, ReadersRace, NoLaneNoFiles, ReadersVisitLanes, KeysTried,
        OneCreator, HolderHasLock, RecordHasLock, dirVars, readerVars
<1>2. CASE Join(p) \/ SettleRead(p) \/ SettleAgain(p) \/ LeaveLitter(p)
  <2> USE DEF Join, SettleRead, SettleAgain, LeaveLitter, dirVars, readerVars
  <2>1. TypeOK'
    <3>1. pc' \in [Process -> {"idle", "race", "settle", "check", "teardown", "dead"}]
      BY <1>2 DEF TypeOK
    <3>2. seen' \in [Process -> SUBSET Record]
      BY <1>2 DEF TypeOK, OwnLane
    <3>3. UNCHANGED <<dirVars, round, broken, clock, dropped, closed, verdict, readerVars>>
      BY <1>2
    <3> HIDE DEF Join, SettleRead, SettleAgain, LeaveLitter
    <3> QED BY <3>1, <3>2, <3>3 DEF TypeOK
  <2>2. ReadersRace'
    BY <1>2, Parts DEF ReadersRace, TypeOK
  <2>3. OwnLane'
    BY <1>2 DEF OwnLane, TypeOK, Own
  <2> QED BY <1>2, <2>1, <2>2, <2>3
    DEF FutureLanes, NoLaneNoFiles, ReadersVisitLanes, KeysTried,
        OneCreator, HolderHasLock, RecordHasLock
<1> QED BY <1>1, <1>2

LEMMA ConcludeInv ==
    ASSUME IInv, NEW p \in Process, NEW why \in {"drained", "duplicated", "timeout"},
           pc[p] = "check", Conclude(p, why)
    PROVE  IInv'
<1> USE DEF IInv, Conclude, readerVars
<1>1. Own(p) \in Lane /\ lane[Own(p)] # "none"
  BY DEF OwnLane
<1>2. PICK v \in Judge(seen[p], dropped[p]) : verdict' = [verdict EXCEPT ![p] = v]
  OBVIOUS
<1>3. TypeOK'
  BY <1>1, <1>2, JudgeType DEF TypeOK
<1>4. ReadersRace' /\ OwnLane'
  BY <1>1 DEF ReadersRace, OwnLane, TypeOK, Own
<1>5. FutureLanes' /\ NoLaneNoFiles' /\ ReadersVisitLanes' /\ KeysTried'
  BY <1>1, Parts DEF FutureLanes, NoLaneNoFiles, ReadersVisitLanes, KeysTried, TypeOK, Own
<1>6. OneCreator' /\ HolderHasLock' /\ RecordHasLock'
  BY <1>1 DEF OneCreator, HolderHasLock, RecordHasLock, TypeOK
<1> QED BY <1>3, <1>4, <1>5, <1>6

LEMMA TeardownInv ==
    ASSUME IInv, NEW p \in Process, RemoveEntry(p) \/ RemoveLane(p) PROVE IInv'
<1> USE DEF IInv, procVars, readerVars
<1>1. pc[p] = "teardown" /\ Own(p) \in Lane /\ lane[Own(p)] # "none" /\ lane[Own(p)] # "open"
  BY DEF OwnLane, RemoveEntry, RemoveLane
<1>2. CASE RemoveEntry(p)
  <2>1. /\ items' \in [Lane -> SUBSET Item]
        /\ locks' \in [Lane -> SUBSET (Item \X Holder)]
        /\ done' \in [Lane -> SUBSET Record]
    BY <1>1, <1>2 DEF RemoveEntry, TypeOK
  <2>2. \A l \in Lane : /\ lane[l] = "open" => locks'[l] = locks[l] /\ done'[l] = done[l]
                        /\ locks'[l] \subseteq locks[l] /\ done'[l] \subseteq done[l]
    BY <1>1, <1>2 DEF RemoveEntry, TypeOK
  <2>3. TypeOK'
    BY <1>2, <2>1 DEF RemoveEntry, TypeOK
  <2>4. ReadersRace' /\ OwnLane' /\ FutureLanes' /\ ReadersVisitLanes' /\ KeysTried'
    BY <1>2 DEF RemoveEntry, ReadersRace, OwnLane, FutureLanes, ReadersVisitLanes,
                KeysTried, Own
  <2>5. NoLaneNoFiles' /\ OneCreator' /\ RecordHasLock'
    BY <1>2, <2>2 DEF RemoveEntry, NoLaneNoFiles, OneCreator, RecordHasLock
  <2>6. HolderHasLock'
    BY <1>2, <2>2 DEF RemoveEntry, HolderHasLock, TypeOK
  <2> QED BY <2>3, <2>4, <2>5, <2>6
<1>3. CASE RemoveLane(p)
  <2> USE DEF RemoveLane
  <2>1. TypeOK'
    BY <1>1, <1>3 DEF TypeOK
  <2>2. ReadersRace' /\ OwnLane'
    BY <1>1, <1>3, Parts DEF ReadersRace, OwnLane, TypeOK, Own
  <2>3. FutureLanes' /\ NoLaneNoFiles' /\ ReadersVisitLanes' /\ KeysTried'
    BY <1>1, <1>3 DEF FutureLanes, NoLaneNoFiles, ReadersVisitLanes, KeysTried, TypeOK
  <2>4. OneCreator' /\ HolderHasLock' /\ RecordHasLock'
    BY <1>1, <1>3 DEF OneCreator, HolderHasLock, RecordHasLock, TypeOK
  <2> QED BY <2>1, <2>2, <2>3, <2>4
<1> QED BY <1>2, <1>3

LEMMA CrashInv == ASSUME IInv, NEW p \in Process, Crash(p) PROVE IInv'
<1> USE DEF IInv, Crash, dirVars
<1>1. \A h \in Holder : at'[h] = "out" \/ at'[h] = at[h]
  OBVIOUS
<1>2. TypeOK'
  BY DEF TypeOK
<1>3. ReadersRace' /\ OwnLane'
  BY Parts DEF ReadersRace, OwnLane, TypeOK, Own
<1>4. FutureLanes' /\ NoLaneNoFiles' /\ ReadersVisitLanes' /\ KeysTried'
  BY <1>1 DEF FutureLanes, NoLaneNoFiles, ReadersVisitLanes, KeysTried, Inside
<1>5. OneCreator' /\ HolderHasLock' /\ RecordHasLock'
  BY <1>1 DEF OneCreator, HolderHasLock, RecordHasLock, Holding
<1> QED BY <1>2, <1>3, <1>4, <1>5

LEMMA ProcessInv == ASSUME IInv, NEW p \in Process, ProcessStep(p) PROVE IInv'
<1>1. CASE SettleDone(p) \/ SettleTimeout(p)
  <2>1. pc[p] = "check"
        /\ (Conclude(p, "drained") \/ Conclude(p, "duplicated") \/ Conclude(p, "timeout"))
    BY <1>1 DEF SettleDone, SettleTimeout
  <2> QED BY <2>1, ConcludeInv
<1> QED BY <1>1, StageInv, QuietInv, TeardownInv DEF ProcessStep

-----------------------------------------------------------------------------
(* Each action of a reader preserves it. *)

\* A reader that acts belongs to a process that races, over its own lane.
LEMMA ReaderAtWork ==
    ASSUME IInv, NEW h \in Holder, at[h] # "out"
    PROVE  /\ h[1] \in Process /\ pc[h[1]] = "race"
           /\ Own(h[1]) \in Lane /\ lane[Own(h[1])] # "none"
BY Parts DEF IInv, ReadersRace, OwnLane

\* What no reader step changes but in at, left, here, todo and cur.
LEMMA WalkInv ==
    ASSUME IInv, NEW h \in Holder, BeginPass(h) \/ Visit(h) \/ EndPass(h) \/ LeaveLane(h)
    PROVE  IInv'
<1> USE DEF IInv, dirVars, procVars
<1>0. /\ h[1] \in Process /\ pc[h[1]] = "race"
      /\ Own(h[1]) \in Lane /\ lane[Own(h[1])] # "none"
  BY ReaderAtWork DEF BeginPass, Visit, EndPass, LeaveLane
<1>1. /\ UNCHANGED <<lane, items, locks, done, pc, round, broken, clock, dropped, seen,
                     closed, verdict>>
      /\ \A g \in Holder : at'[g] \notin Holding \/ (at'[g] = at[g] /\ g # h)
      /\ \A g \in Holder : g # h => /\ at'[g] = at[g] /\ left'[g] = left[g]
                                    /\ here'[g] = here[g] /\ todo'[g] = todo[g]
                                    /\ cur'[g] = cur[g]
  BY DEF BeginPass, Visit, EndPass, LeaveLane, TypeOK, Holding
<1>2. TypeOK'
  <2>1. CASE BeginPass(h)
    BY <1>0, <2>1 DEF BeginPass, TypeOK, PassCounted
  <2>2. CASE Visit(h)
    <3>1. PICK l \in left[h] : 
            /\ here' = [here EXCEPT ![h] = l]
            /\ left' = [left EXCEPT ![h] = @ \ {l}]
            /\ todo' = [todo EXCEPT ![h] =
                      IF Ordered /\ ~broken[h[1]] THEN Key \X {0} ELSE items[l]]
      BY <2>2 DEF Visit
    <3>2. l \in Lane /\ items[l] \subseteq Item /\ Key \X {0} \subseteq Item
      BY Parts DEF TypeOK
    <3> QED BY <2>2, <3>1, <3>2 DEF Visit, TypeOK
  <2>3. CASE EndPass(h)
    BY <2>3 DEF EndPass, TypeOK
  <2>4. CASE LeaveLane(h)
    BY <1>0, <2>4, Parts DEF LeaveLane, TypeOK
  <2> QED BY <2>1, <2>2, <2>3, <2>4
<1>3. ReadersRace' /\ OwnLane' /\ FutureLanes' /\ NoLaneNoFiles'
  BY <1>0, <1>1 DEF ReadersRace, OwnLane, FutureLanes, NoLaneNoFiles, Own
<1>4. ReadersVisitLanes'
  <2>1. \A l \in left'[h] : lane[l] # "none"
    <3>1. CASE BeginPass(h)
      BY <1>0, <3>1 DEF BeginPass, TypeOK, Exists
    <3>2. CASE Visit(h) \/ EndPass(h) \/ LeaveLane(h)
      BY <3>2 DEF Visit, EndPass, LeaveLane, ReadersVisitLanes, TypeOK
    <3> QED BY <3>1, <3>2
  <2>2. at'[h] \in Inside => lane[here'[h]] # "none"
    BY DEF BeginPass, Visit, EndPass, LeaveLane, ReadersVisitLanes, TypeOK, Inside
  <2> QED BY <1>1, <2>1, <2>2 DEF ReadersVisitLanes
<1>5. KeysTried'
  <2>1. at'[h] \in Inside /\ Ordered /\ ~broken[h[1]] => todo'[h] \subseteq Key \X {0}
    BY DEF BeginPass, Visit, EndPass, LeaveLane, TypeOK, Inside
  <2> QED BY <1>1, <2>1 DEF KeysTried
<1>6. OneCreator' /\ HolderHasLock' /\ RecordHasLock'
  BY <1>1 DEF OneCreator, HolderHasLock, RecordHasLock
<1> QED BY <1>2, <1>3, <1>4, <1>5, <1>6

LEMMA ClaimInv == ASSUME IInv, NEW h \in Holder, Claim(h) PROVE IInv'
<1> USE DEF IInv, procVars
<1>0. h[1] \in Process /\ pc[h[1]] = "race" /\ at[h] = "try" /\ ~broken[h[1]]
  BY ReaderAtWork DEF Claim
<1>1. PICK i \in todo[h] :
        /\ Exists(here[h]) /\ ~Taken(here[h], i)
        /\ locks' = [locks EXCEPT ![here[h]] = @ \cup {<<i, h>>}]
        /\ todo'  = [todo EXCEPT ![h] = @ \ {i}]
        /\ cur'   = [cur EXCEPT ![h] = i]
  BY DEF Claim
<1>2. /\ here[h] \in Lane /\ i \in Item /\ LockOf(i) = i
      /\ lane[here[h]] # "none"
  <2>1. here[h] \in Lane /\ i \in Item /\ lane[here[h]] # "none"
    BY <1>0, <1>1 DEF TypeOK, ReadersVisitLanes, Inside
  <2>2. Ordered => i \in Key \X {0}
    BY <1>0, <1>1 DEF KeysTried, Inside
  <2>3. LockOf(i) = i
    BY <2>2 DEF LockOf
  <2> QED BY <2>1, <2>3
<1>3. /\ UNCHANGED <<lane, items, done, pc, round, broken, clock, dropped, seen, closed,
                     verdict, scan, left, here>>
      /\ at' = [at EXCEPT ![h] = "read"]
  BY DEF Claim
<1>4. \A l \in Lane : /\ locks[l] \subseteq locks'[l]
                      /\ l # here[h] => locks'[l] = locks[l]
  BY <1>1, <1>2 DEF TypeOK
<1>5. TypeOK'
  <2>1. locks' \in [Lane -> SUBSET (Item \X Holder)]
    BY <1>1, <1>2 DEF TypeOK
  <2>2. todo' \in [Holder -> SUBSET Item] /\ cur' \in [Holder -> Item]
    BY <1>1, <1>2 DEF TypeOK
  <2> QED BY <1>3, <2>1, <2>2 DEF TypeOK
<1>6. ReadersRace' /\ OwnLane' /\ FutureLanes' /\ NoLaneNoFiles'
  <2>1. ReadersRace'
    BY <1>0, <1>3 DEF ReadersRace, TypeOK
  <2>2. OwnLane' /\ FutureLanes'
    BY <1>3 DEF OwnLane, FutureLanes, Own
  <2>3. NoLaneNoFiles'
    BY <1>2, <1>3, <1>4 DEF NoLaneNoFiles
  <2> QED BY <2>1, <2>2, <2>3
<1>7. ReadersVisitLanes' /\ KeysTried'
  BY <1>0, <1>1, <1>3 DEF ReadersVisitLanes, KeysTried, Inside, TypeOK
<1>8. OneCreator'
  <2> SUFFICES ASSUME NEW l \in Lane, lane[l] = "open", NEW j \in Item,
                      NEW f \in Holder, NEW g \in Holder,
                      <<j, f>> \in locks'[l], <<j, g>> \in locks'[l]
               PROVE  f = g
    BY <1>3 DEF OneCreator
  <2>1. \A e \in Holder : <<j, e>> \in locks'[l] =>
            <<j, e>> \in locks[l] \/ (l = here[h] /\ j = i /\ e = h)
    BY <1>1, <1>2 DEF TypeOK
  <2>2. \A e \in Holder : <<i, e>> \notin locks[here[h]]
    BY <1>1 DEF Taken
  <2> QED BY <2>1, <2>2 DEF OneCreator
<1>9. HolderHasLock'
  <2> SUFFICES ASSUME NEW g \in Holder, at'[g] \in Holding, ~broken[g[1]],
                      lane[here[g]] = "open"
               PROVE  <<LockOf(cur'[g]), g>> \in locks'[here[g]]
    BY <1>3 DEF HolderHasLock
  <2>1. CASE g = h
    BY <1>1, <1>2, <2>1 DEF TypeOK
  <2>2. CASE g # h
    BY <1>1, <1>3, <1>4, <2>2 DEF HolderHasLock, TypeOK
  <2> QED BY <2>1, <2>2
<1>10. RecordHasLock'
  BY <1>3, <1>4 DEF RecordHasLock
<1> QED BY <1>5, <1>6, <1>7, <1>8, <1>9, <1>10

LEMMA LoseInv == ASSUME IInv, NEW h \in Holder, Lose(h) \/ Breach(h) PROVE IInv'
<1> USE DEF IInv, procVars, dirVars
<1>0. h[1] \in Process /\ pc[h[1]] = "race" /\ at[h] = "try"
  BY ReaderAtWork DEF Lose, Breach
<1>1. PICK i \in todo[h] :
        /\ todo'  = [todo EXCEPT ![h] = @ \ {i}]
        /\ \/ UNCHANGED <<cur, at>>
           \/ /\ broken[h[1]] /\ cur' = [cur EXCEPT ![h] = i]
              /\ at' = [at EXCEPT ![h] = "read"]
  BY DEF Lose, Breach
<1>2. UNCHANGED <<lane, items, locks, done, pc, round, broken, clock, dropped, seen, closed,
                  verdict, scan, left, here>>
  BY DEF Lose, Breach
<1>3. TypeOK'
  <2>1. i \in Item /\ todo' \in [Holder -> SUBSET Item]
    BY <1>1 DEF TypeOK
  <2>2. CASE UNCHANGED <<cur, at>>
    BY <1>2, <2>1, <2>2 DEF TypeOK
  <2>3. CASE cur' = [cur EXCEPT ![h] = i] /\ at' = [at EXCEPT ![h] = "read"]
    BY <1>2, <2>1, <2>3 DEF TypeOK
  <2> QED BY <1>1, <2>2, <2>3
<1>4. ReadersRace' /\ OwnLane' /\ FutureLanes' /\ NoLaneNoFiles'
  BY <1>0, <1>1, <1>2 DEF ReadersRace, OwnLane, FutureLanes, NoLaneNoFiles, Own, TypeOK
<1>5. ReadersVisitLanes' /\ KeysTried'
  BY <1>0, <1>1, <1>2 DEF ReadersVisitLanes, KeysTried, Inside, TypeOK
<1>6. OneCreator' /\ RecordHasLock'
  BY <1>2 DEF OneCreator, RecordHasLock
<1>7. HolderHasLock'
  BY <1>0, <1>1, <1>2 DEF HolderHasLock, TypeOK
<1> QED BY <1>3, <1>4, <1>5, <1>6, <1>7

\* The next item of a key is behind the lock of the one before it.
LEMMA GoOnHolds ==
    ASSUME IInv, NEW h \in Holder, at[h] \in Holding, GoOn(h)
    PROVE  /\ cur' \in [Holder -> Item]
           /\ \E w \in {"read", "try"} : at' = [at EXCEPT ![h] = w]
           /\ \A g \in Holder : g # h => cur'[g] = cur[g]
           /\ at'[h] = "try" \/ LockOf(cur'[h]) = LockOf(cur[h])
<1> USE DEF IInv
<1>1. CASE Ordered /\ ~broken[h[1]] /\ More(cur[h])
  <2>1. /\ cur' = [cur EXCEPT ![h] = <<cur[h][1], cur[h][2] + 1>>]
        /\ at'  = [at EXCEPT ![h] = "read"]
    BY <1>1 DEF GoOn
  <2>2. cur[h] \in Item /\ cur[h][1] \in Key /\ cur[h][2] \in Nat /\ cur[h][2] + 1 < PerKey
    BY <1>1, Parts DEF TypeOK, More
  <2>3. <<cur[h][1], cur[h][2] + 1>> \in Item
    BY <2>2, ConstantsAssumption DEF Item
  <2>4. LockOf(<<cur[h][1], cur[h][2] + 1>>) = LockOf(cur[h])
    BY <1>1 DEF LockOf
  <2> QED BY <2>1, <2>3, <2>4 DEF TypeOK
<1>2. CASE ~(Ordered /\ ~broken[h[1]] /\ More(cur[h]))
  BY <1>2 DEF GoOn, TypeOK
<1> QED BY <1>1, <1>2

LEMMA HandleInv ==
    ASSUME IInv, NEW h \in Holder, Read(h) \/ ReadGone(h) \/ Consume(h) PROVE IInv'
<1> USE DEF IInv, procVars, dirVars
<1>0. h[1] \in Process /\ pc[h[1]] = "race" /\ at[h] \in Holding /\ at[h] \in Inside
  BY ReaderAtWork DEF Read, ReadGone, Consume, Holding, Inside
<1>1. UNCHANGED <<lane, locks, done, pc, round, broken, clock, dropped, seen, closed,
                  verdict, scan, left, here, todo>>
  BY DEF Read, ReadGone, Consume
<1>2. /\ cur' \in [Holder -> Item]
      /\ \E w \in {"read", "try", "sign"} : at' = [at EXCEPT ![h] = w]
      /\ \A g \in Holder : g # h => cur'[g] = cur[g]
      /\ at'[h] = "try" \/ LockOf(cur'[h]) = LockOf(cur[h])
  <2>1. CASE Read(h)
    BY <2>1 DEF Read, TypeOK
  <2>2. CASE ReadGone(h) \/ Consume(h)
    BY <1>0, <2>2, GoOnHolds DEF ReadGone, Consume
  <2> QED BY <2>1, <2>2
<1>3. items' \in [Lane -> SUBSET Item]
  BY DEF Read, ReadGone, Consume, TypeOK
<1>4. TypeOK'
  BY <1>1, <1>2, <1>3 DEF TypeOK
<1>5. ReadersRace' /\ OwnLane' /\ FutureLanes' /\ NoLaneNoFiles'
  BY <1>0, <1>1, <1>2 DEF ReadersRace, OwnLane, FutureLanes, NoLaneNoFiles, Own, TypeOK
<1>6. ReadersVisitLanes' /\ KeysTried'
  BY <1>0, <1>1, <1>2 DEF ReadersVisitLanes, KeysTried, Inside, TypeOK
<1>7. OneCreator' /\ RecordHasLock'
  BY <1>1 DEF OneCreator, RecordHasLock
<1>8. HolderHasLock'
  <2> SUFFICES ASSUME NEW g \in Holder, at'[g] \in Holding, ~broken[g[1]],
                      lane[here[g]] = "open"
               PROVE  <<LockOf(cur'[g]), g>> \in locks[here[g]]
    BY <1>1 DEF HolderHasLock
  <2>1. CASE g = h
    <3>1. LockOf(cur'[h]) = LockOf(cur[h])
      BY <1>2, <2>1 DEF Holding
    <3> QED BY <1>0, <2>1, <3>1 DEF HolderHasLock
  <2>2. CASE g # h
    BY <1>2, <2>2 DEF HolderHasLock, TypeOK
  <2> QED BY <2>1, <2>2
<1> QED BY <1>4, <1>5, <1>6, <1>7, <1>8

LEMMA SignInv == ASSUME IInv, NEW h \in Holder, Sign(h) \/ WriteRecord(h) PROVE IInv'
<1> USE DEF IInv, procVars
<1>0. /\ h[1] \in Process /\ pc[h[1]] = "race" /\ at[h] \in Holding /\ at[h] \in Inside
      /\ here[h] \in Lane /\ lane[here[h]] # "none"
  BY ReaderAtWork DEF Sign, WriteRecord, Holding, Inside, ReadersVisitLanes, TypeOK
<1>1. /\ UNCHANGED <<lane, items, locks, pc, round, broken, dropped, seen, closed,
                     verdict, scan, left, here, todo, cur>>
      /\ \E w \in {"write", "consume"} : at' = [at EXCEPT ![h] = w]
  BY DEF Sign, WriteRecord
<1>2. /\ clock' \in [Process -> Nat] /\ done' \in [Lane -> SUBSET Record]
      /\ \A l \in Lane \ {here[h]} : done'[l] = done[l]
      /\ \A d \in done'[here[h]] : ~d.injected =>
            \/ \E e \in done[here[h]] : ~e.injected /\ e.item = d.item /\ e.holder = d.holder
            \/ ~broken[h[1]] /\ d.item = cur[h] /\ d.holder = h
  <2>1. CASE Sign(h)
    <3> DEFINE new == [item |-> cur[h], holder |-> h, order |-> clock[h[1]],
                       injected |-> Note(h), written |-> FALSE]
    <3>1. new \in Record
      BY <1>0 DEF TypeOK, Record, Note
    <3>2. clock' \in [Process -> Nat]
      <4>1. clock' = [clock EXCEPT ![h[1]] = clock[h[1]] + 1]
        BY <2>1 DEF Sign, Advance
      <4>2. clock \in [Process -> Nat]
        BY DEF TypeOK
      <4> QED BY <1>0, <4>1, <4>2
    <3>3. done' = done \/ done' = [done EXCEPT ![here[h]] = @ \cup {new}]
      BY <2>1 DEF Sign
    <3>4. new.injected = broken[h[1]] /\ new.item = cur[h] /\ new.holder = h
      BY DEF Note
    <3> HIDE DEF new
    <3> QED BY <1>0, <3>1, <3>2, <3>3, <3>4 DEF TypeOK
  <2>2. CASE WriteRecord(h)
    <3> DEFINE wrote(d) == IF d.item = cur[h] /\ d.holder = h
                           THEN [d EXCEPT !.written = TRUE] ELSE d
    <3>1. \A d \in Record : /\ wrote(d) \in Record
                            /\ wrote(d).injected = d.injected
                            /\ wrote(d).item = d.item /\ wrote(d).holder = d.holder
      BY DEF Record
    <3>2. /\ done' = [done EXCEPT ![here[h]] = {wrote(d) : d \in @}]
          /\ clock' = clock
      BY <2>2 DEF WriteRecord
    <3> HIDE DEF wrote
    <3>3. done[here[h]] \subseteq Record
      BY <1>0 DEF TypeOK
    <3>4. done'[here[h]] = {wrote(d) : d \in done[here[h]]}
      BY <1>0, <3>2 DEF TypeOK
    <3>5. done'[here[h]] \subseteq Record
      BY <3>1, <3>3, <3>4
    <3>6. done' \in [Lane -> SUBSET Record] /\ \A l \in Lane \ {here[h]} : done'[l] = done[l]
      BY <1>0, <3>2, <3>4, <3>5 DEF TypeOK
    <3>7. \A d \in done'[here[h]] : \E e \in done[here[h]] :
              e.injected = d.injected /\ e.item = d.item /\ e.holder = d.holder
      BY <3>1, <3>3, <3>4
    <3> QED BY <3>2, <3>6, <3>7 DEF TypeOK
  <2> QED BY <2>1, <2>2
<1>3. TypeOK'
  BY <1>1, <1>2 DEF TypeOK
<1>4. ReadersRace' /\ OwnLane' /\ FutureLanes' /\ NoLaneNoFiles'
  <2>1. ReadersRace'
    BY <1>0, <1>1 DEF ReadersRace, TypeOK
  <2>2. OwnLane' /\ FutureLanes'
    BY <1>1 DEF OwnLane, FutureLanes, Own
  <2>3. NoLaneNoFiles'
    BY <1>0, <1>1, <1>2 DEF NoLaneNoFiles
  <2> QED BY <2>1, <2>2, <2>3
<1>5. ReadersVisitLanes' /\ KeysTried'
  BY <1>0, <1>1 DEF ReadersVisitLanes, KeysTried, Inside, TypeOK
<1>6. OneCreator'
  BY <1>1 DEF OneCreator
<1>7. HolderHasLock'
  BY <1>0, <1>1 DEF HolderHasLock, TypeOK, Holding
<1>8. RecordHasLock'
  <2> SUFFICES ASSUME NEW l \in Lane, lane[l] = "open", NEW d \in done'[l], ~d.injected
               PROVE  <<LockOf(d.item), d.holder>> \in locks[l]
    BY <1>1 DEF RecordHasLock
  <2>1. CASE l # here[h]
    BY <1>2, <2>1 DEF RecordHasLock
  <2>2. CASE l = here[h]
    <3>1. CASE \E e \in done[l] : ~e.injected /\ e.item = d.item /\ e.holder = d.holder
      BY <3>1 DEF RecordHasLock
    <3>2. CASE ~broken[h[1]] /\ d.item = cur[h] /\ d.holder = h
      BY <1>0, <2>2, <3>2 DEF HolderHasLock
    <3> QED BY <1>2, <2>2, <3>1, <3>2
  <2> QED BY <2>1, <2>2
<1> QED BY <1>3, <1>4, <1>5, <1>6, <1>7, <1>8

-----------------------------------------------------------------------------
(* The invariant and what it implies. *)

LEMMA NextInv == IInv /\ [Next]_vars => IInv'
<1> SUFFICES ASSUME IInv, [Next]_vars PROVE IInv' OBVIOUS
<1>1. CASE UNCHANGED vars
  BY <1>1 DEF IInv, vars, dirVars, procVars, readerVars, TypeOK, ReadersRace, OwnLane, Own,
              FutureLanes, NoLaneNoFiles, ReadersVisitLanes, KeysTried, OneCreator,
              HolderHasLock, RecordHasLock
<1>2. ASSUME NEW p \in Process, ProcessStep(p) \/ Crash(p) PROVE IInv'
  <2>1. CASE ProcessStep(p) BY <2>1, ProcessInv
  <2>2. CASE Crash(p) BY <2>2, CrashInv
  <2> QED BY <1>2, <2>1, <2>2
<1>3. ASSUME NEW h \in Holder, ReaderStep(h) PROVE IInv'
  BY <1>3, WalkInv, ClaimInv, LoseInv, HandleInv, SignInv DEF ReaderStep
<1> QED BY <1>1, <1>2, <1>3 DEF Next

\* Two honest records of one item name the creator of the one lock before it.
LEMMA InvOneHolder == IInv => OneHolderWhileOpen
<1> SUFFICES ASSUME IInv, NEW l \in Lane, lane[l] = "open",
                    NEW d \in done[l], NEW e \in done[l],
                    d.item = e.item, ~d.injected, ~e.injected
             PROVE  d.holder = e.holder
  BY DEF OneHolderWhileOpen
<1>1. /\ d.item \in Item /\ d.holder \in Holder /\ e.holder \in Holder
  BY DEF IInv, TypeOK, Record
<1>2. /\ <<LockOf(d.item), d.holder>> \in locks[l]
      /\ <<LockOf(d.item), e.holder>> \in locks[l]
  BY DEF IInv, RecordHasLock
<1> QED BY <1>1, <1>2, LockIsItem DEF IInv, OneCreator

LEMMA Invariance == Spec => []IInv
BY InitInv, NextInv, PTL DEF Spec

\* The types of the claim exercise's state hold in every reachable state, for
\* any number of processes, readers, keys, items and rounds.
THEOREM TypeCorrect == Spec => []TypeOK
<1>1. IInv => TypeOK
  BY DEF IInv
<1> QED BY <1>1, Invariance, PTL

\* The claim is exclusive (pickup.rs, claimed and process): in a lane not yet
\* judged, two records of one item that no injected breach signed name one
\* holder, whoever crashes and whichever opens fail.
THEOREM Exclusive == Spec => []OneHolderWhileOpen
BY Invariance, InvOneHolder, PTL

-----------------------------------------------------------------------------
(***************************************************************************)
(* What the ledger of ExclusiveClaim says, proved for any number of        *)
(* processes, readers, keys, items and rounds: the done records of a key   *)
(* are in order, what was consumed is signed, a contention is a breach     *)
(* that was injected, and a claim reported held was held by one holder     *)
(* for each item.                                                          *)
(*                                                                         *)
(* The argument rests on what stands above: an honest record names the     *)
(* creator of a lock that is there while the lane is open.  A holder takes *)
(* a key once, goes through it forwards and draws from a clock that only   *)
(* grows while it does; records are only added to an open lane; and the    *)
(* judge reads its own lane while that is open.                            *)
(***************************************************************************)

\* A process that races, or waits for its lane to drain, has its lane open,
\* and no other lane of it is.
OwnOpen == \A p \in Process : pc[p] \in {"race", "settle", "check"} => lane[Own(p)] = "open"
OpenIsOwn == \A l \in Lane : lane[l] = "open" => l[2] = round[l[1]] /\ pc[l[1]] # "idle"

\* What a reader has come to with the key it holds: every honest record of the
\* key is of an earlier item, or of this one once it is signed, and was signed
\* before the clock came to where it is.
KeyProgress == \A h \in Holder :
    at[h] \in Holding /\ Ordered /\ ~broken[h[1]] /\ lane[here[h]] = "open" =>
        \A d \in done[here[h]] : ~d.injected /\ d.item[1] = cur[h][1] =>
            /\ d.order < clock[h[1]]
            /\ d.item[2] <= cur[h][2]
            /\ at[h] \in {"read", "sign"} => d.item[2] < cur[h][2]

\* A holder has one record of an item in a lane.
OneRecord == \A l \in Lane : \A d, e \in done[l] :
    d.item = e.item /\ d.holder = e.holder => d = e

\* What lies in an open lane, is signed there or is about to be, was dropped.
OnlyDropped ==
    /\ \A l \in Lane : lane[l] = "open" =>
          /\ items[l] \subseteq dropped[l[1]]
          /\ \A d \in done[l] : d.item \in dropped[l[1]]
    /\ \A h \in Holder : at[h] = "sign" /\ lane[here[h]] = "open" =>
          cur[h] \in dropped[here[h][1]]

\* A reader past the signing has signed.
ConsumerSigned == Faulty = {} => \A h \in Holder :
    at[h] \in {"write", "consume"} /\ lane[here[h]] = "open" => Signed(h)

\* What the judge read is still signed when it judges; two holders among it are
\* a breach, and so is a sequence out of order that is written out; and only
\* they make it report a contention.
Misordered(ds) == Ordered /\ (Reversed(ds) \/ Level(ds))
SeenIsSigned == \A p \in Process : pc[p] = "check" =>
    \A d \in seen[p] : \E e \in done[Own(p)] : e.item = d.item
SeenBreach == \A p \in Process :
    /\ Duplicated(seen[p]) => \E d \in seen[p] : d.injected
    /\ Misordered(seen[p]) => \E d \in seen[p] : d.injected \/ ~d.written
VerdictOfSeen == \A p \in Process : verdict[p] \in Contended =>
    /\ pc[p] \notin {"race", "settle", "check"}
    /\ Duplicated(seen[p]) \/ (verdict[p] = "reordered" /\ Misordered(seen[p]))

LInv ==
    /\ OwnOpen /\ OpenIsOwn
    /\ KeyProgress /\ KeyOrderWhileOpen
    /\ OneRecord /\ OnlyDropped
    /\ ConsumerSigned /\ ConsumedIsSigned
    /\ SeenIsSigned /\ SeenBreach /\ VerdictOfSeen

-----------------------------------------------------------------------------
LEMMA LedgerInit == Init => LInv
<1> SUFFICES ASSUME Init PROVE LInv OBVIOUS
<1> USE DEF Init
<1>1. OwnOpen /\ OpenIsOwn /\ KeyProgress /\ KeyOrderWhileOpen
  BY DEF OwnOpen, OpenIsOwn, KeyProgress, KeyOrderWhileOpen, Holding
<1>2. OneRecord /\ OnlyDropped /\ ConsumerSigned /\ ConsumedIsSigned
  BY DEF OneRecord, OnlyDropped, ConsumerSigned, ConsumedIsSigned
<1>3. SeenIsSigned /\ SeenBreach /\ VerdictOfSeen
  BY DEF SeenIsSigned, SeenBreach, VerdictOfSeen, Contended, Duplicated, Misordered, Reversed,
         Level
<1> QED BY <1>1, <1>2, <1>3 DEF LInv

\* Facts of one lane's and one holder's state that no step changes by itself.
LEMMA LaneParts ==
    ASSUME IInv
    PROVE  /\ \A l \in Lane : l[1] \in Process /\ l = <<l[1], l[2]>>
           /\ \A h \in Holder : h[1] \in Process /\ here[h] \in Lane /\ here[h][1] \in Process
           /\ \A l \in Lane : \A d \in done[l] :
                 /\ d.item \in Item /\ d.holder \in Holder /\ d.order \in Nat
                 /\ d.item[1] \in Key /\ d.item[2] \in Nat
<1>1. \A h \in Holder : here[h] \in Lane
  BY DEF IInv, TypeOK
<1>2. \A l \in Lane : done[l] \subseteq Record
  BY DEF IInv, TypeOK
<1>3. \A d \in Record : /\ d.item \in Item /\ d.holder \in Holder /\ d.order \in Nat
  BY DEF Record
<1> QED BY <1>1, <1>2, <1>3, Parts

-----------------------------------------------------------------------------
(* Each action of a process preserves it. *)

LEMMA LedgerStage == ASSUME IInv, LInv, NEW p \in Process, Stage(p) PROVE LInv'
<1> DEFINE l == <<p, round[p] + 1>>
<1> USE DEF IInv, LInv
<1>1. PICK written \in Writable[p] :
        /\ lane'    = [lane EXCEPT ![l] = "open"]
        /\ items'   = [items EXCEPT ![l] = written]
        /\ dropped' = [dropped EXCEPT ![p] = written]
  BY DEF Stage
<1>2. PICK b \in BOOLEAN : broken' = [broken EXCEPT ![p] = b]
  BY DEF Stage
<1>3. /\ l \in Lane /\ lane[l] = "none" /\ done[l] = {} /\ l[1] = p /\ l[2] = round[p] + 1
      /\ round[p] \in Nat
  <2>1. round[p] \in 0 .. MaxRound /\ round[p] < MaxRound
    BY DEF Stage, TypeOK
  <2>2. l \in Lane /\ l[1] = p /\ l[2] = round[p] + 1
    BY <2>1, ConstantsAssumption DEF Lane
  <2>3. lane[l] = "none"
    BY <2>1, <2>2 DEF FutureLanes
  <2> QED BY <2>1, <2>2, <2>3 DEF NoLaneNoFiles
<1>4. /\ UNCHANGED <<done, here, cur>>
      /\ pc[p] = "idle" /\ pc' = [pc EXCEPT ![p] = "race"]
      /\ round' = [round EXCEPT ![p] = @ + 1] /\ clock' = [clock EXCEPT ![p] = 0]
      /\ seen' = [seen EXCEPT ![p] = {}] /\ verdict' = [verdict EXCEPT ![p] = "none"]
      /\ \A h \in Holder : at'[h] = IF h[1] = p THEN "pass" ELSE at[h]
  BY DEF Stage
<1>5. /\ \A k \in Lane : lane'[k] = IF k = l THEN "open" ELSE lane[k]
      /\ \A k \in Lane : items'[k] = IF k = l THEN written ELSE items[k]
      /\ \A q \in Process : /\ pc'[q] = IF q = p THEN "race" ELSE pc[q]
                            /\ round'[q] = IF q = p THEN round[p] + 1 ELSE round[q]
                            /\ clock'[q] = IF q = p THEN 0 ELSE clock[q]
                            /\ dropped'[q] = IF q = p THEN written ELSE dropped[q]
                            /\ seen'[q] = IF q = p THEN {} ELSE seen[q]
                            /\ verdict'[q] = IF q = p THEN "none" ELSE verdict[q]
                            /\ q # p => broken'[q] = broken[q]
  BY <1>1, <1>2, <1>3, <1>4 DEF TypeOK
<1>6. \A q \in Process : <<q, round'[q]>> = IF q = p THEN l ELSE Own(q)
  BY <1>5 DEF Own
<1>7. \A k \in Lane : lane[k] = "open" => k[1] # p /\ k # l
  BY <1>3, <1>4 DEF OpenIsOwn
<1>8. \A q \in Process : q # p => Own(q) # l
  BY DEF Own
<1>9. OwnOpen'
  <2>1. \A q \in Process : pc'[q] \in {"race", "settle", "check"} =>
            lane'[<<q, round'[q]>>] = "open"
    <3> SUFFICES ASSUME NEW q \in Process, pc'[q] \in {"race", "settle", "check"}
                 PROVE  lane'[<<q, round'[q]>>] = "open"
      OBVIOUS
    <3>1. CASE q = p
      BY <1>3, <1>5, <1>6, <3>1
    <3>2. CASE q # p
      <4>1. lane[Own(q)] = "open" /\ Own(q) \in Lane
        BY <1>5, <3>2 DEF OwnOpen, OwnLane
      <4> QED BY <1>5, <1>6, <1>8, <3>2, <4>1
    <3> QED BY <3>1, <3>2
  <2> QED BY <2>1 DEF OwnOpen, Own
<1>10. OpenIsOwn'
  BY <1>3, <1>5, <1>7, Parts DEF OpenIsOwn
<1>11. \A h \in Holder : at'[h] \in {"read", "sign", "write", "consume"} /\ lane'[here[h]] = "open" =>
         /\ at'[h] = at[h] /\ h[1] # p /\ here[h] # l /\ lane[here[h]] = "open"
         /\ here[h][1] # p
  <2> SUFFICES ASSUME NEW h \in Holder, at'[h] \in {"read", "sign", "write", "consume"},
                      lane'[here[h]] = "open"
               PROVE  /\ at'[h] = at[h] /\ h[1] # p /\ here[h] # l /\ lane[here[h]] = "open"
                      /\ here[h][1] # p
    OBVIOUS
  <2>1. at'[h] = at[h] /\ h[1] # p
    BY <1>4
  <2>2. here[h] \in Lane /\ here[h] # l
    BY <1>3, <2>1 DEF ReadersVisitLanes, Inside, TypeOK
  <2> QED BY <1>5, <1>7, <2>1, <2>2
<1>12. KeyProgress'
  BY <1>4, <1>5, <1>11, Parts DEF KeyProgress, Holding
<1>13. KeyOrderWhileOpen' /\ OneRecord'
  BY <1>3, <1>4, <1>5 DEF KeyOrderWhileOpen, OneRecord
<1>14. OnlyDropped'
  <2>1. \A k \in Lane : lane'[k] = "open" =>
          /\ items'[k] \subseteq dropped'[k[1]]
          /\ \A d \in done'[k] : d.item \in dropped'[k[1]]
    BY <1>3, <1>4, <1>5, <1>7, Parts DEF OnlyDropped
  <2>2. \A h \in Holder : at'[h] = "sign" /\ lane'[here[h]] = "open" =>
          cur[h] \in dropped'[here[h][1]]
    BY <1>5, <1>11, LaneParts DEF OnlyDropped
  <2> QED BY <1>4, <2>1, <2>2 DEF OnlyDropped
<1>15. ConsumerSigned'
  BY <1>4, <1>11 DEF ConsumerSigned, Signed
<1>16. ConsumedIsSigned'
  <2> SUFFICES ASSUME Faulty = {}, NEW k \in Lane, lane'[k] = "open"
               PROVE  dropped'[k[1]] \ items'[k] \subseteq {d.item : d \in done[k]}
    BY <1>4 DEF ConsumedIsSigned
  <2>1. CASE k = l
    BY <1>3, <1>5, <2>1
  <2>2. CASE k # l
    BY <1>5, <1>7, <2>2, Parts DEF ConsumedIsSigned
  <2> QED BY <2>1, <2>2
<1>17. SeenIsSigned'
  <2>1. \A q \in Process : pc'[q] = "check" =>
           \A d \in seen'[q] : \E e \in done[<<q, round'[q]>>] : e.item = d.item
    BY <1>5, <1>6 DEF SeenIsSigned
  <2> QED BY <1>4, <2>1 DEF SeenIsSigned, Own
<1>18. SeenBreach' /\ VerdictOfSeen'
  BY <1>5 DEF SeenBreach, VerdictOfSeen, Contended, Duplicated, Misordered, Reversed, Level
<1> QED BY <1>9, <1>10, <1>12, <1>13, <1>14, <1>15, <1>16, <1>17, <1>18

LEMMA LedgerQuiet ==
    ASSUME IInv, LInv, NEW p \in Process,
           StageFails(p) \/ Join(p) \/ SettleRead(p) \/ SettleAgain(p) \/ LeaveLitter(p)
    PROVE  LInv'
<1> USE DEF IInv, LInv
<1>0. UNCHANGED <<lane, items, locks, done, broken, clock, dropped, at, cur, here>>
  BY DEF StageFails, Join, SettleRead, SettleAgain, LeaveLitter, dirVars, readerVars
<1>1. KeyProgress' /\ KeyOrderWhileOpen' /\ OneRecord' /\ OnlyDropped'
  BY <1>0 DEF KeyProgress, KeyOrderWhileOpen, OneRecord, OnlyDropped
<1>2. ConsumerSigned' /\ ConsumedIsSigned'
  BY <1>0 DEF ConsumerSigned, Signed, ConsumedIsSigned
<1>3. OwnOpen' /\ OpenIsOwn' /\ SeenIsSigned' /\ SeenBreach' /\ VerdictOfSeen'
  <2>1. CASE StageFails(p)
    <3>1. /\ pc[p] = "idle" /\ pc' = pc
          /\ \A q \in Process : q # p => /\ round'[q] = round[q] /\ seen'[q] = seen[q]
                                         /\ verdict'[q] = verdict[q]
          /\ seen'[p] = {} /\ verdict'[p] = "missed"
      BY <2>1 DEF StageFails, TypeOK
    <3>2. \A q \in Process : q # p => Own(q)' = Own(q)
      BY <3>1 DEF Own
    <3>3. OwnOpen' /\ SeenIsSigned'
      BY <1>0, <3>1, <3>2 DEF OwnOpen, SeenIsSigned
    <3>4. OpenIsOwn'
      BY <1>0, <3>1, Parts DEF OpenIsOwn
    <3>5. SeenBreach' /\ VerdictOfSeen'
      BY <3>1 DEF SeenBreach, VerdictOfSeen, Contended, Duplicated, Misordered, Reversed, Level
    <3> QED BY <3>3, <3>4, <3>5
  <2>2. CASE Join(p) \/ SettleAgain(p) \/ LeaveLitter(p)
    <3>1. /\ UNCHANGED <<round, seen, verdict>>
          /\ pc[p] \in {"race", "check", "teardown"}
          /\ \/ pc[p] # "teardown" /\ pc' = [pc EXCEPT ![p] = "settle"]
             \/ pc[p] = "teardown" /\ pc' = [pc EXCEPT ![p] = "idle"]
      BY <2>2 DEF Join, SettleAgain, LeaveLitter
    <3>2. OwnOpen' /\ SeenIsSigned'
      BY <1>0, <3>1 DEF OwnOpen, SeenIsSigned, Own, TypeOK
    <3>3. OpenIsOwn'
      <4>1. \A l \in Lane : lane[l] = "open" /\ l[1] = p => l = Own(p)
        BY Parts DEF OpenIsOwn, Own
      <4> QED BY <1>0, <3>1, <4>1, Parts DEF OpenIsOwn, OwnLane, TypeOK
    <3>4. SeenBreach' /\ VerdictOfSeen'
      BY <3>1 DEF SeenBreach, VerdictOfSeen, TypeOK
    <3> QED BY <3>2, <3>3, <3>4
  <2>3. CASE SettleRead(p)
    <3>1. /\ UNCHANGED <<round, verdict>> /\ pc[p] = "settle"
          /\ pc' = [pc EXCEPT ![p] = "check"] /\ seen' = [seen EXCEPT ![p] = done[Own(p)]]
      BY <2>3 DEF SettleRead
    <3>2. OwnOpen' /\ OpenIsOwn' /\ SeenIsSigned'
      BY <1>0, <3>1, Parts DEF OwnOpen, OpenIsOwn, SeenIsSigned, Own, TypeOK
    <3>3. Duplicated(done[Own(p)]) => \E d \in done[Own(p)] : d.injected
      <4>1. Own(p) \in Lane /\ lane[Own(p)] = "open"
        BY <3>1 DEF OwnLane, OwnOpen
      <4> QED BY <4>1, InvOneHolder DEF OneHolderWhileOpen, Duplicated
    <3>4. Misordered(done[Own(p)]) => \E d \in done[Own(p)] : d.injected \/ ~d.written
      <4> SUFFICES ASSUME Misordered(done[Own(p)]),
                          \A d \in done[Own(p)] : ~d.injected /\ d.written
                   PROVE  FALSE
        BY Zenon
      <4>1. Own(p) \in Lane /\ lane[Own(p)] = "open"
        BY <3>1 DEF OwnLane, OwnOpen
      <4>2. \A d \in done[Own(p)] : OrderRead(d) = d.order /\ d.order \in Nat
        BY <4>1, LaneParts DEF OrderRead
      <4>3. \A d, e \in done[Own(p)] :
               d.item[1] = e.item[1] /\ d.item[2] < e.item[2] => d.order < e.order
        BY <4>1 DEF KeyOrderWhileOpen, Misordered
      <4> QED BY <4>2, <4>3 DEF Misordered, Reversed, Level
    <3>5. SeenBreach'
      <4>1. \A q \in Process : seen'[q] = IF q = p THEN done[Own(p)] ELSE seen[q]
        BY <3>1 DEF TypeOK
      <4> QED BY <3>3, <3>4, <4>1 DEF SeenBreach
    <3>6. VerdictOfSeen'
      BY <3>1 DEF VerdictOfSeen, TypeOK
    <3> QED BY <3>2, <3>5, <3>6
  <2> QED BY <2>1, <2>2, <2>3
<1> QED BY <1>1, <1>2, <1>3

LEMMA LedgerConclude ==
    ASSUME IInv, LInv, NEW p \in Process, NEW why, pc[p] = "check", Conclude(p, why)
    PROVE  LInv'
<1> USE DEF IInv, LInv
<1>0. /\ UNCHANGED <<items, locks, done, round, broken, clock, dropped, seen, at, cur, here>>
      /\ lane' = [lane EXCEPT ![Own(p)] = "judged"]
      /\ pc' = [pc EXCEPT ![p] = "teardown"]
  BY DEF Conclude, readerVars
<1>1. Own(p) \in Lane /\ \A l \in Lane : lane'[l] = "open" => lane[l] = "open" /\ l # Own(p)
  BY <1>0 DEF OwnLane, TypeOK
<1>2. \A q \in Process : q # p => Own(q) # Own(p) /\ pc'[q] = pc[q]
  BY <1>0 DEF Own, TypeOK
<1>3. OwnOpen' /\ OpenIsOwn' /\ SeenIsSigned'
  <2>1. \A q \in Process : Own(q)' = Own(q)
    BY <1>0 DEF Own
  <2>2. pc'[p] = "teardown" /\ \A q \in Process : q # p => lane'[Own(q)] = lane[Own(q)]
    BY <1>0, <1>2 DEF TypeOK
  <2>3. OwnOpen' /\ SeenIsSigned'
    BY <1>0, <1>2, <2>1, <2>2 DEF OwnOpen, SeenIsSigned
  <2>4. OpenIsOwn'
    BY <1>0, <1>1, <1>2, <2>2, Parts DEF OpenIsOwn
  <2> QED BY <2>3, <2>4
<1>4. KeyProgress' /\ KeyOrderWhileOpen' /\ OneRecord' /\ OnlyDropped'
  <2>1. \A h \in Holder : here[h] \in Lane
    BY LaneParts
  <2> QED BY <1>0, <1>1, <2>1 DEF KeyProgress, KeyOrderWhileOpen, OneRecord, OnlyDropped
<1>5. ConsumerSigned' /\ ConsumedIsSigned'
  <2>1. \A h \in Holder : here[h] \in Lane
    BY LaneParts
  <2> QED BY <1>0, <1>1, <2>1 DEF ConsumerSigned, Signed, ConsumedIsSigned
<1>6. SeenBreach'
  BY <1>0 DEF SeenBreach
<1>7. VerdictOfSeen'
  <2>1. PICK v \in Judge(seen[p], dropped[p]) : verdict' = [verdict EXCEPT ![p] = v]
    BY DEF Conclude
  <2>2. v \in Contended =>
          Duplicated(seen[p]) \/ (v = "reordered" /\ Misordered(seen[p]))
    BY <2>1 DEF Judge, Contended, Misordered
  <2> QED BY <1>0, <2>1, <2>2 DEF VerdictOfSeen, TypeOK
<1> QED BY <1>3, <1>4, <1>5, <1>6, <1>7

LEMMA LedgerTeardown ==
    ASSUME IInv, LInv, NEW p \in Process, RemoveEntry(p) \/ RemoveLane(p) PROVE LInv'
<1> USE DEF IInv, LInv
<1>0. /\ UNCHANGED <<round, broken, clock, dropped, seen, verdict, at, cur, here>>
      /\ pc[p] = "teardown" /\ (pc' = pc \/ pc' = [pc EXCEPT ![p] = "idle"])
      /\ lane' = lane \/ lane' = [lane EXCEPT ![Own(p)] = "gone"]
  BY DEF RemoveEntry, RemoveLane, procVars, readerVars
<1>1. Own(p) \in Lane /\ lane[Own(p)] # "open"
  BY <1>0 DEF OwnLane
<1>2. \A l \in Lane : lane[l] = "open" =>
         items'[l] = items[l] /\ done'[l] = done[l] /\ lane'[l] = "open"
  BY <1>0, <1>1 DEF RemoveEntry, RemoveLane, TypeOK
<1>3. \A l \in Lane : done'[l] \subseteq done[l] /\ (lane'[l] = "open" => lane[l] = "open")
  BY <1>0, <1>1 DEF RemoveEntry, RemoveLane, TypeOK
<1>4. \A h \in Holder : here[h] \in Lane
  BY LaneParts
<1>5. OwnOpen' /\ OpenIsOwn' /\ SeenIsSigned'
  <2>1. \A q \in Process : /\ Own(q)' = Own(q)
                           /\ pc[q] \in {"race", "settle", "check"} =>
                                 Own(q) \in Lane /\ lane[Own(q)] = "open"
    BY <1>0 DEF Own, OwnOpen, OwnLane
  <2>2. \A q \in Process : pc'[q] = pc[q] \/ (q = p /\ pc'[q] = "idle")
    BY <1>0 DEF TypeOK
  <2>3. OwnOpen' /\ SeenIsSigned'
    BY <1>0, <1>2, <2>1, <2>2 DEF OwnOpen, SeenIsSigned
  <2>4. OpenIsOwn'
    <3>1. \A l \in Lane : lane[l] = "open" => l[1] # p
      BY <1>1, Parts DEF OpenIsOwn, Own
    <3> QED BY <1>0, <1>3, <2>2, <3>1, Parts DEF OpenIsOwn
  <2> QED BY <2>3, <2>4
<1>6. KeyProgress' /\ KeyOrderWhileOpen' /\ OneRecord' /\ OnlyDropped'
  BY <1>0, <1>2, <1>3, <1>4 DEF KeyProgress, KeyOrderWhileOpen, OneRecord, OnlyDropped
<1>7. ConsumerSigned' /\ ConsumedIsSigned'
  BY <1>0, <1>2, <1>3, <1>4 DEF ConsumerSigned, Signed, ConsumedIsSigned
<1>8. SeenBreach' /\ VerdictOfSeen'
  BY <1>0 DEF SeenBreach, VerdictOfSeen, TypeOK
<1> QED BY <1>5, <1>6, <1>7, <1>8

LEMMA LedgerCrash == ASSUME IInv, LInv, NEW p \in Process, Crash(p) PROVE LInv'
<1> USE DEF IInv, LInv
<1>0. /\ UNCHANGED <<lane, items, locks, done, round, broken, clock, dropped, seen, verdict,
                     cur, here>>
      /\ \A q \in Process : pc'[q] = pc[q] \/ pc'[q] = "dead"
      /\ \A h \in Holder : at'[h] = "out" \/ at'[h] = at[h]
  BY DEF Crash, dirVars, TypeOK
<1>1. OwnOpen' /\ OpenIsOwn' /\ SeenIsSigned'
  BY <1>0, Parts DEF OwnOpen, OpenIsOwn, SeenIsSigned, Own
<1>2. KeyProgress' /\ KeyOrderWhileOpen' /\ OneRecord' /\ OnlyDropped'
  BY <1>0 DEF KeyProgress, KeyOrderWhileOpen, OneRecord, OnlyDropped, Holding
<1>3. ConsumerSigned' /\ ConsumedIsSigned'
  BY <1>0 DEF ConsumerSigned, Signed, ConsumedIsSigned
<1>4. SeenBreach' /\ VerdictOfSeen'
  BY <1>0 DEF SeenBreach, VerdictOfSeen
<1> QED BY <1>1, <1>2, <1>3, <1>4

LEMMA LedgerProcess ==
    ASSUME IInv, LInv, NEW p \in Process, ProcessStep(p) PROVE LInv'
<1>1. CASE SettleDone(p) \/ SettleTimeout(p)
  <2>1. pc[p] = "check" /\ \E why : Conclude(p, why)
    BY <1>1 DEF SettleDone, SettleTimeout
  <2> QED BY <2>1, LedgerConclude
<1> QED BY <1>1, LedgerStage, LedgerQuiet, LedgerTeardown DEF ProcessStep

-----------------------------------------------------------------------------
(* Each action of a reader preserves it. *)

\* A reader changes nothing of its process but the clock, and no lane's state.
LEMMA LedgerFrame ==
    ASSUME IInv, LInv, UNCHANGED <<lane, done, pc, round, dropped, seen, verdict>>
    PROVE  /\ OwnOpen' /\ OpenIsOwn' /\ KeyOrderWhileOpen' /\ OneRecord'
           /\ SeenIsSigned' /\ SeenBreach' /\ VerdictOfSeen'
BY DEF LInv, OwnOpen, OpenIsOwn, KeyOrderWhileOpen, OneRecord, SeenIsSigned, SeenBreach,
       VerdictOfSeen, Own

\* The key's next item is a later one.
LEMMA GoOnForwards ==
    ASSUME IInv, NEW h \in Holder, GoOn(h)
    PROVE  /\ \A g \in Holder : g # h => cur'[g] = cur[g] /\ at'[g] = at[g]
           /\ \/ at'[h] = "try"
              \/ at'[h] = "read" /\ cur'[h][1] = cur[h][1] /\ cur'[h][2] = cur[h][2] + 1
BY DEF IInv, TypeOK, GoOn

\* What a reader goes on with keeps its progress: a key nobody signed for, or
\* the key it had, no further back.
LEMMA ProgressKept ==
    ASSUME IInv, LInv, NEW h \in Holder, UNCHANGED <<lane, done, broken, clock>>,
           \A g \in Holder : g # h => at'[g] = at[g] /\ cur'[g] = cur[g] /\ here'[g] = here[g],
           \/ at'[h] \notin Holding
           \/ broken[h[1]]
           \/ /\ here'[h] = here[h]
              /\ Ordered /\ lane[here[h]] = "open" =>
                    \A d \in done[here[h]] : ~d.injected => d.item[1] # cur'[h][1]
           \/ /\ here'[h] = here[h] /\ at[h] \in Holding
              /\ cur'[h][1] = cur[h][1]
              /\ cur'[h][2] = cur[h][2] + 1 \/ (cur'[h] = cur[h] /\ at[h] = "read")
    PROVE  KeyProgress'
<1> SUFFICES ASSUME NEW g \in Holder, at'[g] \in Holding, Ordered, ~broken[g[1]],
                    lane[here'[g]] = "open",
                    NEW d \in done[here'[g]], ~d.injected, d.item[1] = cur'[g][1]
             PROVE  /\ d.order < clock[g[1]]
                    /\ d.item[2] <= cur'[g][2]
                    /\ at'[g] \in {"read", "sign"} => d.item[2] < cur'[g][2]
  BY DEF KeyProgress
<1>1. CASE g # h
  BY <1>1 DEF LInv, KeyProgress
<1>2. CASE g = h
  <2>1. /\ here'[h] = here[h] /\ at[h] \in Holding /\ cur'[h][1] = cur[h][1]
        /\ cur'[h][2] = cur[h][2] + 1 \/ (cur'[h] = cur[h] /\ at[h] = "read")
    BY <1>2
  <2>2. /\ d.order < clock[h[1]] /\ d.item[2] <= cur[h][2]
        /\ at[h] \in {"read", "sign"} => d.item[2] < cur[h][2]
    BY <1>2, <2>1 DEF LInv, KeyProgress
  <2>3. d.item[2] \in Nat /\ cur[h][2] \in Nat
    <3>1. here[h] \in Lane /\ cur[h] \in Item
      BY DEF IInv, TypeOK
    <3> QED BY <1>2, <2>1, <3>1, LaneParts, Parts
  <2> QED BY <1>2, <2>1, <2>2, <2>3
<1> QED BY <1>1, <1>2

LEMMA LedgerWalk ==
    ASSUME IInv, LInv, NEW h \in Holder,
           \/ BeginPass(h) \/ Visit(h) \/ EndPass(h) \/ LeaveLane(h) \/ Lose(h)
           \/ Breach(h) \/ Read(h) \/ ReadGone(h) \/ Claim(h)
    PROVE  LInv'
<1> USE DEF IInv, LInv
<1>0. UNCHANGED <<lane, items, done, pc, round, broken, clock, dropped, seen, verdict>>
  BY DEF BeginPass, Visit, EndPass, LeaveLane, Lose, Breach, Read, ReadGone, Claim, dirVars,
         procVars
<1>1. here[h] \in Lane /\ here[h][1] \in Process /\ cur[h] \in Item /\ h[1] \in Process
  BY LaneParts DEF TypeOK
<1>2. \A g \in Holder : g # h => at'[g] = at[g] /\ cur'[g] = cur[g] /\ here'[g] = here[g]
  <2>1. CASE ReadGone(h)
    BY <2>1, GoOnForwards DEF ReadGone
  <2> QED BY <2>1 DEF BeginPass, Visit, EndPass, LeaveLane, Lose, Breach, Read, Claim, TypeOK
<1>3. /\ at'[h] \notin {"write", "consume"}
      /\ at'[h] = "sign" => here'[h] = here[h] /\ cur'[h] = cur[h] /\ cur[h] \in items[here[h]]
  <2>1. CASE ReadGone(h)
    BY <2>1, GoOnForwards DEF ReadGone
  <2> QED BY <2>1 DEF BeginPass, Visit, EndPass, LeaveLane, Lose, Breach, Read, Claim, TypeOK
<1>4. KeyProgress'
  <2>1. CASE BeginPass(h) \/ Visit(h) \/ EndPass(h) \/ LeaveLane(h) \/ Lose(h)
    <3>1. at'[h] \notin Holding
      BY <2>1 DEF BeginPass, Visit, EndPass, LeaveLane, Lose, Holding, TypeOK
    <3> QED BY <1>0, <1>2, <3>1, ProgressKept
  <2>2. CASE Breach(h)
    BY <1>0, <1>2, <2>2, ProgressKept DEF Breach
  <2>3. CASE Read(h)
    <3>1. here'[h] = here[h] /\ at[h] = "read" /\ cur'[h] = cur[h]
      BY <2>3 DEF Read
    <3> QED BY <1>0, <1>2, <3>1, ProgressKept DEF Holding
  <2>4. CASE ReadGone(h)
    <3>1. here'[h] = here[h] /\ at[h] = "read" /\ GoOn(h)
      BY <2>4 DEF ReadGone
    <3>2. \/ at'[h] = "try"
          \/ at'[h] = "read" /\ cur'[h][1] = cur[h][1] /\ cur'[h][2] = cur[h][2] + 1
      BY <3>1, GoOnForwards
    <3> QED BY <1>0, <1>2, <3>1, <3>2, ProgressKept DEF Holding
  <2>5. CASE Claim(h)
    <3>1. PICK i \in todo[h] : /\ ~Taken(here[h], i) /\ cur' = [cur EXCEPT ![h] = i]
                               /\ at[h] = "try" /\ ~broken[h[1]] /\ here' = here
      BY <2>5 DEF Claim
    <3>2. cur'[h] = i /\ i \in Item
      BY <3>1 DEF TypeOK
    <3>3. Ordered => i = <<i[1], 0>>
      BY <3>1 DEF KeysTried, Inside
    <3>4. ASSUME Ordered, lane[here[h]] = "open", NEW d \in done[here[h]], ~d.injected,
                 d.item[1] = i[1]
          PROVE  FALSE
      <4>1. <<LockOf(d.item), d.holder>> \in locks[here[h]] /\ d.holder \in Holder
        BY <1>1, <3>4, LaneParts DEF RecordHasLock
      <4>2. LockOf(d.item) = i
        BY <3>3, <3>4 DEF LockOf
      <4> QED BY <3>1, <4>1, <4>2 DEF Taken
    <3> QED BY <1>0, <1>2, <3>1, <3>2, <3>4, ProgressKept
  <2> QED BY <2>1, <2>2, <2>3, <2>4, <2>5
<1>5. OnlyDropped'
  <2>1. \A g \in Holder : at'[g] = "sign" /\ lane[here'[g]] = "open" =>
           cur'[g] \in dropped[here'[g][1]]
    BY <1>1, <1>2, <1>3 DEF OnlyDropped
  <2> QED BY <1>0, <2>1 DEF OnlyDropped
<1>6. ConsumerSigned' /\ ConsumedIsSigned'
  BY <1>0, <1>2, <1>3 DEF ConsumerSigned, Signed, ConsumedIsSigned
<1> QED BY <1>0, <1>4, <1>5, <1>6, LedgerFrame

LEMMA LedgerConsume == ASSUME IInv, LInv, NEW h \in Holder, Consume(h) PROVE LInv'
<1> USE DEF IInv, LInv
<1>0. /\ UNCHANGED <<lane, done, pc, round, broken, clock, dropped, seen, verdict, here>>
      /\ at[h] = "consume" /\ GoOn(h)
  BY DEF Consume, procVars
<1>1. here[h] \in Lane
  BY LaneParts
<1>2. /\ \A g \in Holder : g # h => at'[g] = at[g] /\ cur'[g] = cur[g] /\ here'[g] = here[g]
      /\ \/ at'[h] = "try"
         \/ at'[h] = "read" /\ cur'[h][1] = cur[h][1] /\ cur'[h][2] = cur[h][2] + 1
  BY <1>0, GoOnForwards
<1>3. KeyProgress'
  BY <1>0, <1>2, ProgressKept DEF Holding
<1>4. \A l \in Lane : /\ items'[l] \subseteq items[l]
                      /\ \A i \in items[l] \ items'[l] : l = here[h] /\ i = cur[h]
  BY <1>1 DEF Consume, TypeOK
<1>5. OnlyDropped'
  BY <1>0, <1>2, <1>4 DEF OnlyDropped
<1>6. ConsumerSigned'
  BY <1>0, <1>2 DEF ConsumerSigned, Signed
<1>7. ConsumedIsSigned'
  <2> SUFFICES ASSUME Faulty = {}, NEW l \in Lane, lane[l] = "open",
                      NEW i \in dropped[l[1]], i \notin items'[l]
               PROVE  \E d \in done[l] : d.item = i
    BY <1>0 DEF ConsumedIsSigned
  <2>1. CASE i \in items[l]
    BY <1>0, <1>4, <2>1 DEF ConsumerSigned, Signed
  <2>2. CASE i \notin items[l]
    BY <2>2 DEF ConsumedIsSigned
  <2> QED BY <2>1, <2>2
<1> QED BY <1>0, <1>3, <1>5, <1>6, <1>7, LedgerFrame

\* A reader that holds a key in an open lane is the only one that does.
LEMMA KeyIsHis ==
    ASSUME IInv, Ordered, NEW g \in Holder, NEW h \in Holder,
           at[g] \in Holding, at[h] \in Holding, ~broken[g[1]], ~broken[h[1]],
           here[g] = here[h], lane[here[h]] = "open", cur[g][1] = cur[h][1]
    PROVE  g = h
<1>1. <<LockOf(cur[g]), g>> \in locks[here[h]] /\ <<LockOf(cur[h]), h>> \in locks[here[h]]
  BY DEF IInv, HolderHasLock
<1>2. LockOf(cur[g]) = LockOf(cur[h])
  BY DEF LockOf
<1>3. LockOf(cur[h]) \in Item /\ here[h] \in Lane
  BY LockIsItem DEF IInv, TypeOK
<1> QED BY <1>1, <1>2, <1>3 DEF IInv, OneCreator

LEMMA LedgerSign == ASSUME IInv, LInv, NEW h \in Holder, Sign(h) PROVE LInv'
<1> DEFINE new == [item |-> cur[h], holder |-> h, order |-> clock[h[1]],
                   injected |-> Note(h), written |-> FALSE]
<1> USE DEF IInv, LInv
<1>0. /\ UNCHANGED <<lane, items, pc, round, broken, dropped, seen, verdict, here, cur>>
      /\ at[h] = "sign"
  BY DEF Sign
<1>1. /\ here[h] \in Lane /\ here[h][1] \in Process /\ cur[h] \in Item /\ h[1] \in Process
      /\ cur[h][1] \in Key /\ cur[h][2] \in Nat /\ clock[h[1]] \in Nat
  BY LaneParts, Parts DEF TypeOK
<1>2. /\ clock'[h[1]] = clock[h[1]] + 1
      /\ \A q \in Process : clock[q] <= clock'[q] /\ clock[q] \in Nat /\ clock'[q] \in Nat
  BY <1>1 DEF Sign, Advance, TypeOK
<1>3. /\ new.injected = broken[h[1]] /\ new.item = cur[h] /\ new.holder = h
      /\ new.order = clock[h[1]]
  BY DEF Note
<1>4. \/ done' = done /\ at'[h] = "consume" /\ (Faulty = {} /\ lane[here[h]] = "open" => Signed(h))
      \/ done' = [done EXCEPT ![here[h]] = @ \cup {new}] /\ at'[h] = "write" /\ ~Signed(h)
  <2>1. h[1] \in Faulty => Faulty # {}
    OBVIOUS
  <2> QED BY <1>1, <2>1 DEF Sign, Exists, TypeOK
<1>5. \A g \in Holder : g # h => at'[g] = at[g]
  BY DEF Sign, TypeOK
<1> HIDE DEF new
<1>6. /\ \A l \in Lane : done[l] \subseteq done'[l]
      /\ \A l \in Lane : \A d \in done'[l] : d \in done[l] \/ (l = here[h] /\ d = new /\ ~Signed(h))
  <2>1. CASE done' = done
    BY <2>1
  <2>2. CASE done' = [done EXCEPT ![here[h]] = @ \cup {new}] /\ ~Signed(h)
    <3>1. \A l \in Lane : done'[l] = IF l = here[h] THEN done[l] \cup {new} ELSE done[l]
      BY <1>1, <2>2 DEF TypeOK
    <3> QED BY <2>2, <3>1
  <2> QED BY <1>4, <2>1, <2>2
<1>7. KeyProgress'
  <2> SUFFICES ASSUME NEW g \in Holder, at'[g] \in Holding, Ordered, ~broken[g[1]],
                      lane[here[g]] = "open",
                      NEW d \in done'[here[g]], ~d.injected, d.item[1] = cur[g][1]
               PROVE  /\ d.order < clock'[g[1]]
                      /\ d.item[2] <= cur[g][2]
                      /\ at'[g] \in {"read", "sign"} => d.item[2] < cur[g][2]
    BY <1>0 DEF KeyProgress
  <2>1. here[g] \in Lane /\ g[1] \in Process
    BY LaneParts
  <2>2. at[g] \in Holding /\ (g = h => at[g] = "sign" /\ at'[g] \in {"write", "consume"})
    BY <1>0, <1>4, <1>5 DEF Holding
  <2>3. CASE d \in done[here[g]]
    <3>1. /\ d.order < clock[g[1]] /\ d.item[2] <= cur[g][2]
          /\ at[g] \in {"read", "sign"} => d.item[2] < cur[g][2]
      BY <2>2, <2>3 DEF KeyProgress
    <3>2. d.order \in Nat
      BY <2>1, <2>3, LaneParts
    <3> QED BY <1>2, <1>5, <2>1, <2>2, <3>1, <3>2
  <2>4. CASE here[g] = here[h] /\ d = new
    <3>1. ~broken[h[1]] /\ cur[g][1] = cur[h][1]
      BY <1>3, <2>4
    <3>2. g = h
      BY <1>0, <2>2, <2>4, <3>1, KeyIsHis DEF Holding
    <3> QED BY <1>1, <1>2, <1>3, <2>2, <2>4, <3>2
  <2> QED BY <1>6, <2>1, <2>3, <2>4
<1>8. KeyOrderWhileOpen'
  <2> SUFFICES ASSUME Ordered, NEW l \in Lane, lane[l] = "open", NEW d \in done'[l],
                      NEW e \in done'[l], ~d.injected, ~e.injected,
                      d.item[1] = e.item[1], d.item[2] < e.item[2]
               PROVE  d.order < e.order
    BY <1>0 DEF KeyOrderWhileOpen
  <2>1. CASE d \in done[l] /\ e \in done[l]
    BY <2>1 DEF KeyOrderWhileOpen
  <2>2. CASE d \in done[l] /\ l = here[h] /\ e = new
    BY <1>0, <1>3, <2>2 DEF KeyProgress, Holding
  <2>3. CASE d = new /\ l = here[h] /\ e \in done[l]
    <3>1. e.item[2] < cur[h][2] /\ e.item[2] \in Nat
      BY <1>0, <1>3, <2>3, LaneParts DEF KeyProgress, Holding
    <3> QED BY <1>1, <1>3, <2>3, <3>1
  <2>4. CASE d = new /\ e = new
    BY <1>1, <1>3, <2>4
  <2> QED BY <1>6, <2>1, <2>2, <2>3, <2>4
<1>9. OneRecord'
  BY <1>3, <1>6 DEF OneRecord, Signed
<1>10. OnlyDropped'
  <2>1. \A g \in Holder : at'[g] = "sign" => at[g] = "sign"
    BY <1>0, <1>5
  <2>2. lane[here[h]] = "open" => new.item \in dropped[here[h][1]]
    BY <1>0, <1>3 DEF OnlyDropped
  <2> QED BY <1>0, <1>6, <2>1, <2>2 DEF OnlyDropped
<1>11. ConsumerSigned'
  <2> SUFFICES ASSUME Faulty = {}, NEW g \in Holder, at'[g] \in {"write", "consume"},
                      lane[here[g]] = "open"
               PROVE  \E d \in done'[here[g]] : d.item = cur[g] /\ d.holder = g
    BY <1>0 DEF ConsumerSigned, Signed
  <2>1. here[g] \in Lane
    BY LaneParts
  <2>2. CASE g # h
    BY <1>5, <1>6, <2>1, <2>2 DEF ConsumerSigned, Signed
  <2>3. CASE g = h /\ Signed(h)
    BY <1>6, <2>1, <2>3 DEF Signed
  <2>4. CASE g = h /\ ~Signed(h)
    <3>1. done' = [done EXCEPT ![here[h]] = @ \cup {new}]
      BY <1>4, <2>4
    <3>2. new \in done'[here[h]]
      BY <1>1, <3>1 DEF TypeOK
    <3> QED BY <1>3, <2>4, <3>2
  <2> QED BY <2>2, <2>3, <2>4
<1>12. ConsumedIsSigned'
  BY <1>0, <1>6 DEF ConsumedIsSigned
<1>13. SeenIsSigned'
  <2>1. \A p \in Process : pc[p] = "check" => Own(p) \in Lane
    BY DEF OwnLane
  <2> QED BY <1>0, <1>6, <2>1 DEF SeenIsSigned, Own
<1>14. OwnOpen' /\ OpenIsOwn' /\ SeenBreach' /\ VerdictOfSeen'
  BY <1>0 DEF OwnOpen, OpenIsOwn, SeenBreach, VerdictOfSeen, Own
<1> QED BY <1>7, <1>8, <1>9, <1>10, <1>11, <1>12, <1>13, <1>14

LEMMA LedgerWrite == ASSUME IInv, LInv, NEW h \in Holder, WriteRecord(h) PROVE LInv'
<1> DEFINE wrote(d) == IF d.item = cur[h] /\ d.holder = h
                       THEN [d EXCEPT !.written = TRUE] ELSE d
<1> USE DEF IInv, LInv
<1>0. /\ UNCHANGED <<lane, items, pc, round, broken, clock, dropped, seen, verdict, here, cur>>
      /\ at[h] = "write" /\ at'[h] = "consume" /\ \A g \in Holder : g # h => at'[g] = at[g]
  BY DEF WriteRecord, procVars, TypeOK
<1>1. \A d \in Record : /\ wrote(d).injected = d.injected /\ wrote(d).order = d.order
                        /\ wrote(d).item = d.item /\ wrote(d).holder = d.holder
  BY DEF Record
<1>2. here[h] \in Lane /\ done[here[h]] \subseteq Record
  BY DEF TypeOK
<1>3. done' = [done EXCEPT ![here[h]] = {wrote(d) : d \in @}]
  BY DEF WriteRecord
<1> HIDE DEF wrote
<1>4. /\ \A l \in Lane : l # here[h] => done'[l] = done[l]
      /\ done'[here[h]] = {wrote(d) : d \in done[here[h]]}
  BY <1>2, <1>3 DEF TypeOK
<1>5. /\ \A l \in Lane : \A d \in done'[l] : \E e \in done[l] :
            /\ e.injected = d.injected /\ e.order = d.order
            /\ e.item = d.item /\ e.holder = d.holder
      /\ \A l \in Lane : \A d \in done[l] : \E e \in done'[l] :
            e.item = d.item /\ e.holder = d.holder
  BY <1>1, <1>2, <1>4
<1>6. OneRecord'
  <2> SUFFICES ASSUME NEW l \in Lane, NEW d \in done'[l], NEW e \in done'[l],
                      d.item = e.item, d.holder = e.holder
               PROVE  d = e
    BY DEF OneRecord
  <2>1. CASE l # here[h]
    BY <1>4, <2>1 DEF OneRecord
  <2>2. CASE l = here[h]
    <3>1. PICK c \in done[l], f \in done[l] : d = wrote(c) /\ e = wrote(f)
      BY <1>4, <2>2
    <3>2. c = f
      BY <1>1, <1>2, <2>2, <3>1 DEF OneRecord
    <3> QED BY <3>1, <3>2
  <2> QED BY <2>1, <2>2
<1>7. KeyProgress'
  <2> SUFFICES ASSUME NEW g \in Holder, at'[g] \in Holding, Ordered, ~broken[g[1]],
                      lane[here[g]] = "open",
                      NEW d \in done'[here[g]], ~d.injected, d.item[1] = cur[g][1]
               PROVE  /\ d.order < clock[g[1]]
                      /\ d.item[2] <= cur[g][2]
                      /\ at'[g] \in {"read", "sign"} => d.item[2] < cur[g][2]
    BY <1>0 DEF KeyProgress
  <2>1. at[g] \in Holding /\ (at'[g] \in {"read", "sign"} => at[g] \in {"read", "sign"})
    BY <1>0 DEF Holding
  <2>2. here[g] \in Lane
    BY LaneParts
  <2>3. PICK e \in done[here[g]] : e.injected = d.injected /\ e.order = d.order /\ e.item = d.item
    BY <1>5, <2>2
  <2> QED BY <2>1, <2>3 DEF KeyProgress
<1>8. KeyOrderWhileOpen'
  <2> SUFFICES ASSUME Ordered, NEW l \in Lane, lane[l] = "open", NEW d \in done'[l],
                      NEW e \in done'[l], ~d.injected, ~e.injected,
                      d.item[1] = e.item[1], d.item[2] < e.item[2]
               PROVE  d.order < e.order
    BY <1>0 DEF KeyOrderWhileOpen
  <2>1. PICK c \in done[l] : c.injected = d.injected /\ c.order = d.order /\ c.item = d.item
    BY <1>5
  <2>2. PICK f \in done[l] : f.injected = e.injected /\ f.order = e.order /\ f.item = e.item
    BY <1>5
  <2> QED BY <2>1, <2>2 DEF KeyOrderWhileOpen
<1>9. OnlyDropped'
  <2>1. \A g \in Holder : at'[g] = "sign" => at[g] = "sign"
    BY <1>0
  <2>2. \A l \in Lane : lane[l] = "open" => \A d \in done'[l] : d.item \in dropped[l[1]]
    BY <1>5 DEF OnlyDropped
  <2> QED BY <1>0, <2>1, <2>2 DEF OnlyDropped
<1>10. ConsumerSigned'
  <2> SUFFICES ASSUME Faulty = {}, NEW g \in Holder, at'[g] \in {"write", "consume"},
                      lane[here[g]] = "open"
               PROVE  \E d \in done'[here[g]] : d.item = cur[g] /\ d.holder = g
    BY <1>0 DEF ConsumerSigned, Signed
  <2>1. here[g] \in Lane /\ at[g] \in {"write", "consume"}
    BY <1>0, LaneParts
  <2>2. PICK d \in done[here[g]] : d.item = cur[g] /\ d.holder = g
    BY <2>1 DEF ConsumerSigned, Signed
  <2> QED BY <1>5, <2>1, <2>2
<1>11. ConsumedIsSigned'
  <2> SUFFICES ASSUME Faulty = {}, NEW l \in Lane, lane[l] = "open",
                      NEW i \in dropped[l[1]], i \notin items[l]
               PROVE  \E d \in done'[l] : d.item = i
    BY <1>0 DEF ConsumedIsSigned
  <2>1. \E d \in done[l] : d.item = i
    BY DEF ConsumedIsSigned
  <2> QED BY <1>5, <2>1
<1>12. SeenIsSigned'
  <2> SUFFICES ASSUME NEW p \in Process, pc[p] = "check", NEW d \in seen[p]
               PROVE  \E e \in done'[Own(p)] : e.item = d.item
    BY <1>0 DEF SeenIsSigned, Own
  <2>1. Own(p) \in Lane
    BY DEF OwnLane
  <2>2. PICK e \in done[Own(p)] : e.item = d.item
    BY DEF SeenIsSigned
  <2> QED BY <1>5, <2>1, <2>2
<1>13. OwnOpen' /\ OpenIsOwn' /\ SeenBreach' /\ VerdictOfSeen'
  BY <1>0 DEF OwnOpen, OpenIsOwn, SeenBreach, VerdictOfSeen, Own
<1> QED BY <1>6, <1>7, <1>8, <1>9, <1>10, <1>11, <1>12, <1>13

-----------------------------------------------------------------------------
(* The invariant and what it implies. *)

LEMMA LedgerNext == IInv /\ LInv /\ [Next]_vars => LInv'
<1> SUFFICES ASSUME IInv, LInv, [Next]_vars PROVE LInv' OBVIOUS
<1>1. CASE UNCHANGED vars
  <2>1. UNCHANGED <<lane, items, done, pc, round, broken, clock, dropped, seen, verdict, at,
                    here, cur>>
    BY <1>1 DEF vars, dirVars, procVars, readerVars
  <2>2. KeyProgress' /\ OnlyDropped' /\ ConsumerSigned' /\ ConsumedIsSigned'
    BY <2>1 DEF LInv, KeyProgress, OnlyDropped, ConsumerSigned, Signed, ConsumedIsSigned
  <2> QED BY <2>1, <2>2, LedgerFrame DEF LInv
<1>2. ASSUME NEW p \in Process, ProcessStep(p) \/ Crash(p) PROVE LInv'
  <2>1. CASE ProcessStep(p) BY <2>1, LedgerProcess
  <2>2. CASE Crash(p) BY <2>2, LedgerCrash
  <2> QED BY <1>2, <2>1, <2>2
<1>3. ASSUME NEW h \in Holder, ReaderStep(h) PROVE LInv'
  BY <1>3, LedgerWalk, LedgerConsume, LedgerSign, LedgerWrite DEF ReaderStep
<1> QED BY <1>1, <1>2, <1>3 DEF Next

LEMMA LedgerInvariance == Spec => [](IInv /\ LInv)
<1>1. Init => IInv /\ LInv
  BY InitInv, LedgerInit
<1>2. IInv /\ LInv /\ [Next]_vars => (IInv /\ LInv)'
  BY NextInv, LedgerNext
<1> QED BY <1>1, <1>2, PTL DEF Spec

\* One holder per key keeps its order (pickup.rs, per_key): the honest records
\* of one key of an open lane carry orders that grow with the sequence.
THEOREM OrderIsKept == Spec => []KeyOrderWhileOpen
<1>1. LInv => KeyOrderWhileOpen
  BY DEF LInv
<1> QED BY <1>1, LedgerInvariance, PTL

\* process() signs before it removes (pickup.rs): where no open fails for
\* another reason, an item gone from an open lane has its done record, also
\* when the holder was killed half way.
THEOREM SignedBeforeConsumed == Spec => []ConsumedIsSigned
<1>1. LInv => ConsumedIsSigned
  BY DEF LInv
<1> QED BY <1>1, LedgerInvariance, PTL

\* judge() (exclusive_claim.rs) reports a contention, of two holders or of a
\* sequence reordered, only over records of which one was signed by a reader that
\* took no lock, or, of a sequence, was not yet written when it was read.
THEOREM BreachIsInjected == Spec => []ContentionIsInjected
<1>1. LInv => ContentionIsInjected
  BY DEF LInv, SeenBreach, VerdictOfSeen, ContentionIsInjected
<1> QED BY <1>1, LedgerInvariance, PTL

\* Counting the items signed against the items dropped (judge, the missed
\* count) is enough: as only dropped items are signed, no fewer of them is all.
LEMMA CountedIsAll ==
    ASSUME NEW ds, NEW laid \in SUBSET Item, \A d \in ds : d.item \in laid, ~Missed(ds, laid)
    PROVE  \A i \in laid : \E d \in ds : d.item = i
<1> DEFINE named == {d.item : d \in ds}
<1>1. IsFiniteSet(0 .. PerKey - 1)
  BY ConstantsAssumption, FS_Interval
<1>2. IsFiniteSet(Item)
  BY <1>1, ConstantsAssumption, FS_Product DEF Item
<1>3. IsFiniteSet(laid)
  BY <1>2, FS_Subset
<1>4. named \subseteq laid
  OBVIOUS
<1>5. Cardinality(named) <= Cardinality(laid) /\ IsFiniteSet(named)
  BY <1>3, <1>4, FS_Subset
<1>6. ~(Cardinality(named) < Cardinality(laid))
  BY DEF Missed
<1>7. Cardinality(named) \in Nat /\ Cardinality(laid) \in Nat
  BY <1>3, <1>5, FS_CardinalityType
<1>8. Cardinality(named) = Cardinality(laid)
  BY <1>5, <1>6, <1>7
<1>9. named = laid
  BY <1>3, <1>4, <1>8, FS_Subset
<1> QED BY <1>9

\* A claim judge() reports as held (exclusive_claim.rs) was one holder's for
\* each item that was dropped, as the records stand when it is reported.
THEOREM HeldIsHeld == Spec => HeldMeansOneHolder
<1> DEFINE Held(p) ==
      /\ pc[p] = "check" /\ pc'[p] = "teardown" /\ verdict'[p] = "held"
      /\ \A d \in done[Own(p)] : ~d.injected
      => \A i \in dropped[p] : Cardinality({d \in done[Own(p)] : d.item = i}) = 1
<1>1. IInv /\ LInv /\ [Next]_vars => [\A p \in Process : Held(p)]_vars
  <2> SUFFICES ASSUME IInv, LInv, Next, NEW p \in Process,
                      pc[p] = "check", pc'[p] = "teardown", verdict'[p] = "held",
                      \A d \in done[Own(p)] : ~d.injected, NEW i \in dropped[p]
               PROVE  Cardinality({d \in done[Own(p)] : d.item = i}) = 1
    OBVIOUS
  <2>1. \E v \in Judge(seen[p], dropped[p]) : verdict' = [verdict EXCEPT ![p] = v]
    <3>1. ASSUME NEW q \in Process, ProcessStep(q) \/ Crash(q)
          PROVE  SettleDone(p) \/ SettleTimeout(p)
      <4>1. pc \in [Process -> {"idle", "race", "settle", "check", "teardown", "dead"}]
        BY DEF IInv, TypeOK
      <4>2. CASE Stage(q) \/ StageFails(q) \/ Join(q) \/ SettleRead(q) \/ SettleAgain(q)
        BY <4>1, <4>2 DEF Stage, StageFails, Join, SettleRead, SettleAgain
      <4>3. CASE RemoveEntry(q) \/ RemoveLane(q) \/ LeaveLitter(q) \/ Crash(q)
        BY <4>1, <4>3 DEF RemoveEntry, RemoveLane, LeaveLitter, Crash, procVars
      <4>4. CASE SettleDone(q) \/ SettleTimeout(q)
        BY <4>1, <4>4 DEF SettleDone, SettleTimeout, Conclude
      <4> QED BY <3>1, <4>2, <4>3, <4>4 DEF ProcessStep
    <3>2. ASSUME NEW h \in Holder, ReaderStep(h) PROVE FALSE
      <4>1. pc' = pc
        BY <3>2 DEF ReaderStep, BeginPass, Visit, EndPass, Claim, Lose, Breach, LeaveLane,
                    Read, ReadGone, Sign, WriteRecord, Consume, procVars
      <4> QED BY <4>1
    <3>3. SettleDone(p) \/ SettleTimeout(p)
      BY <3>1, <3>2 DEF Next
    <3> QED BY <3>3 DEF SettleDone, SettleTimeout, Conclude
  <2>2. "held" \in Judge(seen[p], dropped[p])
    BY <2>1 DEF IInv, TypeOK
  <2>3. ~Missed(seen[p], dropped[p])
    BY <2>2 DEF Judge
  <2>4. Own(p) \in Lane /\ lane[Own(p)] = "open" /\ Own(p)[1] = p
    BY DEF IInv, OwnLane, LInv, OwnOpen, Own
  <2>5. dropped[p] \in SUBSET Item
    BY DEF IInv, TypeOK
  <2>6. \A d \in seen[p] : d.item \in dropped[p]
    BY <2>4 DEF LInv, SeenIsSigned, OnlyDropped
  <2>7. PICK s \in seen[p] : s.item = i
    BY <2>3, <2>5, <2>6, CountedIsAll
  <2>8. PICK d \in done[Own(p)] : d.item = i
    BY <2>7 DEF LInv, SeenIsSigned
  <2>9. \A e \in done[Own(p)] : e.item = i => e = d
    <3>1. \A e \in done[Own(p)] : e.item = i => e.holder = d.holder
      BY <2>4, <2>8, InvOneHolder DEF OneHolderWhileOpen
    <3> QED BY <2>4, <2>8, <3>1 DEF LInv, OneRecord
  <2>10. {e \in done[Own(p)] : e.item = i} = {d}
    BY <2>8, <2>9
  <2> QED BY <2>10, FS_Singleton
<1> QED BY <1>1, LedgerInvariance, PTL DEF Spec, HeldMeansOneHolder
=============================================================================
