------------------------- MODULE ProcessTreeProofs -------------------------
(***************************************************************************)
(* The process tree leaves no orphans, for every number of nodes and every *)
(* length of the waits, where the waits nest and the cluster starts in     *)
(* time.  The invariant bounds how long the roll can have been waiting by  *)
(* where the cluster is on its way out.                                    *)
(***************************************************************************)
EXTENDS ProcessTree, TLAPS

\* The cluster was up when it was asked to leave, and has not left.
AskedUp == roll = "waits" /\ ~missed /\ ctl # "gone"

\* The file is there for as long as the cluster has to see it.
FileStays == AskedUp => ctl # "boot" /\ stopFile

\* The roll asked since the cluster last looked.
AskedSinceLook == AskedUp /\ ctl \in {"spawn", "look", "tick"} => rollAge <= since

AskedBeforeStop == AskedUp /\ ctl = "stop" => rollAge <= Busy + since

AskedBeforeKill == AskedUp /\ ctl = "kill" => rollAge <= Busy + NodeWait + since

\* The members below the one being killed are dead.
KilledInOrder == ctl = "kill" => \A n \in Node : n < at => node[n] # "up"

\* The history is of the asking.
NotAsked == roll = "rolls" => ~missed

WaitInv == NotAsked /\ FileStays /\ AskedSinceLook /\ AskedBeforeStop /\ AskedBeforeKill

TreeInv == TypeOK /\ WaitInv /\ KilledInOrder /\ NoOrphansOnceUp

LEMMA LaterType ==
    ASSUME NEW t \in Nat
    PROVE  Later(t) \in Nat /\ Later(t) <= t + 1
  BY TreeAssumption DEF Later, Horizon

LEMMA TypeInit == Init => TypeOK
<1> SUFFICES ASSUME Init PROVE TypeOK
  OBVIOUS
<1>1. since \in Nat /\ since <= Allowed /\ at \in 1 .. Size + 1 /\ rollAge \in Nat
  BY TreeAssumption DEF Init, Allowed
<1> QED
  BY <1>1 DEF Init, TypeOK

LEMMA TypeStep == TypeOK /\ [Next]_vars => TypeOK'
<1> SUFFICES ASSUME TypeOK, [Next]_vars PROVE TypeOK'
  OBVIOUS
<1> USE TreeAssumption DEF TypeOK, Allowed, StopWait
<1>1. CASE RollTick
  BY <1>1 DEF RollTick, Heard, clusterVars
<1>2. CASE AskToLeave
  BY <1>2 DEF AskToLeave, clusterVars
<1>3. CASE RollLeaves
  BY <1>3 DEF RollLeaves, Cleared, clusterVars
<1>4. CASE RollKills
  BY <1>4 DEF RollKills, Cleared
<1>5. CASE Clear
  <2>1. since' \in Nat /\ Allowed' = Busy /\ since' <= Allowed'
    BY <1>5 DEF Clear
  <2> QED
    BY <1>5, <2>1 DEF Clear, rollVars
<1>6. CASE SpawnNode
  BY <1>6 DEF SpawnNode, Named, Node, rollVars
<1>7. CASE Spawned
  BY <1>7 DEF Spawned, rollVars
<1>8. CASE SpawnFails
  BY <1>8 DEF SpawnFails, rollVars
<1>9. CASE Look
  BY <1>9 DEF Look, rollVars
<1>10. CASE Tick
  BY <1>10 DEF Tick, rollVars
<1>11. CASE EndWait
  BY <1>11 DEF EndWait, rollVars
<1>12. CASE KillNode
  BY <1>12 DEF KillNode, Kills, Node, rollVars
<1>13. CASE ClusterExits
  BY <1>13 DEF ClusterExits, rollVars
<1>14. CASE \E n \in Node : NodeLeaves(n) \/ NodeCrashes(n)
  BY <1>14 DEF NodeLeaves, NodeCrashes, rollVars, clusterVars
<1>15. CASE Time
  BY <1>15, LaterType DEF Time
<1>16. CASE UNCHANGED vars
  BY <1>16 DEF vars, rollVars, clusterVars
<1> QED
  BY <1>1, <1>2, <1>3, <1>4, <1>5, <1>6, <1>7, <1>8, <1>9, <1>10, <1>11, <1>12,
     <1>13, <1>14, <1>15, <1>16 DEF Next, RollStep, ClusterStep

LEMMA WaitStep == WaitsNest /\ TreeInv /\ [Next]_vars => WaitInv'
<1> SUFFICES ASSUME WaitsNest, TreeInv, [Next]_vars PROVE WaitInv'
  OBVIOUS
<1> USE TreeAssumption DEF TypeOK, TreeInv, WaitInv, NotAsked, AskedUp, FileStays, AskedSinceLook,
        AskedBeforeStop, AskedBeforeKill
<1>1. CASE RollTick
  BY <1>1 DEF RollTick, clusterVars
<1>2. CASE AskToLeave
  <2>1. ctl' = ctl /\ since' = since /\ roll' = "waits" /\ rollAge' = 0
    BY <1>2 DEF AskToLeave, clusterVars
  <2>2. missed' = (ctl = "boot" \/ ~stopFile')
    BY <1>2, Zenon DEF AskToLeave
  <2>3. ~missed' => ctl # "boot" /\ stopFile'
    BY <2>2, Zenon
  <2> QED
    BY <2>1, <2>3
<1>3. CASE RollLeaves
  BY <1>3 DEF RollLeaves, Cleared
<1>4. CASE RollKills
  BY <1>4 DEF RollKills, Cleared
<1>5. CASE Clear
  BY <1>5 DEF Clear, rollVars
<1>6. CASE SpawnNode
  BY <1>6 DEF SpawnNode, rollVars
<1>7. CASE Spawned
  BY <1>7 DEF Spawned, rollVars
<1>8. CASE SpawnFails
  BY <1>8 DEF SpawnFails, rollVars, Allowed
<1>9. CASE Look
  BY <1>9 DEF Look, rollVars, Allowed
<1>10. CASE Tick
  BY <1>10 DEF Tick, rollVars
<1>11. CASE EndWait
  BY <1>11 DEF EndWait, rollVars, Allowed, StopWait
<1>12. CASE KillNode
  BY <1>12 DEF KillNode, rollVars
<1>13. CASE ClusterExits
  BY <1>13 DEF ClusterExits, rollVars
<1>14. CASE \E n \in Node : NodeLeaves(n) \/ NodeCrashes(n)
  BY <1>14 DEF NodeLeaves, NodeCrashes, rollVars, clusterVars
<1>15. CASE Time
  BY <1>15, LaterType DEF Time
<1>16. CASE UNCHANGED vars
  BY <1>16 DEF vars, rollVars, clusterVars
<1> QED
  BY <1>1, <1>2, <1>3, <1>4, <1>5, <1>6, <1>7, <1>8, <1>9, <1>10, <1>11, <1>12,
     <1>13, <1>14, <1>15, <1>16 DEF Next, RollStep, ClusterStep

\* The one step that could orphan a node, the roll killing the cluster, is
\* not taken of a cluster that was up: it would still be within its own wait.
LEMMA NeverKilledWaiting ==
    ASSUME WaitsNest, TreeInv, RollKills
    PROVE  missed
  BY TreeAssumption DEF WaitsNest, TreeInv, TypeOK, WaitInv, AskedUp, FileStays, AskedSinceLook,
     AskedBeforeStop, AskedBeforeKill, RollKills, Allowed, StopWait

LEMMA KillStep == WaitsNest /\ TreeInv /\ [Next]_vars => KilledInOrder' /\ NoOrphansOnceUp'
<1> SUFFICES ASSUME WaitsNest, TreeInv, [Next]_vars PROVE KilledInOrder' /\ NoOrphansOnceUp'
  OBVIOUS
<1> USE TreeAssumption DEF TypeOK, TreeInv, KilledInOrder, NoOrphansOnceUp, Node
<1>1. CASE RollTick
  BY <1>1 DEF RollTick, clusterVars
<1>2. CASE AskToLeave
  <2>1. ~missed
    BY <1>2 DEF AskToLeave, WaitInv, NotAsked
  <2> QED
    BY <1>2, <2>1 DEF AskToLeave, clusterVars
<1>3. CASE RollLeaves
  BY <1>3 DEF RollLeaves, Cleared, clusterVars
<1>4. CASE RollKills
  BY <1>4, NeverKilledWaiting DEF RollKills
<1>5. CASE Clear
  BY <1>5 DEF Clear
<1>6. CASE SpawnNode
  BY <1>6 DEF SpawnNode
<1>7. CASE Spawned
  BY <1>7 DEF Spawned
<1>8. CASE SpawnFails
  BY <1>8 DEF SpawnFails
<1>9. CASE Look
  BY <1>9 DEF Look
<1>10. CASE Tick
  BY <1>10 DEF Tick
<1>11. CASE EndWait
  BY <1>11 DEF EndWait
<1>12. CASE KillNode
  BY <1>12 DEF KillNode, Kills
<1>13. CASE ClusterExits
  BY <1>13 DEF ClusterExits
<1>14. CASE \E n \in Node : NodeLeaves(n) \/ NodeCrashes(n)
  BY <1>14 DEF NodeLeaves, NodeCrashes, rollVars, clusterVars
<1>15. CASE Time
  BY <1>15 DEF Time
<1>16. CASE UNCHANGED vars
  BY <1>16 DEF vars, rollVars, clusterVars
<1> QED
  BY <1>1, <1>2, <1>3, <1>4, <1>5, <1>6, <1>7, <1>8, <1>9, <1>10, <1>11, <1>12,
     <1>13, <1>14, <1>15, <1>16 DEF Next, RollStep, ClusterStep

\* Every state of the process tree is of its type.
THEOREM TreeTypeCorrect == Spec => []TypeOK
<1> QED
  BY TypeInit, TypeStep, PTL DEF Spec

\* A cluster that was up when the roll's stop file was written takes all its nodes
\* with it (Cluster::stop, Spawned::stop), however many they are and whatever
\* they do, because the waits nest.
THEOREM TreeLeavesNoOrphans == WaitsNest => (Spec => []NoOrphansOnceUp)
<1> SUFFICES ASSUME WaitsNest PROVE Spec => []NoOrphansOnceUp
  OBVIOUS
<1>1. Init => TreeInv
  BY TypeInit DEF Init, TreeInv, WaitInv, NotAsked, AskedUp, FileStays,
     AskedSinceLook, AskedBeforeStop, AskedBeforeKill, KilledInOrder, NoOrphansOnceUp
<1>2. TreeInv /\ [Next]_vars => TreeInv'
  BY TypeStep, WaitStep, KillStep DEF TreeInv
<1>3. TreeInv => NoOrphansOnceUp
  BY DEF TreeInv
<1> QED
  BY <1>1, <1>2, <1>3, PTL DEF Spec

\* Before the roll's first tick is over the cluster has left its start behind,
\* so a cluster that starts in time is never asked too early.
InTime ==
    /\ ~missed
    /\ roll = "rolls" /\ ctl = "boot" =>
          ~ticked /\ ~published /\ rollAge <= since

LEMMA InTimeStep ==
    StartsInTime /\ TypeOK /\ InTime /\ [Next]_vars => InTime'
<1> SUFFICES ASSUME StartsInTime, TypeOK, InTime, [Next]_vars PROVE InTime'
  OBVIOUS
<1> USE TreeAssumption DEF TypeOK, InTime
<1>1. CASE RollTick
  BY <1>1 DEF RollTick, Heard, StartsInTime, Allowed, clusterVars
<1>2. CASE AskToLeave
  <2>1. ctl # "boot" /\ roll' = "waits"
    BY <1>2 DEF AskToLeave
  <2>2. stopFile' = TRUE
    <3>1. PICK written \in IF Unwritable THEN BOOLEAN ELSE {TRUE} :
             stopFile' = (stopFile \/ written)
      BY <1>2, Zenon DEF AskToLeave
    <3>2. written = TRUE
      BY <3>1, Zenon DEF StartsInTime
    <3> QED
      BY <3>1, <3>2, Zenon
  <2>3. missed' = (ctl = "boot" \/ ~stopFile')
    BY <1>2, Zenon DEF AskToLeave
  <2>4. ~missed'
    BY <2>1, <2>2, <2>3, Zenon
  <2> QED
    BY <2>1, <2>4
<1>3. CASE RollLeaves \/ RollKills
  BY <1>3 DEF RollLeaves, RollKills, Cleared
<1>4. CASE ClusterStep
  <2>1. ctl' # "boot"
    BY <1>4 DEF ClusterStep, Clear, SpawnNode, Spawned, SpawnFails, Look, Tick, EndWait,
       KillNode, ClusterExits
  <2>2. UNCHANGED rollVars
    BY <1>4 DEF ClusterStep, Clear, SpawnNode, Spawned, SpawnFails, Look, Tick, EndWait,
       KillNode, ClusterExits
  <2> QED
    BY <2>1, <2>2 DEF rollVars
<1>5. CASE \E n \in Node : NodeLeaves(n) \/ NodeCrashes(n)
  BY <1>5 DEF NodeLeaves, NodeCrashes, rollVars, clusterVars
<1>6. CASE Time
  BY <1>6, LaterType DEF Time
<1>7. CASE UNCHANGED vars
  BY <1>7 DEF vars, rollVars, clusterVars
<1> QED
  BY <1>1, <1>2, <1>3, <1>4, <1>5, <1>6, <1>7 DEF Next, RollStep

\* "No orphans" without exception, where the waits nest, the cluster starts
\* within the roll's first tick of it and the stop file can be written.
THEOREM PromptTreeLeavesNoOrphans ==
    WaitsNest /\ StartsInTime => (Spec => []NoOrphans)
<1> SUFFICES ASSUME WaitsNest, StartsInTime PROVE Spec => []NoOrphans
  OBVIOUS
<1>1. Init => InTime
  BY DEF Init, InTime, StartsInTime
<1>2. NoOrphansOnceUp /\ InTime => NoOrphans
  BY DEF NoOrphansOnceUp, InTime, NoOrphans
<1> QED
  BY <1>1, <1>2, InTimeStep, TreeTypeCorrect, TreeLeavesNoOrphans, PTL DEF Spec

\* A cluster that was up when it was asked to leave is past its start, where
\* alone a stop file is cleared.
PastStart == roll = "waits" /\ ~missed => ctl # "boot"

\* "The cluster is asked first, so it stops its own" (spawned.rs:175), whatever
\* the waits: the stop file written to a cluster that is up stays until the
\* cluster is gone.
THEOREM AskedStaysAsked == Spec => AskedIsHeard
<1>1. Init => PastStart
  BY DEF Init, PastStart
<1>2. PastStart /\ [Next]_vars =>
        PastStart' /\ (roll = "waits" /\ ~missed /\ stopFile /\ ctl' # "gone" => stopFile')
  <2> SUFFICES ASSUME PastStart, [Next]_vars
               PROVE  PastStart' /\ (roll = "waits" /\ ~missed /\ stopFile /\ ctl' # "gone" => stopFile')
    OBVIOUS
  <2> USE DEF PastStart
  <2>1. CASE RollStep
    <3>1. CASE RollTick
      BY <3>1 DEF RollTick, clusterVars
    <3>2. CASE AskToLeave
      BY <3>2 DEF AskToLeave, clusterVars
    <3>3. CASE RollLeaves
      BY <3>3 DEF RollLeaves, Cleared, clusterVars
    <3>4. CASE RollKills
      BY <3>4 DEF RollKills, Cleared
    <3> QED
      BY <2>1, <3>1, <3>2, <3>3, <3>4 DEF RollStep
  <2>2. CASE Clear
    BY <2>2 DEF Clear, rollVars
  <2>3. CASE ClusterStep /\ ~Clear
    <3>1. ctl' # "boot"
      BY <2>3 DEF ClusterStep, SpawnNode, Spawned, SpawnFails, Look, Tick, EndWait,
         KillNode, ClusterExits
    <3>2. UNCHANGED <<rollVars, stopFile>>
      BY <2>3 DEF ClusterStep, SpawnNode, Spawned, SpawnFails, Look, Tick, EndWait,
         KillNode, ClusterExits
    <3> QED
      BY <3>1, <3>2
  <2>4. CASE \E n \in Node : NodeLeaves(n) \/ NodeCrashes(n)
    BY <2>4 DEF NodeLeaves, NodeCrashes, rollVars, clusterVars
  <2>5. CASE Time
    BY <2>5 DEF Time
  <2>6. CASE UNCHANGED vars
    BY <2>6 DEF vars, rollVars, clusterVars
  <2> QED
    BY <2>1, <2>2, <2>3, <2>4, <2>5, <2>6 DEF Next
<1> QED
  BY <1>1, <1>2, PTL DEF Spec, AskedIsHeard
=============================================================================
