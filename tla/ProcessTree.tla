---------------------------- MODULE ProcessTree ----------------------------
(***************************************************************************)
(* The tree of System Processes a roll runs, and how it is taken down: the *)
(* roll starts one cluster process (cluster/spawned.rs, bin/roll.rs), the  *)
(* cluster its nodes (cluster.rs, bin/cluster.rs), and the file `stop` in  *)
(* the directory they share is how each is asked to leave (bin/node.rs).   *)
(* Each waits for the ones below it and kills what stays; the cluster      *)
(* clears an old stop file as it starts.                                   *)
(*                                                                         *)
(* Time is discrete.  The waits are the code's constants; how long the     *)
(* cluster takes to start and to come round to the stop file again are the *)
(* machine's, bounded by parameters.  Restarting a hung node is module     *)
(* Cluster's: it leaves the member with one process, as before.            *)
(***************************************************************************)
EXTENDS Integers

CONSTANTS
    Size,         \* how many nodes the orders name
    Grace,        \* spawned.rs GRACE: a tick's wait for the cluster's file
    ClusterWait,  \* spawned.rs STOP_WAIT: the roll's wait for the cluster
    NodeWait,     \* cluster.rs STOP_WAIT: the cluster's wait for its nodes
    Boot,         \* the longest the cluster takes until it clears the file
    Busy,         \* the longest it goes between two looks at the file
    Leftover,     \* TRUE when an earlier roll's cluster file may still be there
    Unwritable    \* TRUE when the roll may fail to write the stop file

Node == 1 .. Size

ASSUME TreeAssumption ==
    /\ Size \in Nat /\ Grace \in Nat /\ ClusterWait \in Nat /\ NodeWait \in Nat
    /\ Boot \in Nat /\ Busy \in Nat /\ Leftover \in BOOLEAN /\ Unwritable \in BOOLEAN

VARIABLES
    roll,      \* "rolls", "waits" (for the cluster to leave) or "gone"
    held,      \* whether it holds the cluster as a child (Spawned.alive)
    ticked,    \* whether its first tick of the cluster is over
    rollAge,   \* time since it started the cluster, or since it asked it to leave
    missed,    \* history: what it asked was lost on the cluster, which had not
               \* started and cleared yet, or the file could not be written
    stopFile,  \* whether shared/stop is there
    published, \* whether the cluster's file holds what the roll has not read
    ctl,       \* the cluster: "boot", "spawn", "look", "tick", "stop", "kill", "gone"
    at,        \* the node it starts or kills next
    since,     \* time since it began this stage
    node       \* each node: "none", "up" or "gone"

rollVars    == <<roll, held, ticked, rollAge, missed>>
clusterVars == <<ctl, at, since>>
vars        == <<rollVars, stopFile, published, clusterVars, node>>

\* Time, told apart up to just past the roll's longest wait.
Horizon  == Grace + ClusterWait + 1
Later(t) == IF t < Horizon THEN t + 1 ELSE t

\* Mutant: the cluster waits as long for its nodes as the roll for it.
StopWaitOfRoll == ClusterWait

\* cluster.rs STOP_WAIT.
StopWait == NodeWait

\* The longest the cluster stays in a stage; the kills take no time.
Allowed ==
    IF ctl = "boot" THEN Boot
    ELSE IF ctl = "stop" THEN StopWait
    ELSE IF ctl = "kill" THEN 0
    ELSE Busy

\* main up to its loop: the roll's directories are emptied, and the cluster
\* is started.
Init ==
    /\ roll = "rolls" /\ held = TRUE /\ ticked = FALSE /\ rollAge = 0
    /\ missed = FALSE
    /\ stopFile = FALSE /\ published \in BOOLEAN /\ (published => Leftover)
    /\ ctl = "boot" /\ at = 1 /\ since = 0
    /\ node = [n \in Node |-> "none"]

-----------------------------------------------------------------------------
(* The roll. *)

\* What ends Spawned::tick: something new to read, the cluster reaped, or
\* GRACE over.
Heard == published \/ ctl = "gone" \/ rollAge > Grace

\* A round of the roll.
RollTick ==
    /\ roll = "rolls" /\ Heard
    /\ ticked' = TRUE /\ published' = FALSE
    /\ held' = (held /\ ctl # "gone")
    /\ UNCHANGED <<roll, rollAge, missed, stopFile, clusterVars, node>>

\* The limit is reached or the budget spent: leave, and Spawned::stop asks
\* the cluster to leave, if it is still held.  Whether the file was written is
\* not looked at.
AskToLeave ==
    /\ roll = "rolls" /\ ticked /\ held
    /\ \E written \in IF Unwritable THEN BOOLEAN ELSE {TRUE} :
          /\ stopFile' = (stopFile \/ written)
          /\ missed' = (ctl = "boot" \/ ~stopFile')
    /\ roll' = "waits" /\ rollAge' = 0
    /\ UNCHANGED <<held, ticked, published, clusterVars, node>>

\* leave removes the roll's directories, the stop file with them.
Cleared ==
    /\ roll' = "gone" /\ held' = FALSE /\ stopFile' = FALSE /\ published' = FALSE

\* leave without a cluster, or Spawned::stop reaping it.
RollLeaves ==
    /\ \/ roll = "rolls" /\ ticked /\ ~held
       \/ roll = "waits" /\ ctl = "gone"
    /\ Cleared
    /\ UNCHANGED <<ticked, rollAge, missed, clusterVars, node>>

\* Mutant: the roll waits however long the cluster takes.
RollNeverKills == FALSE

\* STOP_WAIT is over and the cluster is still there: it is killed.
RollKills ==
    /\ roll = "waits" /\ ctl # "gone" /\ rollAge >= ClusterWait
    /\ ctl' = "gone"
    /\ Cleared
    /\ UNCHANGED <<ticked, rollAge, missed, at, since, node>>

-----------------------------------------------------------------------------
(* The cluster. *)

\* Cluster::judged: the directories are made and an old stop file cleared.
Clear ==
    /\ ctl = "boot"
    /\ stopFile' = FALSE
    /\ ctl' = "spawn" /\ since' = 0
    /\ UNCHANGED <<rollVars, published, at, node>>

\* Mutant: one name too many.
NamedPastEnd == at <= Size + 1

\* Whether a name of the orders is still without a process.
Named == at <= Size

\* ...then one process started per name...
SpawnNode ==
    /\ ctl = "spawn" /\ Named
    /\ node' = [node EXCEPT ![at] = "up"]
    /\ at' = at + 1
    /\ UNCHANGED <<rollVars, stopFile, published, ctl, since>>

\* Mutant: the stop file is cleared once the nodes are started.
SpawnedThenCleared ==
    /\ ctl = "spawn" /\ ~Named
    /\ ctl' = "look" /\ stopFile' = FALSE
    /\ UNCHANGED <<rollVars, published, at, since, node>>

Spawned ==
    /\ ctl = "spawn" /\ ~Named
    /\ ctl' = "look"
    /\ UNCHANGED <<rollVars, stopFile, published, at, since, node>>

\* ...and where one cannot be, those started are killed as the cluster drops.
SpawnFails ==
    /\ ctl = "spawn" /\ Named
    /\ ctl' = "kill" /\ at' = 1 /\ since' = 0
    /\ UNCHANGED <<rollVars, stopFile, published, node>>

\* The head of main's loop: break where the stop file exists, and Cluster::stop
\* asks the nodes with that same file; else tick.
Look ==
    /\ ctl = "look"
    /\ ctl' = IF stopFile THEN "stop" ELSE "tick"
    /\ since' = 0
    /\ UNCHANGED <<rollVars, stopFile, published, at, node>>

\* tick, and its view published when it changed and can be written.
Tick ==
    /\ ctl = "tick"
    /\ published' \in {published, TRUE}
    /\ ctl' = "look"
    /\ UNCHANGED <<rollVars, stopFile, at, since, node>>

\* The nodes are all reaped, or STOP_WAIT is over.
Waited == (\A n \in Node : node[n] # "up") \/ since >= StopWait

EndWait ==
    /\ ctl = "stop" /\ Waited
    /\ ctl' = "kill" /\ at' = 1 /\ since' = 0
    /\ UNCHANGED <<rollVars, stopFile, published, node>>

\* Mutant: a node killed is the only one.
KillFirst(n) == n = 1

\* Member::kill reaches every member that has a process.
Kills(n) == node[n] = "up"

KillNode ==
    /\ ctl = "kill" /\ at \in Node
    /\ node' = [node EXCEPT ![at] = IF Kills(at) THEN "gone" ELSE @]
    /\ at' = at + 1
    /\ UNCHANGED <<rollVars, stopFile, published, ctl, since>>

\* main returns.
ClusterExits ==
    /\ ctl = "kill" /\ at \notin Node
    /\ ctl' = "gone"
    /\ UNCHANGED <<rollVars, stopFile, published, at, since, node>>

-----------------------------------------------------------------------------
(* A node, and time. *)

\* Between two rounds the node sees the stop file and leaves.
NodeLeaves(n) ==
    /\ node[n] = "up" /\ stopFile
    /\ node' = [node EXCEPT ![n] = "gone"]
    /\ UNCHANGED <<rollVars, stopFile, published, clusterVars>>

\* A node that fails on its own.
NodeCrashes(n) ==
    /\ node[n] = "up"
    /\ node' = [node EXCEPT ![n] = "gone"]
    /\ UNCHANGED <<rollVars, stopFile, published, clusterVars>>

Time ==
    /\ ctl # "gone" => since < Allowed
    /\ roll # "gone"
    /\ rollAge' = Later(rollAge)
    /\ since' = IF ctl = "gone" THEN since ELSE since + 1
    /\ UNCHANGED <<roll, held, ticked, missed, stopFile, published, ctl, at, node>>

RollStep    == RollTick \/ AskToLeave \/ RollLeaves \/ RollKills
ClusterStep == \/ Clear \/ SpawnNode \/ Spawned \/ SpawnFails \/ Look \/ Tick
               \/ EndWait \/ KillNode \/ ClusterExits

Next ==
    \/ RollStep
    \/ ClusterStep
    \/ \E n \in Node : NodeLeaves(n) \/ NodeCrashes(n)
    \/ Time

Spec == Init /\ [][Next]_vars

\* The roll and the cluster are scheduled and time passes; of the nodes
\* nothing is asked, one may hang in its round for good.
FairSpec ==
    /\ Spec
    /\ WF_vars(RollLeaves \/ RollKills) /\ WF_vars(ClusterStep) /\ WF_vars(Time)

-----------------------------------------------------------------------------
(* Properties. *)

TypeOK ==
    /\ roll \in {"rolls", "waits", "gone"}
    /\ held \in BOOLEAN /\ ticked \in BOOLEAN /\ rollAge \in Nat
    /\ missed \in BOOLEAN
    /\ stopFile \in BOOLEAN /\ published \in BOOLEAN
    /\ ctl \in {"boot", "spawn", "look", "tick", "stop", "kill", "gone"}
    /\ at \in 1 .. Size + 1
    /\ since \in Nat /\ (ctl # "gone" => since <= Allowed)
    /\ node \in [Node -> {"none", "up", "gone"}]

\* "However this ends, its nodes end with it: no orphans" (bin/cluster.rs:196):
\* once the cluster process is gone no node process is left, however it went.
NoOrphans ==
    ctl = "gone" => \A n \in Node : node[n] # "up"

\* The same, of every cluster that had started when the file that asks it to
\* leave was written:
\* the roll's wait then outlasts the cluster's, and it is never killed while
\* it still has nodes, whether all of them could be started or not.
NoOrphansOnceUp ==
    ctl = "gone" /\ ~missed => \A n \in Node : node[n] # "up"

\* "The cluster is asked first, so it stops its own" (spawned.rs:175): what
\* the roll asked of a cluster that was up is not taken back before the
\* cluster acts on it.
AskedIsHeard ==
    [][roll = "waits" /\ ~missed /\ stopFile /\ ctl' # "gone" => stopFile']_vars

\* A roll that asked its cluster to leave comes to its own end, whatever the
\* nodes are doing.
TreeEnds ==
    roll = "waits" ~> roll = "gone"

\* What the waits are chosen for: "Longer than the cluster's own wait for its
\* nodes, because it stops them before it goes" (spawned.rs:29).
WaitsNest == Busy + NodeWait < ClusterWait

\* What they take for granted: the cluster has started before the roll's
\* first tick of it ends, and the stop file can be written.
StartsInTime == Boot <= Grace /\ ~Leftover /\ ~Unwritable
=============================================================================
