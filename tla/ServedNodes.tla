----------------------------- MODULE ServedNodes ----------------------------
(***************************************************************************)
(* The nodes a roll does not simulate: real ones on machines of their own  *)
(* (real.rs, far_end.rs), or those it starts as xmip-service (served.rs),  *)
(* sorted by the roll (bin/roll.rs nodes), and the files carried through   *)
(* them (carried.rs), from the roll's start to its leave.                  *)
(*                                                                         *)
(* What xmip-service does is outside this repository: a node comes to      *)
(* accept work, takes a file from its Receive Location into Xmip Storage   *)
(* and from there to its Send Port, crashes, or drains once its input      *)
(* ends.  STARTING and STOPPING, the waits on a node, may be over at any   *)
(* time; GRACE and LOST are in ticks of Time.                              *)
(***************************************************************************)
EXTENDS Integers, FiniteSets

CONSTANTS
    Nodes,       \* the nodes of the cluster's file
    Roles,       \* the roles each declares, executing as its three stages
    Typed,       \* the names the operator typed
    Locations,   \* how many Receive Locations are placed on the nodes, one
                 \* at least
    GRACE, LOST, \* the ages a file is overdue and lost at (5 s, 60 s)
    MaxFiles,    \* bound: the files dropped
    MaxCrashes   \* bound: the nodes gone when one crashes

ASSUME ServedAssumption == LOST \in Nat

VARIABLES
    phase,       \* where the roll is
    real,        \* the nodes that answered on machines of their own
    node,        \* each started node's process
    said,        \* the nodes that said they accept work
    heard,       \* those the run has heard say so
    asked,       \* the nodes whose input was ended
    whereabouts, \* where each file dropped is
    fileAge,     \* how long ago it was dropped
    waited,      \* how long the leave has waited on the files
    published,   \* the last round's snapshot: the files' health, and the
                 \* nodes that did not answer
    area         \* whether the run's directory is there

servedVars == <<phase, real, node, said, heard, asked,
                whereabouts, fileAge, waited, published, area>>

PathRole == {"receiving", "processing", "sending"}

\* served::stores and the two groups of Served::start.
keepers == {n \in Nodes : "storage" \in Roles[n]}
rest    == Nodes \ keepers

\* Roster::with, refusal and without: a path that some stage of is served and another
\* is not.
serving(some, role) == {n \in some : role \in Roles[n]}
refusal(some) ==
    /\ \E role \in PathRole : serving(some, role) # {}
    /\ \E role \in PathRole : serving(some, role) = {}

without(names) == {n \in Nodes : n \notin names}

\* The simulated nodes, all that the cluster process spawns.
spawnable == without(real \cup {n \in Nodes : node[n] # "none"})

ServedInit ==
    /\ phase = "sort" /\ real = {}
    /\ node = [n \in Nodes |-> "none"] /\ said = {} /\ heard = {} /\ asked = {}
    /\ whereabouts = <<>> /\ fileAge = <<>> /\ waited = 0
    /\ published = [health |-> "none", silent |-> {}] /\ area = TRUE

-----------------------------------------------------------------------------
(* The start. *)

\* What comes of asking for a typed name: the resolver does not know it, or no
\* publication is read with the operator's certificate, or one of another
\* node or without a capability, or the node declares itself.
Asking == {"unknown", "silent", "stranger", "itself"}

\* serve: the nodes are started where the run was given an xmip-service and
\* one of them keeps Storage.
serve == IF keepers # {} THEN {"start", "path"} ELSE {"path"}

\* found: a typed name that resolves must answer, over mutual TLS and as that
\* node; one that does not resolve is simulated.  Otherwise the roll is
\* refused.
Find ==
    /\ phase = "sort"
    /\ \E answer \in [Typed -> Asking] :
         IF \E n \in Typed : answer[n] \in {"silent", "stranger"}
         THEN phase' = "refused" /\ UNCHANGED real
         ELSE /\ real'  = {n \in Typed : answer[n] = "itself"}
              /\ phase' \in IF real' # {} THEN {"far end"} ELSE serve
    /\ UNCHANGED <<node, said, heard, asked, whereabouts, fileAge, waited,
                   published, area>>

\* FarEnd::serve: every Location's password is set on its node and the port
\* bound, or the roll is refused.
FarEnd ==
    /\ phase = "far end"
    /\ phase' \in {"path", "refused"}
    /\ UNCHANGED <<real, node, said, heard, asked, whereabouts, fileAge,
                   waited, published, area>>

\* The nodes started together: those that keep Storage, then the rest.
group == IF keepers \subseteq heard THEN rest ELSE keepers

spawned(n) ==
    /\ phase = "start" /\ n \in group /\ node[n] = "none"
    /\ node' = [node EXCEPT ![n] = "running"]
    /\ UNCHANGED <<phase, real, said, heard, asked, whereabouts, fileAge,
                   waited, published, area>>

\* accepting: a node is waited on once its whole group was spawned; what it
\* said is read even where it has ended since.
accepting(n) ==
    /\ phase = "start" /\ n \in (group \cap said) \ heard
    /\ \A m \in group : node[m] # "none"
    /\ heard' = heard \cup {n}
    /\ UNCHANGED <<phase, real, node, said, asked, whereabouts, fileAge,
                   waited, published, area>>

\* A node that cannot be configured or spawned, or does not say in time that
\* it accepts work: every node started is killed and the roll refused.
NotStarted ==
    /\ phase = "start" /\ group \ heard # {}
    /\ phase' = "refused"
    /\ node'  = [n \in Nodes |-> IF node[n] = "none" THEN "none" ELSE "gone"]
    /\ UNCHANGED <<real, said, heard, asked, whereabouts, fileAge, waited,
                   published, area>>

InputEnded(some) ==
    /\ asked' = asked \cup some
    /\ node'  = [n \in Nodes |-> IF n \in some /\ node[n] = "running"
                                 THEN "draining" ELSE node[n]]

\* Every node accepts work.  Carried::new makes and watches the folders; where
\* it cannot, the roll is refused and its exit ends the input of every node.
Carry ==
    /\ phase = "start" /\ heard = Nodes
    /\ \/ phase' = "path" /\ UNCHANGED <<node, asked>>
       \/ phase' = "refused" /\ InputEnded(Nodes)
    /\ UNCHANGED <<real, said, heard, whereabouts, fileAge, waited, published, area>>

\* relayed, for a RoundTrip that is chosen: the nodes simulated cover the path
\* or serve none of it.
Relayed ==
    /\ phase = "path"
    /\ phase' = IF refusal(spawnable) THEN "refused" ELSE "roll"
    /\ UNCHANGED <<real, node, said, heard, asked, whereabouts, fileAge,
                   waited, published, area>>

-----------------------------------------------------------------------------
(* The rounds. *)

Files   == DOMAIN whereabouts
Arrived == {f \in Files : whereabouts[f] = "arrived"}

\* Whether the roll has a way to the nodes.  Real nodes that take no Location
\* give it none: then Locations is 0 and nothing is dropped.
Carried == real # {} \/ heard # {}

\* Carried::record's judgment: failed holds where a file of this round could
\* not be dropped.
carried_health(failed, ages) ==
    LET due(limit) == \E f \in DOMAIN ages \ Arrived : ages[f] >= limit
    IN  CASE failed \/ due(LOST)                 -> "done"
          [] ~failed /\ ~due(LOST) /\ due(GRACE) -> "stressed"
          [] OTHER                               -> "fine"

\* published_into, of each real or started node: some real ones, and the
\* started ones that are gone, do not answer.
unreached(silent) == silent \cup {n \in heard : node[n] = "gone"}

\* A round of the roll: what each real or started node publishes is read
\* (published_into), then a file is dropped into each Receive Location, where
\* some cannot be written (Carried::round).
RollRound ==
    /\ phase = "roll" /\ Carried
    /\ \E written \in 0 .. Locations, silent \in SUBSET real :
         LET now == 1 .. Cardinality(Files) + written IN
         /\ Cardinality(now) <= MaxFiles
         /\ whereabouts' = [f \in now |-> IF f \in Files THEN whereabouts[f] ELSE "drop"]
         /\ fileAge' = [f \in now |-> IF f \in Files THEN fileAge[f] ELSE 0]
         /\ published' = [health |-> carried_health(written < Locations, fileAge'),
                          silent |-> unreached(silent)]
    /\ UNCHANGED <<phase, real, node, said, heard, asked, waited, area>>

\* Time passes for the files that have not arrived and for the leave's wait.
Time ==
    /\ phase \in {"roll", "settle"} /\ Files # Arrived
    /\ phase = "settle" => waited < LOST
    /\ fileAge' = [f \in Files |-> IF f \notin Arrived /\ fileAge[f] < LOST
                                   THEN fileAge[f] + 1 ELSE fileAge[f]]
    /\ waited' = IF phase = "settle" THEN waited + 1 ELSE waited
    /\ UNCHANGED <<phase, real, node, said, heard, asked, whereabouts, published,
                   area>>

-----------------------------------------------------------------------------
(* The leave, once the cluster process has been stopped. *)

\* The last round is over.
Leave ==
    /\ phase = "roll"
    /\ phase' = "settle"
    /\ UNCHANGED <<real, node, said, heard, asked, whereabouts, fileAge,
                   waited, published, area>>

\* Mutant: settle does not wait.
settled_at_once == TRUE

\* settle: every file arrived, or LOST is over.
settled == Files = Arrived \/ waited >= LOST

\* Served::stop, of the nodes that keep no Storage.
StopRest ==
    /\ phase = "settle" /\ settled
    /\ phase' = "stop"
    /\ IF heard = {} THEN UNCHANGED <<asked, node>> ELSE InputEnded(rest)
    /\ UNCHANGED <<real, said, heard, whereabouts, fileAge, waited, published, area>>

\* exited, ended: a node that does not drain in its time is killed.
Killed(n) ==
    /\ phase = "stop" /\ n \in asked /\ node[n] = "draining"
    /\ node' = [node EXCEPT ![n] = "gone"]
    /\ UNCHANGED <<phase, real, said, heard, asked, whereabouts, fileAge,
                   waited, published, area>>

\* Served::stop, of the Storage nodes once each of the others is gone.
StopStores ==
    /\ phase = "stop" /\ heard # {} /\ asked = rest
    /\ \A n \in rest : node[n] = "gone"
    /\ InputEnded(keepers)
    /\ UNCHANGED <<phase, real, said, heard, whereabouts, fileAge, waited,
                   published, area>>

\* The run's directory goes, with what is still in it.
Removed ==
    /\ phase = "stop" /\ (heard = {} \/ asked = Nodes)
    /\ \A n \in asked : node[n] = "gone"
    /\ phase' = "ended" /\ area' = FALSE
    /\ UNCHANGED <<real, node, said, heard, asked, whereabouts, fileAge,
                   waited, published>>

-----------------------------------------------------------------------------
(* The nodes, real and started: external. *)

Says(n) ==
    /\ node[n] = "running" /\ n \notin said
    /\ said' = said \cup {n}
    /\ UNCHANGED <<phase, real, node, heard, asked, whereabouts, fileAge,
                   waited, published, area>>

\* A node drains once its input ended, and may crash before.
Exits(n) ==
    /\ \/ node[n] = "draining"
       \/ /\ node[n] = "running"
          /\ Cardinality({m \in Nodes : node[m] = "gone"}) < MaxCrashes
    /\ node' = [node EXCEPT ![n] = "gone"]
    /\ UNCHANGED <<phase, real, said, heard, asked, whereabouts, fileAge,
                   waited, published, area>>

\* Some of them are there to carry a file; the run starts and stops no real
\* one.
There(some) == real # {} \/ \E n \in some : node[n] \in {"running", "draining"}

Onward == [drop |-> "storage", storage |-> "out"]

\* A file goes into Storage and on to its Send Port.
Moves(f) ==
    /\ area /\ whereabouts[f] \in DOMAIN Onward /\ There(keepers) /\ There(rest)
    /\ whereabouts' = [whereabouts EXCEPT ![f] = Onward[@]]
    /\ UNCHANGED <<phase, real, node, said, heard, asked, fileAge, waited,
                   published, area>>

\* seen, told: an arrival is recorded as the folder's watch or the far end
\* tells of it.
Tells(f) ==
    /\ phase \in {"roll", "settle", "stop"} /\ whereabouts[f] = "out"
    /\ whereabouts' = [whereabouts EXCEPT ![f] = "arrived"]
    /\ UNCHANGED <<phase, real, node, said, heard, asked, fileAge, waited,
                   published, area>>

ServedNext ==
    \/ Find \/ FarEnd \/ NotStarted \/ Carry \/ Relayed
    \/ RollRound \/ Time \/ Leave \/ StopRest \/ StopStores \/ Removed
    \/ \E n \in Nodes : spawned(n) \/ accepting(n) \/ Killed(n) \/ Says(n) \/ Exits(n)
    \/ \E f \in Files : Moves(f) \/ Tells(f)

-----------------------------------------------------------------------------
(* Properties. *)

\* LeavesInOrder: a roll that leaves has given every file it dropped its time
\* to arrive before a node is told to go; no Storage node is told to while a
\* node that reaches it is still there; and what they keep is removed after
\* the last of them (bin/roll.rs leave: "every file dropped into the nodes the
\* run started given its time to arrive, then those nodes drained before what
\* they keep goes with the run's `base`").
LeavesInOrder ==
    phase \in {"stop", "ended"} =>
        /\ \A f \in Files \ Arrived : fileAge[f] >= LOST
        /\ asked \cap keepers # {} => \A n \in rest : node[n] = "gone"
        /\ ~area => \A n \in Nodes : node[n] \in {"none", "gone"}
=============================================================================
