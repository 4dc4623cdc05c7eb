------------------------------ MODULE Scenarios -----------------------------
(***************************************************************************)
(* The tests one process runs, composed (in_process.rs and scenario.rs).   *)
(* A tick runs every chosen scenario one after the other and merges what   *)
(* they publish; they share no state, so a step here is a step of one      *)
(* chosen scenario.  RoundTrip is the nodes' where they relay it.          *)
(* DailyBacklog is the one that node processes share; ExclusiveClaim has a *)
(* module of its own.  The storm, a node's eventing and the nodes that are *)
(* not simulated are driven the same way, from the tests, from the node's  *)
(* rounds and from the roll's.                                             *)
(***************************************************************************)
EXTENDS Schedule, LowLatency, HeavyLoad, Retention, Filing, Storm, DailyBacklog, Eventing,
        ServedNodes

CONSTANT
    Rolls   \* the rolls there may be: the scenarios chosen, and whether the
            \* nodes relay RoundTrip

VARIABLES
    chosen, relayed,
    reds    \* history: the scopes that have been published red

\* Every scenario, in the order the board lists them, with the three
\* driven beside them.
SCENARIOS == {"round-trip", "low-latency", "heavy-load", "retention", "filing",
              "exclusive-claim", "daily-backlog"}
Driver == SCENARIOS \cup {"storm", "eventing", "served"}

\* A name that is no scenario is refused: there is no process to model.
drives(scenario) == chosen = {} \/ scenario \in chosen

scenarioVars ==
    <<chosen, relayed, vars, latVars, loadVars, keepVars, fileVars,
      stormVars, backlogVars, eventVars, servedVars, reds>>

\* What is on the board and judged over time, by test and scope.
Board ==
    [round_trip |-> [s \in DOMAIN board |-> board[s].health],
     heavy_load |-> Published(loadStandings),
     retention  |-> Published(keepStandings),
     filing     |-> Published(fileStandings),
     storm      |-> Published(stormStandings),
     backlog    |-> Published(backlogStandings)]

Red(now) ==
    UNION {{<<t, s>> : s \in {u \in DOMAIN now[t] : now[t][u] = "done"}} : t \in DOMAIN now}

ScenarioInit ==
    /\ \E roll \in Rolls : chosen = roll.chosen /\ relayed = roll.relayed
    /\ Init /\ LatInit /\ LoadInit /\ KeepInit /\ FileInit /\ StormInit
    /\ BacklogInit /\ EventInit /\ ServedInit
    /\ reds = {}

\* What the step published is merged into the snapshot.
Merged ==
    /\ reds' = reds \cup Red(Board')
    /\ UNCHANGED <<chosen, relayed>>

RoundTripStep ==
    /\ drives("round-trip") /\ ~relayed /\ Next
    /\ UNCHANGED <<latVars, loadVars, keepVars, fileVars, stormVars,
                   backlogVars, eventVars, servedVars>>
    /\ Merged

LowLatencyStep ==
    /\ drives("low-latency") /\ LatTick
    /\ UNCHANGED <<vars, loadVars, keepVars, fileVars, stormVars,
                   backlogVars, eventVars, servedVars>>
    /\ Merged

HeavyLoadStep ==
    /\ drives("heavy-load") /\ LoadTick
    /\ UNCHANGED <<vars, latVars, keepVars, fileVars, stormVars,
                   backlogVars, eventVars, servedVars>>
    /\ Merged

RetentionStep ==
    /\ drives("retention") /\ KeepTick
    /\ UNCHANGED <<vars, latVars, loadVars, fileVars, stormVars,
                   backlogVars, eventVars, servedVars>>
    /\ Merged

FilingStep ==
    /\ drives("filing") /\ FileTick
    /\ UNCHANGED <<vars, latVars, loadVars, keepVars, stormVars,
                   backlogVars, eventVars, servedVars>>
    /\ Merged

StormStep ==
    /\ drives("storm") /\ StormTick
    /\ UNCHANGED <<vars, latVars, loadVars, keepVars, fileVars,
                   backlogVars, eventVars, servedVars>>
    /\ Merged

DailyBacklogStep ==
    /\ drives("daily-backlog") /\ BacklogNext
    /\ UNCHANGED <<vars, latVars, loadVars, keepVars, fileVars,
                   stormVars, eventVars, servedVars>>
    /\ Merged

EventingStep ==
    /\ drives("eventing") /\ EventNext
    /\ UNCHANGED <<vars, latVars, loadVars, keepVars, fileVars,
                   stormVars, backlogVars, servedVars>>
    /\ Merged

ServedStep ==
    /\ drives("served") /\ ServedNext
    /\ UNCHANGED <<vars, latVars, loadVars, keepVars, fileVars,
                   stormVars, backlogVars, eventVars>>
    /\ Merged

ScenarioNext ==
    \/ RoundTripStep
    \/ LowLatencyStep
    \/ HeavyLoadStep
    \/ RetentionStep
    \/ FilingStep
    \/ StormStep
    \/ DailyBacklogStep
    \/ EventingStep
    \/ ServedStep

Spec == ScenarioInit /\ [][ScenarioNext]_scenarioVars

-----------------------------------------------------------------------------
(* Properties, beside each component's own. *)

\* RedIsRemembered: a scope that was once red never reads green again, in any
\* of the tests that judge over time (standing.rs: "a scope that passed last
\* round but failed before reads yellow, not green"; tally.rs the same).
RedIsRemembered ==
    \A red \in reds :
        red[2] \in DOMAIN Board[red[1]] /\ Board[red[1]][red[2]] # "fine"
=============================================================================
