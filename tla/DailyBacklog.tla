----------------------------- MODULE DailyBacklog ---------------------------
(***************************************************************************)
(* The DailyBacklog test over a directory several node processes feed and  *)
(* drain (daily_backlog.rs, DailyBacklog::shared): a round drops arrivals, *)
(* removes up to the node's capacity and measures what is left, and the    *)
(* node escalates by its share.                                            *)
(*                                                                         *)
(* A file is known by the process that fed it, so the directory is a count *)
(* per feeder.  A drain lists the directory and then removes what it       *)
(* listed; a listed file another process removed first is passed over, so  *)
(* a drain may run out of its listing below its capacity.  The numbers of  *)
(* the code are constants here, in the proportions it gives them.          *)
(***************************************************************************)
EXTENDS Standing, FiniteSetsExt

CONSTANTS
    Feeder,         \* the node processes over the directory
    ARRIVAL,        \* files that a round writes (30)
    Landing,        \* how many of them may be written: a write that fails is
                    \* passed over
    PER_READER,     \* files one reader clears per round (5)
    BASE_READERS, TWEAK_READERS,   \* readers before and after the tweak (2, 4)
    TWEAK_AT, SCALE_AT, CEILING,   \* shares each remedy and red begin above (35, 55, 150)
    BacklogMax      \* bound: rounds of a process

ASSUME BacklogAssumption ==
    IsFiniteSet(Feeder) /\ ARRIVAL \in Nat /\ Landing \subseteq 0 .. ARRIVAL

VARIABLES
    files,    \* files waiting, by the process that fed them
    step,     \* where each process is in its round
    backlogRound,
    listing,  \* files each drain listed
    lost,     \* files others removed since that listing
    drainedBy,\* files each process counts as drained
    previous, \* each process's share when it last measured
    readers, nodes,
    backlogStandings,
    fed       \* history: files each process has written

backlogVars == <<files, step, backlogRound, listing, lost, drainedBy,
                 previous, readers, nodes, backlogStandings, fed>>

Waiting == SumFunction(files)

BacklogInit ==
    /\ files        = [f \in Feeder |-> 0]
    /\ step         = [f \in Feeder |-> "rest"]
    /\ backlogRound = [f \in Feeder |-> 0]
    /\ listing      = [f \in Feeder |-> 0]
    /\ lost         = [f \in Feeder |-> 0]
    /\ drainedBy    = [f \in Feeder |-> 0]
    /\ previous     = [f \in Feeder |-> 0]
    /\ readers      = [f \in Feeder |-> BASE_READERS]
    /\ nodes        = [f \in Feeder |-> 1]
    /\ backlogStandings = [f \in Feeder |-> NoStanding]
    /\ fed          = [f \in Feeder |-> 0]

capacity(f) == nodes[f] * readers[f] * PER_READER

\* arrive.
Arrive(f) ==
    /\ step[f] = "rest" /\ backlogRound[f] < BacklogMax
    /\ \E landed \in Landing :
          /\ files' = [files EXCEPT ![f] = @ + landed]
          /\ fed'   = [fed EXCEPT ![f] = @ + landed]
    /\ backlogRound' = [backlogRound EXCEPT ![f] = @ + 1]
    /\ step' = [step EXCEPT ![f] = "list"]
    /\ UNCHANGED <<listing, lost, drainedBy, previous, readers, nodes, backlogStandings>>

\* The drain's listing of the directory, which may not be read.
List(f) ==
    /\ step[f] = "list"
    /\ \E seen \in {Waiting, 0} : listing' = [listing EXCEPT ![f] = seen]
    /\ lost' = [lost EXCEPT ![f] = 0]
    /\ step' = [step EXCEPT ![f] = "drain"]
    /\ UNCHANGED <<files, backlogRound, drainedBy, previous, readers, nodes, backlogStandings,
                   fed>>

\* Mutant: a file that was listed counts, whoever removed it.
processed_listed(f, removed) == Min({capacity(f), listing[f]})

\* Only a removal that succeeded counts.
processed(f, removed) == removed

\* drain: the files still there of those listed are removed up to the
\* capacity, whosever they are.
Drain(f) ==
    /\ step[f] = "drain"
    /\ \E left \in listing[f] - lost[f] .. Min({listing[f], Waiting}) :
       \E taken \in [Feeder -> 0 .. Max({capacity(f), 0})] :
          LET removed == Min({capacity(f), left})
          IN  /\ left >= 0
              /\ \A g \in Feeder : taken[g] <= files[g]
              /\ SumFunction(taken) = removed
              /\ files' = [g \in Feeder |-> files[g] - taken[g]]
              /\ lost'  = [g \in Feeder |-> IF g # f /\ step[g] = "drain"
                                            THEN lost[g] + removed ELSE lost[g]]
              /\ drainedBy' = [drainedBy EXCEPT ![f] = @ + processed(f, removed)]
    /\ step' = [step EXCEPT ![f] = "measure"]
    /\ UNCHANGED <<backlogRound, listing, previous, readers, nodes, backlogStandings, fed>>

\* The depth over the processes whose files are still in it.
measure == LET feeders == Cardinality({f \in Feeder : files[f] > 0})
           IN  Waiting \div Max({feeders, 1})

\* The tweak first; a node only once that was not enough.
escalate(f, now) ==
    CASE readers[f] = BASE_READERS /\ now > TWEAK_AT ->
            [readers |-> TWEAK_READERS, nodes |-> nodes[f]]
      [] readers[f] # BASE_READERS /\ nodes[f] = 1 /\ now > SCALE_AT ->
            [readers |-> readers[f], nodes |-> 2]
      [] OTHER -> [readers |-> readers[f], nodes |-> nodes[f]]

\* measure, escalate, and the round's mark.
Measure(f) ==
    /\ step[f] = "measure"
    /\ readers'  = [readers EXCEPT ![f] = escalate(f, measure).readers]
    /\ nodes'    = [nodes EXCEPT ![f] = escalate(f, measure).nodes]
    /\ previous' = [previous EXCEPT ![f] = measure]
    /\ backlogStandings' = [backlogStandings EXCEPT ![f] =
          record(@, CASE measure > CEILING -> "fail"
                      [] measure <= CEILING /\ measure > previous[f] -> "warn"
                      [] OTHER -> "pass")]
    /\ step' = [step EXCEPT ![f] = "rest"]
    /\ UNCHANGED <<files, backlogRound, listing, lost, drainedBy, fed>>

BacklogNext == \E f \in Feeder : Arrive(f) \/ List(f) \/ Drain(f) \/ Measure(f)

-----------------------------------------------------------------------------
(* Properties. *)

\* DrainedOnce: whatever races two drains run, every file that was written
\* waits or was counted by one of them (daily_backlog.rs drain: "A file another
\* process removed first does not count").
DrainedOnce == SumFunction([f \in Feeder |-> fed[f] - drainedBy[f]]) = Waiting
=============================================================================
