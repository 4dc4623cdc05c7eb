------------------------------ MODULE Cluster ------------------------------
(***************************************************************************)
(* The cluster process watching its node processes (cluster.rs,            *)
(* cluster/member.rs, cluster/liveness.rs) and the nodes it watches        *)
(* (bin/node.rs, heartbeat.rs).  A node publishes each round to its file   *)
(* and beats into a beat file beside it, from a thread of its own; the     *)
(* cluster reads beats and publications, kills and restarts a node whose   *)
(* beats stop, and assembles the cluster's view of what it read.           *)
(*                                                                         *)
(* Time is discrete: one unit is a beat interval, and a node that runs     *)
(* beats in each.  The cluster is never hurried: any time may pass between *)
(* two of its steps.                                                       *)
(***************************************************************************)
EXTENDS Integers

CONSTANTS
    Size,        \* how many nodes the orders name
    Rounds,      \* the rounds a node runs before it leaves (orders.rounds)
    Silence,     \* beat intervals a node that has beaten may miss
    Starting,    \* beat intervals a node may take to its first beat
    Suspended,   \* the nodes that may stop running without exiting
    Mortal,      \* the nodes that may exit with a failure
    MaxLife,     \* bound: processes a node is started as, counting restarts
    StartFails   \* TRUE when a restart may fail

Node == 1 .. Size

ASSUME ConstantsAssumption ==
    /\ Size \in Nat /\ Rounds \in Nat
    /\ Silence \in Nat /\ Starting \in Nat
    /\ Suspended \subseteq Node /\ Mortal \subseteq Node
    /\ MaxLife \in Nat \ {0} /\ StartFails \in BOOLEAN

VARIABLES
    (* the node processes and their files *)
    run,        \* "up", "hung", "left" (exit 0), "crashed", "killed"
    phase,      \* "boot", "work" or "told" (published, not yet beaten)
    rounds,     \* rounds the process finished (Heartbeat.rounds)
    life,       \* which of the node's processes this is
    file,       \* the publication: the life and round it is of
    beat,       \* the beat file
    still,      \* beat intervals since the process last beat, or started
    (* the cluster *)
    ctl,        \* where it is in tick()
    at,         \* the member it is at
    fresh,      \* members whose file was read this tick
    exit,       \* what it reaped: "none" while the member counts as alive
    restarts,
    age,        \* intervals since it saw the member beat, or started it
    beaten,     \* whether it saw it beat since it started it
    heard,      \* the rounds the member's beat said (Member.rounds)
    readAt,     \* the round count the publication was last read at
    published,  \* the publication as last read
    view        \* the view as last assembled

nodeVars   == <<run, phase, rounds, life, file, beat, still>>
memberVars == <<exit, restarts, age, beaten, heard, readAt, published>>
vars       == <<nodeVars, ctl, at, fresh, memberVars, view>>

None   == <<0, 0>>
Window == IF Silence > Starting THEN Silence ELSE Starting

\* A count of intervals, told apart up to just past the longest allowance.
Later(n) == IF n > Window THEN n ELSE n + 1

\* The beat file: the rounds it says, whether it is whole or caught half
\* written, and whether it changed since the cluster read it (every beat's
\* text differs, it holds the time).
Silent == [rounds |-> 0, whole |-> TRUE, new |-> FALSE]

\* The member's process record, as process_record words it.
Word(n) ==
    IF exit[n] = "bad" THEN <<"done", 0>>
    ELSE IF exit[n] = "ok"
         THEN IF restarts[n] = 0 THEN <<"fine, exited", 0>> ELSE <<"stressed, exited", restarts[n]>>
    ELSE IF restarts[n] > 0 THEN <<"stressed", restarts[n]>>
    ELSE IF ~beaten[n] THEN <<"starting", 0>>
    ELSE IF heard[n] = 0 THEN <<"first round", 0>>
    ELSE <<"fine", 0>>

Init ==
    /\ run       = [n \in Node |-> "up"]
    /\ phase     = [n \in Node |-> "boot"]
    /\ rounds    = [n \in Node |-> 0]
    /\ life      = [n \in Node |-> 1]
    /\ file      = [n \in Node |-> None]
    /\ beat      = [n \in Node |-> Silent]
    /\ still     = [n \in Node |-> 0]
    /\ ctl       = "idle"
    /\ at        = 1
    /\ fresh     = {}
    /\ exit      = [n \in Node |-> "none"]
    /\ restarts  = [n \in Node |-> 0]
    /\ age       = [n \in Node |-> 0]
    /\ beaten    = [n \in Node |-> FALSE]
    /\ heard     = [n \in Node |-> 0]
    /\ readAt    = [n \in Node |-> 0]
    /\ published = [n \in Node |-> None]
    /\ view      = [n \in Node |-> [published |-> None, process |-> <<"unsaid", 0>>]]

-----------------------------------------------------------------------------
(* The node. *)

\* Heartbeat::start, the first thing a node does, and then the thread's beats,
\* each a plain overwrite while the count is held.
Beat(n) ==
    /\ run[n] = "up"
    /\ beat'  = [beat EXCEPT ![n] = [rounds |-> rounds[n], whole |-> TRUE, new |-> TRUE]]
    /\ still' = [still EXCEPT ![n] = 0]
    /\ phase' = [phase EXCEPT ![n] = IF @ = "boot" THEN "work" ELSE @]
    /\ UNCHANGED <<run, rounds, life, file, ctl, at, fresh, memberVars, view>>

\* The overwrite is under way: its reader finds text that is no beat.
HalfBeat(n) ==
    /\ run[n] = "up" /\ beat[n].whole
    /\ beat' = [beat EXCEPT ![n] = [rounds |-> @.rounds, whole |-> FALSE, new |-> TRUE]]
    /\ UNCHANGED <<run, phase, rounds, life, file, still, ctl, at, fresh, memberVars, view>>

\* Mutant: one round more than it was told.
OneRoundMore(n) == rounds[n] <= Rounds

\* node.rs: the rounds it was told.  A node told 0 goes on until the stop file,
\* whose breaking of the loop is ProcessTree's.
MoreRounds(n) == rounds[n] < Rounds

\* A round is done: its snapshot is written in one step, or cannot be...
Publish(n) ==
    /\ run[n] = "up" /\ phase[n] = "work" /\ MoreRounds(n)
    /\ \/ file' = [file EXCEPT ![n] = <<life[n], rounds[n] + 1>>]
       \/ UNCHANGED file
    /\ phase' = [phase EXCEPT ![n] = "told"]
    /\ UNCHANGED <<run, rounds, life, beat, still, ctl, at, fresh, memberVars, view>>

\* ...and then Heartbeat::round counts it and beats, once no beat is under way.
Round(n) ==
    /\ run[n] = "up" /\ phase[n] = "told" /\ beat[n].whole
    /\ rounds' = [rounds EXCEPT ![n] = @ + 1]
    /\ beat'   = [beat EXCEPT ![n] = [rounds |-> rounds[n] + 1, whole |-> TRUE, new |-> TRUE]]
    /\ still'  = [still EXCEPT ![n] = 0]
    /\ phase'  = [phase EXCEPT ![n] = "work"]
    /\ UNCHANGED <<run, life, file, ctl, at, fresh, memberVars, view>>

\* Its rounds are done and the beating thread is joined: exit 0.
Leave(n) ==
    /\ run[n] = "up" /\ phase[n] = "work" /\ ~MoreRounds(n) /\ beat[n].whole
    /\ run' = [run EXCEPT ![n] = "left"]
    /\ UNCHANGED <<phase, rounds, life, file, beat, still, ctl, at, fresh, memberVars, view>>

Crash(n) ==
    /\ n \in Mortal /\ run[n] = "up"
    /\ run' = [run EXCEPT ![n] = "crashed"]
    /\ UNCHANGED <<phase, rounds, life, file, beat, still, ctl, at, fresh, memberVars, view>>

\* The process stops running, every thread of it; it may go on again later.
Suspend(n) ==
    /\ n \in Suspended /\ run[n] = "up" /\ life[n] < MaxLife
    /\ run' = [run EXCEPT ![n] = "hung"]
    /\ UNCHANGED <<phase, rounds, life, file, beat, still, ctl, at, fresh, memberVars, view>>

Resume(n) ==
    /\ run[n] = "hung"
    /\ run' = [run EXCEPT ![n] = "up"]
    /\ UNCHANGED <<phase, rounds, life, file, beat, still, ctl, at, fresh, memberVars, view>>

\* A beat interval passes, in which every process that runs has beaten.
Time ==
    /\ \A n \in Node : run[n] = "up" => phase[n] # "boot" /\ still[n] = 0 /\ beat[n].whole
    /\ still' = [n \in Node |-> Later(still[n])]
    /\ age'   = [n \in Node |-> Later(age[n])]
    /\ UNCHANGED <<run, phase, rounds, life, file, beat, ctl, at, fresh, exit, restarts,
                   beaten, heard, readAt, published, view>>

-----------------------------------------------------------------------------
(* The cluster: tick(). *)

Alive(n) == exit[n] = "none"

\* Mutant: beats are heard in read() only.
Deaf(n) == UNCHANGED <<beat, age, beaten, heard>>

\* Member::listen: a changed beat file is a sign of life, and a whole one
\* says the rounds.
Listen(n) ==
    /\ beat'   = [beat EXCEPT ![n] = [rounds |-> @.rounds, whole |-> @.whole, new |-> FALSE]]
    /\ age'    = [age EXCEPT ![n] = IF beat[n].new THEN 0 ELSE @]
    /\ beaten' = [beaten EXCEPT ![n] = @ \/ beat[n].new]
    /\ heard'  = [heard EXCEPT ![n] =
                    IF beat[n].new /\ beat[n].whole THEN beat[n].rounds ELSE @]

\* judge_process listens again, right before it judges.
ListenAgain(n) == Listen(n)

\* Mutant: what was heard is compared with nothing.
UnreadAlways(n) == heard[n] # 0 /\ readAt[n] = 0

\* Member::read: whether the beat says a round the publication was not read at.
Unread(n) == heard[n] # 0 /\ readAt[n] # heard[n]

BeginTick ==
    /\ ctl = "idle"
    /\ ctl' = "hear" /\ at' = 1 /\ fresh' = {}
    /\ UNCHANGED <<nodeVars, memberVars, view>>

\* read_all: each member's beat is heard...
Hear ==
    /\ ctl = "hear" /\ at \in Node
    /\ Listen(at)
    /\ ctl' = "fetch"
    /\ UNCHANGED <<run, phase, rounds, life, file, still, at, fresh, exit, restarts,
                   readAt, published, view>>

\* ...and the publication read, when the beat says there is one to read.
Fetch ==
    /\ ctl = "fetch"
    /\ IF Unread(at) /\ file[at] # None
       THEN /\ published' = [published EXCEPT ![at] = file[at]]
            /\ readAt'    = [readAt EXCEPT ![at] = heard[at]]
            /\ fresh'     = fresh \cup {at}
       ELSE UNCHANGED <<published, readAt, fresh>>
    /\ ctl' = "hear" /\ at' = at + 1
    /\ UNCHANGED <<nodeVars, exit, restarts, age, beaten, heard, view>>

AllFresh == \A n \in Node : n \in fresh \/ ~Alive(n)

ReadAgain ==
    /\ ctl = "hear" /\ at \notin Node /\ ~AllFresh
    /\ at' = 1
    /\ UNCHANGED <<nodeVars, ctl, fresh, memberVars, view>>

\* Every live member is fresh, or GRACE is over.
EndRead ==
    /\ ctl = "hear" /\ at \notin Node
    /\ ctl' = "judge" /\ at' = 1
    /\ UNCHANGED <<nodeVars, fresh, memberVars, view>>

Status(n) == IF run[n] = "left" THEN "ok"
             ELSE IF run[n] \in {"crashed", "killed"} THEN "bad"
             ELSE "none"

\* Member::reap.
Reaped(n) == IF Alive(n) THEN Status(n) ELSE exit[n]

\* Mutant: only a node that has beaten can fall silent.
HungOnceBeaten(n) == Reaped(n) = "none" /\ beaten'[n] /\ age'[n] > Silence

\* Liveness::hung, after the reap and what was heard just now.
Hung(n) == /\ Reaped(n) = "none"
           /\ IF beaten'[n] THEN age'[n] > Silence ELSE age'[n] > Starting

\* judge_process: reap, listen, and restart the member if it is hung.
Judge ==
    /\ ctl = "judge" /\ at \in Node
    /\ ListenAgain(at)
    /\ exit' = [exit EXCEPT ![at] = Reaped(at)]
    /\ IF Hung(at) THEN ctl' = "restart" /\ UNCHANGED at
                   ELSE ctl' = "judge" /\ at' = at + 1
    /\ UNCHANGED <<run, phase, rounds, life, file, still, fresh, restarts, readAt,
                   published, view>>

\* Mutant: a restarted member begins without a record.
RestartForgotten(n) == 0

Restarted(n) == restarts[n] + 1

\* Member::restarted: a new process, not heard yet.  What was last read of
\* the member, and at which round, stays.
Restart ==
    /\ ctl = "restart"
    /\ restarts' = [restarts EXCEPT ![at] = Restarted(at)]
    /\ run'    = [run EXCEPT ![at] = "up"]
    /\ phase'  = [phase EXCEPT ![at] = "boot"]
    /\ rounds' = [rounds EXCEPT ![at] = 0]
    /\ life'   = [life EXCEPT ![at] = @ + 1]
    /\ still'  = [still EXCEPT ![at] = 0]
    /\ age'    = [age EXCEPT ![at] = 0]
    /\ beaten' = [beaten EXCEPT ![at] = FALSE]
    /\ heard'  = [heard EXCEPT ![at] = 0]
    /\ ctl' = "judge" /\ at' = at + 1
    /\ UNCHANGED <<file, beat, fresh, exit, readAt, published, view>>

\* The process is killed and no other could be started: the member stays down.
RestartFails ==
    /\ ctl = "restart" /\ StartFails
    /\ restarts' = [restarts EXCEPT ![at] = Restarted(at)]
    /\ run'  = [run EXCEPT ![at] = IF @ \in {"up", "hung"} THEN "killed" ELSE @]
    /\ exit' = [exit EXCEPT ![at] = IF run[at] = "left" THEN "ok" ELSE "bad"]
    /\ ctl' = "judge" /\ at' = at + 1
    /\ UNCHANGED <<phase, rounds, life, file, beat, still, fresh, age, beaten, heard,
                   readAt, published, view>>

\* Mutant: only a round read changes the view.
ChangedByRound == fresh # {}

Changed == fresh # {} \/ \E n \in Node : Word(n) # view[n].process

\* The view is assembled again where anything in it changed.
Assemble ==
    /\ ctl = "judge" /\ at \notin Node
    /\ view' = IF Changed
               THEN [n \in Node |-> [published |-> published[n], process |-> Word(n)]]
               ELSE view
    /\ ctl' = "idle" /\ at' = 1 /\ fresh' = {}
    /\ UNCHANGED <<nodeVars, memberVars>>

-----------------------------------------------------------------------------
NodeStep(n) == Beat(n) \/ HalfBeat(n) \/ Publish(n) \/ Round(n) \/ Leave(n)

ClusterStep ==
    \/ BeginTick \/ Hear \/ Fetch \/ ReadAgain \/ EndRead
    \/ Judge \/ Restart \/ RestartFails \/ Assemble

Next ==
    \/ \E n \in Node : NodeStep(n) \/ Crash(n) \/ Suspend(n) \/ Resume(n)
    \/ Time
    \/ ClusterStep

Spec == Init /\ [][Next]_vars

\* A node beats while it runs, time passes, and the cluster goes round: GRACE
\* ends its wait however often it read again.
FairSpec ==
    /\ Spec
    /\ \A n \in Node : WF_vars(Beat(n))
    /\ WF_vars(Time) /\ WF_vars(ClusterStep) /\ SF_vars(EndRead)

-----------------------------------------------------------------------------
(* Properties. *)

TypeOK ==
    /\ run       \in [Node -> {"up", "hung", "left", "crashed", "killed"}]
    /\ phase     \in [Node -> {"boot", "work", "told"}]
    /\ rounds    \in [Node -> 0 .. Rounds]
    /\ life      \in [Node -> Nat \ {0}]
    /\ file      \in [Node -> Nat \X (0 .. Rounds)]
    /\ beat      \in [Node -> [rounds: 0 .. Rounds, whole: BOOLEAN, new: BOOLEAN]]
    /\ still     \in [Node -> Nat]
    /\ ctl       \in {"idle", "hear", "fetch", "judge", "restart"}
    /\ at        \in 1 .. Size + 1
    /\ fresh     \subseteq Node
    /\ exit      \in [Node -> {"none", "ok", "bad"}]
    /\ restarts  \in [Node -> Nat]
    /\ age       \in [Node -> Nat]
    /\ beaten    \in [Node -> BOOLEAN]
    /\ heard     \in [Node -> 0 .. Rounds]
    /\ readAt    \in [Node -> 0 .. Rounds]
    /\ published \in [Node -> Nat \X (0 .. Rounds)]

\* Silence is the node's, never the cluster's: a member is condemned only when
\* its process itself has not beaten for longer than it may, however long the
\* cluster took over the publications (judge_process, cluster.rs:261).
OnlySilentRestarted ==
    [][ctl = "judge" /\ ctl' = "restart" =>
         still[at] > IF beaten'[at] THEN Silence ELSE Starting]_vars

\* "An unchanged view is not assembled again": skipping it never leaves a stale
\* one, between ticks the view says what was last read and known of each node.
ViewIsCurrent ==
    ctl = "idle" => \A n \in Node :
        \/ view[n].process = <<"unsaid", 0>>
        \/ view[n] = [published |-> published[n], process |-> Word(n)]

\* "A yellow that stays for the cluster's life" (cluster.rs:25): between ticks
\* no member whose process is not its first is shown as if nothing happened,
\* whatever became of it since.
RestartStays ==
    ctl = "idle" => \A n \in Node : life[n] > 1 =>
        view[n].process[1] \in {"stressed", "stressed, exited", "done"}

\* A hung node does not stay hung: the cluster kills it and starts another.
HungIsEnded ==
    \A n \in Node : run[n] = "hung" ~> run[n] # "hung"

\* "The last one before the node leaves is never lost" (Heartbeat::round): the
\* cluster comes to read the last publication of a node that left, said of a
\* node that was never restarted.
LastRoundRead ==
    \A n \in Node : run[n] = "left" /\ life[n] = 1 ~>
                       run[n] # "left" \/ published[n] = file[n]

\* The same of every node that left, restarted or not.
LastRoundNeverLost ==
    \A n \in Node : run[n] = "left" ~> run[n] # "left" \/ published[n] = file[n]
=============================================================================
