------------------------------ MODULE DropBox ------------------------------
(***************************************************************************)
(* The Parties' drop box (drop_box.rs, drop_box/far_ends.rs,               *)
(* drop_box/judged.rs): each round the roll drops a burst of files into    *)
(* the Locations whose turn it is, every receiving node claims what it     *)
(* finds there, accepts it and signs for it, and the roll judges each file *)
(* GRACE after it recorded it, by the signatures it then finds.            *)
(*                                                                         *)
(* A Location is one Party's directory over one protocol, numbered in the  *)
(* order the bursts are dropped in.  The transports are other crates': a   *)
(* send makes a file appear whole, a receive claims files by renaming, so  *)
(* for one node each, and an acknowledgement consumes the file, puts it    *)
(* back, or fails with the file in either state.                           *)
(***************************************************************************)
EXTENDS Integers, FiniteSets

CONSTANTS
    Node,         \* the receiving nodes
    Locations,    \* how many Locations there are
    Remote,       \* those behind a server the roll stands up
    BurstsEvery,  \* every how many rounds each gets a burst (bursts_every)
    Burst,        \* files of a burst (BURST)
    Faulty,       \* TRUE when sends, reads, acknowledgements and writes may fail
    Mortal,       \* the nodes that may be killed and started again
    MaxRound      \* bound: rounds in which bursts are dropped

Location == 1 .. Locations
File == [at: Location, round: 1 .. MaxRound, one: 1 .. Burst]

ASSUME DropBoxAssumption ==
    /\ IsFiniteSet(Node) /\ Mortal \subseteq Node /\ Faulty \in BOOLEAN
    /\ Locations \in Nat /\ Remote \subseteq Location
    /\ BurstsEvery \in [Location -> Nat \ {0}]
    /\ Burst \in Nat \ {0} /\ MaxRound \in Nat

VARIABLES
    (* the drop box's directories *)
    said,      \* the Locations whose server said where it listens
    dir,       \* the files in the Locations, unclaimed
    records,   \* the roll's records of what it dropped
    due,       \* those older than GRACE
    won,       \* the nodes that signed for each file
    (* the roll *)
    rpc,       \* "start", "rest", "record", "send", "judge" or "clear"
    at,        \* the Location it is at
    one,       \* the file of the burst
    round,
    todo,      \* the records of this Location due when it began to judge it
    judging,   \* the file whose signatures it clears
    files,     \* Judged.files
    counted,   \* <<file, node>>: the files judged taken once (by_node)
    twice,
    never,
    (* the nodes *)
    tpc,       \* "rest", "list", "accept" or "sign"
    taking,    \* the Location each is at
    hand,      \* the files its claims won
    cur,       \* the file it accepted and signs for, if any
    taken,     \* what its counts say it took
    (* history *)
    kept,      \* files judged whose record could not be removed
    killed     \* nodes ever killed

boxVars  == <<said, dir, records, due, won>>
rollVars == <<rpc, at, one, round, todo, judging, files, counted, twice, never, kept>>
nodeVars == <<tpc, taking, hand, cur, taken, killed>>
vars     == <<boxVars, rollVars, nodeVars>>

Init ==
    /\ said = {} /\ dir = {} /\ records = {} /\ due = {} /\ won = [f \in File |-> {}]
    /\ rpc = "start" /\ at = 1 /\ one = 1 /\ round = 0
    /\ todo = {} /\ judging = {}
    /\ files = 0 /\ counted = {} /\ twice = {} /\ never = {}
    /\ tpc    = [n \in Node |-> "rest"]
    /\ taking = [n \in Node |-> 1]
    /\ hand   = [n \in Node |-> {}]
    /\ cur    = [n \in Node |-> {}]
    /\ taken  = [n \in Node |-> 0]
    /\ kept = {} /\ killed = {}

-----------------------------------------------------------------------------
(* The roll: Dropping::new, then Dropping::round. *)

\* FarEnds::start: a server is up before its address is written.
StartFarEnd ==
    /\ rpc = "start" /\ at \in Location
    /\ said' = said \cup ({at} \cap Remote) /\ at' = at + 1
    /\ UNCHANGED <<dir, records, due, won, rpc, one, round, todo, judging, files, counted,
                   twice, never, kept, nodeVars>>

FarEndsStarted ==
    /\ rpc = "start" /\ at \notin Location
    /\ rpc' = "rest" /\ at' = 1
    /\ UNCHANGED <<boxVars, one, round, todo, judging, files, counted, twice, never, kept,
                   nodeVars>>

\* One could not be: no burst is ever dropped, and each round says so.
FarEndsFail ==
    /\ Faulty /\ rpc = "start" /\ at \in Remote
    /\ rpc' = "rest" /\ at' = 1 /\ round' = MaxRound
    /\ UNCHANGED <<boxVars, one, todo, judging, files, counted, twice, never, kept, nodeVars>>

\* A round begins.
RoundBegins ==
    /\ rpc = "rest"
    /\ IF round < MaxRound
       THEN rpc' = "record" /\ round' = round + 1
       ELSE rpc' = "judge" /\ UNCHANGED round
    /\ at' = 1 /\ one' = 1
    /\ UNCHANGED <<boxVars, todo, judging, files, counted, twice, never, kept, nodeVars>>

\* Mutant: one file more than a burst has.
BurstAndOne == one <= Burst + 1

\* Whether the burst has another file.
MoreFiles == one <= Burst

\* drop_burst: this Location gets a burst this round.
InTurn(l) == (round - 1) % BurstsEvery[l] = 0

ThisFile == [at |-> at, round |-> round, one |-> one]

\* A file is recorded as dropped...
Record ==
    /\ rpc = "record" /\ at \in Location /\ InTurn(at) /\ MoreFiles
    /\ records' = records \cup {ThisFile}
    /\ rpc' = "send"
    /\ UNCHANGED <<said, dir, due, won, at, one, round, todo, judging, files, counted, twice,
                   never, kept, nodeVars>>

\* ...and then dropped.
Send ==
    /\ rpc = "send"
    /\ dir' = dir \cup {ThisFile}
    /\ rpc' = "record" /\ one' = one + 1
    /\ UNCHANGED <<said, records, due, won, at, round, todo, judging, files, counted, twice,
                   never, kept, nodeVars>>

NextLocation ==
    /\ rpc = "record" /\ at \in Location /\ ~(InTurn(at) /\ MoreFiles)
    /\ at' = at + 1 /\ one' = 1
    /\ UNCHANGED <<boxVars, rpc, round, todo, judging, files, counted, twice, never, kept,
                   nodeVars>>

AllDropped ==
    /\ rpc = "record" /\ at \notin Location
    /\ rpc' = "judge" /\ at' = 1
    /\ UNCHANGED <<boxVars, one, round, todo, judging, files, counted, twice, never, kept,
                   nodeVars>>

\* A record or a send that failed, the file there or not, ends every burst of
\* the round; what was dropped before is judged all the same.
DropFails ==
    /\ Faulty /\ rpc \in {"record", "send"} /\ at \in Location /\ InTurn(at) /\ MoreFiles
    /\ \E there \in SUBSET {f \in {ThisFile} : rpc = "send"} : dir' = dir \cup there
    /\ rpc' = "judge" /\ at' = 1 /\ one' = 1
    /\ UNCHANGED <<said, records, due, won, round, todo, judging, files, counted, twice,
                   never, kept, nodeVars>>

\* GRACE passes for a record.
Age(f) ==
    /\ f \in records \ due
    /\ due' = due \cup {f}
    /\ UNCHANGED <<said, dir, records, won, rollVars, nodeVars>>

\* Mutant: only what somebody signed for is judged.
DueAndSigned(l) == {f \in records \cap due : f.at = l /\ won[f] # {}}

\* The records of a Location whose GRACE has passed.
DueAt(l) == {f \in records \cap due : f.at = l}

\* Judged::judge, Location by Location: the records due now...
JudgeBegins ==
    /\ rpc = "judge" /\ at \in Location /\ todo = {}
    /\ todo' = DueAt(at)
    /\ at' = IF todo' = {} THEN at + 1 ELSE at
    /\ UNCHANGED <<boxVars, rpc, one, round, judging, files, counted, twice, never, kept,
                   nodeVars>>

\* Mutant: the record stays.
Unrecorded(f) == records

\* The record is removed once its file is judged.
Recorded(f) == records \ {f}

\* ...each judged by who signed for it and its record removed, or not...
JudgeFile ==
    /\ rpc = "judge"
    /\ \E f \in todo :
        /\ files' = files + 1
        /\ counted' = IF Cardinality(won[f]) = 1
                      THEN counted \cup ({f} \X won[f]) ELSE counted
        /\ twice' = IF Cardinality(won[f]) > 1 THEN twice \cup {f} ELSE twice
        /\ never' = IF won[f] = {} THEN never \cup {f} ELSE never
        /\ \/ records' = Recorded(f) /\ UNCHANGED kept
           \/ Faulty /\ f \notin kept /\ UNCHANGED records /\ kept' = kept \cup {f}
        /\ todo' = todo \ {f} /\ judging' = {f}
    /\ rpc' = "clear"
    /\ UNCHANGED <<said, dir, due, won, at, one, round, nodeVars>>

\* ...and then what was signed for it.
ClearSigned ==
    /\ rpc = "clear"
    /\ \/ won' = [f \in File |-> IF f \in judging THEN {} ELSE won[f]]
       \/ Faulty /\ UNCHANGED won
    /\ rpc' = "judge" /\ judging' = {}
    /\ at' = IF todo = {} THEN at + 1 ELSE at
    /\ UNCHANGED <<said, dir, records, due, one, round, todo, files, counted, twice, never,
                   kept, nodeVars>>

RoundEnds ==
    /\ rpc = "judge" /\ at \notin Location
    /\ rpc' = "rest" /\ at' = 1
    /\ UNCHANGED <<boxVars, one, round, todo, judging, files, counted, twice, never, kept,
                   nodeVars>>

-----------------------------------------------------------------------------
(* A receiving node: Taker::take. *)

\* The transport of a Location whose far end, if it has one, says where it
\* listens.  A node need not come to a Location in every round (listed_every),
\* nor in any order the properties could tell; and a transport built on an
\* address read half written hears nothing, as if it never came there.
Speaks(l) == l \in Remote => l \in said

\* take_from: the transport's receive claims a file of the Location...
ClaimFile(n) ==
    /\ tpc[n] \in {"rest", "list"}
    /\ \E f \in dir :
          /\ Speaks(f.at) /\ (tpc[n] = "list" => f.at = taking[n])
          /\ dir'    = dir \ {f}
          /\ hand'   = [hand EXCEPT ![n] = @ \cup {f}]
          /\ taking' = [taking EXCEPT ![n] = f.at]
    /\ tpc' = [tpc EXCEPT ![n] = "list"]
    /\ UNCHANGED <<said, records, due, won, rollVars, cur, taken, killed>>

\* ...and hands over what it claimed.
Received(n) ==
    /\ tpc[n] = "list"
    /\ tpc' = [tpc EXCEPT ![n] = "accept"]
    /\ UNCHANGED <<boxVars, rollVars, taking, hand, cur, taken, killed>>

\* A file is read and accepted: it is consumed.
Accept(n) ==
    /\ tpc[n] = "accept"
    /\ \E f \in hand[n] :
          /\ hand' = [hand EXCEPT ![n] = @ \ {f}]
          /\ cur'  = [cur EXCEPT ![n] = {f}]
    /\ tpc' = [tpc EXCEPT ![n] = "sign"]
    /\ UNCHANGED <<boxVars, rollVars, taking, taken, killed>>

\* Mutant: what was read is signed for, however its acknowledgement went.
SignsWhatItRead(n, f) == tpc' = [tpc EXCEPT ![n] = "sign"] /\ cur' = [cur EXCEPT ![n] = {f}]

\* A file not acknowledged is not signed for.
Unsigned(n, f) == UNCHANGED <<tpc, cur>>

\* It could not be read, and is put back; or could not be acknowledged, and is
\* put back or consumed.
NotAccepted(n) ==
    /\ Faulty /\ tpc[n] = "accept"
    /\ \E f \in hand[n] :
          /\ hand' = [hand EXCEPT ![n] = @ \ {f}]
          /\ \E back \in SUBSET {f} : dir' = dir \cup back
          /\ Unsigned(n, f)
    /\ UNCHANGED <<said, records, due, won, rollVars, taking, taken, killed>>

\* Mutant: the count goes up once for all that a receive handed over.
TakenAtOnce(n) == IF hand[n] = {} THEN taken[n] + 1 ELSE taken[n]

TakenOneMore(n) == taken[n] + 1

\* The winner signs.  Where the roll clears the file's signatures between the
\* directory and the file in it, or the write fails, none is left.
Sign(n) ==
    /\ tpc[n] = "sign"
    /\ \/ won' = [f \in File |-> IF f \in cur[n] THEN won[f] \cup {n} ELSE won[f]]
       \/ (Faulty \/ cur[n] \cap judging # {}) /\ UNCHANGED won
    /\ taken' = [taken EXCEPT ![n] = TakenOneMore(n)]
    /\ cur'   = [cur EXCEPT ![n] = {}]
    /\ tpc'   = [tpc EXCEPT ![n] = "accept"]
    /\ UNCHANGED <<said, dir, records, due, rollVars, taking, hand, killed>>

\* All that was handed over is done with.
TakenAll(n) ==
    /\ tpc[n] = "accept" /\ hand[n] = {}
    /\ taking' = [taking EXCEPT ![n] = 1]
    /\ tpc'    = [tpc EXCEPT ![n] = "rest"]
    /\ UNCHANGED <<boxVars, rollVars, hand, cur, taken, killed>>

\* The node is killed and started again: its claims go back or stay claimed,
\* its counts begin anew.
Kill(n) ==
    /\ n \in Mortal \ killed
    /\ \E back \in {hand[n], {}} : dir' = dir \cup back
    /\ tpc'    = [tpc EXCEPT ![n] = "rest"]
    /\ taking' = [taking EXCEPT ![n] = 1]
    /\ hand'   = [hand EXCEPT ![n] = {}]
    /\ cur'    = [cur EXCEPT ![n] = {}]
    /\ taken'  = [taken EXCEPT ![n] = 0]
    /\ killed' = killed \cup {n}
    /\ UNCHANGED <<said, records, due, won, rollVars>>

-----------------------------------------------------------------------------
RollStep ==
    \/ StartFarEnd \/ FarEndsStarted \/ FarEndsFail \/ RoundBegins
    \/ Record \/ Send \/ NextLocation \/ AllDropped \/ DropFails
    \/ JudgeBegins \/ JudgeFile \/ ClearSigned \/ RoundEnds

TakerStep(n) ==
    \/ ClaimFile(n) \/ Received(n)
    \/ Accept(n) \/ NotAccepted(n) \/ Sign(n) \/ TakenAll(n)

Next ==
    \/ RollStep
    \/ \E f \in File : Age(f)
    \/ \E n \in Node : TakerStep(n) \/ Kill(n)

Spec == Init /\ [][Next]_vars

\* The roll goes round and time passes; of the nodes nothing is asked.
FairSpec == Spec /\ WF_vars(RollStep) /\ \A f \in File : WF_vars(Age(f))

-----------------------------------------------------------------------------
(* Properties. *)

TypeOK ==
    /\ said \subseteq Remote
    /\ dir \subseteq File /\ records \subseteq File /\ due \subseteq File
    /\ won \in [File -> SUBSET Node]
    /\ rpc \in {"start", "rest", "record", "send", "judge", "clear"}
    /\ at \in 1 .. Locations + 1 /\ one \in 1 .. Burst + 1 /\ round \in 0 .. MaxRound
    /\ todo \subseteq File /\ judging \subseteq File /\ files \in Nat
    /\ counted \subseteq File \X Node /\ twice \subseteq File /\ never \subseteq File
    /\ tpc \in [Node -> {"rest", "list", "accept", "sign"}]
    /\ taking \in [Node -> Location \cup {1}]
    /\ hand \in [Node -> SUBSET File] /\ cur \in [Node -> SUBSET File]
    /\ taken \in [Node -> Nat]
    /\ kept \subseteq File /\ killed \subseteq Node

\* "Only one Rn should win" (drop_box.rs:6): no file is ever signed for by two
\* nodes, however reads and acknowledgements fail and whoever is killed on the
\* way, so none is judged taken twice.
OnlyOneWins ==
    /\ twice = {}
    /\ \A f \in File : Cardinality(won[f]) <= 1

\* "Judge every file ... and clear its records" (judged.rs:31): each file is
\* counted once and comes to one judgment, unless its record would not go.
JudgedOnce ==
    LET judged == never \cup twice \cup {c[1] : c \in counted}
    IN  /\ files - Cardinality(judged) <= Cardinality(kept)
        /\ \A c \in counted : c[1] \in never => c[1] \in kept

\* The split the roll says and the counts the nodes say are of one another:
\* what it counted for a node, and what is yet to be judged, the node itself
\* says it took, as long as it is not started again.
SplitIsTaken ==
    \A n \in Node \ killed :
        Cardinality({f \in File : n \in won[f] \/ <<f, n>> \in counted}) <= taken[n]

\* Every file recorded as dropped is judged, whether it was ever sent or taken
\* and whatever failed in its round.
EveryFileJudged ==
    \A f \in File : f \in records ~> f \in never \cup twice \cup {c[1] : c \in counted}
=============================================================================
