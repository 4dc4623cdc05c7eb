------------------------------ MODULE Schedule ------------------------------
(***************************************************************************)
(* The Schedule (schedule.rs), which drives the RoundTrip test: each tick  *)
(* takes the round's slice of the matrix, judges its pairs from the        *)
(* level's worker threads (schedule/workers.rs, drive_each) and folds the  *)
(* verdicts into the ledger.  A worker takes the next place from one       *)
(* counter, judges the pair there and keeps the verdicts with their place; *)
(* once every worker has run out the results are put back in order.        *)
(***************************************************************************)
EXTENDS Verdicts

CONSTANTS
    Answers(_),  \* what each transport's exchange may answer
    Draws,       \* the draws a round may make
    Seconds,     \* the seconds a round may begin at
    MaxRound,    \* bound: rounds
    Workers,     \* how many worker threads there may be
    Shapes       \* the schedules there may be

ASSUME ScheduleAssumption ==
    /\ Workers \in Nat \ {0} /\ MaxRound \in Nat
    /\ \A built \in Shapes : built.workers \in Nat /\ built.per_round \in Nat

\* The program's own schedules: they inject a level's plan or none (at_level,
\* rotating).  Each Party's identity is its own, and the file adapter answers
\* whole; a transport is not named like the code's None.
ASSUME SteadyAssumption ==
    /\ \A built \in Shapes : built.plan \in {none} \cup {at(realistic, level) : level \in Level}
    /\ PartyCount \in Nat \ {0} /\ \A p \in 0 .. PartyCount - 1 : Resolve[p] = p
    /\ \A exchange \in Answers(STEADY) : exchange.answer = "whole"
    /\ \A i \in DOMAIN Transports : Transports[i] # "any"
    /\ \A second \in Seconds : Mix(second \div PERIOD) \in Nat

\* TRANSPORTS and CONTRACTS list each once.
ASSUME OnceAssumption ==
    /\ \A i, j \in DOMAIN Transports : Transports[i] = Transports[j] => i = j
    /\ \A i, j \in DOMAIN Contracts : Contracts[i] = Contracts[j] => i = j

VARIABLES
    shape, cursor, ledger, board, met,   \* as in InOrder
    round,   \* rounds begun
    world,   \* what this round meets
    next,    \* the counter pairs are handed out from
    hand,    \* the place each worker holds: 0 none yet, -1 it ran out
    mine     \* what each worker has judged: place, answer and verdicts

vars == <<shape, round, cursor, ledger, board, met, world, next, hand, mine>>

Worker == 1 .. Workers
Idle   == [now |-> -1]

Driving == world # Idle

\* A round under way has not happened yet.
Abstract == INSTANCE InOrder WITH rounds <- IF Driving THEN round - 1 ELSE round

\* with_faults: a plan that injects turns the identity faults on with it.
at_level(level, cores, per_round) ==
    [plan |-> leveled(level).plan, rotating |-> leveled(level).rotating,
     identity |-> leveled(level).plan # none,
     workers |-> workers(level, cores), per_round |-> per_round]

\* The schedule without a level, struck by the rotation alone.
rotating(per_round) ==
    [plan |-> none, rotating |-> TRUE, identity |-> FALSE,
     workers |-> 1, per_round |-> per_round]

Init ==
    /\ shape \in Shapes
    /\ world = Idle /\ round = 0 /\ cursor = 0 /\ met = <<>>
    /\ ledger = NewLedger /\ board = <<>> /\ next = 0
    /\ mine = [w \in Worker |-> <<>>]
    /\ hand = [w \in Worker |-> -1]

Pairs == slice(cursor, shape.per_round)

\* drive_each clamps the workers to the pairs there are.
Hired == 1 .. Most({1, Least({shape.workers, Len(Pairs)})})

\* tick: the round is counted, the clock read and the workers started.
Begin ==
    /\ ~Driving /\ round < MaxRound
    /\ round' = round + 1
    /\ world' \in Abstract!World(shape)
    /\ hand' = [w \in Worker |-> IF w \in Hired THEN 0 ELSE -1]
    /\ UNCHANGED <<shape, cursor, ledger, board, met, next, mine>>

\* fetch_add: a worker takes the next place, or finds there is none.
Fetch(w) ==
    /\ Driving /\ hand[w] = 0
    /\ next' = next + 1
    /\ hand' = [hand EXCEPT ![w] = IF next < Len(Pairs) THEN next + 1 ELSE -1]
    /\ UNCHANGED <<shape, round, cursor, ledger, board, met, world, mine>>

\* The worker judges the pair it holds and keeps the verdicts with the place.
Judge(w) ==
    /\ Driving /\ hand[w] > 0
    /\ LET pair == Pairs[hand[w]] IN
       \E answer \in Answers(pair[1]) :
          mine' = [mine EXCEPT ![w] =
                     Append(@, [at |-> hand[w], answer |-> answer,
                                verdicts |-> judge(world, pair, answer)])]
    /\ hand' = [hand EXCEPT ![w] = 0]
    /\ UNCHANGED <<shape, round, cursor, ledger, board, met, world, next>>

\* Mutant: the results stay as the workers handed them in.
in_place_unsorted(results) == results

\* sort_by_key: the results in the pairs' order.
in_place(results) ==
    LET Before(j) == {k \in DOMAIN results : \/ results[k].at < results[j].at
                                             \/ results[k].at = results[j].at /\ k < j}
    IN  [n \in DOMAIN results |->
            results[CHOOSE j \in DOMAIN results : Cardinality(Before(j)) = n - 1]]

\* Every worker has run out: what they judged, worker after worker, is put in
\* order and folded, the cursor moved and the round closed.
Finish ==
    LET judged == in_place(FlattenSeq(mine)) IN
    /\ Driving /\ \A w \in Worker : hand[w] = -1
    /\ ledger' = fold_all(ledger, [n \in DOMAIN judged |-> judged[n].verdicts])
    /\ board'  = close(ledger')
    /\ cursor' = advanced(cursor, shape.per_round)
    /\ met'    = [world |-> world, answers |-> [n \in DOMAIN judged |-> judged[n].answer]]
    /\ world'  = Idle /\ next' = 0
    /\ mine'   = [w \in Worker |-> <<>>]
    /\ UNCHANGED <<shape, round, hand>>

Next ==
    \/ Begin
    \/ \E w \in Worker : Fetch(w) \/ Judge(w)
    \/ Finish

-----------------------------------------------------------------------------
(* Properties. *)

\* Sequential: however the threads interleave, each round leaves the ledger,
\* the board and the recent items as one thread judging the slice in matrix
\* order would have (workers.rs: "a verdict list is deterministic however the
\* threads interleaved").
Sequential == Abstract!InOrderSpec

Turns(pair) ==
    Entry(ledger.tallies, <<"receive", pair[1], pair[2], "none">>, NoTally).rounds

\* TurnsAreEven: bounded rounds rotate over the matrix so that no pair ever
\* has two turns more than another (workers.rs slice: "every pair has its
\* turn"), also where the slice does not divide the matrix.
TurnsAreEven ==
    \A n, m \in DOMAIN all_pairs : Turns(all_pairs[n]) <= Turns(all_pairs[m]) + 1

\* SteadyStaysGreen: nothing injected ever fails the steady transport's
\* Receive or Send, its identity steps included, at any level and in any turn
\* of the rotation (fault.rs STEADY).  The file adapter answers whole.
SteadyStaysGreen ==
    \A s \in DOMAIN ledger.tallies :
        s[2] = STEADY /\ s[1] # "process" => ledger.tallies[s].failures = 0

\* FiguresAgree: the failures a stage publishes for a transport are those of
\* its pairs' own records, and it never counts more rounds than they ran
\* (ledger.rs: "one round that failed is one failure, not one per identity
\* step beneath it").
FiguresAgree ==
    \A k \in DOMAIN ledger.moved :
        LET own == {s \in DOMAIN ledger.tallies :
                        s[1] = k[1] /\ s[2] = k[2] /\ s[4] = "none"}
            Failures == [s \in own |-> ledger.tallies[s].failures]
            Rounds   == [s \in own |-> ledger.tallies[s].rounds]
        IN  /\ ledger.moved[k].failed = SumFunction(Failures)
            /\ ledger.moved[k].delivered + ledger.moved[k].failed
                  <= SumFunction(Rounds)
=============================================================================
