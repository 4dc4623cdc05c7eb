------------------------------ MODULE InOrder -------------------------------
(***************************************************************************)
(* What a scheduled round promises (schedule.rs and its workers.rs): the   *)
(* round's slice of the matrix judged pair after pair in matrix order and  *)
(* folded into the ledger in that order, in one step.  Schedule reaches    *)
(* the same from several threads.  The promise holds whatever a pair's     *)
(* judgement is, so that and the ledger are parameters, which Schedule     *)
(* gives the definitions of Verdicts.                                      *)
(***************************************************************************)
EXTENDS Naturals

CONSTANTS
    slice(_, _), advanced(_, _),  \* a round's pairs, and the cursor past them
    judge(_, _, _),               \* one pair judged
    NewLedger, fold_all(_, _),    \* the ledger, and a round folded into it
    close(_),                     \* what a round publishes of the ledger
    Answers(_),  \* what each transport's exchange may answer
    Draws,       \* the draws a round may make
    Seconds,     \* the seconds a round may begin at
    MaxRound     \* bound: rounds

VARIABLES
    shape,   \* how the schedule was built: faults, workers, pairs per round
    rounds,  \* rounds run
    cursor,  \* where the next bounded round starts in the matrix
    ledger,  \* the record over time
    board,   \* what the last tick published
    met      \* history: what the last round met, its world and its answers

abstractVars == <<shape, rounds, cursor, ledger, board, met>>

\* What a round may meet: the second it begins at and its draw, with what the
\* schedule injects.
World(built) ==
    [now: Seconds, draw: Draws, plan: {built.plan},
     rotating: {built.rotating}, identity: {built.identity}]

\* The verdicts of a round over the slice, each pair's exchange answered.
in_order(world, pairs, answers) ==
    [n \in DOMAIN pairs |-> judge(world, pairs[n], answers[n])]

Start ==
    /\ rounds = 0 /\ cursor = 0 /\ met = <<>>
    /\ ledger = NewLedger /\ board = <<>>

\* One round: the last conjuncts say what it must have met.
Tick ==
    LET pairs == slice(cursor, shape.per_round) IN
    /\ rounds < MaxRound
    /\ rounds' = rounds + 1
    /\ ledger' = fold_all(ledger, in_order(met'.world, pairs, met'.answers))
    /\ board'  = close(ledger')
    /\ cursor' = advanced(cursor, shape.per_round)
    /\ met'.world \in World(shape)
    /\ DOMAIN met'.answers = DOMAIN pairs
    /\ \A n \in DOMAIN pairs : met'.answers[n] \in Answers(pairs[n][1])
    /\ UNCHANGED shape

InOrderSpec == Start /\ [][Tick]_abstractVars
=============================================================================
