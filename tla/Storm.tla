-------------------------------- MODULE Storm -------------------------------
(***************************************************************************)
(* The storm scenario (storm.rs): every pair at once from the level's      *)
(* workers, a panic caught where it happens, and the tick judged on        *)
(* whether the essentials kept its invariants.  The workers are            *)
(* Schedule's, whose order the storm does not depend on, so a tick is one  *)
(* step here.                                                              *)
(***************************************************************************)
EXTENDS Verdicts, Standing

CONSTANTS
    StormLevel,    \* the level
    Cores, Free,   \* the machine's cores, and what is free of it, in percent
    StormDraws,    \* the draws the faults of a round may make
    Weather(_),    \* what each transport's exchange may do, a panic included
    Took(_),       \* how long a tick may take, given its budget
    TIMEOUT,       \* an adapter's wait on its far end
    StormMax       \* bound: rounds

VARIABLES
    stormRound,
    stormStandings,  \* a standing per pair
    panics,          \* pairs that panicked, over every tick
    broken,          \* the invariants the last tick broke
    tickLeaf,        \* the tick's own health
    storming         \* history: what the exchanges of the last tick did, what
                     \* its faults drew, and how long it took

stormVars == <<stormRound, stormStandings, panics, broken, tickLeaf, storming>>

StormPairs == {all_pairs[n] : n \in DOMAIN all_pairs}

storm_plan == IF StormLevel = "calm" THEN none ELSE at(realistic, StormLevel)

\* Every pair waited on to its timeout, three times over, across the workers.
budget == (TIMEOUT * 3 * Matrix) \div Most({1, workers(StormLevel, share(Cores, Free))})

\* A tick takes some time.
ASSUME StormAssumption ==
    /\ StormLevel \in Level /\ Cores \in Nat /\ Free \in Nat /\ TIMEOUT \in Nat
    /\ Took(budget) \subseteq Nat

faulted(pair, draw) ==
    \E i \in DOMAIN Stages :
        plan_fault(storm_plan, draw, Stages[i], pair[1], pair[2]) # "none"

\* Mutant: a fault that fires hides that the pair panicked.
storm_judge_hiding(pair, weather, draw) ==
    CASE faulted(pair, draw)      -> [outcome |-> "failed", reason |-> TRUE, panicked |-> FALSE]
      [] ~faulted(pair, draw) /\ weather.answer = "panic" ->
            [outcome |-> "failed", reason |-> TRUE, panicked |-> TRUE]
      [] OTHER -> [outcome |-> round_trip(weather), reason |-> weather.reason,
                   panicked |-> FALSE]

\* One pair: the exchange, caught if it panics, then the round's fault over it
\* if one fires on any stage.
storm_judge(pair, weather, draw) ==
    CASE weather.answer = "panic" -> [outcome |-> "failed", reason |-> TRUE, panicked |-> TRUE]
      [] weather.answer # "panic" /\ faulted(pair, draw) ->
            [outcome |-> "failed", reason |-> TRUE, panicked |-> FALSE]
      [] OTHER -> [outcome |-> round_trip(weather), reason |-> weather.reason,
                   panicked |-> FALSE]

storm_mark(outcome) ==
    CASE outcome = "delivered" -> "pass"
      [] outcome = "onesided"  -> "warn"
      [] OTHER                 -> "fail"

\* The rollup is the worst of what is beneath it; a record that is not fine
\* gives a reason.  A standing carries the last line's.
violations(lines, published) ==
    {p \in DOMAIN published : published[p] # "fine"
                                /\ lines[p].outcome # "delivered" /\ ~lines[p].reason}

tick_record(broke) == IF broke = {} THEN "fine" ELSE "done"

StormInit ==
    /\ stormRound = 0 /\ panics = 0 /\ broken = {} /\ tickLeaf = "none"
    /\ stormStandings = [p \in StormPairs |-> NoStanding]
    /\ storming = [weather |-> <<>>, draw |-> <<>>, took |-> 0]

StormTick ==
    /\ stormRound < StormMax
    /\ stormRound' = stormRound + 1
    /\ \E weather \in [StormPairs -> UNION {Weather(p[1]) : p \in StormPairs}],
          draw \in StormDraws, took \in Took(budget) :
       LET lines     == [p \in StormPairs |-> storm_judge(p, weather[p], draw)]
           panicked  == {p \in StormPairs : lines[p].panicked}
           unreasoned == {p \in StormPairs :
                            storm_mark(lines[p].outcome) # "pass" /\ ~lines[p].reason}
       IN  /\ \A p \in StormPairs : weather[p] \in Weather(p[1])
           /\ stormStandings' = [p \in StormPairs |->
                record(stormStandings[p], storm_mark(lines[p].outcome))]
           /\ panics' = panics + Cardinality(panicked)
           /\ broken' = (IF unreasoned # {} THEN {"reason"} ELSE {})
                \cup (IF violations(lines, Published(stormStandings')) # {} THEN {"rollup"} ELSE {})
                \cup (IF took > budget THEN {"budget"} ELSE {})
                \cup (IF panicked # {} THEN {"panic"} ELSE {})
           /\ storming' = [weather |-> weather, draw |-> draw, took |-> took]
    /\ tickLeaf' = tick_record(broken')

-----------------------------------------------------------------------------
(* Properties. *)

\* TickTellsAll: a green tick hid nothing: no pair panicked in it, under a
\* fault or not, every pair that did not pass had a reason, its exchange's or
\* the fault that fired over it, and it kept its time; and a panic took no
\* other pair's verdict down with it (storm.rs: "a pair that does is caught,
\* counted and published red").
TickTellsAll ==
    stormRound > 0 =>
        /\ tickLeaf = "fine" =>
              /\ storming.took <= budget
              /\ \A p \in StormPairs :
                    /\ storming.weather[p].answer # "panic"
                    /\ \/ stormStandings[p].last = "pass"
                       \/ storming.weather[p].reason
                       \/ faulted(p, storming.draw)
        /\ \A p \in StormPairs :
              /\ stormStandings[p].last # "none"
              /\ storming.weather[p].answer = "panic" => health(stormStandings[p]) = "done"
=============================================================================
