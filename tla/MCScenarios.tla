---------------------------- MODULE MCScenarios -----------------------------
EXTENDS Scenarios

Alone(scenario) == [chosen |-> {scenario}, relayed |-> FALSE]
MCRolls == {Alone(s) : s \in Driver \ {"exclusive-claim"}}
              \cup {[chosen |-> {"round-trip", "retention"}, relayed |-> TRUE]}

\* The steady transport, one with identity faults and one with a ceiling.
MCTransports == <<"file", "http", "udp">>
MCContracts  == <<"xml">>
MCPairs == {MCTransports[i] : i \in DOMAIN MCTransports} \X {"xml"}

\* The two ends of what a rule may draw.
All(keys) == {[k \in keys |-> 0], [k \in keys |-> 99]}

MCResolve == [p \in 0 .. 1 |-> p]
MCMix(turn) == 65536 * (turn % 3) + turn
Whole(keep) == [answer |-> "whole", held |-> keep]
Not(answer) == [answer |-> answer, held |-> TRUE]
MCAnswers(transport) ==
    CASE transport = "file" -> {Whole(TRUE)}
      [] transport = "http" -> {Whole(TRUE), Whole(FALSE), Not("failed"), Not("onesided")}
      [] transport = "udp"  -> {Whole(TRUE), Not("broken")}
MCDraws   == All(Key)
MCSeconds == {0, 20, 150}
MCShapes  == {at_level("harsh", 2, 2), rotating(2)}

MCSpikes == All(MCPairs)
MCReply(transport) ==
    {[answer |-> "whole", micros |-> 100000]} \cup
        IF transport # "udp" THEN {}
        ELSE {[answer |-> "whole", micros |-> 100001], [answer |-> "whole", micros |-> 200001],
              [answer |-> "failed", micros |-> 0], [answer |-> "onesided", micros |-> 0]}

MCLimit == [udp |-> 65507]
MCLoad(transport) ==
    {Whole(TRUE)} \cup
        IF transport # "udp" THEN {} ELSE {Whole(FALSE), Not("failed"), Not("onesided")}

MCMisses == [{"archive-skip", "archive-fault"} \X {"xml"} -> {0, 99}]

MCSkips == All(Cabinets \X {"xml"})
MCStores(cabinet) ==
    {[archives |-> TRUE, restores |-> TRUE, whole |-> w] : w \in BOOLEAN}
        \cup {[archives |-> a, restores |-> FALSE, whole |-> FALSE] : a \in BOOLEAN}

MCStormDraws == All(Key)
Reasoned(exchange, reason) ==
    [answer |-> exchange.answer, held |-> exchange.held, reason |-> reason]
MCWeather(transport) ==
    {Reasoned(Whole(TRUE), TRUE), Reasoned(Not("panic"), TRUE)} \cup
        IF transport # "http" THEN {}
        ELSE {Reasoned(Not("failed"), r) : r \in BOOLEAN}
                \cup {Reasoned(Whole(FALSE), TRUE), Reasoned(Not("onesided"), TRUE)}
MCTook(limit) == {limit, limit + 1}

MCRoles == [L |-> {"storage"}, R |-> {"receiving"}, S |-> {"sending", "processing"}]
=============================================================================
