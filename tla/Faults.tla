------------------------------- MODULE Faults -------------------------------
(***************************************************************************)
(* What the Essentials injects, as operators: the fault plan (fault.rs),   *)
(* the stress levels that scale it (stress.rs), the Parties spread over    *)
(* the transports (parties.rs), the fault that rotates over them           *)
(* (rotation.rs), and the identity pipeline with its own faults            *)
(* (identity.rs and its gates.rs).                                         *)
(*                                                                         *)
(* A rule fires on a 64-bit hash of its key and the round, modulo 100.     *)
(* The hash is out of TLC's reach and nothing depends on its bits, so a    *)
(* round carries a draw instead: a function from keys to 0 .. 99.          *)
(***************************************************************************)
EXTENDS Integers, FiniteSets, SequencesExt

CONSTANTS
    Transports,   \* the transports a schedule drives, in their order
    Contracts,    \* the contracts, in the order of CONTRACTS
    PartyCount,   \* how many Parties the configuration declares
    Resolve,      \* the place that holds each Party's first identity
    Mix(_)        \* the turn's mixed bits

ASSUME MatrixAssumption == Transports \in Seq(STRING) /\ Contracts \in Seq(STRING)

\* The transport whose Receive and Send carry no injected fault.
STEADY == "file"

Stages == <<"receive", "process", "send">>
Stage  == {"receive", "process", "send"}
Step   == {"identification", "authentication", "authorization"}

\* The keys the hash is taken of: a stage, an identity step or the Send
\* presentation, with the transport and the contract.
Point == Stage \cup Step \cup {"identity"}
Key   == Point \X {Transports[i] : i \in DOMAIN Transports}
               \X {Contracts[i] : i \in DOMAIN Contracts}

Least(S) == CHOOSE x \in S : \A y \in S : x <= y
Most(S)  == CHOOSE x \in S : \A y \in S : x >= y

-----------------------------------------------------------------------------
(* Levels. *)

Level == {"calm", "realistic", "harsh", "brutal"}

fault_multiplier(level) ==
    [calm |-> 0, realistic |-> 1, harsh |-> 3, brutal |-> 10][level]

MAX_RATE == 90

\* u8::saturating_mul, then the ceiling.
scaled_rate(rate, level) ==
    Least({MAX_RATE, Least({255, rate * fault_multiplier(level)})})

\* Half of what is free of other work, of the whole, rounded, at least one.
\* free is in percent.
share(whole, free) == Most({1, (whole * free + 100) \div 200})

workers(level, cores) ==
    CASE level \in {"calm", "realistic"} -> 1
      [] level = "harsh"                 -> Least({4, cores})
      [] level = "brutal"                -> cores

sizes(level) ==
    CASE level = "calm"      -> <<64>>
      [] level = "realistic" -> <<64, 1000, 3000>>
      [] level = "harsh"     -> <<0, 1, 1471, 1472, 1473, 8192, 65507, 65537>>
      [] level = "brutal"    -> <<0, 1, 255, 256, 1472, 1473, 65507, 65536, 65537, 1048576>>

size_for(level, round) == sizes(level)[(round % Len(sizes(level))) + 1]

-----------------------------------------------------------------------------
(* The plan. *)

Rule(stage, transport, contract, rate, kind) ==
    [stage |-> stage, transport |-> transport, contract |-> contract,
     rate |-> rate, kind |-> kind]

none == <<>>

\* The first three Receive rules, the two Process rules and the Send rules;
\* "any" is the code's None.
realistic ==
    << Rule("receive", "udp", "any", 9, "transport"),
       Rule("receive", "tcp", "bytes", 5, "transport"),
       Rule("receive", "smtp", "any", 4, "transport"),
       Rule("process", "any", "xml", 6, "contract"),
       Rule("process", "any", "json", 4, "contract"),
       Rule("send", "http", "any", 5, "transport"),
       Rule("send", "websocket", "any", 3, "transport"),
       Rule("send", "http", "any", 5, "addressing"),
       Rule("send", "tcp", "any", 3, "addressing"),
       Rule("send", "smtp", "any", 3, "addressing") >>

at(plan, level) ==
    [i \in DOMAIN plan |-> [plan[i] EXCEPT !.rate = scaled_rate(@, level)]]

fires(rate, draw, key) == rate # 0 /\ draw[key] < rate

Matches(rule, stage, transport, contract) ==
    /\ rule.stage = stage
    /\ rule.transport \in {"any", transport}
    /\ rule.contract \in {"any", contract}

\* The first matching rule that fires, as its kind; "none" where none does.
\* Every rule of a key reads the same draw.
plan_fault(plan, draw, stage, transport, contract) ==
    LET hits == {i \in DOMAIN plan :
                    /\ Matches(plan[i], stage, transport, contract)
                    /\ fires(plan[i].rate, draw, <<stage, transport, contract>>)}
    IN  IF hits = {} THEN "none" ELSE plan[Least(hits)].kind

-----------------------------------------------------------------------------
(* The Parties over the transports. *)

place(transport) ==
    LET found == {i \in DOMAIN Transports : Transports[i] = transport}
    IN  IF found = {} THEN 0 ELSE Least(found) - 1

sender(transport)   == place(transport) % PartyCount
receiver(transport) == (place(transport) + 1) % PartyCount

\* A filter, by FlattenSeq: the prover knows nothing of SelectSeq.
Filtered(s, Keep(_)) == FlattenSeq([i \in DOMAIN s |-> IF Keep(s[i]) THEN <<s[i]>> ELSE <<>>])

sends(party)    == Filtered(Transports, LAMBDA t : sender(t) = party)
receives(party) == Filtered(Transports, LAMBDA t : receiver(t) = party)

-----------------------------------------------------------------------------
(* The fault every fifty seconds. *)

PERIOD == 50
STRIKE == 10

strike_kind(stage, stream, turn) ==
    IF stream THEN "contract"
    ELSE IF stage = "send" /\ (turn \div 2) % 2 = 0 THEN "addressing"
    ELSE "transport"

\* Mutant: the steady transport is struck like any other.
turn_strikes_steady(turn) ==
    LET stage == IF (turn \div PartyCount) % 2 = 0 THEN "receive" ELSE "send"
        over  == IF stage = "send" THEN receives(turn % PartyCount)
                                   ELSE sends(turn % PartyCount)
    IN  IF over = <<>> THEN {}
        ELSE {[party |-> turn % PartyCount, stage |-> stage,
               transport |-> over[(Mix(turn) % Len(over)) + 1], contract |-> "any",
               kind |-> strike_kind(stage, turn % 2 = 1, turn)]}

\* What a turn strikes: a set of at most one record.
turn_strikes(turn) ==
    LET party      == turn % PartyCount
        stage      == IF (turn \div PartyCount) % 2 = 0 THEN "receive" ELSE "send"
        over       == IF stage = "send" THEN receives(party) ELSE sends(party)
        candidates == Filtered(over, LAMBDA t : t # STEADY)
        stream     == turn % 2 = 1
    IN  IF candidates = <<>> THEN {}
        ELSE {[party     |-> party,
               stage     |-> stage,
               transport |-> candidates[(Mix(turn) % Len(candidates)) + 1],
               contract  |-> IF stream
                             THEN Contracts[((Mix(turn) \div 65536) % Len(Contracts)) + 1]
                             ELSE "any",
               kind      |-> strike_kind(stage, stream, turn)]}

striking(seconds) ==
    IF seconds % PERIOD < STRIKE THEN turn_strikes(seconds \div PERIOD) ELSE {}

rotation_fault(stage, transport, contract, seconds) ==
    LET struck == {s \in striking(seconds) : Matches(s, stage, transport, contract)}
    IN  IF struck = {} THEN "none" ELSE (CHOOSE s \in struck : TRUE).kind

\* The faults a level injects, and whether the rotation strikes.
leveled(level) ==
    CASE level = "calm"      -> [plan |-> none, rotating |-> FALSE]
      [] level = "realistic" -> [plan |-> none, rotating |-> TRUE]
      [] OTHER               -> [plan |-> at(realistic, level), rotating |-> TRUE]

-----------------------------------------------------------------------------
(* The identity pipeline. *)

ReceiveRules ==
    << <<"identification", "http", 3>>, <<"authentication", "http", 4>>,
       <<"authentication", "http", 3>>, <<"authentication", "smtp", 3>>,
       <<"authorization", "tcp", 3>> >>

SendRules == << <<"http", 4>>, <<"smtp", 3>>, <<"websocket", 3>> >>

\* The step that fails, or "none".
receive_fault(enabled, draw, transport, contract) ==
    LET hits == {i \in DOMAIN ReceiveRules :
                    /\ ReceiveRules[i][2] = transport
                    /\ fires(ReceiveRules[i][3], draw,
                             <<ReceiveRules[i][1], transport, contract>>)}
    IN  IF ~enabled \/ transport = STEADY \/ hits = {}
        THEN "none" ELSE ReceiveRules[Least(hits)][1]

send_fault(enabled, draw, transport, contract) ==
    /\ enabled /\ transport # STEADY
    /\ \E i \in DOMAIN SendRules :
          /\ SendRules[i][1] = transport
          /\ fires(SendRules[i][2], draw, <<"identity", transport, contract>>)

\* The Location accepts the Party it faces alone, and the claim resolves to
\* whoever holds the identity.
authentication(party, honest) == honest /\ Resolve[party] = party

\* An outcome per step: the first that fails stops the pipeline, and what
\* comes after it was not reached.
receive(enabled, draw, party, transport, contract) ==
    LET fault == receive_fault(enabled, draw, transport, contract)
    IN  IF fault = "identification"
        THEN <<"failed", "onesided", "onesided">>
        ELSE IF ~authentication(party, fault # "authentication")
        THEN <<"delivered", "failed", "onesided">>
        ELSE <<"delivered", "delivered",
               IF fault = "authorization" THEN "failed" ELSE "delivered">>

send(enabled, draw, party, transport, contract) ==
    IF ~send_fault(enabled, draw, transport, contract) /\ authentication(party, TRUE)
    THEN "delivered" ELSE "failed"
=============================================================================
