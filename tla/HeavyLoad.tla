------------------------------ MODULE HeavyLoad -----------------------------
(***************************************************************************)
(* The HeavyLoad test (heavy_load.rs and its payload.rs): each round sends *)
(* a payload of the round's size over every pair of its slice and judges   *)
(* whether it came back whole and still held.  One thread runs it, so a    *)
(* tick is one step.  A payload is its length.                             *)
(***************************************************************************)
EXTENDS Verdicts, Standing

CONSTANTS
    LoadBytes,        \* the size with_bytes was given
    LoadStress,       \* the level: its drop rate and its sizes
    LoadPerRound,     \* how many pairs a round carries
    LoadMax,          \* bound: rounds
    Drops,            \* the draws the drops of a round may make
    Limit,            \* the ceiling of each transport that has one
    Load(_)           \* what each transport's exchange may answer

ASSUME LoadAssumption == LoadPerRound \in Nat

VARIABLES
    loadRound, loadCursor,
    loadStandings,  \* each carried pair's standing
    moved_bytes     \* bytes carried whole since the start

loadVars == <<loadRound, loadCursor, loadStandings, moved_bytes>>

DROP_RATE == 4
VALIDATE_CEILING == 16 * 1024 * 1024

-----------------------------------------------------------------------------
(* The payloads: units are appended until the target is reached, so that   *)
(* what is sent is seldom as long as what was asked for.                   *)

\* How many units of a length reach the target.
Units(unit, target) == IF target <= 0 THEN 0 ELSE (target + unit - 1) \div unit

repeat_to(unit, target) == unit * Units(unit, target)

wrap_to(head, unit, tail, target) ==
    head + tail + unit * Most({1, Units(unit, target - head - tail)})

lines_to(first, unit, target) == first + (unit + 2) * Units(unit + 2, target - first)

large_hl7(target) == 111 + 13 * Units(13, target - 111)

\* The contracts whose units have one length; those that number their units
\* (json, wsdl, openapi, asyncapi), count them (x12, edifact) or encode them
\* (avro, protobuf) are left out.
large_payload(contract, target) ==
    CASE contract = "bytes"       -> target
      [] contract = "text"        -> repeat_to(10, target)
      [] contract = "regex"       -> repeat_to(17, target)
      [] contract = "xml"         -> wrap_to(7, 8, 8, target)
      [] contract = "html"        -> wrap_to(34, 12, 0, target)
      [] contract = "schematron"  -> wrap_to(30, 8, 8, target)
      [] contract = "fhir"        -> wrap_to(103, 53, 2, target)
      [] contract = "graphql"     -> wrap_to(14, 18, 1, target)
      [] contract = "sql"         -> wrap_to(7, 53, 8, target)
      [] contract = "csv"         -> lines_to(17, 20, target)
      [] contract = "fixed-width" -> lines_to(18, 18, target)
      [] contract = "hl7"         -> large_hl7(target)

\* Below the parse ceiling a document of the contract's shape, above it a
\* byte pattern.
payload(contract, size) ==
    IF size <= VALIDATE_CEILING THEN large_payload(contract, size) ELSE size

-----------------------------------------------------------------------------

\* with_bytes raises nothing to one.
Own == Most({1, LoadBytes})

\* The load's own size leads a cycle of the level's non-empty sizes.
size_this_round(round) ==
    LET edges == SelectSeq(sizes(LoadStress), LAMBDA s : s > 0)
        turn  == (round - 1) % (Len(edges) + 1)
    IN  IF turn = 0 THEN Own ELSE edges[turn]

dropped(pair, drops) ==
    /\ pair[1] \notin {"file", "udp"}
    /\ fires(scaled_rate(DROP_RATE, LoadStress), drops, pair)

Over(transport, length) == transport \in DOMAIN Limit /\ length > Limit[transport]

\* Mutant: what the transport says it cannot carry is taken as carried.
carry_unlimited(pair, size, reply, drops) ==
    CASE reply.answer = "onesided" -> "warn"
      [] reply.answer = "whole"    ->
            IF dropped(pair, drops) \/ (size <= VALIDATE_CEILING /\ ~reply.held)
            THEN "fail" ELSE "pass"
      [] OTHER -> "fail"

\* One load over one pair, judged.  A size past the ceiling is not sent; a
\* payload padded past it is, and fails in the transport.
carry(pair, size, reply, drops) ==
    IF Over(pair[1], size) \/ Over(pair[1], payload(pair[2], size)) THEN "fail"
    ELSE CASE reply.answer = "onesided" -> "warn"
           [] reply.answer = "whole"    ->
                IF dropped(pair, drops) \/ (size <= VALIDATE_CEILING /\ ~reply.held)
                THEN "fail" ELSE "pass"
           [] OTHER -> "fail"

LoadPairs == {slice(loadCursor, LoadPerRound)[n] :
                n \in DOMAIN slice(loadCursor, LoadPerRound)}

LoadInit ==
    /\ loadRound = 0 /\ loadCursor = 0
    /\ loadStandings = <<>> /\ moved_bytes = 0

LoadTick ==
    /\ loadRound < LoadMax
    /\ loadRound' = loadRound + 1
    /\ \E drops \in Drops, replies \in [LoadPairs -> UNION {Load(p[1]) : p \in LoadPairs}] :
       LET size    == size_this_round(loadRound + 1)
           mark(p) == carry(p, size, replies[p], drops)
       IN  /\ \A p \in LoadPairs : replies[p] \in Load(p[1])
           /\ loadStandings' =
                [p \in DOMAIN loadStandings \cup LoadPairs |->
                    LET before == Entry(loadStandings, p, NoStanding)
                    IN  IF p \in LoadPairs THEN record(before, mark(p)) ELSE before]
           /\ moved_bytes' = moved_bytes
                                + size * Cardinality({p \in LoadPairs : mark(p) = "pass"})
    /\ loadCursor' = advanced(loadCursor, LoadPerRound)

-----------------------------------------------------------------------------
(* Properties. *)

\* The pairs a round carried, by its number.
CarriedIn(round) ==
    LET count == Least({LoadPerRound, Matrix})
        pairs == slice(((round - 1) * count) % Matrix, count)
    IN  {pairs[n] : n \in DOMAIN pairs}

\* CeilingShows: a pair whose transport cannot hold the load reads anything but
\* green from its first turn at the load's own size, whatever sizes its other
\* turns meet (heavy_load.rs: "that real ceiling shows as red without any
\* injection", and "a pair that carried the load last round but dropped it
\* before reads yellow, not green").
CeilingShows ==
    \A p \in DOMAIN loadStandings :
        (/\ Over(p[1], Own)
         /\ \E r \in 1 .. loadRound : p \in CarriedIn(r) /\ size_this_round(r) = Own)
            => health(loadStandings[p]) # "fine"
=============================================================================
