----------------------------- MODULE LowLatency -----------------------------
(***************************************************************************)
(* The LowLatency test (low_latency.rs): each round times one exchange per *)
(* pair of its slice, keeps what came back whole in the pair's ring, and   *)
(* publishes a percentile of the ring against the transport's budget.  One *)
(* thread runs it, so a tick is one step.                                  *)
(***************************************************************************)
EXTENDS Verdicts

CONSTANTS
    RING,              \* how many recent latencies a pair keeps (256)
    WARMUP,            \* rounds skipped before latencies are recorded (3)
    LatencyStress,     \* the level spikes are injected at
    LatencyPerRound,   \* how many pairs a round times
    LatencyMax,        \* bound: rounds
    Spikes,            \* the draws the spikes of a round may make
    Reply(_)           \* what each transport's exchange may answer, and in
                       \* how many microseconds

ASSUME LatencyAssumption ==
    /\ RING \in Nat \ {0} /\ LatencyPerRound \in Nat
    /\ \A n \in DOMAIN Transports : \A reply \in Reply(Transports[n]) : reply.micros \in Nat

VARIABLES
    latRound, latCursor,
    rings,    \* each timed pair's ring
    latBoard, \* each seen pair's published health
    quiet     \* history: samples in budget recorded since the last that was not

latVars == <<latRound, latCursor, rings, latBoard, quiet>>

SPIKE_RATE == 4

budget_micros(transport) ==
    CASE transport \in {"file", "udp", "tcp"}  -> 100000
      [] transport \in {"websocket", "http"}   -> 120000
      [] OTHER                                 -> 160000

NoRing == [samples |-> <<>>, next |-> 0]

\* Mutant: a full ring is always overwritten at its first place.
ring_record_first(ring, micros) ==
    IF Len(ring.samples) < RING
    THEN [ring EXCEPT !.samples = Append(@, micros)]
    ELSE [ring EXCEPT !.samples[1] = micros]

\* The newest overwrites the oldest.
ring_record(ring, micros) ==
    IF Len(ring.samples) < RING
    THEN [ring EXCEPT !.samples = Append(@, micros)]
    ELSE [samples |-> [ring.samples EXCEPT ![ring.next + 1] = micros],
          next    |-> (ring.next + 1) % RING]

\* The p-th percentile of what is held: the sample at that place of the sorted
\* ring.  The rank is rounded down.
percentile(ring, p) ==
    LET kept    == ring.samples
        rank    == (p * (Len(kept) - 1)) \div 100
        UpTo(v) == {n \in DOMAIN kept : kept[n] <= v}
    IN  IF kept = <<>> THEN 0
        ELSE Least({v \in Range(kept) : Cardinality(UpTo(v)) > rank})

\* The measurement, or an injected spike; file never spikes.
sample(pair, measured, spikes) ==
    IF pair[1] # STEADY /\ fires(scaled_rate(SPIKE_RATE, LatencyStress), spikes, pair)
    THEN 3 * budget_micros(pair[1]) ELSE measured

\* A pair's health from its ring.
latency_health(ring, transport) ==
    LET p99 == percentile(ring, 99) IN
    CASE p99 <= budget_micros(transport)      -> "fine"
      [] p99 > 2 * budget_micros(transport)   -> "done"
      [] OTHER                                -> "stressed"

RingOf(pair) == Entry(rings, pair, NoRing)

\* One pair timed: its ring after, and the health published for it.
timed(pair, reply, spikes) ==
    LET kept == IF latRound + 1 > WARMUP
                THEN ring_record(RingOf(pair), sample(pair, reply.micros, spikes))
                ELSE RingOf(pair)
    IN  CASE reply.answer = "whole"    -> [ring |-> kept, health |-> latency_health(kept, pair[1])]
          [] reply.answer = "onesided" -> [ring |-> RingOf(pair), health |-> "stressed"]
          [] OTHER                     -> [ring |-> RingOf(pair), health |-> "done"]

LatencyPairs == slice(latCursor, LatencyPerRound)
Driven == {LatencyPairs[n] : n \in DOMAIN LatencyPairs}

LatInit ==
    /\ latRound = 0 /\ latCursor = 0
    /\ rings = <<>> /\ latBoard = <<>> /\ quiet = <<>>

\* tick: the slice is timed pair by pair, every other pair seen is published
\* from its ring, and the cursor moved.
LatTick ==
    /\ latRound < LatencyMax
    /\ \E spikes \in Spikes :
       \E replies \in [Driven -> UNION {Reply(p[1]) : p \in Driven}] :
       LET now(p) == timed(p, replies[p], spikes)
           Seen   == DOMAIN latBoard \cup Driven
           New(p) == p \in Driven /\ replies[p].answer = "whole" /\ latRound + 1 > WARMUP
       IN  /\ \A p \in Driven : replies[p] \in Reply(p[1])
           /\ rings' = [p \in Seen |-> IF p \in Driven THEN now(p).ring ELSE RingOf(p)]
           /\ latBoard' = [p \in Seen |-> IF p \in Driven THEN now(p).health
                                          ELSE latency_health(RingOf(p), p[1])]
           /\ quiet' = [p \in Seen |->
                CASE ~New(p) -> Entry(quiet, p, 0)
                  [] New(p) /\ sample(p, replies[p].micros, spikes) <= budget_micros(p[1]) ->
                        Least({RING, Entry(quiet, p, 0) + 1})
                  [] OTHER -> 0]
    /\ latRound'  = latRound + 1
    /\ latCursor' = advanced(latCursor, LatencyPerRound)

-----------------------------------------------------------------------------
(* Properties. *)

\* SpikesFade: however late a pair has been, once its last RING samples were
\* within budget it reads green, waiting or driven and answered whole
\* (low_latency.rs Ring: "newest overwriting oldest").
SpikesFade ==
    \A p \in DOMAIN latBoard :
        quiet[p] = RING => latency_health(RingOf(p), p[1]) = "fine"
=============================================================================
