------------------------------ MODULE Verdicts ------------------------------
(***************************************************************************)
(* One RoundTrip round over one pair, judged (round_trip.rs, schedule.rs), *)
(* and the ledger the verdicts are folded into (schedule/ledger.rs,        *)
(* schedule/tally.rs), as operators.                                       *)
(*                                                                         *)
(* A payload is one unit of bytes; evidence lines are left out, all but    *)
(* the prefix stage_outcome tells a contract failure by.                   *)
(***************************************************************************)
EXTENDS Faults

CONSTANT RecentItems   \* bound: the items the activity feed keeps

\* What the transport did with the payload, and whether the contract held
\* over what arrived: a RoundTrip adapter's exchange and the contract's
\* validation.
Exchange == [answer: {"whole", "broken", "onesided", "failed", "refused"},
             held: BOOLEAN]

\* The transport's half of a round: "arrived", or the outcome to publish.
carried(exchange) ==
    CASE exchange.answer = "whole"                   -> "arrived"
      [] exchange.answer \in {"refused", "onesided"} -> "onesided"
      [] exchange.answer \in {"broken", "failed"}    -> "failed"

\* The contract's half.
held(exchange) == IF exchange.held THEN "delivered" ELSE "contract not held"

round_trip(exchange) ==
    IF carried(exchange) = "arrived" THEN held(exchange) ELSE carried(exchange)

bytes_moved(base) == IF base = "delivered" THEN 1 ELSE 0

\* One stage's share of the base outcome.
stage_outcome(stage, base) ==
    LET owner == IF base = "contract not held" THEN "process" ELSE "receive"
    IN  CASE base = "onesided"  -> "onesided"
          [] base = "delivered" -> "delivered"
          [] OTHER              -> IF stage = owner THEN "failed" ELSE "delivered"

stage_bytes(stage, base, outcome) ==
    IF stage = "send" /\ outcome = "delivered" THEN bytes_moved(base) ELSE 0

\* What a round injects: the plan, whether the rotation strikes, whether the
\* identity pipeline is faulted, the second the round began and its draw.
fault_for(world, stage, transport, contract) ==
    LET struck == IF world.rotating
                  THEN rotation_fault(stage, transport, contract, world.now)
                  ELSE "none"
    IN  IF struck # "none" THEN struck
        ELSE plan_fault(world.plan, world.draw, stage, transport, contract)

Verdict(pair, stage, point, outcome, bytes) ==
    [stage |-> stage, transport |-> pair[1], contract |-> pair[2],
     point |-> point, outcome |-> outcome, bytes |-> bytes]

stage_verdict(world, pair, exchange, stage) ==
    LET base == round_trip(exchange)
        own  == stage_outcome(stage, base)
    IN  IF fault_for(world, stage, pair[1], pair[2]) # "none"
        THEN Verdict(pair, stage, "none", "failed", 0)
        ELSE Verdict(pair, stage, "none", own, stage_bytes(stage, base, own))

receive_verdicts(world, pair) ==
    LET out == receive(world.identity, world.draw, sender(pair[1]), pair[1], pair[2])
    IN  << Verdict(pair, "receive", "identification", out[1], 0),
           Verdict(pair, "receive", "authentication", out[2], 0),
           Verdict(pair, "receive", "authorization", out[3], 0) >>

send_verdict(world, pair) ==
    Verdict(pair, "send", "identity",
            send(world.identity, world.draw, receiver(pair[1]), pair[1], pair[2]), 0)

\* One pair's verdicts this round: the stages, then the identity steps.
judge(world, pair, exchange) ==
    [i \in DOMAIN Stages |-> stage_verdict(world, pair, exchange, Stages[i])]
        \o receive_verdicts(world, pair)
        \o <<send_verdict(world, pair)>>

-----------------------------------------------------------------------------
(* The tally: a pair's record over its rounds. *)

scope(v) == <<v.stage, v.transport, v.contract, v.point>>

NoTally == [rounds |-> 0, failures |-> 0, last |-> "none"]

tally_fold(tally, outcome) ==
    [rounds   |-> tally.rounds + 1,
     failures |-> tally.failures + (IF outcome = "failed" THEN 1 ELSE 0),
     last     |-> outcome]

rate_severity(tally) ==
    IF tally.rounds = 0 THEN 40
    ELSE Most({1, Least({80, (tally.failures * 80) \div tally.rounds})})

over_time(tally) ==
    CASE tally.last = "delivered" /\ tally.failures = 0 ->
            [health |-> "fine", severity |-> 0]
      [] tally.last = "delivered" /\ tally.failures # 0 ->
            [health |-> "stressed", severity |-> rate_severity(tally)]
      [] tally.last = "failed" -> [health |-> "done", severity |-> 90]
      [] OTHER                 -> [health |-> "stressed", severity |-> 40]

-----------------------------------------------------------------------------
(* The ledger: the tallies, what each stage's transports moved, and the    *)
(* recent items, numbered as they are recorded.                            *)

Throughput == [delivered |-> 0, bytes |-> 0, failed |-> 0]

NewLedger == [tallies |-> <<>>, moved |-> <<>>, recent |-> <<>>, item_seq |-> 0]

Put(f, x, y) == [z \in DOMAIN f \cup {x} |-> IF z = x THEN y ELSE f[z]]
Entry(f, x, default) == IF x \in DOMAIN f THEN f[x] ELSE default

move(moved, v) ==
    CASE v.outcome = "delivered" ->
            [moved EXCEPT !.delivered = @ + 1,
                          !.bytes = @ + (IF v.stage = "send" THEN v.bytes ELSE 0)]
      [] v.outcome = "failed"    -> [moved EXCEPT !.failed = @ + 1]
      [] v.outcome = "onesided"  -> moved

\* The feed keeps the newest items and forgets the oldest.
record_item(recent, item) ==
    LET all == Append(recent, item)
    IN  IF Len(all) > RecentItems THEN Tail(all) ELSE all

\* Mutant: every identity step counts as throughput too.
fold_every_point(ledger, v) ==
    LET stage == <<v.stage, v.transport>>
    IN  [ledger EXCEPT
            !.tallies  = Put(@, scope(v), tally_fold(Entry(@, scope(v), NoTally), v.outcome)),
            !.moved    = Put(@, stage, move(Entry(@, stage, Throughput), v)),
            !.item_seq = @ + 1,
            !.recent   = record_item(@, <<ledger.item_seq + 1, scope(v), v.outcome>>)]

\* Fold one verdict in.  Only a transport verdict moves throughput and makes
\* an item; an identity step is health alone.
fold(ledger, v) ==
    LET stage == <<v.stage, v.transport>>
        kept  == [ledger EXCEPT !.tallies =
                    Put(@, scope(v), tally_fold(Entry(@, scope(v), NoTally), v.outcome))]
    IN  IF v.point # "none" THEN kept
        ELSE [kept EXCEPT
                !.moved    = Put(@, stage, move(Entry(@, stage, Throughput), v)),
                !.item_seq = @ + 1,
                !.recent   = record_item(@, <<ledger.item_seq + 1, scope(v), v.outcome>>)]

\* A round's verdicts, pair by pair, folded one after the other.
fold_all(ledger, judged) == FoldLeft(fold, ledger, FlattenSeq(judged))

\* Close a round: what was judged is on the board by its record, and so are
\* the pairs that waited.
close(ledger) == [s \in DOMAIN ledger.tallies |-> over_time(ledger.tallies[s])]

-----------------------------------------------------------------------------
(* The matrix. *)

\* Every transport by every contract, in matrix order.
all_pairs ==
    [n \in 1 .. Len(Transports) * Len(Contracts) |->
        <<Transports[((n - 1) \div Len(Contracts)) + 1],
          Contracts[((n - 1) % Len(Contracts)) + 1]>>]

Matrix == Len(all_pairs)

\* The pairs a bounded round drives, wrapping.
slice(cursor, count) ==
    [n \in 1 .. Least({count, Matrix}) |-> all_pairs[((cursor + n - 1) % Matrix) + 1]]

\* Mutant: the cursor is moved one past the slice.
advanced_past(cursor, count) == (cursor + Least({count, Matrix}) + 1) % Matrix

advanced(cursor, count) == (cursor + Least({count, Matrix})) % Matrix

=============================================================================
