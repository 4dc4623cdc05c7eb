------------------------------- MODULE Relay -------------------------------
(***************************************************************************)
(* The message path between node processes (relay.rs, relay/judging.rs): a *)
(* receive stage lets its share of the pairs arrive, a process stage holds *)
(* the contract over each and routes it through the node's Subscriptions   *)
(* (subscribing.rs), a send stage sends it out.  Between two stages a pair *)
(* is a file in the inbox of a node that serves the next (handoff.rs):     *)
(* written, renamed into place, and claimed by renaming it again.          *)
(*                                                                         *)
(* A node process may be killed and started again at any step.  What it    *)
(* held in memory goes with it; the inboxes, and what its Subscriptions    *)
(* hold, are on disk and stay.                                             *)
(*                                                                         *)
(* What a pair arrived as is told apart by who received it: a message is   *)
(* the pair, the round and the process that took it in.  The order of the  *)
(* pairs of one round, which no property speaks of, is left open.          *)
(***************************************************************************)
EXTENDS Integers, FiniteSets, Sequences

CONSTANTS
    Node,          \* the roster
    Pair,          \* (transport, contract)
    Subscription,
    Serves,        \* the stages each node declared
    Share,         \* the pairs each receiving node takes, in the matrix's order
    Hashed,        \* the node a pair hashes to, of those that serve a stage
    Executing,     \* the nodes that hand on to themselves
    SubOf,         \* the Subscription that picks a pair up
    PerRound,      \* pairs a receive stage lets arrive in a round
    Faulty,        \* TRUE when stages, deliveries and storage writes may fail
    Restartable,   \* the nodes that may be killed and started again
    MaxRound,      \* bound: rounds a receive stage ticks in one process
    MaxLife,       \* bound: processes a node is run as
    MaxOrders,     \* bound: orders an operator leaves
    MaxTries       \* bound: handoffs after which a release is always written

Stage == {"receive", "process", "send"}
Relays == {r \in Node \X Stage : r[2] \in Serves[r[1]]}
Receivers == {n \in Node : "receive" \in Serves[n]}

\* A pair has one receiver (Roster::receives), every stage is served, and a
\* pair's hash names a node that serves it (Roster::target, refusal).
ASSUME RosterAssumption ==
    /\ IsFiniteSet(Node) /\ IsFiniteSet(Pair)
    /\ Serves \in [Node -> SUBSET Stage]
    /\ Share \in [Receivers -> Seq(Pair)]
    /\ \A n \in Receivers : Share[n] # <<>>
    /\ \A m, n \in Receivers : \A i \in DOMAIN Share[m], j \in DOMAIN Share[n] :
          Share[m][i] = Share[n][j] => m = n /\ i = j
    /\ Hashed \in [{"process", "send"} -> [Pair -> Node]]
    /\ \A s \in {"process", "send"}, p \in Pair : s \in Serves[Hashed[s][p]]
    /\ Executing \subseteq {n \in Node : Serves[n] = Stage}
    /\ SubOf \in [Pair -> Subscription]
    /\ PerRound \in Nat \ {0} /\ Faulty \in BOOLEAN /\ Restartable \subseteq Node
    /\ MaxRound \in Nat /\ MaxLife \in Nat /\ MaxOrders \in Nat /\ MaxTries \in Nat

Message == [pair: Pair, round: Nat, by: Node \X Nat]

\* A file of an inbox: `from` and `seq` are in its name, and so are the
\* message's round and pair; the process that took it in is not.
File == [msg: Message, from: Node, seq: Nat]

VARIABLES
    life,       \* which process each node runs as
    round,      \* the receive stage's rounds (Relay.round)
    cursor,     \* where in its share the next round begins
    sequence,   \* the relay's count of handoffs
    pc,         \* "idle", "claim", "judge", "release" or "done"
    list,       \* files its claim listed and has not come to
    hand,       \* messages taken and not yet judged and handed on
    unreadable, \* files it claimed that did not read back as a handoff
    inbox,
    subscribed, \* whether the node's Subscriptions started
    paused,     \* the Subscriptions paused on each node
    queue,      \* messages its Subscriptions hold, in its Storage node
    go,         \* the ones a resume let go of
    picked,     \* the ones this tick hands on
    handed,     \* the one handed on and not yet released from its queue
    orders,     \* orders left so far
    (* history *)
    arrived,    \* messages that arrived whole
    sent,       \* sent out by a send stage
    resent,     \* sent out again
    failed,     \* said to have failed by a stage's verdict
    lost,       \* taken by a process that was killed
    dropped,    \* in the files each relay's process dropped as unreadable
    held        \* ever held by a Subscription

relayVars == <<round, cursor, sequence, pc, list, hand, unreadable>>
subVars   == <<subscribed, paused, queue, go, picked, handed>>
saidVars  == <<arrived, sent, resent, failed, lost, dropped, held>>
vars      == <<life, relayVars, inbox, subVars, orders, saidVars>>

Init ==
    /\ life       = [n \in Node |-> 1]
    /\ round      = [n \in Node |-> 0]
    /\ cursor     = [n \in Node |-> 0]
    /\ sequence   = [r \in Relays |-> 0]
    /\ pc         = [r \in Relays |-> "idle"]
    /\ list       = [r \in Relays |-> {}]
    /\ hand       = [r \in Relays |-> {}]
    /\ unreadable = [r \in Relays |-> 0]
    /\ inbox      = [r \in Relays |-> {}]
    /\ subscribed = [n \in Node |-> TRUE]
    /\ paused     = [n \in Node |-> {}]
    /\ queue      = [n \in Node |-> {}]
    /\ go         = [n \in Node |-> {}]
    /\ picked     = [n \in Node |-> {}]
    /\ handed     = [n \in Node |-> {}]
    /\ orders = 0
    /\ arrived = {} /\ sent = {} /\ resent = {} /\ failed = {} /\ lost = {} /\ held = {}
    /\ dropped = [r \in Relays |-> {}]

-----------------------------------------------------------------------------
(* The handoff: handoff.rs. *)

\* Mutant: a name for each sender.
SameSender(f, g) == f.from = g.from

\* {round}-{from}-{sequence}-{transport}-{contract}.
SameName(f, g) ==
    /\ f.from = g.from /\ f.seq = g.seq
    /\ f.msg.round = g.msg.round /\ f.msg.pair = g.msg.pair

\* Inbox::deliver: the rename replaces a file of the same name.
Delivered(files, f) == {g \in files : ~SameName(f, g)} \cup {f}

\* The order of the names: the round, then for one sender its count.
Older(f, g) ==
    \/ f.msg.round < g.msg.round
    \/ f.msg.round = g.msg.round /\ f.from = g.from /\ f.seq < g.seq

AtLeastOne(n) == IF n < 1 THEN 1 ELSE n

\* Relay::at, Relay::bounded: what one claim takes, as many as the receivers
\* together hand on in a round.
Limit == AtLeastOne(PerRound * AtLeastOne(Cardinality(Receivers)))

\* Inbox::claim's listing: the oldest, up to the limit.
Listed(files) ==
    {l \in SUBSET files :
        /\ Cardinality(l) = IF Cardinality(files) < Limit THEN Cardinality(files) ELSE Limit
        /\ \A f \in l, g \in files \ l : ~Older(g, f)}

\* Mutant: the file is read where it is.
ClaimedInPlace(files, f) == files

\* ...and the rename by which one is taken out.
Claimed(files, f) == {g \in files : ~SameName(f, g)}

\* Roster::target.
Target(n, s, p) == IF n \in Executing THEN n ELSE Hashed[s][p]

NextStage(s) == IF s = "receive" THEN "process" ELSE "send"

\* Relay::hand_on: the message in the next node's inbox under this relay's
\* own name and count.
HandOn(r, m) ==
    LET to == <<Target(r[1], NextStage(r[2]), m.pair), NextStage(r[2])>>
        f  == [msg |-> m, from |-> r[1], seq |-> sequence[r] + 1]
    IN  /\ sequence' = [sequence EXCEPT ![r] = @ + 1]
        /\ inbox'    = [inbox EXCEPT ![to] = Delivered(@, f)]

-----------------------------------------------------------------------------
(* One tick of a stage: relay.rs tick, judging.rs. *)

\* The slice of a share a round drives, wrapping (schedule/workers.rs).
Slice(n) ==
    LET count == IF PerRound < Len(Share[n]) THEN PerRound ELSE Len(Share[n])
    IN  {Share[n][((cursor[n] + i) % Len(Share[n])) + 1] : i \in 0 .. count - 1}

\* Mutant: the cursor is never brought back into the share.
Unwrapped(n, count) == cursor[n] + count

\* Where the next round begins.
Advanced(n, count) == (cursor[n] + count) % Len(Share[n])

\* A receive stage's round: each pair of the slice arrives, or its fault or
\* its transport keeps it from.
Receive(n) ==
    LET r == <<n, "receive">>
        slice == Slice(n)
    IN  /\ pc[r] = "idle" /\ round[n] < MaxRound
        /\ round'  = [round EXCEPT ![n] = @ + 1]
        /\ cursor' = [cursor EXCEPT ![n] = Advanced(n, Cardinality(slice))]
        /\ \E whole \in IF Faulty THEN SUBSET slice ELSE {slice} :
              LET took == [pair: whole, round: {round[n] + 1}, by: {<<n, life[n]>>}]
              IN  /\ hand' = [hand EXCEPT ![r] = took]
                  /\ arrived' = arrived \cup took
        /\ pc' = [pc EXCEPT ![r] = "judge"]
        /\ UNCHANGED <<life, sequence, list, unreadable, inbox, subVars, orders, sent, resent,
                       failed, lost, dropped, held>>

\* A process or a send stage's round begins with the listing.  A tick that
\* finds nothing to claim and nothing let go of changes nothing.
Drain(r) ==
    /\ r[2] # "receive" /\ pc[r] = "idle"
    /\ inbox[r] # {} \/ (r[2] = "process" /\ go[r[1]] # {})
    /\ \E l \in Listed(inbox[r]) : list' = [list EXCEPT ![r] = l]
    /\ pc' = [pc EXCEPT ![r] = "claim"]
    /\ UNCHANGED <<life, round, cursor, sequence, hand, unreadable, inbox, subVars, orders,
                   saidVars>>

\* One file renamed, read and removed.  It may have been replaced since it
\* was listed: what is there now is taken.
Claim(r) ==
    /\ pc[r] = "claim"
    /\ \E f \in list[r] :
          /\ list'  = [list EXCEPT ![r] = @ \ {f}]
          /\ hand'  = [hand EXCEPT ![r] = @ \cup {g.msg : g \in {h \in inbox[r] : SameName(f, h)}}]
          /\ inbox' = [inbox EXCEPT ![r] = Claimed(@, f)]
    /\ UNCHANGED <<life, round, cursor, sequence, pc, unreadable, subVars, orders, saidVars>>

\* ...or it does not read back as a handoff: it is removed all the same, and
\* counted.  The count makes the inbox's record Stressed; there is no verdict.
ClaimUnreadable(r) ==
    /\ Faulty /\ pc[r] = "claim"
    /\ \E f \in list[r] :
          LET there == {h \in inbox[r] : SameName(f, h)}
          IN  /\ there # {}
              /\ list'    = [list EXCEPT ![r] = @ \ {f}]
              /\ inbox'   = [inbox EXCEPT ![r] = Claimed(@, f)]
              /\ dropped' = [dropped EXCEPT ![r] = @ \cup {g.msg : g \in there}]
    /\ unreadable' = [unreadable EXCEPT ![r] = @ + 1]
    /\ UNCHANGED <<life, round, cursor, sequence, pc, hand, subVars, orders, arrived, sent,
                   resent, failed, lost, held>>

ClaimEnds(r) ==
    /\ pc[r] = "claim" /\ list[r] = {}
    /\ pc' = [pc EXCEPT ![r] = "judge"]
    /\ UNCHANGED <<life, round, cursor, sequence, list, hand, unreadable, inbox, subVars, orders,
                   saidVars>>

\* A fault, a contract not held, a Publication not taken, or a delivery that
\* could not be made: the verdict says so and nothing is handed on.
Fails(r) ==
    /\ Faulty /\ pc[r] = "judge"
    /\ \E m \in hand[r] :
          /\ hand'   = [hand EXCEPT ![r] = @ \ {m}]
          /\ failed' = failed \cup {m}
    /\ \E tried \in IF r[2] = "send" THEN {0} ELSE {0, 1} :
          sequence' = [sequence EXCEPT ![r] = @ + tried]
    /\ UNCHANGED <<life, round, cursor, pc, list, unreadable, inbox, subVars, orders, arrived,
                   sent, resent, lost, dropped, held>>

\* A send stage sends a message out and closes the verdict.
Send(r) ==
    /\ r[2] = "send" /\ pc[r] = "judge"
    /\ \E m \in hand[r] :
          /\ hand'   = [hand EXCEPT ![r] = @ \ {m}]
          /\ sent'   = sent \cup {m}
          /\ resent' = IF m \in sent THEN resent \cup {m} ELSE resent
    /\ UNCHANGED <<life, round, cursor, sequence, pc, list, unreadable, inbox, subVars, orders,
                   arrived, failed, lost, dropped, held>>

\* Whether Subscribing::route says a message is held.  A node whose
\* Subscriptions did not start routes by none.
Holds(r, m) == r[2] = "process" /\ subscribed[r[1]] /\ SubOf[m.pair] \in paused[r[1]]

\* A message picked up, or received, is handed on...
PassOn(r) ==
    /\ r[2] # "send" /\ pc[r] = "judge"
    /\ \E m \in hand[r] :
          /\ ~Holds(r, m)
          /\ HandOn(r, m)
          /\ hand' = [hand EXCEPT ![r] = @ \ {m}]
    /\ UNCHANGED <<life, round, cursor, pc, list, unreadable, subVars, orders, saidVars>>

\* ...and one a paused Subscription holds waits in its queue.
Hold(r) ==
    /\ pc[r] = "judge"
    /\ \E m \in hand[r] :
          /\ Holds(r, m)
          /\ queue' = [queue EXCEPT ![r[1]] = @ \cup {m}]
          /\ held'  = held \cup {m}
          /\ hand'  = [hand EXCEPT ![r] = @ \ {m}]
    /\ UNCHANGED <<life, round, cursor, sequence, pc, list, unreadable, inbox, subscribed,
                   paused, go, picked, handed, orders, arrived, sent, resent, failed, lost,
                   dropped>>

\* Mutant: what is picked is out of its queue before it is handed on.
PickUnqueued(n, read, over) ==
    /\ picked' = [picked EXCEPT ![n] = read]
    /\ go'     = [go EXCEPT ![n] = @ \ over]
    /\ queue'  = [queue EXCEPT ![n] = @ \ read]

\* Subscribing::released: what was let go of and is read back, which stays in
\* its queue.  What turns out not to be a pair (over) is passed over and no
\* longer let go of; what cannot be read now is let go of still.
Pick(n, read, over) ==
    /\ picked' = [picked EXCEPT ![n] = read]
    /\ go'     = [go EXCEPT ![n] = @ \ over]
    /\ UNCHANGED queue

\* Relay::hand_on_released begins, for a process stage with Subscriptions.
JudgeEnds(r) ==
    /\ pc[r] = "judge" /\ hand[r] = {}
    /\ IF r[2] = "process" /\ subscribed[r[1]]
       THEN /\ pc' = [pc EXCEPT ![r] = "release"]
            /\ \E read \in IF Faulty THEN SUBSET go[r[1]] ELSE {go[r[1]]} :
                  \E over \in IF Faulty THEN SUBSET (go[r[1]] \ read) ELSE {{}} :
                     Pick(r[1], read, over)
       ELSE /\ pc' = [pc EXCEPT ![r] = "idle"]
            /\ UNCHANGED <<picked, go, queue>>
    /\ UNCHANGED <<life, round, cursor, sequence, list, hand, unreadable, inbox, subscribed,
                   paused, handed, orders, saidVars>>

\* One that was let go of is handed on...
Release(n) ==
    LET r == <<n, "process">>
    IN  /\ pc[r] = "release"
        /\ \E m \in picked[n] :
              /\ HandOn(r, m)
              /\ picked' = [picked EXCEPT ![n] = @ \ {m}]
              /\ handed' = [handed EXCEPT ![n] = {m}]
        /\ pc' = [pc EXCEPT ![r] = "done"]
        /\ UNCHANGED <<life, round, cursor, list, hand, unreadable, subscribed, paused, queue,
                       go, orders, saidVars>>

\* ...and then released from its queue; where the Storage node does not take
\* that, it is let go of still (Subscribing::done).
Done(n) ==
    LET r == <<n, "process">>
    IN  /\ pc[r] = "done"
        /\ \/ /\ queue' = [queue EXCEPT ![n] = @ \ handed[n]]
              /\ go'    = [go EXCEPT ![n] = @ \ handed[n]]
           \/ Faulty /\ sequence[r] < MaxTries /\ UNCHANGED <<queue, go>>
        /\ handed' = [handed EXCEPT ![n] = {}]
        /\ pc' = [pc EXCEPT ![r] = "release"]
        /\ UNCHANGED <<life, round, cursor, sequence, list, hand, unreadable, inbox, subscribed,
                       paused, picked, orders, saidVars>>

\* One that could not be handed on is kept, Failed, until a resume.
ReleaseFails(n) ==
    LET r == <<n, "process">>
    IN  /\ Faulty /\ pc[r] = "release"
        /\ \E m \in picked[n] :
              /\ picked' = [picked EXCEPT ![n] = @ \ {m}]
              /\ go'     = [go EXCEPT ![n] = @ \ {m}]
        /\ sequence' = [sequence EXCEPT ![r] = @ + 1]
        /\ UNCHANGED <<life, round, cursor, pc, list, hand, unreadable, inbox, subscribed,
                       paused, queue, handed, orders, saidVars>>

ReleaseEnds(n) ==
    LET r == <<n, "process">>
    IN  /\ pc[r] = "release" /\ picked[n] = {}
        /\ pc' = [pc EXCEPT ![r] = "idle"]
        /\ UNCHANGED <<life, round, cursor, sequence, list, hand, unreadable, inbox, subVars,
                       orders, saidVars>>

-----------------------------------------------------------------------------
(* Orders and restarts. *)

Between(n) == \A r \in Relays : r[1] = n => pc[r] = "idle"

\* operator_orders::take, after the relays' ticks: a Subscription is paused,
\* or resumed and everything it holds let go of.
Pause(n, u) ==
    /\ "process" \in Serves[n] /\ subscribed[n] /\ Between(n) /\ orders < MaxOrders
    /\ paused' = [paused EXCEPT ![n] = @ \cup {u}]
    /\ orders' = orders + 1
    /\ UNCHANGED <<life, relayVars, inbox, subscribed, queue, go, picked, handed, saidVars>>

Resume(n, u) ==
    /\ "process" \in Serves[n] /\ subscribed[n] /\ Between(n) /\ orders < MaxOrders
    /\ paused' = [paused EXCEPT ![n] = @ \ {u}]
    /\ go'     = [go EXCEPT ![n] = @ \cup {m \in queue[n] : SubOf[m.pair] = u}]
    /\ orders' = orders + 1
    /\ UNCHANGED <<life, relayVars, inbox, subscribed, queue, picked, handed, saidVars>>

\* The node is killed and started again: its rounds and counts begin anew, and
\* its Subscriptions may fail to start, which it goes on without.  With the
\* process goes what it held, and its count of what it dropped.
Restart(n) ==
    /\ n \in Restartable /\ life[n] < MaxLife
    /\ life'     = [life EXCEPT ![n] = @ + 1]
    /\ round'    = [round EXCEPT ![n] = 0]
    /\ cursor'   = [cursor EXCEPT ![n] = 0]
    /\ sequence' = [r \in Relays |-> IF r[1] = n THEN 0 ELSE sequence[r]]
    /\ pc'       = [r \in Relays |-> IF r[1] = n THEN "idle" ELSE pc[r]]
    /\ list'     = [r \in Relays |-> IF r[1] = n THEN {} ELSE list[r]]
    /\ hand'     = [r \in Relays |-> IF r[1] = n THEN {} ELSE hand[r]]
    /\ unreadable' = [r \in Relays |-> IF r[1] = n THEN 0 ELSE unreadable[r]]
    /\ dropped'  = [r \in Relays |-> IF r[1] = n THEN {} ELSE dropped[r]]
    /\ lost'     = lost \cup UNION {hand[r] \cup dropped[r] : r \in {q \in Relays : q[1] = n}}
    /\ picked'   = [picked EXCEPT ![n] = {}]
    /\ handed'   = [handed EXCEPT ![n] = {}]
    /\ \E started \in IF Faulty THEN BOOLEAN ELSE {TRUE} :
          subscribed' = [subscribed EXCEPT ![n] = started]
    /\ \E again \in {go[n], {}} : go' = [go EXCEPT ![n] = again]
    /\ UNCHANGED <<inbox, paused, queue, orders, arrived, sent, resent, failed, held>>

-----------------------------------------------------------------------------
Tick(r) ==
    \/ Drain(r) \/ Claim(r) \/ ClaimUnreadable(r) \/ ClaimEnds(r)
    \/ Fails(r) \/ Send(r) \/ PassOn(r) \/ Hold(r) \/ JudgeEnds(r)

Released(n) == Release(n) \/ Done(n) \/ ReleaseFails(n) \/ ReleaseEnds(n)

Next ==
    \/ \E n \in Receivers : Receive(n)
    \/ \E r \in Relays : Tick(r)
    \/ \E n \in Node : /\ "process" \in Serves[n]
                       /\ Released(n)
    \/ \E n \in Node, u \in Subscription : Pause(n, u) \/ Resume(n, u)
    \/ \E n \in Node : Restart(n)

Spec == Init /\ [][Next]_vars

\* Every node's loop goes round; nothing obliges an operator.
FairSpec ==
    /\ Spec
    /\ \A r \in Relays : WF_vars(Tick(r))
    /\ \A n \in Node : "process" \in Serves[n] => WF_vars(Released(n))

-----------------------------------------------------------------------------
(* Properties. *)

TypeOK ==
    /\ life \in [Node -> Nat] /\ round \in [Node -> Nat] /\ cursor \in [Node -> Nat]
    /\ \A n \in Receivers : cursor[n] < Len(Share[n])
    /\ sequence \in [Relays -> Nat]
    /\ pc \in [Relays -> {"idle", "claim", "judge", "release", "done"}]
    /\ hand \in [Relays -> SUBSET Message] /\ unreadable \in [Relays -> Nat]
    /\ inbox \in [Relays -> SUBSET File]
    /\ subscribed \in [Node -> BOOLEAN]
    /\ paused \in [Node -> SUBSET Subscription]
    /\ queue \in [Node -> SUBSET Message] /\ go \in [Node -> SUBSET Message]
    /\ picked \in [Node -> SUBSET Message] /\ handed \in [Node -> SUBSET Message]
    /\ arrived \subseteq Message /\ dropped \in [Relays -> SUBSET Message]

Waiting(m) == \E r \in Relays : \E f \in inbox[r] : f.msg = m
InHand(m)  == \E r \in Relays : m \in hand[r]
Kept(m)    == \E n \in Node : m \in queue[n]

\* "Not lost silently" (relay.rs:237): whatever arrived whole is on its way,
\* held, sent, or said to have failed; or it was dropped for not reading back,
\* by a stage whose published count covers all it dropped; and it is otherwise
\* only ever lost with the process that had taken it.
AccountedFor ==
    \A m \in arrived : \/ InHand(m) \/ Waiting(m) \/ Kept(m)
                       \/ m \in sent \/ m \in failed \/ m \in lost
                       \/ \E r \in Relays : /\ m \in dropped[r]
                                            /\ unreadable[r] >= Cardinality(dropped[r])

\* "A file has one holder however many look" (handoff.rs:12): through every
\* restart, a message is sent out twice only if a Subscription held it, whose
\* handing on may be tried again.
SentOnce == resent \subseteq held

\* "A pause, and what it holds, survives the node's restart"
\* (subscribing.rs:26): a held message leaves its queue only for the inbox of
\* a send stage, however the node is killed on the way.
HeldUntilHandedOn ==
    [][\A n \in Node : \A m \in queue[n] :
          \/ m \in queue'[n]
          \/ Waiting(m) \/ m \in sent \cup failed \cup lost
          \/ \E r \in Relays : r[2] = "send" /\ m \in hand[r] \cup dropped[r]]_vars

\* Nothing waits in an inbox for ever, though a claim takes no more than a
\* round's worth and more may be waiting: what arrived is sent, or held, or
\* accounted for otherwise.
EverySettles ==
    \A k \in 1 .. MaxRound, n \in Receivers \ Restartable :
       LET came == {m \in arrived : m.round = k /\ m.by = <<n, 1>>}
       IN  came # {} ~> \A m \in came : \/ m \in sent \cup failed \cup lost \/ Kept(m)
                                        \/ \E r \in Relays : m \in dropped[r]

\* "`sequence` is the sender's own count, which with its name makes the
\* file's name unique" (Inbox::deliver): no handoff replaces another.
NameIsUnique ==
    [][\A r \in Relays : \A f \in inbox[r], g \in inbox'[r] : SameName(f, g) => f = g]_vars
=============================================================================
