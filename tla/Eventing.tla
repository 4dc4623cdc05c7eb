------------------------------- MODULE Eventing -----------------------------
(***************************************************************************)
(* A node's eventing (eventing.rs): each round an Event is raised per      *)
(* stage whose failing pairs changed.  Two Parties subscribe: operations   *)
(* hears every Event, called back on a thread of its own, and on-call the  *)
(* failures, which the node drains at the end of its round.                *)
(*                                                                         *)
(* The hub is the event crate's, outside this repository.  It keeps a      *)
(* queue of bounded length per Event subscription and may refuse one; an   *)
(* operator may pause, resume or remove one between two rounds.            *)
(***************************************************************************)
EXTENDS Naturals, Sequences

CONSTANTS
    Served,     \* the stages the node serves
    CAPACITY,   \* how many Events a queue holds (64)
    MaxFailing, \* bound: pairs failing at a stage
    EventMax    \* bound: rounds

Parties == {"operations", "on-call"}

VARIABLES
    eventRound,
    raising,      \* "unstarted", "between" rounds, or within a "round"
    unraised,     \* the stages the round has not come to
    failing,      \* what each stage's failing pairs were at its last raise
    subscription, \* each Party's: "refused", "open", "paused" or "removed"
    queue,        \* the Events it holds
    drained,      \* whether the node still drains on-call's
    (* history *)
    known,        \* the failing figure each Party last heard of a stage
    missed,       \* the Parties whose queue had no room for an Event
    vanished      \* stages whose records went while pairs of theirs failed,
                  \* and of which no Event has been raised since

eventVars == <<eventRound, raising, unraised, failing, subscription, queue, drained, known,
               missed, vanished>>

EventInit ==
    /\ eventRound = 0 /\ raising = "unstarted" /\ unraised = {}
    /\ failing = [s \in Served |-> 0]
    /\ subscription = [p \in Parties |-> "refused"]
    /\ queue = [p \in Parties |-> <<>>] /\ drained = FALSE
    /\ known = [p \in Parties |-> [s \in Served |-> 0]]
    /\ missed = {} /\ vanished = {}

\* start: the two Parties subscribe.  A subscription the hub refuses is
\* audited, and the node runs on without it.
Subscribe ==
    /\ raising = "unstarted" /\ raising' = "between"
    /\ subscription' \in [Parties -> {"refused", "open"}]
    /\ drained' = (subscription'["on-call"] = "open")
    /\ UNCHANGED <<eventRound, unraised, failing, queue, known, missed, vanished>>

\* round: every stage in turn...
RoundBegins ==
    /\ raising = "between" /\ eventRound < EventMax
    /\ eventRound' = eventRound + 1
    /\ raising' = "round" /\ unraised' = Served
    /\ UNCHANGED <<failing, subscription, queue, drained, known, missed, vanished>>

\* Mutant: only a rise is raised.
raised_on_rise(records, before, now) == records /\ now > before

\* Whether a stage's Event is raised: it has records, and its failing pairs
\* are not as many as at the raise before.
raised(records, before, now) == records /\ now # before

\* Whom the hub holds an Event for: everything for operations, what ends in
\* failure for on-call.
hearers(before, now) ==
    {p \in Parties : /\ subscription[p] \in {"open", "paused"}
                     /\ p = "on-call" => now > before}

\* Hub::publish, whose result is not looked at: a full queue takes no more.
Publish(s, before, now) ==
    LET for  == hearers(before, now)
        room == {p \in for : Len(queue[p]) < CAPACITY}
    IN  /\ queue'  = [p \in Parties |-> IF p \in room
                                        THEN Append(queue[p], [stage |-> s, failing |-> now])
                                        ELSE queue[p]]
        /\ missed' = missed \cup (for \ room)

\* raise: the count is kept whether or not there is an Event; a stage without
\* records has none failing, and of it none is raised.
Raise(s) ==
    /\ raising = "round" /\ s \in unraised
    /\ unraised' = unraised \ {s}
    /\ \E records \in BOOLEAN, now \in 0 .. MaxFailing :
          /\ records \/ now = 0
          /\ failing' = [failing EXCEPT ![s] = now]
          /\ IF raised(records, failing[s], now)
             THEN /\ Publish(s, failing[s], now)
                  /\ vanished' = vanished \ {s}
             ELSE /\ vanished' = IF records \/ failing[s] = 0 THEN vanished ELSE vanished \cup {s}
                  /\ UNCHANGED <<queue, missed>>
    /\ UNCHANGED <<eventRound, raising, subscription, drained, known>>

\* A Party is handed the oldest Event its queue holds, unless it is paused:
\* operations by its listener's thread at any time, on-call by the round.
Hear(p) ==
    /\ subscription[p] = "open" /\ queue[p] # <<>>
    /\ p = "on-call" => drained /\ raising = "round" /\ unraised = {}
    /\ LET event == Head(queue[p])
       IN  known' = [known EXCEPT ![p][event.stage] = event.failing]
    /\ queue' = [queue EXCEPT ![p] = Tail(@)]
    /\ UNCHANGED <<eventRound, raising, unraised, failing, subscription, drained, missed,
                   vanished>>

\* ...and the round ends with on-call drained, and let go of once it is closed.
RoundEnds ==
    /\ raising = "round" /\ unraised = {}
    /\ drained /\ subscription["on-call"] = "open" => queue["on-call"] = <<>>
    /\ raising' = "between"
    /\ drained' = (drained /\ subscription["on-call"] # "removed")
    /\ UNCHANGED <<eventRound, unraised, failing, subscription, queue, known, missed, vanished>>

\* act: an operator's order on a subscription the hub still holds.
Act(p, to) ==
    /\ raising = "between" /\ eventRound < EventMax
    /\ subscription[p] \in {"open", "paused"} /\ subscription[p] # to
    /\ subscription' = [subscription EXCEPT ![p] = to]
    /\ queue' = [queue EXCEPT ![p] = IF to = "removed" THEN <<>> ELSE @]
    /\ UNCHANGED <<eventRound, raising, unraised, failing, drained, known, missed, vanished>>

EventNext ==
    \/ Subscribe
    \/ RoundBegins
    \/ \E s \in Served : Raise(s)
    \/ \E p \in Parties : Hear(p)
    \/ RoundEnds
    \/ \E p \in Parties, to \in {"open", "paused", "removed"} : Act(p, to)

-----------------------------------------------------------------------------
(* Properties. *)

\* A Party that hears has heard everything its queue took.
Attentive(p) == subscription[p] = "open" /\ queue[p] = <<>> /\ p \notin missed

\* HeardIsCurrent: what operations last heard of a stage is how many of its
\* pairs fail now, a recovery as well as a failure, and on-call never takes
\* fewer to be failing than are; through a pause that filled a queue and was
\* resumed, however late the listener's thread comes to it, and over rounds in
\* which nothing was raised (eventing.rs: "a failure when more of its pairs
\* fail than the round before, a success when fewer").  The exception is the
\* stage whose records went, of which nothing is raised.
HeardIsCurrent ==
    /\ Attentive("operations") =>
         \A s \in Served : \/ known["operations"][s] = failing[s]
                           \/ s \in vanished /\ failing[s] = 0
    /\ Attentive("on-call") => \A s \in Served : known["on-call"][s] >= failing[s]
=============================================================================
