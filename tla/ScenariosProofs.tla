--------------------------- MODULE ScenariosProofs ---------------------------
(***************************************************************************)
(* What the composed scenarios keep whatever their constants: Eventing's   *)
(* last word on a stage, Retention's two buckets and its leaks, the        *)
(* storm's tick, the order the served nodes are left in, and that a        *)
(* standing once red is never green again.                                 *)
(*                                                                         *)
(* Each component has an invariant of its own, which its step preserves    *)
(* and the steps of the others do not touch.                               *)
(***************************************************************************)
EXTENDS Scenarios, SequenceTheorems, TLAPS

-----------------------------------------------------------------------------
(* Eventing. *)

EventOf == [stage: Served, failing: Nat]

EventTypes ==
    /\ failing \in [Served -> Nat]
    /\ subscription \in [Parties -> {"refused", "open", "paused", "removed"}]
    /\ queue \in [Parties -> Seq(EventOf)]
    /\ known \in [Parties -> [Served -> Nat]]

\* Whether the last figure a Party has of a stage is one it may go by, with
\* `now` pairs of it failing and the stages of `gone` without records.
UpToDate(p, s, figure, now, gone) ==
    IF p = "operations" THEN figure = now \/ (s \in gone /\ now = 0) ELSE figure >= now

LastOf(q, s, i) ==
    /\ i \in DOMAIN q /\ q[i].stage = s
    /\ \A j \in DOMAIN q : j > i => q[j].stage # s

NoneOf(q, s) == \A i \in DOMAIN q : q[i].stage # s

\* The last Event a queue holds of a stage says what fails in it now; where it
\* holds none, what the Party heard last does.
LastIsUpToDate ==
    \A p \in Parties, s \in Served :
       subscription[p] \in {"open", "paused"} /\ p \notin missed =>
          /\ \A i \in DOMAIN queue[p] :
                LastOf(queue[p], s, i) => UpToDate(p, s, queue[p][i].failing, failing[s], vanished)
          /\ NoneOf(queue[p], s) => UpToDate(p, s, known[p][s], failing[s], vanished)

\* Nothing has failed, and nothing was heard, before the Parties subscribe.
Unheard ==
    raising = "unstarted" =>
       \A p \in Parties : queue[p] = <<>> /\ \A s \in Served : known[p][s] = 0 /\ failing[s] = 0

QueueInv == EventTypes /\ LastIsUpToDate

EventInv == QueueInv /\ Unheard

LEMMA EventFirst == EventInit => EventInv
BY DEF EventInit, EventInv, QueueInv, Unheard, EventTypes, LastIsUpToDate, UpToDate, LastOf, NoneOf,
       Parties, EventOf

\* An Event put at the end of a queue is the last of its stage, and leaves the
\* last of every other what it was.
LEMMA Appended ==
    ASSUME NEW q \in Seq(EventOf), NEW e \in EventOf, NEW s
    PROVE  /\ \A i \in DOMAIN Append(q, e) : LastOf(Append(q, e), s, i) =>
                 \/ e.stage = s /\ Append(q, e)[i] = e
                 \/ e.stage # s /\ i \in DOMAIN q /\ LastOf(q, s, i) /\ Append(q, e)[i] = q[i]
           /\ NoneOf(Append(q, e), s) => e.stage # s /\ NoneOf(q, s)
<1>1. /\ Len(Append(q, e)) = Len(q) + 1 /\ Len(q) \in Nat
      /\ DOMAIN q = 1 .. Len(q) /\ DOMAIN Append(q, e) = 1 .. Len(q) + 1
      /\ \A i \in 1 .. Len(q) : Append(q, e)[i] = q[i]
      /\ Append(q, e)[Len(q) + 1] = e
  OBVIOUS
<1> QED BY <1>1 DEF LastOf, NoneOf

\* The oldest Event taken, what is left has the same last ones, but of the
\* stage of which it was the only one.
LEMMA TakenOff ==
    ASSUME NEW q \in Seq(EventOf), q # <<>>, NEW s
    PROVE  /\ Tail(q) \in Seq(EventOf) /\ Head(q) \in EventOf /\ Head(q) = q[1]
           /\ \A i \in DOMAIN Tail(q) : LastOf(Tail(q), s, i) =>
                 i + 1 \in DOMAIN q /\ LastOf(q, s, i + 1) /\ Tail(q)[i] = q[i + 1]
           /\ NoneOf(Tail(q), s) => \/ Head(q).stage = s /\ 1 \in DOMAIN q /\ LastOf(q, s, 1)
                                    \/ Head(q).stage # s /\ NoneOf(q, s)
<1>1. /\ Len(q) \in Nat \ {0} /\ DOMAIN q = 1 .. Len(q)
      /\ Tail(q) \in Seq(EventOf) /\ DOMAIN Tail(q) = 1 .. Len(q) - 1
      /\ \A i \in 1 .. Len(q) - 1 : Tail(q)[i] = q[i + 1]
      /\ Head(q) \in EventOf /\ Head(q) = q[1]
  OBVIOUS
<1>2. \A j \in DOMAIN q : j # 1 => j - 1 \in DOMAIN Tail(q) /\ q[j] = Tail(q)[j - 1]
  BY <1>1
<1>3. \A i \in DOMAIN Tail(q) : LastOf(Tail(q), s, i) =>
         i + 1 \in DOMAIN q /\ LastOf(q, s, i + 1) /\ Tail(q)[i] = q[i + 1]
  <2> SUFFICES ASSUME NEW i \in DOMAIN Tail(q), LastOf(Tail(q), s, i)
               PROVE  i + 1 \in DOMAIN q /\ LastOf(q, s, i + 1) /\ Tail(q)[i] = q[i + 1]
    OBVIOUS
  <2>1. i + 1 \in DOMAIN q /\ Tail(q)[i] = q[i + 1] /\ i \in Nat
    BY <1>1
  <2>2. ASSUME NEW j \in DOMAIN q, j > i + 1 PROVE q[j].stage # s
    <3>1. j - 1 \in DOMAIN Tail(q) /\ q[j] = Tail(q)[j - 1] /\ j - 1 > i
      BY <1>1, <1>2, <2>1, <2>2
    <3> QED BY <3>1 DEF LastOf
  <2> QED BY <2>1, <2>2 DEF LastOf
<1>4. NoneOf(Tail(q), s) => \A j \in DOMAIN q : j # 1 => q[j].stage # s
  BY <1>2 DEF NoneOf
<1>5. NoneOf(Tail(q), s) => \/ Head(q).stage = s /\ 1 \in DOMAIN q /\ LastOf(q, s, 1)
                            \/ Head(q).stage # s /\ NoneOf(q, s)
  BY <1>1, <1>4 DEF LastOf, NoneOf
<1> QED BY <1>1, <1>3, <1>5

LEMMA Figures ==
    ASSUME EventTypes, NEW p \in Parties
    PROVE  /\ queue[p] \in Seq(EventOf)
           /\ \A i \in DOMAIN queue[p] : queue[p][i].failing \in Nat
           /\ \A s \in Served : known[p][s] \in Nat /\ failing[s] \in Nat
<1>1. queue[p] \in Seq(EventOf)
  BY DEF EventTypes
<1>2. \A i \in DOMAIN queue[p] : queue[p][i] \in EventOf
  BY <1>1
<1> QED BY <1>1, <1>2 DEF EventTypes, EventOf

LEMMA RaiseInv == ASSUME EventInv, NEW s \in Served, Raise(s) PROVE QueueInv'
<1> USE DEF EventInv, QueueInv
<1>1. PICK records \in BOOLEAN, now \in 0 .. MaxFailing :
        /\ records \/ now = 0
        /\ failing' = [failing EXCEPT ![s] = now]
        /\ IF raised(records, failing[s], now)
           THEN /\ Publish(s, failing[s], now)
                /\ vanished' = vanished \ {s}
           ELSE /\ vanished' = IF records \/ failing[s] = 0 THEN vanished ELSE vanished \cup {s}
                /\ UNCHANGED <<queue, missed>>
  BY DEF Raise
<1>2. now \in Nat /\ UNCHANGED <<subscription, known>>
  BY DEF Raise
<1>3. /\ \A u \in Served : failing'[u] = IF u = s THEN now ELSE failing[u]
      /\ failing' \in [Served -> Nat] /\ failing[s] \in Nat
  BY <1>1, <1>2 DEF EventTypes
<1>4. CASE ~raised(records, failing[s], now)
  <2>1. queue' = queue /\ missed' = missed
    BY <1>1, <1>4
  <2>2. ASSUME NEW p \in Parties, NEW u \in Served, NEW figure \in Nat,
               UpToDate(p, u, figure, failing[u], vanished)
        PROVE  UpToDate(p, u, figure, failing'[u], vanished')
    <3>1. CASE records
      <4>1. now = failing[s] /\ vanished' = vanished
        BY <1>1, <1>4, <3>1 DEF raised
      <4> QED BY <1>3, <2>2, <4>1
    <3>2. CASE ~records
      <4>1. now = 0 /\ vanished' = IF failing[s] = 0 THEN vanished ELSE vanished \cup {s}
        BY <1>1, <1>4, <3>2
      <4>2. CASE u = s
        BY <1>3, <2>2, <4>1, <4>2 DEF UpToDate
      <4>3. CASE u # s
        BY <1>3, <2>2, <4>1, <4>3 DEF UpToDate
      <4> QED BY <4>2, <4>3
    <3> QED BY <3>1, <3>2
  <2>3. LastIsUpToDate'
    BY <1>2, <2>1, <2>2, Figures DEF LastIsUpToDate
  <2> QED BY <1>2, <1>3, <2>1, <2>3 DEF EventTypes
<1>5. CASE raised(records, failing[s], now)
  <2> DEFINE e == [stage |-> s, failing |-> now]
             for == hearers(failing[s], now)
             room == {p \in for : Len(queue[p]) < CAPACITY}
  <2>1. /\ now # failing[s] /\ vanished' = vanished \ {s}
        /\ e \in EventOf /\ e.stage = s /\ e.failing = now
    BY <1>1, <1>2, <1>5 DEF raised, EventOf
  <2>2. /\ queue' = [p \in Parties |-> IF p \in room THEN Append(queue[p], e) ELSE queue[p]]
        /\ missed' = missed \cup (for \ room)
    BY <1>1, <1>5 DEF Publish
  <2>3. \A p \in Parties : subscription[p] \in {"open", "paused"} /\ p \notin for =>
                              p # "operations" /\ now <= failing[s]
    BY <1>2, <1>3 DEF hearers
  <2> HIDE DEF e, for, room
  <2>4. \A p \in Parties : queue'[p] = IF p \in room THEN Append(queue[p], e) ELSE queue[p]
    BY <2>2
  <2>5. queue' \in [Parties -> Seq(EventOf)]
    <3>1. ASSUME NEW p \in Parties
          PROVE  (IF p \in room THEN Append(queue[p], e) ELSE queue[p]) \in Seq(EventOf)
      BY <2>1, Figures
    <3> QED BY <2>2, <3>1
  <2>6. ASSUME NEW p \in Parties, NEW u \in Served, NEW figure, u # s,
               UpToDate(p, u, figure, failing[u], vanished)
        PROVE  UpToDate(p, u, figure, failing'[u], vanished')
    BY <1>3, <2>1, <2>6 DEF UpToDate
  <2>7. ASSUME NEW p \in Parties, NEW u \in Served,
               subscription[p] \in {"open", "paused"}, p \notin missed'
        PROVE  /\ \A i \in DOMAIN queue'[p] : LastOf(queue'[p], u, i) =>
                     UpToDate(p, u, queue'[p][i].failing, failing'[u], vanished')
               /\ NoneOf(queue'[p], u) => UpToDate(p, u, known[p][u], failing'[u], vanished')
    <3>0. p \notin missed /\ (p \in for => p \in room)
      BY <2>2, <2>7
    <3>1. /\ \A i \in DOMAIN queue[p] : LastOf(queue[p], u, i) =>
                UpToDate(p, u, queue[p][i].failing, failing[u], vanished)
          /\ NoneOf(queue[p], u) => UpToDate(p, u, known[p][u], failing[u], vanished)
      BY <2>7, <3>0 DEF LastIsUpToDate
    <3>2. CASE p \in room
      <4>1. queue'[p] = Append(queue[p], e) /\ queue[p] \in Seq(EventOf)
        BY <2>4, <3>2, Figures
      <4> DEFINE q == Append(queue[p], e)
      <4>0. /\ \A i \in DOMAIN q : LastOf(q, u, i) =>
                  \/ e.stage = u /\ q[i] = e
                  \/ e.stage # u /\ i \in DOMAIN queue[p] /\ LastOf(queue[p], u, i) /\ q[i] = queue[p][i]
            /\ NoneOf(q, u) => e.stage # u /\ NoneOf(queue[p], u)
        <5>1. e \in EventOf /\ queue[p] \in Seq(EventOf)
          BY <2>1, <4>1
        <5> QED BY <5>1, Appended, Zenon
      <4> HIDE DEF q
      <4>5. queue'[p] = q
        BY <4>1 DEF q
      <4>2. CASE u = s
        <5>1. UpToDate(p, s, now, failing'[s], vanished')
          BY <1>2, <1>3 DEF UpToDate
        <5>2. /\ \A i \in DOMAIN queue'[p] : LastOf(queue'[p], u, i) => queue'[p][i] = e
              /\ ~NoneOf(queue'[p], u)
          BY <2>1, <4>0, <4>5, <4>2
        <5> QED BY <2>1, <4>2, <5>1, <5>2
      <4>3. CASE u # s
        <5>1. /\ \A i \in DOMAIN queue'[p] : LastOf(queue'[p], u, i) =>
                    i \in DOMAIN queue[p] /\ LastOf(queue[p], u, i) /\ queue'[p][i] = queue[p][i]
              /\ NoneOf(queue'[p], u) => NoneOf(queue[p], u)
          BY <2>1, <4>0, <4>5, <4>3
        <5> QED BY <2>6, <3>1, <4>3, <5>1
      <4> QED BY <4>2, <4>3
    <3>3. CASE p \notin room
      <4>1. queue'[p] = queue[p] /\ p # "operations" /\ now <= failing[s]
        BY <2>3, <2>4, <2>7, <3>0, <3>3
      <4>2. ASSUME NEW figure \in Nat, UpToDate(p, u, figure, failing[u], vanished)
            PROVE  UpToDate(p, u, figure, failing'[u], vanished')
        <5>1. CASE u = s
          BY <1>2, <1>3, <4>1, <4>2, <5>1 DEF UpToDate
        <5>2. CASE u # s
          BY <2>6, <4>2, <5>2
        <5> QED BY <5>1, <5>2
      <4> QED BY <3>1, <4>1, <4>2, Figures
    <3> QED BY <3>2, <3>3
  <2>8. LastIsUpToDate'
    BY <1>2, <2>7 DEF LastIsUpToDate
  <2> QED BY <1>2, <1>3, <2>5, <2>8 DEF EventTypes
<1> QED BY <1>4, <1>5

LEMMA HearInv == ASSUME EventInv, NEW p \in Parties, Hear(p) PROVE QueueInv'
<1> USE DEF EventInv, QueueInv
<1> DEFINE e == Head(queue[p])
<1>1. /\ queue[p] \in Seq(EventOf) /\ queue[p] # <<>> /\ subscription[p] = "open"
      /\ UNCHANGED <<failing, subscription, missed, vanished>>
      /\ queue' = [queue EXCEPT ![p] = Tail(@)]
      /\ known' = [known EXCEPT ![p][e.stage] = e.failing]
  BY DEF Hear, EventTypes
<1>2. e \in EventOf /\ Tail(queue[p]) \in Seq(EventOf) /\ e = queue[p][1]
  BY <1>1, TakenOff
<1> HIDE DEF e
<1>3. /\ \A o \in Parties : queue'[o] = IF o = p THEN Tail(queue[p]) ELSE queue[o]
      /\ \A o \in Parties, u \in Served :
            known'[o][u] = IF o = p /\ u = e.stage THEN e.failing ELSE known[o][u]
  BY <1>1, <1>2 DEF EventTypes, EventOf
<1>4. EventTypes'
  BY <1>1, <1>2 DEF EventTypes, EventOf
<1>5. ASSUME NEW u \in Served, p \notin missed
      PROVE  /\ \A i \in DOMAIN queue'[p] : LastOf(queue'[p], u, i) =>
                   UpToDate(p, u, queue'[p][i].failing, failing[u], vanished)
             /\ NoneOf(queue'[p], u) => UpToDate(p, u, known'[p][u], failing[u], vanished)
  <2>1. /\ \A i \in DOMAIN queue[p] : LastOf(queue[p], u, i) =>
              UpToDate(p, u, queue[p][i].failing, failing[u], vanished)
        /\ NoneOf(queue[p], u) => UpToDate(p, u, known[p][u], failing[u], vanished)
    BY <1>1, <1>5 DEF LastIsUpToDate
  <2>2. queue'[p] = Tail(queue[p]) /\ known'[p][u] = IF u = e.stage THEN e.failing ELSE known[p][u]
    BY <1>3
  <2>3. \A i \in DOMAIN queue'[p] : LastOf(queue'[p], u, i) =>
           i + 1 \in DOMAIN queue[p] /\ LastOf(queue[p], u, i + 1) /\ queue'[p][i] = queue[p][i + 1]
    <3> DEFINE q == Tail(queue[p])
    <3>1. \A i \in DOMAIN q : LastOf(q, u, i) =>
             i + 1 \in DOMAIN queue[p] /\ LastOf(queue[p], u, i + 1) /\ q[i] = queue[p][i + 1]
      BY <1>1, TakenOff
    <3> HIDE DEF q
    <3>2. queue'[p] = q
      BY <2>2 DEF q
    <3> QED BY <3>1, <3>2
  <2>4. NoneOf(queue'[p], u) => \/ e.stage = u /\ 1 \in DOMAIN queue[p] /\ LastOf(queue[p], u, 1)
                                \/ e.stage # u /\ NoneOf(queue[p], u)
    BY <1>1, <2>2, TakenOff DEF e
  <2> QED BY <1>2, <2>1, <2>2, <2>3, <2>4
<1>6. LastIsUpToDate'
  BY <1>1, <1>3, <1>5 DEF LastIsUpToDate
<1> QED BY <1>4, <1>6

LEMMA ActInv ==
    ASSUME EventInv, NEW p \in Parties, NEW to \in {"open", "paused", "removed"}, Act(p, to)
    PROVE  QueueInv'
<1> USE DEF EventInv, QueueInv
<1>1. /\ UNCHANGED <<failing, known, missed, vanished>> /\ subscription[p] \in {"open", "paused"}
      /\ \A o \in Parties : /\ subscription'[o] = IF o = p THEN to ELSE subscription[o]
                            /\ queue'[o] = IF o = p /\ to = "removed" THEN <<>> ELSE queue[o]
  BY DEF Act, EventTypes
<1>2. EventTypes'
  BY DEF Act, EventTypes
<1>3. \A o \in Parties : subscription'[o] \in {"open", "paused"} =>
         subscription[o] \in {"open", "paused"} /\ queue'[o] = queue[o]
  BY <1>1
<1>4. LastIsUpToDate'
  BY <1>1, <1>3 DEF LastIsUpToDate
<1> QED BY <1>2, <1>4

LEMMA SubscribeInv == ASSUME EventInv, Subscribe PROVE QueueInv'
<1> USE DEF EventInv, QueueInv
<1>1. /\ UNCHANGED <<failing, queue, known, missed, vanished>>
      /\ subscription' \in [Parties -> {"refused", "open"}]
      /\ \A p \in Parties : queue[p] = <<>> /\ \A s \in Served : known[p][s] = 0 /\ failing[s] = 0
  BY DEF Subscribe, Unheard
<1>2. EventTypes'
  BY <1>1 DEF EventTypes
<1>3. LastIsUpToDate'
  BY <1>1 DEF LastIsUpToDate, UpToDate, LastOf
<1> QED BY <1>2, <1>3

LEMMA EventStill ==
    ASSUME EventInv, UNCHANGED <<failing, subscription, queue, known, missed, vanished>>
    PROVE  QueueInv'
BY DEF EventInv, QueueInv, EventTypes, LastIsUpToDate

LEMMA EventStep == ASSUME EventInv, EventNext \/ UNCHANGED eventVars PROVE EventInv'
<1>1. QueueInv'
  <2>1. CASE RoundBegins \/ RoundEnds \/ UNCHANGED eventVars
    BY <2>1, EventStill DEF RoundBegins, RoundEnds, eventVars
  <2> QED BY <2>1, SubscribeInv, RaiseInv, HearInv, ActInv DEF EventNext
<1>2. Unheard'
  <2>1. CASE UNCHANGED eventVars
    BY <2>1 DEF eventVars, EventInv, Unheard
  <2>2. CASE \E p \in Parties : Hear(p)
    BY <2>2 DEF Hear, EventInv, Unheard
  <2>3. CASE \/ Subscribe \/ RoundBegins \/ RoundEnds
             \/ \E s \in Served : Raise(s)
             \/ \E p \in Parties, to \in {"open", "paused", "removed"} : Act(p, to)
    <3>1. raising' # "unstarted"
      BY <2>3 DEF Subscribe, RoundBegins, Raise, RoundEnds, Act
    <3> QED BY <3>1 DEF Unheard
  <2> QED BY <2>1, <2>2, <2>3 DEF EventNext
<1> QED BY <1>1, <1>2 DEF EventInv

LEMMA AttentiveKnows == EventInv => HeardIsCurrent
<1> SUFFICES ASSUME EventInv PROVE HeardIsCurrent
  OBVIOUS
<1>1. ASSUME NEW p \in Parties, Attentive(p), NEW s \in Served
      PROVE  UpToDate(p, s, known[p][s], failing[s], vanished)
  <2>1. NoneOf(queue[p], s)
    BY <1>1 DEF Attentive, NoneOf
  <2> QED BY <1>1, <2>1 DEF Attentive, EventInv, QueueInv, LastIsUpToDate
<1> QED BY <1>1 DEF HeardIsCurrent, UpToDate, Parties

-----------------------------------------------------------------------------
(* The nodes served, from the start to the leave. *)

Overdue == \A f \in Files \ Arrived : fileAge[f] >= waited

AgesKept ==
    /\ fileAge \in [Files -> Nat] /\ waited \in Nat /\ waited <= LOST
    /\ phase \notin {"settle", "stop", "ended"} => waited = 0

\* Before the leave no input was ended, and where the run heard of no node it
\* started none.
NobodyAsked == phase \notin {"refused", "stop", "ended"} => asked = {}
NoneStarted ==
    phase \notin {"start", "refused"} /\ heard = {} => \A n \in Nodes : node[n] = "none"

AreaKept == phase # "ended" => area

ServedInv ==
    /\ node \in [Nodes -> {"none", "running", "draining", "gone"}]
    /\ AgesKept /\ Overdue /\ NobodyAsked /\ NoneStarted /\ AreaKept /\ LeavesInOrder
    /\ phase \in {"sort", "far end"} => heard = {}

LEMMA ServedFirst == ServedInit => ServedInv
<1> SUFFICES ASSUME ServedInit PROVE ServedInv
  OBVIOUS
<1>1. Files = {} /\ fileAge \in [Files -> Nat]
  BY DEF ServedInit, Files
<1> QED BY <1>1, ServedAssumption DEF ServedInit, ServedInv, AgesKept, Overdue, NobodyAsked, NoneStarted,
       AreaKept, LeavesInOrder

\* The steps that leave the files alone, and the leave's phases.
LEMMA StartStep ==
    ASSUME ServedInv, Find \/ FarEnd \/ Relayed \/ NotStarted \/ Carry
    PROVE  ServedInv'
<1> USE DEF ServedInv
<1>1. /\ UNCHANGED <<said, heard, whereabouts, fileAge, waited, published, area>>
      /\ phase \in {"sort", "far end", "start", "path"}
      /\ phase' \in {"far end", "start", "path", "roll", "refused"}
      /\ phase' = "far end" => phase = "sort"
  BY DEF Find, FarEnd, Relayed, NotStarted, Carry, InputEnded, serve
<1>2. /\ node' \in [Nodes -> {"none", "running", "draining", "gone"}]
      /\ phase' # "refused" => node' = node /\ asked' = asked
      /\ phase = "start" /\ phase' # "refused" => heard = Nodes
  BY DEF Find, FarEnd, Relayed, NotStarted, Carry, InputEnded, serve
<1>3. AgesKept' /\ Overdue' /\ AreaKept'
  BY <1>1 DEF AgesKept, Overdue, AreaKept, Files, Arrived
<1>4. NobodyAsked' /\ NoneStarted' /\ LeavesInOrder'
  BY <1>1, <1>2 DEF NobodyAsked, NoneStarted, LeavesInOrder
<1> QED BY <1>1, <1>2, <1>3, <1>4

LEMMA NodeStep ==
    ASSUME ServedInv, NEW n \in Nodes,
           spawned(n) \/ accepting(n) \/ Killed(n) \/ Says(n) \/ Exits(n)
    PROVE  ServedInv'
<1> USE DEF ServedInv
<1>1. /\ UNCHANGED <<phase, real, asked, whereabouts, fileAge, waited, published, area>>
      /\ heard' = heard \/ (phase = "start" /\ heard # heard')
  BY DEF spawned, accepting, Killed, Says, Exits
<1>2. /\ node' \in [Nodes -> {"none", "running", "draining", "gone"}]
      /\ \A m \in Nodes : node[m] = "gone" => node'[m] = "gone"
      /\ phase # "start" => \A m \in Nodes : node[m] = "none" => node'[m] = "none"
  BY DEF spawned, accepting, Killed, Says, Exits
<1>3. AgesKept' /\ Overdue' /\ AreaKept' /\ NobodyAsked'
  BY <1>1 DEF AgesKept, Overdue, AreaKept, NobodyAsked, Files, Arrived
<1>4. NoneStarted' /\ LeavesInOrder'
  BY <1>1, <1>2 DEF NoneStarted, LeavesInOrder, Files, Arrived, rest
<1> QED BY <1>1, <1>2, <1>3, <1>4

LEMMA RoundStep == ASSUME ServedInv, RollRound PROVE ServedInv'
<1> USE DEF ServedInv
<1>1. /\ UNCHANGED <<phase, real, node, said, heard, asked, waited, area>>
      /\ phase = "roll"
  BY DEF RollRound
<1>2. PICK now :
         /\ whereabouts' = [f \in now |-> IF f \in Files THEN whereabouts[f] ELSE "drop"]
         /\ fileAge' = [f \in now |-> IF f \in Files THEN fileAge[f] ELSE 0]
  BY DEF RollRound
<1>3. Files' = now /\ fileAge' \in [Files' -> Nat]
  BY <1>2 DEF Files, AgesKept
<1>4. AgesKept' /\ Overdue'
  BY <1>1, <1>3 DEF AgesKept, Overdue
<1>5. NobodyAsked' /\ NoneStarted' /\ AreaKept' /\ LeavesInOrder'
  BY <1>1 DEF NobodyAsked, NoneStarted, AreaKept, LeavesInOrder
<1> QED BY <1>1, <1>4, <1>5

LEMMA TimeStep == ASSUME ServedInv, Time PROVE ServedInv'
<1> USE DEF ServedInv
<1>1. /\ UNCHANGED <<phase, real, node, said, heard, asked, whereabouts, published, area>>
      /\ phase \in {"roll", "settle"} /\ (phase = "settle" => waited < LOST)
      /\ waited' = IF phase = "settle" THEN waited + 1 ELSE waited
      /\ fileAge' = [f \in Files |-> IF f \notin Arrived /\ fileAge[f] < LOST
                                     THEN fileAge[f] + 1 ELSE fileAge[f]]
  BY DEF Time
<1>2. Files' = Files /\ Arrived' = Arrived
  BY <1>1 DEF Files, Arrived
<1>3. fileAge' \in [Files -> Nat]
  <2>1. fileAge \in [Files -> Nat]
    BY DEF AgesKept
  <2> HIDE DEF ServedInv
  <2> QED BY <1>1, <2>1
<1>4. AgesKept'
  <2>1. waited \in Nat /\ waited <= LOST /\ (phase = "roll" => waited = 0)
    BY DEF AgesKept
  <2> HIDE DEF ServedInv
  <2>2. waited' \in Nat /\ waited' <= LOST /\ (phase = "roll" => waited' = 0)
    BY <1>1, <2>1, ServedAssumption
  <2> QED BY <1>1, <1>2, <1>3, <2>2 DEF AgesKept
<1>5. Overdue'
  <2> SUFFICES ASSUME NEW f \in Files \ Arrived PROVE fileAge'[f] >= waited'
    BY <1>2 DEF Overdue
  <2>1. fileAge[f] \in Nat /\ waited \in Nat /\ fileAge[f] >= waited
    BY DEF AgesKept, Overdue
  <2>2. fileAge'[f] = IF fileAge[f] < LOST THEN fileAge[f] + 1 ELSE fileAge[f]
    BY <1>1
  <2>3. waited' = waited \/ (waited' = waited + 1 /\ waited < LOST)
    BY <1>1
  <2> HIDE DEF ServedInv
  <2> QED BY <2>1, <2>2, <2>3, ServedAssumption
<1>6. NobodyAsked' /\ NoneStarted' /\ AreaKept' /\ LeavesInOrder'
  BY <1>1 DEF NobodyAsked, NoneStarted, AreaKept, LeavesInOrder
<1> QED BY <1>1, <1>4, <1>5, <1>6

LEMMA FileStep ==
    ASSUME ServedInv, NEW f \in Files, Moves(f) \/ Tells(f)
    PROVE  ServedInv'
<1> USE DEF ServedInv
<1>1. /\ UNCHANGED <<phase, real, node, said, heard, asked, fileAge, waited, published, area>>
      /\ Files' = Files /\ Files' \ Arrived' \subseteq Files \ Arrived
  BY DEF Moves, Tells, Files, Arrived, Onward
<1>2. AgesKept' /\ Overdue' /\ NobodyAsked' /\ NoneStarted' /\ AreaKept'
  BY <1>1 DEF AgesKept, Overdue, NobodyAsked, NoneStarted, AreaKept
<1>3. LeavesInOrder'
  BY <1>1 DEF LeavesInOrder
<1> QED BY <1>1, <1>2, <1>3

\* Once it has waited LOST, so has every file that did not arrive.
LEMMA LeaveStep ==
    ASSUME ServedInv, Leave \/ StopRest \/ StopStores \/ Removed
    PROVE  ServedInv'
<1> USE DEF ServedInv
<1>1. /\ UNCHANGED <<real, said, heard, whereabouts, fileAge, waited, published>>
      /\ Files' = Files /\ Arrived' = Arrived
      /\ phase \in {"roll", "settle", "stop"} /\ phase' \in {"settle", "stop", "ended"}
  BY DEF Leave, StopRest, StopStores, Removed, InputEnded, Files, Arrived
<1>2. /\ node' \in [Nodes -> {"none", "running", "draining", "gone"}]
      /\ \A m \in Nodes : node[m] \in {"none", "gone"} => node'[m] = node[m]
  BY DEF Leave, StopRest, StopStores, Removed, InputEnded
<1>3. AgesKept' /\ Overdue' /\ NoneStarted'
  BY <1>1, <1>2 DEF AgesKept, Overdue, NoneStarted
<1>4. NobodyAsked' /\ AreaKept'
  BY DEF NobodyAsked, AreaKept, Leave, StopRest, StopStores, Removed
<1>5. LeavesInOrder'
  <2>1. CASE Leave
    BY <2>1 DEF Leave, LeavesInOrder
  <2>2. CASE StopRest
    <3>1. phase = "settle" /\ settled /\ area' = area /\ area /\ asked = {}
      BY <2>2 DEF StopRest, AreaKept, NobodyAsked
    <3>2. \A f \in Files \ Arrived : fileAge[f] >= LOST
      <4> SUFFICES ASSUME NEW f \in Files \ Arrived PROVE fileAge[f] >= LOST
        OBVIOUS
      <4>1. waited >= LOST /\ fileAge[f] >= waited /\ fileAge[f] \in Nat /\ waited \in Nat
        BY <3>1 DEF settled, Overdue, AgesKept
      <4> HIDE DEF ServedInv
      <4> QED BY <4>1, ServedAssumption
    <3>3. asked' \cap keepers = {}
      BY <2>2, <3>1 DEF StopRest, InputEnded, rest
    <3> QED BY <1>1, <3>1, <3>2, <3>3 DEF LeavesInOrder
  <2>3. CASE StopStores
    <3>1. /\ phase = "stop" /\ phase' = phase /\ area' = area /\ area
          /\ \A n \in rest : node[n] = "gone"
      BY <2>3 DEF StopStores, AreaKept
    <3>2. \A n \in rest : node'[n] = "gone"
      BY <1>2, <3>1 DEF rest
    <3> QED BY <1>1, <3>1, <3>2 DEF LeavesInOrder
  <2>4. CASE Removed
    <3>1. /\ phase = "stop" /\ node' = node /\ asked' = asked
          /\ heard = {} \/ asked = Nodes
          /\ \A n \in asked : node[n] = "gone"
      BY <2>4 DEF Removed
    <3>2. \A n \in Nodes : node[n] \in {"none", "gone"}
      BY <3>1 DEF NoneStarted
    <3> QED BY <1>1, <3>1, <3>2 DEF LeavesInOrder
  <2> QED BY <2>1, <2>2, <2>3, <2>4
<1> QED BY <1>1, <1>2, <1>3, <1>4, <1>5

LEMMA ServedStepInv == ASSUME ServedInv, ServedNext PROVE ServedInv'
BY StartStep, NodeStep, RoundStep, TimeStep, FileStep, LeaveStep DEF ServedNext

LEMMA ServedStill == ASSUME ServedInv, UNCHANGED servedVars PROVE ServedInv'
BY DEF ServedInv, AgesKept, Overdue, NobodyAsked, NoneStarted, AreaKept, LeavesInOrder,
       Files, Arrived, servedVars

-----------------------------------------------------------------------------
(* Retention. *)

LEMMA LeastOf == \A a, b \in Int : Least({a, b}) = IF a <= b THEN a ELSE b
<1> SUFFICES ASSUME NEW a \in Int, NEW b \in Int PROVE Least({a, b}) = IF a <= b THEN a ELSE b
  OBVIOUS
<1>1. \E x \in {a, b} : \A y \in {a, b} : x <= y
  OBVIOUS
<1>2. Least({a, b}) \in {a, b} /\ \A y \in {a, b} : Least({a, b}) <= y
  BY <1>1 DEF Least
<1> QED BY <1>2

LEMMA MostOf == \A a, b \in Int : Most({a, b}) = IF a >= b THEN a ELSE b
<1> SUFFICES ASSUME NEW a \in Int, NEW b \in Int PROVE Most({a, b}) = IF a >= b THEN a ELSE b
  OBVIOUS
<1>1. \E x \in {a, b} : \A y \in {a, b} : x >= y
  OBVIOUS
<1>2. Most({a, b}) \in {a, b} /\ \A y \in {a, b} : Most({a, b}) >= y
  BY <1>1 DEF Most
<1> QED BY <1>2

LEMMA Quotient ==
    \A a, b \in Nat, s \in Nat \ {0} : a \div s \in Nat /\ (a <= b => a \div s <= b \div s)
<1>1. \A a \in Nat, s \in Nat \ {0} : a \div s \in Nat
  OBVIOUS
<1>2. \A a, b \in Nat, s \in Nat \ {0} : a <= b => a \div s <= b \div s
  OBVIOUS
<1> QED BY <1>1, <1>2

\* An item past its window stays past it.
LEMMA AgedStays ==
    ASSUME NEW i, i.day \in Nat, NEW a \in Nat, NEW b \in Nat, a <= b, Aged(i, a)
    PROVE  Aged(i, b)
<1> DEFINE created == i.day * SECONDS_PER_DAY
           Age(now) == IF now > created THEN now - created ELSE 0
<1>1. created \in Nat /\ SECONDS_PER_DAY \in Nat \ {0} /\ KEEP_DAYS \in Nat
  BY RetentionAssumption
<1>2. Age(a) \div SECONDS_PER_DAY >= KEEP_DAYS
  BY DEF Aged
<1>3. Aged(i, b) <=> Age(b) \div SECONDS_PER_DAY >= KEEP_DAYS
  BY DEF Aged
<1> HIDE DEF created
<1>4. Age(a) \in Nat /\ Age(b) \in Nat /\ Age(a) <= Age(b)
  BY <1>1
<1> HIDE DEF Age
<1>5. /\ Age(a) \div SECONDS_PER_DAY \in Nat /\ Age(b) \div SECONDS_PER_DAY \in Nat
      /\ Age(a) \div SECONDS_PER_DAY <= Age(b) \div SECONDS_PER_DAY
  BY <1>1, <1>4, Quotient
<1> QED BY <1>1, <1>2, <1>3, <1>5

\* An aged item is kept or archived, and one that is kept is a leak.
LEMMA Archiving ==
    ASSUME NEW i, NEW misses
    PROVE  /\ try_archive(i, misses).kept \in BOOLEAN
           /\ try_archive(i, misses).archived = ~try_archive(i, misses).kept
           /\ try_archive(i, misses).kept =>
                 \E sweep \in Sweep : sweep \in try_archive(i, misses).leak
<1> DEFINE skip == miss("archive-skip", i.class, misses)
           ill  == poisoned(i, misses)
<1>1. CASE skip
  BY <1>1 DEF try_archive, Sweep
<1>2. CASE ~skip /\ ill
  BY <1>2 DEF try_archive, Sweep
<1>3. CASE ~skip /\ ~ill
  BY <1>3 DEF try_archive, Sweep
<1> QED BY <1>1, <1>2, <1>3

KeepInv ==
    /\ simulated \in Nat /\ emitted_days \in Nat
    /\ NothingLost /\ LeaksAreTold

LEMMA KeepFirst == KeepInit => KeepInv
<1> SUFFICES ASSUME KeepInit PROVE KeepInv
  OBVIOUS
<1>1. [class: Class, day: 1 .. emitted_days] = {}
  <2>1. 1 .. emitted_days = {}
    BY DEF KeepInit
  <2> QED BY <2>1
<1> QED BY <1>1 DEF KeepInit, KeepInv, NothingLost, LeaksAreTold

LEMMA KeepStep == ASSUME KeepInv, KeepTick PROVE KeepInv'
<1>1. PICK now \in simulated .. Least({simulated + MaxStep, Horizon}), misses \in Misses :
        LET begun == live \cup create_through(now)
            past == {i \in begun : Aged(i, now)}
        IN  /\ now > simulated
            /\ simulated'    = now
            /\ emitted_days' = Most({emitted_days, target(now)})
            /\ live'     = {i \in begun : i \in past => try_archive(i, misses).kept}
            /\ archived' = archived \cup {i \in past : try_archive(i, misses).archived}
            /\ keepStandings' = [s \in Sweep \X Class |->
                 record(keepStandings[s],
                        IF \E i \in past : i.class = s[2] /\ s[1] \in try_archive(i, misses).leak
                        THEN "fail" ELSE "pass")]
  BY DEF KeepTick
<1> DEFINE begun == live \cup create_through(now)
           past  == {i \in begun : Aged(i, now)}
<1>2. /\ now > simulated /\ simulated' = now
      /\ emitted_days' = Most({emitted_days, target(now)})
      /\ live'     = {i \in begun : i \in past => try_archive(i, misses).kept}
      /\ archived' = archived \cup {i \in past : try_archive(i, misses).archived}
  BY <1>1
<1>3. simulated \in Nat /\ emitted_days \in Nat /\ now \in Nat /\ simulated <= now
  <2>1. simulated \in Nat /\ emitted_days \in Nat
    BY DEF KeepInv
  <2>2. simulated + MaxStep \in Int /\ Horizon \in Int
    BY <2>1, RetentionAssumption
  <2>3. Least({simulated + MaxStep, Horizon}) \in Int
    BY <2>2, LeastOf
  <2> QED BY <1>2, <2>1, <2>3
<1>4. /\ target(now) \in Nat
      /\ emitted_days' = IF emitted_days >= target(now) THEN emitted_days ELSE target(now)
      /\ emitted_days' \in Nat
  <2>1. now \div SECONDS_PER_DAY \in Nat /\ emitted_days + MAX_DAYS_PER_TICK \in Nat
    BY <1>3, RetentionAssumption, Quotient
  <2>2. target(now) \in Nat
    BY <2>1, LeastOf DEF target
  <2>3. Most({emitted_days, target(now)})
           = IF emitted_days >= target(now) THEN emitted_days ELSE target(now)
    BY <1>3, <2>2, MostOf
  <2> QED BY <1>2, <1>3, <2>2, <2>3
<1>5. /\ live \cup archived = [class: Class, day: 1 .. emitted_days]
      /\ live \cap archived = {}
      /\ \A i \in archived : Aged(i, simulated)
  BY DEF KeepInv, NothingLost
<1>6. \A i \in archived : Aged(i, now)
  <2> SUFFICES ASSUME NEW i \in archived PROVE Aged(i, now)
    OBVIOUS
  <2>1. i \in [class: Class, day: 1 .. emitted_days]
    BY <1>5
  <2>2. i.day \in 1 .. emitted_days
    BY <2>1
  <2>3. i.day \in Nat
    BY <1>3, <2>2
  <2> QED BY <1>3, <1>5, <2>3, AgedStays
<1>7. /\ begun \cup archived = [class: Class, day: 1 .. emitted_days']
      /\ begun \cap archived = {}
  <2>1. create_through(now) = [class: Class, day: emitted_days + 1 .. target(now)]
    BY DEF create_through
  <2>2. 1 .. emitted_days' = (1 .. emitted_days) \cup (emitted_days + 1 .. target(now))
    BY <1>3, <1>4
  <2>3. (1 .. emitted_days) \cap (emitted_days + 1 .. target(now)) = {}
    BY <1>3, <1>4
  <2>4. [class: Class, day: 1 .. emitted_days']
           = [class: Class, day: 1 .. emitted_days]
                \cup [class: Class, day: emitted_days + 1 .. target(now)]
    BY <2>2
  <2>5. [class: Class, day: 1 .. emitted_days]
           \cap [class: Class, day: emitted_days + 1 .. target(now)] = {}
    BY <2>3
  <2> QED BY <1>5, <2>1, <2>4, <2>5
<1>8. NothingLost'
  <2>1. \A i \in past : try_archive(i, misses).archived = ~try_archive(i, misses).kept
    BY Archiving
  <2>2. live' \cup archived' = begun \cup archived
    <3>1. \A i \in past : try_archive(i, misses).kept \/ try_archive(i, misses).archived
      BY <2>1
    <3> HIDE DEF begun
    <3> QED BY <1>2, <3>1
  <2>3. live' \cap archived' = {}
    BY <1>2, <1>7, <2>1
  <2>4. \A i \in archived' : Aged(i, now)
    BY <1>2, <1>6
  <2> QED BY <1>2, <1>7, <2>2, <2>3, <2>4 DEF NothingLost
<1>9. LeaksAreTold'
  <2> SUFFICES ASSUME NEW i \in live', Aged(i, now)
               PROVE  \E sweep \in Sweep : health(keepStandings'[<<sweep, i.class>>]) = "done"
    BY <1>2 DEF LeaksAreTold, Aged
  <2>1. i \in past /\ try_archive(i, misses).kept /\ i.class \in Class
    <3>1. i \in [class: Class, day: 1 .. emitted_days']
      BY <1>2, <1>7
    <3> QED BY <1>2, <3>1
  <2>2. PICK sweep \in Sweep : sweep \in try_archive(i, misses).leak
    BY <2>1, Archiving
  <2>3. keepStandings'[<<sweep, i.class>>] = record(keepStandings[<<sweep, i.class>>], "fail")
    <3>1. \E j \in past : j.class = i.class /\ sweep \in try_archive(j, misses).leak
      BY <2>1, <2>2
    <3> HIDE DEF past
    <3>2. keepStandings' = [s \in Sweep \X Class |->
                 record(keepStandings[s],
                        IF \E j \in past : j.class = s[2] /\ s[1] \in try_archive(j, misses).leak
                        THEN "fail" ELSE "pass")]
      BY <1>1 DEF past
    <3> QED BY <2>1, <3>1, <3>2
  <2> QED BY <2>3 DEF record, health
<1> QED BY <1>2, <1>3, <1>4, <1>8, <1>9 DEF KeepInv

LEMMA KeepStill == ASSUME KeepInv, UNCHANGED keepVars PROVE KeepInv'
BY DEF KeepInv, NothingLost, LeaksAreTold, Aged, keepVars

-----------------------------------------------------------------------------
(* The storm. *)

LEMMA MatrixIsNat == Matrix \in Nat
<1> DEFINE count == Len(Transports) * Len(Contracts)
           Cell(n) == <<Transports[((n - 1) \div Len(Contracts)) + 1],
                        Contracts[((n - 1) % Len(Contracts)) + 1]>>
           Cells == {Cell(n) : n \in 1 .. count}
<1>1. count \in Nat
  <2>1. Len(Transports) \in Nat /\ Len(Contracts) \in Nat
    BY MatrixAssumption
  <2> QED BY <2>1
<1>2. all_pairs = [n \in 1 .. count |-> Cell(n)]
  BY DEF all_pairs
<1> HIDE DEF count, Cell
<1>3. [n \in 1 .. count |-> Cell(n)] \in Seq(Cells)
  BY <1>1
<1>4. all_pairs \in Seq(Cells)
  BY <1>2, <1>3
<1> HIDE DEF Cells
<1>5. Len(all_pairs) \in Nat
  BY <1>4
<1> QED BY <1>5 DEF Matrix

\* The time a tick may take is a number, at any level and on any machine.
LEMMA BudgetIsNat == budget \in Nat
<1>1. Matrix \in Nat
  BY MatrixIsNat
<1>2. share(Cores, Free) \in Nat \ {0}
  <2>1. Cores * Free \in Nat
    BY StormAssumption
  <2>2. Cores * Free + 100 \in Nat
    BY <2>1
  <2>3. (Cores * Free + 100) \div 200 \in Nat
    BY <2>2, Quotient
  <2> QED BY <2>3, MostOf DEF share
<1>3. workers(StormLevel, share(Cores, Free)) \in Nat
  <2>1. Least({4, share(Cores, Free)}) \in Nat
    BY <1>2, LeastOf
  <2> QED BY <1>2, <2>1, StormAssumption DEF workers, Level
<1> DEFINE many == Most({1, workers(StormLevel, share(Cores, Free))})
<1>4. many \in Nat \ {0}
  BY <1>3, MostOf
<1>5. TIMEOUT * 3 * Matrix \in Nat
  BY <1>1, StormAssumption
<1>6. budget = (TIMEOUT * 3 * Matrix) \div many
  BY DEF budget
<1> HIDE DEF many
<1> QED BY <1>4, <1>5, <1>6, Quotient

\* What a pair's weather came to: a panic is a failure that is told, whatever
\* fault fires over it.
LEMMA PanicIsTold ==
    ASSUME NEW p, NEW weather, NEW draw, weather.answer = "panic"
    PROVE  storm_judge(p, weather, draw).panicked /\ storm_judge(p, weather, draw).outcome = "failed"
BY DEF storm_judge

\* ...and where no fault fires, the reason it gives is its exchange's.
LEMMA ReasonIsItsOwn ==
    ASSUME NEW p, NEW weather, NEW draw, weather.answer # "panic", ~faulted(p, draw)
    PROVE  storm_judge(p, weather, draw).reason = weather.reason
BY DEF storm_judge

LEMMA RecordLast == ASSUME NEW standing, NEW mark PROVE record(standing, mark).last = mark
BY DEF record

StormInv == stormRound \in Nat /\ TickTellsAll

LEMMA StormFirst == StormInit => StormInv
BY DEF StormInit, StormInv, TickTellsAll

LEMMA StormStepInv == ASSUME StormInv, StormTick PROVE StormInv'
<1>0. stormRound' = stormRound + 1 /\ stormRound' \in Nat
  BY DEF StormTick, StormInv
<1>1. PICK weather \in [StormPairs -> UNION {Weather(p[1]) : p \in StormPairs}],
           draw \in StormDraws, took \in Took(budget) :
       LET lines     == [p \in StormPairs |-> storm_judge(p, weather[p], draw)]
           panicked  == {p \in StormPairs : lines[p].panicked}
           unreasoned == {p \in StormPairs :
                            storm_mark(lines[p].outcome) # "pass" /\ ~lines[p].reason}
       IN  /\ \A p \in StormPairs : weather[p] \in Weather(p[1])
           /\ stormStandings' = [p \in StormPairs |->
                record(stormStandings[p], storm_mark(lines[p].outcome))]
           /\ panics' = panics + Cardinality(panicked)
           /\ broken' = (IF unreasoned # {} THEN {"reason"} ELSE {})
                \cup (IF violations(lines, Published(stormStandings')) # {} THEN {"rollup"} ELSE {})
                \cup (IF took > budget THEN {"budget"} ELSE {})
                \cup (IF panicked # {} THEN {"panic"} ELSE {})
           /\ storming' = [weather |-> weather, draw |-> draw, took |-> took]
  BY DEF StormTick
<1> DEFINE line(p) == storm_judge(p, weather[p], draw)
<1>2. \A p \in StormPairs : stormStandings'[p] = record(stormStandings[p], storm_mark(line(p).outcome))
  BY <1>1
<1>3. /\ took > budget => "budget" \in broken'
      /\ \A p \in StormPairs : line(p).panicked => "panic" \in broken'
      /\ \A p \in StormPairs :
            storm_mark(line(p).outcome) # "pass" /\ ~line(p).reason => "reason" \in broken'
  BY <1>1
<1>4. storming'.weather = weather /\ storming'.draw = draw /\ storming'.took = took
  BY <1>1
<1>5. tickLeaf' = "fine" => broken' = {}
  BY DEF StormTick, tick_record
<1>6. took \in Nat /\ budget \in Nat
  BY StormAssumption, BudgetIsNat
<1> HIDE DEF line
<1>7. budget' = budget
  OBVIOUS
<1>8. tickLeaf' = "fine" => took <= budget
  BY <1>3, <1>5, <1>6
<1>9. ASSUME NEW p \in StormPairs
      PROVE  /\ stormStandings'[p].last # "none"
             /\ weather[p].answer = "panic" =>
                   /\ health(stormStandings'[p]) = "done"
                   /\ tickLeaf' # "fine"
             /\ tickLeaf' = "fine" => \/ stormStandings'[p].last = "pass"
                                      \/ weather[p].reason
                                      \/ faulted(p, draw)
  <2>1. storm_mark(line(p).outcome) \in Mark
    BY DEF storm_mark, Mark
  <2>2. stormStandings'[p].last = storm_mark(line(p).outcome)
    BY <1>2, RecordLast
  <2>3. CASE weather[p].answer = "panic"
    <3>1. line(p).panicked /\ line(p).outcome = "failed"
      BY <2>3, PanicIsTold DEF line
    <3>2. storm_mark(line(p).outcome) = "fail"
      BY <3>1 DEF storm_mark
    <3>3. health(stormStandings'[p]) = "done"
      BY <2>2, <3>2 DEF health
    <3> QED BY <1>3, <1>5, <2>2, <3>1, <3>2, <3>3
  <2>4. CASE weather[p].answer # "panic"
    <3>1. faulted(p, draw) \/ line(p).reason = weather[p].reason
      BY <2>4, ReasonIsItsOwn DEF line
    <3>2. tickLeaf' = "fine" => storm_mark(line(p).outcome) = "pass" \/ line(p).reason
      BY <1>3, <1>5
    <3>3. stormStandings'[p].last # "none"
      BY <2>1, <2>2 DEF Mark
    <3> QED BY <2>2, <2>4, <3>1, <3>2, <3>3
  <2> QED BY <2>3, <2>4
<1>10. TickTellsAll'
  BY <1>4, <1>7, <1>8, <1>9 DEF TickTellsAll
<1> QED BY <1>0, <1>10 DEF StormInv

LEMMA StormStill == ASSUME StormInv, UNCHANGED stormVars PROVE StormInv'
BY DEF StormInv, TickTellsAll, stormVars

-----------------------------------------------------------------------------
(* Together. *)

ScenarioInv == EventInv /\ ServedInv /\ KeepInv /\ StormInv

LEMMA ScenarioFirst == ScenarioInit => ScenarioInv
BY EventFirst, ServedFirst, KeepFirst, StormFirst DEF ScenarioInit, ScenarioInv

LEMMA ScenarioStep == ScenarioInv /\ [ScenarioNext]_scenarioVars => ScenarioInv'
<1> SUFFICES ASSUME ScenarioInv, [ScenarioNext]_scenarioVars PROVE ScenarioInv'
  OBVIOUS
<1> USE DEF ScenarioInv
<1>1. EventInv'
  <2>1. EventNext \/ UNCHANGED eventVars
    BY DEF ScenarioNext, scenarioVars, RoundTripStep, LowLatencyStep, HeavyLoadStep,
           RetentionStep, FilingStep, StormStep, DailyBacklogStep, EventingStep, ServedStep
  <2> QED BY <2>1, EventStep
<1>2. ServedInv'
  <2>1. ServedNext \/ UNCHANGED servedVars
    BY DEF ScenarioNext, scenarioVars, RoundTripStep, LowLatencyStep, HeavyLoadStep,
           RetentionStep, FilingStep, StormStep, DailyBacklogStep, EventingStep, ServedStep
  <2> QED BY <2>1, ServedStepInv, ServedStill
<1>3. KeepInv'
  <2>1. KeepTick \/ UNCHANGED keepVars
    BY DEF ScenarioNext, scenarioVars, RoundTripStep, LowLatencyStep, HeavyLoadStep,
           RetentionStep, FilingStep, StormStep, DailyBacklogStep, EventingStep, ServedStep
  <2> QED BY <2>1, KeepStep, KeepStill
<1>4. StormInv'
  <2>1. StormTick \/ UNCHANGED stormVars
    BY DEF ScenarioNext, scenarioVars, RoundTripStep, LowLatencyStep, HeavyLoadStep,
           RetentionStep, FilingStep, StormStep, DailyBacklogStep, EventingStep, ServedStep
  <2> QED BY <2>1, StormStepInv, StormStill
<1> QED BY <1>1, <1>2, <1>3, <1>4

LEMMA ScenarioInvariance == Spec => []ScenarioInv
BY ScenarioFirst, ScenarioStep, PTL DEF Spec

\* Whatever is raised, paused, resumed and removed, and however late the
\* listener's thread runs, a Party that has heard all its queue took knows what
\* fails now: operations the figure itself, but of a stage whose records went
\* while pairs failed, and on-call no fewer (eventing.rs round, raise, act).
THEOREM LastEventIsCurrent == Spec => []HeardIsCurrent
<1>1. ScenarioInv => HeardIsCurrent
  BY AttentiveKnows DEF ScenarioInv
<1> QED BY <1>1, ScenarioInvariance, PTL

\* Every item created is live or archived and not both, and none is archived
\* before its window is over, over any simulated time and any number of sweeps
\* missed or refused (retention.rs tick, try_archive).
THEOREM RetainedOrArchived == Spec => []NothingLost
<1>1. ScenarioInv => NothingLost
  BY DEF ScenarioInv, KeepInv
<1> QED BY <1>1, ScenarioInvariance, PTL

\* An item past its window and still live reads red on its class at the stage
\* that missed or refused it (retention.rs try_archive).
THEOREM EveryLeakIsTold == Spec => []LeaksAreTold
<1>1. ScenarioInv => LeaksAreTold
  BY DEF ScenarioInv, KeepInv
<1> QED BY <1>1, ScenarioInvariance, PTL

\* A green tick of the storm hid no panic and kept its time, and a panic leaves
\* every other pair its verdict (storm.rs), at any level, on any machine.
THEOREM GreenTickHidNothing == Spec => []TickTellsAll
<1>1. ScenarioInv => TickTellsAll
  BY DEF ScenarioInv, StormInv
<1> QED BY <1>1, ScenarioInvariance, PTL

\* A leave gives every file its time, stops the Storage nodes after the rest
\* and removes what they keep last (bin/roll.rs leave, served.rs stop), for any
\* nodes, roles, files and crashes.
THEOREM LeaveIsOrdered == Spec => []LeavesInOrder
<1>1. ScenarioInv => LeavesInOrder
  BY DEF ScenarioInv, ServedInv
<1> QED BY <1>1, ScenarioInvariance, PTL

-----------------------------------------------------------------------------
(* What was red is remembered, in the tests that keep standings. *)

\* A round folds a mark into some of the standings and leaves the others.
Folded(old, new) ==
    /\ DOMAIN old \subseteq DOMAIN new
    /\ \A s \in DOMAIN new :
          \/ s \in DOMAIN old /\ new[s] = old[s]
          \/ \E mark \in Mark :
                new[s] = record(IF s \in DOMAIN old THEN old[s] ELSE NoStanding, mark)

\* A standing counts its failures, the last one with them.
Counted(standings) ==
    \A s \in DOMAIN standings :
       /\ standings[s].failures \in Nat
       /\ standings[s].last \in Mark \cup {"none"}
       /\ standings[s].last = "fail" => standings[s].failures > 0

Marred(standings, s) ==
    /\ s \in DOMAIN standings
    /\ standings[s].failures > 0 /\ standings[s].last # "none"

LEMMA RecordCounts ==
    ASSUME NEW standing, standing.failures \in Nat, NEW mark \in Mark
    PROVE  LET now == record(standing, mark)
           IN  /\ now.failures \in Nat /\ now.failures >= standing.failures /\ now.last = mark
               /\ mark = "fail" => now.failures > 0
BY DEF record

LEMMA FoldedCounts ==
    ASSUME NEW old, NEW new, Counted(old), Folded(old, new)
    PROVE  Counted(new) /\ \A s : Marred(old, s) => Marred(new, s)
<1>1. ASSUME NEW s \in DOMAIN new
      PROVE  /\ new[s].failures \in Nat /\ new[s].last \in Mark \cup {"none"}
             /\ new[s].last = "fail" => new[s].failures > 0
             /\ s \in DOMAIN old /\ old[s].last # "none" =>
                   new[s].failures >= old[s].failures /\ new[s].last # "none"
  <2>1. CASE s \in DOMAIN old /\ new[s] = old[s]
    BY <2>1 DEF Counted
  <2>2. CASE \E mark \in Mark :
                new[s] = record(IF s \in DOMAIN old THEN old[s] ELSE NoStanding, mark)
    <3>1. PICK mark \in Mark :
                new[s] = record(IF s \in DOMAIN old THEN old[s] ELSE NoStanding, mark)
      BY <2>2
    <3>2. CASE s \in DOMAIN old
      <4>1. new[s] = record(old[s], mark) /\ old[s].failures \in Nat
        BY <3>1, <3>2 DEF Counted
      <4> QED BY <4>1, RecordCounts DEF Mark
    <3>3. CASE s \notin DOMAIN old
      <4>1. new[s] = record(NoStanding, mark) /\ NoStanding.failures \in Nat
        BY <3>1, <3>3 DEF NoStanding
      <4> QED BY <3>3, <4>1, RecordCounts DEF Mark
    <3> QED BY <3>2, <3>3
  <2> QED BY <2>1, <2>2 DEF Folded
<1>2. Counted(new)
  BY <1>1 DEF Counted
<1>3. ASSUME NEW s, Marred(old, s) PROVE Marred(new, s)
  <2>1. s \in DOMAIN new /\ s \in DOMAIN old /\ old[s].failures \in Nat
    BY <1>3 DEF Marred, Folded, Counted
  <2> QED BY <1>1, <1>3, <2>1 DEF Marred
<1> QED BY <1>2, <1>3

\* What reads red has failed, and what has failed does not read green.
LEMMA DoneIsMarred ==
    ASSUME NEW standings, Counted(standings), NEW s \in DOMAIN Published(standings),
           Published(standings)[s] = "done"
    PROVE  Marred(standings, s)
<1>1. s \in DOMAIN standings /\ standings[s].last # "none" /\ health(standings[s]) = "done"
  BY DEF Published
<1>2. standings[s].last = "fail"
  BY <1>1 DEF Counted, Mark, health
<1> QED BY <1>1, <1>2 DEF Counted, Marred

LEMMA MarredIsNotFine ==
    ASSUME NEW standings, Counted(standings), NEW s, Marred(standings, s)
    PROVE  s \in DOMAIN Published(standings) /\ Published(standings)[s] # "fine"
<1>1. /\ s \in DOMAIN standings /\ standings[s].last # "none"
      /\ standings[s].failures \in Nat /\ standings[s].failures > 0
  BY DEF Marred, Counted
<1>2. health(standings[s]) # "fine"
  BY <1>1 DEF health
<1> QED BY <1>1, <1>2 DEF Published

\* Each test's tick folds its marks.
KeptDomains ==
    /\ DOMAIN keepStandings = Sweep \X Class /\ DOMAIN fileStandings = Drawer
    /\ DOMAIN stormStandings = StormPairs /\ DOMAIN backlogStandings = Feeder

LEMMA LoadFolds == LoadTick => Folded(loadStandings, loadStandings')
<1> SUFFICES ASSUME LoadTick PROVE Folded(loadStandings, loadStandings')
  OBVIOUS
<1>1. PICK drops \in Drops, replies \in [LoadPairs -> UNION {Load(p[1]) : p \in LoadPairs}] :
       LET size    == size_this_round(loadRound + 1)
           mark(p) == carry(p, size, replies[p], drops)
       IN  /\ \A p \in LoadPairs : replies[p] \in Load(p[1])
           /\ loadStandings' =
                [p \in DOMAIN loadStandings \cup LoadPairs |->
                    LET before == Entry(loadStandings, p, NoStanding)
                    IN  IF p \in LoadPairs THEN record(before, mark(p)) ELSE before]
  BY Zenon DEF LoadTick
<1> DEFINE Marks(p) == carry(p, size_this_round(loadRound + 1), replies[p], drops)
<1>2. \A p \in LoadPairs : Marks(p) \in Mark
  BY DEF carry, Mark
<1>3. loadStandings' =
        [p \in DOMAIN loadStandings \cup LoadPairs |->
            IF p \in LoadPairs THEN record(Entry(loadStandings, p, NoStanding), Marks(p))
                               ELSE Entry(loadStandings, p, NoStanding)]
  BY <1>1
<1> HIDE DEF Marks
<1>4. DOMAIN loadStandings' = DOMAIN loadStandings \cup LoadPairs
  BY <1>3
<1>5. ASSUME NEW s \in DOMAIN loadStandings'
      PROVE  \/ s \in DOMAIN loadStandings /\ loadStandings'[s] = loadStandings[s]
             \/ \E mark \in Mark : loadStandings'[s] =
                   record(IF s \in DOMAIN loadStandings THEN loadStandings[s] ELSE NoStanding, mark)
  <2>1. CASE s \in LoadPairs
    BY <1>2, <1>3, <2>1 DEF Entry
  <2>2. CASE s \notin LoadPairs
    BY <1>3, <1>4, <1>5, <2>2 DEF Entry
  <2> QED BY <2>1, <2>2
<1> QED BY <1>4, <1>5 DEF Folded

LEMMA KeepFolds ==
    ASSUME KeptDomains, KeepTick
    PROVE  Folded(keepStandings, keepStandings') /\ DOMAIN keepStandings' = Sweep \X Class
<1>1. PICK leaks :
        keepStandings' = [s \in Sweep \X Class |->
           record(keepStandings[s], IF leaks[s] THEN "fail" ELSE "pass")]
  <2>1. PICK now \in simulated .. Least({simulated + MaxStep, Horizon}), misses \in Misses :
          LET begun == live \cup create_through(now)
              past == {i \in begun : Aged(i, now)}
          IN  keepStandings' = [s \in Sweep \X Class |->
                 record(keepStandings[s],
                        IF \E i \in past : i.class = s[2] /\ s[1] \in try_archive(i, misses).leak
                        THEN "fail" ELSE "pass")]
    BY DEF KeepTick
  <2> DEFINE Leaky(s) == \E i \in {i \in live \cup create_through(now) : Aged(i, now)} :
                            i.class = s[2] /\ s[1] \in try_archive(i, misses).leak
  <2>2. keepStandings' = [s \in Sweep \X Class |->
           record(keepStandings[s], IF Leaky(s) THEN "fail" ELSE "pass")]
    BY <2>1
  <2> HIDE DEF Leaky
  <2> DEFINE all == [s \in Sweep \X Class |-> Leaky(s)]
  <2>3. keepStandings' = [s \in Sweep \X Class |->
           record(keepStandings[s], IF all[s] THEN "fail" ELSE "pass")]
    BY <2>2
  <2> QED BY <2>3
<1>2. DOMAIN keepStandings' = Sweep \X Class
  BY <1>1
<1>3. \A s \in Sweep \X Class : \E mark \in Mark : keepStandings'[s] = record(keepStandings[s], mark)
  BY <1>1 DEF Mark
<1> QED BY <1>2, <1>3 DEF KeptDomains, Folded

LEMMA FileFolds ==
    ASSUME KeptDomains, FileTick
    PROVE  Folded(fileStandings, fileStandings') /\ DOMAIN fileStandings' = Drawer
<1>1. PICK skips \in Skips, stores \in [Drawer -> UNION {Stores(c) : c \in Cabinets}] :
         fileStandings' = [d \in Drawer |->
            record(fileStandings[d], file_judge(d, stores[d], skips, filingRound + 1).mark)]
  BY DEF FileTick
<1>2. DOMAIN fileStandings' = Drawer
  BY <1>1
<1>3. \A d \in Drawer : file_judge(d, stores[d], skips, filingRound + 1).mark \in Mark
  BY DEF file_judge, Mark
<1>4. \A d \in Drawer : \E mark \in Mark : fileStandings'[d] = record(fileStandings[d], mark)
  BY <1>1, <1>3
<1> QED BY <1>2, <1>4 DEF KeptDomains, Folded

LEMMA StormFolds ==
    ASSUME KeptDomains, StormTick
    PROVE  Folded(stormStandings, stormStandings') /\ DOMAIN stormStandings' = StormPairs
<1>1. PICK outcomes : stormStandings' = [p \in StormPairs |->
                         record(stormStandings[p], storm_mark(outcomes[p]))]
  <2>1. PICK weather \in [StormPairs -> UNION {Weather(p[1]) : p \in StormPairs}],
             draw \in StormDraws, took \in Took(budget) :
          stormStandings' = [p \in StormPairs |->
            record(stormStandings[p],
                   storm_mark([q \in StormPairs |-> storm_judge(q, weather[q], draw)][p].outcome))]
    BY DEF StormTick
  <2> DEFINE all == [p \in StormPairs |->
                       [q \in StormPairs |-> storm_judge(q, weather[q], draw)][p].outcome]
  <2>2. stormStandings' = [p \in StormPairs |-> record(stormStandings[p], storm_mark(all[p]))]
    BY <2>1
  <2> HIDE DEF all
  <2> QED BY <2>2
<1>2. DOMAIN stormStandings' = StormPairs
  BY <1>1
<1>3. \A p \in StormPairs : storm_mark(outcomes[p]) \in Mark
  BY DEF storm_mark, Mark
<1>4. \A p \in StormPairs : \E mark \in Mark : stormStandings'[p] = record(stormStandings[p], mark)
  BY <1>1, <1>3
<1> QED BY <1>2, <1>4 DEF KeptDomains, Folded

LEMMA SameFolds == ASSUME NEW old PROVE Folded(old, old)
BY DEF Folded

LEMMA BacklogFolds ==
    ASSUME KeptDomains, BacklogNext
    PROVE  Folded(backlogStandings, backlogStandings') /\ DOMAIN backlogStandings' = Feeder
<1>1. CASE backlogStandings' = backlogStandings
  BY <1>1, SameFolds DEF KeptDomains
<1>2. CASE \E f \in Feeder : Measure(f)
  <2>1. PICK f \in Feeder : Measure(f)
    BY <1>2
  <2> DEFINE mark == CASE measure > CEILING -> "fail"
                      [] measure <= CEILING /\ measure > previous[f] -> "warn"
                      [] OTHER -> "pass"
  <2>2. backlogStandings' = [backlogStandings EXCEPT ![f] = record(@, mark)]
    BY <2>1 DEF Measure
  <2>3. mark \in Mark
    BY DEF Mark
  <2> HIDE DEF mark
  <2>4. DOMAIN backlogStandings' = Feeder
    BY <2>2 DEF KeptDomains
  <2>5. \A s \in Feeder : \/ backlogStandings'[s] = backlogStandings[s]
                          \/ backlogStandings'[s] = record(backlogStandings[s], mark)
    BY <2>2 DEF KeptDomains
  <2> QED BY <2>3, <2>4, <2>5 DEF KeptDomains, Folded
<1> QED BY <1>1, <1>2 DEF BacklogNext, Arrive, List, Drain

\* The scopes of a test on the board that read red.
LEMMA RedOnBoard ==
    ASSUME NEW a, NEW b, NEW c, NEW d, NEW e, NEW f, NEW s
    PROVE  LET now == [round_trip |-> a, heavy_load |-> b, retention |-> c, filing |-> d,
                       storm |-> e, backlog |-> f]
           IN  /\ <<"heavy_load", s>> \in Red(now) => s \in DOMAIN b /\ b[s] = "done"
               /\ <<"retention", s>> \in Red(now) => s \in DOMAIN c /\ c[s] = "done"
               /\ <<"filing", s>> \in Red(now) => s \in DOMAIN d /\ d[s] = "done"
               /\ <<"storm", s>> \in Red(now) => s \in DOMAIN e /\ e[s] = "done"
               /\ <<"backlog", s>> \in Red(now) => s \in DOMAIN f /\ f[s] = "done"
<1> DEFINE now == [round_trip |-> a, heavy_load |-> b, retention |-> c, filing |-> d,
                   storm |-> e, backlog |-> f]
<1>1. \A t : <<t, s>> \in Red(now) => t \in DOMAIN now /\ s \in DOMAIN now[t] /\ now[t][s] = "done"
  <2> HIDE DEF now
  <2> QED BY DEF Red
<1> QED BY <1>1

Remembered(test, standings) == \A s : <<test, s>> \in reds => Marred(standings, s)

StandInv ==
    /\ KeptDomains
    /\ Counted(loadStandings) /\ Remembered("heavy_load", loadStandings)
    /\ Counted(keepStandings) /\ Remembered("retention", keepStandings)
    /\ Counted(fileStandings) /\ Remembered("filing", fileStandings)
    /\ Counted(stormStandings) /\ Remembered("storm", stormStandings)
    /\ Counted(backlogStandings) /\ Remembered("backlog", backlogStandings)

LEMMA StandFirst == ScenarioInit => StandInv
<1> SUFFICES ASSUME ScenarioInit PROVE StandInv
  OBVIOUS
<1>1. KeptDomains /\ reds = {}
  BY DEF ScenarioInit, KeptDomains, KeepInit, FileInit, StormInit, BacklogInit
<1>2. NoStanding.failures = 0 /\ NoStanding.last = "none"
  BY DEF NoStanding
<1>3. Counted(loadStandings)
  BY DEF ScenarioInit, LoadInit, Counted
<1>4. Counted(keepStandings) /\ Counted(fileStandings)
  BY <1>2 DEF ScenarioInit, KeepInit, FileInit, Counted
<1>5. Counted(stormStandings) /\ Counted(backlogStandings)
  BY <1>2 DEF ScenarioInit, StormInit, BacklogInit, Counted
<1> QED BY <1>1, <1>3, <1>4, <1>5 DEF StandInv, Remembered

\* One test's standings, before and after a step that published them.
LEMMA TestRemembers ==
    ASSUME NEW test, NEW old, NEW new, Counted(old), Folded(old, new), Remembered(test, old),
           \A s : <<test, s>> \in reds' =>
              \/ <<test, s>> \in reds
              \/ s \in DOMAIN Published(new) /\ Published(new)[s] = "done"
    PROVE  Counted(new) /\ \A s : <<test, s>> \in reds' => Marred(new, s)
<1>1. Counted(new) /\ \A s : Marred(old, s) => Marred(new, s)
  BY FoldedCounts
<1>2. ASSUME NEW s, <<test, s>> \in reds' PROVE Marred(new, s)
  <2>1. CASE <<test, s>> \in reds
    BY <1>1, <2>1 DEF Remembered
  <2>2. CASE s \in DOMAIN Published(new) /\ Published(new)[s] = "done"
    BY <1>1, <2>2, DoneIsMarred
  <2> QED BY <1>2, <2>1, <2>2
<1> QED BY <1>1, <1>2

LEMMA StandStep == StandInv /\ [ScenarioNext]_scenarioVars => StandInv'
<1> SUFFICES ASSUME StandInv, [ScenarioNext]_scenarioVars PROVE StandInv'
  OBVIOUS
<1>1. CASE UNCHANGED scenarioVars
  BY <1>1 DEF StandInv, KeptDomains, Remembered, scenarioVars, loadVars, keepVars, fileVars,
              stormVars, backlogVars
<1>2. CASE ScenarioNext
  <2> USE DEF RoundTripStep, LowLatencyStep, HeavyLoadStep, RetentionStep, FilingStep, StormStep,
              DailyBacklogStep, EventingStep, ServedStep
  <2>1. reds' = reds \cup Red(Board')
    BY <1>2 DEF ScenarioNext, Merged
  <2>2. Folded(loadStandings, loadStandings')
    <3>1. LoadTick \/ loadStandings' = loadStandings
      BY <1>2 DEF ScenarioNext, loadVars
    <3> QED BY <3>1, LoadFolds, SameFolds
  <2>3. Folded(keepStandings, keepStandings') /\ DOMAIN keepStandings' = Sweep \X Class
    <3>1. KeepTick \/ keepStandings' = keepStandings
      BY <1>2 DEF ScenarioNext, keepVars
    <3> QED BY <3>1, KeepFolds, SameFolds DEF StandInv, KeptDomains
  <2>4. Folded(fileStandings, fileStandings') /\ DOMAIN fileStandings' = Drawer
    <3>1. FileTick \/ fileStandings' = fileStandings
      BY <1>2 DEF ScenarioNext, fileVars
    <3> QED BY <3>1, FileFolds, SameFolds DEF StandInv, KeptDomains
  <2>5. Folded(stormStandings, stormStandings') /\ DOMAIN stormStandings' = StormPairs
    <3>1. StormTick \/ stormStandings' = stormStandings
      BY <1>2 DEF ScenarioNext, stormVars
    <3> QED BY <3>1, StormFolds, SameFolds DEF StandInv, KeptDomains
  <2>6. Folded(backlogStandings, backlogStandings') /\ DOMAIN backlogStandings' = Feeder
    <3>1. BacklogNext \/ backlogStandings' = backlogStandings
      BY <1>2 DEF ScenarioNext, backlogVars
    <3> QED BY <3>1, BacklogFolds, SameFolds DEF StandInv, KeptDomains
  <2>7. ASSUME NEW s
        PROVE  /\ <<"heavy_load", s>> \in Red(Board') =>
                     s \in DOMAIN Published(loadStandings') /\ Published(loadStandings')[s] = "done"
               /\ <<"retention", s>> \in Red(Board') =>
                     s \in DOMAIN Published(keepStandings') /\ Published(keepStandings')[s] = "done"
               /\ <<"filing", s>> \in Red(Board') =>
                     s \in DOMAIN Published(fileStandings') /\ Published(fileStandings')[s] = "done"
               /\ <<"storm", s>> \in Red(Board') =>
                     s \in DOMAIN Published(stormStandings') /\ Published(stormStandings')[s] = "done"
               /\ <<"backlog", s>> \in Red(Board') =>
                     /\ s \in DOMAIN Published(backlogStandings')
                     /\ Published(backlogStandings')[s] = "done"
    BY RedOnBoard DEF Board
  <2>8. Counted(loadStandings') /\ Remembered("heavy_load", loadStandings)'
    BY <2>1, <2>2, <2>7, TestRemembers DEF StandInv, Remembered
  <2>9. Counted(keepStandings') /\ Remembered("retention", keepStandings)'
    BY <2>1, <2>3, <2>7, TestRemembers DEF StandInv, Remembered
  <2>10. Counted(fileStandings') /\ Remembered("filing", fileStandings)'
    BY <2>1, <2>4, <2>7, TestRemembers DEF StandInv, Remembered
  <2>11. Counted(stormStandings') /\ Remembered("storm", stormStandings)'
    BY <2>1, <2>5, <2>7, TestRemembers DEF StandInv, Remembered
  <2>12. Counted(backlogStandings') /\ Remembered("backlog", backlogStandings)'
    BY <2>1, <2>6, <2>7, TestRemembers DEF StandInv, Remembered
  <2>13. KeptDomains'
    BY <2>3, <2>4, <2>5, <2>6 DEF KeptDomains
  <2> QED BY <2>8, <2>9, <2>10, <2>11, <2>12, <2>13 DEF StandInv
<1> QED BY <1>1, <1>2

\* RedIsRemembered of the tests that judge by standings.
Judging == {"heavy_load", "retention", "filing", "storm", "backlog"}
StandingsRemember ==
    \A red \in reds : \A test \in Judging : \A s : red = <<test, s>> =>
        s \in DOMAIN Board[test] /\ Board[test][s] # "fine"

\* A scope once published red never reads green again in HeavyLoad, Retention,
\* Filing, the storm and DailyBacklog (standing.rs record, health), whichever
\* tests the roll chose and however their rounds interleave.
THEOREM RedStandingsStay == Spec => []StandingsRemember
<1>1. StandInv => StandingsRemember
  <2> SUFFICES ASSUME StandInv, NEW test \in Judging, NEW s, <<test, s>> \in reds
               PROVE  s \in DOMAIN Board[test] /\ Board[test][s] # "fine"
    BY DEF StandingsRemember
  <2>1. CASE test = "heavy_load"
    <3>1. Board[test] = Published(loadStandings)
      BY <2>1 DEF Board
    <3> QED BY <2>1, <3>1, MarredIsNotFine DEF StandInv, Remembered
  <2>2. CASE test = "retention"
    <3>1. Board[test] = Published(keepStandings)
      BY <2>2 DEF Board
    <3> QED BY <2>2, <3>1, MarredIsNotFine DEF StandInv, Remembered
  <2>3. CASE test = "filing"
    <3>1. Board[test] = Published(fileStandings)
      BY <2>3 DEF Board
    <3> QED BY <2>3, <3>1, MarredIsNotFine DEF StandInv, Remembered
  <2>4. CASE test = "storm"
    <3>1. Board[test] = Published(stormStandings)
      BY <2>4 DEF Board
    <3> QED BY <2>4, <3>1, MarredIsNotFine DEF StandInv, Remembered
  <2>5. CASE test = "backlog"
    <3>1. Board[test] = Published(backlogStandings)
      BY <2>5 DEF Board
    <3> QED BY <2>5, <3>1, MarredIsNotFine DEF StandInv, Remembered
  <2> QED BY <2>1, <2>2, <2>3, <2>4, <2>5 DEF Judging
<1> QED BY <1>1, StandFirst, StandStep, PTL DEF Spec

-----------------------------------------------------------------------------
(* HeavyLoad's slices: which pairs a round carried, by its number. *)

\* What a remainder is...
LEMMA Remainder ==
    ASSUME NEW a \in Nat, NEW m \in Nat, m > 0
    PROVE  /\ a \div m \in Nat /\ a % m \in Nat /\ a % m < m
           /\ a = m * (a \div m) + (a % m)
<1>1. a = m * (a \div m) + (a % m)
  BY SMT
<1>2. a \div m \in Nat /\ a % m \in Nat /\ a % m < m
  OBVIOUS
<1> QED BY <1>1, <1>2

\* ...and there is one.
LEMMA OneRemainder ==
    ASSUME NEW m \in Nat, m > 0, NEW q \in Int, NEW s \in Int, NEW r \in Nat, NEW t \in Nat,
           r < m, t < m, m * q + r = m * s + t
    PROVE  r = t
<1>1. m * (q - s) = t - r
  OBVIOUS
<1>2. CASE q - s >= 1
  <2>1. m * (q - s) >= m
    BY <1>2
  <2> QED BY <1>1, <2>1
<1>3. CASE q - s <= -1
  <2>1. m * (q - s) <= -m
    BY <1>3
  <2> QED BY <1>1, <2>1
<1>4. CASE q = s
  BY <1>1, <1>4
<1> QED BY <1>2, <1>3, <1>4

LEMMA RemainderOfSum ==
    ASSUME NEW a \in Nat, NEW c \in Nat, NEW m \in Nat, m > 0
    PROVE  ((a % m) + c) % m = (a + c) % m
<1> DEFINE b == (a % m) + c
           q == a \div m
           s == b \div m
           t == (a + c) \div m
<1>1. q \in Nat /\ a % m \in Nat /\ a = m * q + (a % m)
  BY Remainder
<1>2. b \in Nat /\ a + c \in Nat
  BY <1>1
<1>3. s \in Nat /\ b % m \in Nat /\ b % m < m /\ b = m * s + (b % m)
  BY <1>2, Remainder
<1>4. t \in Nat /\ (a + c) % m \in Nat /\ (a + c) % m < m /\ a + c = m * t + ((a + c) % m)
  BY <1>2, Remainder
<1>5. a + c = m * q + b
  BY <1>1
<1> HIDE DEF b, q, s, t
<1>6. m * q + (m * s + (b % m)) = m * t + ((a + c) % m)
  BY <1>3, <1>4, <1>5
<1>7. m * (q + s) = m * q + m * s
  BY <1>1, <1>3
<1>8. q + s \in Int /\ t \in Int /\ m * (q + s) + (b % m) = m * t + ((a + c) % m)
  BY <1>1, <1>3, <1>4, <1>6, <1>7
<1>9. b % m = (a + c) % m
  BY <1>3, <1>4, <1>8, OneRemainder, Zenon
<1> QED BY <1>9 DEF b

LoadCount == Least({LoadPerRound, Matrix})

\* The cursor is where as many slices as there were rounds have brought it.
CursorAt ==
    /\ loadRound \in Nat
    /\ Matrix > 0 => loadCursor = (loadRound * LoadCount) % Matrix

\* A pair met its ceiling in a round of the load's own size.
MetCeiling(p, turn) ==
    p \in CarriedIn(turn) /\ Over(p[1], Own) /\ size_this_round(turn) = Own

CeilingMarred ==
    \A turn \in 1 .. loadRound : \A p : MetCeiling(p, turn) => Marred(loadStandings, p)

LEMMA LoadCountType == LoadCount \in 0 .. Matrix
BY MatrixIsNat, LoadAssumption, LeastOf DEF LoadCount

\* A round's slice, as it is driven and as its number tells it.
LEMMA CarriedNow == CursorAt => CarriedIn(loadRound + 1) = LoadPairs
<1> SUFFICES ASSUME CursorAt PROVE CarriedIn(loadRound + 1) = LoadPairs
  OBVIOUS
<1>1. LoadCount \in Nat /\ LoadCount <= Matrix /\ Matrix \in Nat
  BY LoadCountType, MatrixIsNat
<1>2. Least({LoadCount, Matrix}) = LoadCount
  BY <1>1, LeastOf
<1> DEFINE start == (((loadRound + 1) - 1) * LoadCount) % Matrix
           Turn(from) == [n \in 1 .. LoadCount |-> all_pairs[((from + n - 1) % Matrix) + 1]]
<1>3. CarriedIn(loadRound + 1) = {Turn(start)[n] : n \in 1 .. LoadCount}
  <2>1. slice(start, LoadCount) = Turn(start)
    BY <1>2 DEF slice
  <2>2. DOMAIN Turn(start) = 1 .. LoadCount
    OBVIOUS
  <2>3. CarriedIn(loadRound + 1) = {slice(start, LoadCount)[n] : n \in DOMAIN slice(start, LoadCount)}
    BY DEF CarriedIn, LoadCount
  <2> QED BY <2>1, <2>2, <2>3
<1>4. LoadPairs = {Turn(loadCursor)[n] : n \in 1 .. LoadCount}
  <2>1. slice(loadCursor, LoadPerRound) = Turn(loadCursor)
    BY DEF slice, LoadCount
  <2>2. DOMAIN Turn(loadCursor) = 1 .. LoadCount
    OBVIOUS
  <2> QED BY <2>1, <2>2 DEF LoadPairs
<1>5. CASE Matrix = 0
  <2>1. 1 .. LoadCount = {}
    BY <1>1, <1>5
  <2> HIDE DEF Turn, start
  <2> QED BY <1>3, <1>4, <2>1
<1>6. CASE Matrix > 0
  <2>1. (loadRound + 1) - 1 = loadRound
    BY DEF CursorAt
  <2>2. start = loadCursor
    BY <1>6, <2>1 DEF CursorAt
  <2> HIDE DEF Turn, start
  <2> QED BY <1>3, <1>4, <2>2
<1> QED BY <1>1, <1>5, <1>6

LEMMA CursorStep == CursorAt /\ LoadTick => CursorAt'
<1> SUFFICES ASSUME CursorAt, LoadTick PROVE CursorAt'
  OBVIOUS
<1>1. loadRound' = loadRound + 1 /\ loadCursor' = (loadCursor + LoadCount) % Matrix
  BY DEF LoadTick, advanced, LoadCount
<1>2. ASSUME Matrix > 0 PROVE loadCursor' = (loadRound' * LoadCount) % Matrix
  <2>1. LoadCount \in Nat /\ Matrix \in Nat /\ loadRound \in Nat
    BY LoadCountType, MatrixIsNat DEF CursorAt
  <2> DEFINE gone == loadRound * LoadCount
  <2>2. gone \in Nat /\ (loadRound + 1) * LoadCount = gone + LoadCount
    BY <2>1
  <2>3. loadCursor = gone % Matrix
    BY <1>2 DEF CursorAt
  <2> HIDE DEF gone
  <2>4. ((gone % Matrix) + LoadCount) % Matrix = (gone + LoadCount) % Matrix
    BY <1>2, <2>1, <2>2, RemainderOfSum
  <2> QED BY <1>1, <2>2, <2>3, <2>4
<1> QED BY <1>1, <1>2 DEF CursorAt

\* A size past the ceiling is marked as a failure.
LEMMA CeilingFails ==
    ASSUME Counted(loadStandings), LoadTick, size_this_round(loadRound + 1) = Own,
           NEW p \in LoadPairs, Over(p[1], Own)
    PROVE  Marred(loadStandings', p)
<1>1. PICK drops \in Drops, replies \in [LoadPairs -> UNION {Load(q[1]) : q \in LoadPairs}] :
        loadStandings' =
           [q \in DOMAIN loadStandings \cup LoadPairs |->
               IF q \in LoadPairs
               THEN record(Entry(loadStandings, q, NoStanding),
                           carry(q, size_this_round(loadRound + 1), replies[q], drops))
               ELSE Entry(loadStandings, q, NoStanding)]
  BY DEF LoadTick
<1>2. carry(p, size_this_round(loadRound + 1), replies[p], drops) = "fail"
  BY DEF carry
<1>3. p \in DOMAIN loadStandings' /\ loadStandings'[p] = record(Entry(loadStandings, p, NoStanding), "fail")
  BY <1>1, <1>2
<1>4. Entry(loadStandings, p, NoStanding).failures \in Nat
  BY DEF Entry, NoStanding, Counted
<1> QED BY <1>3, <1>4, RecordCounts DEF Marred, Mark

LEMMA CeilingStep ==
    StandInv /\ CursorAt /\ CeilingMarred /\ [ScenarioNext]_scenarioVars
        => CursorAt' /\ CeilingMarred'
<1> SUFFICES ASSUME StandInv, CursorAt, CeilingMarred, [ScenarioNext]_scenarioVars
             PROVE  CursorAt' /\ CeilingMarred'
  OBVIOUS
<1>1. LoadTick \/ UNCHANGED loadVars
  BY DEF ScenarioNext, scenarioVars, RoundTripStep, LowLatencyStep, HeavyLoadStep,
         RetentionStep, FilingStep, StormStep, DailyBacklogStep, EventingStep, ServedStep
<1>2. CASE UNCHANGED loadVars
  BY <1>2 DEF loadVars, CursorAt, CeilingMarred
<1>3. CASE LoadTick
  <2>1. CursorAt'
    BY <1>3, CursorStep
  <2>2. loadRound' = loadRound + 1 /\ loadRound \in Nat
    BY <1>3 DEF LoadTick, CursorAt
  <2>3. \A p : Marred(loadStandings, p) => Marred(loadStandings', p)
    BY <1>3, LoadFolds, FoldedCounts DEF StandInv
  <2>4. ASSUME NEW turn \in 1 .. loadRound + 1, NEW p, MetCeiling(p, turn)
        PROVE  Marred(loadStandings', p)
    <3>1. CASE turn \in 1 .. loadRound
      BY <2>3, <2>4, <3>1 DEF CeilingMarred
    <3>2. CASE turn = loadRound + 1
      BY <1>3, <2>4, <3>2, CarriedNow, CeilingFails DEF MetCeiling, StandInv
    <3> QED BY <2>2, <3>1, <3>2
  <2>5. CeilingMarred'
    BY <2>2, <2>4 DEF CeilingMarred
  <2> QED BY <2>1, <2>5
<1> QED BY <1>1, <1>2, <1>3

\* A pair whose transport cannot hold the load does not read green once it had a
\* turn at the load's own size, whichever sizes its other turns meet and however
\* slices and sizes go round (heavy_load.rs tick, size_this_round, carry).
THEOREM CeilingStaysShown == Spec => []CeilingShows
<1>1. ScenarioInit => CursorAt /\ CeilingMarred
  <2> SUFFICES ASSUME ScenarioInit PROVE CursorAt /\ CeilingMarred
    OBVIOUS
  <2>1. loadRound = 0 /\ loadCursor = 0
    BY DEF ScenarioInit, LoadInit
  <2>2. LoadCount \in Nat /\ 0 * LoadCount = 0
    BY LoadCountType, MatrixIsNat
  <2>3. Matrix > 0 => 0 % Matrix = 0
    BY MatrixIsNat
  <2> QED BY <2>1, <2>2, <2>3 DEF CursorAt, CeilingMarred
<1>2. StandInv /\ CeilingMarred => CeilingShows
  <2> SUFFICES ASSUME StandInv, CeilingMarred,
                      NEW p \in DOMAIN loadStandings, Over(p[1], Own),
                      NEW r \in 1 .. loadRound, p \in CarriedIn(r), size_this_round(r) = Own
               PROVE  health(loadStandings[p]) # "fine"
    BY DEF CeilingShows
  <2>1. Marred(loadStandings, p)
    BY DEF CeilingMarred, MetCeiling
  <2>2. loadStandings[p].failures \in Nat
    BY DEF StandInv, Counted
  <2> QED BY <2>1, <2>2 DEF Marred, health
<1> QED BY <1>1, <1>2, StandFirst, StandStep, CeilingStep, PTL DEF Spec
=============================================================================
