----------------------------- MODULE RelayProofs -----------------------------
(***************************************************************************)
(* Type correctness of Relay, that a message is sent once unless it was    *)
(* held, and, where receivers are not started again, that a message is     *)
(* accounted for and leaves its queue only for the way out: for any        *)
(* roster, pairs, Subscriptions, rounds and restarts.                      *)
(*                                                                         *)
(* The argument: a message is new when it arrives, since a process counts  *)
(* its rounds and no two processes are one, and from then on it is in one  *)
(* place; only a queue keeps what it hands on.  A delivery replaces a file *)
(* of the same name, which is a file of the same message as long as a      *)
(* round and a pair name one: that is what fails when a receiver counts    *)
(* its rounds anew.                                                        *)
(***************************************************************************)
EXTENDS Relay, FiniteSetTheorems, SequenceTheorems, TLAPS

\* A stage holds messages in memory only while it claims and judges.
HandWhenBusy == \A r \in Relays : pc[r] \notin {"claim", "judge"} => hand[r] = {}

\* What is anywhere arrived there once.
AllArrived ==
    /\ sent \subseteq arrived
    /\ \A r \in Relays : hand[r] \subseteq arrived /\ \A f \in inbox[r] : f.msg \in arrived

\* A message came in with a round a process of its receiver has run, of a pair
\* that is its receiver's.
ArrivedPast ==
    /\ \A n \in Node : life[n] >= 1
    /\ \A m \in arrived :
          /\ m.by[1] \in Receivers /\ \E i \in DOMAIN Share[m.by[1]] : m.pair = Share[m.by[1]][i]
          /\ m.by[2] >= 1 /\ m.by[2] <= life[m.by[1]]
          /\ m.by[2] = life[m.by[1]] => m.round <= round[m.by[1]]

\* Only what a Subscription held is in its queue, let go of, or handed on.
OnlyHeld == \A n \in Node :
    queue[n] \cup go[n] \cup picked[n] \cup handed[n] \subseteq held \cap arrived

\* A message no Subscription held is in one place: in one hand, in one file of
\* one inbox, or sent.
InOnePlace ==
    /\ \A r \in Relays : \A m \in hand[r] \ held :
          /\ m \notin sent
          /\ \A q \in Relays : (m \in hand[q] => q = r) /\ \A f \in inbox[q] : f.msg # m
    /\ \A r \in Relays : \A f \in inbox[r] : f.msg \notin held =>
          /\ f.msg \notin sent
          /\ \A q \in Relays : \A g \in inbox[q] : g.msg = f.msg => q = r /\ g = f

RInv ==
    /\ TypeOK /\ HandWhenBusy /\ AllArrived /\ ArrivedPast
    /\ OnlyHeld /\ InOnePlace /\ SentOnce

\* The receivers run as the processes they were started as, so a round and a
\* pair name one message.
ReceiversStay == \A n \in Receivers : n \notin Restartable
OneReceived   == \A n \in Receivers : life[n] = 1

\* A message handed on and not yet released from its queue is on its way out.
GoneOut(m) ==
    \/ \E r \in Relays : /\ r[2] = "send"
                         /\ m \in hand[r] \cup dropped[r] \/ \E f \in inbox[r] : f.msg = m
    \/ m \in sent \cup failed \cup lost

HandedIsOut == \A n \in Node : \A m \in handed[n] : GoneOut(m)

OnItsWay(m) ==
    \/ InHand(m) \/ Waiting(m) \/ Kept(m)
    \/ m \in sent \cup failed \cup lost \/ \E r \in Relays : m \in dropped[r]

AllOnTheirWay == \A m \in arrived : OnItsWay(m)

PathInv == OneReceived /\ HandedIsOut /\ AllOnTheirWay

\* A name is one file's, so that each one dropped is counted.
OneOfAName == \A r \in Relays : \A f, g \in inbox[r] : SameName(f, g) => f = g
AllCounted == \A r \in Relays : /\ IsFiniteSet(dropped[r])
                                /\ Cardinality(dropped[r]) <= unreadable[r]

CountInv == OneOfAName /\ AllCounted

-----------------------------------------------------------------------------
(* Facts about the operators. *)

\* A remainder is below what it is the remainder by.
LEMMA Remainder == \A a \in Nat, b \in Nat \ {0} : a % b \in Nat /\ a % b < b
OBVIOUS

LEMMA ShareParts ==
    \A n \in Receivers :
      /\ n \in Node /\ <<n, "receive">> \in Relays
      /\ Len(Share[n]) \in Nat \ {0} /\ DOMAIN Share[n] = 1 .. Len(Share[n])
      /\ \A i \in 1 .. Len(Share[n]) : Share[n][i] \in Pair
<1> SUFFICES ASSUME NEW n \in Receivers
             PROVE  /\ n \in Node /\ <<n, "receive">> \in Relays
                    /\ Len(Share[n]) \in Nat \ {0} /\ DOMAIN Share[n] = 1 .. Len(Share[n])
                    /\ \A i \in 1 .. Len(Share[n]) : Share[n][i] \in Pair
  OBVIOUS
<1>1. n \in Node /\ <<n, "receive">> \in Relays
  BY DEF Receivers, Relays, Stage
<1>2. Share[n] \in Seq(Pair) /\ Share[n] # <<>>
  BY RosterAssumption
<1>3. Len(Share[n]) \in Nat \ {0}
  BY <1>2, EmptySeq
<1> QED BY <1>1, <1>2, <1>3

LEMMA RelayParts ==
    \A r \in Relays : /\ r[1] \in Node /\ r[2] \in Stage /\ r = <<r[1], r[2]>>
                      /\ r[2] \in Serves[r[1]]
BY DEF Relays

\* The pairs of a round are of the receiver's share.
LEMMA SliceIsShare ==
    ASSUME NEW n \in Receivers, cursor[n] \in Nat
    PROVE  /\ \A p \in Slice(n) : p \in Pair /\ \E i \in DOMAIN Share[n] : p = Share[n][i]
           /\ Cardinality(Slice(n)) \in Nat
<1> DEFINE len == Len(Share[n])
<1>1. \A i \in Nat : ((cursor[n] + i) % len) + 1 \in 1 .. len
  <2> SUFFICES ASSUME NEW i \in Nat PROVE ((cursor[n] + i) % len) + 1 \in 1 .. len
    OBVIOUS
  <2>1. len \in Nat \ {0}
    BY ShareParts
  <2> HIDE DEF len
  <2>2. cursor[n] + i \in Nat
    OBVIOUS
  <2>3. (cursor[n] + i) % len \in Nat /\ (cursor[n] + i) % len < len
    BY <2>1, <2>2, Remainder
  <2> QED BY <2>1, <2>3
<1>2. \A p \in Slice(n) : \E i \in 1 .. len : p = Share[n][i]
  <2> SUFFICES ASSUME NEW p \in Slice(n) PROVE \E i \in 1 .. len : p = Share[n][i]
    OBVIOUS
  <2>1. PICK i \in Nat : p = Share[n][((cursor[n] + i) % len) + 1]
    BY ShareParts, RosterAssumption DEF Slice
  <2> QED BY <1>1, <2>1
<1>3. \A p \in Slice(n) : p \in Pair /\ \E i \in DOMAIN Share[n] : p = Share[n][i]
  BY <1>2, ShareParts
<1>4. IsFiniteSet(Slice(n))
  BY <1>3, RosterAssumption, FS_Subset
<1> QED BY <1>3, <1>4, FS_CardinalityType

\* A message is handed on into an inbox of the next stage, where it replaces
\* at most what has its name.
DeliveredTo(m, s) ==
    \E to \in Relays, f \in File :
       /\ to[2] = s /\ f.msg = m /\ f \in inbox'[to]
       /\ \A q \in Relays : q # to => inbox'[q] = inbox[q]
       /\ \A g \in inbox'[to] : g = f \/ (g \in inbox[to] /\ ~SameName(f, g))
       /\ \A g \in inbox[to] : g \in inbox'[to] \/ SameName(f, g)

LEMMA HandOnTo ==
    ASSUME TypeOK, NEW r \in Relays, r[2] # "send", NEW m \in Message, HandOn(r, m)
    PROVE  /\ sequence' \in [Relays -> Nat] /\ inbox' \in [Relays -> SUBSET File]
           /\ DeliveredTo(m, NextStage(r[2]))
<1> DEFINE to == <<Target(r[1], NextStage(r[2]), m.pair), NextStage(r[2])>>
           f  == [msg |-> m, from |-> r[1], seq |-> sequence[r] + 1]
<1>1. sequence' = [sequence EXCEPT ![r] = @ + 1] /\ inbox' = [inbox EXCEPT ![to] = Delivered(@, f)]
  BY DEF HandOn
<1>2. r[1] \in Node /\ m.pair \in Pair /\ sequence[r] \in Nat
  BY RelayParts DEF Message, TypeOK
<1>3. to \in Relays /\ to[2] = NextStage(r[2])
  <2>1. NextStage(r[2]) \in {"process", "send"}
    BY DEF NextStage
  <2>2. Target(r[1], NextStage(r[2]), m.pair) \in Node
    BY <1>2, <2>1, RosterAssumption DEF Target
  <2>3. NextStage(r[2]) \in Serves[Target(r[1], NextStage(r[2]), m.pair)]
    BY <1>2, <2>1, RosterAssumption DEF Target, Stage
  <2> QED BY <2>1, <2>2, <2>3 DEF Relays, Stage
<1>4. f \in File /\ f.msg = m
  BY <1>2 DEF File
<1> HIDE DEF to, f
<1>5. inbox' \in [Relays -> SUBSET File] /\ inbox'[to] = Delivered(inbox[to], f)
      /\ \A q \in Relays : q # to => inbox'[q] = inbox[q]
  <2>1. Delivered(inbox[to], f) \in SUBSET File
    BY <1>3, <1>4 DEF Delivered, TypeOK
  <2> QED BY <1>1, <1>3, <2>1 DEF TypeOK
<1>6. /\ f \in inbox'[to]
      /\ \A g \in inbox'[to] : g = f \/ (g \in inbox[to] /\ ~SameName(f, g))
      /\ \A g \in inbox[to] : g \in inbox'[to] \/ SameName(f, g)
  BY <1>5 DEF Delivered
<1>7. sequence' \in [Relays -> Nat]
  BY <1>1, <1>2 DEF TypeOK
<1> QED BY <1>3, <1>4, <1>5, <1>6, <1>7 DEF DeliveredTo

LEMMA RelayInit == Init => RInv
<1> SUFFICES ASSUME Init PROVE RInv OBVIOUS
<1> USE DEF Init
<1>1. TypeOK
  <2>1. \A n \in Receivers : cursor[n] < Len(Share[n])
    <3> SUFFICES ASSUME NEW n \in Receivers PROVE cursor[n] < Len(Share[n])
      OBVIOUS
    <3>1. n \in Node /\ Len(Share[n]) \in Nat \ {0}
      BY ShareParts
    <3>2. cursor[n] = 0
      BY <3>1
    <3> HIDE DEF Init
    <3> QED BY <3>1, <3>2
  <2> QED BY <2>1 DEF TypeOK
<1>2. HandWhenBusy /\ AllArrived /\ ArrivedPast
  BY DEF HandWhenBusy, AllArrived, ArrivedPast
<1>3. OnlyHeld /\ InOnePlace /\ SentOnce
  BY DEF OnlyHeld, InOnePlace, SentOnce
<1> QED BY <1>1, <1>2, <1>3 DEF RInv

-----------------------------------------------------------------------------
(* Each action preserves it. *)

\* What arrives is new: its process has not run the round before.
LEMMA ReceiveInv == ASSUME RInv, NEW n \in Receivers, Receive(n) PROVE RInv'
<1> DEFINE r == <<n, "receive">>
<1> USE DEF RInv
<1>0. /\ n \in Node /\ r \in Relays /\ pc[r] = "idle" /\ hand[r] = {}
      /\ cursor[n] \in Nat /\ round[n] \in Nat /\ life[n] \in Nat
  BY ShareParts DEF Receive, HandWhenBusy, TypeOK
<1>1. /\ UNCHANGED <<life, sequence, list, inbox, subscribed, paused, queue, go, picked, handed,
                     orders, sent, resent, failed, lost, held, unreadable, dropped>>
      /\ round' = [round EXCEPT ![n] = @ + 1]
      /\ cursor' = [cursor EXCEPT ![n] = Advanced(n, Cardinality(Slice(n)))]
      /\ pc' = [pc EXCEPT ![r] = "judge"]
  BY DEF Receive, subVars
<1>2. PICK whole \in SUBSET Slice(n) :
        /\ hand' = [hand EXCEPT ![r] =
                      [pair: whole, round: {round[n] + 1}, by: {<<n, life[n]>>}]]
        /\ arrived' = arrived \cup [pair: whole, round: {round[n] + 1}, by: {<<n, life[n]>>}]
  BY DEF Receive
<1> DEFINE took == [pair: whole, round: {round[n] + 1}, by: {<<n, life[n]>>}]
<1>3. /\ took \subseteq Message
      /\ \A m \in took : /\ m.by = <<n, life[n]>> /\ m.by[1] = n /\ m.by[2] = life[n]
                         /\ m.round = round[n] + 1
                         /\ \E i \in DOMAIN Share[n] : m.pair = Share[n][i]
  <2>1. whole \subseteq Pair /\ \A p \in whole : \E i \in DOMAIN Share[n] : p = Share[n][i]
    BY <1>0, SliceIsShare
  <2> QED BY <1>0, <2>1 DEF Message
<1>4. \A m \in took : m \notin arrived
  BY <1>0, <1>3 DEF ArrivedPast
<1> HIDE DEF took
<1>5. hand' = [hand EXCEPT ![r] = took] /\ arrived' = arrived \cup took
  BY <1>2 DEF took
<1>6. \A q \in Relays : hand'[q] = IF q = r THEN took ELSE hand[q]
  BY <1>0, <1>5 DEF TypeOK
<1>7. TypeOK'
  <2>1. cursor' \in [Node -> Nat] /\ \A k \in Receivers : cursor'[k] < Len(Share[k])
    <3>1. cursor[n] + Cardinality(Slice(n)) \in Nat
      BY <1>0, SliceIsShare
    <3>2. /\ Advanced(n, Cardinality(Slice(n))) \in Nat
          /\ Advanced(n, Cardinality(Slice(n))) < Len(Share[n])
      BY <3>1, ShareParts, Remainder DEF Advanced
    <3> QED BY <1>0, <1>1, <3>2, ShareParts DEF TypeOK
  <2>2. hand' \in [Relays -> SUBSET Message] /\ arrived' \subseteq Message
    BY <1>0, <1>3, <1>5 DEF TypeOK
  <2>3. round' \in [Node -> Nat] /\ pc' \in [Relays -> {"idle", "claim", "judge", "release", "done"}]
    BY <1>0, <1>1 DEF TypeOK
  <2> QED BY <1>1, <2>1, <2>2, <2>3 DEF TypeOK
<1>8. HandWhenBusy' /\ AllArrived'
  BY <1>0, <1>1, <1>5, <1>6 DEF HandWhenBusy, AllArrived, TypeOK
<1>9. ArrivedPast'
  <2>1. \A k \in Node : round'[k] = IF k = n THEN round[n] + 1 ELSE round[k]
    BY <1>1 DEF TypeOK
  <2> SUFFICES ASSUME NEW m \in arrived'
               PROVE  /\ m.by[1] \in Receivers
                      /\ \E i \in DOMAIN Share[m.by[1]] : m.pair = Share[m.by[1]][i]
                      /\ m.by[2] >= 1 /\ m.by[2] <= life[m.by[1]]
                      /\ m.by[2] = life[m.by[1]] => m.round <= round'[m.by[1]]
    BY <1>1 DEF ArrivedPast
  <2>2. CASE m \in took
    BY <1>0, <1>3, <2>1, <2>2 DEF ArrivedPast
  <2>3. CASE m \in arrived
    <3>1. /\ m.by[1] \in Receivers /\ m.by[1] \in Node /\ m.round \in Nat
          /\ round[m.by[1]] \in Nat
      BY <2>3, ShareParts DEF ArrivedPast, TypeOK, Message
    <3> QED BY <2>1, <2>3, <3>1 DEF ArrivedPast
  <2> QED BY <1>5, <2>2, <2>3
<1>10. OnlyHeld' /\ SentOnce'
  BY <1>1, <1>5 DEF OnlyHeld, SentOnce
<1>11. InOnePlace'
  BY <1>1, <1>4, <1>6 DEF InOnePlace, AllArrived
<1> QED BY <1>7, <1>8, <1>9, <1>10, <1>11

\* Steps that move no message.
LEMMA StillInv ==
    ASSUME RInv, \/ \E r \in Relays : Drain(r) \/ ClaimEnds(r) \/ JudgeEnds(r)
                 \/ \E n \in Node : "process" \in Serves[n] /\ ReleaseEnds(n)
                 \/ \E n \in Node, u \in Subscription : Pause(n, u) \/ Resume(n, u)
    PROVE  RInv'
<1> USE DEF RInv, subVars, relayVars, saidVars
<1>0. UNCHANGED <<life, round, cursor, sequence, hand, inbox, subscribed, queue, handed, arrived, sent,
                  resent, failed, lost, held, unreadable, dropped>>
  BY DEF Drain, ClaimEnds, JudgeEnds, Pick, ReleaseEnds, Pause, Resume
<1>1. /\ pc' \in [Relays -> {"idle", "claim", "judge", "release", "done"}]
      /\ \A r \in Relays : pc'[r] \notin {"claim", "judge"} => hand[r] = {}
  <2>1. CASE \E r \in Relays : Drain(r) \/ ClaimEnds(r) \/ JudgeEnds(r)
    <3>1. PICK r \in Relays : Drain(r) \/ ClaimEnds(r) \/ JudgeEnds(r)
      BY <2>1
    <3>2. CASE Drain(r)
      BY <3>2 DEF Drain, HandWhenBusy, TypeOK
    <3>3. CASE ClaimEnds(r)
      BY <3>3 DEF ClaimEnds, HandWhenBusy, TypeOK
    <3>4. CASE JudgeEnds(r)
      <4>1. hand[r] = {} /\ (pc' = [pc EXCEPT ![r] = "release"] \/ pc' = [pc EXCEPT ![r] = "idle"])
        BY <3>4 DEF JudgeEnds
      <4> QED BY <4>1 DEF HandWhenBusy, TypeOK
    <3> QED BY <3>1, <3>2, <3>3, <3>4
  <2>2. CASE \E n \in Node : "process" \in Serves[n] /\ ReleaseEnds(n)
    <3>1. PICK n \in Node : "process" \in Serves[n] /\ ReleaseEnds(n)
      BY <2>2
    <3>2. <<n, "process">> \in Relays
      BY <3>1 DEF Relays, Stage
    <3> QED BY <3>1, <3>2 DEF ReleaseEnds, HandWhenBusy, TypeOK
  <2>3. CASE \E n \in Node, u \in Subscription : Pause(n, u) \/ Resume(n, u)
    BY <2>3 DEF Pause, Resume, HandWhenBusy, TypeOK
  <2> QED BY <2>1, <2>2, <2>3
<1>2. /\ paused' \in [Node -> SUBSET Subscription]
      /\ go' \in [Node -> SUBSET Message] /\ picked' \in [Node -> SUBSET Message]
      /\ \A n \in Node : go'[n] \subseteq go[n] \cup queue[n] /\ picked'[n] \subseteq picked[n] \cup go[n]
  <2>1. CASE \E r \in Relays : Drain(r) \/ ClaimEnds(r)
    BY <2>1 DEF Drain, ClaimEnds, TypeOK
  <2>2. CASE \E r \in Relays : JudgeEnds(r)
    <3>1. PICK r \in Relays : JudgeEnds(r)
      BY <2>2
    <3> DEFINE n0 == r[1]
    <3>2. UNCHANGED paused /\ n0 \in Node
      BY <3>1, RelayParts DEF JudgeEnds
    <3>3. \/ UNCHANGED <<picked, go>>
          \/ \E read \in SUBSET go[n0], over \in SUBSET go[n0] :
                picked' = [picked EXCEPT ![n0] = read] /\ go' = [go EXCEPT ![n0] = @ \ over]
      <4>1. CASE UNCHANGED <<picked, go>>
        BY <4>1
      <4>2. CASE ~ UNCHANGED <<picked, go>>
        <5>1. PICK read \in SUBSET go[n0] : \E over \in SUBSET go[n0] : Pick(n0, read, over)
          BY <3>1, <4>2 DEF JudgeEnds
        <5> QED BY <5>1 DEF Pick
      <4> QED BY <4>1, <4>2
    <3> HIDE DEF n0
    <3>4. CASE UNCHANGED <<picked, go>>
      BY <3>2, <3>4 DEF TypeOK
    <3>5. CASE \E read \in SUBSET go[n0], over \in SUBSET go[n0] :
                  picked' = [picked EXCEPT ![n0] = read] /\ go' = [go EXCEPT ![n0] = @ \ over]
      <4>1. PICK read \in SUBSET go[n0], over \in SUBSET go[n0] :
                  picked' = [picked EXCEPT ![n0] = read] /\ go' = [go EXCEPT ![n0] = @ \ over]
        BY <3>5
      <4> QED BY <3>2, <4>1 DEF TypeOK
    <3> QED BY <3>3, <3>4, <3>5
  <2>3. CASE \E n \in Node : "process" \in Serves[n] /\ ReleaseEnds(n)
    BY <2>3 DEF ReleaseEnds, TypeOK
  <2>4. CASE \E n \in Node, u \in Subscription : Pause(n, u) \/ Resume(n, u)
    <3>1. PICK n \in Node, u \in Subscription : Pause(n, u) \/ Resume(n, u)
      BY <2>4
    <3>2. CASE Pause(n, u)
      BY <3>2 DEF Pause, TypeOK
    <3>3. CASE Resume(n, u)
      <4>1. /\ paused' = [paused EXCEPT ![n] = @ \ {u}] /\ picked' = picked
            /\ go' = [go EXCEPT ![n] = @ \cup {m \in queue[n] : SubOf[m.pair] = u}]
        BY <3>3 DEF Resume
      <4>2. \A k \in Node : go'[k] \subseteq go[k] \cup queue[k]
        BY <4>1 DEF TypeOK
      <4>3. go' \in [Node -> SUBSET Message]
        BY <4>1 DEF TypeOK
      <4> QED BY <4>1, <4>2, <4>3 DEF TypeOK
    <3> QED BY <3>1, <3>2, <3>3
  <2> QED BY <2>1, <2>2, <2>3, <2>4
<1>3. TypeOK'
  BY <1>0, <1>1, <1>2 DEF TypeOK
<1>4. HandWhenBusy' /\ AllArrived' /\ ArrivedPast'
  BY <1>0, <1>1 DEF HandWhenBusy, AllArrived, ArrivedPast
<1>5. OnlyHeld'
  BY <1>0, <1>2 DEF OnlyHeld
<1>6. InOnePlace' /\ SentOnce'
  BY <1>0 DEF InOnePlace, SentOnce
<1> QED BY <1>3, <1>4, <1>5, <1>6

\* A message leaves the hand of one stage.
LEMMA LeavesHand ==
    ASSUME TypeOK, NEW r \in Relays, NEW m, hand' = [hand EXCEPT ![r] = @ \ {m}]
    PROVE  /\ hand' \in [Relays -> SUBSET Message]
           /\ \A q \in Relays : hand'[q] = IF q = r THEN hand[r] \ {m} ELSE hand[q]
BY DEF TypeOK

\* A claim moves the file of a name into the hand.
LEMMA ClaimInv == ASSUME RInv, NEW r \in Relays, Claim(r) PROVE RInv'
<1> USE DEF RInv
<1>0. /\ UNCHANGED <<life, round, cursor, sequence, pc, subscribed, paused, queue, go, picked,
                     handed, orders, arrived, sent, resent, failed, lost, held, unreadable, dropped>>
      /\ pc[r] = "claim"
  BY DEF Claim, subVars, saidVars
<1>1. PICK f : /\ hand'  = [hand EXCEPT ![r] = @ \cup {g.msg : g \in {h \in inbox[r] : SameName(f, h)}}]
               /\ inbox' = [inbox EXCEPT ![r] = Claimed(@, f)]
  BY DEF Claim
<1> DEFINE took == {g.msg : g \in {h \in inbox[r] : SameName(f, h)}}
           left == Claimed(inbox[r], f)
<1>2. /\ left \subseteq inbox[r]
      /\ \A m \in took : \E g \in inbox[r] : g.msg = m /\ g \notin left
      /\ took \subseteq Message
  <2>1. inbox[r] \subseteq File
    BY DEF TypeOK
  <2> QED BY <2>1 DEF Claimed, File
<1>3. hand' = [hand EXCEPT ![r] = hand[r] \cup took] /\ inbox' = [inbox EXCEPT ![r] = left]
  BY <1>1
<1> HIDE DEF took, left
<1>4. /\ hand' \in [Relays -> SUBSET Message] /\ inbox' \in [Relays -> SUBSET File]
      /\ \A q \in Relays : /\ hand'[q] = IF q = r THEN hand[r] \cup took ELSE hand[q]
                           /\ inbox'[q] = IF q = r THEN left ELSE inbox[q]
  BY <1>2, <1>3 DEF TypeOK
<1>5. TypeOK'
  BY <1>0, <1>4 DEF TypeOK
<1>6. HandWhenBusy' /\ ArrivedPast' /\ OnlyHeld' /\ SentOnce'
  BY <1>0, <1>4 DEF HandWhenBusy, ArrivedPast, OnlyHeld, SentOnce
<1>7. AllArrived'
  BY <1>0, <1>2, <1>4 DEF AllArrived
<1>8. InOnePlace'
  <2>1. ASSUME NEW q \in Relays, NEW m \in hand'[q], m \notin held
        PROVE  /\ m \notin sent
               /\ \A p \in Relays : (m \in hand'[p] => p = q) /\ \A g \in inbox'[p] : g.msg # m
    <3>1. CASE m \in hand[q]
      BY <1>2, <1>4, <2>1, <3>1 DEF InOnePlace
    <3>2. CASE q = r /\ m \in took
      <4>1. PICK g \in inbox[r] : g.msg = m /\ g \notin left
        BY <1>2, <3>2
      <4>2. m \notin sent /\ \A p \in Relays : \A h \in inbox[p] : h.msg = m => p = r /\ h = g
        BY <2>1, <4>1 DEF InOnePlace
      <4>3. \A p \in Relays : m \notin hand[p]
        BY <2>1, <4>1 DEF InOnePlace
      <4> QED BY <1>2, <1>4, <3>2, <4>1, <4>2, <4>3
    <3> QED BY <1>4, <2>1, <3>1, <3>2
  <2>2. ASSUME NEW q \in Relays, NEW g \in inbox'[q], g.msg \notin held
        PROVE  /\ g.msg \notin sent
               /\ \A p \in Relays : \A h \in inbox'[p] : h.msg = g.msg => p = q /\ h = g
    BY <1>2, <1>4, <2>2 DEF InOnePlace
  <2> QED BY <1>0, <2>1, <2>2 DEF InOnePlace
<1> QED BY <1>5, <1>6, <1>7, <1>8

\* A file that does not read back only leaves its inbox.
LEMMA UnreadableInv == ASSUME RInv, NEW r \in Relays, ClaimUnreadable(r) PROVE RInv'
<1> USE DEF RInv
<1>0. /\ UNCHANGED <<life, round, cursor, sequence, pc, hand, subscribed, paused, queue, go, picked,
                     handed, orders, arrived, sent, resent, failed, lost, held>>
      /\ unreadable' = [unreadable EXCEPT ![r] = @ + 1]
  BY DEF ClaimUnreadable, subVars
<1>1. PICK f : /\ inbox'   = [inbox EXCEPT ![r] = Claimed(@, f)]
               /\ dropped' = [dropped EXCEPT ![r] = @ \cup {g.msg : g \in {h \in inbox[r] : SameName(f, h)}}]
  BY DEF ClaimUnreadable
<1> DEFINE took == {g.msg : g \in {h \in inbox[r] : SameName(f, h)}}
           left == Claimed(inbox[r], f)
<1>2. left \subseteq inbox[r] /\ took \subseteq Message
  <2>1. inbox[r] \subseteq File
    BY DEF TypeOK
  <2> QED BY <2>1 DEF Claimed, File
<1>3. dropped' = [dropped EXCEPT ![r] = dropped[r] \cup took] /\ inbox' = [inbox EXCEPT ![r] = left]
  BY <1>1
<1> HIDE DEF took, left
<1>4. /\ dropped' \in [Relays -> SUBSET Message] /\ inbox' \in [Relays -> SUBSET File]
      /\ unreadable' \in [Relays -> Nat]
      /\ \A q \in Relays : inbox'[q] \subseteq inbox[q]
  BY <1>0, <1>2, <1>3 DEF TypeOK
<1>5. TypeOK'
  BY <1>0, <1>4 DEF TypeOK
<1>6. HandWhenBusy' /\ ArrivedPast' /\ OnlyHeld' /\ SentOnce'
  BY <1>0 DEF HandWhenBusy, ArrivedPast, OnlyHeld, SentOnce
<1>7. AllArrived' /\ InOnePlace'
  BY <1>0, <1>4 DEF AllArrived, InOnePlace
<1> QED BY <1>5, <1>6, <1>7

\* A verdict closes a message: it failed, was sent out, or is held.
LEMMA JudgedInv ==
    ASSUME RInv, NEW r \in Relays, Fails(r) \/ Send(r) \/ Hold(r)
    PROVE  RInv'
<1> USE DEF RInv
<1>0. /\ UNCHANGED <<life, round, cursor, pc, list, inbox, subscribed, paused, go, picked, handed,
                     orders, arrived, lost, unreadable, dropped>>
      /\ pc[r] = "judge" /\ r[1] \in Node
  BY RelayParts DEF Fails, Send, Hold, subVars, saidVars
<1>1. PICK m \in hand[r] :
        /\ hand' = [hand EXCEPT ![r] = @ \ {m}]
        /\ \/ UNCHANGED <<queue, held, sent, resent>>
           \/ /\ UNCHANGED <<queue, held>>
              /\ sent' = sent \cup {m}
              /\ resent' = IF m \in sent THEN resent \cup {m} ELSE resent
           \/ /\ UNCHANGED <<sent, resent>>
              /\ queue' = [queue EXCEPT ![r[1]] = @ \cup {m}] /\ held' = held \cup {m}
  <2>1. CASE Fails(r)
    BY <2>1 DEF Fails, subVars
  <2>2. CASE Send(r)
    BY <2>2 DEF Send, subVars
  <2>3. CASE Hold(r)
    BY <2>3 DEF Hold
  <2> QED BY <2>1, <2>2, <2>3
<1>2. /\ hand' \in [Relays -> SUBSET Message]
      /\ \A q \in Relays : hand'[q] = IF q = r THEN hand[r] \ {m} ELSE hand[q]
  BY <1>1, LeavesHand
<1>3. m \in Message /\ m \in arrived
  BY DEF AllArrived, TypeOK
<1>4. sequence' \in [Relays -> Nat]
  <2>1. CASE Fails(r)
    <3>1. PICK tried \in {0, 1} : sequence' = [sequence EXCEPT ![r] = @ + tried]
      BY <2>1 DEF Fails
    <3> QED BY <3>1 DEF TypeOK
  <2>2. CASE Send(r) \/ Hold(r)
    BY <2>2 DEF Send, Hold, TypeOK
  <2> QED BY <2>1, <2>2
<1>5. /\ queue' \in [Node -> SUBSET Message] /\ held \subseteq held'
      /\ \A n \in Node : queue'[n] \subseteq queue[n] \cup (held' \cap {m})
  <2>1. CASE queue' = queue
    BY <1>1, <2>1 DEF TypeOK
  <2>2. CASE queue' = [queue EXCEPT ![r[1]] = @ \cup {m}] /\ held' = held \cup {m}
    <3> DEFINE n0 == r[1]
    <3>1. n0 \in Node /\ queue' = [queue EXCEPT ![n0] = queue[n0] \cup {m}]
      BY <1>0, <2>2
    <3> HIDE DEF n0
    <3>2. queue \in [Node -> SUBSET Message] /\ queue[n0] \cup {m} \in SUBSET Message
      BY <1>3, <3>1 DEF TypeOK
    <3>3. queue' \in [Node -> SUBSET Message]
      BY <3>1, <3>2
    <3>4. \A n \in Node : queue'[n] \subseteq queue[n] \cup {m}
      BY <3>1, <3>2
    <3> QED BY <2>2, <3>3, <3>4
  <2> QED BY <1>1, <2>1, <2>2
<1>6. TypeOK'
  BY <1>0, <1>2, <1>4, <1>5 DEF TypeOK
<1>7. HandWhenBusy' /\ ArrivedPast'
  BY <1>0, <1>2 DEF HandWhenBusy, ArrivedPast
<1>8. AllArrived'
  BY <1>0, <1>1, <1>2, <1>3 DEF AllArrived
<1>9. OnlyHeld'
  BY <1>0, <1>3, <1>5 DEF OnlyHeld
<1>10. SentOnce'
  BY <1>1 DEF SentOnce, InOnePlace
<1>11. InOnePlace'
  <2>1. sent' \subseteq sent \cup {m}
    BY <1>1
  <2>2. ASSUME NEW q \in Relays, NEW x \in hand'[q], x \notin held'
        PROVE  /\ x \notin sent'
               /\ \A p \in Relays : (x \in hand'[p] => p = q) /\ \A g \in inbox[p] : g.msg # x
    <3>1. x \in hand[q] /\ x \notin held
      BY <1>2, <1>5, <2>2
    <3>2. x # m
      BY <1>2, <2>2, <3>1 DEF InOnePlace
    <3> QED BY <1>2, <2>1, <3>1, <3>2 DEF InOnePlace
  <2>3. ASSUME NEW q \in Relays, NEW g \in inbox[q], g.msg \notin held'
        PROVE  /\ g.msg \notin sent'
               /\ \A p \in Relays : \A h \in inbox[p] : h.msg = g.msg => p = q /\ h = g
    <3>1. g.msg \notin held
      BY <1>5, <2>3
    <3>2. g.msg # m
      BY <3>1 DEF InOnePlace
    <3> QED BY <2>1, <3>1, <3>2 DEF InOnePlace
  <2> QED BY <1>0, <2>2, <2>3 DEF InOnePlace
<1> QED BY <1>6, <1>7, <1>8, <1>9, <1>10, <1>11

\* What is handed on leaves the hand for one file, or was held.
LEMMA HandedOnPlace ==
    ASSUME RInv, NEW r \in Relays, NEW m \in arrived, NEW to \in Relays, NEW f,
           \/ m \in held /\ hand' = hand
           \/ m \in hand[r] /\ hand' = [hand EXCEPT ![r] = @ \ {m}],
           f.msg = m, held' = held, sent' = sent, arrived' = arrived,
           \A q \in Relays : q # to => inbox'[q] = inbox[q],
           \A g \in inbox'[to] : g = f \/ g \in inbox[to]
    PROVE  AllArrived' /\ InOnePlace'
<1> USE DEF RInv
<1>1. \A q \in Relays : /\ hand'[q] \subseteq hand[q]
                        /\ m \notin held => (m \notin hand'[q] /\ \A g \in inbox[q] : g.msg # m)
  <2>1. CASE m \in held /\ hand' = hand
    BY <2>1
  <2>2. CASE m \in hand[r] /\ hand' = [hand EXCEPT ![r] = @ \ {m}]
    <3>1. \A q \in Relays : hand'[q] = IF q = r THEN hand[r] \ {m} ELSE hand[q]
      BY <2>2, LeavesHand
    <3> QED BY <2>2, <3>1 DEF InOnePlace
  <2> QED BY <2>1, <2>2
<1>2. m \notin held => m \notin sent
  BY DEF InOnePlace
<1>3. AllArrived'
  BY <1>1 DEF AllArrived
<1>4. ASSUME NEW q \in Relays, NEW x \in hand'[q], x \notin held
      PROVE  /\ x \notin sent
             /\ \A p \in Relays : (x \in hand'[p] => p = q) /\ \A g \in inbox'[p] : g.msg # x
  <2>1. x # m /\ x \in hand[q]
    BY <1>1, <1>4
  <2> QED BY <1>1, <1>4, <2>1 DEF InOnePlace
<1>5. ASSUME NEW q \in Relays, NEW g \in inbox'[q], g.msg \notin held
      PROVE  /\ g.msg \notin sent
             /\ \A p \in Relays : \A h \in inbox'[p] : h.msg = g.msg => p = q /\ h = g
  <2>1. CASE g.msg = m
    BY <1>1, <1>2, <1>5, <2>1
  <2>2. CASE g.msg # m
    BY <1>1, <1>5, <2>2 DEF InOnePlace
  <2> QED BY <2>1, <2>2
<1> QED BY <1>3, <1>4, <1>5 DEF InOnePlace

LEMMA PassOnInv == ASSUME RInv, NEW r \in Relays, PassOn(r) PROVE RInv'
<1> USE DEF RInv
<1>0. /\ UNCHANGED <<life, round, cursor, pc, list, subscribed, paused, queue, go, picked, handed,
                     orders, arrived, sent, resent, failed, lost, held, unreadable, dropped>>
      /\ r[2] # "send" /\ pc[r] = "judge"
  BY DEF PassOn, subVars, saidVars
<1>1. PICK m \in hand[r] : HandOn(r, m) /\ hand' = [hand EXCEPT ![r] = @ \ {m}]
  BY DEF PassOn
<1>2. m \in Message /\ m \in arrived
  BY DEF AllArrived, TypeOK
<1>3. /\ sequence' \in [Relays -> Nat] /\ inbox' \in [Relays -> SUBSET File]
      /\ DeliveredTo(m, NextStage(r[2]))
  BY <1>0, <1>1, <1>2, HandOnTo
<1>4. AllArrived' /\ InOnePlace'
  <2>1. PICK to \in Relays, f \in File :
          /\ f.msg = m
          /\ \A q \in Relays : q # to => inbox'[q] = inbox[q]
          /\ \A g \in inbox'[to] : g = f \/ g \in inbox[to]
    BY <1>3 DEF DeliveredTo
  <2> QED BY <1>0, <1>1, <1>2, <2>1, HandedOnPlace
<1>5. /\ hand' \in [Relays -> SUBSET Message]
      /\ \A q \in Relays : hand'[q] = IF q = r THEN hand[r] \ {m} ELSE hand[q]
  BY <1>1, LeavesHand
<1>6. TypeOK'
  BY <1>0, <1>3, <1>5 DEF TypeOK
<1>7. HandWhenBusy' /\ ArrivedPast' /\ OnlyHeld' /\ SentOnce'
  BY <1>0, <1>5 DEF HandWhenBusy, ArrivedPast, OnlyHeld, SentOnce
<1> QED BY <1>4, <1>6, <1>7

\* A stage of the released steps neither claims nor judges.
LEMMA ProcessRelay == \A n \in Node : "process" \in Serves[n] => <<n, "process">> \in Relays
BY DEF Relays, Stage

LEMMA ReleaseInv ==
    ASSUME RInv, NEW n \in Node, "process" \in Serves[n], Release(n)
    PROVE  RInv'
<1> DEFINE r == <<n, "process">>
<1> USE DEF RInv
<1>0. /\ UNCHANGED <<life, round, cursor, list, hand, subscribed, paused, queue, go, orders,
                     arrived, sent, resent, failed, lost, held, unreadable, dropped>>
      /\ r \in Relays /\ r[2] # "send" /\ pc[r] = "release" /\ pc' = [pc EXCEPT ![r] = "done"]
  BY ProcessRelay DEF Release, saidVars
<1>1. PICK m \in picked[n] : /\ HandOn(r, m)
                             /\ picked' = [picked EXCEPT ![n] = @ \ {m}]
                             /\ handed' = [handed EXCEPT ![n] = {m}]
  BY DEF Release
<1>2. m \in Message /\ m \in arrived /\ m \in held
  BY DEF OnlyHeld, TypeOK
<1> HIDE DEF r
<1>3. /\ sequence' \in [Relays -> Nat] /\ inbox' \in [Relays -> SUBSET File]
      /\ DeliveredTo(m, NextStage(r[2]))
  BY <1>0, <1>1, <1>2, HandOnTo
<1>4. AllArrived' /\ InOnePlace'
  <2>1. PICK to \in Relays, f \in File :
          /\ f.msg = m
          /\ \A q \in Relays : q # to => inbox'[q] = inbox[q]
          /\ \A g \in inbox'[to] : g = f \/ g \in inbox[to]
    BY <1>3 DEF DeliveredTo
  <2> QED BY <1>0, <1>1, <1>2, <2>1, HandedOnPlace
<1>5. /\ picked' \in [Node -> SUBSET Message] /\ handed' \in [Node -> SUBSET Message]
      /\ \A k \in Node : picked'[k] \subseteq picked[k] /\ handed'[k] \subseteq handed[k] \cup {m}
  BY <1>1, <1>2 DEF TypeOK
<1>6. TypeOK'
  BY <1>0, <1>3, <1>5 DEF TypeOK
<1>7. HandWhenBusy' /\ ArrivedPast' /\ SentOnce'
  BY <1>0 DEF HandWhenBusy, ArrivedPast, SentOnce, TypeOK
<1>8. OnlyHeld'
  BY <1>0, <1>2, <1>5 DEF OnlyHeld
<1> QED BY <1>4, <1>6, <1>7, <1>8

\* What is released, or kept as failed, only leaves its queue.
LEMMA ReleasedInv ==
    ASSUME RInv, NEW n \in Node, "process" \in Serves[n], Done(n) \/ ReleaseFails(n)
    PROVE  RInv'
<1> DEFINE r == <<n, "process">>
<1> USE DEF RInv
<1>0. /\ UNCHANGED <<life, round, cursor, list, hand, inbox, subscribed, paused, orders,
                     arrived, sent, resent, failed, lost, held, unreadable, dropped>>
      /\ r \in Relays
  BY ProcessRelay DEF Done, ReleaseFails, saidVars
<1>1. /\ pc' \in [Relays -> {"idle", "claim", "judge", "release", "done"}]
      /\ \A q \in Relays : pc'[q] \notin {"claim", "judge"} => hand[q] = {}
  <2>1. CASE Done(n)
    BY <1>0, <2>1 DEF Done, HandWhenBusy, TypeOK
  <2>2. CASE ReleaseFails(n)
    BY <2>2 DEF ReleaseFails, HandWhenBusy, TypeOK
  <2> QED BY <2>1, <2>2
<1>2. sequence' \in [Relays -> Nat]
  <2>1. CASE Done(n)
    BY <2>1 DEF Done, TypeOK
  <2>2. CASE ReleaseFails(n)
    BY <1>0, <2>2 DEF ReleaseFails, TypeOK
  <2> QED BY <2>1, <2>2
<1>3. /\ queue' \in [Node -> SUBSET Message] /\ go' \in [Node -> SUBSET Message]
      /\ picked' \in [Node -> SUBSET Message] /\ handed' \in [Node -> SUBSET Message]
      /\ \A k \in Node : /\ queue'[k] \subseteq queue[k] /\ go'[k] \subseteq go[k]
                         /\ picked'[k] \subseteq picked[k] /\ handed'[k] \subseteq handed[k]
  <2>1. CASE Done(n)
    <3>1. picked' = picked /\ handed' = [handed EXCEPT ![n] = {}]
      BY <2>1 DEF Done
    <3>2. \/ queue' = queue /\ go' = go
          \/ queue' = [queue EXCEPT ![n] = @ \ handed[n]] /\ go' = [go EXCEPT ![n] = @ \ handed[n]]
      BY <2>1 DEF Done
    <3>3. /\ picked' \in [Node -> SUBSET Message] /\ handed' \in [Node -> SUBSET Message]
          /\ \A k \in Node : picked'[k] \subseteq picked[k] /\ handed'[k] \subseteq handed[k]
      BY <3>1 DEF TypeOK
    <3>4. /\ queue' \in [Node -> SUBSET Message]
          /\ \A k \in Node : queue'[k] \subseteq queue[k]
      BY <3>2 DEF TypeOK
    <3>5. /\ go' \in [Node -> SUBSET Message]
          /\ \A k \in Node : go'[k] \subseteq go[k]
      BY <3>2 DEF TypeOK
    <3> QED BY <3>3, <3>4, <3>5
  <2>2. CASE ReleaseFails(n)
    BY <2>2 DEF ReleaseFails, TypeOK
  <2> QED BY <2>1, <2>2
<1>4. TypeOK'
  BY <1>0, <1>1, <1>2, <1>3 DEF TypeOK
<1>5. HandWhenBusy' /\ AllArrived' /\ ArrivedPast' /\ InOnePlace' /\ SentOnce'
  BY <1>0, <1>1 DEF HandWhenBusy, AllArrived, ArrivedPast, InOnePlace, SentOnce
<1>6. OnlyHeld'
  BY <1>0, <1>3 DEF OnlyHeld
<1> QED BY <1>4, <1>5, <1>6

\* A process killed takes what it held in memory with it; the next process of
\* the node counts its rounds anew under another number.
LEMMA RestartInv == ASSUME RInv, NEW n \in Node, Restart(n) PROVE RInv'
<1> USE DEF RInv
<1>0. UNCHANGED <<inbox, paused, queue, orders, arrived, sent, resent, failed, held>>
  BY DEF Restart
<1>1. /\ life' \in [Node -> Nat] /\ round' \in [Node -> Nat] /\ cursor' \in [Node -> Nat]
      /\ \A k \in Node : /\ life'[k] = IF k = n THEN life[n] + 1 ELSE life[k]
                         /\ round'[k] = IF k = n THEN 0 ELSE round[k]
                         /\ cursor'[k] = IF k = n THEN 0 ELSE cursor[k]
  BY DEF Restart, TypeOK
<1>2. \A k \in Receivers : cursor'[k] < Len(Share[k])
  <2> SUFFICES ASSUME NEW k \in Receivers PROVE cursor'[k] < Len(Share[k])
    OBVIOUS
  <2>1. k \in Node /\ Len(Share[k]) \in Nat \ {0} /\ cursor[k] < Len(Share[k])
    BY ShareParts DEF TypeOK
  <2>2. CASE k = n
    <3>1. cursor'[k] = 0
      BY <1>1, <2>1, <2>2
    <3> QED BY <2>1, <3>1
  <2>3. CASE k # n
    BY <1>1, <2>1, <2>3
  <2> QED BY <2>2, <2>3
<1>3. /\ sequence' \in [Relays -> Nat]
      /\ pc' \in [Relays -> {"idle", "claim", "judge", "release", "done"}]
      /\ hand' \in [Relays -> SUBSET Message]
      /\ \A r \in Relays : /\ pc'[r] = IF r[1] = n THEN "idle" ELSE pc[r]
                           /\ hand'[r] = IF r[1] = n THEN {} ELSE hand[r]
  BY DEF Restart, TypeOK
<1>4. /\ subscribed' \in [Node -> BOOLEAN] /\ go' \in [Node -> SUBSET Message]
      /\ \A k \in Node : go'[k] \subseteq go[k]
  <2>1. PICK started \in BOOLEAN : subscribed' = [subscribed EXCEPT ![n] = started]
    BY DEF Restart
  <2>2. PICK again \in {go[n], {}} : go' = [go EXCEPT ![n] = again]
    BY DEF Restart
  <2>3. subscribed' \in [Node -> BOOLEAN]
    BY <2>1 DEF TypeOK
  <2>4. again \subseteq go[n] /\ go \in [Node -> SUBSET Message]
    BY DEF TypeOK
  <2> QED BY <2>2, <2>3, <2>4
<1>5. /\ picked' \in [Node -> SUBSET Message] /\ handed' \in [Node -> SUBSET Message]
      /\ \A k \in Node : picked'[k] \subseteq picked[k] /\ handed'[k] \subseteq handed[k]
  BY DEF Restart, TypeOK
<1>6. TypeOK'
  <2>1. unreadable' \in [Relays -> Nat] /\ dropped' \in [Relays -> SUBSET Message]
    BY DEF Restart, TypeOK
  <2> QED BY <1>0, <1>1, <1>2, <1>3, <1>4, <1>5, <2>1 DEF TypeOK
<1>7. HandWhenBusy' /\ AllArrived'
  BY <1>0, <1>3 DEF HandWhenBusy, AllArrived
<1>8. ArrivedPast'
  <2>1. \A k \in Node : life'[k] >= 1
    <3> SUFFICES ASSUME NEW k \in Node PROVE life'[k] >= 1
      OBVIOUS
    <3>1. life[k] \in Nat /\ life[k] >= 1
      BY DEF ArrivedPast, TypeOK
    <3>2. life'[k] = life[k] + 1 \/ life'[k] = life[k]
      BY <1>1
    <3> QED BY <3>1, <3>2
  <2>2. ASSUME NEW m \in arrived
        PROVE  /\ m.by[1] \in Receivers
               /\ \E i \in DOMAIN Share[m.by[1]] : m.pair = Share[m.by[1]][i]
               /\ m.by[2] >= 1 /\ m.by[2] <= life'[m.by[1]]
               /\ m.by[2] = life'[m.by[1]] => m.round <= round'[m.by[1]]
    <3>1. m \in Message
      BY DEF TypeOK
    <3>2. /\ m.by[1] \in Receivers /\ m.by[1] \in Node /\ m.by[2] \in Nat
          /\ life[m.by[1]] \in Nat
      BY <3>1, ShareParts DEF ArrivedPast, TypeOK, Message
    <3> QED BY <1>1, <3>2 DEF ArrivedPast
  <2> QED BY <1>0, <2>1, <2>2 DEF ArrivedPast
<1>9. OnlyHeld' /\ SentOnce'
  BY <1>0, <1>4, <1>5 DEF OnlyHeld, SentOnce
<1>10. InOnePlace'
  BY <1>0, <1>3 DEF InOnePlace
<1> QED BY <1>6, <1>7, <1>8, <1>9, <1>10

LEMMA RelayNext == RInv /\ [Next]_vars => RInv'
<1> SUFFICES ASSUME RInv, [Next]_vars PROVE RInv'
  OBVIOUS
<1>1. CASE UNCHANGED vars
  BY <1>1 DEF vars, relayVars, subVars, saidVars, RInv, TypeOK, HandWhenBusy, AllArrived,
              ArrivedPast, OnlyHeld, InOnePlace, SentOnce
<1>2. CASE Next
  <2>1. CASE \E n \in Receivers : Receive(n)
    BY <2>1, ReceiveInv
  <2>2. CASE \E r \in Relays : Tick(r)
    BY <2>2, StillInv, ClaimInv, UnreadableInv, JudgedInv, PassOnInv DEF Tick
  <2>3. CASE \E n \in Node : "process" \in Serves[n] /\ Released(n)
    BY <2>3, StillInv, ReleaseInv, ReleasedInv DEF Released
  <2>4. CASE \E n \in Node, u \in Subscription : Pause(n, u) \/ Resume(n, u)
    BY <2>4, StillInv
  <2>5. CASE \E n \in Node : Restart(n)
    BY <2>5, RestartInv
  <2> QED BY <1>2, <2>1, <2>2, <2>3, <2>4, <2>5 DEF Next
<1> QED BY <1>1, <1>2

LEMMA RelayInvariance == Spec => []RInv
BY RelayInit, RelayNext, PTL DEF Spec

\* Type correctness: the files of an inbox, what a stage has in hand and what
\* Subscriptions hold are messages, the counts are numbers through every
\* restart, and a receive stage's cursor stays within its share (workers.rs).
THEOREM RelayTypeCorrect == Spec => []TypeOK
<1>1. RInv => TypeOK
  BY DEF RInv
<1> QED BY <1>1, RelayInvariance, PTL

\* A message goes out twice only if a Subscription held it: a claim is a
\* rename, and what a stage took leaves its inbox (handoff.rs), however many
\* nodes, rounds and restarts there are.
THEOREM OnlyHeldIsResent == Spec => []SentOnce
<1>1. RInv => SentOnce
  BY DEF RInv
<1> QED BY <1>1, RelayInvariance, PTL

-----------------------------------------------------------------------------
(* The way of a message, where receivers are not started again. *)

\* No step takes a message off its way, or back from its way out.
WayKept == \A m \in arrived : /\ OnItsWay(m) => OnItsWay(m)'
                              /\ GoneOut(m) => GoneOut(m)'

\* A round and a pair name one message.
LEMMA OneMessage ==
    ASSUME RInv, OneReceived, NEW m \in arrived, NEW k \in arrived,
           m.round = k.round, m.pair = k.pair
    PROVE  m = k
<1> USE DEF RInv
<1>1. m \in Message /\ k \in Message
  BY DEF TypeOK
<1>2. /\ m.by[1] \in Receivers /\ k.by[1] \in Receivers
      /\ \E i \in DOMAIN Share[m.by[1]] : m.pair = Share[m.by[1]][i]
      /\ \E i \in DOMAIN Share[k.by[1]] : k.pair = Share[k.by[1]][i]
      /\ m.by[2] >= 1 /\ m.by[2] <= life[m.by[1]] /\ k.by[2] >= 1 /\ k.by[2] <= life[k.by[1]]
  BY DEF ArrivedPast
<1>3. m.by[1] = k.by[1]
  BY <1>2, RosterAssumption
<1>4. m.by[2] \in Nat /\ k.by[2] \in Nat /\ life[m.by[1]] = 1 /\ life[k.by[1]] = 1
  BY <1>1, <1>2 DEF Message, OneReceived
<1>5. m.by[2] = k.by[2]
  BY <1>2, <1>4
<1> QED BY <1>1, <1>3, <1>5 DEF Message

LEMMA ReceiveWay == ASSUME RInv, NEW n \in Receivers, Receive(n)
                    PROVE  WayKept /\ \A m \in arrived' : m \in arrived \/ InHand(m)'
<1> DEFINE r == <<n, "receive">>
<1> USE DEF RInv
<1>1. r \in Relays /\ r[2] # "send" /\ hand[r] = {}
  BY ShareParts DEF Receive, HandWhenBusy
<1>2. UNCHANGED <<inbox, queue, sent, failed, lost, dropped>>
  BY DEF Receive, subVars
<1>3. PICK took : hand' = [hand EXCEPT ![r] = took] /\ arrived' = arrived \cup took
  BY DEF Receive
<1> HIDE DEF r
<1>4. \A q \in Relays : hand[q] \subseteq hand'[q] /\ (q = r => hand'[q] = took)
  BY <1>1, <1>3 DEF TypeOK
<1> QED BY <1>1, <1>2, <1>3, <1>4 DEF WayKept, OnItsWay, GoneOut, InHand, Waiting, Kept

LEMMA ClaimWay == ASSUME RInv, NEW r \in Relays, Claim(r) PROVE WayKept
<1> USE DEF RInv
<1>1. UNCHANGED <<queue, sent, failed, lost, dropped>>
  BY DEF Claim, subVars, saidVars
<1>2. PICK f : /\ hand'  = [hand EXCEPT ![r] = @ \cup {g.msg : g \in {h \in inbox[r] : SameName(f, h)}}]
               /\ inbox' = [inbox EXCEPT ![r] = Claimed(@, f)]
  BY DEF Claim
<1>3. \A q \in Relays : /\ hand[q] \subseteq hand'[q]
                        /\ \A g \in inbox[q] : g \in inbox'[q] \/ g.msg \in hand'[q]
  <2>1. /\ hand[r] \subseteq hand'[r]
        /\ \A g \in inbox[r] : g \in inbox'[r] \/ g.msg \in hand'[r]
    BY <1>2 DEF Claimed, TypeOK
  <2>2. \A q \in Relays : q # r => hand'[q] = hand[q] /\ inbox'[q] = inbox[q]
    BY <1>2 DEF TypeOK
  <2> QED BY <2>1, <2>2
<1>4. ASSUME NEW m \in arrived, OnItsWay(m) PROVE OnItsWay(m)'
  BY <1>1, <1>3, <1>4 DEF OnItsWay, InHand, Waiting, Kept
<1>5. ASSUME NEW m \in arrived, GoneOut(m) PROVE GoneOut(m)'
  BY <1>1, <1>3, <1>5 DEF GoneOut
<1> QED BY <1>4, <1>5 DEF WayKept

LEMMA UnreadableWay == ASSUME RInv, NEW r \in Relays, ClaimUnreadable(r) PROVE WayKept
<1> USE DEF RInv
<1>1. UNCHANGED <<hand, queue, sent, failed, lost>>
  BY DEF ClaimUnreadable, subVars
<1>2. PICK f : /\ inbox'   = [inbox EXCEPT ![r] = Claimed(@, f)]
               /\ dropped' = [dropped EXCEPT ![r] = @ \cup {g.msg : g \in {h \in inbox[r] : SameName(f, h)}}]
  BY DEF ClaimUnreadable
<1>3. \A q \in Relays : /\ dropped[q] \subseteq dropped'[q]
                        /\ \A g \in inbox[q] : g \in inbox'[q] \/ g.msg \in dropped'[q]
  <2>1. /\ dropped[r] \subseteq dropped'[r]
        /\ \A g \in inbox[r] : g \in inbox'[r] \/ g.msg \in dropped'[r]
    BY <1>2 DEF Claimed, TypeOK
  <2>2. \A q \in Relays : q # r => dropped'[q] = dropped[q] /\ inbox'[q] = inbox[q]
    BY <1>2 DEF TypeOK
  <2> QED BY <2>1, <2>2
<1>4. ASSUME NEW m \in arrived, OnItsWay(m) PROVE OnItsWay(m)'
  BY <1>1, <1>3, <1>4 DEF OnItsWay, InHand, Waiting, Kept
<1>5. ASSUME NEW m \in arrived, GoneOut(m) PROVE GoneOut(m)'
  BY <1>1, <1>3, <1>5 DEF GoneOut
<1> QED BY <1>4, <1>5 DEF WayKept

LEMMA JudgedWay ==
    ASSUME RInv, NEW r \in Relays, Fails(r) \/ Send(r) \/ Hold(r)
    PROVE  WayKept
<1> USE DEF RInv
<1>1. /\ inbox' = inbox /\ lost' = lost /\ dropped' = dropped /\ sent \subseteq sent' /\ failed \subseteq failed'
      /\ r[1] \in Node
  BY RelayParts DEF Fails, Send, Hold
<1>2. PICK m \in hand[r] :
        /\ hand' = [hand EXCEPT ![r] = @ \ {m}]
        /\ \/ queue' = queue /\ m \in sent' \cup failed'
           \/ r[2] = "process" /\ queue' = [queue EXCEPT ![r[1]] = @ \cup {m}]
  <2>1. CASE Fails(r)
    BY <2>1 DEF Fails, subVars
  <2>2. CASE Send(r)
    BY <2>2 DEF Send, subVars
  <2>3. CASE Hold(r)
    BY <2>3 DEF Hold, Holds
  <2> QED BY <2>1, <2>2, <2>3
<1>3. \A q \in Relays : hand'[q] = IF q = r THEN hand[r] \ {m} ELSE hand[q]
  BY <1>2, LeavesHand
<1>4. /\ \A n \in Node : queue[n] \subseteq queue'[n]
      /\ m \in sent' \cup failed' \/ (r[2] = "process" /\ \E n \in Node : m \in queue'[n])
  <2>1. CASE queue' = queue /\ m \in sent' \cup failed'
    BY <2>1
  <2>2. CASE r[2] = "process" /\ queue' = [queue EXCEPT ![r[1]] = @ \cup {m}]
    <3> DEFINE n0 == r[1]
    <3>1. n0 \in Node /\ queue' = [queue EXCEPT ![n0] = queue[n0] \cup {m}]
      BY <1>1, <2>2
    <3> HIDE DEF n0
    <3>2. \A n \in Node : queue'[n] = IF n = n0 THEN queue[n0] \cup {m} ELSE queue[n]
      BY <3>1 DEF TypeOK
    <3> QED BY <2>2, <3>1, <3>2
  <2> QED BY <1>2, <2>1, <2>2
<1>5. ASSUME NEW x \in arrived, OnItsWay(x) PROVE OnItsWay(x)'
  BY <1>1, <1>3, <1>4, <1>5 DEF OnItsWay, InHand, Waiting, Kept
<1>6. ASSUME NEW x \in arrived, GoneOut(x) PROVE GoneOut(x)'
  BY <1>1, <1>3, <1>4, <1>6 DEF GoneOut
<1> QED BY <1>5, <1>6 DEF WayKept

\* What a delivery replaces was the same message.
LEMMA DeliveredWay ==
    ASSUME RInv, OneReceived, NEW m \in arrived, NEW s, DeliveredTo(m, s)
    PROVE  /\ \A q \in Relays : \A g \in inbox[q] :
                 \E h \in inbox'[q] : h.msg = g.msg
           /\ \E q \in Relays : q[2] = s /\ \E h \in inbox'[q] : h.msg = m
<1>1. PICK to \in Relays, f \in File :
        /\ to[2] = s /\ f.msg = m /\ f \in inbox'[to]
        /\ \A q \in Relays : q # to => inbox'[q] = inbox[q]
        /\ \A g \in inbox[to] : g \in inbox'[to] \/ SameName(f, g)
  BY DEF DeliveredTo
<1>2. \A g \in inbox[to] : SameName(f, g) => g.msg = m
  BY <1>1, OneMessage DEF RInv, AllArrived, SameName
<1> QED BY <1>1, <1>2

LEMMA PassOnWay == ASSUME RInv, OneReceived, NEW r \in Relays, PassOn(r) PROVE WayKept
<1>0. UNCHANGED <<queue, sent, failed, lost, dropped>> /\ r[2] # "send"
  BY DEF PassOn, subVars, saidVars
<1>1. PICK m \in hand[r] : HandOn(r, m) /\ hand' = [hand EXCEPT ![r] = @ \ {m}]
  BY DEF PassOn
<1>2. m \in Message /\ m \in arrived
  BY DEF RInv, AllArrived, TypeOK
<1>3. DeliveredTo(m, NextStage(r[2]))
  BY <1>0, <1>1, <1>2, HandOnTo DEF RInv
<1>4. /\ \A q \in Relays : \A g \in inbox[q] : \E h \in inbox'[q] : h.msg = g.msg
      /\ \E q \in Relays : \E h \in inbox'[q] : h.msg = m
  BY <1>2, <1>3, DeliveredWay
<1>5. \A q \in Relays : hand'[q] = IF q = r THEN hand[r] \ {m} ELSE hand[q]
  BY <1>1, LeavesHand DEF RInv
<1>6. ASSUME NEW x \in arrived, OnItsWay(x) PROVE OnItsWay(x)'
  BY <1>0, <1>4, <1>5, <1>6 DEF OnItsWay, InHand, Waiting, Kept
<1>7. ASSUME NEW x \in arrived, GoneOut(x) PROVE GoneOut(x)'
  BY <1>0, <1>4, <1>5, <1>7 DEF GoneOut
<1> QED BY <1>6, <1>7 DEF WayKept

\* A message handed on is in the inbox of a send stage before it is released.
LEMMA ReleaseWay ==
    ASSUME RInv, PathInv, NEW n \in Node, "process" \in Serves[n], Release(n)
    PROVE  WayKept /\ HandedIsOut'
<1> DEFINE r == <<n, "process">>
<1>0. /\ UNCHANGED <<hand, queue, sent, failed, lost, dropped>>
      /\ r \in Relays /\ r[2] # "send" /\ NextStage(r[2]) = "send"
  BY ProcessRelay DEF Release, saidVars, NextStage
<1>1. PICK m \in picked[n] : HandOn(r, m) /\ handed' = [handed EXCEPT ![n] = {m}]
  BY DEF Release
<1>2. m \in Message /\ m \in arrived
  BY DEF RInv, OnlyHeld, TypeOK
<1> HIDE DEF r
<1>3. DeliveredTo(m, "send")
  BY <1>0, <1>1, <1>2, HandOnTo DEF RInv
<1>4. /\ \A q \in Relays : \A g \in inbox[q] : \E h \in inbox'[q] : h.msg = g.msg
      /\ \E q \in Relays : q[2] = "send" /\ \E h \in inbox'[q] : h.msg = m
  BY <1>2, <1>3, DeliveredWay DEF PathInv
<1>5. WayKept
  BY <1>0, <1>4 DEF WayKept, OnItsWay, GoneOut, InHand, Waiting, Kept
<1>6. HandedIsOut'
  <2> SUFFICES ASSUME NEW k \in Node, NEW x \in handed'[k] PROVE GoneOut(x)'
    BY DEF HandedIsOut
  <2>1. CASE x = m
    BY <1>4, <2>1 DEF GoneOut
  <2>2. CASE x # m
    <3>1. x \in handed[k]
      BY <1>1, <2>2 DEF RInv, TypeOK
    <3>2. x \in arrived /\ GoneOut(x)
      BY <3>1 DEF PathInv, HandedIsOut, RInv, OnlyHeld
    <3> QED BY <1>5, <3>2 DEF WayKept
  <2> QED BY <2>1, <2>2
<1> QED BY <1>5, <1>6

\* What leaves its queue is on its way out.
LEMMA DoneWay ==
    ASSUME RInv, PathInv, NEW n \in Node, "process" \in Serves[n], Done(n)
    PROVE  /\ WayKept
           /\ \A k \in Node : \A m \in queue[k] : m \in queue'[k] \/ GoneOut(m)
<1>0. UNCHANGED <<hand, inbox, sent, failed, lost, dropped>>
  BY DEF Done, saidVars
<1>1. \A k \in Node : \A m \in queue[k] : m \in queue'[k] \/ GoneOut(m)
  <2>1. queue' = queue \/ queue' = [queue EXCEPT ![n] = @ \ handed[n]]
    BY DEF Done
  <2>2. \A k \in Node : \A m \in queue[k] : m \in queue'[k] \/ m \in handed[n]
    BY <2>1 DEF RInv, TypeOK
  <2> QED BY <2>2 DEF PathInv, HandedIsOut
<1>2. WayKept
  BY <1>0, <1>1 DEF WayKept, OnItsWay, GoneOut, InHand, Waiting, Kept
<1> QED BY <1>1, <1>2

LEMMA RestartWay == ASSUME RInv, NEW n \in Node, Restart(n) PROVE WayKept
<1>1. UNCHANGED <<inbox, queue, sent, failed>> /\ lost \subseteq lost'
  BY DEF Restart
<1>2. \A q \in Relays : /\ hand[q] \subseteq hand'[q] \/ hand[q] \subseteq lost'
                        /\ dropped[q] \subseteq dropped'[q] \/ dropped[q] \subseteq lost'
  BY DEF Restart
<1> QED BY <1>1, <1>2 DEF WayKept, OnItsWay, GoneOut, InHand, Waiting, Kept

LEMMA StillWay ==
    ASSUME RInv, \/ \E r \in Relays : Drain(r) \/ ClaimEnds(r) \/ JudgeEnds(r)
                 \/ \E n \in Node : ReleaseFails(n) \/ ReleaseEnds(n)
                 \/ \E n \in Node, u \in Subscription : Pause(n, u) \/ Resume(n, u)
    PROVE  WayKept
<1>1. UNCHANGED <<hand, inbox, queue, sent, failed, lost, dropped>>
  BY DEF Drain, ClaimEnds, JudgeEnds, Pick, ReleaseFails, ReleaseEnds, Pause, Resume,
         relayVars, subVars, saidVars
<1> QED BY <1>1 DEF WayKept, OnItsWay, GoneOut, InHand, Waiting, Kept

\* A step takes no message off its way, and only releasing it takes one out of
\* its queue.
LEMMA EveryWay ==
    ASSUME RInv, PathInv, Next
    PROVE  /\ WayKept
           /\ \A k \in Node : \A m \in queue[k] : m \in queue'[k] \/ GoneOut(m)
<1> DEFINE QueueKept == \A k \in Node : \A m \in queue[k] : m \in queue'[k] \/ GoneOut(m)
<1>1. CASE \E n \in Receivers : Receive(n)
  <2>1. queue' = queue
    BY <1>1 DEF Receive, subVars
  <2> QED BY <1>1, <2>1, ReceiveWay
<1>2. CASE \E r \in Relays : Tick(r)
  <2>1. PICK r \in Relays : Tick(r)
    BY <1>2
  <2>2. CASE Drain(r) \/ ClaimEnds(r) \/ JudgeEnds(r)
    <3>1. queue' = queue
      BY <2>2 DEF Drain, ClaimEnds, JudgeEnds, Pick, subVars
    <3> QED BY <2>2, <3>1, StillWay
  <2>3. CASE Claim(r)
    <3>1. queue' = queue
      BY <2>3 DEF Claim, subVars
    <3> QED BY <2>3, <3>1, ClaimWay
  <2>4. CASE Fails(r) \/ Send(r)
    <3>1. queue' = queue
      BY <2>4 DEF Fails, Send, subVars
    <3> QED BY <2>4, <3>1, JudgedWay
  <2>5. CASE Hold(r)
    <3>1. QueueKept
      BY <2>5, RelayParts DEF Hold, RInv, TypeOK
    <3> QED BY <2>5, <3>1, JudgedWay
  <2>6. CASE PassOn(r)
    <3>1. queue' = queue
      BY <2>6 DEF PassOn, subVars
    <3> QED BY <2>6, <3>1, PassOnWay DEF PathInv
  <2>7. CASE ClaimUnreadable(r)
    <3>1. queue' = queue
      BY <2>7 DEF ClaimUnreadable, subVars
    <3> QED BY <2>7, <3>1, UnreadableWay
  <2> QED BY <2>1, <2>2, <2>3, <2>4, <2>5, <2>6, <2>7 DEF Tick
<1>3. CASE \E n \in Node : "process" \in Serves[n] /\ Released(n)
  <2>1. PICK n \in Node : "process" \in Serves[n] /\ Released(n)
    BY <1>3
  <2>2. CASE Release(n)
    <3>1. queue' = queue
      BY <2>2 DEF Release
    <3> QED BY <2>1, <2>2, <3>1, ReleaseWay
  <2>3. CASE Done(n)
    BY <2>1, <2>3, DoneWay
  <2>4. CASE ReleaseFails(n) \/ ReleaseEnds(n)
    <3>1. queue' = queue
      BY <2>4 DEF ReleaseFails, ReleaseEnds, subVars
    <3> QED BY <2>4, <3>1, StillWay
  <2> QED BY <2>1, <2>2, <2>3, <2>4 DEF Released
<1>4. CASE \E n \in Node, u \in Subscription : Pause(n, u) \/ Resume(n, u)
  <2>1. queue' = queue
    BY <1>4 DEF Pause, Resume
  <2> QED BY <1>4, <2>1, StillWay
<1>5. CASE \E n \in Node : Restart(n)
  <2>1. queue' = queue
    BY <1>5 DEF Restart
  <2> QED BY <1>5, <2>1, RestartWay
<1> QED BY <1>1, <1>2, <1>3, <1>4, <1>5 DEF Next

\* Only a restart changes which process a node is.
LEMMA LifeStep ==
    ASSUME RInv, Next
    PROVE  life' = life \/ \E n \in Restartable : /\ n \in Node
                                                  /\ life' = [life EXCEPT ![n] = @ + 1]
BY DEF Next, Tick, Released, Receive, Drain, Claim, ClaimUnreadable, ClaimEnds, Fails, Send, PassOn, Hold,
       JudgeEnds, Release, Done, ReleaseFails, ReleaseEnds, Pause, Resume, Restart

\* Only a receive stage lets a message arrive, and it has it in hand.
LEMMA ArrivedStep == ASSUME RInv, Next PROVE \A m \in arrived' : m \in arrived \/ InHand(m)'
<1>1. CASE \E n \in Receivers : Receive(n)
  BY <1>1, ReceiveWay
<1>2. CASE ~ \E n \in Receivers : Receive(n)
  <2>1. arrived' = arrived
    BY <1>2 DEF Next, Tick, Released, Drain, Claim, ClaimUnreadable, ClaimEnds, Fails, Send, PassOn, Hold,
       JudgeEnds, Release, Done, ReleaseFails, ReleaseEnds, Pause, Resume, Restart, saidVars
  <2> QED BY <2>1
<1> QED BY <1>1, <1>2

\* Only Release hands one on.
LEMMA HandedStep ==
    ASSUME RInv, PathInv, Next
    PROVE  HandedIsOut' \/ \A n \in Node : handed'[n] \subseteq handed[n]
<1>1. CASE \E n \in Node : "process" \in Serves[n] /\ Release(n)
  BY <1>1, ReleaseWay
<1>2. CASE \E n \in Node : Done(n)
  BY <1>2 DEF Done, RInv, TypeOK
<1>3. CASE \E n \in Node : Restart(n)
  BY <1>3 DEF Restart, RInv, TypeOK
<1>4. CASE handed' = handed
  BY <1>4
<1>5. \/ handed' = handed
      \/ \E n \in Node : "process" \in Serves[n] /\ Release(n)
      \/ \E n \in Node : Done(n)
      \/ \E n \in Node : Restart(n)
  BY DEF Next, Tick, Released, Receive, Drain, Claim, ClaimUnreadable, ClaimEnds, Fails, Send, PassOn, Hold,
       JudgeEnds, ReleaseFails, ReleaseEnds, Pause, Resume, subVars
<1> QED BY <1>1, <1>2, <1>3, <1>4, <1>5

LEMMA PathInit == Init => PathInv
<1> SUFFICES ASSUME Init PROVE PathInv
  OBVIOUS
<1>1. OneReceived
  BY ShareParts DEF Init, OneReceived
<1>2. HandedIsOut /\ AllOnTheirWay
  BY DEF Init, HandedIsOut, AllOnTheirWay
<1> QED BY <1>1, <1>2 DEF PathInv

LEMMA PathNext == ReceiversStay => (RInv /\ PathInv /\ [Next]_vars => PathInv')
<1> SUFFICES ASSUME ReceiversStay, RInv, PathInv, [Next]_vars PROVE PathInv'
  OBVIOUS
<1>1. CASE UNCHANGED vars
  BY <1>1 DEF vars, relayVars, subVars, saidVars, PathInv, OneReceived, HandedIsOut, GoneOut,
              AllOnTheirWay, OnItsWay, InHand, Waiting, Kept
<1>2. CASE Next
  <2>1. OneReceived'
    <3> SUFFICES ASSUME NEW k \in Receivers PROVE life'[k] = 1
      BY DEF OneReceived
    <3>1. life[k] = 1 /\ k \notin Restartable /\ k \in Node
      BY ShareParts DEF PathInv, OneReceived, ReceiversStay
    <3> QED BY <1>2, <3>1, LifeStep DEF RInv, TypeOK
  <2>2. WayKept
    BY <1>2, EveryWay
  <2>3. AllOnTheirWay'
    <3> SUFFICES ASSUME NEW m \in arrived' PROVE OnItsWay(m)'
      BY DEF AllOnTheirWay
    <3>1. CASE m \in arrived
      <4>1. OnItsWay(m)
        BY <3>1 DEF PathInv, AllOnTheirWay
      <4> QED BY <2>2, <3>1, <4>1 DEF WayKept
    <3>2. CASE m \notin arrived
      BY <1>2, <3>2, ArrivedStep DEF OnItsWay
    <3> QED BY <3>1, <3>2
  <2>4. HandedIsOut'
    <3>1. CASE \A n \in Node : handed'[n] \subseteq handed[n]
      <4> SUFFICES ASSUME NEW n \in Node, NEW m \in handed'[n] PROVE GoneOut(m)'
        BY DEF HandedIsOut
      <4>1. m \in arrived /\ GoneOut(m)
        BY <3>1 DEF RInv, OnlyHeld, PathInv, HandedIsOut
      <4> QED BY <2>2, <4>1 DEF WayKept
    <3> QED BY <1>2, <3>1, HandedStep
  <2> QED BY <2>1, <2>3, <2>4 DEF PathInv
<1> QED BY <1>1, <1>2

LEMMA PathInvariance == ASSUME ReceiversStay PROVE Spec => [](RInv /\ PathInv)
<1>1. Init => RInv /\ PathInv
  BY RelayInit, PathInit
<1>2. RInv /\ PathInv /\ [Next]_vars => (RInv /\ PathInv)'
  BY RelayNext, PathNext
<1> QED BY <1>1, <1>2, PTL DEF Spec

-----------------------------------------------------------------------------
(* What is dropped is counted. *)

\* A delivery leaves each name to one file.
LEMMA DeliveredName ==
    ASSUME OneOfAName, NEW m, NEW s, DeliveredTo(m, s)
    PROVE  OneOfAName'
<1>1. PICK to \in Relays, f \in File :
        /\ \A q \in Relays : q # to => inbox'[q] = inbox[q]
        /\ \A g \in inbox'[to] : g = f \/ (g \in inbox[to] /\ ~SameName(f, g))
  BY DEF DeliveredTo
<1>2. \A g, h \in inbox'[to] : SameName(g, h) => g = h
  BY <1>1 DEF OneOfAName, SameName
<1> QED BY <1>1, <1>2 DEF OneOfAName

LEMMA CountNext == RInv /\ CountInv /\ [Next]_vars => CountInv'
<1> SUFFICES ASSUME RInv, CountInv, [Next]_vars PROVE CountInv'
  OBVIOUS
<1> USE DEF CountInv
<1>1. CASE UNCHANGED <<inbox, unreadable, dropped>>
  BY <1>1 DEF OneOfAName, AllCounted
<1>2. ASSUME NEW r \in Relays, Claim(r) PROVE CountInv'
  <2>1. UNCHANGED <<unreadable, dropped>>
    BY <1>2 DEF Claim, saidVars
  <2>2. \A q \in Relays : inbox'[q] \subseteq inbox[q]
    BY <1>2 DEF Claim, Claimed, RInv, TypeOK
  <2> QED BY <2>1, <2>2 DEF OneOfAName, AllCounted
<1>3. ASSUME NEW r \in Relays, ClaimUnreadable(r) PROVE CountInv'
  <2>1. PICK f \in list[r] :
          /\ {h \in inbox[r] : SameName(f, h)} # {}
          /\ inbox'   = [inbox EXCEPT ![r] = Claimed(@, f)]
          /\ dropped' = [dropped EXCEPT ![r] = @ \cup {g.msg : g \in {h \in inbox[r] : SameName(f, h)}}]
    BY <1>3 DEF ClaimUnreadable
  <2>2. unreadable' = [unreadable EXCEPT ![r] = @ + 1]
    BY <1>3 DEF ClaimUnreadable
  <2>3. PICK k \in inbox[r] : SameName(f, k)
    BY <2>1
  <2>4. {h \in inbox[r] : SameName(f, h)} = {k}
    BY <2>3 DEF OneOfAName, SameName
  <2>5. {g.msg : g \in {h \in inbox[r] : SameName(f, h)}} = {k.msg}
    BY <2>4
  <2>6. \A q \in Relays : /\ dropped'[q] = IF q = r THEN dropped[r] \cup {k.msg} ELSE dropped[q]
                          /\ unreadable'[q] = IF q = r THEN unreadable[r] + 1 ELSE unreadable[q]
                          /\ inbox'[q] \subseteq inbox[q]
    BY <2>1, <2>2, <2>5 DEF Claimed, RInv, TypeOK
  <2>7. /\ IsFiniteSet(dropped[r] \cup {k.msg})
        /\ Cardinality(dropped[r] \cup {k.msg}) <= unreadable[r] + 1
    <3>1. IsFiniteSet(dropped[r]) /\ Cardinality(dropped[r]) <= unreadable[r]
      BY DEF AllCounted
    <3>2. Cardinality(dropped[r]) \in Nat /\ unreadable[r] \in Nat
      BY <3>1, FS_CardinalityType DEF RInv, TypeOK
    <3>3. /\ IsFiniteSet(dropped[r] \cup {k.msg})
          /\ \/ Cardinality(dropped[r] \cup {k.msg}) = Cardinality(dropped[r])
             \/ Cardinality(dropped[r] \cup {k.msg}) = Cardinality(dropped[r]) + 1
      BY <3>1, FS_AddElement
    <3> QED BY <3>1, <3>2, <3>3
  <2>8. AllCounted'
    BY <2>6, <2>7 DEF AllCounted
  <2>9. OneOfAName'
    BY <2>6 DEF OneOfAName
  <2> QED BY <2>8, <2>9
<1>4. ASSUME NEW r \in Relays, PassOn(r) PROVE CountInv'
  <2>1. UNCHANGED <<unreadable, dropped>> /\ r[2] # "send"
    BY <1>4 DEF PassOn, saidVars
  <2>2. PICK m \in hand[r] : HandOn(r, m)
    BY <1>4 DEF PassOn
  <2>3. m \in Message
    BY DEF RInv, TypeOK
  <2>4. DeliveredTo(m, NextStage(r[2]))
    BY <2>1, <2>2, <2>3, HandOnTo DEF RInv
  <2> QED BY <2>1, <2>4, DeliveredName DEF AllCounted
<1>5. ASSUME NEW n \in Node, "process" \in Serves[n], Release(n) PROVE CountInv'
  <2> DEFINE r == <<n, "process">>
  <2>1. UNCHANGED <<unreadable, dropped>> /\ r \in Relays /\ r[2] # "send"
    BY <1>5, ProcessRelay DEF Release, saidVars
  <2>2. PICK m \in picked[n] : HandOn(r, m)
    BY <1>5 DEF Release
  <2>3. m \in Message
    BY DEF RInv, TypeOK
  <2> HIDE DEF r
  <2>4. DeliveredTo(m, NextStage(r[2]))
    BY <2>1, <2>2, <2>3, HandOnTo DEF RInv
  <2> QED BY <2>1, <2>4, DeliveredName DEF AllCounted
<1>6. ASSUME NEW n \in Node, Restart(n) PROVE CountInv'
  <2>1. inbox' = inbox
    BY <1>6 DEF Restart
  <2>2. \A q \in Relays : \/ dropped'[q] = {} /\ unreadable'[q] = 0
                          \/ dropped'[q] = dropped[q] /\ unreadable'[q] = unreadable[q]
    BY <1>6 DEF Restart
  <2>3. Cardinality({}) = 0 /\ IsFiniteSet({})
    BY FS_EmptySet
  <2>4. ASSUME NEW q \in Relays
        PROVE  IsFiniteSet(dropped'[q]) /\ Cardinality(dropped'[q]) <= unreadable'[q]
    <3>1. CASE dropped'[q] = {} /\ unreadable'[q] = 0
      BY <2>3, <3>1
    <3>2. CASE dropped'[q] = dropped[q] /\ unreadable'[q] = unreadable[q]
      BY <3>2 DEF AllCounted
    <3> QED BY <2>2, <3>1, <3>2
  <2>5. AllCounted'
    BY <2>4 DEF AllCounted
  <2>6. OneOfAName'
    BY <2>1 DEF OneOfAName
  <2> QED BY <2>5, <2>6
<1>7. \/ UNCHANGED <<inbox, unreadable, dropped>>
      \/ \E r \in Relays : Claim(r) \/ ClaimUnreadable(r) \/ PassOn(r)
      \/ \E n \in Node : "process" \in Serves[n] /\ Release(n)
      \/ \E n \in Node : Restart(n)
  BY DEF vars, relayVars, saidVars, Next, Tick, Released, Receive, Drain, ClaimEnds, Fails, Send,
         Hold, JudgeEnds, Done, ReleaseFails, ReleaseEnds, Pause, Resume
<1> QED BY <1>1, <1>2, <1>3, <1>4, <1>5, <1>6, <1>7

LEMMA CountInvariance == Spec => [](RInv /\ CountInv)
<1>1. Init => CountInv
  BY FS_EmptySet DEF Init, CountInv, OneOfAName, AllCounted
<1>2. Init => RInv /\ CountInv
  BY <1>1, RelayInit
<1>3. RInv /\ CountInv /\ [Next]_vars => (RInv /\ CountInv)'
  BY RelayNext, CountNext
<1> QED BY <1>2, <1>3, PTL DEF Spec

-----------------------------------------------------------------------------
\* Nothing is lost silently (relay.rs, handoff.rs): where no receiver is started
\* again, whatever arrived is on its way, held, sent, said to have failed,
\* dropped as unreadable by a stage whose count tells of all it dropped, or was
\* taken by a process since killed, for any roster and any restarts of the
\* process and send stages.
THEOREM NothingLostSilently == ASSUME ReceiversStay PROVE Spec => []AccountedFor
<1>1. RInv /\ PathInv /\ CountInv => AccountedFor
  <2> SUFFICES ASSUME RInv, PathInv, CountInv, NEW m \in arrived
               PROVE  \/ InHand(m) \/ Waiting(m) \/ Kept(m)
                      \/ m \in sent \/ m \in failed \/ m \in lost
                      \/ \E r \in Relays : /\ m \in dropped[r]
                                           /\ unreadable[r] >= Cardinality(dropped[r])
    BY DEF AccountedFor
  <2>1. \A r \in Relays : unreadable[r] >= Cardinality(dropped[r])
    <3> SUFFICES ASSUME NEW r \in Relays PROVE unreadable[r] >= Cardinality(dropped[r])
      OBVIOUS
    <3>1. IsFiniteSet(dropped[r]) /\ Cardinality(dropped[r]) <= unreadable[r]
      BY DEF CountInv, AllCounted
    <3>2. Cardinality(dropped[r]) \in Nat
      BY <3>1, FS_CardinalityType
    <3>3. unreadable[r] \in Nat
      BY DEF RInv, TypeOK
    <3> QED BY <3>1, <3>2, <3>3
  <2>2. OnItsWay(m)
    BY DEF PathInv, AllOnTheirWay
  <2> QED BY <2>1, <2>2, Zenon DEF OnItsWay
<1> QED BY <1>1, PathInvariance, CountInvariance, PTL

\* What a Subscription holds leaves its queue only once it is on its way out
\* (Subscribing::done follows hand_on), however the node is killed between.
THEOREM HeldSurvives == ASSUME ReceiversStay PROVE Spec => HeldUntilHandedOn
<1> DEFINE Kept1 == \A n \in Node : \A m \in queue[n] :
                       \/ m \in queue'[n]
                       \/ Waiting(m) \/ m \in sent \cup failed \cup lost
                       \/ \E r \in Relays : r[2] = "send" /\ m \in hand[r] \cup dropped[r]
<1>1. RInv /\ PathInv /\ [Next]_vars => [Kept1]_vars
  <2> SUFFICES ASSUME RInv, PathInv, Next PROVE Kept1
    OBVIOUS
  <2> SUFFICES ASSUME NEW n \in Node, NEW m \in queue[n]
               PROVE  \/ m \in queue'[n]
                      \/ Waiting(m) \/ m \in sent \cup failed \cup lost
                      \/ \E r \in Relays : r[2] = "send" /\ m \in hand[r] \cup dropped[r]
    OBVIOUS
  <2>1. m \in queue'[n] \/ GoneOut(m)
    BY EveryWay
  <2> QED BY <2>1 DEF GoneOut, Waiting
<1> QED BY <1>1, PathInvariance, PTL DEF Spec, HeldUntilHandedOn
=============================================================================
