------------------------------ MODULE MCRelay ------------------------------
(***************************************************************************)
(* Instances of Relay for TLC: a path of one node per stage.               *)
(***************************************************************************)
EXTENDS Relay, TLC

CONSTANTS r1, p1, s1, json, csv, u1

PathNodes == {r1, p1, s1}
PathServes == (r1 :> {"receive"}) @@ (p1 :> {"process"}) @@ (s1 :> {"send"})
BothPairs == {json, csv}
PathShare == r1 :> <<json, csv>>
PathHashed == [s \in {"process", "send"} |->
                 [p \in BothPairs |-> IF s = "process" THEN p1 ELSE s1]]
OneSubscription == {u1}
PickedByOne == [p \in BothPairs |-> u1]
Nobody == {}
ProcessNode == {p1}
Upstream == {r1}
=============================================================================
