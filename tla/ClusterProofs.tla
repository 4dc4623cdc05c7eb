---------------------------- MODULE ClusterProofs ---------------------------
(***************************************************************************)
(* Cluster: type correctness, the view that is never stale, the restart    *)
(* that stays visible, and that only a node's own silence restarts it, for *)
(* any number of nodes and rounds and any allowances.                      *)
(*                                                                         *)
(* The argument for the last: every beat marks the beat file as new, and   *)
(* hearing it sets the cluster's count of silent intervals back, so while  *)
(* nothing new lies in the file that count cannot be ahead of the node's   *)
(* own.  Judging hears first, and what it then condemns by is the node's.  *)
(***************************************************************************)
EXTENDS Cluster, TLAPS

Wording == {"done", "fine, exited", "stressed, exited", "stressed", "starting",
            "first round", "fine", "unsaid"}

ViewType == view \in [Node -> [published: Nat \X (0 .. Rounds), process: Wording \X Nat]]

\* The cluster is at a member while it fetches or restarts one.
AtMember == ctl \in {"fetch", "restart"} => at \in Node

\* A round that was published is one of those the node was told to run.
ToldIsARound == \A n \in Node : phase[n] = "told" => rounds[n] < Rounds

\* A second process is a restart the cluster counted.
RestartsCounted == \A n \in Node : life[n] > 1 => restarts[n] > 0

\* With no new beat in the file, the cluster has heard of the node as late as
\* the node has beaten, or later.
AgeIsSilence == \A n \in Node : ~beat[n].new => age[n] <= still[n]

\* What the view says of a member's publication is what was read last, but
\* for the members read since.
OnlyFreshDiffer == \A n \in Node : n \notin fresh => view[n].published = published[n]

\* Between ticks the view words every member as it stands, or nothing was
\* ever said of it and it runs as its first process.
Worded == ctl = "idle" => \A n \in Node :
    \/ view[n].process = Word(n)
    \/ view[n].process = <<"unsaid", 0>> /\ life[n] = 1

\* The view is assembled anew at the end of a tick, when nothing is fresh.
IdleIsStale == ctl = "idle" => fresh = {}

CInv ==
    /\ TypeOK /\ ViewType /\ AtMember /\ ToldIsARound
    /\ RestartsCounted /\ AgeIsSilence
    /\ OnlyFreshDiffer /\ Worded /\ IdleIsStale

-----------------------------------------------------------------------------
(* Facts about the operators. *)

\* A table stays one of its kind when one entry is replaced.
LEMMA Entry ==
    ASSUME NEW D, NEW S, NEW f \in [D -> S], NEW d, NEW v \in S
    PROVE  [f EXCEPT ![d] = v] \in [D -> S]
OBVIOUS

\* Counting on keeps two counts in order.
LEMMA LaterOrder ==
    /\ \A i \in Nat : Later(i) \in Nat
    /\ \A i, j \in Nat : i <= j => Later(i) <= Later(j)
<1>1. Window \in Nat
  BY ConstantsAssumption DEF Window
<1> QED BY <1>1 DEF Later

\* A member is worded, and a restarted one never as if nothing happened.
LEMMA WordType ==
    ASSUME TypeOK
    PROVE  \A n \in Node :
             /\ Word(n) \in (Wording \ {"unsaid"}) \X Nat
             /\ restarts[n] > 0 => Word(n)[1] \in {"stressed", "stressed, exited", "done"}
<1> SUFFICES ASSUME NEW n \in Node
             PROVE  /\ Word(n) \in (Wording \ {"unsaid"}) \X Nat
                    /\ restarts[n] > 0 => Word(n)[1] \in {"stressed", "stressed, exited", "done"}
  OBVIOUS
<1>1. restarts[n] \in Nat
  BY DEF TypeOK
<1>2. /\ \A w \in Wording \ {"unsaid"}, k \in Nat : <<w, k>> \in (Wording \ {"unsaid"}) \X Nat
      /\ \A w, k : <<w, k>>[1] = w
  OBVIOUS
<1>3. CASE restarts[n] = 0
  <2>1. \E w \in Wording \ {"unsaid"} : Word(n) = <<w, 0>>
    <3>1. ~(restarts[n] > 0)
      BY <1>3
    <3>2. \E w \in {"done", "fine, exited", "starting", "first round", "fine"} : Word(n) = <<w, 0>>
      BY <1>3, <3>1, Zenon DEF Word
    <3> QED BY <3>2 DEF Wording
  <2> QED BY <1>2, <1>3, <2>1
<1>4. CASE restarts[n] > 0
  <2>1. \/ Word(n) = <<"done", 0>>
        \/ Word(n) = <<"stressed, exited", restarts[n]>>
        \/ Word(n) = <<"stressed", restarts[n]>>
    <3>1. restarts[n] # 0
      BY <1>4
    <3> QED BY <1>4, <3>1, Zenon DEF Word
  <2>2. {"done", "stressed, exited", "stressed"} \subseteq Wording \ {"unsaid"}
    BY DEF Wording
  <2>3. PICK w \in {"done", "stressed, exited", "stressed"}, k \in Nat : Word(n) = <<w, k>>
    BY <1>1, <2>1
  <2>4. Word(n) \in (Wording \ {"unsaid"}) \X Nat
    BY <1>2, <2>2, <2>3
  <2>5. Word(n)[1] = w
    BY <1>2, <2>3, Zenon
  <2>6. Word(n)[1] \in {"stressed", "stressed, exited", "done"}
    BY <2>3, <2>5, Zenon
  <2> QED BY <2>4, <2>6, Zenon
<1>5. restarts[n] = 0 \/ restarts[n] > 0
  BY <1>1
<1> QED BY <1>3, <1>4, <1>5, Zenon

-----------------------------------------------------------------------------
\* What the view says of a member before anything was read of it.
LEMMA NothingSaid ==
    [published |-> <<0, 0>>, process |-> <<"unsaid", 0>>]
      \in [published: Nat \X (0 .. Rounds), process: Wording \X Nat]
<1>1. <<0, 0>> \in Nat \X (0 .. Rounds)
  BY ConstantsAssumption
<1>2. <<"unsaid", 0>> \in Wording \X Nat
  BY DEF Wording
<1> QED BY <1>1, <1>2

LEMMA ClusterInit == Init => CInv
<1> SUFFICES ASSUME Init PROVE CInv OBVIOUS
<1> USE DEF Init, None, Silent
<1>1. TypeOK
  BY ConstantsAssumption DEF TypeOK
<1>2. ViewType
  BY NothingSaid DEF ViewType
<1>3. AtMember /\ ToldIsARound /\ RestartsCounted /\ AgeIsSilence /\ IdleIsStale
  BY DEF AtMember, ToldIsARound, RestartsCounted, AgeIsSilence, IdleIsStale
<1>4. OnlyFreshDiffer /\ Worded
  BY DEF OnlyFreshDiffer, Worded
<1> QED BY <1>1, <1>2, <1>3, <1>4 DEF CInv

\* What wording a member depends on, and so what keeps the cluster's part.
LEMMA SameWord ==
    UNCHANGED <<exit, restarts, beaten, heard>> => \A n \in Node : Word(n)' = Word(n)
BY DEF Word

\* A step of a node, or of time, leaves what the cluster knows but for ages.
LEMMA ClusterKeeps ==
    ASSUME CInv, UNCHANGED <<ctl, at, fresh, exit, restarts, beaten, heard, readAt,
                             published, view, life>>
    PROVE  /\ ViewType' /\ AtMember' /\ RestartsCounted' /\ OnlyFreshDiffer'
           /\ Worded' /\ IdleIsStale'
BY SameWord DEF CInv, ViewType, AtMember, RestartsCounted, OnlyFreshDiffer, Worded, IdleIsStale

LEMMA NodeInv ==
    ASSUME CInv, NEW n \in Node,
           NodeStep(n) \/ Crash(n) \/ Suspend(n) \/ Resume(n)
    PROVE  CInv'
<1> USE DEF CInv
<1> USE DEF NodeStep, Beat, HalfBeat, Publish, Round, Leave, Crash, Suspend, Resume, memberVars
<1>1. UNCHANGED <<ctl, at, fresh, exit, restarts, age, beaten, heard, readAt, published, view,
                  life>>
  OBVIOUS
<1>2. ViewType' /\ AtMember' /\ RestartsCounted' /\ OnlyFreshDiffer' /\ Worded' /\ IdleIsStale'
  BY <1>1, ClusterKeeps
<1>3. /\ run' \in [Node -> {"up", "hung", "left", "crashed", "killed"}]
      /\ phase' \in [Node -> {"boot", "work", "told"}]
      /\ still' \in [Node -> Nat]
  <2>0. CASE Beat(n)
    <3>1. phase[n] \in {"boot", "work", "told"}
      BY DEF TypeOK
    <3>2. (IF phase[n] = "boot" THEN "work" ELSE phase[n]) \in {"boot", "work", "told"}
      BY <3>1, Zenon
    <3> QED BY <2>0, <3>2 DEF TypeOK
  <2>1. CASE Round(n)
    BY <2>1 DEF TypeOK
  <2>2. CASE HalfBeat(n) \/ Publish(n) \/ Leave(n) \/ Crash(n) \/ Suspend(n) \/ Resume(n)
    BY <2>2 DEF TypeOK
  <2> QED BY <2>0, <2>1, <2>2
<1>4. /\ rounds' \in [Node -> 0 .. Rounds]
      /\ file' \in [Node -> Nat \X (0 .. Rounds)]
  <2>1. CASE Publish(n)
    <3>1. <<life[n], rounds[n] + 1>> \in Nat \X (0 .. Rounds)
      BY <2>1, ConstantsAssumption DEF TypeOK, MoreRounds
    <3>2. [file EXCEPT ![n] = <<life[n], rounds[n] + 1>>] \in [Node -> Nat \X (0 .. Rounds)]
      BY <3>1, Entry DEF TypeOK
    <3> QED BY <2>1, <3>2 DEF TypeOK
  <2>2. CASE Round(n)
    BY <2>2, ConstantsAssumption DEF TypeOK, ToldIsARound
  <2> QED BY <2>1, <2>2 DEF TypeOK
<1>5. beat' \in [Node -> [rounds: 0 .. Rounds, whole: BOOLEAN, new: BOOLEAN]]
  <2>1. CASE Beat(n)
    BY <2>1 DEF TypeOK
  <2>2. CASE HalfBeat(n)
    BY <2>2 DEF TypeOK
  <2>3. CASE Round(n)
    BY <2>3, <1>4 DEF TypeOK, ToldIsARound
  <2> QED BY <2>1, <2>2, <2>3 DEF TypeOK
<1>6. TypeOK'
  BY <1>1, <1>3, <1>4, <1>5 DEF TypeOK
<1>7. ToldIsARound'
  BY DEF ToldIsARound, TypeOK, MoreRounds
<1>8. AgeIsSilence'
  <2>1. \A m \in Node : /\ beat'[m] = beat[m] /\ still'[m] = still[m]
                        \/ beat'[m].new
    BY DEF TypeOK
  <2> QED BY <1>1, <2>1 DEF AgeIsSilence
<1> QED BY <1>2, <1>6, <1>7, <1>8

LEMMA TimeInv == ASSUME CInv, Time PROVE CInv'
<1> USE DEF CInv, Time
<1>1. ViewType' /\ AtMember' /\ RestartsCounted' /\ OnlyFreshDiffer' /\ Worded' /\ IdleIsStale'
  BY ClusterKeeps
<1>2. TypeOK'
  BY LaterOrder DEF TypeOK
<1>3. ToldIsARound' /\ AgeIsSilence'
  BY LaterOrder DEF ToldIsARound, AgeIsSilence, TypeOK
<1> QED BY <1>1, <1>2, <1>3

-----------------------------------------------------------------------------
(* The cluster's steps. *)

LEMMA WalkInv ==
    ASSUME CInv, BeginTick \/ ReadAgain \/ EndRead
    PROVE  CInv'
<1> USE DEF CInv, BeginTick, ReadAgain, EndRead, nodeVars, memberVars
<1>1. TypeOK'
  BY ConstantsAssumption DEF TypeOK
<1>2. ViewType' /\ AtMember' /\ ToldIsARound' /\ RestartsCounted' /\ AgeIsSilence'
  BY DEF ViewType, AtMember, ToldIsARound, RestartsCounted, AgeIsSilence
<1>3. OnlyFreshDiffer' /\ Worded' /\ IdleIsStale'
  BY DEF OnlyFreshDiffer, Worded, IdleIsStale
<1> QED BY <1>1, <1>2, <1>3

\* Listening keeps the types, and what it clears it has heard.
LEMMA ListenInv ==
    ASSUME CInv, NEW n \in Node, Listen(n), UNCHANGED still
    PROVE  /\ beat' \in [Node -> [rounds: 0 .. Rounds, whole: BOOLEAN, new: BOOLEAN]]
           /\ age' \in [Node -> Nat] /\ beaten' \in [Node -> BOOLEAN]
           /\ heard' \in [Node -> 0 .. Rounds]
           /\ AgeIsSilence'
           /\ age'[n] > 0 => ~beat[n].new /\ age'[n] = age[n]
<1> USE DEF CInv, TypeOK, Listen
<1>1. beat' \in [Node -> [rounds: 0 .. Rounds, whole: BOOLEAN, new: BOOLEAN]]
  OBVIOUS
<1>2. age' \in [Node -> Nat] /\ heard' \in [Node -> 0 .. Rounds]
  OBVIOUS
<1>3. beaten' \in [Node -> BOOLEAN]
  OBVIOUS
<1>4. AgeIsSilence'
  BY DEF AgeIsSilence
<1>5. age'[n] > 0 => ~beat[n].new /\ age'[n] = age[n]
  OBVIOUS
<1> QED BY <1>1, <1>2, <1>3, <1>4, <1>5

LEMMA HearInv == ASSUME CInv, Hear PROVE CInv'
<1> USE DEF CInv, Hear
<1>1. /\ beat' \in [Node -> [rounds: 0 .. Rounds, whole: BOOLEAN, new: BOOLEAN]]
      /\ age' \in [Node -> Nat] /\ beaten' \in [Node -> BOOLEAN]
      /\ heard' \in [Node -> 0 .. Rounds]
      /\ AgeIsSilence'
  BY ListenInv
<1>2. TypeOK'
  BY <1>1 DEF TypeOK
<1>3. ViewType' /\ AtMember' /\ ToldIsARound' /\ RestartsCounted'
  BY DEF ViewType, AtMember, ToldIsARound, RestartsCounted
<1>4. OnlyFreshDiffer' /\ Worded' /\ IdleIsStale'
  BY DEF OnlyFreshDiffer, Worded, IdleIsStale
<1> QED BY <1>1, <1>2, <1>3, <1>4

LEMMA FetchInv == ASSUME CInv, Fetch PROVE CInv'
<1> USE DEF CInv, Fetch, nodeVars
<1>0. at \in Node /\ at' \in 1 .. Size + 1
  BY ConstantsAssumption DEF AtMember, Node
<1>1. /\ published' \in [Node -> Nat \X (0 .. Rounds)] /\ readAt' \in [Node -> 0 .. Rounds]
      /\ fresh' \subseteq Node
  <2>1. file[at] \in Nat \X (0 .. Rounds) /\ heard[at] \in 0 .. Rounds
    BY <1>0 DEF TypeOK
  <2>2. CASE Unread(at) /\ file[at] # None
    <3>1. [published EXCEPT ![at] = file[at]] \in [Node -> Nat \X (0 .. Rounds)]
      BY <2>1, Entry DEF TypeOK
    <3>2. [readAt EXCEPT ![at] = heard[at]] \in [Node -> 0 .. Rounds]
      BY <2>1, Entry DEF TypeOK
    <3>3. /\ published' = [published EXCEPT ![at] = file[at]]
          /\ readAt' = [readAt EXCEPT ![at] = heard[at]]
          /\ fresh' = fresh \cup {at}
      BY <2>2, Zenon
    <3>4. fresh' \subseteq Node
      BY <1>0, <3>3 DEF TypeOK
    <3> QED BY <3>1, <3>2, <3>3, <3>4
  <2>3. CASE ~(Unread(at) /\ file[at] # None)
    BY <2>3 DEF TypeOK
  <2> QED BY <2>2, <2>3
<1>2. TypeOK'
  BY <1>0, <1>1 DEF TypeOK
<1>3. ViewType' /\ AtMember' /\ ToldIsARound' /\ RestartsCounted' /\ AgeIsSilence'
  BY DEF ViewType, AtMember, ToldIsARound, RestartsCounted, AgeIsSilence
<1>4. OnlyFreshDiffer'
  BY <1>0 DEF OnlyFreshDiffer, TypeOK
<1>5. Worded' /\ IdleIsStale'
  BY DEF Worded, IdleIsStale
<1> QED BY <1>2, <1>3, <1>4, <1>5

LEMMA JudgeInv == ASSUME CInv, Judge PROVE CInv'
<1> USE DEF CInv, Judge
<1>1. /\ beat' \in [Node -> [rounds: 0 .. Rounds, whole: BOOLEAN, new: BOOLEAN]]
      /\ age' \in [Node -> Nat] /\ beaten' \in [Node -> BOOLEAN]
      /\ heard' \in [Node -> 0 .. Rounds]
      /\ AgeIsSilence'
  BY ListenInv DEF ListenAgain
<1>2. exit' \in [Node -> {"none", "ok", "bad"}]
  BY DEF TypeOK, Reaped, Status
<1>3. at' \in 1 .. Size + 1 /\ ctl' \in {"judge", "restart"} /\ (ctl' = "restart" => at' \in Node)
  <2>1. at \in 1 .. Size
    BY DEF Node
  <2>2. CASE Hung(at)
    BY <2>1, <2>2, ConstantsAssumption DEF Node
  <2>3. CASE ~Hung(at)
    BY <2>1, <2>3, ConstantsAssumption
  <2> QED BY <2>2, <2>3
<1>4. TypeOK'
  BY <1>1, <1>2, <1>3 DEF TypeOK
<1>5. ViewType' /\ AtMember' /\ ToldIsARound' /\ RestartsCounted'
  BY <1>3 DEF ViewType, AtMember, ToldIsARound, RestartsCounted
<1>6. OnlyFreshDiffer' /\ Worded' /\ IdleIsStale'
  BY <1>3 DEF OnlyFreshDiffer, Worded, IdleIsStale
<1> QED BY <1>1, <1>4, <1>5, <1>6

LEMMA RestartInv == ASSUME CInv, Restart \/ RestartFails PROVE CInv'
<1> USE DEF CInv
<1>0. at \in Node /\ at' \in 1 .. Size + 1 /\ ctl' = "judge"
  BY ConstantsAssumption DEF AtMember, Node, Restart, RestartFails
<1>1. restarts' \in [Node -> Nat] /\ \A n \in Node : restarts'[n] >= restarts[n]
  BY <1>0 DEF Restart, RestartFails, Restarted, TypeOK
<1>2. restarts'[at] > 0
  BY <1>0 DEF Restart, RestartFails, Restarted, TypeOK
<1>3. TypeOK'
  <2>1. CASE Restart
    BY <1>0, <1>1, <2>1, ConstantsAssumption DEF Restart, TypeOK
  <2>2. CASE RestartFails
    BY <1>0, <1>1, <2>2 DEF RestartFails, TypeOK
  <2> QED BY <2>1, <2>2
<1>4. ViewType' /\ AtMember' /\ ToldIsARound'
  BY <1>0 DEF Restart, RestartFails, ViewType, AtMember, ToldIsARound, TypeOK
<1>5. RestartsCounted'
  BY <1>0, <1>1, <1>2 DEF Restart, RestartFails, RestartsCounted, TypeOK
<1>6. AgeIsSilence'
  BY <1>0 DEF Restart, RestartFails, AgeIsSilence, TypeOK
<1>7. OnlyFreshDiffer' /\ Worded' /\ IdleIsStale'
  BY <1>0 DEF Restart, RestartFails, OnlyFreshDiffer, Worded, IdleIsStale
<1> QED BY <1>3, <1>4, <1>5, <1>6, <1>7

\* Nothing fresh and every word as it was: the view is as it would be.
LEMMA AssembleInv == ASSUME CInv, Assemble PROVE CInv'
<1> USE DEF CInv, Assemble, nodeVars, memberVars
<1>1. \A n \in Node : Word(n)' = Word(n)
  BY SameWord
<1>2. \A n \in Node : Word(n) \in Wording \X Nat
  BY WordType
<1>3. TypeOK'
  BY ConstantsAssumption DEF TypeOK
<1>4. \A n \in Node : view'[n].published = published[n] /\ view'[n].process = Word(n)
  <2>1. CASE Changed
    BY <2>1
  <2>2. CASE ~Changed
    BY <2>2 DEF Changed, OnlyFreshDiffer
  <2> QED BY <2>1, <2>2
<1>5. ViewType'
  BY <1>2 DEF ViewType, TypeOK
<1>6. AtMember' /\ ToldIsARound' /\ RestartsCounted' /\ AgeIsSilence' /\ IdleIsStale'
  BY DEF AtMember, ToldIsARound, RestartsCounted, AgeIsSilence, IdleIsStale
<1>7. OnlyFreshDiffer' /\ Worded'
  BY <1>1, <1>4 DEF OnlyFreshDiffer, Worded
<1> QED BY <1>3, <1>5, <1>6, <1>7

-----------------------------------------------------------------------------
(* The invariant and what it implies. *)

LEMMA ClusterNext == CInv /\ [Next]_vars => CInv'
<1> SUFFICES ASSUME CInv, [Next]_vars PROVE CInv' OBVIOUS
<1>1. CASE UNCHANGED vars
  <2> USE <1>1 DEF CInv, vars, nodeVars, memberVars
  <2>1. ViewType' /\ AtMember' /\ RestartsCounted' /\ OnlyFreshDiffer' /\ Worded' /\ IdleIsStale'
    BY ClusterKeeps
  <2>2. TypeOK' /\ ToldIsARound' /\ AgeIsSilence'
    BY DEF TypeOK, ToldIsARound, AgeIsSilence
  <2> QED BY <2>1, <2>2
<1>2. CASE \E n \in Node : NodeStep(n) \/ Crash(n) \/ Suspend(n) \/ Resume(n)
  BY <1>2, NodeInv
<1>3. CASE Time
  BY <1>3, TimeInv
<1>4. CASE ClusterStep
  BY <1>4, WalkInv, HearInv, FetchInv, JudgeInv, RestartInv, AssembleInv DEF ClusterStep
<1> QED BY <1>1, <1>2, <1>3, <1>4 DEF Next

LEMMA ClusterInvariance == Spec => []CInv
BY ClusterInit, ClusterNext, PTL DEF Spec

\* Every reachable state of the cluster and its nodes is well typed.
THEOREM ClusterTypeCorrect == Spec => []TypeOK
<1>1. CInv => TypeOK
  BY DEF CInv
<1> QED BY <1>1, ClusterInvariance, PTL

\* Not assembling an unchanged view again (cluster.rs, tick) never leaves a
\* stale one.
THEOREM ViewNeverStale == Spec => []ViewIsCurrent
<1>1. CInv => ViewIsCurrent
  <2> SUFFICES ASSUME CInv, ctl = "idle", NEW n \in Node,
                      view[n].process # <<"unsaid", 0>>
               PROVE  view[n] = [published |-> published[n], process |-> Word(n)]
    BY DEF ViewIsCurrent
  <2>1. view[n].process = Word(n) /\ view[n].published = published[n]
    BY DEF CInv, Worded, OnlyFreshDiffer, IdleIsStale
  <2>2. view[n] \in [published: Nat \X (0 .. Rounds), process: Wording \X Nat]
    BY DEF CInv, ViewType
  <2> QED BY <2>1, <2>2
<1> QED BY <1>1, ClusterInvariance, PTL

\* A member that was restarted (cluster.rs, restart) is never again shown as if
\* nothing had happened.
THEOREM RestartNeverForgotten == Spec => []RestartStays
<1>1. CInv => RestartStays
  <2> SUFFICES ASSUME CInv, ctl = "idle", NEW n \in Node, life[n] > 1
               PROVE  view[n].process[1] \in {"stressed", "stressed, exited", "done"}
    BY DEF RestartStays
  <2>1. restarts[n] > 0
    BY DEF CInv, RestartsCounted
  <2>2. view[n].process = Word(n)
    BY DEF CInv, Worded, TypeOK
  <2> QED BY <2>1, <2>2, WordType DEF CInv
<1> QED BY <1>1, ClusterInvariance, PTL

\* However slow the cluster is over its publications, it restarts a node only
\* for the node's own silence (cluster.rs, judge_process).
THEOREM SilenceIsTheNodes == Spec => OnlySilentRestarted
<1>1. CInv /\ [Next]_vars =>
        [ctl = "judge" /\ ctl' = "restart" =>
            still[at] > IF beaten'[at] THEN Silence ELSE Starting]_vars
  <2> SUFFICES ASSUME CInv, Next, ctl = "judge", ctl' = "restart"
               PROVE  still[at] > IF beaten'[at] THEN Silence ELSE Starting
    OBVIOUS
  <2>1. Judge
    BY DEF Next, NodeStep, Beat, HalfBeat, Publish, Round, Leave, Crash, Suspend, Resume, Time,
           ClusterStep, BeginTick, Hear, Fetch, ReadAgain, EndRead, Restart, RestartFails,
           Assemble
  <2>2. at \in Node /\ Hung(at) /\ Listen(at) /\ UNCHANGED still
    BY <2>1 DEF Judge, ListenAgain
  <2>3. age'[at] > IF beaten'[at] THEN Silence ELSE Starting
    BY <2>2 DEF Hung
  <2>4. age'[at] > 0 => ~beat[at].new /\ age'[at] = age[at]
    BY <2>2, ListenInv
  <2>5. age'[at] \in Nat /\ age[at] \in Nat /\ still[at] \in Nat
    BY <2>2, ListenInv DEF CInv, TypeOK
  <2>6. age[at] <= still[at]
    BY <2>2, <2>3, <2>4, <2>5, ConstantsAssumption DEF CInv, AgeIsSilence
  <2> QED BY <2>3, <2>4, <2>5, <2>6, ConstantsAssumption
<1> QED BY <1>1, ClusterInvariance, PTL DEF Spec, OnlySilentRestarted
=============================================================================
