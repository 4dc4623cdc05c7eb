--------------------------- MODULE ExclusiveClaim ---------------------------
(***************************************************************************)
(* The ExclusiveClaim test (src/src/exclusive_claim.rs and its pickup.rs): *)
(* node processes drop items into lanes of one shared directory and race   *)
(* reader threads for the items of every lane.  A reader claims by         *)
(* creating a lock file (create_new), signs a done record for what it      *)
(* processed and consumes the item; the process that dropped the items     *)
(* judges its lane from the done records and tears the lane down.          *)
(*                                                                         *)
(* One action is one file-system call of the code, or a run of calls no    *)
(* other actor can tell apart.  The module models one execution style's    *)
(* directory: Ordered is the Sequential style (a lock per key), its        *)
(* negation Parallel and Concurrent (a lock per item).                     *)
(***************************************************************************)
EXTENDS Integers, FiniteSets

CONSTANTS
    Process,    \* the node processes over the directory, by process id
    Reader,     \* the reader threads of a process (READERS)
    Key,        \* the order keys of a lane, numbered from 0 (KEYS)
    PerKey,     \* items per key (PER_KEY)
    Ordered,    \* TRUE for the Sequential style
    Shared,     \* TRUE when readers scan every process's lanes
    MaxRound,   \* bound: rounds a process runs
    Scans,      \* bound: passes an honest reader makes (SCANS)
    Pressured,  \* the processes whose breach rate is above zero
    Mortal,     \* the processes that may be killed
    Faulty,     \* the processes that may fail to open a file for other reasons
    Writable    \* the item sets each process's staging may manage to write

Item   == Key \X (0 .. PerKey - 1)
Holder == Process \X Reader
Lane   == Process \X (1 .. MaxRound)

ASSUME ConstantsAssumption ==
    /\ Key \subseteq Nat /\ IsFiniteSet(Key) /\ 0 \in Key
    /\ PerKey \in Nat \ {0}
    /\ MaxRound \in Nat \ {0}
    /\ Scans \in Nat \ {0}
    /\ Ordered \in BOOLEAN /\ Shared \in BOOLEAN
    /\ Pressured \subseteq Process /\ Mortal \subseteq Process /\ Faulty \subseteq Process
    /\ Writable \in [Process -> SUBSET SUBSET Item]

VARIABLES
    lane,     \* a lane's directory: "none", "open", "judged" or "gone"
    items,    \* the items still in each lane
    locks,    \* the lock files in each lane, each with who created it
    done,     \* the done records in each lane
    pc,       \* where each process is in exercise()
    round,    \* its round
    broken,   \* whether this round's injected breach fires
    clock,    \* its readers' shared order counter
    dropped,  \* the items it laid in its lane
    seen,     \* the ledger settle() read last
    closed,   \* why settle() returned (history)
    verdict,  \* what it judged last
    at,       \* where each reader is in run()
    scan,     \* the passes it has begun
    left,     \* the lanes its pass has yet to visit
    here,     \* the lane it is in
    todo,     \* the items or keys it has yet to try there
    cur       \* the item it is processing

dirVars    == <<lane, items, locks, done>>
procVars   == <<pc, round, broken, clock, dropped, seen, closed, verdict>>
readerVars == <<at, scan, left, here, todo, cur>>
vars       == <<dirVars, procVars, readerVars>>

\* A done record.  Its order and its injected note are the file's content,
\* which a reader of the file sees only once it is written.
Record == [item: Item, holder: Holder, order: Nat,
           injected: BOOLEAN, written: BOOLEAN]

Verdict == {"none", "held", "missed", "contended", "injected", "reordered"}

\* The three lines of Verdict::Contended: two holders, the same with the note,
\* and a sequence processed out of order.
Contended == {"contended", "injected", "reordered"}

Own(p)     == <<p, round[p]>>
Exists(l)  == lane[l] \in {"open", "judged"}

\* Mutant: the lock is opened with create, not create_new.
NeverTaken(l, i) == FALSE

\* Somebody's lock file is there, so create_new fails.
Taken(l, i) == \E h \in Holder : <<i, h>> \in locks[l]

Init ==
    /\ lane    = [l \in Lane |-> "none"]
    /\ items   = [l \in Lane |-> {}]
    /\ locks   = [l \in Lane |-> {}]
    /\ done    = [l \in Lane |-> {}]
    /\ pc      = [p \in Process |-> "idle"]
    /\ round   = [p \in Process |-> 0]
    /\ broken  = [p \in Process |-> FALSE]
    /\ clock   = [p \in Process |-> 0]
    /\ dropped = [p \in Process |-> {}]
    /\ seen    = [p \in Process |-> {}]
    /\ closed  = [p \in Process |-> "none"]
    /\ verdict = [p \in Process |-> "none"]
    /\ at      = [h \in Holder |-> "out"]
    /\ scan    = [h \in Holder |-> 0]
    /\ left    = [h \in Holder |-> {}]
    /\ here    = [h \in Holder |-> <<h[1], 1>>]
    /\ todo    = [h \in Holder |-> {}]
    /\ cur     = [h \in Holder |-> <<0, 0>>]

-----------------------------------------------------------------------------
(* The process: drop, race, settle, judge, tear down. *)

\* stage_lane: the items are written behind a dot and renamed into place, so
\* the lane appears whole; then race() starts the readers, all of them broken
\* when fires_keyed says so (a hash of the style and the round).
Stage(p) ==
    /\ pc[p] = "idle" /\ round[p] < MaxRound
    /\ \E written \in Writable[p] :
        LET l == <<p, round[p] + 1>> IN
        /\ lane'    = [lane EXCEPT ![l] = "open"]
        /\ items'   = [items EXCEPT ![l] = written]
        /\ dropped' = [dropped EXCEPT ![p] = written]
    /\ round' = [round EXCEPT ![p] = @ + 1]
    /\ \E b \in IF p \in Pressured THEN BOOLEAN ELSE {FALSE} :
          broken' = [broken EXCEPT ![p] = b]
    /\ clock' = [clock EXCEPT ![p] = 0]
    /\ seen'    = [seen EXCEPT ![p] = {}]
    /\ closed'  = [closed EXCEPT ![p] = "none"]
    /\ verdict' = [verdict EXCEPT ![p] = "none"]
    /\ pc'    = [pc EXCEPT ![p] = "race"]
    /\ at'    = [h \in Holder |-> IF h[1] = p THEN "pass" ELSE at[h]]
    /\ scan'  = [h \in Holder |-> IF h[1] = p THEN 0 ELSE scan[h]]
    /\ UNCHANGED <<locks, done, left, here, todo, cur>>

\* The lane could not be made: the round is missed and nothing is raced.
StageFails(p) ==
    /\ pc[p] = "idle" /\ round[p] < MaxRound
    /\ round'   = [round EXCEPT ![p] = @ + 1]
    /\ verdict' = [verdict EXCEPT ![p] = "missed"]
    /\ closed'  = [closed EXCEPT ![p] = "unstaged"]
    /\ seen'    = [seen EXCEPT ![p] = {}]
    /\ UNCHANGED <<dirVars, pc, broken, clock, dropped, readerVars>>

\* The scope that spawned the readers joins them all.
Join(p) ==
    /\ pc[p] = "race"
    /\ \A h \in Holder : h[1] = p => at[h] = "out"
    /\ pc' = [pc EXCEPT ![p] = "settle"]
    /\ UNCHANGED <<dirVars, round, broken, clock, dropped, seen, closed, verdict, readerVars>>

\* settle(): the ledger is read first...
SettleRead(p) ==
    /\ pc[p] = "settle"
    /\ seen' = [seen EXCEPT ![p] = done[Own(p)]]
    /\ pc'   = [pc EXCEPT ![p] = "check"]
    /\ UNCHANGED <<dirVars, round, broken, clock, dropped, closed, verdict, readerVars>>

\* What the judge makes of the records it read: a file not yet written reads
\* as order 0 and no note.
OrderRead(d)    == IF d.written THEN d.order ELSE 0
InjectedRead(d) == d.written /\ d.injected

Duplicated(ds) == \E d, e \in ds : d.item = e.item /\ d.holder # e.holder

\* Two records of one key, the later item's order before, or level with, the
\* earlier's.  Level ones fall in directory order, which may be either.
Reversed(ds) == \E d, e \in ds : /\ d.item[1] = e.item[1]
                                 /\ d.item[2] < e.item[2]
                                 /\ OrderRead(e) < OrderRead(d)
Level(ds)    == \E d, e \in ds : /\ d.item[1] = e.item[1]
                                 /\ d.item[2] < e.item[2]
                                 /\ OrderRead(e) = OrderRead(d)

\* Mutant: what nobody signed is not missed.
MissedNever(ds, laid) == FALSE

Missed(ds, laid) == Cardinality({d.item : d \in ds}) < Cardinality(laid)

\* judge(): the verdicts it may come to over the records ds.
Judge(ds, laid) ==
    IF Duplicated(ds)
    THEN {IF \E d \in ds : InjectedRead(d) THEN "injected" ELSE "contended"}
    ELSE IF Missed(ds, laid) THEN {"missed"}
    ELSE IF Ordered /\ Reversed(ds) THEN {"reordered"}
    ELSE IF Ordered /\ Level(ds) THEN {"reordered", "held"}
    ELSE {"held"}

\* ...and the verdict is reached for the reason named in why.
Conclude(p, why) ==
    /\ \E v \in Judge(seen[p], dropped[p]) : verdict' = [verdict EXCEPT ![p] = v]
    /\ closed' = [closed EXCEPT ![p] = why]
    /\ lane'   = [lane EXCEPT ![Own(p)] = "judged"]
    /\ pc'     = [pc EXCEPT ![p] = "teardown"]
    /\ UNCHANGED <<items, locks, done, round, broken, clock, dropped, seen, readerVars>>

\* ...then the lane is listed: drained, or a breach already visible, ends it.
SettleDone(p) ==
    /\ pc[p] = "check"
    /\ ~Shared \/ items[Own(p)] = {} \/ Duplicated(seen[p])
    /\ Conclude(p, IF Duplicated(seen[p]) THEN "duplicated" ELSE "drained")

SettleAgain(p) ==
    /\ pc[p] = "check"
    /\ Shared /\ items[Own(p)] # {} /\ ~Duplicated(seen[p])
    /\ pc' = [pc EXCEPT ![p] = "settle"]
    /\ UNCHANGED <<dirVars, round, broken, clock, dropped, seen, closed, verdict, readerVars>>

\* DRAIN_WAIT has run out.
SettleTimeout(p) ==
    /\ pc[p] = "check"
    /\ Shared /\ items[Own(p)] # {} /\ ~Duplicated(seen[p])
    /\ Conclude(p, "timeout")

\* remove_lane: remove_dir_all takes the entries one by one, in any order.
RemoveEntry(p) ==
    /\ pc[p] = "teardown"
    /\ LET l == Own(p) IN
        \/ \E i \in items[l] : /\ items' = [items EXCEPT ![l] = @ \ {i}]
                               /\ UNCHANGED <<locks, done>>
        \/ \E k \in locks[l] : /\ locks' = [locks EXCEPT ![l] = @ \ {k}]
                               /\ UNCHANGED <<items, done>>
        \/ \E d \in done[l]  : /\ done' = [done EXCEPT ![l] = @ \ {d}]
                               /\ UNCHANGED <<items, locks>>
    /\ UNCHANGED <<lane, procVars, readerVars>>

RemoveLane(p) ==
    /\ pc[p] = "teardown"
    /\ items[Own(p)] = {} /\ locks[Own(p)] = {} /\ done[Own(p)] = {}
    /\ lane' = [lane EXCEPT ![Own(p)] = "gone"]
    /\ pc'   = [pc EXCEPT ![p] = "idle"]
    /\ UNCHANGED <<items, locks, done, round, broken, clock, dropped, seen, closed, verdict,
                   readerVars>>

\* Three tries failed: the lane stays, litter the readers still scan.
LeaveLitter(p) ==
    /\ pc[p] = "teardown"
    /\ pc' = [pc EXCEPT ![p] = "idle"]
    /\ UNCHANGED <<dirVars, round, broken, clock, dropped, seen, closed, verdict, readerVars>>

\* The cluster kills a hung node: its threads are gone, its files stay.
Crash(p) ==
    /\ p \in Mortal /\ pc[p] # "dead"
    /\ pc' = [pc EXCEPT ![p] = "dead"]
    /\ at' = [h \in Holder |-> IF h[1] = p THEN "out" ELSE at[h]]
    /\ UNCHANGED <<dirVars, round, broken, clock, dropped, seen, closed, verdict,
                   scan, left, here, todo, cur>>

-----------------------------------------------------------------------------
(* The reader: Reader::run. *)

\* Mutant: a reader rescans until its lane is drained, however often.
PassNotCounted(n) == n

PassCounted(n) == n + 1

\* lanes(): the lanes of this pass, as the directory lists them now.
BeginPass(h) ==
    /\ at[h] = "pass"
    /\ left' = [left EXCEPT ![h] =
                  IF Shared THEN {l \in Lane : Exists(l)} ELSE {Own(h[1])}]
    /\ scan' = [scan EXCEPT ![h] = PassCounted(@)]
    /\ at'   = [at EXCEPT ![h] = "lanes"]
    /\ UNCHANGED <<dirVars, procVars, here, todo, cur>>

\* Into a lane: per_key tries every key, per_item and without_claiming what
\* the lane lists.
Visit(h) ==
    /\ at[h] = "lanes"
    /\ \E l \in left[h] :
        /\ here' = [here EXCEPT ![h] = l]
        /\ left' = [left EXCEPT ![h] = @ \ {l}]
        /\ todo' = [todo EXCEPT ![h] =
                      IF Ordered /\ ~broken[h[1]] THEN Key \X {0} ELSE items[l]]
    /\ at' = [at EXCEPT ![h] = "try"]
    /\ UNCHANGED <<dirVars, procVars, scan, cur>>

\* A broken reader makes one pass.
Passes(h) == IF broken[h[1]] THEN 1 ELSE Scans

\* The own lane is drained or the passes are spent; else another pass.
EndPass(h) ==
    /\ at[h] = "lanes" /\ left[h] = {}
    /\ at' = [at EXCEPT ![h] =
                IF items[Own(h[1])] = {} \/ scan[h] >= Passes(h) THEN "out" ELSE "pass"]
    /\ UNCHANGED <<dirVars, procVars, scan, left, here, todo, cur>>

\* What a reader tries next: any item of its list, or the lowest key.
Candidate(h, i) ==
    /\ i \in todo[h]
    /\ Ordered /\ ~broken[h[1]] => \A j \in todo[h] : i[1] <= j[1]

\* claimed(): create_new succeeds for the one creator.
Claim(h) ==
    /\ at[h] = "try" /\ ~broken[h[1]]
    /\ \E i \in todo[h] :
        /\ Candidate(h, i)
        /\ Exists(here[h]) /\ ~Taken(here[h], i)
        /\ locks' = [locks EXCEPT ![here[h]] = @ \cup {<<i, h>>}]
        /\ todo'  = [todo EXCEPT ![h] = @ \ {i}]
        /\ cur'   = [cur EXCEPT ![h] = i]
    /\ at' = [at EXCEPT ![h] = "read"]
    /\ UNCHANGED <<lane, items, done, procVars, scan, left, here>>

\* The lock is another's, or the lane is gone: a lost race.
Lose(h) ==
    /\ at[h] = "try" /\ ~broken[h[1]]
    /\ \E i \in todo[h] :
        /\ Candidate(h, i)
        /\ ~Exists(here[h]) \/ Taken(here[h], i) \/ h[1] \in Faulty
        /\ todo' = [todo EXCEPT ![h] = @ \ {i}]
    /\ UNCHANGED <<dirVars, procVars, at, scan, left, here, cur>>

\* without_claiming: the injected breach takes no lock.
Breach(h) ==
    /\ at[h] = "try" /\ broken[h[1]]
    /\ \E i \in todo[h] :
        /\ todo' = [todo EXCEPT ![h] = @ \ {i}]
        /\ cur'  = [cur EXCEPT ![h] = i]
    /\ at' = [at EXCEPT ![h] = "read"]
    /\ UNCHANGED <<dirVars, procVars, scan, left, here>>

\* The lane's list is through; what the reader knew of it goes out of scope.
LeaveLane(h) ==
    /\ at[h] = "try" /\ todo[h] = {}
    /\ at'   = [at EXCEPT ![h] = "lanes"]
    /\ here' = [here EXCEPT ![h] = Own(h[1])]
    /\ cur'  = [cur EXCEPT ![h] = <<0, 0>>]
    /\ UNCHANGED <<dirVars, procVars, scan, left, todo>>

\* Mutant: the sequence runs one past the key's last item.
MorePastEnd(i) == i[2] < PerKey

More(i) == i[2] + 1 < PerKey

\* On to the key's next item, or back to the list.
GoOn(h) ==
    IF Ordered /\ ~broken[h[1]] /\ More(cur[h])
    THEN /\ cur' = [cur EXCEPT ![h] = <<cur[h][1], cur[h][2] + 1>>]
         /\ at'  = [at EXCEPT ![h] = "read"]
    ELSE /\ at'  = [at EXCEPT ![h] = "try"]
         /\ UNCHANGED cur

\* Mutant: the item is removed before its record is signed.
ReadAndConsume(h) ==
    /\ at[h] = "read" /\ cur[h] \in items[here[h]]
    /\ at' = [at EXCEPT ![h] = "sign"]
    /\ items' = [items EXCEPT ![here[h]] = @ \ {cur[h]}]
    /\ UNCHANGED <<lane, locks, done, procVars, scan, left, here, todo, cur>>

\* process(): the item is read...
Read(h) ==
    /\ at[h] = "read" /\ cur[h] \in items[here[h]]
    /\ at' = [at EXCEPT ![h] = "sign"]
    /\ UNCHANGED <<dirVars, procVars, scan, left, here, todo, cur>>

\* ...or is gone already, which is no pickup.
ReadGone(h) ==
    /\ at[h] = "read" /\ (cur[h] \notin items[here[h]] \/ h[1] \in Faulty)
    /\ GoOn(h)
    /\ UNCHANGED <<dirVars, procVars, scan, left, here, todo>>

Signed(h) == \E d \in done[here[h]] : d.item = cur[h] /\ d.holder = h

\* Mutant: the breach signs like everyone else.
NoNote(h) == FALSE

\* What the reader notes in its record: that it took no lock.
Note(h) == broken[h[1]]

\* Mutant: the order is loaded, never advanced.
AdvanceNot(n) == n

\* fetch_add(1) on the clock its process's readers share.
Advance(n) == n + 1

\* ...the order taken and the done record created, empty as yet; a record of
\* this holder's from an earlier round stays as it is, and a record that
\* cannot be created does not keep the item from being consumed...
Sign(h) ==
    /\ at[h] = "sign"
    /\ clock' = [clock EXCEPT ![h[1]] = Advance(@)]
    /\ \/ /\ Exists(here[h]) /\ ~Signed(h)
          /\ done' = [done EXCEPT ![here[h]] = @ \cup
                        {[item |-> cur[h], holder |-> h, order |-> clock[h[1]],
                          injected |-> Note(h), written |-> FALSE]}]
          /\ at' = [at EXCEPT ![h] = "write"]
       \/ /\ ~Exists(here[h]) \/ Signed(h) \/ h[1] \in Faulty
          /\ at' = [at EXCEPT ![h] = "consume"]
          /\ UNCHANGED done
    /\ UNCHANGED <<lane, items, locks, pc, round, broken, dropped, seen, closed, verdict,
                   scan, left, here, todo, cur>>

\* ...its content written...
WriteRecord(h) ==
    /\ at[h] = "write"
    /\ done' = [done EXCEPT ![here[h]] =
                  {IF d.item = cur[h] /\ d.holder = h
                   THEN [d EXCEPT !.written = TRUE] ELSE d : d \in @}]
    /\ at' = [at EXCEPT ![h] = "consume"]
    /\ UNCHANGED <<lane, items, locks, procVars, scan, left, here, todo, cur>>

\* ...and the item consumed, unless this is the injected breach.
Consume(h) ==
    /\ at[h] = "consume"
    /\ items' = IF broken[h[1]] THEN items
                ELSE [items EXCEPT ![here[h]] = @ \ {cur[h]}]
    /\ GoOn(h)
    /\ UNCHANGED <<lane, locks, done, procVars, scan, left, here, todo>>

-----------------------------------------------------------------------------
ProcessStep(p) ==
    \/ Stage(p) \/ StageFails(p) \/ Join(p)
    \/ SettleRead(p) \/ SettleDone(p) \/ SettleAgain(p) \/ SettleTimeout(p)
    \/ RemoveEntry(p) \/ RemoveLane(p) \/ LeaveLitter(p)

ReaderStep(h) ==
    \/ BeginPass(h) \/ Visit(h) \/ EndPass(h)
    \/ Claim(h) \/ Lose(h) \/ Breach(h) \/ LeaveLane(h)
    \/ Read(h) \/ ReadGone(h) \/ Sign(h) \/ WriteRecord(h) \/ Consume(h)

Next ==
    \/ \E p \in Process : ProcessStep(p) \/ Crash(p)
    \/ \E h \in Holder : ReaderStep(h)

Spec == Init /\ [][Next]_vars

\* A thread that is not killed runs on, and DRAIN_WAIT does run out: past it
\* every look at the lane ends the wait, however often the loop came round.
Fairness ==
    /\ \A p \in Process : /\ WF_vars(ProcessStep(p))
                          /\ SF_vars(SettleTimeout(p))
    /\ \A h \in Holder : WF_vars(ReaderStep(h))

FairSpec == Spec /\ Fairness

-----------------------------------------------------------------------------
(* Properties. *)

TypeOK ==
    /\ lane    \in [Lane -> {"none", "open", "judged", "gone"}]
    /\ items   \in [Lane -> SUBSET Item]
    /\ locks   \in [Lane -> SUBSET (Item \X Holder)]
    /\ done    \in [Lane -> SUBSET Record]
    /\ pc      \in [Process -> {"idle", "race", "settle", "check", "teardown", "dead"}]
    /\ round   \in [Process -> 0 .. MaxRound]
    /\ broken  \in [Process -> BOOLEAN]
    /\ clock   \in [Process -> Nat]
    /\ dropped \in [Process -> SUBSET Item]
    /\ seen    \in [Process -> SUBSET Record]
    /\ closed  \in [Process -> {"none", "unstaged", "drained", "duplicated", "timeout"}]
    /\ verdict \in [Process -> Verdict]
    /\ at      \in [Holder -> {"out", "pass", "lanes", "try", "read", "sign", "write",
                               "consume"}]
    /\ scan    \in [Holder -> Nat]
    /\ left    \in [Holder -> SUBSET Lane]
    /\ here    \in [Holder -> Lane]
    /\ todo    \in [Holder -> SUBSET Item]
    /\ cur     \in [Holder -> Item]

\* "One holder at a time" (exclusive_claim.rs:1): until a lane is judged, two
\* done records of one item that no injected breach signed are one holder's,
\* whatever process it runs in.  (A judged lane is torn down entry by entry, a
\* lock possibly before its item, so a straggler may claim such an item again.)
OneHolderWhileOpen ==
    \A l \in Lane : lane[l] = "open" =>
        \A d, e \in done[l] :
            d.item = e.item /\ ~d.injected /\ ~e.injected => d.holder = e.holder

\* "One holder per key keeps the order" (pickup.rs:87): in the Sequential style
\* the honest records of one key carry orders that grow with the sequence,
\* though the counters of two processes cannot be compared.
KeyOrderWhileOpen ==
    Ordered => \A l \in Lane : lane[l] = "open" =>
        \A d, e \in done[l] :
            /\ ~d.injected /\ ~e.injected
            /\ d.item[1] = e.item[1] /\ d.item[2] < e.item[2]
            => d.order < e.order

\* A round is reported Contended, for two holders or for a reordered sequence,
\* only over a breach the test injected: among the records the judge read, one
\* was signed by a reader that took no lock.  The one exception is a sequence
\* read while a record of it was not yet written, and so counted as order 0.
ContentionIsInjected ==
    \A p \in Process : verdict[p] \in Contended =>
        \/ \E d \in seen[p] : d.injected
        \/ verdict[p] = "reordered" /\ \E d \in seen[p] : ~d.written

\* Held means what it says: a process that reports its claim held had every
\* item it dropped signed by exactly one holder, at the moment it reports and
\* not only when it last read the ledger, unless a breach was injected since.
HeldMeansOneHolder ==
    [][\A p \in Process :
        /\ pc[p] = "check" /\ pc'[p] = "teardown" /\ verdict'[p] = "held"
        /\ \A d \in done[Own(p)] : ~d.injected
        => \A i \in dropped[p] :
             Cardinality({d \in done[Own(p)] : d.item = i}) = 1]_vars

\* Nothing is consumed unsigned: process() signs the record before it removes
\* the item, so an item missing from a lane not yet judged has a done record,
\* also when the holder was killed half way.
ConsumedIsSigned ==
    Faulty = {} => \A l \in Lane : lane[l] = "open" =>
        dropped[l[1]] \ items[l] \subseteq {d.item : d \in done[l]}

\* A round ends: the readers give up after SCANS passes and settle() after
\* DRAIN_WAIT, whoever was killed holding a lock of the lane.
EveryRoundJudged ==
    \A p \in Process : pc[p] = "race" ~> pc[p] \in {"teardown", "dead"}

\* "The ledger for this process's lane once it is drained" (settle): a judge
\* that saw its lane drained has the record of every item in hand.
DrainedLedgerIsWhole ==
    \A p \in Process : closed[p] = "drained" /\ Shared => verdict[p] # "missed"

\* "A breach the essentials injected says so" (judge): a contention the judge
\* reports without the note has no injected record among those it read.
InjectedSaysSo ==
    \A p \in Process : verdict[p] = "contended" => \A d \in seen[p] : ~d.injected
=============================================================================
