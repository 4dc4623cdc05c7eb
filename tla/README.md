# TLA+ models of the Xmip Essentials

The Xmip Essentials (`src/`, crate `xmip-core-test-essentials`) exercises Xmip over
time: a *roll* runs tests in its own process, starts a *cluster* process, and the
cluster starts and watches *node* processes that run the tests they were told over
directories they share. This directory models the parts in which several processes
or threads meet over files and the tests a process runs over its rounds, checks them
with TLC and proves the most important results with TLAPS.

## The system: inventory

| Part | State it keeps | Operations | Meets the others through |
|---|---|---|---|
| ExclusiveClaim test (`exclusive_claim.rs`, `exclusive_claim/pickup.rs`) | lanes of items, lock files and done records on disk; round and standing per style | stage a lane, race readers, settle, judge, tear down | one directory scanned by the readers of every node process |
| Cluster supervision (`cluster.rs`, `cluster/member.rs`, `cluster/liveness.rs`, `cluster/rollup.rs`) | a member per node: child, last beat, last publication, restarts; the assembled view | start, tick (read, judge, restart, assemble), stop | beat and publication files, signals, exit statuses |
| Node and heartbeat (`bin/node.rs`, `heartbeat.rs`) | rounds done, the beat file | beat from a thread, run a round, publish, leave | as above; the stop file |
| Process tree (`bin/roll.rs`, `cluster/spawned.rs`, `bin/cluster.rs`) | children held, the stop file, the cluster's publication | start, tick, ask to leave, wait, kill | the stop file, exit statuses, kills |
| Relay (`relay.rs`, `relay/judging.rs`, `handoff.rs`, `roster.rs`) | round, cursor, count; inboxes on disk | receive, claim, judge, hand on | inboxes of the next stage's nodes |
| Subscriptions (`subscribing.rs`, `operator_orders.rs`) | paused Subscriptions and held messages in a Storage node | route, hold, pause, resume, release, read back | the process stage's tick; orders left in files |
| Drop box (`drop_box.rs`, `drop_box/judged.rs`, `drop_box/far_ends.rs`) | records, Locations, signatures, the judgment | drop a burst, claim, accept, sign, judge, clear | Locations every receiving node reads |
| Schedule, ledger, tally (`schedule.rs`, `schedule/`) | round, cursor, a tally per pair, transport figures, recent items | drive a slice from worker threads, restore its order, fold, publish | the relay's ledger is the same |
| In-process tests (`in_process.rs`, `heavy_load.rs`, `low_latency.rs`, `retention.rs`, `filing.rs`, `storm.rs`) | a standing or a ring of samples per scope; the live and archived items; the cursor of a slice | tick | the roll's snapshot, merged test after test |
| DailyBacklog (`daily_backlog.rs`) | files in a directory; readers, nodes, the last measure | feed, drain, measure, escalate | one directory every node process feeds and drains |
| Verdicts, faults, rotation, stress, identity (`verdict.rs`, `round_trip.rs`, `standing.rs`, `fault.rs`, `rotation.rs`, `stress.rs`, `parties.rs`, `identity.rs`) | counts; otherwise pure | judge, fold, fire, rotate, level | every test |
| Eventing (`eventing.rs`) | two Parties' Event subscriptions of a node's hub and what they hold; the failing pairs a stage was last raised with | subscribe, raise, hear, drain, pause, resume, remove | the hub's queues, operations' listener thread, operator's orders |
| Carried, served, real (`carried.rs`, `served.rs`, `real.rs`, `far_end.rs`) | services started, real nodes found, files dropped and not yet seen to arrive | find, start, await, drop, look in Storage, settle, stop, kill | processes and services outside; the roll's start, round and leave |
| Publication, topology, report (`publication.rs`, `topology.rs`, `report.rs`, ...) | none of their own | write what the others hold | files a surface reads |

What is hard here, and what the models are aimed at (`hazards` in `PROJECT.json`
gives each at its line):

- **interleaving over files**: lock creation, renames, records that exist before they
  are written, a listing older than what is done with it, a stop file that one
  process clears and another writes;
- **kills and restarts**: the cluster kills a hung node at any file-system call; what
  it held in memory is gone, what it wrote stays, and its counts begin anew;
- **timeouts**: silence, GRACE, DRAIN_WAIT, nested stop waits, the grace of a file;
- **partial failure**: a delivery, a release, a record or a spawn that fails half way;
  a sweep that misses an item, a pair of many that panics;
- **long sequences**: what a test remembers over rounds in which a pair waits, passes,
  meets another size or is struck by another fault.

What makes each part correct: an item has one holder and is consumed only signed; only a
silent node is restarted, and a silent one always; no process outlives the one that
started it; a message that arrived is accounted for and not sent twice; a dropped file is
taken by one node and judged once; who hears of failures hears how many; a scheduled round
is what one thread in matrix order would have made of it; no pair is passed over; what was
red, leaked, panicked or met its ceiling is never shown green; services leave before what
they need.

## The modules

`X.tla` is a component, `MCX.tla` instantiates it for TLC, `XProofs.tla` holds its
theorems. Those of the modules `Scenarios` composes are in two: `ScenariosProofs` has the
tests that judge by standings, Events and services, `RoundProofs` the rounds of RoundTrip,
LowLatency and DailyBacklog, over the lemmas of `FoldLemmas`. Definitions keep the source's
names where they can; `map` in `PROJECT.json` gives the lines each one stands for. A
definition headed *Mutant* is a plausible bug of the definition after it; no specification
uses one.

**ExclusiveClaim** — one execution style's directory. A lane is its process and round;
`items`, `locks` and `done` are the three kinds of file in it. The process walks
`Stage`, `Join`, `SettleRead`, `SettleDone`/`SettleAgain`/`SettleTimeout`,
`RemoveEntry`..., the reader threads walk `BeginPass`, `Visit`, `Claim`/`Lose`/
`Breach`, `Read`, `Sign`, `WriteRecord`, `Consume`, `GoOn`: one action is one
file-system call. A done record is created empty and written one step later, as the
code does; read in between it has no note and counts as order 0. `Contended` has both
verdicts the code reports so, two holders of an item and a sequence out of order.
`Crash` is the cluster killing the process at any step.

**Cluster** — the cluster process against its nodes. Time is a count of beat
intervals; a running node beats in each, and the cluster may be slow anywhere. `Hear`
and `Fetch` are `Member::read`, `Judge` is `judge_process`, `Restart` and
`RestartFails` its two outcomes, `Assemble` the end of `tick`. A node may be suspended
and resumed by the system, crash, publish or fail to publish.

**ProcessTree** — roll, cluster and nodes from start to leave. The waits are
parameters (`Grace`, `ClusterWait`, `NodeWait`: 2, 10 and 5 seconds in the code), and
so is how long the cluster takes to start (`Boot`) and to come back to the stop file
(`Busy`). `leave` removes the directories and with them the stop file. The stop file's
write may fail (`Unwritable`), which the code does not look at.

**Relay** — the message path over the inboxes, one action per rename, delivery or
verdict, with the Subscriptions of a process stage between claiming and handing on.
A message is the pair, the round and the process that received it, so that what two
processes of one node receive is told apart though their files' names are not. A claim
takes a round's worth, and at least one file (`Limit`, `AtLeastOne`); a claimed file
that does not read back is removed and counted (`ClaimUnreadable`), and a held message
that does not is passed over and stays in its queue (`Pick`).

**DropBox** — the roll dropping and judging, the receiving nodes claiming, accepting
and signing. The transports are other crates'; a receive claims by renaming, and an
acknowledgement that fails leaves the file consumed or put back.

**Scenarios** — the tests a process runs over its rounds (`in_process.rs`), composed. The
tests share no state, so a step is a step of one chosen test, and what it published is
merged into the board. `Scenarios` extends a module per test:

- **Faults** and **Verdicts** are operators: the fault plan, the levels, the Parties spread
  over the transports and the fault rotating over them; an exchange's answer judged into
  a verdict with its stages and identity steps; the slice, the fold into tallies, figures
  and recent items. A rule fires on a 64-bit hash modulo 100, which is replaced by a
  draw per key and round. **Standing** is `standing.rs`.
- **Schedule** — `Begin` takes the slice and puts the workers to it, `Fetch` takes the next
  place from their one counter, `Judge` judges the pair there and keeps the verdicts, and
  `Finish`, once all have run out, puts them back in order and folds them. **InOrder** is
  the abstract round: the slice judged in matrix order and folded in one step, whatever
  judging and folding are (they are its parameters). `Sequential` is `InOrder`'s
  specification under the mapping that forgets the workers, checked as a property of the
  detailed one and proved of it.
- **LowLatency**, **HeavyLoad**, **Retention**, **Filing**, **Storm** — one thread each (the
  storm's workers are Schedule's, on whose order it does not depend), so a tick is one
  action. What an adapter answers is chosen; sizes are lengths, time is microseconds or
  simulated days.
- **DailyBacklog** — several processes over one directory: `Arrive`, `List`, `Drain` and
  `Measure` are separate steps; a write or the listing may fail, and a listed file may be
  gone.
- **Eventing** — two Parties subscribe to a node's Events, or are refused (`Subscribe`). A
  round (`RoundBegins`, `RoundEnds`) raises an Event per stage whose failing pairs changed
  (`Raise`) into queues that may be full; operations' listener hears them whenever its
  thread runs, on-call at the end of the round (`Hear`), and an operator pauses, resumes or
  removes either subscription (`Act`). The hub is another crate's: a queue that is full
  takes no more.
- **ServedNodes** — the nodes a roll does not simulate. `Find`, `serve`, `spawned`,
  `accepting` are the roll's start; `RollRound` drops and seeks files; `Leave`, `settled`,
  `StopRest`, `Killed`, `StopStores`, `Removed` its end. What `xmip-service` does (`Says`,
  `Moves`, `Exits`) is external.

`Cluster` and `ProcessTree` share the node's process and the cluster's: the first is
about its life, the second about its end, where a restart changes nothing (a member
has one process before and after). `ExclusiveClaim`, `Relay` and `DropBox` are what
nodes do within a round; the kills and restarts they allow are the ones `Cluster`
shows can happen. In `Scenarios` a roll that relays leaves RoundTrip to the nodes, which
is `Relay`'s.

## The runs

| Run | Bounds | What it shows |
|---|---|---|
| `claim_items` | 2 processes, a reader each, a key of 2 items, 1 round, 1 pass; one process pressured, failing and with a lane staged in part | one honest holder per item; held is still true of the lane when it is said |
| `claim_keys` | Sequential, 2 passes; one process mortal, pressured and with a lane staged in part | orders of a key grow with its sequence; nothing is consumed unsigned; contention, of holders or of order, is reported only where a breach was injected or a record was read before it was written; every round is judged |
| `claim_stale_ledger` | as the first, nothing injected | **violation**: a lane drained by honest holders is judged missed |
| `claim_unmarked_breach` | as the first, one pressured | **violation**: an injected breach is reported without its note |
| `cluster_watch` | 1 node of 2 rounds, 2 processes, Silence 1, Starting 2, suspension, crash, failing restart | only the node's own silence restarts it; a hung one is ended; a restart stays visible; the view is never stale; the last round of a first process is read |
| `cluster_lost_round` | 1 node of 1 round, suspension | **violation**: the last round of a restarted node is never read |
| `tree_stops` | 3 nodes, waits 2/6/3, Boot 3, Busy 2, an old file possibly left, a stop file that may not be written | no orphans of a cluster that was up when the file was written; what was asked is heard; the roll ends |
| `tree_orphans` | 1 node, Boot beyond Grace | **violation**: a cluster still starting clears the request, is killed and leaves its node |
| `relay_path` | a node per stage, 2 pairs, 2 rounds of one pair each and as many files as a claim takes, process node restarted once, 2 orders, all faults, files that do not read back | nothing lost without a verdict, a count or the process that had it; only a held message is sent twice; a held one stays until handed on; everything settles |
| `relay_replaced` | the same, receive node restarted | **violation**: the restarted node's handoff replaces its predecessor's |
| `drop_box` | 2 nodes, a Location behind a server, 2 files, a kill, all faults | one winner per file; judged, and once; the roll's split is the nodes' own counts |
| `scenarios` | a roll per test, and one that relays; 3 transports (the steady one, one with identity faults, one with a ceiling), 2 Parties, 2 workers; the harsh level and the rotating fault; draws at both ends; 2 rounds of the schedule, 2 of the backlog with 2 processes and of the Events of 2 stages with queues of 2, up to 12 of the others; 3 services, 2 files, a crash | rounds judged by threads are rounds in order (refinement); turns are even; nothing injected reaches the steady transport; figures agree with their records; late samples fade; ceilings, leaks, panics and reds are not hidden; nothing retained is lost; a drained file counts once; what a Party last heard is current; services leave in order |

The bounds are the smallest in which the hard cases all happen, which the mutants confirm:
each property is shown to fail when one definition is changed the way a plausible bug
would change it, under the same bounds. Two processes suffice to race a lane and to be
killed holding its lock; two items, to be reordered; two processes of a node, for one to
inherit from the other; two files in an inbox and a claim of one, for a claim to leave one
behind; two Events in a queue of two and a third to find it full. In `scenarios` the ring,
the sizes' cycle and the retention window are each gone round at least once (12 rounds of
one pair a round over three pairs is four turns of each; a ring of three is overwritten),
and the slices (2 and 1 of 3) do not divide the matrix. In `ProcessTree` only the order of
the durations matters, and the theorems below hold for all of them. In `claim_items` and
`claim_keys`, `relay_path`, `scenarios` and the process tree a state with no step is the
end of a bounded run, and deadlock is not checked.

### Fairness

- Claim: every thread that is not killed runs on (weak fairness per thread), and
  DRAIN_WAIT runs out (strong fairness of `SettleTimeout`: `settle`'s loop passes its
  deadline however often it came round before).
- Cluster: a running node beats (its own thread does nothing else), time passes, the
  cluster's loop goes round and GRACE ends its wait (strong fairness of `EndRead`).
  Nothing is asked of a node's rounds.
- Tree: roll and cluster are scheduled and time passes; a node may hang for good.
- Relay: every stage's loop goes round; no operator need leave an order.
- Drop box: the roll goes round and records age; nothing is asked of a node.
- Scenarios: none; its properties are safety, the refinement included.

### What the violations show

Each is a disagreement of the code with a sentence beside it; `findings` quotes them.
`settle` reads the ledger before it lists the lane, so that "once it is drained" is not
what it returns; a done record exists before its note; `restarted` keeps `read_at`;
`Cluster::judged` clears a stop file that may be the roll's request; and a restarted
relay's count begins where its predecessor's did. Beside each, a passing run states
what does hold: `HeldMeansOneHolder`, `ContentionIsInjected`, `LastRoundRead`,
`NoOrphansOnceUp`, `AccountedFor`.

## The proofs

Every theorem is of the specification the runs check, for every value of its constants
that the modules' named assumptions allow. Each rests on an inductive invariant, since
what a property says seldom tells why a step cannot break it; below, the invariant is
what is added and why.

**`ExclusiveClaimProofs`** — any processes, readers, keys, items per key, rounds and
passes, any of the processes killed, pressured or failing.

- `TypeCorrect`: `TypeOK`; `Exclusive`: `OneHolderWhileOpen`.

`OneHolderWhileOpen` speaks of records only, and says nothing of why a second one
cannot appear. The inductive `IInv` adds the reason: a lock of an open lane has one
creator (`OneCreator`), a reader inside `process` for an item is the creator of the
lock that item is behind (`HolderHasLock`), and an honest record's holder is the
creator of its item's lock (`RecordHasLock`). `LockOf` joins both styles: a key's lock
is named by the key's first item. The rest of `IInv` keeps lanes, rounds and readers in
step: readers run only while their process races them, a lane to come is empty, and a
reader visits only lanes that have been.

The second half of the module is about what the ledger says, over `IInv`:

- `OrderIsKept`: `KeyOrderWhileOpen`; `SignedBeforeConsumed`: `ConsumedIsSigned`;
  `BreachIsInjected`: `ContentionIsInjected`, in both styles;
- `HeldIsHeld`: the action property `HeldMeansOneHolder`.

`LInv` follows a holder through its key: while it holds it, every honest record of the
key is of an earlier item and was signed before its process's clock came to where it is
(`KeyProgress`), so two processes' clocks are never compared. A holder about to consume
has signed (`ConsumerSigned`), a holder has one record of an item (`OneRecord`), and what
a judge saw signed is still signed in its open lane when it judges (`SeenIsSigned`): with
nothing injected there, one holder per item is then one record per item. The count in
`HeldMeansOneHolder` needs keys to be finite, which `ConstantsAssumption` says.

**`ProcessTreeProofs`** — any number of nodes and any durations.

- `TreeTypeCorrect`: `TypeOK`;
- `TreeLeavesNoOrphans`: if the waits nest (`Busy + NodeWait < ClusterWait`), a cluster
  that was up when the stop file was written leaves no node;
- `PromptTreeLeavesNoOrphans`: if moreover it starts within the roll's first tick, no
  older file ends that tick at once and the stop file can be written, no node is ever
  left: the first is what `tree_orphans` violates;
- `AskedStaysAsked`: the action property `AskedIsHeard`, whatever the waits: a cluster
  asked once up is past the one place that clears the file (`PastStart`).

The invariant `TreeInv` bounds how long the roll can have been waiting by where the
cluster is: at most since its last look while it works, `Busy` more while it waits for
its nodes, `NodeWait` more while it kills them, so that the roll's wait cannot be over
before `ctl` is `gone`; and the members below the one being killed are dead.

**`ClusterProofs`** — any nodes, rounds, processes of a node and allowances.

- `ClusterTypeCorrect`: `TypeOK`; `ViewNeverStale`: `ViewIsCurrent`;
  `RestartNeverForgotten`: `RestartStays`;
- `SilenceIsTheNodes`: the action property `OnlySilentRestarted`.

`CInv` has for the silence that with no new beat in the file the cluster's count of
silent intervals is at most the node's own (`AgeIsSilence`): judging hears first, so what
it condemns by is the node's. For the view, that only members read since the last
assembly can differ in what they published (`OnlyFreshDiffer`) and that none is left
over between ticks (`IdleIsStale`, `Worded`); for the restart, that a process after the
first was counted (`RestartsCounted`).

**`DropBoxProofs`** — any nodes, Locations, bursts and rounds, whatever fails.

- `DropBoxTypeCorrect`: `TypeOK`; `OneWinner`: `OnlyOneWins`; `OneJudgment`:
  `JudgedOnce`; `SplitNeverAhead`: `SplitIsTaken`.

`DInv` says where a file can be: in its Location, in one node's hand, accepted by one or
signed for by one (`Apart`), and nowhere before the roll has come to it (`Unsent`), which
is why sending never makes a second copy. A file judged whose record is there again is
one whose record would not go (`JudgedAgain`); the counts compare finite sets, so files
are shown to be finite first.

**`RelayProofs`** — any roster, shares, slices, Subscriptions, rounds and restarts.

- `RelayTypeCorrect`: `TypeOK`, the cursor's wrap within its share included;
  `OnlyHeldIsResent`: `SentOnce`;
- if receivers are not started again (`ReceiversStay`), `NothingLostSilently`:
  `AccountedFor`, and `HeldSurvives`: the action property `HeldUntilHandedOn`.

`RInv` has that a message arrives once, since a process counts its rounds and no two
processes are one (`ArrivedPast`), and that one no Subscription held is in one place
(`InOnePlace`): only a queue keeps what it hands on. `PathInv` adds that what was handed
on has gone out (`HandedIsOut`) and that a pair and a round name one message
(`OneReceived`), so that a delivery that replaces a file replaces it by the same message.
`ReceiversStay` is needed for just that: `relay_replaced` is a restarted receiver whose
handoff replaces another message. `relay_path`, where a process node is restarted,
satisfies it. `CountInv` has that a stage's count of unreadable files covers the messages
it dropped, which is why `AccountedFor` may ask for that count where there is no verdict.

**`ScenariosProofs`** — each part's invariant is kept by its own step and untouched by the
others'.

- `LastEventIsCurrent`: `HeardIsCurrent`. What a Party knows is a fold of its queue, so the
  invariant (`EventInv`) speaks of the last Event in the queue about a stage: its figure is
  up to date, and where none is queued what the Party knows is (`LastIsUpToDate`). A
  refusal, a full queue or a removal excuses a Party for good; a stage whose records went,
  operations until its next Event;
- `RetainedOrArchived`: `NothingLost`, and `EveryLeakIsTold`: `LeaksAreTold`, inductive
  together (`KeepInv`): an item that is aged stays aged, and each tick sweeps what is
  live and aged into the store or onto a red stage;
- `GreenTickHidNothing`: `TickTellsAll`, for any matrix, budget, draws and time a storm takes:
  a pair that failed without a reason of its own is in no fault's way (`ReasonIsItsOwn`), so
  the tick is not green;
- `LeaveIsOrdered`: `LeavesInOrder`, from `ServedInv`: how long the roll has waited bounds
  the age of every file still under way (`Overdue`), nobody is asked before the leave
  (`NobodyAsked`) and what the nodes keep is there until the end (`AreaKept`);
- `RedStandingsStay`, the part of `RedIsRemembered` about the tests that judge by standings
  (HeavyLoad, Retention, Filing, storm, DailyBacklog), which `RedStays` below completes: a
  tick only ever adds to a standing's counts (`Folded`), a red one has counted a failure
  (`Counted`), and what was counted is not forgotten (`Remembered`);
- `CeilingStaysShown`: `CeilingShows`, over the same standings: the cursor is where the
  number of rounds has brought it (`CursorAt`), also where the slice does not divide the
  matrix, so that a round's number tells which pairs it carried, and a pair carried past
  its ceiling has failed (`CeilingMarred`).

**`RoundProofs`** — any matrix, slice, number of threads, level, rotation, draws and answers;
any ring and replies; any number of processes over the backlog.

- `ThreadsKeepOrder`: `Sequential`, the refinement of `InOrder`;
- `TurnsStayEven`: `TurnsAreEven`; `SteadyIsSpared`: `SteadyStaysGreen`; `FiguresAddUp`:
  `FiguresAgree`; `RedStays`: `RedIsRemembered` of every test, the round trip included;
- `SpikesLeave`: `SpikesFade`; `BacklogDrainsOnce`: `DrainedOnce`.

What these say is what loops compute: a round folds a sequence of verdicts, an order is
restored by a sort, a count is a sum. Such facts need induction over data, and the
library's induction theorems take the property as an operator, which no prover here can
instantiate. `FoldLemmas` states induction with the property as a *set*: `SetInduction` (a
set of naturals with 0 and closed under successor has them all, from a least
counterexample) and `SubsetInduction` (the same over the subsets of a finite set, by
cardinality). From them it shows that the library's recursive `SumFunction` satisfies the
equations one expects (`SumsExist`, `SumsRemove`: independent of the order in which the
elements are picked), how a sum follows a change of its function (`SumChange`, `SumGrow`,
`SumDiffer`), and where every element of a `FlattenSeq` comes from (`FlattenSources`).

The inductive invariant is `RoundsInv`, one conjunct for each thing that is folded:

- `RoundInv` (of the threads) says where every place of the slice is: not handed out yet,
  in one worker's hand, or judged once, by the right judgement and in one worker's results
  (`Handed`, `Judged`). When all have run out the results are one per place
  (`OnePerPlace`), so that the stable sort can only give the matrix order, and `Finish` maps
  to `InOrder`'s `Tick`; every other step maps to a stutter.
- `LedgerInv` (of the ledger) is what folding one verdict keeps, carried over a round's
  verdicts by `Folds`, the ledgers on the way: counts are consistent (`TalliedLedger`) and a
  transport's figures are the sums over its contracts' records (`Agreeing`). A ledger only
  grows (`Grown`), which is why a red stays.
- `Green` is `SteadyStaysGreen` carried by the same fold; the work is in the judgement: no
  rule of a level's plan, of the rotation or of the identity pipeline names the steady
  transport at Receive or Send, for any hash.
- `EvenInv` says more than `TurnsAreEven`, which is not inductive as a difference: there is
  a number of turns every pair has had, and the pairs before the cursor have had one more.
  A slice of at most the matrix, wrapping or not, keeps it.
- `BoardInv` ties the board to the ledger it was closed from; `RedInv` has that every red
  seen in RoundTrip is a scope with a failure counted.
- `LatInv` has that the samples younger than the quiet count are within the budget, by
  their age in the ring (`Calm`): once the count is the ring's length, so is every sample,
  and with them whichever the percentile picks.
- `BacklogInv` is `DrainedOnce` with the types: what was written is what waits and what was
  counted, since a drain counts what it removed, whatever was listed.

The assumptions are those named in the modules (`ConstantsAssumption`, `TreeAssumption`,
`DropBoxAssumption`, `RosterAssumption`, `MatrixAssumption`, `LoadAssumption`,
`RetentionAssumption`, `StormAssumption`, `ServedAssumption`, `ScheduleAssumption`,
`SteadyAssumption`, `OnceAssumption`, `LatencyAssumption`, `BacklogAssumption`): constants
are numbers where the code has unsigned integers, a day is not zero seconds long, a ring
not without places, and sets of nodes, pairs and keys are finite. `OnceAssumption` is how
TRANSPORTS and CONTRACTS are written; `SteadyAssumption` is what `SteadyStaysGreen` is about
at all: schedules inject a level's plan or none, every Party holds an identity of its own,
and the file adapter itself answers whole. The runs evaluate every one.

Only model-checked: every liveness property (`EveryRoundJudged`, `HungIsEnded`,
`LastRoundRead`, `TreeEnds`, `EverySettles`, `EveryFileJudged`), as liveness under fairness
is out of the prover's reach. Every invariant, every action property and the refinement
that a passing run checks is also a theorem.

## What modelling met

Places where the code and what is said of it deserve a second look, beside the findings:

- `low_latency.rs:151` says a pair that waits keeps its percentiles and its health; a
  waiting pair is republished from its ring (`:201`), so a pair whose last exchange failed
  reads fine in the rounds it waits. `SpikesFade` asks green of a waiting pair only by
  its samples.
- Two rules never fire, as an earlier one with the same key and no smaller chance always
  fires first: `fault.rs:206-213` is behind `:190-197`, and
  `identity.rs:127-132` behind `:121-126`. The model keeps the order of the rules.
- `retention.rs`: an item past its window that the store refuses is red at the archive
  stage only; retain reads green for it. `LeaksAreTold` therefore asks for either stage.
- `eventing.rs:176-178`: a stage that publishes no records in a round is remembered as having
  none failing, and nothing is raised, so operations' last word of it stays a failure (the
  test at `:257-258` drives this). In the node program a stage's ledger never forgets its
  pairs, so its records do not go; `HeardIsCurrent` names the case (`vanished`).
- A done record read before it is written counts as order 0, so a sequence that was kept may
  be judged reordered, and so Contended, with nothing injected. `ContentionIsInjected` names
  the case.
- A file an inbox cannot read back is removed (`handoff.rs:149-157`): what it carried has no
  verdict at any stage and is told only by a count, which a restart begins anew.
- The stop file's write is not looked at (`spawned.rs:135`): where it fails, the roll waits
  in vain and kills a cluster that still has its nodes.
- A standing never fades: a scope once red is at best yellow for the life of the process.
- HeavyLoad checks the round's size against a ceiling before the payload is padded to its
  contract's form, which may be longer.
- LowLatency's warm-up counts the test's rounds, not a pair's own turns, and a percentile
  of up to a hundred samples leaves the slowest out.
- A failed transport is charged to Receive only (`stage_outcome`).
- DailyBacklog counts its feeders from the names of the files left: where one feeder's are
  all drained, the other's share is the whole backlog.

## Plan

1. The roll's own round as a composition: the cluster's view, the drop box and the
   publication, and what a surface may read between two of them; the cluster's
   publication that is not written again until it changes belongs here.
2. An abstract specification of a claim (an item is free, held or consumed) that
   `ExclusiveClaim`, an inbox of `Relay` and a Location of `DropBox` implement.
3. Theorems: that a claim's components implement its abstract specification.

## Not modelled

The transports, archives, identity gates, event hub, servers and `xmip-service` are
other crates' and appear as outcomes the models choose; evidence lines and the figures
beside a record's health are left out where no property depends on them; how headroom
measures a machine and the configuration a service is given are input of the models;
command lines, environment variables and image names are read once; boards, topology,
publications, reports, curves and audit records are rendering of state the other parts
hold; helpers behind `test-support` are tests'. `components` in `PROJECT.json`
lists every part with its status.

Within what is modelled, these are coarser than the code:

- `Cluster.Judge` listens to a member and judges it in one step: a beat written between the
  two calls, which the code misses as it does one written just after, does not arise.
  `MoreRounds` has a number of rounds; a node told 0 goes on until the stop file, which is
  `ProcessTree`'s.
- `DropBox.JudgeFile` reads the signatures of a file and removes its record in one step.
- `Retention.KeepTick` is a tick in which time has passed; another one sweeps again what is
  aged already.
- `Storm.StormTick` has no totals of what was delivered and moved, which are only published.
  What drives it from round to round (`Scenarios.StormStep`) is, in the repository, a test.
- In `ServedNodes` real nodes that take no Location are `Locations = 0`.
- In `DailyBacklog` a directory that cannot be read is an empty listing; that it cannot be
  measured is left out.
- In `Relay` a held message that does not read back is passed over; that the runtime counts
  it is left out. A stage's own count of unreadable files is its process's.
