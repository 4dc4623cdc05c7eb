------------------------------ MODULE Retention -----------------------------
(***************************************************************************)
(* The Retention test (retention.rs): over simulated time an item per      *)
(* class is created each day, retained while it is young and archived once *)
(* it passed its window.  An item is its class and the day it was created. *)
(* One thread runs it, so a tick is one step.                              *)
(***************************************************************************)
EXTENDS Faults, Standing

CONSTANTS
    SECONDS_PER_DAY,    \* the day's length in the clock's units (86 400)
    KEEP_DAYS,          \* days an item is retained (90)
    MAX_DAYS_PER_TICK,  \* bound of the code: days one tick may create (60)
    KeepStress,         \* the level sweeps are missed at
    Misses,             \* the draws the misses of a round may make
    Horizon,            \* bound: simulated time
    MaxStep             \* bound: simulated time between two ticks

\* A day has a length.
ASSUME RetentionAssumption ==
    /\ SECONDS_PER_DAY \in Nat \ {0} /\ KEEP_DAYS \in Nat /\ MAX_DAYS_PER_TICK \in Nat
    /\ Horizon \in Nat /\ MaxStep \in Nat

VARIABLES
    simulated,      \* simulated time of the last tick
    emitted_days,   \* days items were created for
    live, archived, \* the two buckets
    keepStandings   \* a standing per stage and class

keepVars == <<simulated, emitted_days, live, archived, keepStandings>>

MISS_RATE == 5

Class == {Contracts[i] : i \in DOMAIN Contracts}
Sweep == {"retain", "archive"}

\* The window: a saturating age, in whole days.
Aged(item, now) ==
    LET created == item.day * SECONDS_PER_DAY
        age     == IF now > created THEN now - created ELSE 0
    IN  age \div SECONDS_PER_DAY >= KEEP_DAYS

\* The days one tick may reach.
target(now) == Least({now \div SECONDS_PER_DAY, emitted_days + MAX_DAYS_PER_TICK})

create_through(now) == [class: Class, day: emitted_days + 1 .. target(now)]

miss(kind, class, misses) ==
    fires(scaled_rate(MISS_RATE, KeepStress), misses, <<kind, class>>)

\* The item an archive store refuses: one that was marked so.
poisoned(item, misses) == miss("archive-fault", item.class, misses)

\* Mutant: what the store refuses is dropped from both buckets.
try_archive_dropping(item, misses) ==
    CASE miss("archive-skip", item.class, misses) ->
            [kept |-> TRUE, archived |-> FALSE, leak |-> {"retain"}]
      [] ~miss("archive-skip", item.class, misses) /\ poisoned(item, misses) ->
            [kept |-> FALSE, archived |-> FALSE, leak |-> {"archive"}]
      [] OTHER -> [kept |-> FALSE, archived |-> TRUE, leak |-> {}]

\* Mutant: a missed sweep leaves the item live and says nothing.
try_archive_silent(item, misses) ==
    CASE miss("archive-skip", item.class, misses) ->
            [kept |-> TRUE, archived |-> FALSE, leak |-> {}]
      [] ~miss("archive-skip", item.class, misses) /\ poisoned(item, misses) ->
            [kept |-> TRUE, archived |-> FALSE, leak |-> {"archive"}]
      [] OTHER -> [kept |-> FALSE, archived |-> TRUE, leak |-> {}]

\* An aged item: missed, refused by the store, or archived.
try_archive(item, misses) ==
    CASE miss("archive-skip", item.class, misses) ->
            [kept |-> TRUE, archived |-> FALSE, leak |-> {"retain"}]
      [] ~miss("archive-skip", item.class, misses) /\ poisoned(item, misses) ->
            [kept |-> TRUE, archived |-> FALSE, leak |-> {"archive"}]
      [] OTHER -> [kept |-> FALSE, archived |-> TRUE, leak |-> {}]

KeepInit ==
    /\ simulated = 0 /\ emitted_days = 0
    /\ live = {} /\ archived = {}
    /\ keepStandings = [s \in Sweep \X Class |-> NoStanding]

\* tick: create, sweep, and fold a verdict per stage and class.  A tick at an
\* unchanged time, which sweeps again what is already aged, is left out.
KeepTick ==
    \E now \in simulated .. Least({simulated + MaxStep, Horizon}), misses \in Misses :
       LET held == live \cup create_through(now)
           aged == {i \in held : Aged(i, now)}
           Leaks(sweep, class) ==
                \E i \in aged : i.class = class /\ sweep \in try_archive(i, misses).leak
       IN  /\ now > simulated
           /\ simulated'    = now
           /\ emitted_days' = Most({emitted_days, target(now)})
           /\ live'     = {i \in held : i \in aged => try_archive(i, misses).kept}
           /\ archived' = archived \cup {i \in aged : try_archive(i, misses).archived}
           /\ keepStandings' = [s \in Sweep \X Class |->
                record(keepStandings[s], IF Leaks(s[1], s[2]) THEN "fail" ELSE "pass")]

-----------------------------------------------------------------------------
(* Properties. *)

\* NothingLost: every item created is in one of the two buckets and only one,
\* however often a sweep missed it or the store refused it, and nothing is
\* archived before its window is over (retention.rs: "Xmip retains and
\* archives, it does not delete").
NothingLost ==
    /\ live \cup archived = [class: Class, day: 1 .. emitted_days]
    /\ live \cap archived = {}
    /\ \A i \in archived : Aged(i, simulated)

\* LeaksAreTold: an item past its window and still live shows as red on its
\* class, at one of the two stages (try_archive; "red on a leak").
LeaksAreTold ==
    \A i \in live : Aged(i, simulated) =>
        \E sweep \in Sweep : health(keepStandings[<<sweep, i.class>>]) = "done"
=============================================================================
