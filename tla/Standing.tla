------------------------------ MODULE Standing ------------------------------
(***************************************************************************)
(* A scope's standing over the rounds it has run (standing.rs), which      *)
(* HeavyLoad, Retention, Filing, DailyBacklog and Storm judge by.          *)
(***************************************************************************)
EXTENDS Naturals

Mark == {"pass", "warn", "fail"}

NoStanding == [failures |-> 0, last |-> "none"]

\* Mutant: a pass wipes the record.
record_forgetting(standing, mark) ==
    [failures |-> CASE mark = "pass" -> 0
                    [] mark = "warn" -> standing.failures
                    [] mark = "fail" -> standing.failures + 1,
     last     |-> mark]

record(standing, mark) ==
    [failures |-> standing.failures + (IF mark = "fail" THEN 1 ELSE 0),
     last     |-> mark]

health(standing) ==
    CASE standing.last = "pass" /\ standing.failures = 0 -> "fine"
      [] standing.last = "pass" /\ standing.failures # 0 -> "stressed"
      [] standing.last = "warn"                          -> "stressed"
      [] OTHER                                           -> "done"

\* Every standing that has run a round, as it is published.
Published(standings) ==
    [s \in {t \in DOMAIN standings : standings[t].last # "none"} |-> health(standings[s])]
=============================================================================
