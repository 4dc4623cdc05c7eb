------------------------------- MODULE Filing -------------------------------
(***************************************************************************)
(* The filing scenario (filing.rs over cabinet.rs): each round files one   *)
(* probe per archive technology and contract, restores it from the receipt *)
(* and judges what came back.  One thread runs it, so a tick is one step.  *)
(***************************************************************************)
EXTENDS Faults, Standing

CONSTANTS
    Cabinets,      \* the archive technologies
    FilingStress,  \* the level: the skips and the probe's sizes
    Skips,         \* the draws the skips of a round may make
    Stores(_),     \* what each technology's store may do: archive, restore
    FilingMax      \* bound: rounds

VARIABLES
    filingRound,
    fileStandings,  \* a standing per technology and contract
    filed,          \* items handed to a cabinet
    filed_bytes     \* bytes in and out of the archives

fileVars == <<filingRound, fileStandings, filed, filed_bytes>>

SKIP_RATE == 5

Drawer == Cabinets \X {Contracts[i] : i \in DOMAIN Contracts}

skipped(drawer, skips) == fires(scaled_rate(SKIP_RATE, FilingStress), skips, drawer)

\* archive, then restore from the receipt: what came back, or that it failed.
file_through(store) ==
    CASE ~store.archives                    -> "failed"
      [] store.archives /\ ~store.restores  -> "failed"
      [] OTHER -> IF store.whole THEN "returned" ELSE "different"

\* The probe's size this round; none of a size is the contract's own payload.
probe(round) == Most({1, size_for(FilingStress, round)})

file_judge(drawer, store, skips, round) ==
    LET got == file_through(store) IN
    CASE skipped(drawer, skips) ->
            [mark |-> "fail", filed |-> 0, bytes |-> 0]
      [] ~skipped(drawer, skips) /\ got = "returned" ->
            [mark |-> "pass", filed |-> 1, bytes |-> 2 * probe(round)]
      [] ~skipped(drawer, skips) /\ got = "different" ->
            [mark |-> "fail", filed |-> 1, bytes |-> probe(round)]
      [] OTHER ->
            [mark |-> "fail", filed |-> 1, bytes |-> 0]

FileInit ==
    /\ filingRound = 0 /\ filed = 0 /\ filed_bytes = 0
    /\ fileStandings = [d \in Drawer |-> NoStanding]

\* tick: every cabinet by every contract, filed, judged and folded.
FileTick ==
    /\ filingRound < FilingMax
    /\ filingRound' = filingRound + 1
    /\ \E skips \in Skips, stores \in [Drawer -> UNION {Stores(c) : c \in Cabinets}] :
       LET judged(d) == file_judge(d, stores[d], skips, filingRound + 1)
       IN  /\ \A d \in Drawer : stores[d] \in Stores(d[1])
           /\ fileStandings' = [d \in Drawer |-> record(fileStandings[d], judged(d).mark)]
           /\ filed' = filed + FoldSet(LAMBDA d, sum : judged(d).filed + sum, 0, Drawer)
           /\ filed_bytes' = filed_bytes
                                + FoldSet(LAMBDA d, sum : judged(d).bytes + sum, 0, Drawer)
=============================================================================
