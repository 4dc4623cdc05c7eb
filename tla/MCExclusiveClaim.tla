-------------------------- MODULE MCExclusiveClaim --------------------------
(***************************************************************************)
(* Instances of ExclusiveClaim for TLC.                                    *)
(***************************************************************************)
EXTENDS ExclusiveClaim

CONSTANTS p1, p2, r1

TwoProcesses == {p1, p2}
OneProcess   == {p1}
OneReader    == {r1}
Nobody       == {}
OneKey       == {0}

\* Staging writes every item; or a process manages only the first.
WholeLane == [p \in Process |-> {Item}]
ShortLane == [p \in Process |-> IF p = p1 THEN {{<<0, 0>>}} ELSE {Item}]

=============================================================================
