----------------------------- MODULE MCDropBox -----------------------------
(***************************************************************************)
(* Instances of DropBox for TLC: bursts of two files every second round    *)
(* into one Location behind a server.                                      *)
(***************************************************************************)
EXTENDS DropBox

CONSTANTS n1, n2

TwoNodes == {n1, n2}
OneNode == {n1}
FirstLocation == {1}
EverySecond == <<2>>
=============================================================================
