--------------------------- MODULE MCProcessTree ---------------------------
(***************************************************************************)
(* Instances of ProcessTree for TLC.                                       *)
(***************************************************************************)
EXTENDS ProcessTree

\* In every instance the waits nest, as the code's 2 + 5 < 10 seconds do.
ASSUME WaitsNest
=============================================================================
