---------------------------- MODULE MC_ScanQueue ----------------------------
(* An instance of ScanQueue for TLC. *)
EXTENDS ScanQueue, TLC

CONSTANTS outer, inner, f, g

\* One project lies in the other.
Nested == (outer :> {f, g}) @@ (inner :> {f})
=============================================================================
