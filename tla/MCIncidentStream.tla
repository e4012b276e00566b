-------------------------- MODULE MCIncidentStream --------------------------
(* Constants for model-checking IncidentStream. *)
EXTENDS IncidentStream, TLC

CONSTANTS n1, n2

\* Synchronised clocks; messages of one node may be delayed by one unit.
DelayedClocks == (n1 :> {-1, 0}) @@ (n2 :> {0}) @@ (NoName :> {0})
=============================================================================
