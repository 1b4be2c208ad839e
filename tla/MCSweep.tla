------------------------------ MODULE MCSweep -----------------------------
(* Instances of Sweep for TLC.                                             *)
EXTENDS Sweep, TLC

CONSTANTS d1, d2, d3, j1, j2

\* Two daemons with a job each.
OneEach == j1 :> d1 @@ j2 :> d2
===========================================================================
