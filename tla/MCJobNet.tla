----------------------------- MODULE MCJobNet -----------------------------
(* Small instances of JobNet for TLC.                                      *)
EXTENDS JobNet, TLC

JobSymmetry == Permutations(EgressJobs)
===========================================================================
