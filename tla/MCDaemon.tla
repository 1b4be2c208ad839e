----------------------------- MODULE MCDaemon -----------------------------
(* An instance of Daemon for TLC.                                          *)
EXTENDS Daemon, TLC

\* All requests carry the same job ID.
SameId == [h \in Requests |-> CHOOSE i \in Ids : TRUE]

\* The requests are alike.
RequestSymmetry == Permutations(Requests)

\* A bound: of the clients that hang up and the cancel requests there is at most one.
OneInterferes == Cardinality(gone) + Cardinality({k \in Cancels : cpc[k] # "idle"}) <= 1
===========================================================================
