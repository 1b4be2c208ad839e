----------------------------- MODULE MCSession ----------------------------
(* Instances of Session for TLC.                                           *)
EXTENDS Session, TLC

\* All requests carry the same job ID.
SameId == [h \in Requests |-> CHOOSE i \in Ids : TRUE]

\* The requests are alike.
RequestSymmetry == Permutations(Requests)
===========================================================================
