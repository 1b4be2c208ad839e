----------------------------- MODULE MCMicrovm ----------------------------
(* Instances of Microvm in which every call of Run is for the same job ID,  *)
(* the case in which runs can disturb each other.                           *)
EXTENDS Microvm

SameId == [r \in Runs |-> CHOOSE i \in Ids : TRUE]
===========================================================================
