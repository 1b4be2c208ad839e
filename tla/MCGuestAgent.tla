---------------------------- MODULE MCGuestAgent --------------------------
(* Instances of GuestAgent for TLC.                                        *)
EXTENDS GuestAgent, TLC

\* The pipes are alike, and so are the processes the job leaves behind.
JobSymmetry == Permutations(Streams) \union Permutations(Children)
===========================================================================
