---------------------------- MODULE SubnetPool ----------------------------
(***************************************************************************)
(* What the job network promises the executor about subnet indices: a pool *)
(* from which a job leases an index nobody else leases, and to which it    *)
(* gives the index back.  Nothing is said of which free index it gets, nor *)
(* of the devices behind it.  JobNet implements this specification.        *)
(***************************************************************************)
EXTENDS Naturals

CONSTANTS
  Jobs,    \* job identifiers that may want a network
  Limit,   \* number of subnet indices in the pool
  NoSub    \* "no index leased"

VARIABLE lease   \* lease[j]: the index job j holds, or NoSub

Index == 0 .. Limit - 1

Init == lease = [j \in Jobs |-> NoSub]

Acquire(j, idx) ==
  /\ lease[j] = NoSub
  /\ \A i \in Jobs : lease[i] # idx
  /\ lease' = [lease EXCEPT ![j] = idx]

Return(j) ==
  /\ lease[j] # NoSub
  /\ lease' = [lease EXCEPT ![j] = NoSub]

Next ==
  \E j \in Jobs :
    \/ \E idx \in Index : Acquire(j, idx)
    \/ Return(j)

Spec == Init /\ [][Next]_lease
===========================================================================
