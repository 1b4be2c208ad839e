------------------------------ MODULE JobNet ------------------------------
(***************************************************************************)
(* Job networking of the Firecracker executor: the subnet allocator        *)
(* (internal/executor/jobnet.go) and the per-job TAP devices that setupTap *)
(* and teardownTap create and remove (internal/executor/jobnet_linux.go).  *)
(* A job is identified by its ID: the executor's registry lets one run per *)
(* ID reach this code at a time, and the TAP's name is a digest of the ID. *)
(***************************************************************************)
EXTENDS Naturals

CONSTANTS
  EgressJobs,   \* job IDs of the egress jobs
  Limit,        \* jobNetAllocator.limit, 1 << 14 in the code
  NoSub         \* a nil *jobSubnet

ASSUME LimitAssumption == Limit \in Nat \ {0} /\ Limit <= 65536
ASSUME NoSubAssumption == NoSub \notin Nat

VARIABLES
  next,    \* jobNetAllocator.next
  used,    \* jobNetAllocator.used, the set of its true keys
  pc,      \* pc[j]: where job j is in setupTap, the VM's life, teardownTap
  sub,     \* sub[j]: idx of the *jobSubnet job j holds
  link,    \* the jobs whose TAP device exists
  up,      \* the jobs whose TAP device is up
  addr     \* addr[j]: the index whose host address job j's TAP carries

netVars == <<next, used, pc, sub, link, up, addr>>

Index == 0 .. Limit - 1

\* An allocation's search visits next, next + 1, ... modulo the limit.
SlotUnwrapped(i) == next + i

Slot(i) == (next + i) % Limit

(***************************************************************************)
(* The addresses of an index, in the byte arithmetic of the code: both the *)
(* shift and the third octet are truncated to eight bits.                  *)
(***************************************************************************)
Byte(n) == n % 256

SubnetBase(idx) == Byte((idx % 256) * 4)

subnetForIndex(idx) ==
  [third |-> Byte(idx \div 256),
   base  |-> SubnetBase(idx),
   host  |-> Byte(SubnetBase(idx) + 1),
   guest |-> Byte(SubnetBase(idx) + 2)]

guestMAC(idx) == <<Byte(idx \div 256), Byte(idx % 256)>>

---------------------------------------------------------------------------

newJobNetAllocator == next = 0 /\ used = {}

NetInit ==
  /\ newJobNetAllocator
  /\ pc = [j \in EgressJobs |-> "idle"]
  /\ sub = [j \in EgressJobs |-> NoSub]
  /\ link = {}
  /\ up = {}
  /\ addr = [j \in EgressJobs |-> NoSub]

Goto(j, from, to) ==
  /\ pc[j] = from
  /\ pc' = [pc EXCEPT ![j] = to]

(***************************************************************************)
(* allocate: the first index at or after next that is not used.  With      *)
(* every index used it returns nil, setupTap fails and nothing changes.    *)
(***************************************************************************)
allocateUnmarked(j) ==
  /\ Goto(j, "idle", "linkAdd")
  /\ \E i \in Index :
       /\ Slot(i) \notin used
       /\ \A k \in 0 .. i - 1 : Slot(k) \in used
       /\ next' = Slot(i) + 1
       /\ sub' = [sub EXCEPT ![j] = Slot(i)]
  /\ UNCHANGED <<used, link, up, addr>>

allocate(j) ==
  /\ Goto(j, "idle", "linkAdd")
  /\ \E i \in Index :
       /\ Slot(i) \notin used
       /\ \A k \in 0 .. i - 1 : Slot(k) \in used
       /\ used' = used \union {Slot(i)}
       /\ next' = Slot(i) + 1
       /\ sub' = [sub EXCEPT ![j] = Slot(i)]
  /\ UNCHANGED <<link, up, addr>>

\* release: the index goes back to the pool and the job forgets it.
release(j) ==
  /\ used' = used \ {sub[j]}
  /\ sub' = [sub EXCEPT ![j] = NoSub]
  /\ UNCHANGED next

\* netlink.LinkDel takes the device away with its addresses.
linkDel(j) ==
  /\ link' = link \ {j}
  /\ up' = up \ {j}
  /\ addr' = [addr EXCEPT ![j] = NoSub]

---------------------------------------------------------------------------
(* setupTap: LinkAdd, AddrAdd and LinkSetUp, each of which can fail.       *)

LinkAdd(j) ==
  /\ Goto(j, "linkAdd", "addrAdd")
  /\ link' = link \union {j}
  /\ UNCHANGED <<next, used, sub, up, addr>>

AddrAdd(j) ==
  /\ Goto(j, "addrAdd", "linkSetUp")
  /\ addr' = [addr EXCEPT ![j] = sub[j]]
  /\ UNCHANGED <<next, used, sub, link, up>>

LinkSetUp(j) ==
  /\ Goto(j, "linkSetUp", "inUse")
  /\ up' = up \union {j}
  /\ UNCHANGED <<next, used, sub, link, addr>>

SetupError(j) ==
  /\ pc[j] \in {"linkAdd", "addrAdd", "linkSetUp"}
  /\ pc' = [pc EXCEPT ![j] = "failRelease"]
  /\ UNCHANGED <<next, used, sub, link, up, addr>>

(* The fail closure of setupTap returns the index before it removes the    *)
(* device.                                                                 *)

failRelease(j) ==
  /\ Goto(j, "failRelease", "failLinkDel")
  /\ release(j)
  /\ UNCHANGED <<link, up, addr>>

failKeepLink(j) ==
  /\ Goto(j, "failLinkDel", "idle")
  /\ UNCHANGED <<next, used, sub, link, up, addr>>

failLinkDel(j) ==
  /\ Goto(j, "failLinkDel", "idle")
  /\ linkDel(j)
  /\ UNCHANGED <<next, used, sub>>

(* teardownTap, deferred by Run: first the device, then the index.         *)

teardownReleaseFirst(j) ==
  /\ Goto(j, "inUse", "release")
  /\ release(j)
  /\ UNCHANGED <<link, up, addr>>

teardownLinkDel(j) ==
  /\ Goto(j, "inUse", "release")
  /\ linkDel(j)
  /\ UNCHANGED <<next, used, sub>>

teardownRelease(j) ==
  /\ Goto(j, "release", "idle")
  /\ release(j)
  /\ UNCHANGED <<link, up, addr>>

NetNext ==
  \E j \in EgressJobs :
    \/ allocate(j)
    \/ LinkAdd(j) \/ AddrAdd(j) \/ LinkSetUp(j) \/ SetupError(j)
    \/ failRelease(j) \/ failLinkDel(j)
    \/ teardownLinkDel(j) \/ teardownRelease(j)

NetSpec == NetInit /\ [][NetNext]_netVars

---------------------------------------------------------------------------
(* Properties                                                              *)

Holding == {"linkAdd", "addrAdd", "linkSetUp", "inUse", "failRelease", "release"}

Steps == Holding \union {"idle", "failLinkDel"}

\* Type invariant: the allocator's cursor stays within one step of the pool,
\* and every index a job or a device carries is an index of the pool.
NetTypeOK ==
  /\ next \in 0 .. Limit
  /\ used \subseteq Index
  /\ pc \in [EgressJobs -> Steps]
  /\ sub \in [EgressJobs -> Index \union {NoSub}]
  /\ link \subseteq EgressJobs
  /\ up \subseteq EgressJobs
  /\ addr \in [EgressJobs -> Index \union {NoSub}]

\* No index is lost and none is shared (allocate, release and the two paths
\* that call release): the used map holds exactly the indices of the jobs
\* inside setupTap, in service or inside teardownTap, and no two of those
\* jobs hold the same one.
LeaseAccounting ==
  /\ used = {sub[j] : j \in {i \in EgressJobs : pc[i] \in Holding}}
  /\ \A i, j \in EgressJobs :
       pc[i] \in Holding /\ pc[j] \in Holding /\ sub[i] = sub[j] => i = j

\* Two devices that are up never carry the address of the same index, although
\* indices are reused: teardownTap removes the device before it returns the
\* index, so the next holder cannot configure it while the old one is up.
UpTapsDistinct ==
  \A i, j \in up : addr[i] = addr[j] => i = j

\* A job's device exists only while the job is between LinkAdd and the removal
\* of the device; when the job is done with the network, whichever step of
\* setupTap failed, neither device nor address is left.
NoTapLeftBehind ==
  \A j \in EgressJobs :
    pc[j] \in {"idle", "release"} => j \notin link \union up /\ addr[j] = NoSub

\* The jobs that hold a subnet have different /30 networks (the comments on
\* jobSubnet and jobNetAllocator call the allocation a unique /30).
UniqueSubnets ==
  \A i, j \in EgressJobs :
    /\ pc[i] = "inUse" /\ pc[j] = "inUse"
    /\ subnetForIndex(sub[i]) = subnetForIndex(sub[j])
    => i = j

\* The leases the jobs hold, as the abstract pool sees them.
Pool == INSTANCE SubnetPool WITH Jobs <- EgressJobs, lease <- sub

\* JobNet implements the abstract pool of exclusive leases.
PoolSpec == Pool!Spec
===========================================================================
