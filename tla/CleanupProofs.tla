---------------------------- MODULE CleanupProofs -------------------------
(***************************************************************************)
(* What a job holds is given back, on the host and in its guest.           *)
(*                                                                         *)
(* JobNet, for any set of jobs and any pool size: the allocator never      *)
(* loses or shares an index, devices that are up carry different indices,  *)
(* and the job network implements the abstract pool of leases.             *)
(*                                                                         *)
(* Sweep, for any numbers of daemons and jobs: a sweep is complete, kills  *)
(* no VM of a daemon that is up and takes nothing from a VM that was up    *)
(* before.                                                                 *)
(*                                                                         *)
(* GuestAgent, for any sets of streams and processes: no work survives the *)
(* agent's result, the result names what happened, nothing follows it, and *)
(* no output is invented or sent twice on the way.                         *)
(***************************************************************************)
EXTENDS JobNet, Sweep, GuestAgent, TLAPS

\* Leaves are for Zenon unless they name another prover.
USE ZenonT(30)

---------------------------------------------------------------------------
(* JobNet: the pool of subnets and the devices.                            *)

\* A job holds an index exactly while it is at a step that owes a release.
SubMatchesStep ==
  \A j \in EgressJobs : (sub[j] = NoSub) <=> (pc[j] \notin Holding)

\* A device is up only in service, and then carries the index its job holds.
UpMeansInUse ==
  \A j \in up : pc[j] = "inUse"

AddrMatchesSub ==
  \A j \in EgressJobs : pc[j] = "inUse" \/ pc[j] = "linkSetUp" => addr[j] = sub[j]

\* No device before LinkAdd nor after the removal.
BareSteps ==
  \A j \in EgressJobs :
    pc[j] \in {"idle", "linkAdd", "release"}
      => j \notin link /\ j \notin up /\ addr[j] = NoSub

NetInv ==
  /\ NetTypeOK
  /\ SubMatchesStep
  /\ LeaseAccounting
  /\ UpMeansInUse
  /\ AddrMatchesSub
  /\ BareSteps

\* The indices of the pool are natural numbers, none of them NoSub.
LEMMA IndexFacts ==
  /\ Limit \in Nat \ {0}
  /\ NoSub \notin Index
  /\ \A x \in Nat : x % Limit \in Index
<1>1. Limit \in Nat \ {0}
  BY LimitAssumption, SMTT(30)
<1>2. NoSub \notin Index
  BY NoSubAssumption, <1>1, SMTT(30) DEF Index
<1>3. \A x \in Nat : x % Limit \in Index
  BY <1>1, SMTT(30) DEF Index
<1>4. QED  BY <1>1, <1>2, <1>3, SMTT(30)

---------------------------------------------------------------------------

\* A fresh allocator and no jobs in the network satisfy the invariant.
LEMMA InitIInv == NetInit => NetInv
BY LimitAssumption, SMTT(30)
DEF NetInit, newJobNetAllocator, NetInv, NetTypeOK, SubMatchesStep, LeaseAccounting,
    UpMeansInUse, AddrMatchesSub, BareSteps, Holding, Steps, Index

\* allocate takes an index that was free, so nobody else holds it.
LEMMA AllocateIInv ==
  ASSUME NetInv, NEW j \in EgressJobs, allocate(j)
  PROVE  NetInv'
<1> USE DEF NetInv, Goto
<1>1. PICK i \in Index :
        /\ Slot(i) \notin used
        /\ used' = used \union {Slot(i)}
        /\ next' = Slot(i) + 1
        /\ sub' = [sub EXCEPT ![j] = Slot(i)]
  BY DEF allocate
<1>2. Slot(i) \in Index /\ Slot(i) # NoSub
  BY IndexFacts, SMTT(30) DEF Slot, NetTypeOK, Index
<1>3. /\ pc[j] = "idle"
      /\ pc' = [pc EXCEPT ![j] = "linkAdd"]
      /\ UNCHANGED <<link, up, addr>>
  BY DEF allocate
<1>4. NetTypeOK'
  <2>1. next' \in 0 .. Limit
    BY <1>1, <1>2, IndexFacts, SMTT(30) DEF Index
  <2>2. used' \subseteq Index /\ sub' \in [EgressJobs -> Index \union {NoSub}]
    BY <1>1, <1>2 DEF NetTypeOK
  <2>3. pc' \in [EgressJobs -> Steps]
    BY <1>3 DEF NetTypeOK, Steps, Holding
  <2>4. QED  BY <1>3, <2>1, <2>2, <2>3 DEF NetTypeOK
<1>5. SubMatchesStep'
  BY <1>1, <1>2, <1>3 DEF NetTypeOK, SubMatchesStep, Holding
<1>6. LeaseAccounting'
  <2>1. \A k \in EgressJobs : k # j => sub'[k] = sub[k] /\ pc'[k] = pc[k]
    BY <1>1, <1>3 DEF NetTypeOK
  <2>2. sub'[j] = Slot(i) /\ pc'[j] \in Holding /\ pc[j] \notin Holding
    BY <1>1, <1>3 DEF NetTypeOK, Holding
  <2>3. \A k \in EgressJobs : pc[k] \in Holding => sub[k] \in used
    BY DEF LeaseAccounting
  <2>4. used' = {sub'[k] : k \in {l \in EgressJobs : pc'[l] \in Holding}}
    <3>1. \A x \in used' : \E k \in EgressJobs : pc'[k] \in Holding /\ sub'[k] = x
      BY <1>1, <2>1, <2>2 DEF LeaseAccounting
    <3>2. \A k \in EgressJobs : pc'[k] \in Holding => sub'[k] \in used'
      BY <1>1, <2>1, <2>2, <2>3, SMTT(30)
    <3>3. QED  BY <3>1, <3>2
  <2>5. QED  BY <1>1, <2>1, <2>2, <2>3, <2>4, SMTT(30) DEF LeaseAccounting
<1>7. UpMeansInUse' /\ AddrMatchesSub' /\ BareSteps'
  BY <1>1, <1>3 DEF NetTypeOK, UpMeansInUse, AddrMatchesSub, BareSteps
<1>8. QED  BY <1>4, <1>5, <1>6, <1>7

\* Returning an index a job holds removes that index, and no other, from used.
LEMMA ReleaseLeases ==
  ASSUME NetTypeOK, LeaseAccounting, NEW j \in EgressJobs, pc[j] \in Holding, release(j),
         NEW to, to \notin Holding, pc' = [pc EXCEPT ![j] = to]
  PROVE  LeaseAccounting'
<1>1. \A k \in EgressJobs : k # j => sub'[k] = sub[k] /\ pc'[k] = pc[k]
  BY DEF NetTypeOK, release
<1>2. pc'[j] = to /\ pc'[j] \notin Holding
  BY DEF NetTypeOK
<1>3. \A k \in EgressJobs : pc'[k] \in Holding => k # j /\ pc[k] \in Holding
  BY <1>1, <1>2
<1>4. used' = {sub'[k] : k \in {l \in EgressJobs : pc'[l] \in Holding}}
  <2>1. \A x \in used' : \E k \in EgressJobs : pc'[k] \in Holding /\ sub'[k] = x
    <3> SUFFICES ASSUME NEW x \in used'
                 PROVE  \E k \in EgressJobs : pc'[k] \in Holding /\ sub'[k] = x
      OBVIOUS
    <3>1. x \in used /\ x # sub[j]
      BY DEF release
    <3>2. PICK k \in EgressJobs : pc[k] \in Holding /\ sub[k] = x
      BY <3>1 DEF LeaseAccounting
    <3>3. QED  BY <1>1, <3>1, <3>2
  <2>2. \A k \in EgressJobs : pc'[k] \in Holding => sub'[k] \in used'
    BY <1>1, <1>3, SMTT(30) DEF LeaseAccounting, release
  <2>3. QED  BY <2>1, <2>2
<1>5. QED  BY <1>1, <1>3, <1>4 DEF LeaseAccounting

\* The steps that return an index preserve the invariant.
LEMMA ReleaseIInv ==
  ASSUME NetInv, NEW j \in EgressJobs, failRelease(j) \/ teardownRelease(j)
  PROVE  NetInv'
<1> USE DEF NetInv
<1>1. CASE failRelease(j)
  <2>1. LeaseAccounting'
    BY <1>1, ReleaseLeases DEF failRelease, Goto, Holding
  <2>2. NetTypeOK' /\ SubMatchesStep'
    BY <1>1, IndexFacts
    DEF failRelease, Goto, release, NetTypeOK, SubMatchesStep, Holding, Steps
  <2>3. UpMeansInUse' /\ AddrMatchesSub' /\ BareSteps'
    BY <1>1
    DEF failRelease, Goto, release, NetTypeOK, UpMeansInUse, AddrMatchesSub, BareSteps
  <2>4. QED  BY <2>1, <2>2, <2>3
<1>2. CASE teardownRelease(j)
  <2>1. LeaseAccounting'
    BY <1>2, ReleaseLeases DEF teardownRelease, Goto, Holding
  <2>2. NetTypeOK' /\ SubMatchesStep'
    BY <1>2, IndexFacts
    DEF teardownRelease, Goto, release, NetTypeOK, SubMatchesStep, Holding, Steps
  <2>3. UpMeansInUse' /\ AddrMatchesSub' /\ BareSteps'
    BY <1>2
    DEF teardownRelease, Goto, release, NetTypeOK, UpMeansInUse, AddrMatchesSub, BareSteps
  <2>4. QED  BY <2>1, <2>2, <2>3
<1>3. QED  BY <1>1, <1>2

\* A step that keeps every job on its side of Holding, and every index where it
\* is, keeps the accounting.
LEMMA KeepLeases ==
  ASSUME NetTypeOK, LeaseAccounting, UNCHANGED <<used, sub>>,
         \A k \in EgressJobs : pc'[k] \in Holding <=> pc[k] \in Holding
  PROVE  LeaseAccounting'
<1>1. {l \in EgressJobs : pc'[l] \in Holding} = {l \in EgressJobs : pc[l] \in Holding}
  OBVIOUS
<1>2. QED  BY <1>1 DEF LeaseAccounting

\* The steps on devices preserve the invariant.
LEMMA DeviceIInv ==
  ASSUME NetInv, NEW j \in EgressJobs,
         \/ LinkAdd(j) \/ AddrAdd(j) \/ LinkSetUp(j) \/ SetupError(j)
         \/ failLinkDel(j) \/ teardownLinkDel(j)
  PROVE  NetInv'
<1> USE DEF NetInv, Goto, linkDel
<1> DEFINE Same == \A k \in EgressJobs : pc'[k] \in Holding <=> pc[k] \in Holding
<1>1. CASE LinkAdd(j)
  <2>1. Same  BY <1>1 DEF LinkAdd, NetTypeOK, Holding
  <2>2. LeaseAccounting'  BY <1>1, <2>1, KeepLeases DEF LinkAdd
  <2>3. QED
    BY <1>1, <2>1, <2>2
    DEF LinkAdd, NetTypeOK, SubMatchesStep, UpMeansInUse, AddrMatchesSub, BareSteps,
        Holding, Steps
<1>2. CASE AddrAdd(j)
  <2>1. Same  BY <1>2 DEF AddrAdd, NetTypeOK, Holding
  <2>2. LeaseAccounting'  BY <1>2, <2>1, KeepLeases DEF AddrAdd
  <2>3. QED
    BY <1>2, <2>1, <2>2
    DEF AddrAdd, NetTypeOK, SubMatchesStep, UpMeansInUse, AddrMatchesSub, BareSteps,
        Holding, Steps
<1>3. CASE LinkSetUp(j)
  <2>1. Same  BY <1>3 DEF LinkSetUp, NetTypeOK, Holding
  <2>2. LeaseAccounting'  BY <1>3, <2>1, KeepLeases DEF LinkSetUp
  <2>3. QED
    BY <1>3, <2>1, <2>2
    DEF LinkSetUp, NetTypeOK, SubMatchesStep, UpMeansInUse, AddrMatchesSub, BareSteps,
        Holding, Steps
<1>4. CASE SetupError(j)
  <2>1. Same  BY <1>4 DEF SetupError, NetTypeOK, Holding
  <2>2. LeaseAccounting'  BY <1>4, <2>1, KeepLeases DEF SetupError
  <2>3. QED
    BY <1>4, <2>1, <2>2
    DEF SetupError, NetTypeOK, SubMatchesStep, UpMeansInUse, AddrMatchesSub, BareSteps,
        Holding, Steps
<1>5. CASE failLinkDel(j)
  <2>1. Same  BY <1>5 DEF failLinkDel, NetTypeOK, Holding
  <2>2. LeaseAccounting'  BY <1>5, <2>1, KeepLeases DEF failLinkDel
  <2>3. QED
    BY <1>5, <2>1, <2>2
    DEF failLinkDel, NetTypeOK, SubMatchesStep, UpMeansInUse, AddrMatchesSub, BareSteps,
        Holding, Steps
<1>6. CASE teardownLinkDel(j)
  <2>1. Same  BY <1>6 DEF teardownLinkDel, NetTypeOK, Holding
  <2>2. LeaseAccounting'  BY <1>6, <2>1, KeepLeases DEF teardownLinkDel
  <2>3. QED
    BY <1>6, <2>1, <2>2
    DEF teardownLinkDel, NetTypeOK, SubMatchesStep, UpMeansInUse, AddrMatchesSub, BareSteps,
        Holding, Steps
<1>7. QED  BY <1>1, <1>2, <1>3, <1>4, <1>5, <1>6

\* Every step of the job network preserves the invariant.
LEMMA NextIInv == NetInv /\ [NetNext]_netVars => NetInv'
<1> SUFFICES ASSUME NetInv, [NetNext]_netVars  PROVE NetInv'
  OBVIOUS
<1>1. CASE NetNext
  BY <1>1, AllocateIInv, ReleaseIInv, DeviceIInv DEF NetNext
<1>2. CASE UNCHANGED netVars
  BY <1>2, SMTT(30)
  DEF netVars, NetInv, NetTypeOK, SubMatchesStep, LeaseAccounting, UpMeansInUse,
      AddrMatchesSub, BareSteps
<1>3. QED  BY <1>1, <1>2

\* The inductive invariant holds in every reachable state.
THEOREM Invariance == NetSpec => []NetInv
BY InitIInv, NextIInv, PTL DEF NetSpec

\* The allocator's cursor and every index that a job or a device carries stay in the
\* pool, although allocate wraps around.
THEOREM NetTypesHold == NetSpec => []NetTypeOK
<1>1. NetInv => NetTypeOK  BY DEF NetInv
<1>2. QED  BY <1>1, Invariance, PTL

\* allocate and release keep the used map equal to the set of indices held, and
\* no index has two holders, whatever the number of jobs and the pool's size.
THEOREM LeasesAccounted == NetSpec => []LeaseAccounting
<1>1. NetInv => LeaseAccounting  BY DEF NetInv
<1>2. QED  BY <1>1, Invariance, PTL

\* Devices that are up carry the addresses of different indices, because
\* teardownTap removes the device before it returns the index.
THEOREM UpTapsNeverClash == NetSpec => []UpTapsDistinct
<1>1. NetInv => UpTapsDistinct
  BY DEF NetInv, NetTypeOK, UpMeansInUse, AddrMatchesSub, LeaseAccounting, UpTapsDistinct,
         Holding
<1>2. QED  BY <1>1, Invariance, PTL

\* Whatever step of setupTap fails, and after teardownTap, no device is left.
THEOREM TapsRemoved == NetSpec => []NoTapLeftBehind
<1>1. NetInv => NoTapLeftBehind  BY DEF NetInv, BareSteps, NoTapLeftBehind
<1>2. QED  BY <1>1, Invariance, PTL

---------------------------------------------------------------------------

\* The job network implements the pool: allocate is an Acquire of a free index,
\* each release a Return, and every other step leaves the leases alone.
THEOREM Implements == NetSpec => PoolSpec
<1>1. NetInit => Pool!Init
  BY DEF NetInit, Pool!Init
<1>2. NetInv /\ [NetNext]_netVars => [Pool!Next]_sub
  <2> SUFFICES ASSUME NetInv, [NetNext]_netVars  PROVE [Pool!Next]_sub
    OBVIOUS
  <2>1. ASSUME NEW j \in EgressJobs, allocate(j)  PROVE Pool!Next
    <3>1. PICK i \in Index : Slot(i) \notin used /\ sub' = [sub EXCEPT ![j] = Slot(i)]
      BY <2>1 DEF allocate
    <3>2. Slot(i) \in Pool!Index /\ Slot(i) # NoSub
      BY IndexFacts, SMTT(30) DEF Slot, NetInv, NetTypeOK, Index, Pool!Index
    <3>3. sub[j] = NoSub
      BY <2>1 DEF allocate, Goto, NetInv, SubMatchesStep, Holding
    <3>4. \A k \in EgressJobs : sub[k] # Slot(i)
      BY <3>1, <3>2 DEF NetInv, SubMatchesStep, LeaseAccounting
    <3>5. Pool!Acquire(j, Slot(i))
      BY <3>1, <3>3, <3>4 DEF Pool!Acquire
    <3>6. QED  BY <3>2, <3>5 DEF Pool!Next
  <2>2. ASSUME NEW j \in EgressJobs, failRelease(j) \/ teardownRelease(j)  PROVE Pool!Next
    <3>1. sub[j] # NoSub
      BY <2>2 DEF failRelease, teardownRelease, Goto, NetInv, SubMatchesStep, Holding
    <3>2. Pool!Return(j)
      BY <2>2, <3>1 DEF failRelease, teardownRelease, release, Pool!Return
    <3>3. QED  BY <3>2 DEF Pool!Next
  <2>3. ASSUME NEW j \in EgressJobs,
               \/ LinkAdd(j) \/ AddrAdd(j) \/ LinkSetUp(j) \/ SetupError(j)
               \/ failLinkDel(j) \/ teardownLinkDel(j)
        PROVE  UNCHANGED sub
    BY <2>3 DEF LinkAdd, AddrAdd, LinkSetUp, SetupError, failLinkDel, teardownLinkDel
  <2>4. CASE UNCHANGED netVars
    BY <2>4 DEF netVars
  <2>5. QED  BY <2>1, <2>2, <2>3, <2>4 DEF NetNext
<1>3. QED
  BY <1>1, <1>2, Invariance, PTL DEF NetSpec, PoolSpec, Pool!Spec

---------------------------------------------------------------------------
(* JobNet: the addresses of an index.                                      *)

\* Euclidean division by the constants of the byte arithmetic.
LEMMA DivMod256 ==
  ASSUME NEW n \in Nat
  PROVE  /\ n \div 256 \in Nat /\ n % 256 \in Nat /\ n % 256 < 256
         /\ n = 256 * (n \div 256) + (n % 256)
<1>1. n \div 256 \in Nat  BY SMTT(30)
<1>2. n % 256 \in Nat /\ n % 256 < 256  BY SMTT(30)
<1>3. n = 256 * (n \div 256) + (n % 256)  BY SMTT(30)
<1>4. QED  BY <1>1, <1>2, <1>3

\* Truncation to a byte leaves a value that fits alone.
LEMMA BytePasses ==
  ASSUME NEW n \in Nat, n < 256
  PROVE  n % 256 = n
BY SMTT(30)

\* The high byte of a 16-bit index survives guestMAC's conversion.
LEMMA SmallQuotient ==
  ASSUME NEW n \in Nat, n < 65536
  PROVE  Byte(n \div 256) = n \div 256
<1>1. n \div 256 \in Nat /\ n \div 256 < 256
  BY DivMod256, SMTT(30)
<1>2. QED  BY <1>1, BytePasses, SMTT(30) DEF Byte

\* guestMAC gives different jobs different addresses: its two low bytes are the
\* whole index, since the pool has at most 2^16 indices.
THEOREM MacsDiffer ==
  \A i, j \in Index : guestMAC(i) = guestMAC(j) => i = j
<1> SUFFICES ASSUME NEW i \in Index, NEW j \in Index, guestMAC(i) = guestMAC(j)
             PROVE  i = j
  OBVIOUS
<1>1. i \in Nat /\ i < 65536 /\ j \in Nat /\ j < 65536
  BY LimitAssumption, SMTT(30) DEF Index
<1>2. Byte(i \div 256) = Byte(j \div 256) /\ Byte(i % 256) = Byte(j % 256)
  BY SMTT(30) DEF guestMAC
<1>3. i \div 256 = j \div 256
  BY <1>1, <1>2, SmallQuotient, SMTT(30)
<1>4. i % 256 = j % 256
  BY <1>1, <1>2, DivMod256, BytePasses, SMTT(30) DEF Byte
<1>5. /\ i = 256 * (i \div 256) + (i % 256)
      /\ j = 256 * (j \div 256) + (j % 256)
  BY <1>1, DivMod256, SMTT(30)
<1>6. QED  BY <1>3, <1>4, <1>5, SMTT(30)

\* idx << 2 truncated to a byte forgets all but the six low bits of idx.
LEMMA BaseIsLowBits ==
  ASSUME NEW n \in Nat
  PROVE  SubnetBase(n) = 4 * (n % 64)
<1>1. PICK q \in Nat, m \in Nat : n = 64 * q + m /\ m < 64 /\ m = n % 64
  <2>1. n \div 64 \in Nat  BY SMTT(30)
  <2>2. n % 64 \in Nat /\ n % 64 < 64  BY SMTT(30)
  <2>3. n = 64 * (n \div 64) + (n % 64)  BY SMTT(30)
  <2>4. QED  BY <2>1, <2>2, <2>3
<1>2. PICK p \in Nat, l \in Nat : n = 256 * p + l /\ l < 256 /\ l = n % 256
  <2>1. QED  BY DivMod256, SMTT(30)
<1>3. (l * 4) % 256 = 4 * m
  <2>1. l = 64 * (q - 4 * p) + m
    BY <1>1, <1>2, SMTT(30)
  <2>2. q - 4 * p \in 0 .. 3
    BY <1>1, <1>2, <2>1, SMTT(30)
  <2>3. l * 4 = 256 * (q - 4 * p) + 4 * m /\ 4 * m < 256
    BY <1>1, <2>1, SMTT(30)
  <2>4. QED  BY <1>1, <2>2, <2>3, SMTT(30)
<1>4. QED  BY <1>1, <1>2, <1>3, SMTT(30) DEF SubnetBase, Byte

\* subnetForIndex truncates idx << 2 to a byte, so within one third octet the
\* indices that are congruent modulo 64 get the same /30, and only those.
THEOREM SameSubnet ==
  \A i, j \in Index :
    subnetForIndex(i) = subnetForIndex(j)
      <=> i \div 256 = j \div 256 /\ i % 64 = j % 64
<1> SUFFICES ASSUME NEW i \in Index, NEW j \in Index
             PROVE  subnetForIndex(i) = subnetForIndex(j)
                      <=> i \div 256 = j \div 256 /\ i % 64 = j % 64
  OBVIOUS
<1>1. i \in Nat /\ i < 65536 /\ j \in Nat /\ j < 65536
  BY LimitAssumption, SMTT(30) DEF Index
<1>2. Byte(i \div 256) = i \div 256 /\ Byte(j \div 256) = j \div 256
  BY <1>1, SmallQuotient, SMTT(30)
<1>3. SubnetBase(i) = 4 * (i % 64) /\ SubnetBase(j) = 4 * (j % 64)
  BY <1>1, BaseIsLowBits, SMTT(30)
<1>4. i % 64 \in Nat /\ j % 64 \in Nat
  BY <1>1, SMTT(30)
<1>5. subnetForIndex(i) = subnetForIndex(j)
        <=> Byte(i \div 256) = Byte(j \div 256) /\ SubnetBase(i) = SubnetBase(j)
  BY DEF subnetForIndex
<1>6. QED  BY <1>2, <1>3, <1>4, <1>5, SMTT(30)

---------------------------------------------------------------------------
(* Sweep: daemons that crash and start again.                              *)

\* The type invariant with the types of the history.
Types ==
  /\ TypeOK
  /\ old \in [Daemons -> SUBSET Jobs] /\ settled \in [Daemons -> SUBSET Jobs]

\* A job and what it has on the host.
JobOk(j) ==
  /\ jpc[j] # "idle" => dpc[Owner[j]] \in {"up", "dead"}
  /\ proc[j] = "none" <=> jpc[j] \in {"idle", "cgroup", "tap", "start"}
  /\ proc[j] = "running" => jpc[j] \in {"place", "run", "kill"}
  /\ j \in member => j \in cgroup /\ jpc[j] \in {"run", "kill"}
  /\ jpc[j] = "run" /\ Up(j) => j \in member
  /\ contained /\ proc[j] = "running" => Up(j)

\* The list of orphans: what it names has been started, so that it never runs again
\* once it has ended, and it runs only if its daemon has died.  Later, the one cgroup
\* that is to be deleted.
OrphansOk(d) ==
  /\ dpc[d] = "off" => live[d] = {} /\ old[d] = {} /\ settled[d] = {}
  /\ dpc[d] \notin {"scan", "cgroups"} => doomed[d] = {}
  /\ dpc[d] = "scan" =>
       /\ \A j \in todo[d] \union doomed[d] : proc[j] # "none"
       /\ \A j \in doomed[d] : proc[j] = "running" => dpc[Owner[j]] = "dead"
  /\ dpc[d] = "cgroups" => \A j \in doomed[d] : j \notin todo[d] /\ doomed[d] = {j}

\* A VM that was up when the sweep began is still to be looked at, or has been found
\* live, at each step.
SettledOk(d) ==
  \A j \in settled[d] :
    /\ jpc[j] \notin {"idle", "cgroup", "tap", "start", "place"}
    /\ Up(j) /\ jpc[j] = "run" =>
         /\ dpc[d] = "scan" => j \in todo[d] \union live[d]
         /\ dpc[d] \in {"killed", "dirs"} => j \in live[d]
         /\ dpc[d] = "cgroups" => j \in (todo[d] \union live[d]) \ doomed[d]
         /\ dpc[d] = "taps" => j \in live[d]

\* What a job of a daemon that had died has left is still to be looked at, has gone, or
\* could not be removed, at each step; it is taken for live only if its cgroup could
\* not be read.
OldJob(d, j) ==
  /\ dpc[Owner[j]] = "dead"
  /\ Sweeping(d) => (j \in live[d] => dpc[d] \in {"cgroups", "taps"} /\ j \in CgroupErrs)
  /\ dpc[d] = "scan" => (proc[j] = "running" => j \in todo[d] \union doomed[d])
  /\ dpc[d] \in {"killed", "dirs", "cgroups", "taps", "up"} => proc[j] # "running"
  /\ dpc[d] = "dirs" => (j \in dir => j \in todo[d] \union DirErrs)
  /\ dpc[d] \in {"cgroups", "taps", "up"} => (j \in dir => j \in DirErrs)
  /\ dpc[d] = "cgroups" =>
       /\ j \in cgroup => j \in todo[d] \union doomed[d] \union CgroupErrs
       /\ j \in todo[d] \union doomed[d] => j \in cgroup
  /\ dpc[d] \in {"taps", "up"} => (j \in cgroup => j \in CgroupErrs)
  /\ dpc[d] = "taps" => (j \in tap => j \in todo[d] \union TapErrs \union CgroupErrs)
  /\ dpc[d] = "up" => (j \in tap => j \in TapErrs \union CgroupErrs)

OldOk(d) == \A j \in old[d] : OldJob(d, j)

\* A sweep that is spoken for is the only one.
Alone(d) ==
  old[d] # {} /\ Sweeping(d) => \A e \in Daemons : Sweeping(e) => e = d

\* The inductive invariant.
IInv ==
  /\ Types
  /\ \A j \in Jobs : JobOk(j)
  /\ \A d \in Daemons : OrphansOk(d) /\ SettledOk(d) /\ OldOk(d) /\ Alone(d)

---------------------------------------------------------------------------

\* A host on which no daemon has run.
LEMMA InitInv == Init => IInv
BY OwnerAssumption, SMTT(30) DEF Init, IInv, Types, TypeOK, JobOk, OrphansOk, SettledOk, OldOk,
   OldJob, Alone, Sweeping, Up

\* The statements of a run up to the start of its VM.
LEMMA StartKeeps ==
  ASSUME IInv, NEW k \in Jobs, MkdirTemp(k) \/ newCgroup(k) \/ setupTap(k) \/ Start(k)
  PROVE  IInv'
<1> USE OwnerAssumption DEF IInv, MkdirTemp, newCgroup, setupTap, Start, Step, sweepVars, history
<1>1. Types'
  BY SMTT(30) DEF Types, TypeOK, JobOk
<1>2. \A j \in Jobs : JobOk(j)'
  BY SMTT(30) DEF Types, TypeOK, JobOk, OrphansOk, Up
<1>3. \A d \in Daemons : OrphansOk(d)'
  BY SMTT(30) DEF Types, TypeOK, JobOk, OrphansOk, Up
<1>4. \A d \in Daemons : SettledOk(d)'
  BY SMTT(30) DEF Types, TypeOK, JobOk, OrphansOk, SettledOk, Up
<1>5. \A d \in Daemons : OldOk(d)'
  BY SMTT(30) DEF Types, TypeOK, JobOk, OrphansOk, OldOk, OldJob, Alone, Up, Sweeping
<1>6. \A d \in Daemons : Alone(d)'
  BY DEF Types, TypeOK, OrphansOk, Alone, Sweeping
<1> HIDE DEF IInv
<1> QED BY <1>1, <1>2, <1>3, <1>4, <1>5, <1>6 DEF IInv

\* The statements after it.
LEMMA RunKeeps ==
  ASSUME IInv, NEW k \in Jobs, addProcess(k) \/ finish(k) \/ killProcess(k) \/ teardown(k)
  PROVE  IInv'
<1> USE OwnerAssumption DEF IInv, addProcess, finish, killProcess, teardown, Step, sweepVars, history, hostVars
<1>1. Types'
  BY SMTT(30) DEF Types, TypeOK, JobOk
<1>2. \A j \in Jobs : JobOk(j)'
  BY SMTT(30) DEF Types, TypeOK, JobOk, OrphansOk, Up
<1>3. \A d \in Daemons : OrphansOk(d)'
  BY SMTT(30) DEF Types, TypeOK, JobOk, OrphansOk, Up
<1>4. \A d \in Daemons : SettledOk(d)'
  BY SMTT(30) DEF Types, TypeOK, JobOk, OrphansOk, SettledOk, Up
<1>5. \A d \in Daemons : OldOk(d)'
  BY SMTT(30) DEF Types, TypeOK, JobOk, OrphansOk, OldOk, OldJob, Alone, Up, Sweeping
<1>6. \A d \in Daemons : Alone(d)'
  BY DEF Types, TypeOK, OrphansOk, Alone, Sweeping
<1> HIDE DEF IInv
<1> QED BY <1>1, <1>2, <1>3, <1>4, <1>5, <1>6 DEF IInv

\* A daemon starts.
LEMMA BootKeeps ==
  ASSUME IInv, NEW b \in Daemons, boot(b) \/ bootUnswept(b)
  PROVE  IInv'
<1> USE OwnerAssumption DEF IInv, boot, bootUnswept, Enter, hostVars, history
<1>1. Types'
  BY SMTT(30) DEF Types, TypeOK, JobOk
<1>2. \A j \in Jobs : JobOk(j)'
  BY SMTT(30) DEF Types, TypeOK, JobOk, OrphansOk, Up
<1>3. \A d \in Daemons : OrphansOk(d)'
  BY SMTT(30) DEF Types, TypeOK, JobOk, OrphansOk, Up
<1>4. \A d \in Daemons : SettledOk(d)'
  BY SMTT(30) DEF Types, TypeOK, JobOk, OrphansOk, SettledOk, Up
<1>5. \A d \in Daemons : OldOk(d)'
  BY SMTT(30) DEF Types, TypeOK, JobOk, OrphansOk, OldOk, OldJob, Alone, Up, Sweeping
<1>6. \A d \in Daemons : Alone(d)'
  BY SMTT(30) DEF Types, TypeOK, OrphansOk, Alone, Sweeping
<1> HIDE DEF IInv
<1> QED BY <1>1, <1>2, <1>3, <1>4, <1>5, <1>6 DEF IInv

\* A daemon dies.
LEMMA CrashKeeps ==
  ASSUME IInv, NEW b \in Daemons, crash(b)
  PROVE  IInv'
<1> USE OwnerAssumption DEF IInv, crash, hostVars, history
<1>1. Types'
  BY DEF Types, TypeOK, JobOk
<1>2. \A j \in Jobs : JobOk(j)'
  BY DEF Types, TypeOK, JobOk, OrphansOk, Up
<1>3. \A d \in Daemons : OrphansOk(d)'
  BY SMTT(30) DEF Types, TypeOK, JobOk, OrphansOk, Up
<1>4. \A d \in Daemons : SettledOk(d)'
  BY SMTT(30) DEF Types, TypeOK, JobOk, OrphansOk, SettledOk, Up
<1>5. \A d \in Daemons : OldOk(d)'
  <2> SUFFICES ASSUME NEW d \in Daemons, NEW j \in old'[d] PROVE OldJob(d, j)'
    BY DEF OldOk
  <2>1. CASE d = b
    BY <2>1, SMTT(30) DEF Types, TypeOK, OldOk, OldJob, Sweeping
  <2>2. CASE d # b
    BY <2>2, SMTT(30) DEF Types, TypeOK, OldOk, OldJob, Sweeping
  <2> QED BY <2>1, <2>2
<1>6. \A d \in Daemons : Alone(d)'
  BY SMTT(30) DEF Types, TypeOK, OrphansOk, Alone, Sweeping
<1> HIDE DEF IInv
<1> QED BY <1>1, <1>2, <1>3, <1>4, <1>5, <1>6 DEF IInv

\* A process is looked at.
LEMMA ScanKeeps ==
  ASSUME IInv, NEW b \in Daemons, NEW k \in Jobs, scan(b, k)
  PROVE  IInv'
<1> USE OwnerAssumption DEF IInv, scan, Look, isOrphanedProcess, hostVars, history
<1>1. Types'
  BY SMTT(30) DEF Types, TypeOK, JobOk
<1>2. \A j \in Jobs : JobOk(j)'
  BY DEF Types, TypeOK, JobOk, OrphansOk, Up
<1>3. \A d \in Daemons : OrphansOk(d)'
  BY SMTT(30) DEF Types, TypeOK, JobOk, OrphansOk, Up
<1>4. \A d \in Daemons : SettledOk(d)'
  BY SMTT(30) DEF Types, TypeOK, JobOk, OrphansOk, SettledOk, Up
<1>5. \A d \in Daemons : OldOk(d)'
  BY SMTT(30) DEF Types, TypeOK, JobOk, OrphansOk, OldOk, OldJob, Alone, Up, Sweeping
<1>6. \A d \in Daemons : Alone(d)'
  BY DEF Types, TypeOK, OrphansOk, Alone, Sweeping
<1> HIDE DEF IInv
<1> QED BY <1>1, <1>2, <1>3, <1>4, <1>5, <1>6 DEF IInv

\* The orphans are killed.
LEMMA KillKeeps ==
  ASSUME IInv, NEW b \in Daemons, killOrphans(b)
  PROVE  IInv'
<1> USE OwnerAssumption DEF IInv, killOrphans, Enter, history
<1>1. Types'
  BY DEF Types, TypeOK, JobOk
<1>2. \A j \in Jobs : JobOk(j)'
  BY SMTT(30) DEF Types, TypeOK, JobOk, OrphansOk, Up
<1>3. \A d \in Daemons : OrphansOk(d)'
  BY SMTT(30) DEF Types, TypeOK, JobOk, OrphansOk, Up
<1>4. \A d \in Daemons : SettledOk(d)'
  BY SMTT(30) DEF Types, TypeOK, JobOk, OrphansOk, SettledOk, Up
<1>5. \A d \in Daemons : OldOk(d)'
  <2> SUFFICES ASSUME NEW d \in Daemons, NEW j \in old'[d] PROVE OldJob(d, j)'
    BY DEF OldOk
  <2>1. CASE d = b
    BY <2>1, SMTT(30) DEF Types, TypeOK, JobOk, OldOk, OldJob, Sweeping
  <2>2. CASE d # b
    BY <2>2, SMTT(30) DEF Types, TypeOK, JobOk, OldOk, OldJob, Sweeping
  <2> QED BY <2>1, <2>2
<1>6. \A d \in Daemons : Alone(d)'
  BY SMTT(30) DEF Types, TypeOK, OrphansOk, Alone, Sweeping
<1> HIDE DEF IInv
<1> QED BY <1>1, <1>2, <1>3, <1>4, <1>5, <1>6 DEF IInv

\* The directories and the cgroups are listed.
LEMMA ListKeeps ==
  ASSUME IInv, NEW b \in Daemons, listDirs(b) \/ listCgroups(b)
  PROVE  IInv'
<1> USE OwnerAssumption DEF IInv, listDirs, listCgroups, Enter, hostVars, history
<1>1. Types'
  BY SMTT(30) DEF Types, TypeOK, JobOk
<1>2. \A j \in Jobs : JobOk(j)'
  BY SMTT(30) DEF Types, TypeOK, JobOk, OrphansOk, Up
<1>3. \A d \in Daemons : OrphansOk(d)'
  BY SMTT(30) DEF Types, TypeOK, JobOk, OrphansOk, Up
<1>4. \A d \in Daemons : SettledOk(d)'
  <2> SUFFICES ASSUME NEW d \in Daemons PROVE SettledOk(d)'
    OBVIOUS
  <2>1. CASE d = b
    BY <2>1, SMTT(30) DEF Types, TypeOK, JobOk, OrphansOk, SettledOk, Up
  <2>2. CASE d # b
    BY <2>2, SMTT(30) DEF Types, TypeOK, JobOk, OrphansOk, SettledOk, Up
  <2> QED BY <2>1, <2>2
<1>5. \A d \in Daemons : OldOk(d)'
  <2> SUFFICES ASSUME NEW d \in Daemons, NEW j \in old'[d] PROVE OldJob(d, j)'
    BY DEF OldOk
  <2>1. CASE listDirs(b) /\ d = b
    BY <2>1, SMTT(30) DEF Types, TypeOK, OrphansOk, OldOk, OldJob, Sweeping
  <2>2. CASE listCgroups(b) /\ d = b
    BY <2>2, SMTT(30) DEF Types, TypeOK, OrphansOk, OldOk, OldJob, Sweeping
  <2>3. CASE d # b
    BY <2>3, SMTT(30) DEF Types, TypeOK, OrphansOk, OldOk, OldJob, Sweeping
  <2> QED BY <2>1, <2>2, <2>3
<1>6. \A d \in Daemons : Alone(d)'
  BY SMTT(30) DEF Types, TypeOK, OrphansOk, Alone, Sweeping
<1> HIDE DEF IInv
<1> QED BY <1>1, <1>2, <1>3, <1>4, <1>5, <1>6 DEF IInv

\* The devices are listed, and the sweep ends.
LEMMA ServeKeeps ==
  ASSUME IInv, NEW b \in Daemons, listTaps(b) \/ serve(b)
  PROVE  IInv'
<1> USE OwnerAssumption DEF IInv, listTaps, serve, Enter, hostVars, history
<1>1. Types'
  BY SMTT(30) DEF Types, TypeOK, JobOk
<1>2. \A j \in Jobs : JobOk(j)'
  BY SMTT(30) DEF Types, TypeOK, JobOk, OrphansOk, Up
<1>3. \A d \in Daemons : OrphansOk(d)'
  BY SMTT(30) DEF Types, TypeOK, JobOk, OrphansOk, Up
<1>4. \A d \in Daemons : SettledOk(d)'
  <2> SUFFICES ASSUME NEW d \in Daemons PROVE SettledOk(d)'
    OBVIOUS
  <2>1. CASE d = b
    BY <2>1, SMTT(30) DEF Types, TypeOK, JobOk, OrphansOk, SettledOk, Up
  <2>2. CASE d # b
    BY <2>2, SMTT(30) DEF Types, TypeOK, JobOk, OrphansOk, SettledOk, Up
  <2> QED BY <2>1, <2>2
<1>5. \A d \in Daemons : OldOk(d)'
  <2> SUFFICES ASSUME NEW d \in Daemons, NEW j \in old'[d] PROVE OldJob(d, j)'
    BY DEF OldOk
  <2>1. CASE listTaps(b) /\ d = b
    BY <2>1, SMTT(30) DEF Types, TypeOK, OldOk, OldJob, Sweeping
  <2>2. CASE serve(b) /\ d = b
    BY <2>2, SMTT(30) DEF Types, TypeOK, OldOk, OldJob, Sweeping
  <2>3. CASE d # b
    BY <2>3, SMTT(30) DEF Types, TypeOK, OldOk, OldJob, Sweeping
  <2> QED BY <2>1, <2>2, <2>3
<1>6. \A d \in Daemons : Alone(d)'
  BY SMTT(30) DEF Types, TypeOK, OrphansOk, Alone, Sweeping
<1> HIDE DEF IInv
<1> QED BY <1>1, <1>2, <1>3, <1>4, <1>5, <1>6 DEF IInv

\* A directory or a device is looked at.
LEMMA RemoveKeeps ==
  ASSUME IInv, NEW b \in Daemons, NEW k \in Jobs, removeDir(b, k) \/ removeTap(b, k)
  PROVE  IInv'
<1> USE OwnerAssumption DEF IInv, removeDir, removeTap, Look, history
<1>1. Types'
  BY SMTT(30) DEF Types, TypeOK, JobOk
<1>2. \A j \in Jobs : JobOk(j)'
  BY SMTT(30) DEF Types, TypeOK, JobOk, OrphansOk, Up
<1>3. \A d \in Daemons : OrphansOk(d)'
  BY SMTT(30) DEF Types, TypeOK, JobOk, OrphansOk, Up
<1>4. \A d \in Daemons : SettledOk(d)'
  <2> SUFFICES ASSUME NEW d \in Daemons PROVE SettledOk(d)'
    OBVIOUS
  <2>1. CASE removeDir(b, k) /\ d = b
    BY <2>1 DEF Types, TypeOK, SettledOk, Up
  <2>2. CASE removeDir(b, k) /\ d # b
    BY <2>2 DEF Types, TypeOK, SettledOk, Up
  <2>3. CASE removeTap(b, k) /\ d = b
    BY <2>3 DEF Types, TypeOK, SettledOk, Up
  <2>4. CASE removeTap(b, k) /\ d # b
    BY <2>4, SMTT(30) DEF Types, TypeOK, SettledOk, Up
  <2> QED BY <2>1, <2>2, <2>3, <2>4
<1>5. \A d \in Daemons : OldOk(d)'
  <2> SUFFICES ASSUME NEW d \in Daemons, NEW j \in old[d] PROVE OldJob(d, j)'
    BY DEF OldOk
  <2>1. OldJob(d, j) /\ UNCHANGED <<dpc, doomed, live, proc, cgroup>>
    BY DEF OldOk
  <2>2. todo'[d] = IF d = b THEN todo[d] \ {k} ELSE todo[d]
    BY DEF Types, TypeOK
  <2>3. CASE removeDir(b, k)
    <3>1. dpc[b] = "dirs" /\ tap' = tap
      BY <2>3
    <3>2. (j \in dir' => j \in dir) /\ (d = b /\ j = k => (j \in dir' => j \in DirErrs))
      BY <2>1, <2>3, <3>1 DEF OldJob, Sweeping
    <3> HIDE DEF removeDir, removeTap
    <3> QED BY <2>1, <2>2, <3>1, <3>2 DEF OldJob, Sweeping
  <2>4. CASE removeTap(b, k)
    <3>1. dpc[b] = "taps" /\ dir' = dir
      BY <2>4
    <3>2. /\ j \in tap' => j \in tap
          /\ d = b /\ j = k => (j \in tap' => j \in TapErrs \union CgroupErrs)
      BY <2>1, <2>4, <3>1 DEF OldJob, Sweeping
    <3> HIDE DEF removeDir, removeTap
    <3> QED BY <2>1, <2>2, <3>1, <3>2 DEF OldJob, Sweeping
  <2> QED BY <2>3, <2>4
<1>6. \A d \in Daemons : Alone(d)'
  BY SMTT(30) DEF Types, TypeOK, OrphansOk, Alone, Sweeping
<1> HIDE DEF IInv
<1> QED BY <1>1, <1>2, <1>3, <1>4, <1>5, <1>6 DEF IInv

\* A cgroup is looked at.
LEMMA ReadKeeps ==
  ASSUME IInv, NEW b \in Daemons, NEW k \in Jobs, readProcs(b, k)
  PROVE  IInv'
<1> USE OwnerAssumption DEF IInv, readProcs, Look, hostVars, history
<1>1. Types'
  BY SMTT(30) DEF Types, TypeOK, JobOk
<1>2. \A j \in Jobs : JobOk(j)'
  BY DEF Types, TypeOK, JobOk, OrphansOk, Up
<1>3. \A d \in Daemons : OrphansOk(d)'
  <2> SUFFICES ASSUME NEW d \in Daemons PROVE OrphansOk(d)'
    OBVIOUS
  <2>1. CASE d = b
    BY <2>1, SMTT(30) DEF Types, TypeOK, OrphansOk
  <2>2. CASE d # b
    BY <2>2, SMTT(30) DEF Types, TypeOK, OrphansOk
  <2> QED BY <2>1, <2>2
<1>4. \A d \in Daemons : SettledOk(d)'
  <2> SUFFICES ASSUME NEW d \in Daemons PROVE SettledOk(d)'
    OBVIOUS
  <2>1. CASE d = b
    BY <2>1, SMTT(30) DEF Types, TypeOK, JobOk, SettledOk, Up
  <2>2. CASE d # b
    BY <2>2, SMTT(30) DEF Types, TypeOK, JobOk, SettledOk, Up
  <2> QED BY <2>1, <2>2
<1>5. \A d \in Daemons : OldOk(d)'
  <2> SUFFICES ASSUME NEW d \in Daemons, NEW j \in old'[d] PROVE OldJob(d, j)'
    BY DEF OldOk
  <2>1. CASE d = b
    BY <2>1, SMTT(30) DEF Types, TypeOK, OldOk, OldJob, Sweeping
  <2>2. CASE d # b
    BY <2>2, SMTT(30) DEF Types, TypeOK, OldOk, OldJob, Sweeping
  <2> QED BY <2>1, <2>2
<1>6. \A d \in Daemons : Alone(d)'
  BY DEF Types, TypeOK, OrphansOk, Alone, Sweeping
<1> HIDE DEF IInv
<1> QED BY <1>1, <1>2, <1>3, <1>4, <1>5, <1>6 DEF IInv

\* A cgroup is deleted.
LEMMA DeleteKeeps ==
  ASSUME IInv, NEW b \in Daemons, NEW k \in Jobs, deleteCgroup(b, k)
  PROVE  IInv'
<1> USE OwnerAssumption DEF IInv, deleteCgroup, history
<1>1. Types'
  BY DEF Types, TypeOK, JobOk
<1>2. \A j \in Jobs : JobOk(j)'
  BY SMTT(30) DEF Types, TypeOK, JobOk, OrphansOk, Up
<1>3. \A d \in Daemons : OrphansOk(d)'
  <2> SUFFICES ASSUME NEW d \in Daemons PROVE OrphansOk(d)'
    OBVIOUS
  <2>1. CASE d = b
    BY <2>1 DEF Types, TypeOK, OrphansOk
  <2>2. CASE d # b
    BY <2>2, SMTT(30) DEF Types, TypeOK, OrphansOk
  <2> QED BY <2>1, <2>2
<1>4. \A d \in Daemons : SettledOk(d)'
  <2> SUFFICES ASSUME NEW d \in Daemons PROVE SettledOk(d)'
    OBVIOUS
  <2>1. CASE d = b
    BY <2>1, SMTT(30) DEF Types, TypeOK, SettledOk, Up
  <2>2. CASE d # b
    BY <2>2, SMTT(30) DEF Types, TypeOK, SettledOk, Up
  <2> QED BY <2>1, <2>2
<1>5. \A d \in Daemons : OldOk(d)'
  <2> SUFFICES ASSUME NEW d \in Daemons, NEW j \in old'[d] PROVE OldJob(d, j)'
    BY DEF OldOk
  <2>1. CASE d = b
    <3>1. OldJob(d, j) /\ UNCHANGED <<dpc, todo, live, dir, tap, proc>>
      BY DEF OldOk
    <3>2. dpc[d] = "cgroups" /\ doomed[d] = {k} /\ k \notin todo[d] /\ doomed'[d] = {}
      BY <2>1 DEF Types, TypeOK, OrphansOk
    <3>3. j \notin member
      BY <3>1, <3>2 DEF OldJob, Types, TypeOK
    <3>4. /\ j \in cgroup' => j \in cgroup
          /\ j \in cgroup' /\ j = k => j \in CgroupErrs
          /\ j # k /\ j \in cgroup => j \in cgroup'
      BY <3>3
    <3> HIDE DEF IInv, deleteCgroup
    <3> QED BY <3>1, <3>2, <3>4 DEF OldJob, Sweeping
  <2>2. CASE d # b
    <3>1. ~Sweeping(d)
      BY <2>2 DEF Types, TypeOK, Alone, Sweeping
    <3> QED BY <2>2, <3>1, SMTT(30) DEF Types, TypeOK, OldOk, OldJob, Sweeping
  <2> QED BY <2>1, <2>2
<1>6. \A d \in Daemons : Alone(d)'
  BY DEF Types, TypeOK, OrphansOk, Alone, Sweeping
<1> HIDE DEF IInv
<1> QED BY <1>1, <1>2, <1>3, <1>4, <1>5, <1>6 DEF IInv

\* Every step keeps the invariant.
LEMMA Invariant == Spec => []IInv
<1>1. IInv /\ Next => IInv'
  BY StartKeeps, RunKeeps, BootKeeps, CrashKeeps, ScanKeeps, KillKeeps, ListKeeps, ServeKeeps,
     RemoveKeeps, ReadKeeps, DeleteKeeps DEF Next, Run, sweepOrphans
<1>2. IInv /\ UNCHANGED vars => IInv'
  <2> SUFFICES ASSUME IInv, UNCHANGED vars PROVE IInv'
    OBVIOUS
  <2> UNCHANGED <<contained, dpc, todo, doomed, live, jpc, dir, cgroup, tap, proc, member, old, settled>>
    BY DEF vars, hostVars, sweepVars, history
  <2> USE DEF IInv
  <2>1. Types' /\ \A j \in Jobs : JobOk(j)'
    BY DEF Types, TypeOK, JobOk, Up
  <2>2. \A d \in Daemons : OrphansOk(d)'
    BY SMTT(30) DEF OrphansOk, Types, TypeOK
  <2>3. \A d \in Daemons : SettledOk(d)'
    BY DEF SettledOk, Up, Types, TypeOK
  <2>4. \A d \in Daemons : OldOk(d)'
    BY SMTT(30) DEF OldOk, OldJob, Sweeping, Types, TypeOK
  <2>5. \A d \in Daemons : Alone(d)'
    BY DEF Alone, Sweeping
  <2> QED BY <2>1, <2>2, <2>3, <2>4, <2>5
<1> QED BY <1>1, <1>2, InitInv, PTL DEF Spec

---------------------------------------------------------------------------

\* The state of the host and of the daemons has its types; a process in a cgroup runs.
THEOREM TypesHold == Spec => []TypeOK
<1>1. IInv => TypeOK
  BY DEF IInv, Types
<1> QED BY <1>1, Invariant, PTL

\* When a daemon takes its first job nothing is left of the jobs of the daemons that had
\* died before it started but what it failed to remove, unless its sweep met another,
\* whether the daemons are PID 1 of a container or not: sweepOrphans looks at processes,
\* directories, cgroups and devices in an order in which each list relies on the last.
THEOREM SweepsAreComplete == Spec => []SweepIsComplete
<1>1. IInv => SweepIsComplete
  BY DEF IInv, OldOk, OldJob, SweepIsComplete
<1> QED BY <1>1, Invariant, PTL

\* No sweep kills the VM process of a daemon that is up, although the kill comes after
\* the look at the process and its parent.
THEOREM LiveVmsNotKilled == Spec => LiveVmNotKilled
<1>1. IInv /\ [Next]_vars =>
        [\A j \in Jobs : Up(j) /\ Up(j)' /\ proc[j] = "running" /\ proc'[j] # "running"
                         => jpc[j] = "kill"]_vars
  <2> SUFFICES ASSUME IInv, Next,
                      NEW j \in Jobs, Up(j), Up(j)', proc[j] = "running", proc'[j] # "running"
               PROVE  jpc[j] = "kill"
    OBVIOUS
  <2>1. ASSUME NEW k \in Jobs, Run(k) PROVE jpc[j] = "kill"
    <3>1. CASE Start(k)
      BY <2>1, <3>1 DEF IInv, Types, TypeOK, JobOk, Start, Step
    <3>2. CASE killProcess(k)
      BY <2>1, <3>2 DEF IInv, Types, TypeOK, killProcess, Step
    <3> QED BY <2>1, <3>1, <3>2 DEF Run, MkdirTemp, newCgroup, setupTap, addProcess, finish,
               teardown, hostVars
  <2>2. ASSUME NEW b \in Daemons, killOrphans(b) PROVE FALSE
    BY <2>2 DEF IInv, Types, TypeOK, OrphansOk, Up, killOrphans, Enter
  <2>3. ASSUME NEW b \in Daemons, sweepOrphans(b), ~killOrphans(b) PROVE proc' = proc
    BY <2>3 DEF sweepOrphans, boot, bootUnswept, listDirs, listCgroups, listTaps, serve, scan,
       removeDir, readProcs, deleteCgroup, removeTap, hostVars
  <2>4. ASSUME NEW b \in Daemons, crash(b) PROVE FALSE
    BY <2>4, OwnerAssumption, SMTT(30) DEF IInv, Types, TypeOK, Up, crash
  <2> QED BY <2>1, <2>2, <2>3, <2>4 DEF Next
<1> QED BY <1>1, Invariant, PTL DEF Spec, LiveVmNotKilled

\* A sweep takes nothing from a VM that was up and in its cgroup when the sweep began,
\* for as long as it runs: each of the three lists of removeDir, deleteCgroup and
\* removeTap is made from a fact that stays true of such a VM.
THEOREM SettledVmsKept == Spec => SettledVmKept
<1> DEFINE Takes(d, j) ==
       (<<dpc[d], todo[d], doomed[d]>>' # <<dpc[d], todo[d], doomed[d]>>
        /\ Up(j) /\ Up(j)' /\ jpc[j] = "run")
       => \A res \in {<<dir, dir'>>, <<cgroup, cgroup'>>, <<tap, tap'>>, <<member, member'>>} :
            j \in res[1] => j \in res[2]
<1>1. IInv /\ [Next]_vars => [\A d \in Daemons : \A j \in settled[d] : Takes(d, j)]_vars
  <2> SUFFICES ASSUME IInv, Next, NEW d \in Daemons, NEW j \in settled[d],
                      <<dpc[d], todo[d], doomed[d]>>' # <<dpc[d], todo[d], doomed[d]>>,
                      Up(j), Up(j)', jpc[j] = "run"
               PROVE  \A res \in {<<dir, dir'>>, <<cgroup, cgroup'>>, <<tap, tap'>>,
                                 <<member, member'>>} : j \in res[1] => j \in res[2]
    OBVIOUS
  <2> SUFFICES /\ j \in dir => j \in dir'
               /\ j \in cgroup => j \in cgroup'
               /\ j \in tap => j \in tap'
               /\ j \in member => j \in member'
    BY SMTT(30)
  <2> USE DEF IInv, Types, TypeOK
  <2>1. j \in Jobs /\ j \in member
    BY DEF JobOk
  <2>2. ASSUME NEW k \in Jobs, Run(k) PROVE FALSE
    BY <2>2 DEF Run, MkdirTemp, newCgroup, setupTap, Start, addProcess, finish, killProcess, teardown,
       Step, sweepVars
  <2>3. ASSUME NEW b \in Daemons, killOrphans(b) PROVE UNCHANGED <<dir, cgroup, tap>> /\ j \in member'
    BY <2>1, <2>3 DEF killOrphans, Enter, OrphansOk, JobOk, Up
  <2>4. ASSUME NEW b \in Daemons, NEW k \in Jobs, removeDir(b, k)
        PROVE  UNCHANGED <<cgroup, tap, member>> /\ (j \in dir => j \in dir')
    BY <2>1, <2>4 DEF removeDir, Look, SettledOk
  <2>5. ASSUME NEW b \in Daemons, NEW k \in Jobs, deleteCgroup(b, k)
        PROVE  UNCHANGED <<dir, tap, member>> /\ (j \in cgroup => j \in cgroup')
    BY <2>1, <2>5 DEF deleteCgroup
  <2>6. ASSUME NEW b \in Daemons, NEW k \in Jobs, removeTap(b, k)
        PROVE  UNCHANGED <<dir, cgroup, member>> /\ (j \in tap => j \in tap')
    BY <2>1, <2>6 DEF removeTap, Look, SettledOk
  <2>7. ASSUME NEW b \in Daemons, crash(b)
        PROVE  UNCHANGED <<dir, cgroup, tap>> /\ (j \in member => j \in member')
    BY <2>1, <2>7, OwnerAssumption, SMTT(30) DEF crash, Up
  <2> HIDE DEF IInv, Types, TypeOK
  <2>8. ASSUME NEW b \in Daemons,
               \/ boot(b) \/ bootUnswept(b) \/ listDirs(b) \/ listCgroups(b) \/ listTaps(b) \/ serve(b)
               \/ \E k \in Jobs : scan(b, k) \/ readProcs(b, k)
        PROVE  UNCHANGED <<dir, cgroup, tap, member>>
    BY <2>8 DEF boot, bootUnswept, listDirs, listCgroups, listTaps, serve, scan, readProcs, hostVars
  <2> QED BY <2>1, <2>2, <2>3, <2>4, <2>5, <2>6, <2>7, <2>8 DEF Next, sweepOrphans
<1> QED BY <1>1, Invariant, PTL DEF Spec, SettledVmKept

---------------------------------------------------------------------------
(* GuestAgent: the job's processes and its result.                         *)

\* The types the argument needs.
AgentTypes ==
  /\ gpc \in {"start", "wait", "copyWait", "reap", "drain", "artifacts", "classify", "done"}
  /\ command \in {"none", "running", "exited"}
  /\ child \in [Children -> {"none", "group", "session", "dead"}]
  /\ held \subseteq copier
  /\ cancelCh \in BOOLEAN /\ killer \in BOOLEAN /\ artifacts \in BOOLEAN
  /\ ctx \in {"live", "deadline"}

\* The command: not started, then running or exited, then exited for good.
CommandSpan ==
  /\ gpc = "start" => command = "none"
  /\ gpc \in {"copyWait", "reap", "drain", "artifacts", "classify"} => command = "exited"
  /\ gpc = "done" => command # "running"
  /\ command = "none" => gpc \in {"start", "done"} /\ ~killer
  /\ artifacts => command = "exited" /\ gpc \in {"classify", "done"}

\* Without a command there are no processes, and reapOrphans ends when there are none.
ChildSpan ==
  gpc \in {"start", "artifacts", "classify", "done"} => Alive = {}

\* copyWG.Wait: no copy goes on after it.
CopySpan ==
  gpc \in {"start", "reap", "drain", "artifacts", "classify", "done"} => copier = {}

ResultSpan == reason = "none" <=> gpc # "done"

\* The killing goroutine has killed only after a cancellation or the timeout, and
\* neither comes after the result.
KillerSpan ==
  /\ command # "none" /\ ~cancelCh /\ ctx = "live" => killer
  /\ reason = "completed" => command = "exited" /\ ~cancelCh /\ ctx = "live"
  /\ reason = "cancelled" => cancelCh
  /\ reason = "timeout" => ctx = "deadline"

\* The inductive invariant.
AgentInv == AgentTypes /\ CommandSpan /\ ChildSpan /\ CopySpan /\ ResultSpan /\ KillerSpan

---------------------------------------------------------------------------

\* An agent that has received its job.
LEMMA AgentInitInv == AgentInit => AgentInv
BY DEF AgentInit, AgentInv, AgentTypes, CommandSpan, ChildSpan, CopySpan, ResultSpan, KillerSpan, Alive

\* The statements of runJob.
LEMMA RunJobKeeps ==
  ASSUME AgentInv, runJob
  PROVE  AgentInv'
<1> USE DEF AgentInv, AgentTypes, CommandSpan, ChildSpan, CopySpan, ResultSpan, KillerSpan, Alive
<1> USE DEF procVars, outVars, envVars
<1>1. CASE cmdStart
  <2>1. AgentTypes'
    BY <1>1 DEF cmdStart
  <2>2. CommandSpan' /\ CopySpan'
    BY <1>1, SMTT(30) DEF cmdStart
  <2>3. ChildSpan'
    BY <1>1 DEF cmdStart
  <2>4. ResultSpan'
    BY <1>1 DEF cmdStart
  <2>5. KillerSpan'
    BY <1>1 DEF cmdStart
  <2> QED BY <2>1, <2>2, <2>3, <2>4, <2>5
<1>2. CASE Wait
  BY <1>2 DEF Wait
<1>3. CASE copyWait
  BY <1>3 DEF copyWait
<1>4. CASE reapOrphans
  BY <1>4 DEF reapOrphans, killGroup
<1>5. CASE sendArtifacts
  BY <1>5 DEF sendArtifacts
<1>6. CASE classify
  <2>1. AgentTypes' /\ CommandSpan' /\ ChildSpan' /\ CopySpan' /\ ResultSpan'
    BY <1>6 DEF classify
  <2>2. KillerSpan'
    BY <1>6 DEF classify
  <2> QED BY <2>1, <2>2
<1> QED BY <1>1, <1>2, <1>3, <1>4, <1>5, <1>6 DEF runJob

\* The goroutines beside it, the job's processes, the clock and the host.
LEMMA BesideKeeps ==
  ASSUME AgentInv,
         \/ kill \/ contextKill \/ watchCancellation
         \/ \E s \in Streams : copyRead(s) \/ copySend(s) \/ copyEnd(s)
         \/ Job \/ timeout \/ hostClose \/ UNCHANGED agentVars
  PROVE  AgentInv'
<1> USE DEF AgentInv, AgentTypes, CommandSpan, ChildSpan, CopySpan, ResultSpan, KillerSpan, Alive
<1> USE DEF procVars, outVars, envVars
<1>1. CASE kill
  BY <1>1 DEF kill, killGroup
<1>2. CASE contextKill
  BY <1>2 DEF contextKill
<1>3. CASE watchCancellation
  BY <1>3 DEF watchCancellation
<1>4. ASSUME NEW s \in Streams, copyRead(s) \/ copySend(s) \/ copyEnd(s) PROVE AgentInv'
  <2>1. CASE copyRead(s)
    BY <2>1 DEF copyRead
  <2>2. CASE copySend(s)
    BY <2>2 DEF copySend
  <2>3. CASE copyEnd(s)
    BY <2>3 DEF copyEnd
  <2> QED BY <1>4, <2>1, <2>2, <2>3
<1>5. ASSUME NEW s \in Streams, write(s) PROVE AgentInv'
  BY <1>5 DEF write
<1>6. CASE exit
  BY <1>6 DEF exit
<1>7. ASSUME NEW c \in Children, fork(c) PROVE AgentInv'
  BY <1>7 DEF fork
<1>8. ASSUME NEW c \in Children, childExit(c) PROVE AgentInv'
  BY <1>8 DEF childExit
<1>9. CASE timeout
  BY <1>9 DEF timeout
<1>10. CASE hostClose
  BY <1>10 DEF hostClose
<1>11. CASE UNCHANGED agentVars
  BY <1>11 DEF agentVars
<1> HIDE DEF AgentInv
<1> QED BY <1>1, <1>2, <1>3, <1>4, <1>5, <1>6, <1>7, <1>8, <1>9, <1>10, <1>11 DEF Job

\* Every step keeps the invariant.
LEMMA AgentInvariant == AgentSpec => []AgentInv
<1>1. AgentInv /\ [AgentNext]_agentVars => AgentInv'
  BY RunJobKeeps, BesideKeeps DEF AgentNext
<1> QED BY <1>1, AgentInitInv, PTL DEF AgentSpec

---------------------------------------------------------------------------

\* The chunks of a stream: sent, read but not sent yet, or still in the pipe; the
\* others are lost.
Chunks(s) == sent[s] + pipe[s] + (IF s \in held THEN 1 ELSE 0)

\* No chunk that the command has written is counted twice, and the flags are flags.
Accounts ==
  /\ written \in [Streams -> Nat] /\ pipe \in [Streams -> Nat] /\ sent \in [Streams -> Nat]
  /\ \A s \in Streams : Chunks(s) <= written[s] /\ written[s] <= MaxChunks
  /\ copier \subseteq Streams /\ held \subseteq copier
  /\ closed \in BOOLEAN /\ linked \in BOOLEAN
  /\ reason \in {"none", "executor_error", "command_not_found", "command_failed",
                 "cancelled", "timeout", "completed"}

\* The copying goroutines keep the accounts.
LEMMA CopyAccounts ==
  ASSUME Accounts, NEW s \in Streams, copyRead(s) \/ copySend(s) \/ copyEnd(s)
  PROVE  Accounts'
<1> USE DEF Accounts, Chunks
<1>1. CASE copyRead(s)
  BY <1>1, SMTT(30) DEF copyRead, envVars
<1>2. CASE copySend(s)
  BY <1>2, SMTT(30) DEF copySend, envVars
<1>3. CASE copyEnd(s)
  BY <1>3 DEF copyEnd, envVars
<1> QED BY <1>1, <1>2, <1>3

\* Output is written, sent and lost, never invented.
LEMMA AccountsKept == AgentSpec => []Accounts
<1>1. AgentInit => Accounts
  <2> SUFFICES ASSUME AgentInit PROVE Accounts
    OBVIOUS
  <2>1. /\ written \in [Streams -> Nat] /\ pipe \in [Streams -> Nat] /\ sent \in [Streams -> Nat]
        /\ copier = {} /\ held = {} /\ closed = FALSE /\ linked = TRUE /\ reason = "none"
    BY DEF AgentInit
  <2>2. \A s \in Streams : sent[s] = 0 /\ pipe[s] = 0 /\ written[s] = 0
    BY DEF AgentInit
  <2>3. \A s \in Streams : Chunks(s) <= written[s] /\ written[s] <= MaxChunks
    BY <2>1, <2>2, MaxChunksAssumption, SMTT(30) DEF Chunks
  <2>4. /\ copier \subseteq Streams /\ held \subseteq copier
        /\ closed \in BOOLEAN /\ linked \in BOOLEAN
    BY <2>1
  <2> QED BY <2>1, <2>3, <2>4 DEF Accounts
<1>2. Accounts /\ [AgentNext]_agentVars => Accounts'
  <2> SUFFICES ASSUME Accounts, [AgentNext]_agentVars PROVE Accounts'
    OBVIOUS
  <2>1. ASSUME NEW s \in Streams, write(s) PROVE Accounts'
    BY <2>1, MaxChunksAssumption, SMTT(30) DEF write, Accounts, Chunks, envVars
  <2>2. CASE runJob
    <3>1. /\ UNCHANGED <<written, pipe, sent, held, linked>>
          /\ copier' \in {copier, Streams} /\ closed' \in {closed, TRUE}
      BY <2>2 DEF runJob, cmdStart, Wait, copyWait, reapOrphans, sendArtifacts, classify, Accounts,
         outVars, envVars
    <3>2. reason' = reason \/ reason' \in {"executor_error", "command_not_found",
             "command_failed", "cancelled", "timeout", "completed"}
      BY <2>2 DEF runJob, cmdStart, Wait, copyWait, reapOrphans, sendArtifacts, classify
    <3> QED BY <3>1, <3>2 DEF Accounts, Chunks
  <2>3. CASE \/ kill \/ contextKill \/ watchCancellation \/ exit \/ timeout \/ hostClose
             \/ \E c \in Children : fork(c) \/ childExit(c)
             \/ UNCHANGED agentVars
    <3>1. UNCHANGED <<written, pipe, sent, held, copier, closed, reason>> /\ linked' \in {linked, FALSE}
      BY <2>3 DEF kill, contextKill, watchCancellation, exit, timeout, hostClose, fork, childExit,
         agentVars, outVars, envVars
    <3> QED BY <3>1 DEF Accounts, Chunks
  <2> QED BY <2>1, <2>2, <2>3, CopyAccounts DEF AgentNext, Job
<1> QED BY <1>1, <1>2, PTL DEF AgentSpec

---------------------------------------------------------------------------

\* The agent's state has its types; in particular the host is never sent more of a
\* stream than the command wrote.
THEOREM AgentTypesHold == AgentSpec => []AgentTypeOK
<1>1. AgentInv /\ Accounts => AgentTypeOK
  <2> SUFFICES ASSUME AgentInv, Accounts PROVE AgentTypeOK
    OBVIOUS
  <2>1. \A s \in Streams : /\ written[s] \in 0 .. MaxChunks
                           /\ pipe[s] \in 0 .. MaxChunks /\ sent[s] \in 0 .. MaxChunks
    BY MaxChunksAssumption, SMTT(30) DEF Accounts, Chunks
  <2>2. /\ written \in [Streams -> 0 .. MaxChunks] /\ pipe \in [Streams -> 0 .. MaxChunks]
        /\ sent \in [Streams -> 0 .. MaxChunks]
    BY <2>1 DEF Accounts
  <2> QED BY <2>2 DEF AgentInv, AgentTypes, Accounts, AgentTypeOK
<1> QED BY <1>1, AgentInvariant, AccountsKept, PTL

\* When runJob sends its result no process of the job is left, and artifacts are
\* collected when none can change them, however many processes the job has started
\* and wherever they went.
THEOREM NoWorkLeft == AgentSpec => []NoWorkAfterResult
<1>1. AgentInv => NoWorkAfterResult
  BY DEF AgentInv, CommandSpan, ChildSpan, CopySpan, ResultSpan, NoWorkAfterResult
<1> QED BY <1>1, AgentInvariant, PTL

\* The reason in the result is one that happened, and "completed" is not said of a job
\* that the agent has killed.
THEOREM ReasonsAreTrue == AgentSpec => []ReasonIsTrue
<1>1. AgentInv => ReasonIsTrue
  BY DEF AgentInv, KillerSpan, ReasonIsTrue
<1> QED BY <1>1, AgentInvariant, PTL

\* After the result the agent sends neither output nor artifacts nor another result.
THEOREM NothingFollows == AgentSpec => ResultIsLast
<1>1. AgentInv /\ [AgentNext]_agentVars => [reason # "none" => UNCHANGED <<sent, artifacts, reason>>]_agentVars
  <2> SUFFICES ASSUME AgentInv, AgentNext, reason # "none"
               PROVE  UNCHANGED <<sent, artifacts, reason>>
    OBVIOUS
  <2>1. gpc = "done" /\ held = {}
    BY DEF AgentInv, AgentTypes, CopySpan, ResultSpan
  <2>2. ~runJob /\ \A s \in Streams : ~copySend(s)
    BY <2>1 DEF runJob, cmdStart, Wait, copyWait, reapOrphans, sendArtifacts, classify, copySend
  <2> QED BY <2>2 DEF AgentNext, Job, kill, contextKill, watchCancellation, copyRead, copyEnd,
             write, exit, fork, childExit, timeout, hostClose, outVars, envVars
<1> QED BY <1>1, AgentInvariant, PTL DEF AgentSpec, ResultIsLast
===========================================================================
