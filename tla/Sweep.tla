------------------------------- MODULE Sweep ------------------------------
(***************************************************************************)
(* Daemons that crash and start again (internal/executor/sweep_linux.go).  *)
(* A daemon runs jobs, each of which creates a directory, a cgroup, a TAP  *)
(* device and a VM process and removes them again; a daemon that dies      *)
(* leaves them, and its VM processes are handed to init.  A daemon that    *)
(* starts sweeps first: it lists the VM processes, kills the orphaned ones *)
(* and removes the directories, cgroups and devices it takes for theirs,   *)
(* one after the other, while jobs of other daemons go on.  A step that    *)
(* fails is passed over.                                                   *)
(***************************************************************************)
EXTENDS Naturals

CONSTANTS
  Daemons,    \* starts of yonkd on one host, with one work directory
  Jobs,       \* jobs, each with an ID of its own
  Owner,      \* Owner[j]: the daemon that runs job j
  DirErrs,    \* jobs whose directory a sweep may fail to remove,
  CgroupErrs, \* whose cgroup it may fail to read or to delete,
  TapErrs     \* whose TAP device it may fail to remove

ASSUME OwnerAssumption == Owner \in [Jobs -> Daemons]

VARIABLES
  contained,  \* yonkd runs in a container of its own, as PID 1
  dpc,      \* dpc[d]: "off", a step of sweepOrphans, "up" or "dead"
  todo,     \* todo[d]: what the loop of that step has still to look at
  doomed,   \* doomed[d]: jobs whose VM, then whose cgroup, it has decided to end
  live,     \* live[d]: jobs it has found live: liveJobDirs, then liveJobIDs
  jpc,      \* jpc[j]: the step of job j
  dir, cgroup, tap,   \* jobs whose directory, cgroup, TAP device exists
  proc,     \* proc[j]: the VM process: "none", "running", "exited"
  member,   \* jobs whose VM process is in its cgroup
  old,      \* history: old[d]: jobs whose daemon was dead when d started, or {} if
            \* the sweep of d has overlapped another
  settled   \* history: settled[d]: jobs whose VM was up and placed when d started, or {}
            \* if d could not list the cgroups

hostVars  == <<dir, cgroup, tap, proc, member>>
sweepVars == <<todo, doomed, live>>
history   == <<old, settled>>
vars == <<contained, dpc, sweepVars, jpc, hostVars, history>>

Init ==
  /\ contained \in BOOLEAN
  /\ dpc = [d \in Daemons |-> "off"]
  /\ todo = [d \in Daemons |-> {}]
  /\ doomed = [d \in Daemons |-> {}]
  /\ live = [d \in Daemons |-> {}]
  /\ jpc = [j \in Jobs |-> "idle"]
  /\ dir = {} /\ cgroup = {} /\ tap = {} /\ member = {}
  /\ proc = [j \in Jobs |-> "none"]
  /\ old = [d \in Daemons |-> {}]
  /\ settled = [d \in Daemons |-> {}]

Up(j) == dpc[Owner[j]] = "up"

---------------------------------------------------------------------------
(* Jobs: Firecracker.Run as a sweep meets it; Microvm has all of it.       *)

Step(j, from, to) ==
  /\ Up(j) /\ jpc[j] = from
  /\ jpc' = [jpc EXCEPT ![j] = to]
  /\ UNCHANGED <<contained, dpc, sweepVars, history>>

MkdirTemp(j) ==
  /\ Step(j, "idle", "cgroup")
  /\ dir' = dir \union {j}
  /\ UNCHANGED <<cgroup, tap, proc, member>>

newCgroup(j) ==
  /\ Step(j, "cgroup", "tap")
  /\ cgroup' = cgroup \union {j}
  /\ UNCHANGED <<dir, tap, proc, member>>

setupTap(j) ==
  /\ Step(j, "tap", "start")
  /\ tap' = tap \union {j}
  /\ UNCHANGED <<dir, cgroup, proc, member>>

\* cmd.Start; a run whose directory has gone fails here at the latest, because the VM
\* cannot open its sockets.
Start(j) ==
  /\ Step(j, "start", "place")
  /\ proc' = [proc EXCEPT ![j] = IF j \in dir THEN "running" ELSE "exited"]
  /\ UNCHANGED <<dir, cgroup, tap, member>>

addProcessUnchecked(j) ==
  /\ Step(j, "place", "run")
  /\ member' = member \union {j}
  /\ UNCHANGED <<dir, cgroup, tap, proc>>

\* addProcess fails when the cgroup, or the process, is no longer there.
addProcess(j) ==
  /\ \/ /\ j \in cgroup /\ proc[j] = "running"
        /\ Step(j, "place", "run")
        /\ member' = member \union {j}
     \/ /\ j \notin cgroup \/ proc[j] # "running"
        /\ Step(j, "place", "kill")
        /\ UNCHANGED member
  /\ UNCHANGED <<dir, cgroup, tap, proc>>

\* The guest runs; at the end killProcess.
finish(j) ==
  /\ Step(j, "run", "kill")
  /\ UNCHANGED hostVars

killProcess(j) ==
  /\ Step(j, "kill", "untap")
  /\ proc' = [proc EXCEPT ![j] = "exited"]
  /\ member' = member \ {j}
  /\ UNCHANGED <<dir, cgroup, tap>>

\* The deferred calls.
teardown(j) ==
  \/ /\ Step(j, "untap", "uncgroup")
     /\ tap' = tap \ {j} /\ UNCHANGED <<dir, cgroup, proc, member>>
  \/ /\ Step(j, "uncgroup", "undir")
     /\ cgroup' = cgroup \ {j} /\ UNCHANGED <<dir, tap, proc, member>>
  \/ /\ Step(j, "undir", "done")
     /\ dir' = dir \ {j} /\ UNCHANGED <<cgroup, tap, proc, member>>

---------------------------------------------------------------------------
(* Daemons: NewFirecracker calls sweepOrphans before it takes jobs.        *)

Enter(d, from, to, list) ==
  /\ dpc[d] = from /\ todo[d] = {}
  /\ dpc' = [dpc EXCEPT ![d] = to]
  /\ todo' = [todo EXCEPT ![d] = list]
  /\ UNCHANGED contained

Look(d, at, j) ==
  /\ dpc[d] = at /\ j \in todo[d]
  /\ todo' = [todo EXCEPT ![d] = @ \ {j}]
  /\ UNCHANGED <<contained, dpc>>

Sweeping(d) == dpc[d] \in {"scan", "killed", "dirs", "cgroups", "taps"}

\* A container holds one daemon.
MayStart == contained => \A e \in Daemons : dpc[e] \in {"off", "dead"}

\* The daemon starts: ReadDir("/proc").
boot(d) ==
  /\ MayStart
  /\ Enter(d, "off", "scan", {j \in Jobs : proc[j] = "running"})
  /\ old' = [e \in Daemons |->
               IF e = d /\ ~\E o \in Daemons : Sweeping(o)
               THEN {j \in Jobs : dpc[Owner[j]] = "dead"}
               ELSE IF e = d \/ Sweeping(e) THEN {} ELSE old[e]]
  /\ settled' = [settled EXCEPT ![d] = {j \in member : Up(j)}]
  /\ UNCHANGED <<doomed, live, jpc, hostVars>>

\* ReadDir("/proc") fails, and there is no sweep.
bootUnswept(d) ==
  /\ MayStart
  /\ Enter(d, "off", "up", {})
  /\ UNCHANGED <<doomed, live, jpc, hostVars, history>>

\* The VM processes of a daemon that dies stay, unless it was PID 1 of a container.
crash(d) ==
  /\ dpc[d] \notin {"off", "dead"}
  /\ dpc' = [dpc EXCEPT ![d] = "dead"]
  /\ todo' = [todo EXCEPT ![d] = {}]
  /\ doomed' = [doomed EXCEPT ![d] = {}]
  /\ live' = [live EXCEPT ![d] = {}]
  /\ LET ends == {j \in Jobs : contained /\ Owner[j] = d}
     IN /\ proc' = [j \in Jobs |-> IF j \in ends /\ proc[j] = "running" THEN "exited" ELSE proc[j]]
        /\ member' = member \ ends
  /\ UNCHANGED <<contained, jpc, dir, cgroup, tap, history>>

isOrphanedAlways(j) == TRUE

\* The parent of the VM process is init, because its daemon is gone, and init is not
\* the sweeping daemon itself.  (A stat that is there has its fields: the kernel writes
\* it.  One that has gone is scan's concern.)
isOrphanedProcess(j) == ~Up(j) /\ ~contained

\* One /proc entry: a process that has gone meanwhile is passed over, or taken for
\* an orphan when it goes between the reads of cmdline and stat.
scan(d, j) ==
  /\ Look(d, "scan", j)
  /\ \/ /\ proc[j] = "running" => isOrphanedProcess(j)
        /\ doomed' = [doomed EXCEPT ![d] = @ \union {j}]
        /\ UNCHANGED live
     \/ /\ proc[j] = "running" /\ ~isOrphanedProcess(j)
        /\ live' = [live EXCEPT ![d] = @ \union {j}]
        /\ UNCHANGED doomed
     \/ /\ proc[j] # "running"
        /\ UNCHANGED <<doomed, live>>
  /\ UNCHANGED <<jpc, hostVars, history>>

leaveOrphans(d) ==
  /\ Enter(d, "scan", "killed", {})
  /\ live' = [live EXCEPT ![d] = @ \ doomed[d]]
  /\ doomed' = [doomed EXCEPT ![d] = {}]
  /\ UNCHANGED <<jpc, hostVars, history>>

\* SIGTERM, SIGKILL and the pauses; an orphan's directory is not live.
killOrphans(d) ==
  /\ Enter(d, "scan", "killed", {})
  /\ proc' = [j \in Jobs |-> IF j \in doomed[d] /\ proc[j] = "running" THEN "exited" ELSE proc[j]]
  /\ member' = member \ doomed[d]
  /\ live' = [live EXCEPT ![d] = @ \ doomed[d]]
  /\ doomed' = [doomed EXCEPT ![d] = {}]
  /\ UNCHANGED <<jpc, dir, cgroup, tap, history>>

\* ReadDir(workDir); that it fails is the case that each removal does.
listDirs(d) ==
  /\ Enter(d, "killed", "dirs", dir)
  /\ UNCHANGED <<doomed, live, jpc, hostVars, history>>

removeEveryDir(d, j) ==
  /\ Look(d, "dirs", j)
  /\ dir' = dir \ {j}
  /\ UNCHANGED <<doomed, live, jpc, cgroup, tap, proc, member, history>>

\* One vm-* directory: kept if the scan found its VM live, or if RemoveAll fails.
removeDir(d, j) ==
  /\ Look(d, "dirs", j)
  /\ \/ j \in live[d] \union DirErrs /\ UNCHANGED dir
     \/ j \notin live[d] /\ dir' = dir \ {j}
  /\ UNCHANGED <<doomed, live, jpc, cgroup, tap, proc, member, history>>

\* ReadDir("/sys/fs/cgroup"); liveJobIDs starts empty.  It stays so if ReadDir fails,
\* and no VM is known to be live when the devices are removed.
listCgroups(d) ==
  /\ \/ Enter(d, "dirs", "cgroups", cgroup) /\ UNCHANGED settled
     \/ /\ cgroup \subseteq CgroupErrs
        /\ Enter(d, "dirs", "cgroups", {})
        /\ settled' = [settled EXCEPT ![d] = {}]
  /\ live' = [live EXCEPT ![d] = {}]
  /\ UNCHANGED <<doomed, jpc, hostVars, old>>

\* One yonk-* cgroup: its job is live if cgroup.procs is not empty, or cannot be
\* read; else the cgroup is to be deleted.
readProcs(d, j) ==
  /\ doomed[d] = {}
  /\ Look(d, "cgroups", j)
  /\ \/ /\ j \in member \union CgroupErrs \/ j \notin cgroup
        /\ live' = [live EXCEPT ![d] = @ \union {j}]
        /\ UNCHANGED doomed
     \/ /\ j \notin member /\ j \in cgroup
        /\ doomed' = [doomed EXCEPT ![d] = {j}]
        /\ UNCHANGED live
  /\ UNCHANGED <<jpc, hostVars, history>>

\* cgroup2.Load and manager.Delete, which fails if a process has been placed meanwhile.
deleteCgroup(d, j) ==
  /\ dpc[d] = "cgroups" /\ j \in doomed[d]
  /\ doomed' = [doomed EXCEPT ![d] = {}]
  /\ \/ j \in member \union CgroupErrs /\ UNCHANGED cgroup
     \/ j \notin member /\ cgroup' = cgroup \ {j}
  /\ UNCHANGED <<contained, dpc, todo, live, jpc, dir, tap, proc, member, history>>

\* LinkList; that it fails is the case that each removal does.
listTaps(d) ==
  /\ doomed[d] = {}
  /\ Enter(d, "cgroups", "taps", tap)
  /\ UNCHANGED <<doomed, live, jpc, hostVars, history>>

\* One TAP device: kept if a live cgroup carries its job's ID, or if LinkDel fails.
removeTap(d, j) ==
  /\ Look(d, "taps", j)
  /\ \/ j \in live[d] \union TapErrs /\ UNCHANGED tap
     \/ j \notin live[d] /\ tap' = tap \ {j}
  /\ UNCHANGED <<doomed, live, jpc, dir, cgroup, proc, member, history>>

\* preflight and the server; the daemon takes jobs.
serve(d) ==
  /\ Enter(d, "taps", "up", {})
  /\ live' = [live EXCEPT ![d] = {}]
  /\ UNCHANGED <<doomed, jpc, hostVars, history>>

---------------------------------------------------------------------------

Run(j) ==
  \/ MkdirTemp(j) \/ newCgroup(j) \/ setupTap(j) \/ Start(j) \/ addProcess(j)
  \/ finish(j) \/ killProcess(j) \/ teardown(j)

sweepOrphans(d) ==
  \/ boot(d) \/ bootUnswept(d) \/ killOrphans(d) \/ listDirs(d) \/ listCgroups(d) \/ listTaps(d) \/ serve(d)
  \/ \E j \in Jobs : scan(d, j) \/ removeDir(d, j) \/ readProcs(d, j)
                   \/ deleteCgroup(d, j) \/ removeTap(d, j)

Next ==
  \/ \E j \in Jobs : Run(j)
  \/ \E d \in Daemons : sweepOrphans(d) \/ crash(d)

Spec == Init /\ [][Next]_vars

---------------------------------------------------------------------------
(* Properties                                                              *)

\* Type invariant.
TypeOK ==
  /\ contained \in BOOLEAN
  /\ dpc \in [Daemons -> {"off", "scan", "killed", "dirs", "cgroups", "taps", "up", "dead"}]
  /\ todo \in [Daemons -> SUBSET Jobs]
  /\ doomed \in [Daemons -> SUBSET Jobs] /\ live \in [Daemons -> SUBSET Jobs]
  /\ jpc \in [Jobs -> {"idle", "cgroup", "tap", "start", "place", "run", "kill", "untap",
                       "uncgroup", "undir", "done"}]
  /\ dir \subseteq Jobs /\ cgroup \subseteq Jobs /\ tap \subseteq Jobs
  /\ proc \in [Jobs -> {"none", "running", "exited"}]
  /\ member \subseteq {j \in Jobs : proc[j] = "running"}

\* "removes VM state left behind by a daemon that died mid-job": when a daemon takes
\* its first job nothing is left of the jobs of the daemons that had died before it
\* started, wherever in their runs, or in their own sweeps, they died, but what could
\* not be removed, and the TAP device of a job whose cgroup could not be read.  Two
\* sweeps that overlap can each leave a TAP device to the other, and are not spoken for.
SweepIsComplete ==
  \A d \in Daemons :
    dpc[d] = "up" =>
      \A j \in old[d] :
        /\ proc[j] # "running"
        /\ j \in dir => j \in DirErrs
        /\ j \in cgroup => j \in CgroupErrs
        /\ j \in tap => j \in TapErrs \union CgroupErrs

\* "State owned by a live Firecracker process is always kept, so a running VM from
\* another daemon instance is never disturbed", for a VM that was not being started at
\* that moment: a sweep takes neither directory nor cgroup nor TAP device nor process
\* from a VM that was up and in its cgroup when the sweep began, for as long as that
\* VM runs and its daemon lives.  The sweep is one that could list the cgroups.
SettledVmKept ==
  [][\A d \in Daemons : \A j \in settled[d] :
       (<<dpc[d], todo[d], doomed[d]>>' # <<dpc[d], todo[d], doomed[d]>>
        /\ Up(j) /\ Up(j)' /\ jpc[j] = "run")
       => \A res \in {<<dir, dir'>>, <<cgroup, cgroup'>>, <<tap, tap'>>, <<member, member'>>} :
            j \in res[1] => j \in res[2]]_vars

\* No sweep ends the VM process of a daemon that is up.
LiveVmNotKilled ==
  [][\A j \in Jobs :
       Up(j) /\ Up(j)' /\ proc[j] = "running" /\ proc'[j] # "running" => jpc[j] = "kill"]_vars
===========================================================================
