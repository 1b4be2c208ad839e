# Verification of yonk

yonk sends a command and its working directory to a worker on another machine.
The worker (`yonkd`) unpacks the workspace, runs the command in a Firecracker
microVM and streams output, artifacts and the result back to the client
(`yonk`). This directory holds TLA+ specifications of the parts of yonk where
order, failure and concurrency decide whether it is correct, the instances TLC
checks, and the theorems TLAPS proves about them.

## The system

| Part | Code (`src/`) | State | Operations | Module |
|---|---|---|---|---|
| Client library | `internal/client/client.go` | the upload goroutine and its pipe, the response stream being decoded | `Run`, `Cancel`, `WorkerInfo` | `Session`, `Transfer` |
| Client command | `cmd/yonk/main.go` | options, temporary archive, artifact files, exit code | `run`, `parseRunArgs`, `writeArtifact` | `Transfer` |
| HTTP server | `internal/worker/server.go` | slots, job directory, `cleaned` flag | `handleRun`, `handleJobAction` | `Worker` |
| Event stream | `internal/eventstream` | the connection | `Emit`, `Write` | `Worker` |
| Executor interface | `internal/executor/executor.go` | runs in progress | `Run`, `Kill` | `Executor` (abstract) |
| Firecracker executor | `internal/executor/firecracker.go`, `cgroup_linux.go` | `running` map, contexts, VM process, directory, cgroup, TAP, connection | `Run`, `Kill`, the goroutines beside a run | `Microvm` |
| Job networking | `internal/executor/jobnet.go`, `jobnet_linux.go` | allocator, TAP devices | `allocate`, `release`, `setupTap`, `teardownTap` | `JobNet`, `SubnetPool` (abstract) |
| Orphan sweep | `internal/executor/sweep_linux.go` | processes, directories, cgroups and devices on the host | `sweepOrphans` | `Sweep` |
| Guest agent | `internal/guest/agent.go` | command, orphans, pipes, connection | `runJob`, `reapOrphans`, `sendArtifacts` | `GuestAgent` |
| Restricted executor | `internal/executor/restricted.go` | `running` map, contexts, process | `Run`, `Kill` | `Restricted` |
| Daemon | `cmd/yonkd/main.go` | the server and its connections | `run`: choice of the executor, serving, shutdown | `Daemon` |
| Workspace archive | `internal/workspace/workspace.go` | source tree, archive, destination tree | `CreateArchive`, `Extract` | `FileTree`, `Workspace` |
| Sizes | `server.go`, `firecracker.go`, `agent.go` | none | limits, clamps, image size, frame size | `Sizes` |
| Job model | `internal/job/model.go` | none | `Validate` | artifact paths in `Transfer` |

A request goes client → `handleRun` → `Executor.Run` → VM → agent, and events
come back along the same path. A cancel request goes client →
`handleJobAction` → `Executor.Kill`, which ends the run's context; the context
reaches the VM (killed by `exec.CommandContext`), the agent (`MsgCancel`) and
the reading loop.

What is hard here, and where the specifications look:

* two runs of one job ID share the names of their cgroup and TAP device;
* `Run` creates five host objects and can return between any two of them, and
  the order of its deferred calls decides what another run may see;
* a Kill, a client that leaves, the deadline, the VM's exit and a frame from
  the guest race each other;
* a guest may send anything, stop in the middle of a frame, or say nothing;
* a handler that writes to a slow or absent client holds a slot;
* the agent must report only when no process of the job is left;
* a daemon can die anywhere, and the next one cleans up while others work;
* a daemon that is told to stop has handlers under way and connections whose
  request it has not read;
* a tree is edited while it is packed, and the entries of an archive build on
  each other;
* the client waits for a goroutine that waits for a worker that may have
  stopped reading.

The hazards, each at its line and with the properties that would catch it, are
listed in `PROJECT.json`.

## Modules

**`SubnetPool`, `JobNet`.** `JobNet` has one action per statement of `setupTap`
and `teardownTap` that changes state, for every egress job. `allocate` is the
search from `next` modulo the limit. Addresses are computed in bytes as the
code does. `SubnetPool` is what the executor relies on: exclusive leases.
`PoolSpec` maps `lease` to the index a job holds.

**`Executor`.** What the worker relies on: one run per job ID, a second one
refused, each accepted run returning once, and no verdict of `Stopped`, by which
the executor itself says that the run was told to stop, for a run that was not.
`Runnable` are the runs the executor accepts: with microVMs those that are given
a workspace, with the restricted executor those of `echo`.

**`Microvm`.** `pc[r]` is the statement of `Run` that call `r` is about to
execute; the deferred calls are statements of their own, in Go's order:
connection and listener, TAP, cgroup, directory, `cancel`, `unregister`. A
return is `Return(r, from, result, to)`, where `to` is the first deferred call
registered by then. Beside `Run` are the deadline, the client leaving, exec's
watcher, `killProcess`'s signals, the forwarding goroutine, the VM's own exit
and the guest. `Kill` is two steps, because it calls the cancel function after
it has released the lock. The result is a termination reason, whether an error
is returned, and who gave the reason. `readGuest` returns a guest's result as it
is, so a guest may blame a cancellation or a timeout that never was
(`GuestReasons` are the reasons it may give); a line that does not decode is a
crash, and a line too long for the scanner ends the reading as the end of the
stream does. `Rooted` are the calls with a workspace; the others return before
`register`. An API call that fails may have started the guest (`configureVM`).
A context ended by the run's own deferred `cancel()` is
"released", so that `Asked`, the runs told to stop, does not count it;
`jobCtx.Err()` does not tell the two apart, and nothing reads it afterwards.
`ExecutorSpec` is `Executor` under the mapping at the end of
the module, where `Stopped` are the "cancelled" and "timeout" of the host's own
making (`classifyContext`).

**`Worker`.** `hpc[h]` is the statement of `handleRun`. The error replies
before the stream differ only in their text and are one value, "error", apart
from "busy". The executor is `INSTANCE Executor`; `GotoRun` is the handler's
part of calling it, which `Daemon` joins with steps of `Restricted` instead. An
event written to the
stream waits until fewer than `Window` events are unread; to a client that has
left it is lost, or the write fails. Once a client has left, its stream is
forgotten.

The worker passes on what the executor returns, so `StreamInOrder` says that a
completion is that of a run that has returned, and not that its reason is true.

**`Session`.** Extends `Worker` with calls of `client.Run`: each takes events
in order and returns a result, a remote error, an early end, or a local error.
The runs of `Session` check the properties of `Worker` as well.

**`GuestAgent`.** `gpc` is the statement of `runJob`; the copying goroutines,
the killing goroutine, exec's watcher and `watchCancellation` are actions. The
processes the command leaves behind are in its process group or, having called
setsid, out of it. Output is counted in chunks. The agent's log lines, which the
host only logs, are left out. A `Wait` that cannot say how the command ended gives
"command_failed".

**`Sweep`.** Each start of a daemon is a value of `Daemons`. A start goes
through `sweepOrphans`; every loop takes its list when it begins (`todo`) and
looks at the entries one by one. Deciding that a cgroup is empty and deleting
it are two steps. Jobs are reduced to what a sweep can see. Any step may fail
and is then passed over: `DirErrs`, `CgroupErrs` and `TapErrs` are the objects
that may resist; without `/proc` there is no sweep (`bootUnswept`), and without
the list of cgroups no job counts as live when the devices are removed.
`contained` is the case that yonkd is PID 1 of a container: it takes no process
for an orphan, it is alone there, and its VMs end with it. `old` and `settled`
are history variables that the properties read and no action does.

**`Restricted`.** `rpc[h]` is the statement of `Run`. Its context ends by the
deadline, the request, a Kill, or the deferred `cancel()`, and is read twice
after the process has ended. `RestrictedSpec` is `Executor` under the mapping at
the end of the module.

**`Daemon`.** `run` of `yonkd` with the restricted executor. The handlers are
those of `Worker`, by `INSTANCE` with the executor's state mapped from
`Restricted`; a call of the executor is one step of both. `late` are requests
that arrive on connections accepted before the listener closed. `Shutdown`
waits until every connection is idle, or gives up; it ends no request's
context. The exit of the process stops everything else.

**`FileTree`.** A path is the sequence of its components and a tree a function
from paths to files, directories, links and other nodes. The operators are what
the code uses of Go's `path` and `os` packages: cleaning a path, following
links, making parents, listing a directory. `IsOnDisk` says which trees a file
system can hold. The module has no state.

**`Workspace`.** `CreateArchive` is the
walk: an entry is seen by `ReadDir`, looked at again, announced in a header with
its length, copied, and only then left, and the user may edit the tree between
any two of these. `validateSymlink` joins the target of a link with the path of
the `destination`, and accepts one that leaves it and comes back by its name.
`Extract` is the loop over the entries with the checks in the
code's order, and reads an archive of `CreateArchive` or any other from
`Foreign`.

**`Transfer`.** Extends `Workspace` to a whole `yonk run`: options, archive,
upload, extraction, the job's changes to its copy, the artifacts the agent
sends, the files the command writes, and the exit code. The HTTP exchange is
reduced to who waits for whom: `up` is the goroutine that writes the request,
`pipe` the pipe between it and the transport. Everything that can be refused
with an error reply is refused at one of two points (the artifact paths, and
the extraction).

**`Sizes`.** The arithmetic of limits and sizes.

**`CleanupProofs`, `MicrovmProofs`, `SessionProofs`, `DaemonProofs`,
`WorkspaceProofs`, `ArchiveProofs`, `TransferProofs`, `RestoreProofs`** hold the
proofs. `CleanupProofs` is about `JobNet`, `Sweep` and `GuestAgent`, which share
no state; their definitions have different names so that one module can extend
the three. The modules named `MC...` hold the constants and symmetry sets of the
instances.
An operator defined just before another, with a similar name and a difference
that would be a mistake in the code (`allocateUnmarked`, `registerAnyway`), is
a variant used to see that a property notices that mistake. No specification
uses them.

## Runs

| Run | Instance | Shows |
|---|---|---|
| `jobnet` | 4 jobs, 3 indices | the pool runs out and indices are reused; no index lost or shared, no device left, `PoolSpec` |
| `jobnet_subnets` | 2 jobs, 128 indices | **violated**: two jobs on one /30 |
| `microvm` | 2 runs of one ID, one with egress, 1 Kill, 1 frame of any kind | names, cleanup, confinement, exactness of Kill, `ExecutorSpec` |
| `microvm_live` | 1 run and 1 without a workspace, 1 Kill, 2 frames | a run and its VM end once its context has; a successful Kill is enough |
| `microvm_cleanup` | 1 run | **violated**: a return that leaves VM and cgroup |
| `session` | 2 requests of one ID, 1 cancel request | cleanup, order of the stream, which runs may have a completion, what a client that returns a result may conclude |
| `session_live` | 2 requests, 1 slot | slot accounting; every client returns, every handler ends |
| `guest_agent` | 2 pipes, 2 chunks, 2 processes | the result comes last, nothing survives it, and it comes after the timeout if no process has left the group |
| `guest_agent_output` | 2 chunks | **violated**: output lost at the exit of the command |
| `sweep` | 3 daemon starts, 2 jobs, on a host and in a container; one directory, cgroup and device that may resist removal | a sweep is complete, but for what it fails to remove, and spares settled VMs |
| `transfer` | 6 trees, 1 edit, 7 option lists; all archives of up to 3 of 15 entries and two of 5 | what is packed is restored; extraction stays in directories it made and within its limits; the artifacts the job left are the ones written; the upload ends |
| `daemon` | 2 requests of one ID, 1 cancel request or hang-up, a signal | an exit with status 0 leaves nothing half done; `RestrictedSpec` |

The violated properties state what a comment, test or document of the
repository says; `PROJECT.json` quotes the lines under "findings".

Bounds. Two runs of one ID are the case in which runs can disturb each other;
runs of different IDs share only the `running` map and, through `JobNet`, the
allocator, and the theorems cover any number. One Kill can find the first run
and act on the second. One frame is enough for each way of reading to happen
before and after each other event; "completed" and "timeout" are a reason that
says nothing of the host and one that contradicts it. `Window = 1` lets a writer wait for the
reader at every event. Four jobs and three indices make the pool run out with
one job waiting; 128 indices are the least round number beyond the 64 at which
addresses repeat. Two requests for one slot make one be turned away. Three
daemon starts allow a sweep after a crash in a sweep, and two sweeps at once; the
directory and the cgroup of one job and the device of the other may resist, so
that each object is left and is removed in some behaviour. In
`transfer` the limits are 4 files and 4 bytes, so that trees and archives lie on
both sides of them; three entries are a repeated name, a parent that is missing,
a file or a link, and an entry below it; the two archives of five entries go
over the number of files, one with a file and one with a directory that is there
already; one edit falls between any two steps of the walk (three edits, too many
for a run of a few minutes with all of these archives, were tried once with
archives of `CreateArchive` only); two requested artifacts can share their base
name. In `daemon` the window holds a whole stream: readers that are slow are the
subject of `session`. `OneInterferes` lets one client hang up or one cancel
request come, not both, to keep the run within a few minutes; without it the run
passes too, in a little over five, and the theorems have no such bound.

Deadlock is checked for `JobNet`, which can always go on. The other
specifications have finitely many calls, requests or daemon starts and may
stop when they are used up.

Fairness. Goroutines that can go on are scheduled, timers fire, exec's watcher
kills a process whose context has ended. Nothing is assumed of the guest, of the
job's processes or of who calls Kill. The agent's writes return, with an error or
without, because its host reads on or closes the connection. In `Microvm` even the deadline is not
assumed to come: `RunEnds` says what follows once a context has ended, and
`KillEnds` owes nothing to the deadline. In `Session` the executor's return is
strongly fair: a job may write again and again, and each Write interrupts the
chance to return; that the run itself ends is `RunEnds`. One assumption is about
the client: it goes on reading, or closes the connection. The server has no
write timeout, so a client that does neither blocks the handler, and the
liveness properties do not hold for it. In `Transfer` the worker reads while it
extracts, and answers; a worker that has refused an upload is not assumed to
read the rest, and the transport is not assumed to notice. `UploadEnds` then
rests on `client.Run` closing its end of the pipe.

## Proofs

All proofs are checked by TLAPS from the specifications TLC checks. Each proof module
sends its leaves to Zenon; the ones that need arithmetic or function updates name SMT.

**`CleanupProofs`**, about `JobNet`. From `Limit` between 1 and 65536 (the
code's limit is 2^14) and nothing about the number of jobs: `NetTypeOK`,
`LeaseAccounting`, `UpTapsDistinct`, `NoTapLeftBehind` and `PoolSpec`. The
invariant adds to the lease accounting which devices exist, are up and carry an
address at each step of a job. `UpTapsDistinct` needs it: only because a device
is removed before its index is returned do two devices that are up belong to two
holders. `MacsDiffer` and `SameSubnet` are about the byte arithmetic;
`SameSubnet` says exactly which indices share a /30.

**`MicrovmProofs`.** For any sets of runs, IDs and Kill calls. `IInv` is
`TypeOK`, `OneRunPerId`, `NamesKept`, `NoDebris` and `VmConfined` with four
strengthenings: a guest is off until its VM has been configured, a VM that has
been configured was placed in the cgroup first, only egress runs reach the
TAP's statements, and a run past `undir` has no directory. `NamesKept` is
inductive only together with `OneRunPerId`: a step of one run that removes a
name must know that no other run of the ID is in progress. Most statements
change neither names nor map; lemma `MiddleIsQuiet` says so once and
`QuietKeeps` carries the invariant over all of them.

`Implements`: every step of `Microvm` is a step of
`Executor` or leaves the mapped variables alone. It needs three more facts: the
map files a run under its own ID, a "cancelled" or "timeout" of the host's own
making is given only to a run whose context was ended from outside (a Kill, the
client, the deadline), and a run's own deferred `cancel()` comes after every statement that
reads the context. `KillIsExact` proves `KillHitsItsRun`.

`ImageHoldsWorkspace`, `RequestBoundsImage` and `ArtifactFitsFrame` are about
`Sizes`, for all contents, requests and ceilings of at least the 64 MiB
minimum. They are arithmetic and need no invariant.

**`SessionProofs`.** For any finite set of requests and any limit of at least
one. `SlotsAreAccounted` and `CleanedFirst` rest on `IInv`. The number of slots
in use is the cardinality of the set of handlers that hold one, so the invariant
speaks of that set. It adds where a handler is while the executor runs its job,
in which statements the directory exists, and what the stream has said so far:
the second theorem is about what a client has read, which follows from what the
handler had written by then.

`TypesHold`, `StreamsInOrder` and `ResultsAreFinal` rest on `StreamInv`. It says
of every request at once where its handler is and what its stream looks like by
then: which events it has and in which order, and that the last of them is the
one the handler's verdict calls for. It needs to know that no Write is in
progress once the executor has returned, since otherwise an output event could
still follow "cleaned". A step of one request leaves what is said of the others
alone (`OthersSame`), so each statement has to be looked at only for its own
request. `ResultIsFinal` is about a step of the client: that it read the last
event follows from the order of the stream.

**`DaemonProofs`.** From `DaemonAssumption` (finitely many requests; limit and
window at least one) and for any IDs and Kill calls. `RestrictedImplements`:
every step of `Restricted` is a step of `Executor` or leaves the mapped
variables alone. The invariant says that the map files exactly the runs between
`register` and `unregister` under their own IDs, that a context that has ended
before the deferred `cancel()` belongs to a run that was told to stop, and that
a result of "cancelled" or "timeout" does too. The first part makes a second
run of an ID refused; the others are needed because the code reads the context
and not who ended it.

`DaemonRunsRestricted` and `DaemonExecutor` carry this over to the daemon.
`DaemonImplements` goes further: the daemon, with the executor's state mapped
as in `Restricted`, implements `Session`, the worker with an abstract executor.
It needs that output is copied only while `Run` waits for its process. What
`SessionProofs` shows of every executor thereby holds of this daemon
(`DaemonServes`). `ExitsAreClean` proves `CleanExit` from that: `Shutdown`
succeeds only when every handler is idle or done, and the invariants of
`Session` say what a handler that is done has left: no slot, no run in the
executor and so none in the map, no process, no directory it could remove, and
a stream with its last event. `TypesHold` needs the two invariants as well.

**`CleanupProofs`**, about `GuestAgent`. `AgentTypesHold`, `NoWorkLeft`,
`ReasonsAreTrue` and `NothingFollows`, for any sets of streams and processes.
The invariant gives, for each statement of `runJob`, whether the command runs,
whether processes are alive and whether the output is still copied.
`ReasonIsTrue` needs a fact about the goroutine that kills: it has not killed as
long as neither the cancellation nor the deadline has come, and neither comes
once the result is out. `AgentTypeOK` bounds what was sent by what was written;
that needs an account of each stream (`Accounts`): what was written is at least
what is in the pipe, in a copying goroutine's hands and sent.

**`CleanupProofs`**, about `Sweep`. `TypesHold`, `SweepsAreComplete`,
`LiveVmsNotKilled` and `SettledVmsKept`, for any sets of daemons and jobs. For
every step of a sweep the invariant says that a VM that was up at the start is
still in the list to look at or in the set found live, and that what a dead
daemon's job has left is still in the list, gone, or one of the objects that may
resist. Three more facts carry it: a process that was seen never runs again after
its end, so the list of orphans does not grow stale; a sweep for which
completeness is claimed is the only one; and in a container no VM outlives its
daemon, so that taking no process for an orphan leaves none.

**`WorkspaceProofs`, `ArchiveProofs`, `TransferProofs`, `RestoreProofs`.** For
all finite trees a disk can hold and all edits (`TreesAssumption`), all archives
whose files are as long as their headers say (`ForeignAssumption`; package `tar`
ends an entry there), all option lists, all positive limits: `TypeOK`,
`TreeIsReal`, `WithinLimits`, `RestoresTree` and `ArtifactsArrive`.
`WorkspaceProofs` has what the operators of `FileTree` return and what the steps
of `CreateArchive` and `Extract` preserve, and `TransferProofs` puts that
together with the command, the worker and the guest. `ArchiveProofs` follows a
tree into an archive, and `RestoreProofs` out of it again. The invariant of
`TransferProofs` has six parts.

* `Preparing`: every entry before the last is whole, and the last has at most
  the length its header announces. `Extract` relies on it: it counts the
  announced length and writes what follows.
* `Control`: how far the command, the worker and the guest may be apart.
* `Extracting`: `TreeIsReal`; and while the body of a file is written its
  announced length still fits in the limit and its name is an empty file.
* `Counting`: `bytes` and `files` are the bytes of the tree and the number of
  names met, and every file or link of the tree has been met. An extraction that
  was refused keeps only the bounds.
* `Guest`: the index of the next artifact, and that nothing is under way before
  the job has ended.
* `Delivering`: of the artifacts sent so far, the last one with each name is in
  the last frame with that name or, when no such frame is under way, in the
  file. `ArtifactsArrive` is what is left of it when the frames are used up.

`RestoreProofs` adds three.

* `Walking`: the names in the archive are all different and each comes after its
  directory; the entries still to visit are not below each other, and nothing at
  or below one of them is in the archive yet, its own header apart.
* `Complete`: as long as nobody has edited the tree, every node of it is
  excluded, in the archive with the contents it has, or at or below an entry
  still to visit.
* `Restoring`: what `Extract` has met of an archive of `CreateArchive` is what
  it has created, node by node, and its counters are the number and the sum of
  the announced lengths of the entries met; if it has refused, one of the
  reasons `RestoresTree` names is there.

`RestoresTree` is the end of this chain. A finished walk has nothing left to
visit, so by `Complete` the archive is the tree without the exclusions. That
`Extract` accepts it entry by entry takes the order of `Walking`: a name is met
for the first time, its parents are directories met before, so neither
`ensureSafeParents` nor the creation of the node can fail. Edits are why a
refusal has a last excuse: a directory that is a link, or with three edits a
file, when its header is written can be a directory with entries again when it
is listed, and the archive then has entries below something that is none.

`Clean`, `Real` and the parsing of options are recursive functions over the
length of their argument; `Recursion` unfolds them, and that their values are
paths is shown with the least length at which it would fail. That adding a node
changes `Bytes`, a fold, by its length needs that the order of the summands does
not matter, which is shown from the definition of the fold in the same way.

Only model-checked: the liveness properties (`RunEnds`, `VmStops`, `KillEnds`,
`ClientReturns`, `HandlerEnds`, `ResultFollows`, `UploadEnds`). They need
fairness and ENABLED, which are out of the prover's reach. Every safety property
of a passing run is also proved.

## Assumptions

* In a run's own deferred calls `LinkDel` succeeds when the device exists, and so
  does `RemoveAll` of the VM's directory. In a sweep both may fail, and so may the
  worker's `RemoveAll`.
* A cgroup that contains a process cannot be deleted; one that exists under the
  name is used again (cgroup v2, containerd's cgroup manager).
* Different job IDs have different TAP names, though the name is a 32-bit digest.
* Orphaned processes are adopted by PID 1, and a signal 9 takes effect. The end of
  a container's PID 1 ends the processes in it.
* Daemons on one host share one VM work directory (the default). Daemons in
  containers that share a work directory follow one another; daemons that run at
  once in different process namespaces, which cannot see each other's VMs, are not
  considered.
* A link that leads above its tree finds nothing of it when it is followed, also
  if it comes back by the name of the tree's root: the guest mounts the tree under
  another name than the one `validateSymlink` has seen.
* `Worker` sees an executor's error returns as one verdict, "error".
* The removal of the client's temporary archive succeeds. `copy` reads a file at
  one instant; what a reader sees of a file being written is one of its lengths.
* A file the guest has found to be small enough can be read.
* The context of the call of `Kill` itself does not end before it looks.
* An artifact's name has at most 255 bytes, the file system's limit.

## Exceptions

Cases the specifications contain and the properties leave out, with the line
where the code and its comments differ or where a reader may expect more:

* The agent waits for every child, also for one that has called setsid and that
  the kill of the group does not reach (`agent.go:303`; the comment at line 201
  says "Reap orphans and bound them by the job timeout"). `ResultFollows` is
  about the processes that stay in the group.
* The sweep removes directories on the strength of an earlier list of processes
  (`sweep_linux.go:83`), so a VM that another daemon is starting at that time
  can lose its directory. `SettledVmKept` is about VMs that were up when the
  sweep began.
* Two artifacts with one base name are written to one file, and the last one
  sent stays. `ArtifactsArrive` says so.
* `Validate` accepts an absolute artifact path although its message asks for a
  relative one (`model.go:97`); the agent takes it relative to the workspace.
* A workspace that needs more than the provider's disk ceiling gets a larger
  image (`firecracker.go:605`; the comment at line 595 says "The provider's
  request cap always wins"). `ImageHoldsWorkspace` says when.
* A sweep that cannot list the cgroups takes every job for dead when it comes to
  the devices (`sweep_linux.go:97`; the comment at line 19 says "always kept").
  `SettledVmKept` is about sweeps that can.
* The worker's flag `cleaned` is set before the removal (`server.go:133`), so one
  that fails is not tried again.
* A client with slow artifacts can see "cancelled" or "timeout" for a job that
  had ended before.

## Plan

Done, the most important first: the executor and its names, the network pool,
the worker and the session, the guest agent, the sweep, the restricted executor
and the daemon, the way of the files, the sizes. Next:

* `Daemon` with microVMs: what an exit during a job leaves to the next sweep.
  Today a mode that chooses microVMs is where `Daemon` stops, and `Sweep` takes
  the exit of a daemon at any statement.

Not modelled, and not planned: the Firecracker API client and `mkfs` (single
calls that succeed or fail, seen as such by `Microvm`), mounts, resolver file
and memory sampling of the guest, flags and capability snapshots, the nftables
rules and rate limits (constant configuration), file permissions, where a chain
of links leads (`Extract` looks at the text of a link and at no other), the
field-by-field rules of `Validate` other than that for artifacts, the cap of 16
artifacts, the text of messages and logs.
