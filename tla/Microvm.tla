------------------------------ MODULE Microvm -----------------------------
(***************************************************************************)
(* The Firecracker executor (internal/executor/firecracker.go): concurrent *)
(* calls of Run, each of which boots one microVM for one job, and of Kill. *)
(* A run goes through the statements of Run in order; the deferred calls   *)
(* are steps of their own, in the order Go runs them.  Beside a run live   *)
(* the goroutine of exec.CommandContext that kills the VM when the job's   *)
(* context ends, the goroutine that forwards a cancellation to the guest,  *)
(* the VM process and the guest, which may send anything or nothing.       *)
(*                                                                         *)
(* The host objects a run creates are named in two ways: the state         *)
(* directory is unique to the run, the cgroup and the TAP device carry the *)
(* job ID, so runs of the same ID share their names.                       *)
(***************************************************************************)
EXTENDS Naturals, Sequences

CONSTANTS
  Runs,       \* calls of Run
  Ids,        \* job IDs
  IdOf,       \* IdOf[r]: the ID of the job call r runs
  Rooted,     \* the calls that are given a workspace with a root
  Egress,     \* the calls whose job asks for network "egress"
  Killers,    \* calls of Kill
  NoRun,      \* no entry in the running map
  GuestReasons, \* the termination reasons a guest may report; it may report any
  MaxFrames   \* bound on the frames a guest sends

ASSUME IdOfAssumption == IdOf \in [Runs -> Ids]
ASSUME RootedAssumption == Rooted \subseteq Runs
ASSUME EgressAssumption == Egress \subseteq Runs
ASSUME NoRunAssumption == NoRun \notin Runs
ASSUME MaxFramesAssumption == MaxFrames \in Nat

VARIABLES
  running,    \* Firecracker.running: ID -> the call whose cancel it stores
  pc,         \* pc[r]: the statement of Run that call r is about to execute
  ctx,        \* ctx[r]: the state of jobCtx (see Contexts)
  gone,       \* the calls whose client has hung up
  result,     \* result[r]: what Run returns
  dir,        \* the calls whose vm-* directory exists
  cgroup,     \* the IDs whose yonk-<ID> cgroup exists
  member,     \* the calls whose VM process is in its cgroup
  tap,        \* the IDs whose TAP device exists
  proc,       \* proc[r]: the VM process: "none", "running", "exited"
  guest,      \* guest[r]: "off", "booting", "dialed", "closed"
  conn,       \* conn[r]: the host's end of the connection
  wire,       \* wire[r]: frames sent by the guest and not yet read
  sent,       \* sent[r]: number of frames the guest has sent
  warned,     \* the calls whose guest was sent MsgCancel
  kpc,        \* kpc[k]: "idle", "cancel", "ok", "notRunning"
  ktarget     \* ktarget[k]: the call whose cancel func Kill looked up

runVars   == <<running, pc, ctx, gone, result>>
hostVars  == <<dir, cgroup, member, tap>>
guestVars == <<guest, conn, wire, sent, warned>>
killVars  == <<kpc, ktarget>>
vars == <<runVars, hostVars, proc, guestVars, killVars>>

\* Frames of the guest protocol, as readGuest tells them apart: output or an
\* artifact to pass on; a frame it skips (log, hello, unknown type, artifact with
\* an unsafe name); a result message without a result; a line that does not decode,
\* one cut off by the end of the stream included; a line too long for the scanner;
\* a result, with the reason the guest gives.
Frame(type, reason) == [type |-> type, reason |-> reason]

Frames ==
  {Frame(t, "none") : t \in {"data", "skip", "noResult", "garbled", "oversized"}}
    \union {Frame("result", x) : x \in GuestReasons}

\* What Run returns: a result of its own making, with or without an error, or the one
\* the guest reported.  "by" is not in the program: there the two look alike.
Ok(reason)       == [reason |-> reason, err |-> FALSE, by |-> "host"]
Err(reason)      == [reason |-> reason, err |-> TRUE, by |-> "host"]
Reported(reason) == [reason |-> reason, err |-> FALSE, by |-> "guest"]
NoResult         == Err("none")

Alive == {"mkdir", "mkfs", "cgroup", "tap", "listen", "start", "addProcess",
          "configure", "accept", "send", "read", "kill", "close", "untap",
          "uncgroup", "undir", "cancel", "unregister"}

Init ==
  /\ running = [i \in Ids |-> NoRun]
  /\ pc = [r \in Runs |-> "idle"]
  /\ ctx = [r \in Runs |-> "live"]
  /\ gone = {}
  /\ result = [r \in Runs |-> NoResult]
  /\ dir = {} /\ cgroup = {} /\ member = {} /\ tap = {}
  /\ proc = [r \in Runs |-> "none"]
  /\ guest = [r \in Runs |-> "off"]
  /\ conn = [r \in Runs |-> "none"]
  /\ wire = [r \in Runs |-> <<>>]
  /\ sent = [r \in Runs |-> 0]
  /\ warned = {}
  /\ kpc = [k \in Killers |-> "idle"]
  /\ ktarget = [k \in Killers |-> NoRun]

Goto(r, from, to) ==
  /\ pc[r] = from
  /\ pc' = [pc EXCEPT ![r] = to]

\* A return statement: the result is fixed and the deferred calls start at "to".
Return(r, from, res, to) ==
  /\ Goto(r, from, to)
  /\ result' = [result EXCEPT ![r] = res]

\* jobCtx.Err() is nil while "live", DeadlineExceeded after "deadline" and Canceled
\* otherwise; "released" is the cancellation by Run's own deferred cancel().
Contexts == {"live", "cancelled", "deadline", "released"}

Done(c) == c # "live"

classifyContext(c) == IF c = "deadline" THEN "timeout" ELSE "cancelled"

\* The first deferred call after conn.Close and listener.Close.
AfterClose(r) == IF r \in Egress THEN "untap" ELSE "uncgroup"

---------------------------------------------------------------------------
(* Run, up to the start of the VM process.                                 *)

registerAnyway(r) ==
  /\ Goto(r, "idle", "mkdir")
  /\ running' = [running EXCEPT ![IdOf[r]] = r]
  /\ UNCHANGED <<ctx, gone, result, hostVars, proc, guestVars, killVars>>

register(r) ==
  /\ r \in Rooted /\ running[IdOf[r]] = NoRun
  /\ Goto(r, "idle", "mkdir")
  /\ running' = [running EXCEPT ![IdOf[r]] = r]
  /\ UNCHANGED <<ctx, gone, result, hostVars, proc, guestVars, killVars>>

\* A workspace without a root is refused before anything is created, and a job ID that
\* is already running as soon as the context has been.
refuse(r) ==
  /\ r \notin Rooted \/ running[IdOf[r]] # NoRun
  /\ Return(r, "idle", Err("executor_error"), "refused")
  /\ ctx' = [ctx EXCEPT ![r] = IF r \in Rooted THEN "released" ELSE @]
  /\ UNCHANGED <<running, gone, hostVars, proc, guestVars, killVars>>

\* os.MkdirTemp(WorkDir, "vm-")
MkdirTemp(r) ==
  /\ \/ /\ Goto(r, "mkdir", "mkfs")
        /\ dir' = dir \union {r}
        /\ UNCHANGED result
     \/ /\ Return(r, "mkdir", Err("executor_error"), "cancel")
        /\ UNCHANGED dir
  /\ UNCHANGED <<running, ctx, gone, cgroup, member, tap, proc, guestVars, killVars>>

\* The workspace image; mkfs does not look at the context.
mkfs(r) ==
  /\ \/ Goto(r, "mkfs", "cgroup") /\ UNCHANGED result
     \/ Return(r, "mkfs", Err("executor_error"), "undir")
  /\ UNCHANGED <<running, ctx, gone, hostVars, proc, guestVars, killVars>>

newCgroupPerRun(r) ==
  /\ Goto(r, "cgroup", IF r \in Egress THEN "tap" ELSE "listen")
  /\ cgroup' = cgroup \union {r}
  /\ UNCHANGED <<running, ctx, gone, result, dir, member, tap, proc, guestVars, killVars>>

\* newJobCgroup: a cgroup of that name that is still there is used again.
newCgroup(r) ==
  /\ \/ /\ Goto(r, "cgroup", IF r \in Egress THEN "tap" ELSE "listen")
        /\ cgroup' = cgroup \union {IdOf[r]}
        /\ UNCHANGED result
     \/ /\ Return(r, "cgroup", Err("executor_error"), "undir")
        /\ UNCHANGED cgroup
  /\ UNCHANGED <<running, ctx, gone, dir, member, tap, proc, guestVars, killVars>>

\* setupTap as a whole; JobNet has its steps.
setupTap(r) ==
  /\ \/ /\ Goto(r, "tap", "listen")
        /\ tap' = tap \union {IdOf[r]}
        /\ UNCHANGED result
     \/ /\ Return(r, "tap", Err("executor_error"), "uncgroup")
        /\ UNCHANGED tap
  /\ UNCHANGED <<running, ctx, gone, dir, cgroup, member, proc, guestVars, killVars>>

Listen(r) ==
  /\ \/ Goto(r, "listen", "start") /\ UNCHANGED result
     \/ Return(r, "listen", Err("executor_error"), AfterClose(r))
  /\ UNCHANGED <<running, ctx, gone, hostVars, proc, guestVars, killVars>>

\* cmd.Start refuses a context that has already ended, and can fail otherwise.
Start(r) ==
  /\ \/ /\ ~Done(ctx[r])
        /\ Goto(r, "start", "addProcess")
        /\ proc' = [proc EXCEPT ![r] = "running"]
        /\ UNCHANGED result
     \/ /\ Return(r, "start", Err("executor_error"), "close")
        /\ UNCHANGED proc
  /\ UNCHANGED <<running, ctx, gone, hostVars, guestVars, killVars>>

---------------------------------------------------------------------------
(* Run, from the VM process to the guest's result.                         *)

\* The VM process is placed in the job's cgroup; placing it can fail, and does
\* when the process has already gone.
addProcess(r) ==
  /\ \/ /\ proc[r] = "running"
        /\ Goto(r, "addProcess", "configure")
        /\ member' = member \union {r}
        /\ UNCHANGED result
     \/ /\ Return(r, "addProcess", Err("executor_error"), "kill")
        /\ UNCHANGED member
  /\ UNCHANGED <<running, ctx, gone, dir, cgroup, tap, proc, guestVars, killVars>>

\* configureVM: the API calls, the last of which starts the guest.  They need the
\* VM process and a live context; any of them can fail, the last one also after it
\* has taken effect, and the error is returned as it is.
configureVM(r) ==
  /\ \/ /\ proc[r] = "running" /\ ~Done(ctx[r])
        /\ Goto(r, "configure", "accept")
        /\ guest' = [guest EXCEPT ![r] = "booting"]
        /\ UNCHANGED result
     \/ /\ Return(r, "configure", Err("executor_error"), "kill")
        /\ \/ UNCHANGED guest
           \/ /\ proc[r] = "running"                         \* InstanceStart
              /\ guest' = [guest EXCEPT ![r] = "booting"]
  /\ UNCHANGED <<running, ctx, gone, hostVars, proc, conn, wire, sent, warned, killVars>>

acceptGuestPatient(r) ==
  /\ guest[r] \in {"dialed", "closed"}
  /\ Goto(r, "accept", "send")
  /\ conn' = [conn EXCEPT ![r] = "open"]
  /\ UNCHANGED <<running, ctx, gone, result, hostVars, proc, guest, wire, sent, warned, killVars>>

\* acceptGuest: the select over the accepted connection, the startup timer, the
\* exit of the VM process and the context; finishEarly turns a context error into
\* a result without error.  Two of its returns do not kill the VM process.
acceptGuest(r) ==
  /\ \/ /\ guest[r] \in {"dialed", "closed"}
        /\ Goto(r, "accept", "send")
        /\ conn' = [conn EXCEPT ![r] = "open"]
        /\ UNCHANGED result
     \/ /\ UNCHANGED conn
        /\ \/ /\ Done(ctx[r])                                \* Accept failed
              /\ Return(r, "accept", Ok(classifyContext(ctx[r])), "close")
           \/ /\ ~Done(ctx[r])
              /\ Return(r, "accept", Err("executor_error"), "close")
           \/ Return(r, "accept", Err("executor_error"), "kill")  \* bootGrace
           \/ /\ proc[r] = "exited"
              /\ Return(r, "accept", Err("executor_error"), "close")
           \/ /\ Done(ctx[r])
              /\ Return(r, "accept", Ok(classifyContext(ctx[r])), "kill")
  /\ UNCHANGED <<running, ctx, gone, hostVars, proc, guest, wire, sent, warned, killVars>>

\* The job is sent to the guest, and the cancel-forwarding goroutine started.  The
\* error return, when the connection is already broken, leaves the VM running.
sendJob(r) ==
  /\ \/ Goto(r, "send", "read") /\ UNCHANGED result
     \/ /\ guest[r] = "closed"
        /\ Return(r, "send", Err("executor_error"), "close")
  /\ UNCHANGED <<running, ctx, gone, hostVars, proc, guestVars, killVars>>

\* No more bytes will come: the guest hung up or its VM exited, or the forwarding
\* goroutine closed the host's end.
AtEOF(r) == guest[r] = "closed" \/ conn[r] = "closed"

\* What readGuest returns when Scan is false: a context that has ended decides it,
\* otherwise the guest crashed.
ScanEnds(r) == IF Done(ctx[r]) THEN Ok(classifyContext(ctx[r])) ELSE Err("guest_crash")

\* readGuest, one line: pass it on (which fails only for a client that hung up), skip
\* it, or return.  A guest's result is returned as it is, whatever reason it gives.
\* A line too long for the scanner ends the scan as the end of the stream does.
readFrame(r) ==
  /\ wire[r] # <<>>
  /\ wire' = [wire EXCEPT ![r] = Tail(@)]
  /\ LET frame == Head(wire[r])
     IN \/ /\ frame.type \in {"data", "skip"}
           /\ Goto(r, "read", "read")
           /\ UNCHANGED result
        \/ /\ frame.type = "data" /\ r \in gone
           /\ Return(r, "read", Err("executor_error"), "kill")
        \/ /\ frame.type = "result"
           /\ Return(r, "read", Reported(frame.reason), "kill")
        \/ /\ frame.type = "noResult"
           /\ Return(r, "read", Err("executor_error"), "kill")
        \/ /\ frame.type = "garbled"
           /\ Return(r, "read", Err("guest_crash"), "kill")
        \/ /\ frame.type = "oversized"
           /\ Return(r, "read", ScanEnds(r), "kill")
  /\ UNCHANGED <<running, ctx, gone, hostVars, proc, guest, conn, sent, warned, killVars>>

readEOFUnclassified(r) ==
  /\ wire[r] = <<>> /\ AtEOF(r)
  /\ Return(r, "read", Ok("timeout"), "kill")
  /\ UNCHANGED <<running, ctx, gone, hostVars, proc, guestVars, killVars>>

\* readGuest at the end of the stream.
readEOF(r) ==
  /\ wire[r] = <<>> /\ AtEOF(r)
  /\ Return(r, "read", ScanEnds(r), "kill")
  /\ UNCHANGED <<running, ctx, gone, hostVars, proc, guestVars, killVars>>

\* killProcess returns once the process has been reaped.
killed(r) ==
  /\ proc[r] = "exited"
  /\ Goto(r, "kill", "close")
  /\ UNCHANGED <<running, ctx, gone, result, hostVars, proc, guestVars, killVars>>

---------------------------------------------------------------------------
(* The deferred calls of Run.                                              *)

closeAndUnregister(r) ==
  /\ Goto(r, "close", AfterClose(r))
  /\ conn' = [conn EXCEPT ![r] = "closed"]
  /\ wire' = [wire EXCEPT ![r] = <<>>]
  /\ sent' = [sent EXCEPT ![r] = 0]
  /\ warned' = warned \ {r}
  /\ running' = [running EXCEPT ![IdOf[r]] = NoRun]
  /\ UNCHANGED <<ctx, gone, result, hostVars, proc, guest, killVars>>

\* conn.Close and listener.Close; frames nobody has read are lost, and what is known of
\* the connection no longer matters.
closeConn(r) ==
  /\ Goto(r, "close", AfterClose(r))
  /\ conn' = [conn EXCEPT ![r] = "closed"]
  /\ wire' = [wire EXCEPT ![r] = <<>>]
  /\ sent' = [sent EXCEPT ![r] = 0]
  /\ warned' = warned \ {r}
  /\ UNCHANGED <<running, ctx, gone, result, hostVars, proc, guest, killVars>>

teardownTap(r) ==
  /\ Goto(r, "untap", "uncgroup")
  /\ tap' = tap \ {IdOf[r]}
  /\ UNCHANGED <<running, ctx, gone, result, dir, cgroup, member, proc, guestVars, killVars>>

\* The VM processes inside the cgroup of an ID.
Inside(i) == {q \in member : IdOf[q] = i}

deleteCgroupByForce(r) ==
  /\ Goto(r, "uncgroup", "undir")
  /\ cgroup' = cgroup \ {IdOf[r]}
  /\ UNCHANGED <<running, ctx, gone, result, dir, member, tap, proc, guestVars, killVars>>

\* limits.delete: a cgroup with a process in it cannot be removed, and the error is
\* dropped.
deleteCgroup(r) ==
  /\ Goto(r, "uncgroup", "undir")
  /\ cgroup' = IF Inside(IdOf[r]) = {} THEN cgroup \ {IdOf[r]} ELSE cgroup
  /\ UNCHANGED <<running, ctx, gone, result, dir, member, tap, proc, guestVars, killVars>>

removeDirSkipped(r) ==
  /\ Goto(r, "undir", "cancel")
  /\ UNCHANGED <<running, ctx, gone, result, hostVars, proc, guestVars, killVars>>

removeDir(r) ==
  /\ Goto(r, "undir", "cancel")
  /\ dir' = dir \ {r}
  /\ UNCHANGED <<running, ctx, gone, result, cgroup, member, tap, proc, guestVars, killVars>>

\* Ending a context keeps the first cause.
Cancel(r) == ctx' = [ctx EXCEPT ![r] = IF Done(@) THEN @ ELSE "cancelled"]

cancelCtx(r) ==
  /\ Goto(r, "cancel", "unregister")
  /\ ctx' = [ctx EXCEPT ![r] = IF Done(@) THEN @ ELSE "released"]
  /\ UNCHANGED <<running, gone, result, hostVars, proc, guestVars, killVars>>

unregister(r) ==
  /\ Goto(r, "unregister", "done")
  /\ running' = [running EXCEPT ![IdOf[r]] = NoRun]
  /\ gone' = gone \ {r}
  /\ UNCHANGED <<ctx, result, hostVars, proc, guestVars, killVars>>

---------------------------------------------------------------------------
(* What goes on beside a run.                                              *)

\* The job's deadline: its timeout plus the boot and teardown allowances.
deadline(r) ==
  /\ pc[r] \in Alive /\ ~Done(ctx[r])
  /\ ctx' = [ctx EXCEPT ![r] = "deadline"]
  /\ UNCHANGED <<running, pc, gone, result, hostVars, proc, guestVars, killVars>>

\* The client hangs up; the server ends the request's context, the parent of
\* jobCtx, when it notices.
hangUp(r) ==
  /\ pc[r] \in Alive /\ r \notin gone
  /\ gone' = gone \union {r}
  /\ UNCHANGED <<running, pc, ctx, result, hostVars, proc, guestVars, killVars>>

parentDone(r) ==
  /\ r \in gone /\ pc[r] \in Alive /\ ~Done(ctx[r])
  /\ Cancel(r)
  /\ UNCHANGED <<running, pc, gone, result, hostVars, proc, guestVars, killVars>>

\* The VM process goes away, out of its cgroup; with it go the guest and its end of
\* the connection.  A line it was writing is a garbled frame it sent last.
exitProc(r) ==
  /\ proc[r] = "running"
  /\ proc' = [proc EXCEPT ![r] = "exited"]
  /\ member' = member \ {r}
  /\ guest' = [guest EXCEPT ![r] = IF @ \in {"dialed", "closed"} THEN "closed" ELSE "off"]
  /\ UNCHANGED <<runVars, dir, cgroup, tap, conn, wire, sent, warned, killVars>>

contextKillNever(r) == FALSE /\ UNCHANGED vars

\* exec.CommandContext kills the process once the context has ended.
contextKill(r) == Done(ctx[r]) /\ exitProc(r)

\* killProcess: SIGTERM, and SIGKILL after killGrace.
signal(r) == pc[r] = "kill" /\ exitProc(r)

\* The VM ends by itself: guest shutdown, kernel panic, crash.
vmExit(r) == ~Done(ctx[r]) /\ pc[r] # "kill" /\ exitProc(r)

\* The goroutine that forwards the end of the context to the guest as MsgCancel
\* (unless it sees the VM's exit first) and, if readGuest goes on for
\* guestReplyGrace, closes the connection.  Once readGuest is over it has no effect.
forwardCancel(r) ==
  /\ pc[r] = "read" /\ Done(ctx[r]) /\ r \notin warned
  /\ warned' = warned \union {r}
  /\ UNCHANGED <<runVars, hostVars, proc, guest, conn, wire, sent, killVars>>

\* Lines the scanner has not read yet are lost; one it has read in part is handed out.
replyTimeout(r) ==
  /\ pc[r] = "read" /\ r \in warned /\ conn[r] = "open"
  /\ conn' = [conn EXCEPT ![r] = "closed"]
  /\ \E n \in 0 .. Len(wire[r]) :
       \/ wire' = [wire EXCEPT ![r] = SubSeq(@, 1, n)]
       \/ /\ n < Len(wire[r])
          /\ wire' = [wire EXCEPT ![r] = Append(SubSeq(@, 1, n), Frame("garbled", "none"))]
  /\ UNCHANGED <<runVars, hostVars, proc, guest, sent, warned, killVars>>

\* The guest dials the host, sends frames, hangs up.
guestDial(r) ==
  /\ proc[r] = "running" /\ guest[r] = "booting"
  /\ guest' = [guest EXCEPT ![r] = "dialed"]
  /\ UNCHANGED <<runVars, hostVars, proc, conn, wire, sent, warned, killVars>>

guestSend(r, frame) ==
  /\ proc[r] = "running" /\ guest[r] = "dialed" /\ conn[r] = "open"
  /\ sent[r] < MaxFrames
  /\ sent' = [sent EXCEPT ![r] = @ + 1]
  /\ wire' = [wire EXCEPT ![r] = Append(@, frame)]
  /\ UNCHANGED <<runVars, hostVars, proc, guest, conn, warned, killVars>>

guestClose(r) ==
  /\ proc[r] = "running" /\ guest[r] = "dialed"
  /\ guest' = [guest EXCEPT ![r] = "closed"]
  /\ UNCHANGED <<runVars, hostVars, proc, conn, wire, sent, warned, killVars>>

(* Kill: the lookup under the lock, then the call of the cancel func.      *)

killLookup(k, i) ==
  /\ kpc[k] = "idle"
  /\ kpc' = [kpc EXCEPT ![k] = IF running[i] = NoRun THEN "notRunning" ELSE "cancel"]
  /\ ktarget' = [ktarget EXCEPT ![k] = running[i]]
  /\ UNCHANGED <<runVars, hostVars, proc, guestVars>>

killCancelDropped(k) ==
  /\ kpc[k] = "cancel"
  /\ kpc' = [kpc EXCEPT ![k] = "ok"]
  /\ UNCHANGED <<runVars, hostVars, proc, guestVars, ktarget>>

killCancelByName(k) ==
  /\ kpc[k] = "cancel"
  /\ kpc' = [kpc EXCEPT ![k] = "ok"]
  /\ running[IdOf[ktarget[k]]] # NoRun
  /\ Cancel(running[IdOf[ktarget[k]]])
  /\ UNCHANGED <<running, pc, gone, result, hostVars, proc, guestVars, ktarget>>

killCancel(k) ==
  /\ kpc[k] = "cancel"
  /\ kpc' = [kpc EXCEPT ![k] = "ok"]
  /\ Cancel(ktarget[k])
  /\ UNCHANGED <<running, pc, gone, result, hostVars, proc, guestVars, ktarget>>

---------------------------------------------------------------------------

Run(r) ==
  \/ register(r) \/ refuse(r)
  \/ MkdirTemp(r) \/ mkfs(r) \/ newCgroup(r) \/ setupTap(r) \/ Listen(r) \/ Start(r)
  \/ addProcess(r) \/ configureVM(r) \/ acceptGuest(r) \/ sendJob(r)
  \/ readFrame(r) \/ readEOF(r) \/ killed(r)
  \/ closeConn(r) \/ teardownTap(r) \/ deleteCgroup(r) \/ removeDir(r)
  \/ cancelCtx(r) \/ unregister(r)

Guest(r) ==
  \/ guestDial(r) \/ guestClose(r)
  \/ \E frame \in Frames : guestSend(r, frame)

Kill(k) ==
  \/ \E i \in Ids : killLookup(k, i)
  \/ killCancel(k)

Next ==
  \/ \E r \in Runs :
       \/ Run(r) \/ Guest(r)
       \/ deadline(r) \/ hangUp(r) \/ parentDone(r)
       \/ contextKill(r) \/ signal(r) \/ vmExit(r)
       \/ forwardCancel(r) \/ replyTimeout(r)
  \/ \E k \in Killers : Kill(k)

Spec == Init /\ [][Next]_vars

(***************************************************************************)
(* Fairness.  The goroutine of a run is scheduled, and each of its waits   *)
(* ends: the startup timer of acceptGuest, the API client's timeouts and   *)
(* killProcess's timer are all bounded.  exec's watcher kills a process    *)
(* whose context has ended, and the forwarding goroutine runs.  Nothing is *)
(* assumed of the guest, the callers of Kill or the VM.  A client may hang *)
(* up but not stop reading for ever: readGuest writes to its stream, and   *)
(* the server has no write timeout.  Nor is the deadline assumed to come:  *)
(* the properties say what follows once a context has ended.               *)
(***************************************************************************)
HostFairness ==
  /\ \A r \in Runs :
       /\ WF_vars(pc[r] # "idle" /\ Run(r))
       /\ WF_vars(contextKill(r))
       /\ WF_vars(signal(r))
       /\ WF_vars(forwardCancel(r) \/ replyTimeout(r))
  /\ \A k \in Killers : WF_vars(killCancel(k))

FairSpec == Spec /\ HostFairness

---------------------------------------------------------------------------
(* Properties                                                              *)

NeedsCgroup == {"tap", "listen", "start", "addProcess", "configure", "accept", "send",
                "read", "kill", "close", "untap", "uncgroup"}

NeedsTap == NeedsCgroup \ {"tap", "uncgroup"}

Reasons ==
  {"none", "executor_error", "guest_crash", "cancelled", "timeout"} \union GuestReasons

Steps == Alive \union {"idle", "refused", "done"}

Results == [reason : Reasons, err : BOOLEAN, by : {"host", "guest"}]

\* Type invariant of the executor's state.
TypeOK ==
  /\ running \in [Ids -> Runs \union {NoRun}]
  /\ pc \in [Runs -> Steps]
  /\ ctx \in [Runs -> Contexts]
  /\ gone \subseteq Runs
  /\ result \in [Runs -> Results]
  /\ dir \subseteq Runs /\ cgroup \subseteq Ids
  /\ member \subseteq Runs /\ tap \subseteq Ids
  /\ proc \in [Runs -> {"none", "running", "exited"}]
  /\ guest \in [Runs -> {"off", "booting", "dialed", "closed"}]
  /\ conn \in [Runs -> {"none", "open", "closed"}]
  /\ wire \in [Runs -> Seq(Frames)]
  /\ sent \in [Runs -> 0 .. MaxFrames]
  /\ warned \subseteq Runs
  /\ kpc \in [Killers -> {"idle", "cancel", "ok", "notRunning"}]
  /\ ktarget \in [Killers -> Runs \union {NoRun}]

\* The running map names exactly the calls between register and unregister, so
\* two runs of one job ID are never in progress together and Kill finds the one
\* that is.
OneRunPerId ==
  \A r \in Runs : pc[r] \in Alive <=> running[IdOf[r]] = r

\* The cgroup and the TAP device a run has created stay until that run removes
\* them, although another run of the same job ID, refused or still unwinding,
\* uses the same names: unregister is the last deferred call.
NamesKept ==
  \A r \in Runs :
    /\ pc[r] \in NeedsCgroup => IdOf[r] \in cgroup
    /\ r \in Egress /\ pc[r] \in NeedsTap => IdOf[r] \in tap

\* Directories and TAP devices exist only for runs in progress: whatever statement
\* of Run fails, the deferred calls remove what had been created by then.
NoDebris ==
  /\ \A r \in dir : pc[r] \in Alive
  /\ \A i \in tap :
       \E r \in Egress : IdOf[r] = i /\ pc[r] \in NeedsTap

\* "A job can never outlive its cgroup" (comment in Run): a VM whose guest has been
\* started runs inside the cgroup of its job, and that cgroup exists, even on the
\* returns of Run that leave the VM to be killed later.
VmConfined ==
  \A r \in Runs :
    proc[r] = "running" /\ guest[r] # "off" => r \in member /\ IdOf[r] \in cgroup

\* A run whose context has ended, by its deadline, a Kill or its client leaving, ends,
\* whatever the guest does: no statement of Run waits for the guest or the VM longer.
RunEnds ==
  \A r \in Runs : pc[r] \in Alive /\ Done(ctx[r]) ~> pc[r] = "done"

\* The VM process ends once the context has ended or Run has returned, also after the
\* returns that do not kill it.
VmStops ==
  \A r \in Runs :
    proc[r] = "running" /\ (Done(ctx[r]) \/ pc[r] = "done") ~> proc[r] = "exited"

\* A Kill that reports success ends the run it found, without help from the deadline
\* or the client, even if the run was still creating its VM.
KillEnds ==
  \A k \in Killers, r \in Runs :
    kpc[k] = "ok" /\ ktarget[k] = r ~> pc[r] = "done"

\* A Kill ends no other run: a run is cancelled from outside only by a Kill that found
\* this very call in the running map (not one of the same ID that found an earlier
\* run), or by its client leaving.
KillHitsItsRun ==
  [][\A r \in Runs :
       ctx[r] = "live" /\ ctx'[r] = "cancelled"
         => \/ \E k \in Killers : ktarget[k] = r /\ kpc'[k] = "ok"
            \/ r \in gone]_vars

\* "every successful, failed, cancelled, and timed-out job removes its VM state":
\* when Run has returned its VM process is gone, and so is the cgroup unless a newer
\* run of the ID is using it.
VmStateRemoved ==
  \A r \in Runs :
    pc[r] = "done" =>
      /\ proc[r] # "running"
      /\ IdOf[r] \in cgroup =>
           \E q \in Runs : IdOf[q] = IdOf[r] /\ pc[q] \in NeedsCgroup

(* The abstract executor, as the worker sees it.                           *)

Phase(r) ==
  CASE pc[r] = "idle"    -> "idle"
    [] pc[r] = "refused" -> "refused"
    [] pc[r] = "done"    -> "returned"
    [] OTHER             -> "running"

Phases   == [r \in Runs |-> Phase(r)]
Asked    == {r \in Runs : ctx[r] \in {"cancelled", "deadline"}}
Returned == [r \in Runs |-> IF pc[r] = "done" THEN result[r] ELSE NoResult]

Abstract == INSTANCE Executor WITH
  Runnable <- Rooted, Verdicts <- Results, Stopped <- {Ok("cancelled"), Ok("timeout")},
  NoVerdict <- NoResult, phase <- Phases, asked <- Asked, verdict <- Returned

\* The Firecracker executor implements the abstract executor: one run per ID, one return
\* per run, and the host itself calls a run cancelled or timed out only when somebody
\* asked it to stop.  A guest's result is passed on with the reason the guest gives, so
\* a guest can report "cancelled" or "timeout" of a run nobody asked to stop.
ExecutorSpec == Abstract!Spec
===========================================================================
