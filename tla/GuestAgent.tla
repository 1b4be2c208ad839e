----------------------------- MODULE GuestAgent ---------------------------
(***************************************************************************)
(* The agent inside the microVM (internal/guest/agent.go): runJob, with    *)
(* the command it starts, the processes that command leaves behind, the    *)
(* goroutines that copy its output, and the ones that kill its process     *)
(* group on a cancellation or at the job's timeout.  The agent is PID 1,   *)
(* so every orphan becomes its child.                                      *)
(***************************************************************************)
EXTENDS Naturals, FiniteSets

CONSTANTS
  Streams,     \* the command's output pipes
  Children,    \* processes the job may start besides the command
  MaxChunks    \* bound on the output chunks per stream

ASSUME MaxChunksAssumption == MaxChunks \in Nat

VARIABLES
  gpc,       \* the statement of runJob the agent is about to execute
  command,   \* the command: "none", "running", "exited"
  child,     \* child[c]: "none", "group", "session" (left the group), "dead"
  written,   \* written[s]: chunks the command has written
  pipe,      \* pipe[s]: those still in the pipe
  copier,    \* the streams whose copying goroutine is still in io.Copy
  held,      \* the streams of which it has read a chunk it has not sent yet
  sent,      \* sent[s]: chunks sent to the host
  closed,    \* cmd.Wait has closed the agent's ends of the pipes
  ctx,       \* "live" or "deadline": the job's timeout
  cancelCh,  \* closed by watchCancellation when MsgCancel arrives
  killer,    \* the killing goroutine is still in its select
  linked,    \* the connection to the host is up
  artifacts, \* sendArtifacts has been through
  reason     \* termination reason of the result sent to the host, or "none"

procVars == <<command, child>>
outVars  == <<written, pipe, copier, held, sent, closed>>
envVars  == <<ctx, cancelCh, killer, linked>>
agentVars == <<gpc, procVars, outVars, envVars, artifacts, reason>>

AgentInit ==
  /\ gpc = "start"
  /\ command = "none"
  /\ child = [c \in Children |-> "none"]
  /\ written = [s \in Streams |-> 0] /\ pipe = [s \in Streams |-> 0]
  /\ sent = [s \in Streams |-> 0]
  /\ copier = {} /\ held = {} /\ closed = FALSE
  /\ ctx = "live" /\ cancelCh = FALSE /\ killer = FALSE /\ linked = TRUE
  /\ artifacts = FALSE
  /\ reason = "none"

Alive == {c \in Children : child[c] \in {"group", "session"}}

killCommand ==
  /\ command' = "exited"
  /\ UNCHANGED child

\* kill(-pid): the command and the processes that are still in its group.
killGroup ==
  /\ command' = "exited"
  /\ child' = [c \in Children |-> IF child[c] = "group" THEN "dead" ELSE child[c]]

---------------------------------------------------------------------------
(* runJob.                                                                 *)

\* Chdir, LookPath, the pipes and Start; each failure sends its result and returns.
cmdStart ==
  /\ gpc = "start"
  /\ \/ /\ gpc' = "wait" /\ command' = "running"
        /\ copier' = Streams /\ killer' = TRUE
        /\ UNCHANGED reason
     \/ /\ gpc' = "done"
        /\ reason' \in {"executor_error", "command_not_found", "command_failed"}
        /\ UNCHANGED <<command, copier, killer>>
  /\ UNCHANGED <<child, written, pipe, held, sent, closed, ctx, cancelCh, linked, artifacts>>

\* cmd.Wait: the command has exited; Wait closes the pipes, read or not.
Wait ==
  /\ gpc = "wait" /\ command = "exited"
  /\ gpc' = "copyWait"
  /\ closed' = TRUE
  /\ UNCHANGED <<procVars, written, pipe, copier, held, sent, envVars, artifacts, reason>>

copyWaitSkipped ==
  /\ gpc = "copyWait"
  /\ gpc' = "reap"
  /\ UNCHANGED <<procVars, outVars, envVars, artifacts, reason>>

copyWait ==
  /\ gpc = "copyWait" /\ copier = {}
  /\ gpc' = "reap"
  /\ UNCHANGED <<procVars, outVars, envVars, artifacts, reason>>

reapOrphansOnce ==
  /\ gpc = "reap"
  /\ gpc' = "artifacts"
  /\ UNCHANGED <<procVars, outVars, envVars, artifacts, reason>>

\* reapOrphans: poll until no child is left; at the deadline kill the group and wait
\* for the rest.
reapOrphans ==
  /\ \/ /\ gpc \in {"reap", "drain"} /\ Alive = {}
        /\ gpc' = "artifacts"
        /\ UNCHANGED procVars
     \/ /\ gpc = "reap" /\ ctx = "deadline"
        /\ gpc' = "drain"
        /\ killGroup
  /\ UNCHANGED <<outVars, envVars, artifacts, reason>>

sendArtifacts ==
  /\ gpc = "artifacts"
  /\ gpc' = "classify"
  /\ artifacts' = TRUE
  /\ UNCHANGED <<procVars, outVars, envVars, reason>>

classifyDeadlineFirst ==
  /\ gpc = "classify"
  /\ gpc' = "done"
  /\ reason' = IF ctx = "deadline" \/ cancelCh THEN "timeout" ELSE "completed"
  /\ UNCHANGED <<procVars, outVars, envVars, artifacts>>

\* The termination reason, and sendResult.  The last case is that of a Wait which could
\* not say how the command ended.
classify ==
  /\ gpc = "classify"
  /\ gpc' = "done"
  /\ \/ cancelCh /\ reason' = "cancelled"
     \/ ~cancelCh /\ ctx = "deadline" /\ reason' = "timeout"
     \/ ~cancelCh /\ ctx = "live" /\ reason' \in {"completed", "command_failed"}
  /\ UNCHANGED <<procVars, outVars, envVars, artifacts>>

---------------------------------------------------------------------------
(* The goroutines.                                                         *)

\* io.Copy: a chunk is read from the pipe, then sent; an Encode error ends the copy.
copyRead(s) ==
  /\ s \in copier \ held /\ pipe[s] > 0 /\ ~closed
  /\ pipe' = [pipe EXCEPT ![s] = @ - 1]
  /\ held' = held \union {s}
  /\ UNCHANGED <<gpc, procVars, written, copier, sent, closed, envVars, artifacts, reason>>

copySendAgain(s) ==
  /\ s \in held
  /\ sent' = [sent EXCEPT ![s] = @ + 1]
  /\ UNCHANGED <<gpc, procVars, written, pipe, copier, held, closed, envVars, artifacts, reason>>

copySend(s) ==
  /\ s \in held
  /\ held' = held \ {s}
  /\ \/ linked /\ sent' = [sent EXCEPT ![s] = @ + 1] /\ UNCHANGED copier
     \/ ~linked /\ UNCHANGED sent /\ copier' = copier \ {s}
  /\ UNCHANGED <<gpc, procVars, written, pipe, closed, envVars, artifacts, reason>>

\* Read fails on the closed pipe; or the last writer has gone and the pipe is empty.
copyEnd(s) ==
  /\ s \in copier \ held
  /\ closed \/ (pipe[s] = 0 /\ command = "exited" /\ Alive = {})
  /\ copier' = copier \ {s}
  /\ UNCHANGED <<gpc, procVars, written, pipe, held, sent, closed, envVars, artifacts, reason>>

\* The goroutine that waits for cancelCh or the context, and kills once.
kill ==
  /\ killer /\ (cancelCh \/ ctx = "deadline")
  /\ killer' = FALSE
  /\ killGroup
  /\ UNCHANGED <<gpc, outVars, ctx, cancelCh, linked, artifacts, reason>>

\* exec.CommandContext kills the command, and only it, at the deadline.
contextKill ==
  /\ ctx = "deadline" /\ command = "running"
  /\ command' = "exited"
  /\ UNCHANGED <<gpc, child, outVars, envVars, artifacts, reason>>

watchCancellation ==
  /\ gpc \notin {"start", "done"} /\ linked /\ ~cancelCh
  /\ cancelCh' = TRUE
  /\ UNCHANGED <<gpc, procVars, outVars, ctx, killer, linked, artifacts, reason>>

---------------------------------------------------------------------------
(* The job, the clock and the host.                                        *)

timeout ==
  /\ gpc \notin {"start", "done"} /\ ctx = "live"
  /\ ctx' = "deadline"
  /\ UNCHANGED <<gpc, procVars, outVars, cancelCh, killer, linked, artifacts, reason>>

hostClose ==
  /\ linked /\ linked' = FALSE
  /\ UNCHANGED <<gpc, procVars, outVars, ctx, cancelCh, killer, artifacts, reason>>

write(s) ==
  /\ command = "running" /\ written[s] < MaxChunks
  /\ written' = [written EXCEPT ![s] = @ + 1]
  /\ pipe' = [pipe EXCEPT ![s] = @ + 1]
  /\ UNCHANGED <<gpc, procVars, copier, held, sent, closed, envVars, artifacts, reason>>

exit ==
  /\ command = "running"
  /\ command' = "exited"
  /\ UNCHANGED <<gpc, child, outVars, envVars, artifacts, reason>>

\* The command or a process it left behind starts another one.
fork(c) ==
  /\ child[c] = "none"
  /\ \/ /\ command = "running" \/ \E p \in Children : child[p] = "group"
        /\ child' = [child EXCEPT ![c] = "group"]
     \/ /\ command = "running" \/ Alive # {}
        /\ child' = [child EXCEPT ![c] = "session"]
  /\ UNCHANGED <<gpc, command, outVars, envVars, artifacts, reason>>

childExit(c) ==
  /\ c \in Alive
  /\ child' = [child EXCEPT ![c] = "dead"]
  /\ UNCHANGED <<gpc, command, outVars, envVars, artifacts, reason>>

---------------------------------------------------------------------------

runJob == cmdStart \/ Wait \/ copyWait \/ reapOrphans \/ sendArtifacts \/ classify

Job ==
  \/ \E s \in Streams : write(s)
  \/ exit
  \/ \E c \in Children : fork(c) \/ childExit(c)

AgentNext ==
  \/ runJob \/ kill \/ contextKill \/ watchCancellation
  \/ \E s \in Streams : copyRead(s) \/ copySend(s) \/ copyEnd(s)
  \/ Job \/ timeout \/ hostClose

AgentSpec == AgentInit /\ [][AgentNext]_agentVars

(***************************************************************************)
(* Fairness.  The agent's goroutines are scheduled and time passes.        *)
(* Nothing is assumed of the job, which may run for ever.  Of the host it  *)
(* is assumed that it reads on or closes the connection: Encode, which     *)
(* writes to a blocking socket, then returns, with an error or without.    *)
(***************************************************************************)
AgentFairSpec ==
  /\ AgentSpec
  /\ WF_agentVars(runJob) /\ WF_agentVars(kill) /\ WF_agentVars(contextKill) /\ WF_agentVars(timeout)
  /\ \A s \in Streams : WF_agentVars(copyRead(s) \/ copySend(s) \/ copyEnd(s))

---------------------------------------------------------------------------
(* Properties                                                              *)

\* Type invariant of the agent's state.
AgentTypeOK ==
  /\ gpc \in {"start", "wait", "copyWait", "reap", "drain", "artifacts", "classify", "done"}
  /\ command \in {"none", "running", "exited"}
  /\ child \in [Children -> {"none", "group", "session", "dead"}]
  /\ written \in [Streams -> 0 .. MaxChunks]
  /\ pipe \in [Streams -> 0 .. MaxChunks]
  /\ sent \in [Streams -> 0 .. MaxChunks]
  /\ copier \subseteq Streams /\ held \subseteq copier
  /\ closed \in BOOLEAN /\ cancelCh \in BOOLEAN /\ killer \in BOOLEAN
  /\ linked \in BOOLEAN /\ artifacts \in BOOLEAN
  /\ ctx \in {"live", "deadline"}
  /\ reason \in {"none", "executor_error", "command_not_found", "command_failed",
                 "cancelled", "timeout", "completed"}

\* "completion is never reported while work is still alive" (comment in runJob): when
\* the result is sent no process of the job is left, in the group or out of it, and
\* none comes back.  Artifacts are collected when the job can no longer change them.
NoWorkAfterResult ==
  /\ reason # "none" => command # "running" /\ Alive = {}
  /\ artifacts => Alive = {} /\ command = "exited" /\ copier = {}

\* The result is the last thing the host hears of: no output follows it, and the
\* artifacts come before it, so the host may stop reading there.  (The agent's own log
\* lines, one of which follows the result, are left out: the host only logs them.)
ResultIsLast ==
  [][reason # "none" => UNCHANGED <<sent, artifacts, reason>>]_agentVars

\* A result blames the cancellation or the timeout only if it happened, and one that
\* says "completed" is not that of a job somebody stopped.
ReasonIsTrue ==
  /\ reason = "cancelled" => cancelCh
  /\ reason = "timeout" => ctx = "deadline"
  /\ reason = "completed" => command = "exited" /\ killer

\* "Reap orphans and bound them by the job timeout" (comment in runJob): once the
\* timeout has passed the agent reports a result, whatever the job left running in its
\* process group.  A process that has left the group is waited for without a bound.
ResultFollows ==
  ctx = "deadline" ~> (reason # "none" \/ \E c \in Children : child[c] = "session")

\* "2000 stdout + 2000 stderr lines streamed intact": a job that completed has had
\* all its output sent to the host that listened.
OutputIntact ==
  reason = "completed" /\ linked => \A s \in Streams : sent[s] = written[s]
===========================================================================
