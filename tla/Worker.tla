------------------------------- MODULE Worker -----------------------------
(***************************************************************************)
(* The worker's HTTP server (internal/worker/server.go): concurrent        *)
(* requests to run a job, each handled by one call of handleRun, and       *)
(* requests to cancel one, handled by handleJobAction.  The handler uses   *)
(* the executor through its interface, modelled by module Executor, which  *)
(* module Microvm implements; it writes the response stream through        *)
(* internal/eventstream, which a client drains at its own pace.            *)
(***************************************************************************)
EXTENDS Naturals, Sequences, FiniteSets

CONSTANTS
  Requests,       \* requests to run a job
  Runnable,       \* the requests for a command the executor offers
  Ids,            \* job IDs
  IdOf,           \* IdOf[h]: the job ID of request h
  MaxConcurrent,  \* NewServer's maxConcurrent: the capacity of Server.slots
  Cancels,        \* requests to cancel a job
  NoRequest,      \* a cancel request that has found no run
  Window,         \* bound on the events written and not yet read by the client
  MaxData         \* bound on the output events of a job

ASSUME RequestsAssumption ==
  IsFiniteSet(Requests) /\ NoRequest \notin Requests /\ Runnable \subseteq Requests
ASSUME IdOfAssumption == IdOf \in [Requests -> Ids]
ASSUME MaxConcurrentAssumption == MaxConcurrent \in Nat \ {0}
ASSUME BoundsAssumption == Window \in Nat \ {0} /\ MaxData \in Nat

\* What Run returns: a result the job or its guest produced, whatever reason it gives;
\* one in which the executor blames the end of the context; or any result with a
\* non-nil error.
Verdicts == {"finished", "cancelled", "timeout", "error"}

Stopped == {"cancelled", "timeout"}

NoVerdict == "none"

VARIABLES
  hpc,       \* hpc[h]: the statement of handleRun that h is about to execute
  slots,     \* the number of elements in Server.slots
  dir,       \* the requests whose yonk-job-* directory exists
  cleaned,   \* the requests whose flag "cleaned" is set
  reply,     \* reply[h]: "none", "busy", "error" (another error reply) or "stream"
  stream,    \* stream[h]: the events written to the response of a client that listens
  read,      \* read[h]: how many of them the client has taken
  writing,   \* the requests whose executor is inside a Write
  gone,      \* the requests whose client has hung up
  phase, asked, verdict,   \* the executor, see Executor
  cpc,       \* cpc[k]: "idle", "cancel", "204" or "404"
  ctarget    \* ctarget[k]: the run whose cancel func Kill looked up

execVars   == <<phase, asked, verdict>>
clientVars == <<read, gone>>
cancelVars == <<cpc, ctarget>>
vars == <<hpc, slots, dir, cleaned, reply, stream, writing, execVars, clientVars, cancelVars>>

Exec == INSTANCE Executor WITH Runs <- Requests

Init ==
  /\ hpc = [h \in Requests |-> "idle"]
  /\ slots = 0
  /\ dir = {} /\ cleaned = {} /\ writing = {} /\ gone = {}
  /\ reply = [h \in Requests |-> "none"]
  /\ stream = [h \in Requests |-> <<>>]
  /\ read = [h \in Requests |-> 0]
  /\ Exec!Init
  /\ cpc = [k \in Cancels |-> "idle"]
  /\ ctarget = [k \in Cancels |-> NoRequest]

Goto(h, from, to) ==
  /\ hpc[h] = from
  /\ hpc' = [hpc EXCEPT ![h] = to]

\* writeError
Reply(h, r) == reply' = [reply EXCEPT ![h] = r]

---------------------------------------------------------------------------
(* handleRun, up to the response stream.                                   *)

acquireLate(h) ==
  /\ Goto(h, "idle", "parse")
  /\ slots <= MaxConcurrent
  /\ slots' = slots + 1
  /\ UNCHANGED <<dir, cleaned, reply, stream, writing, execVars, clientVars, cancelVars>>

\* The slot is taken without waiting.
acquire(h) ==
  /\ Goto(h, "idle", "parse")
  /\ slots < MaxConcurrent
  /\ slots' = slots + 1
  /\ UNCHANGED <<dir, cleaned, reply, stream, writing, execVars, clientVars, cancelVars>>

\* A wrong method or media type, or no free slot: nothing has been deferred yet.
turnAway(h) ==
  /\ Goto(h, "idle", "done")
  /\ \/ Reply(h, "error")
     \/ slots = MaxConcurrent /\ Reply(h, "busy")
  /\ UNCHANGED <<slots, dir, cleaned, stream, writing, execVars, clientVars, cancelVars>>

\* The job part: multipart structure, JSON, Validate, supports, the workspace part.
parse(h) ==
  /\ \/ Goto(h, "parse", "mkdir") /\ UNCHANGED reply
     \/ Goto(h, "parse", "release") /\ Reply(h, "error")
  /\ UNCHANGED <<slots, dir, cleaned, stream, writing, execVars, clientVars, cancelVars>>

MkdirTemp(h) ==
  /\ \/ /\ Goto(h, "mkdir", "extract")
        /\ dir' = dir \union {h}
        /\ UNCHANGED reply
     \/ /\ Goto(h, "mkdir", "release")
        /\ Reply(h, "error")
        /\ UNCHANGED dir
  /\ UNCHANGED <<slots, cleaned, stream, writing, execVars, clientVars, cancelVars>>

\* The workspace: Mkdir, Extract, the size and extra-part checks, the Flusher.
extract(h) ==
  /\ \/ Goto(h, "extract", "ready") /\ Reply(h, "stream")
     \/ Goto(h, "extract", "defer") /\ Reply(h, "error")
  /\ UNCHANGED <<slots, dir, cleaned, stream, writing, execVars, clientVars, cancelVars>>

---------------------------------------------------------------------------
(* handleRun, the response stream.                                         *)

\* Sink.Emit: a Write that waits for room in the connection.  Once the client has
\* hung up it fails, or the event is buffered and lost.
Written(h, e) ==
  \/ /\ h \notin gone /\ Len(stream[h]) - read[h] < Window
     /\ stream' = [stream EXCEPT ![h] = Append(@, e)]
  \/ h \in gone /\ UNCHANGED stream

Failed(h) == h \in gone /\ UNCHANGED stream

emit(h, e, from, to) ==
  /\ \/ Goto(h, from, to) /\ Written(h, e)
     \/ Goto(h, from, "defer") /\ Failed(h)
  /\ UNCHANGED <<slots, dir, cleaned, reply, writing, execVars, clientVars, cancelVars>>

emitReady(h)   == emit(h, "workspace_ready", "ready", "running")
emitRunning(h) == emit(h, "running", "running", "run")

\* The handler's part of calling executor.Run and of its return, and the executor's.
GotoRun(h, from, to) ==
  /\ Goto(h, from, to)
  /\ UNCHANGED <<slots, dir, cleaned, reply, stream, writing, clientVars, cancelVars>>

runExecutor(h) ==
  \/ GotoRun(h, "run", "wait") /\ Exec!Begin(h)
  \/ GotoRun(h, "run", "cleanup") /\ Exec!Refuse(h)

returnWhileWriting(h, v) == GotoRun(h, "wait", "cleanup") /\ Exec!End(h, v)

\* By then the executor's Writes are over.
return(h, v) ==
  h \notin writing /\ GotoRun(h, "wait", "cleanup") /\ Exec!End(h, v)

cleanupAfterCleaned(h) ==
  /\ cleaned' = cleaned \union {h}
  /\ Goto(h, "cleanup", "cleaned")
  /\ UNCHANGED <<slots, dir, reply, stream, writing, execVars, clientVars, cancelVars>>

\* The cleanup closure after the run: the flag, then RemoveAll, which can fail.
cleanup(h) ==
  /\ cleaned' = cleaned \union {h}
  /\ \/ dir' = dir \ {h} /\ Goto(h, "cleanup", "cleaned")
     \/ UNCHANGED dir /\ Goto(h, "cleanup", "failure")
  /\ UNCHANGED <<slots, reply, stream, writing, execVars, clientVars, cancelVars>>

\* Run returned an error, or refused the job.
executionErr(h) == phase[h] = "refused" \/ verdict[h] = "error"

emitCleaned(h) ==
  emit(h, "cleaned", "cleaned", IF executionErr(h) THEN "failure" ELSE "completion")

emitFailure(h)    == emit(h, "failure", "failure", "defer")
emitCompletion(h) == emit(h, "completion", "completion", "defer")

\* The deferred cleanup: nothing if the closure has run before.
deferredCleanup(h) ==
  /\ Goto(h, "defer", "release")
  /\ cleaned' = cleaned \union {h}
  /\ \/ h \notin cleaned /\ dir' = dir \ {h}
     \/ UNCHANGED dir        \* cleaned before, or RemoveAll failed and was logged
  /\ UNCHANGED <<slots, reply, stream, writing, execVars, clientVars, cancelVars>>

releaseForgotten(h) ==
  /\ Goto(h, "release", "done")
  /\ UNCHANGED <<slots, dir, cleaned, reply, stream, writing, execVars, clientVars, cancelVars>>

release(h) ==
  /\ Goto(h, "release", "done")
  /\ slots' = slots - 1
  /\ UNCHANGED <<dir, cleaned, reply, stream, writing, execVars, clientVars, cancelVars>>

---------------------------------------------------------------------------
(* What goes on beside a handler.                                          *)

\* The executor writes output or an artifact while it runs.
writeStart(h) ==
  /\ hpc[h] = "wait" /\ h \notin writing
  /\ Cardinality({i \in 1 .. Len(stream[h]) : stream[h][i] = "data"}) < MaxData
  /\ writing' = writing \union {h}
  /\ UNCHANGED <<hpc, slots, dir, cleaned, reply, stream, execVars, clientVars, cancelVars>>

writeEndBlocking(h) ==
  /\ h \in writing /\ h \notin gone
  /\ Written(h, "data")
  /\ writing' = writing \ {h}
  /\ UNCHANGED <<hpc, slots, dir, cleaned, reply, execVars, clientVars, cancelVars>>

writeEnd(h) ==
  /\ h \in writing
  /\ Written(h, "data") \/ Failed(h)
  /\ writing' = writing \ {h}
  /\ UNCHANGED <<hpc, slots, dir, cleaned, reply, execVars, clientVars, cancelVars>>

\* The run is told to stop by its deadline, or by the request's context, which the
\* server ends after the client has hung up.
askToStop(h) ==
  /\ Exec!Ask(h)
  /\ UNCHANGED <<hpc, slots, dir, cleaned, reply, stream, writing, clientVars, cancelVars>>

\* The client reads, or hangs up; then what it has not read is lost, and what it has
\* read no longer matters to the server.
drain(h) ==
  /\ h \notin gone /\ read[h] < Len(stream[h])
  /\ read' = [read EXCEPT ![h] = @ + 1]
  /\ UNCHANGED <<hpc, slots, dir, cleaned, reply, stream, writing, gone, execVars, cancelVars>>

hangUp(h) ==
  /\ hpc[h] # "idle" /\ h \notin gone
  /\ gone' = gone \union {h}
  /\ stream' = [stream EXCEPT ![h] = <<>>]
  /\ read' = [read EXCEPT ![h] = 0]
  /\ UNCHANGED <<hpc, slots, dir, cleaned, reply, writing, execVars, cancelVars>>

\* handleJobAction: Kill looks the ID up and calls the cancel func it found.
killLookup(k, i) ==
  /\ cpc[k] = "idle"
  /\ \/ \E h \in Requests :
          /\ IdOf[h] = i /\ phase[h] = "running"
          /\ ctarget' = [ctarget EXCEPT ![k] = h]
          /\ cpc' = [cpc EXCEPT ![k] = "cancel"]
     \/ /\ \A h \in Requests : IdOf[h] = i => phase[h] # "running"
        /\ cpc' = [cpc EXCEPT ![k] = "404"]
        /\ UNCHANGED ctarget
  /\ UNCHANGED <<hpc, slots, dir, cleaned, reply, stream, writing, execVars, clientVars>>

\* The cancel func of a run that has returned in the meantime does nothing.
killCancel(k) ==
  /\ cpc[k] = "cancel"
  /\ cpc' = [cpc EXCEPT ![k] = "204"]
  /\ \/ Exec!Ask(ctarget[k])
     \/ phase[ctarget[k]] # "running" /\ UNCHANGED execVars
  /\ UNCHANGED <<hpc, slots, dir, cleaned, reply, stream, writing, clientVars, ctarget>>

---------------------------------------------------------------------------

handleRun(h) ==
  \/ acquire(h) \/ turnAway(h) \/ parse(h) \/ MkdirTemp(h) \/ extract(h)
  \/ emitReady(h) \/ emitRunning(h) \/ runExecutor(h)
  \/ \E v \in Verdicts : return(h, v)
  \/ cleanup(h) \/ emitCleaned(h) \/ emitFailure(h) \/ emitCompletion(h)
  \/ deferredCleanup(h) \/ release(h)

handleJobAction(k) ==
  \/ \E i \in Ids : killLookup(k, i)
  \/ killCancel(k)

Server ==
  \/ \E h \in Requests :
       handleRun(h) \/ writeStart(h) \/ writeEnd(h) \/ askToStop(h)
  \/ \E k \in Cancels : handleJobAction(k)

Next == Server \/ \E h \in Requests : drain(h) \/ hangUp(h)

Spec == Init /\ [][Next]_vars

---------------------------------------------------------------------------
(* Properties                                                              *)

\* The statements between taking the slot and giving it back.
Holding == {"parse", "mkdir", "extract", "ready", "running", "run", "wait", "cleanup",
            "cleaned", "failure", "completion", "defer", "release"}

Events == {"workspace_ready", "running", "data", "cleaned", "failure", "completion"}

\* Type invariant of the server's state.
TypeOK ==
  /\ hpc \in [Requests -> Holding \union {"idle", "done"}]
  /\ slots \in 0 .. MaxConcurrent
  /\ dir \subseteq Requests /\ cleaned \subseteq Requests
  /\ writing \subseteq Requests /\ gone \subseteq Requests
  /\ reply \in [Requests -> {"none", "busy", "error", "stream"}]
  /\ stream \in [Requests -> Seq(Events)]
  /\ read \in [Requests -> Nat]
  /\ phase \in [Requests -> {"idle", "running", "returned", "refused"}]
  /\ asked \subseteq Requests
  /\ verdict \in [Requests -> Verdicts \union {"none"}]
  /\ cpc \in [Cancels -> {"idle", "cancel", "204", "404"}]
  /\ ctarget \in [Cancels -> Requests \union {NoRequest}]

\* Every return of handleRun gives its slot back, once: the elements of Server.slots
\* are the handlers in progress, so the executor never has more runs than the
\* worker's limit.
SlotsAccounted ==
  /\ slots = Cardinality({h \in Requests : hpc[h] \in Holding})
  /\ Cardinality({h \in Requests : phase[h] = "running"}) <= MaxConcurrent

\* "The worker removes the job directory before reporting completion", and that is
\* after the run has returned; while it runs its workspace is there.  A handler leaves
\* the directory behind only when RemoveAll has failed: the cleanup closure has been
\* called on every return after MkdirTemp.
CleanBeforeCompletion ==
  \A h \in Requests :
    /\ (\E i \in 1 .. Len(stream[h]) : stream[h][i] \in {"cleaned", "completion"})
         => h \notin dir /\ phase[h] \in {"returned", "refused"}
    /\ phase[h] = "running" => h \in dir /\ h \notin cleaned
    /\ hpc[h] \in {"release", "done"} /\ h \in dir => h \in cleaned

\* The stream the client decodes: status lines, output, and one last event that is a
\* completion or a failure; nothing after it, no output once the job is cleaned.  A
\* completion carries the verdict of a run that was accepted and returned without
\* error.
StreamInOrder ==
  \A h \in Requests :
    LET s == stream[h]
        n == Len(s)
        At(e) == {i \in 1 .. n : s[i] = e}
    IN /\ n > 0 => s[1] = "workspace_ready" /\ reply[h] = "stream"
       /\ n > 1 => s[2] = "running"
       /\ \A i \in At("data") : i > 2 /\ \A j \in At("cleaned") : i < j
       /\ \A i \in At("completion") :
            /\ i = n /\ At("cleaned") = {n - 1}
            /\ phase[h] = "returned" /\ verdict[h] # "error"
       /\ \A i \in At("failure") : i = n /\ i > 2
===========================================================================
