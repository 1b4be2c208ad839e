----------------------------- MODULE Restricted ---------------------------
(***************************************************************************)
(* The restricted executor (internal/executor/restricted.go): it runs the  *)
(* command "echo" as a process of the host, under a context that ends at   *)
(* the job's deadline, with the request, or by Kill.                       *)
(***************************************************************************)
CONSTANTS
  Requests,   \* calls of Run
  Runnable,   \* the ones whose command is "echo"
  Ids, IdOf,  \* job IDs, and IdOf[h]: the job ID of call h
  Cancels,    \* calls of Kill
  NoRequest   \* no call: an ID without an entry, a Kill without a target

ASSUME RestrictedAssumption == NoRequest \notin Requests /\ IdOf \in [Requests -> Ids]

VARIABLES
  rpc,      \* rpc[h]: the statement of Run that h is about to execute
  running,  \* Restricted.running, as the run whose cancel func it holds
  ctx,      \* ctx[h]: jobCtx.Err(): "live", "deadline", "cancelled"
  proc,     \* proc[h]: "none", "alive", "ok", "bad" (a non-zero status, or killed)
  err,      \* the calls where cmd.Run returned an error
  res,      \* res[h]: what Run is about to return
  asked,    \* the running calls somebody has told to stop
  cpc,      \* cpc[k]: "idle", "cancel", "204" (nil) or "404" (errNotRunning)
  ctarget   \* ctarget[k]: the run whose cancel func Kill looked up

runVars  == <<rpc, running, ctx, proc, err, res, asked>>
killVars == <<cpc, ctarget>>

RInit ==
  /\ rpc = [h \in Requests |-> "idle"]
  /\ running = [i \in Ids |-> NoRequest]
  /\ ctx = [h \in Requests |-> "live"]
  /\ proc = [h \in Requests |-> "none"]
  /\ err = {} /\ asked = {}
  /\ res = [h \in Requests |-> "none"]
  /\ cpc = [k \in Cancels |-> "idle"]
  /\ ctarget = [k \in Cancels |-> NoRequest]

At(h, from, to) ==
  /\ rpc[h] = from
  /\ rpc' = [rpc EXCEPT ![h] = to]

\* A cancel func: it ends a context once.
CancelFunc(h) == ctx' = [ctx EXCEPT ![h] = IF @ = "live" THEN "cancelled" ELSE @]

Registered(h) == rpc[h] \notin {"idle", "refused", "done"}

---------------------------------------------------------------------------
(* Run.                                                                    *)

\* Another command, or an ID that is in the map.
reject(h) ==
  /\ At(h, "idle", "refused")
  /\ h \notin Runnable \/ running[IdOf[h]] # NoRequest
  /\ UNCHANGED <<running, ctx, proc, err, res, asked, killVars>>

registerAnyway(h) ==
  /\ At(h, "idle", "start")
  /\ h \in Runnable
  /\ running' = [running EXCEPT ![IdOf[h]] = h]
  /\ UNCHANGED <<ctx, proc, err, res, asked, killVars>>

register(h) ==
  /\ At(h, "idle", "start")
  /\ h \in Runnable /\ running[IdOf[h]] = NoRequest
  /\ running' = [running EXCEPT ![IdOf[h]] = h]
  /\ UNCHANGED <<ctx, proc, err, res, asked, killVars>>

\* cmd.Start: it fails when the context has ended, and may fail otherwise.
start(h) ==
  /\ \/ /\ At(h, "start", "wait") /\ ctx[h] = "live"
        /\ proc' = [proc EXCEPT ![h] = "alive"] /\ UNCHANGED err
     \/ /\ At(h, "start", "deadline?")
        /\ err' = err \union {h} /\ UNCHANGED proc
  /\ UNCHANGED <<running, ctx, res, asked, killVars>>

waitCancelling(h) ==
  /\ At(h, "wait", "deadline?")
  /\ proc[h] \in {"ok", "bad"}
  /\ CancelFunc(h)
  /\ UNCHANGED <<running, proc, err, res, asked, killVars>>

\* cmd.Wait: the process has ended and its output is copied.  A copy that failed and
\* a context that has ended are errors too.
wait(h) ==
  /\ At(h, "wait", "deadline?")
  /\ proc[h] \in {"ok", "bad"}
  /\ \/ err' = err \union {h}
     \/ proc[h] = "ok" /\ UNCHANGED err
  /\ UNCHANGED <<running, ctx, proc, res, asked, killVars>>

Result(h, r) == res' = [res EXCEPT ![h] = r]

\* The first look at jobCtx.Err.
checkDeadline(h) ==
  /\ \/ ctx[h] = "deadline" /\ At(h, "deadline?", "cancel") /\ Result(h, "timeout")
     \/ ctx[h] # "deadline" /\ At(h, "deadline?", "cancelled?") /\ UNCHANGED res
  /\ UNCHANGED <<running, ctx, proc, err, asked, killVars>>

\* The second look, at which the context may be another.
checkCancelled(h) ==
  /\ At(h, "cancelled?", "cancel")
  /\ Result(h, IF ctx[h] = "cancelled" THEN "cancelled"
               ELSE IF h \in err THEN "error" ELSE "finished")
  /\ UNCHANGED <<running, ctx, proc, err, asked, killVars>>

\* The deferred function.
cancel(h) ==
  /\ At(h, "cancel", "unregister")
  /\ CancelFunc(h)
  /\ UNCHANGED <<running, proc, err, res, asked, killVars>>

\* After it Run returns, and its variables are gone.
unregister(h) ==
  /\ At(h, "unregister", "done")
  /\ running' = [running EXCEPT ![IdOf[h]] = NoRequest]
  /\ ctx' = [ctx EXCEPT ![h] = "cancelled"]
  /\ proc' = [proc EXCEPT ![h] = IF @ = "alive" THEN @ ELSE "none"]
  /\ err' = err \ {h}
  /\ UNCHANGED <<res, asked, killVars>>

---------------------------------------------------------------------------
(* Beside Run.                                                             *)

exit(h) ==
  /\ proc[h] = "alive"
  /\ \E status \in {"ok", "bad"} : proc' = [proc EXCEPT ![h] = status]
  /\ UNCHANGED <<rpc, running, ctx, err, res, asked, killVars>>

\* The goroutine of exec.CommandContext kills the process.
killProcess(h) ==
  /\ proc[h] = "alive" /\ ctx[h] # "live"
  /\ proc' = [proc EXCEPT ![h] = "bad"]
  /\ UNCHANGED <<rpc, running, ctx, err, res, asked, killVars>>

\* The deadline passes, or the request's context ends.
endContext(h) ==
  /\ Registered(h)
  /\ asked' = asked \union {h}
  /\ \E reason \in {"deadline", "cancelled"} :
       ctx' = [ctx EXCEPT ![h] = IF @ = "live" THEN reason ELSE @]
  /\ UNCHANGED <<rpc, running, proc, err, res, killVars>>

\* Kill, under the mutex; the context of the call itself is not modelled.
lookup(k, i) ==
  /\ cpc[k] = "idle"
  /\ ctarget' = [ctarget EXCEPT ![k] = running[i]]
  /\ cpc' = [cpc EXCEPT ![k] = IF running[i] = NoRequest THEN "404" ELSE "cancel"]
  /\ UNCHANGED runVars

\* Kill, after the mutex: the run may be over by now.
killCancel(k) ==
  /\ cpc[k] = "cancel"
  /\ cpc' = [cpc EXCEPT ![k] = "204"]
  /\ CancelFunc(ctarget[k])
  /\ asked' = IF Registered(ctarget[k]) THEN asked \union {ctarget[k]} ELSE asked
  /\ UNCHANGED <<rpc, running, proc, err, res, ctarget>>

Run(h) ==
  \/ reject(h) \/ register(h) \/ start(h) \/ wait(h) \/ checkDeadline(h)
  \/ checkCancelled(h) \/ cancel(h) \/ unregister(h)
  \/ exit(h) \/ killProcess(h) \/ endContext(h)

Kill(k) == (\E i \in Ids : lookup(k, i)) \/ killCancel(k)

\* The executor by itself, called at any time.
RSpec ==
  RInit /\ [][(\E h \in Requests : Run(h)) \/ (\E k \in Cancels : Kill(k))]_<<runVars, killVars>>

---------------------------------------------------------------------------
(* The abstract executor, as the worker sees it.                           *)

Phases ==
  [h \in Requests |->
     CASE rpc[h] = "idle"    -> "idle"
       [] rpc[h] = "refused" -> "refused"
       [] rpc[h] = "done"    -> "returned"
       [] OTHER              -> "running"]

Returned == [h \in Requests |-> IF rpc[h] = "done" THEN res[h] ELSE "none"]

Abstract == INSTANCE Executor WITH
  Runs <- Requests, Verdicts <- {"finished", "cancelled", "timeout", "error"},
  Stopped <- {"cancelled", "timeout"}, NoVerdict <- "none",
  phase <- Phases, verdict <- Returned

\* The restricted executor implements the abstract executor: one run per ID, and no
\* verdict of "cancelled" or "timeout" that nobody asked for, although Run cancels its
\* own context and reads it twice while a deadline or a Kill may end it.
RestrictedSpec == Abstract!Spec
===========================================================================
