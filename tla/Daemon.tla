------------------------------- MODULE Daemon -----------------------------
(***************************************************************************)
(* The worker daemon (cmd/yonkd/main.go) with the restricted executor: it  *)
(* chooses the executor, serves, and shuts down on a signal.  The handlers *)
(* are those of module Worker; where they call the executor, a step of     *)
(* module Restricted is taken with them.                                   *)
(***************************************************************************)
EXTENDS Restricted, Naturals, Sequences, FiniteSets

CONSTANTS
  Modes,          \* values of --executor
  MaxConcurrent, Window, MaxData   \* see Worker

ASSUME DaemonAssumption ==
  /\ IsFiniteSet(Requests) /\ Runnable \subseteq Requests
  /\ MaxConcurrent \in Nat \ {0} /\ Window \in Nat \ {0} /\ MaxData \in Nat

VARIABLES
  hpc, slots, dir, cleaned, reply, stream, read, writing, gone,   \* see Worker
  mpc,     \* run of yonkd: "choose", "microvm", "serve", "shutdown", "exit"
  status,  \* its exit status: "none", "ok", "error"
  late     \* requests to come on connections accepted before the listener closed

W == INSTANCE Worker WITH phase <- Phases, verdict <- Returned

handlerVars == <<hpc, slots, dir, cleaned, reply, stream, read, writing, gone>>
mainVars == <<mpc, status, late>>
vars == <<runVars, killVars, handlerVars, mainVars>>

Init ==
  /\ RInit
  /\ hpc = [h \in Requests |-> "idle"]
  /\ slots = 0
  /\ dir = {} /\ cleaned = {} /\ writing = {} /\ gone = {}
  /\ reply = [h \in Requests |-> "none"]
  /\ stream = [h \in Requests |-> <<>>]
  /\ read = [h \in Requests |-> 0]
  /\ mpc = "choose" /\ status = "none" /\ late = {}

Up == mpc \in {"serve", "shutdown"}

---------------------------------------------------------------------------
(* run of yonkd.                                                           *)

Exit(s) == mpc' = "exit" /\ status' = s

\* The executor, its capabilities, NewServer.  A daemon with microVMs is the subject
\* of modules Microvm and Session.
choose ==
  /\ mpc = "choose"
  /\ \E mode \in Modes :
       \/ mode \in {"microvm", "auto"} /\ mpc' = "microvm" /\ UNCHANGED status
       \/ mode \in {"restricted", "auto"} /\ mpc' = "serve" /\ UNCHANGED status
       \/ Exit("error")
  /\ UNCHANGED <<runVars, killVars, handlerVars, late>>

\* ListenAndServe returns an error.
serveErr ==
  /\ mpc = "serve" /\ Exit("error")
  /\ UNCHANGED <<runVars, killVars, handlerVars, late>>

\* The signal; Shutdown closes the listener.  A connection may have been accepted and
\* its request not read yet.
signal ==
  /\ mpc = "serve" /\ mpc' = "shutdown"
  /\ late' \in SUBSET {h \in Requests : hpc[h] = "idle"}
  /\ UNCHANGED <<runVars, killVars, handlerVars, status>>

shutdownIdle ==
  /\ mpc = "shutdown"
  /\ \/ (\A h \in Requests : rpc[h] \in {"idle", "refused", "done"}) /\ Exit("ok")
     \/ Exit("error")
  /\ UNCHANGED <<runVars, killVars, handlerVars, late>>

\* Every connection is idle.
Quiescent ==
  /\ late = {} /\ \A h \in Requests : hpc[h] \in {"idle", "done"}
  /\ \A k \in Cancels : cpc[k] # "cancel"

\* Shutdown returns when all is quiet or after ten seconds.  It ends no request's context.
shutdown ==
  /\ mpc = "shutdown"
  /\ \/ Quiescent /\ Exit("ok")
     \/ Exit("error")
  /\ UNCHANGED <<runVars, killVars, handlerVars, late>>

\* No request has come within Shutdown's five seconds for a new connection.
drop(h) ==
  /\ mpc = "shutdown" /\ late' = late \ {h} /\ late' # late
  /\ UNCHANGED <<runVars, killVars, handlerVars, mpc, status>>

---------------------------------------------------------------------------
(* A handler, with the executor.                                           *)

\* Statements of handleRun outside the executor.
handle(h) ==
  /\ hpc[h] = "idle" => mpc = "serve" \/ h \in late
  /\ late' = late \ {h}
  /\ UNCHANGED <<runVars, killVars, mpc, status>>
  /\ \/ W!acquire(h) \/ W!turnAway(h) \/ W!parse(h) \/ W!MkdirTemp(h) \/ W!extract(h)
     \/ W!emitReady(h) \/ W!emitRunning(h)
     \/ W!cleanup(h) \/ W!emitCleaned(h) \/ W!emitFailure(h) \/ W!emitCompletion(h)
     \/ W!deferredCleanup(h) \/ W!release(h)

\* executor.Run is called, and returns.
call(h) ==
  /\ \/ register(h) /\ W!GotoRun(h, "run", "wait")
     \/ reject(h) /\ W!GotoRun(h, "run", "cleanup")
  /\ UNCHANGED mainVars

return(h) == unregister(h) /\ W!GotoRun(h, "wait", "cleanup") /\ UNCHANGED mainVars

\* Statements of Run that the handler does not see; Wait returns after the last copy.
run(h) ==
  /\ \/ start(h)
     \/ h \notin writing /\ wait(h)
     \/ checkDeadline(h) \/ checkCancelled(h) \/ cancel(h) \/ exit(h) \/ killProcess(h)
  /\ UNCHANGED <<handlerVars, mainVars>>

\* The output of the process is copied until Wait returns.
output(h) ==
  /\ UNCHANGED <<runVars, killVars, mainVars>>
  /\ rpc[h] = "wait" /\ (W!writeStart(h) \/ W!writeEnd(h))

askToStop(h) == endContext(h) /\ UNCHANGED <<handlerVars, mainVars>>

\* The client hangs up.  What it reads does not matter here: the connection takes a
\* whole stream, and how a slow reader holds up a handler is the subject of Session.
hangUp(h) ==
  /\ UNCHANGED <<runVars, killVars, mainVars>>
  /\ W!hangUp(h)

kill(k) ==
  /\ (\E i \in Ids : lookup(k, i)) \/ killCancel(k)
  /\ UNCHANGED <<handlerVars, mainVars>>

Serving ==
  \/ \E h \in Requests :
       handle(h) \/ call(h) \/ return(h) \/ run(h) \/ output(h) \/ askToStop(h) \/ hangUp(h)
  \/ \E k \in Cancels : kill(k)

Next ==
  \/ choose \/ serveErr \/ signal \/ shutdown
  \/ \E h \in Requests : drop(h)
  \/ Up /\ Serving

Spec == Init /\ [][Next]_vars

---------------------------------------------------------------------------
(* Properties                                                              *)

\* Type invariant; the map of running jobs holds the runs between register and
\* unregister, so what Kill finds is a run of that ID.
TypeOK ==
  /\ W!TypeOK
  /\ rpc \in [Requests -> {"idle", "refused", "start", "wait", "deadline?", "cancelled?",
                           "cancel", "unregister", "done"}]
  /\ ctx \in [Requests -> {"live", "deadline", "cancelled"}]
  /\ proc \in [Requests -> {"none", "alive", "ok", "bad"}]
  /\ \A i \in Ids : \A h \in Requests :
       running[i] = h <=> IdOf[h] = i /\ Registered(h)
  /\ mpc \in {"choose", "microvm", "serve", "shutdown", "exit"}
  /\ status \in {"none", "ok", "error"} /\ late \subseteq Requests

\* A daemon that exits with status 0 leaves nothing half done, whatever was under way
\* when the signal came: no handler, no entry in the map of running jobs, no process,
\* no slot, no directory that it has not tried to remove; and every client that was
\* given a stream and is still there has its last event on the way.
CleanExit ==
  status = "ok" =>
    /\ slots = 0
    /\ running = [i \in Ids |-> NoRequest]
    /\ \A h \in Requests :
         /\ hpc[h] \in {"idle", "done"} /\ proc[h] # "alive"
         /\ h \in dir => h \in cleaned
         /\ reply[h] = "stream" /\ h \notin gone =>
              /\ stream[h] # <<>>
              /\ stream[h][Len(stream[h])] \in {"completion", "failure"}
===========================================================================
