---------------------------- MODULE DaemonProofs --------------------------
(***************************************************************************)
(* For any number of requests: the restricted executor implements the      *)
(* abstract executor; the daemon that serves with it implements the worker *)
(* of module Session, so that what is proved of that worker holds of it;   *)
(* and a daemon that exits with status 0 leaves nothing half done.         *)
(***************************************************************************)
EXTENDS Daemon, FiniteSetTheorems, TLAPS

\* Leaves are for Zenon unless they name another prover.
USE ZenonT(30)

Steps == {"idle", "refused", "start", "wait", "deadline?", "cancelled?", "cancel",
          "unregister", "done"}

\* The statements at which the context is not yet the run's own to end.
Watching == {"start", "wait", "deadline?", "cancelled?", "cancel"}

Results == {"finished", "cancelled", "timeout", "error"}

Types ==
  /\ rpc \in [Requests -> Steps]
  /\ running \in [Ids -> Requests \union {NoRequest}]
  /\ ctx \in [Requests -> {"live", "deadline", "cancelled"}]
  /\ res \in [Requests -> Results \union {"none"}]
  /\ asked \subseteq Requests
  /\ cpc \in [Cancels -> {"idle", "cancel", "204", "404"}]
  /\ ctarget \in [Cancels -> Requests \union {NoRequest}]

\* The map of running jobs holds every registered run under its ID, and no other.
MapIsExact ==
  \A h \in Requests : (running[IdOf[h]] = h) <=> Registered(h)

\* It files a run under its own ID.
FiledById == \A i \in Ids : running[i] # NoRequest => IdOf[running[i]] = i

\* Until a run cancels its own context, a context that has ended was ended by somebody
\* else; and a verdict that blames the context was given while that was so.
EndedByOthers ==
  \A h \in Requests :
    /\ rpc[h] \in {"idle", "refused"} => ctx[h] = "live"
    /\ rpc[h] \in Watching /\ ctx[h] # "live" => h \in asked
    /\ res[h] \in {"cancelled", "timeout"} => h \in asked
    /\ rpc[h] \in {"cancel", "unregister", "done"} => res[h] # "none"

\* A cancel func that Kill holds is that of a run that has been registered.
TargetsStarted ==
  \A k \in Cancels :
    cpc[k] = "cancel" => ctarget[k] \in Requests /\ rpc[ctarget[k]] \notin {"idle", "refused"}

IInv == Types /\ MapIsExact /\ FiledById /\ EndedByOthers /\ TargetsStarted

RNext == (\E h \in Requests : Run(h)) \/ (\E k \in Cancels : Kill(k))
rvars == <<runVars, killVars>>

\* No run is in progress when the executor is created (NewRestricted).
LEMMA InitInv == RInit => IInv
BY RestrictedAssumption, SMTT(30)
   DEF RInit, IInv, Types, MapIsExact, FiledById, EndedByOthers, TargetsStarted, Registered,
       Steps, Watching, Results

\* The statements of Run, one by one, keep the invariant; register and unregister are
\* the ones that touch the map.
LEMMA RunKeeps == ASSUME NEW h \in Requests, IInv, Run(h) PROVE IInv'
<1> USE RestrictedAssumption DEF Steps, Watching, Results, At, Registered
<1> USE DEF IInv, Types, MapIsExact, FiledById, EndedByOthers, TargetsStarted
<1>1. CASE reject(h) BY <1>1, SMTT(30) DEF reject, killVars
<1>2. CASE register(h) BY <1>2, SMTT(30) DEF register, killVars
<1>3. CASE start(h) BY <1>3, SMTT(30) DEF start, killVars
<1>4. CASE wait(h) BY <1>4, SMTT(30) DEF wait, killVars
<1>5. CASE checkDeadline(h) BY <1>5, SMTT(30) DEF checkDeadline, Result, killVars
<1>6. CASE checkCancelled(h) BY <1>6, SMTT(30) DEF checkCancelled, Result, killVars
<1>7. CASE cancel(h) BY <1>7, SMTT(30) DEF cancel, CancelFunc, killVars
<1>8. CASE unregister(h) BY <1>8, SMTT(30) DEF unregister, killVars
<1>9. CASE exit(h) BY <1>9 DEF exit, killVars
<1>10. CASE killProcess(h) BY <1>10 DEF killProcess, killVars
<1>11. CASE endContext(h) BY <1>11, SMTT(30) DEF endContext, killVars
<1> QED BY <1>1, <1>2, <1>3, <1>4, <1>5, <1>6, <1>7, <1>8, <1>9, <1>10, <1>11 DEF Run

\* Both steps of Kill keep the invariant; the second ends the context of a run that is
\* registered, or has cancelled it itself.
LEMMA KillKeeps == ASSUME NEW k \in Cancels, IInv, Kill(k) PROVE IInv'
<1> USE RestrictedAssumption DEF Steps, Watching, Results, Registered
<1> USE DEF IInv, Types, MapIsExact, FiledById, EndedByOthers, TargetsStarted
<1>1. ASSUME NEW i \in Ids, lookup(k, i) PROVE IInv'
  BY <1>1, SMTT(30) DEF lookup, runVars
<1>2. CASE killCancel(k)
  BY <1>2, SMTT(30) DEF killCancel, CancelFunc
<1> QED BY <1>1, <1>2 DEF Kill

\* The invariant holds throughout.
LEMMA Invariant == RSpec => []IInv
<1>1. IInv /\ [RNext]_rvars => IInv'
  <2> SUFFICES ASSUME IInv, [RNext]_rvars PROVE IInv' OBVIOUS
  <2>1. CASE RNext BY <2>1, RunKeeps, KillKeeps DEF RNext
  <2>2. CASE UNCHANGED rvars
    BY <2>2 DEF rvars, runVars, killVars, IInv, Types, MapIsExact, FiledById, EndedByOthers,
                TargetsStarted, Registered
  <2> QED BY <2>1, <2>2
<1> QED BY <1>1, InitInv, PTL DEF RSpec, RNext, rvars

---------------------------------------------------------------------------

\* An ID is busy for the worker exactly when the map has an entry for it.
LEMMA BusyIsFiled ==
  ASSUME IInv, NEW h \in Requests
  PROVE  Abstract!Busy(h) <=> running[IdOf[h]] # NoRequest
<1> USE RestrictedAssumption DEF IInv, Types, MapIsExact, FiledById, Registered, Steps
<1>1. ASSUME running[IdOf[h]] # NoRequest PROVE Abstract!Busy(h)
  <2> DEFINE q == running[IdOf[h]]
  <2>1. q \in Requests /\ IdOf[q] = IdOf[h] /\ running[IdOf[q]] = q
    BY <1>1, SMTT(30)
  <2>2. Phases[q] = "running" BY <2>1 DEF Phases
  <2> QED BY <2>1, <2>2 DEF Abstract!Busy
<1>2. ASSUME NEW q \in Requests, IdOf[q] = IdOf[h], Phases[q] = "running"
      PROVE  running[IdOf[h]] # NoRequest
  BY <1>2, SMTT(30) DEF Phases
<1> QED BY <1>1, <1>2 DEF Abstract!Busy

\* Statements that neither begin nor end a run, and tell no run to stop, are invisible
\* to the worker.
LEMMA Quiet ==
  ASSUME NEW h \in Requests, IInv,
         \/ start(h) \/ wait(h) \/ checkDeadline(h) \/ checkCancelled(h) \/ cancel(h)
         \/ exit(h) \/ killProcess(h)
  PROVE  UNCHANGED Abstract!vars
<1> USE DEF IInv, Types, Steps, At, Phases, Returned, Abstract!vars
<1>1. CASE start(h) BY <1>1, SMTT(30) DEF start
<1>2. CASE wait(h) BY <1>2 DEF wait
<1>3. CASE checkDeadline(h) BY <1>3, SMTT(30) DEF checkDeadline, Result
<1>4. CASE checkCancelled(h) BY <1>4 DEF checkCancelled, Result
<1>5. CASE cancel(h) BY <1>5 DEF cancel
<1>6. CASE exit(h) BY <1>6 DEF exit
<1>7. CASE killProcess(h) BY <1>7 DEF killProcess
<1> QED BY <1>1, <1>2, <1>3, <1>4, <1>5, <1>6, <1>7

\* register begins a run that the worker sees begin.
LEMMA RegisterBegins == ASSUME NEW h \in Requests, IInv, register(h) PROVE Abstract!Begin(h)
<1>1. Phases[h] = "idle" /\ Phases' = [Phases EXCEPT ![h] = "running"]
  <2>1. rpc \in [Requests -> Steps] /\ rpc[h] = "idle" /\ rpc' = [rpc EXCEPT ![h] = "start"]
    BY DEF register, At, IInv, Types
  <2>2. Phases[h] = "idle" /\ Phases'[h] = "running"
    BY <2>1 DEF Phases
  <2>3. \A q \in Requests \ {h} : rpc'[q] = rpc[q]
    BY <2>1
  <2>4. \A q \in Requests \ {h} : Phases'[q] = Phases[q]
    BY <2>3 DEF Phases
  <2>5. /\ Phases = [q \in Requests |-> Phases[q]]
        /\ Phases' = [q \in Requests |-> Phases'[q]]
    BY DEF Phases
  <2> QED BY <2>2, <2>4, <2>5
<1>2. h \in Runnable /\ ~Abstract!Busy(h)
  BY BusyIsFiled DEF register
<1>3. UNCHANGED asked /\ Returned' = Returned
  BY DEF register, At, Returned, IInv, Types, Steps
<1> QED BY <1>1, <1>2, <1>3 DEF Abstract!Begin

\* reject refuses one.
LEMMA RejectRefuses == ASSUME NEW h \in Requests, IInv, reject(h) PROVE Abstract!Refuse(h)
<1>1. Phases[h] = "idle" /\ Phases' = [Phases EXCEPT ![h] = "refused"]
  BY DEF reject, At, Phases, IInv, Types, Steps
<1>2. h \notin Runnable \/ Abstract!Busy(h)
  BY BusyIsFiled DEF reject
<1>3. UNCHANGED asked /\ Returned' = Returned
  BY DEF reject, At, Returned, IInv, Types, Steps
<1> QED BY <1>1, <1>2, <1>3 DEF Abstract!Refuse

\* unregister returns a verdict that blames the context only if somebody ended it.
LEMMA UnregisterEnds ==
  ASSUME NEW h \in Requests, IInv, unregister(h)
  PROVE  res[h] \in Results /\ Abstract!End(h, res[h])
<1>1. Phases[h] = "running" /\ Phases' = [Phases EXCEPT ![h] = "returned"]
  BY DEF unregister, At, Phases, IInv, Types, Steps
<1>2. res[h] \in Results /\ (res[h] \in {"cancelled", "timeout"} => h \in asked)
  BY DEF unregister, At, IInv, Types, EndedByOthers, Results
<1>3. UNCHANGED asked /\ Returned' = [Returned EXCEPT ![h] = res[h]]
  BY DEF unregister, At, Returned, IInv, Types, Steps
<1> QED BY <1>1, <1>2, <1>3 DEF Abstract!End

\* The end of the context is a request to stop.
LEMMA ContextAsks == ASSUME NEW h \in Requests, IInv, endContext(h) PROVE Abstract!Ask(h)
<1>1. Phases[h] = "running"
  BY DEF endContext, Registered, Phases, IInv, Types, Steps
<1>2. asked' = asked \union {h} /\ Phases' = Phases /\ Returned' = Returned
  BY DEF endContext, Phases, Returned
<1> QED BY <1>1, <1>2 DEF Abstract!Ask

\* A statement of Run is a step of the abstract executor, or invisible.
LEMMA RunRefines ==
  ASSUME NEW h \in Requests, IInv, Run(h) PROVE [Abstract!Next]_Abstract!vars
<1>1. CASE reject(h)
  BY <1>1, RejectRefuses DEF Abstract!Next
<1>2. CASE register(h)
  BY <1>2, RegisterBegins DEF Abstract!Next
<1>3. CASE unregister(h)
  BY <1>3, UnregisterEnds DEF Abstract!Next, Results
<1>4. CASE endContext(h)
  BY <1>4, ContextAsks DEF Abstract!Next
<1> QED BY <1>1, <1>2, <1>3, <1>4, Quiet DEF Run

\* The first step of Kill looks the job up, which the worker does not see.
LEMMA LookupIsQuiet ==
  ASSUME NEW k \in Cancels, NEW i \in Ids, lookup(k, i)
  PROVE  UNCHANGED Abstract!vars
BY DEF lookup, runVars, Phases, Returned, Abstract!vars

\* The second one asks the run that was found to stop, if it is still in progress.
LEMMA CancelAsks ==
  ASSUME NEW k \in Cancels, IInv, killCancel(k)
  PROVE  /\ ctarget[k] \in Requests
         /\ \/ Abstract!Ask(ctarget[k])
            \/ Phases[ctarget[k]] # "running" /\ UNCHANGED Abstract!vars
<1> DEFINE h == ctarget[k]
<1>1. h \in Requests
  BY DEF killCancel, IInv, TargetsStarted
<1>2. Phases' = Phases /\ Returned' = Returned
  BY DEF killCancel, Phases, Returned
<1>3. Phases[h] = "running" <=> Registered(h)
  BY <1>1 DEF Registered, Phases, IInv, Types, Steps
<1>4. CASE Registered(h)
  <2>1. asked' = asked \union {h}
    BY <1>4 DEF killCancel
  <2> QED BY <1>1, <1>2, <1>3, <1>4, <2>1 DEF Abstract!Ask
<1>5. CASE ~Registered(h)
  <2>1. asked' = asked
    BY <1>5 DEF killCancel
  <2> QED BY <1>1, <1>2, <1>3, <1>5, <2>1 DEF Abstract!vars
<1> QED BY <1>4, <1>5

\* For any sets of calls and IDs the restricted executor implements the executor the
\* worker relies on.  It rests on two facts: the map is exact, so an ID is refused just
\* while a run of it is in progress; and Run's own cancel() comes after its last look
\* at the context.
THEOREM RestrictedImplements == RSpec => RestrictedSpec
<1>1. RInit => Abstract!Init
  BY SMTT(30) DEF RInit, Abstract!Init, Phases, Returned
<1>2. IInv /\ [RNext]_rvars => [Abstract!Next]_Abstract!vars
  <2> SUFFICES ASSUME IInv, [RNext]_rvars PROVE [Abstract!Next]_Abstract!vars OBVIOUS
  <2>1. CASE RNext
    BY <2>1, RunRefines, LookupIsQuiet, CancelAsks DEF RNext, Kill, Abstract!Next
  <2>2. CASE UNCHANGED rvars
    BY <2>2 DEF rvars, runVars, killVars, Phases, Returned, Abstract!vars
  <2> QED BY <2>1, <2>2
<1> QED BY <1>1, <1>2, Invariant, PTL DEF RSpec, RNext, rvars, RestrictedSpec, Abstract!Spec

---------------------------------------------------------------------------
(* The daemon.                                                             *)

\* A client that has hung up has returned an error; one that has not is still reading.
Outcome == [h \in Requests |-> IF h \in gone THEN "local" ELSE "none"]

\* The worker of Session, with the restricted executor where Session has the abstract
\* one, and what is proved of it.
S == INSTANCE SessionProofs WITH phase <- Phases, verdict <- Returned, outcome <- Outcome

SessionSpec == S!SSpec

\* The modules count alike.
LEMMA SameCount ==
  ASSUME NEW T
  PROVE  /\ S!Cardinality(T) = Cardinality(T) /\ W!Cardinality(T) = Cardinality(T)
         /\ S!IsFiniteSet(T) <=> IsFiniteSet(T)
<1>1. S!Cardinality(T) = Cardinality(T)
  BY DEF S!Cardinality, Cardinality
<1>2. W!Cardinality(T) = Cardinality(T)
  BY DEF W!Cardinality, Cardinality
<1>3. S!IsFiniteSet(T) <=> IsFiniteSet(T)
  BY DEF S!IsFiniteSet, IsFiniteSet
<1> QED BY <1>1, <1>2, <1>3

\* Output is copied while Run waits for the process; a Kill starts without a target.
Coupled ==
  /\ writing \subseteq Requests /\ \A h \in writing : rpc[h] = "wait"
  /\ \A k \in Cancels : cpc[k] = "idle" => ctarget[k] = NoRequest

\* Processes exist while Run waits for them.
Processes ==
  /\ proc \in [Requests -> {"none", "alive", "ok", "bad"}]
  /\ \A h \in Requests : proc[h] = "alive" => rpc[h] = "wait"

\* yonkd exits with status 0 from Shutdown alone, when all is quiet; then nothing moves.
MainOk ==
  /\ mpc \in {"choose", "microvm", "serve", "shutdown", "exit"}
  /\ status \in {"none", "ok", "error"} /\ late \subseteq Requests
  /\ status = "ok" => mpc = "exit" /\ \A h \in Requests : hpc[h] \in {"idle", "done"}

DInv == IInv /\ Coupled /\ Processes /\ MainOk

\* A step of the daemon is one of the executor, or leaves it alone.
LEMMA ExecutorSteps == [Next]_vars => [RNext]_rvars
<1> USE DEF rvars, RNext, Run, Kill
<1>1. ASSUME NEW h \in Requests, handle(h) \/ output(h) \/ hangUp(h) \/ drop(h) PROVE UNCHANGED rvars
  BY <1>1 DEF handle, output, hangUp, drop
<1>2. ASSUME NEW h \in Requests, call(h) \/ return(h) \/ run(h) \/ askToStop(h) PROVE RNext
  BY <1>2 DEF call, return, run, askToStop
<1>3. ASSUME NEW k \in Cancels, kill(k) PROVE RNext
  BY <1>3 DEF kill
<1>4. CASE choose \/ serveErr \/ signal \/ shutdown
  BY <1>4 DEF choose, serveErr, signal, shutdown
<1> HIDE DEF rvars, RNext
<1> QED BY <1>1, <1>2, <1>3, <1>4 DEF Next, Serving, vars, rvars

\* The daemon runs the restricted executor and nothing but it.
THEOREM DaemonRunsRestricted == Spec => RSpec
BY ExecutorSteps, PTL DEF Spec, Init, RSpec, RNext, rvars

\* The handlers' statements do not touch what Coupled and Processes speak of.
LEMMA HandleIsQuiet ==
  ASSUME NEW h \in Requests, handle(h)
  PROVE  UNCHANGED <<rpc, proc, writing, cpc, ctarget, gone, mpc, status>> /\ late' = late \ {h}
<1>1. UNCHANGED <<rpc, proc, cpc, ctarget, mpc, status>> /\ late' = late \ {h}
  BY DEF handle, runVars, killVars
<1>2. UNCHANGED <<writing, gone>>
  BY DEF handle, W!acquire, W!turnAway, W!parse, W!MkdirTemp, W!extract, W!emitReady,
     W!emitRunning, W!cleanup, W!emitCleaned, W!emitFailure, W!emitCompletion,
     W!deferredCleanup, W!release, W!emit, W!clientVars
<1> QED BY <1>1, <1>2

\* Every step keeps what is known of processes, output and cancel requests.
LEMMA CoupledKept ==
  ASSUME IInv, Coupled, Processes, [Next]_vars
  PROVE  Coupled' /\ Processes'
<1> USE DEF Coupled, Processes
<1>1. ASSUME NEW h \in Requests, handle(h) PROVE Coupled' /\ Processes'
  BY <1>1, HandleIsQuiet
<1>2. ASSUME NEW h \in Requests, call(h) PROVE Coupled' /\ Processes'
  BY SMTT(30), <1>2 DEF call, register, reject, At, W!GotoRun, IInv, Types, Steps, killVars
<1>3. ASSUME NEW h \in Requests, return(h) PROVE Coupled' /\ Processes'
  BY <1>3 DEF return, unregister, At, W!GotoRun, IInv, Types, Steps, killVars
<1>4. ASSUME NEW h \in Requests, run(h) PROVE Coupled' /\ Processes'
  <2>1. UNCHANGED <<cpc, ctarget, writing>>
    BY <1>4 DEF run, start, wait, checkDeadline, checkCancelled, cancel, exit, killProcess,
       handlerVars, killVars
  <2>2. CASE start(h)
    BY <2>1, <2>2, SMTT(30) DEF start, At, IInv, Types, Steps
  <2>3. CASE h \notin writing /\ wait(h)
    BY <2>1, <2>3 DEF wait, At, IInv, Types, Steps
  <2>4. CASE checkDeadline(h) \/ checkCancelled(h) \/ cancel(h)
    BY SMTT(30), <2>1, <2>4 DEF checkDeadline, checkCancelled, cancel, At, IInv, Types, Steps
  <2>5. CASE exit(h) \/ killProcess(h)
    BY <2>1, <2>5 DEF exit, killProcess
  <2> QED BY <1>4, <2>2, <2>3, <2>4, <2>5 DEF run
<1>5. ASSUME NEW h \in Requests, output(h) PROVE Coupled' /\ Processes'
  BY <1>5 DEF output, W!writeStart, W!writeEnd, runVars, killVars
<1>6. ASSUME NEW h \in Requests, askToStop(h) PROVE Coupled' /\ Processes'
  BY <1>6 DEF askToStop, endContext, handlerVars, killVars
<1>7. ASSUME NEW h \in Requests, hangUp(h) \/ drop(h) PROVE Coupled' /\ Processes'
  BY <1>7 DEF hangUp, W!hangUp, drop, runVars, killVars, handlerVars
<1>8. ASSUME NEW k \in Cancels, kill(k) PROVE Coupled' /\ Processes'
  BY SMTT(30), <1>8 DEF kill, lookup, killCancel, runVars, handlerVars, IInv, Types
<1>9. CASE choose \/ serveErr \/ signal \/ shutdown \/ UNCHANGED vars
  BY <1>9 DEF choose, serveErr, signal, shutdown, vars, runVars, killVars, handlerVars
<1> HIDE DEF Coupled, Processes
<1> QED BY <1>1, <1>2, <1>3, <1>4, <1>5, <1>6, <1>7, <1>8, <1>9 DEF Next, Serving

\* The statements of yonkd's run.
LEMMA MainKept ==
  ASSUME MainOk, [Next]_vars
  PROVE  MainOk'
<1> USE DEF MainOk
<1>1. CASE Up /\ Serving
  <2>1. status' = status /\ mpc' = mpc /\ late' \subseteq late /\ status # "ok"
    <3>1. \A h \in Requests : handle(h) => status' = status /\ mpc' = mpc /\ late' \subseteq late
      BY HandleIsQuiet
    <3> QED BY <1>1, <3>1 DEF Up, Serving, call, return, run, output, askToStop, hangUp, kill,
               mainVars
  <2> QED BY <2>1
<1>2. ASSUME NEW h \in Requests, drop(h) PROVE MainOk'
  BY <1>2 DEF drop
<1>3. CASE shutdown
  BY <1>3 DEF shutdown, Exit, Quiescent, handlerVars
<1>4. CASE choose \/ serveErr \/ signal
  BY <1>4 DEF choose, serveErr, signal, Exit, handlerVars
<1>5. CASE UNCHANGED vars
  BY <1>5 DEF vars, handlerVars, mainVars
<1> QED BY <1>1, <1>2, <1>3, <1>4, <1>5 DEF Next

\* The daemon's invariant.
LEMMA DInvariant == Spec => []DInv
<1>1. Init => Coupled /\ Processes /\ MainOk
  BY SMTT(30) DEF Init, RInit, Coupled, Processes, MainOk
<1>2. IInv /\ Coupled /\ Processes /\ MainOk /\ [Next]_vars => (Coupled /\ Processes /\ MainOk)'
  BY CoupledKept, MainKept
<1> QED BY <1>1, <1>2, DaemonRunsRestricted, Invariant, PTL DEF Spec, DInv

---------------------------------------------------------------------------
(* The daemon implements the worker of Session.                            *)

\* A statement of a handler outside the executor is the same statement there.
LEMMA HandleRefines ==
  ASSUME NEW h \in Requests, handle(h)
  PROVE  S!handleRun(h) /\ Outcome' = Outcome
<1> USE DEF S!Goto, S!Reply, S!emit, S!Written, S!Failed, S!execVars, S!clientVars, S!cancelVars,
            W!Goto, W!Reply, W!emit, W!Written, W!Failed, W!execVars, W!clientVars, W!cancelVars
<1>1. Outcome' = Outcome
  BY HandleIsQuiet DEF Outcome
<1>2. CASE W!acquire(h) \/ W!turnAway(h) \/ W!parse(h) \/ W!MkdirTemp(h) \/ W!extract(h)
  BY <1>1, <1>2 DEF W!acquire, W!turnAway, W!parse, W!MkdirTemp, W!extract,
     S!acquire, S!turnAway, S!parse, S!MkdirTemp, S!extract, S!handleRun
<1>3. CASE W!emitReady(h) \/ W!emitRunning(h) \/ W!emitFailure(h) \/ W!emitCompletion(h)
  BY <1>1, <1>3 DEF W!emitReady, W!emitRunning, W!emitFailure, W!emitCompletion,
     S!emitReady, S!emitRunning, S!emitFailure, S!emitCompletion, S!handleRun
<1>4. CASE W!emitCleaned(h)
  BY <1>1, <1>4 DEF W!emitCleaned, S!emitCleaned, W!executionErr, S!executionErr, S!handleRun
<1>5. CASE W!cleanup(h) \/ W!deferredCleanup(h) \/ W!release(h)
  BY <1>1, <1>5 DEF W!cleanup, W!deferredCleanup, W!release,
     S!cleanup, S!deferredCleanup, S!release, S!handleRun
<1> QED BY <1>2, <1>3, <1>4, <1>5 DEF handle

\* The call of Run and its return are those of the abstract executor.
LEMMA CallRefines ==
  ASSUME NEW h \in Requests, IInv, Coupled, call(h) \/ return(h)
  PROVE  S!handleRun(h) /\ Outcome' = Outcome
<1> USE DEF W!Goto, W!GotoRun, W!clientVars, W!cancelVars, S!Goto, S!GotoRun, S!clientVars, S!cancelVars
<1>1. Outcome' = Outcome
  BY DEF call, return, Outcome
<1>2. CASE call(h)
  <2>1. CASE register(h) /\ W!GotoRun(h, "run", "wait")
    <3>1. S!GotoRun(h, "run", "wait")
      BY <2>1
    <3>2. S!Exec!Begin(h)
      BY <2>1, RegisterBegins DEF Abstract!Begin, Abstract!Busy, S!Exec!Begin, S!Exec!Busy
    <3> QED BY <1>1, <3>1, <3>2 DEF S!handleRun, S!runExecutor
  <2>2. CASE reject(h) /\ W!GotoRun(h, "run", "cleanup")
    <3>1. S!GotoRun(h, "run", "cleanup")
      BY <2>2
    <3>2. S!Exec!Refuse(h)
      BY <2>2, RejectRefuses DEF Abstract!Refuse, Abstract!Busy, S!Exec!Refuse, S!Exec!Busy
    <3> QED BY <1>1, <3>1, <3>2 DEF S!handleRun, S!runExecutor
  <2> QED BY <1>2, <2>1, <2>2 DEF call
<1>3. CASE return(h)
  <2>1. h \notin writing
    BY <1>3 DEF return, unregister, At, Coupled
  <2>2. S!GotoRun(h, "wait", "cleanup")
    BY <1>3 DEF return
  <2>3. res[h] \in S!Verdicts /\ S!Exec!End(h, res[h])
    BY <1>3, UnregisterEnds DEF return, Abstract!End, S!Exec!End, S!Verdicts, S!Stopped, Results
  <2> QED BY <1>1, <2>1, <2>2, <2>3 DEF S!handleRun, S!return
<1> QED BY <1>2, <1>3

\* So is what goes on beside a handler.
LEMMA BesideRefines ==
  ASSUME NEW h \in Requests, IInv, output(h) \/ askToStop(h) \/ hangUp(h) \/ run(h)
  PROVE  [S!SNext]_S!svars
<1> USE DEF S!execVars, S!clientVars, S!cancelVars, W!execVars, W!clientVars, W!cancelVars
<1>1. CASE output(h)
  <2>1. W!writeStart(h) \/ W!writeEnd(h)
    BY <1>1 DEF output
  <2>2. S!writeStart(h) \/ S!writeEnd(h)
    <3>1. W!writeStart(h) => S!writeStart(h)
      BY SameCount DEF W!writeStart, S!writeStart
    <3>2. W!writeEnd(h) => S!writeEnd(h)
      BY DEF W!writeEnd, W!Written, W!Failed, S!writeEnd, S!Written, S!Failed
    <3> QED BY <2>1, <3>1, <3>2
  <2>3. Outcome' = Outcome
    BY <2>1 DEF W!writeStart, W!writeEnd, Outcome
  <2> QED BY <2>2, <2>3 DEF S!SNext, S!Server
<1>2. CASE askToStop(h)
  <2>1. S!Exec!Ask(h)
    BY <1>2, ContextAsks DEF askToStop, Abstract!Ask, S!Exec!Ask
  <2>2. S!askToStop(h) /\ Outcome' = Outcome
    BY <1>2, <2>1 DEF askToStop, endContext, handlerVars, killVars, S!askToStop, Outcome
  <2> QED BY <2>2 DEF S!SNext, S!Server
<1>3. CASE hangUp(h)
  <2>1. W!hangUp(h)
    BY <1>3 DEF hangUp
  <2>2. S!hangUp(h)
    BY <2>1 DEF W!hangUp, S!hangUp
  <2>3. S!Return(h, "local")
    BY <2>1 DEF W!hangUp, S!Return, Outcome
  <2> QED BY <2>2, <2>3 DEF S!SNext, S!interrupt
<1>4. CASE run(h)
  <2>1. UNCHANGED Abstract!vars
    BY <1>4, Quiet DEF run
  <2>2. UNCHANGED killVars
    BY <1>4 DEF run, start, wait, checkDeadline, checkCancelled, cancel, exit, killProcess
  <2> QED BY <1>4, <2>1, <2>2 DEF run, handlerVars, killVars, Abstract!vars, S!svars, S!vars, Outcome
<1> QED BY <1>1, <1>2, <1>3, <1>4

\* Kill finds the run of the ID, if there is one, and asks it to stop.
LEMMA KillRefines ==
  ASSUME NEW k \in Cancels, IInv, Coupled, kill(k)
  PROVE  S!SNext
<1> USE DEF S!execVars, S!clientVars
<1>1. Outcome' = Outcome /\ UNCHANGED handlerVars
  BY DEF kill, handlerVars, Outcome
<1> SUFFICES S!handleJobAction(k)
  BY <1>1 DEF S!SNext, S!Server
<1>2. ASSUME NEW i \in Ids, lookup(k, i) PROVE S!handleJobAction(k)
  <2>1. UNCHANGED Abstract!vars
    BY <1>2, LookupIsQuiet
  <2>2. CASE running[i] = NoRequest
    <3>1. ctarget' = ctarget /\ cpc' = [cpc EXCEPT ![k] = "404"]
      BY <1>2, <2>2 DEF lookup, Coupled, IInv, Types
    <3>2. \A h \in Requests : IdOf[h] = i => Phases[h] # "running"
      BY <2>2, RestrictedAssumption, SMTT(30) DEF IInv, MapIsExact, Types, Steps, Registered, Phases
    <3>3. S!killLookup(k, i)
      BY <1>1, <1>2, <2>1, <3>1, <3>2 DEF S!killLookup, lookup, handlerVars, Abstract!vars
    <3> QED BY <3>3 DEF S!handleJobAction
  <2>3. CASE running[i] # NoRequest
    <3> DEFINE h == running[i]
    <3>1. h \in Requests /\ IdOf[h] = i
      BY <2>3 DEF IInv, Types, FiledById
    <3>2. Phases[h] = "running"
      BY <3>1 DEF IInv, MapIsExact, Types, Steps, Registered, Phases
    <3>3. ctarget' = [ctarget EXCEPT ![k] = h] /\ cpc' = [cpc EXCEPT ![k] = "cancel"]
      BY <1>2, <2>3 DEF lookup
    <3> HIDE DEF h
    <3>4. S!killLookup(k, i)
      BY <1>1, <1>2, <2>1, <3>1, <3>2, <3>3 DEF S!killLookup, lookup, handlerVars, Abstract!vars
    <3> QED BY <3>4 DEF S!handleJobAction
  <2> QED BY <2>2, <2>3
<1>3. CASE killCancel(k)
  <2>1. \/ S!Exec!Ask(ctarget[k])
        \/ Phases[ctarget[k]] # "running" /\ UNCHANGED <<Phases, asked, Returned>>
    BY <1>3, CancelAsks DEF Abstract!Ask, Abstract!vars, S!Exec!Ask
  <2>2. S!killCancel(k)
    BY <1>1, <1>3, <2>1 DEF killCancel, S!killCancel, handlerVars
  <2> QED BY <2>2 DEF S!handleJobAction
<1> QED BY <1>2, <1>3 DEF kill

\* The daemon with the restricted executor implements the worker and clients of Session:
\* the handlers see an executor that runs one job per ID at a time and returns after its
\* last write, and Kill finds the job that it is asked for.
THEOREM DaemonImplements == Spec => SessionSpec
<1>1. Init => S!SInit
  BY SMTT(30) DEF Init, RInit, S!SInit, S!Init, S!Exec!Init, S!NoVerdict, Phases, Returned, Outcome
<1>2. DInv /\ [Next]_vars => [S!SNext]_S!svars
  <2> SUFFICES ASSUME IInv, Coupled, [Next]_vars PROVE [S!SNext]_S!svars
    BY DEF DInv
  <2>1. ASSUME NEW h \in Requests, S!handleRun(h), Outcome' = Outcome PROVE S!SNext
    BY <2>1 DEF S!SNext, S!Server
  <2>2. CASE Up /\ Serving
    BY <2>1, <2>2, HandleRefines, CallRefines, BesideRefines, KillRefines DEF Serving
  <2>3. CASE \/ choose \/ serveErr \/ signal \/ shutdown \/ UNCHANGED vars
             \/ \E h \in Requests : drop(h)
    <3>1. UNCHANGED <<runVars, killVars, handlerVars>>
      BY <2>3 DEF choose, serveErr, signal, shutdown, drop, vars
    <3> QED BY <3>1 DEF runVars, killVars, handlerVars, S!svars, S!vars, S!execVars, S!clientVars,
               S!cancelVars, Phases, Returned, Outcome
  <2> QED BY <2>2, <2>3 DEF Next
<1> QED BY <1>1, <1>2, DInvariant, PTL DEF Spec, SessionSpec, S!SSpec

---------------------------------------------------------------------------
(* What the daemon inherits from that worker, and its exit.                *)

\* What Worker assumes of its constants holds of the daemon's.
LEMMA WorkerAssumptions ==
  /\ S!IsFiniteSet(Requests) /\ NoRequest \notin Requests /\ Runnable \subseteq Requests
  /\ IdOf \in [Requests -> Ids]
  /\ MaxConcurrent \in Nat \ {0}
  /\ Window \in Nat \ {0} /\ MaxData \in Nat
BY RestrictedAssumption, DaemonAssumption, SameCount

\* The invariants of the worker hold of the daemon.
LEMMA Inherited == Spec => [](S!IInv /\ S!StreamInv)
<1>1. S!SSpec => [](S!IInv /\ S!StreamInv)
  BY S!StreamInvariant, WorkerAssumptions
<1> QED BY <1>1, DaemonImplements, PTL DEF SessionSpec

\* A daemon with the restricted executor keeps its slots accounted for, removes a job's
\* directory before it reports completion, and writes its streams in order.
THEOREM DaemonServes ==
  Spec => [](S!SlotsAccounted /\ S!CleanBeforeCompletion /\ S!StreamInOrder)
<1>1. S!SSpec => []S!SlotsAccounted
  BY S!SlotsAreAccounted, WorkerAssumptions
<1>2. S!SSpec => []S!CleanBeforeCompletion
  BY S!CleanedFirst, WorkerAssumptions
<1>3. S!SSpec => []S!StreamInOrder
  BY S!StreamsInOrder, WorkerAssumptions
<1> QED BY <1>1, <1>2, <1>3, DaemonImplements, PTL DEF SessionSpec

\* The restricted executor inside the daemon implements the abstract executor.
THEOREM DaemonExecutor == Spec => RestrictedSpec
BY DaemonRunsRestricted, RestrictedImplements, PTL

\* The daemon's state has its types, and the map of running jobs holds exactly the runs
\* between register and unregister, each under its ID.
THEOREM TypesHold == Spec => []TypeOK
<1>1. DInv /\ S!StreamInv => TypeOK
  <2> SUFFICES ASSUME DInv, S!StreamInv PROVE TypeOK
    OBVIOUS
  <2>1. W!TypeOK
    BY DEF S!StreamInv, S!Typed, S!TypeOK, W!TypeOK, S!Holding, W!Holding, S!Events, W!Events,
       S!Verdicts, W!Verdicts
  <2>2. \A i \in Ids : \A h \in Requests : running[i] = h <=> IdOf[h] = i /\ Registered(h)
    BY RestrictedAssumption DEF DInv, IInv, MapIsExact, FiledById
  <2> QED BY <2>1, <2>2 DEF TypeOK, DInv, IInv, Types, Steps, Processes, MainOk
<1> QED BY <1>1, DInvariant, Inherited, PTL

\* When yonkd exits with status 0, no handler is at work, no slot is taken, no process is
\* left, the map of running jobs is empty, every directory has been removed or its removal
\* has failed, and the stream of every client that is still there has its last event,
\* however many requests were under way when the signal came.
THEOREM ExitsAreClean == Spec => []CleanExit
<1>1. DInv /\ S!IInv /\ S!StreamInv => CleanExit
  <2> SUFFICES ASSUME DInv, S!IInv, S!StreamInv, status = "ok"
               PROVE  /\ slots = 0
                      /\ running = [i \in Ids |-> NoRequest]
                      /\ \A h \in Requests :
                           /\ hpc[h] \in {"idle", "done"} /\ proc[h] # "alive"
                           /\ h \in dir => h \in cleaned
                           /\ reply[h] = "stream" /\ h \notin gone =>
                                /\ stream[h] # <<>>
                                /\ stream[h][Len(stream[h])] \in {"completion", "failure"}
    BY DEF CleanExit
  <2>1. \A h \in Requests : hpc[h] \in {"idle", "done"}
    BY DEF DInv, MainOk
  <2>2. slots = 0
    <3>1. S!Holders = {}
      BY <2>1 DEF S!Holders, S!Holding
    <3>2. S!Cardinality({}) = 0
      BY SameCount, FS_EmptySet
    <3> QED BY <3>1, <3>2 DEF S!IInv, S!SlotsMatch
  <2>3. \A h \in Requests : ~Registered(h)
    <3>1. \A h \in Requests : Phases[h] # "running"
      BY <2>1 DEF S!IInv, S!PhaseMatches
    <3> QED BY <3>1 DEF DInv, IInv, Types, Steps, Registered, Phases
  <2>4. running = [i \in Ids |-> NoRequest]
    <3>1. \A i \in Ids : running[i] = NoRequest
      BY <2>3, SMTT(30) DEF DInv, IInv, Types, MapIsExact, FiledById
    <3> QED BY <3>1 DEF DInv, IInv, Types
  <2>5. ASSUME NEW h \in Requests
        PROVE  /\ proc[h] # "alive"
               /\ h \in dir => h \in cleaned
    BY <2>1, <2>3 DEF DInv, Processes, Registered, S!IInv, S!DirMatches
  <2>6. ASSUME NEW h \in Requests, reply[h] = "stream", h \notin gone
        PROVE  stream[h] # <<>> /\ stream[h][Len(stream[h])] \in {"completion", "failure"}
    <3>1. S!Shape(h) /\ S!Answered(h)
      BY DEF S!StreamInv, S!Good
    <3>2. hpc[h] = "done" /\ stream[h] # <<>>
      BY <2>1, <2>6, <3>1 DEF S!Answered, S!Streaming
    <3>3. S!Broken(stream[h]) \/ S!Completed(stream[h])
      BY <2>6, <3>1, <3>2 DEF S!Shape
    <3> QED BY <3>2, <3>3 DEF S!Broken, S!Completed
  <2> QED BY <2>1, <2>2, <2>4, <2>5, <2>6
<1> QED BY <1>1, DInvariant, Inherited, PTL
===========================================================================
