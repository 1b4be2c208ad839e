----------------------------- MODULE Executor -----------------------------
(***************************************************************************)
(* What the worker relies on from an executor (the Executor interface of   *)
(* internal/executor/executor.go): at most one run per job ID, a second    *)
(* run of the ID refused, as is a call the executor does not offer to run; *)
(* every accepted run returning once; and no claim by the executor that a  *)
(* run was cancelled or timed out unless somebody asked the run to stop.   *)
(* The claim is the executor's own: what a job says of itself is passed on *)
(* whatever it says.                                                       *)
(***************************************************************************)
CONSTANTS
  Runs,     \* calls of Run
  Runnable, \* the calls the executor offers to run
  IdOf,     \* IdOf[r]: the job ID of call r
  Verdicts, \* what a run can return
  Stopped,  \* the verdicts by which the executor says the run was told to stop
  NoVerdict \* nothing returned yet

VARIABLES
  phase,    \* phase[r]: "idle", "running", "returned", "refused"
  asked,    \* the calls told to stop: Kill, a client that left, the deadline
  verdict   \* verdict[r]: what the run has returned

vars == <<phase, asked, verdict>>

Init ==
  /\ phase = [r \in Runs |-> "idle"]
  /\ asked = {}
  /\ verdict = [r \in Runs |-> NoVerdict]

Busy(r) == \E q \in Runs : IdOf[q] = IdOf[r] /\ phase[q] = "running"

Begin(r) ==
  /\ phase[r] = "idle" /\ r \in Runnable /\ ~Busy(r)
  /\ phase' = [phase EXCEPT ![r] = "running"]
  /\ UNCHANGED <<asked, verdict>>

Refuse(r) ==
  /\ phase[r] = "idle" /\ (r \notin Runnable \/ Busy(r))
  /\ phase' = [phase EXCEPT ![r] = "refused"]
  /\ UNCHANGED <<asked, verdict>>

Ask(r) ==
  /\ phase[r] = "running"
  /\ asked' = asked \union {r}
  /\ UNCHANGED <<phase, verdict>>

End(r, v) ==
  /\ phase[r] = "running"
  /\ v \in Stopped => r \in asked
  /\ phase' = [phase EXCEPT ![r] = "returned"]
  /\ verdict' = [verdict EXCEPT ![r] = v]
  /\ UNCHANGED asked

Next ==
  \E r \in Runs :
    \/ Begin(r) \/ Refuse(r) \/ Ask(r)
    \/ \E v \in Verdicts : End(r, v)

Spec == Init /\ [][Next]_vars
===========================================================================
