------------------------------ MODULE Session -----------------------------
(***************************************************************************)
(* Jobs from end to end: calls of client.Run (internal/client/client.go),  *)
(* as "yonk run" makes them, composed with the worker of module Worker and *)
(* through it with the abstract executor.  The client decodes the response *)
(* stream event by event; an interrupt, a lost connection and an event it  *)
(* cannot handle make it close the connection, which the worker notices.   *)
(***************************************************************************)
EXTENDS Worker

VARIABLE
  outcome   \* outcome[h]: "none", "result", or the error client.Run returned:
            \* "remote", "closed" (stream ended early), "local"

svars == <<vars, outcome>>

SInit == Init /\ outcome = [h \in Requests |-> "none"]

Return(h, o) ==
  /\ outcome[h] = "none"
  /\ outcome' = [outcome EXCEPT ![h] = o]

errorReplyIgnored(h) ==
  /\ reply[h] = "error"
  /\ Return(h, "remote")
  /\ UNCHANGED vars

\* A response other than 200: decodeRemoteError.
errorReply(h) ==
  /\ reply[h] \in {"busy", "error"}
  /\ Return(h, "remote")
  /\ UNCHANGED vars

eventEager(h) ==
  /\ outcome[h] = "none" /\ drain(h)
  /\ LET e == stream[h][read[h] + 1]
     IN \/ e \in {"workspace_ready", "running"} /\ UNCHANGED outcome
        \/ e = "data" /\ (UNCHANGED outcome \/ Return(h, "local"))
        \/ e \in {"cleaned", "completion"} /\ Return(h, "result")
        \/ e = "failure" /\ Return(h, "remote")

\* One turn of the decoding loop: handle the event, which can fail for output and
\* artifacts, then go on or return.
event(h) ==
  /\ outcome[h] = "none" /\ drain(h)
  /\ LET e == stream[h][read[h] + 1]
     IN \/ e \in {"workspace_ready", "running", "cleaned"} /\ UNCHANGED outcome
        \/ e = "data" /\ (UNCHANGED outcome \/ Return(h, "local"))
        \/ e = "completion" /\ Return(h, "result")
        \/ e = "failure" /\ Return(h, "remote")

\* The context of the command ends (an interrupt), or the connection is lost and
\* Decode fails with EOF or another error.
interrupt(h) == hangUp(h) /\ Return(h, "local")

connectionLost(h) == hangUp(h) /\ Return(h, "closed")

\* The deferred response.Body.Close.
closeBody(h) == outcome[h] # "none" /\ hangUp(h) /\ UNCHANGED outcome

Client(h) == errorReply(h) \/ event(h)

SNext ==
  \/ Server /\ UNCHANGED outcome
  \/ \E h \in Requests : Client(h) \/ closeBody(h) \/ interrupt(h) \/ connectionLost(h)

SSpec == SInit /\ [][SNext]_svars

(***************************************************************************)
(* Fairness.  A handler that has started goes on: reading the upload is    *)
(* bounded by the server's ReadTimeout.  The executor returns, also when   *)
(* its job writes again and again, which is what Microvm's RunEnds shows.  *)
(* A Write ends once there is room.  The server has no WriteTimeout, so    *)
(* the client is assumed to go on reading, and to close the connection     *)
(* when it has returned; it need not ever leave by itself.                 *)
(***************************************************************************)
Fairness ==
  \A h \in Requests :
    /\ WF_svars(hpc[h] # "idle" /\ handleRun(h) /\ UNCHANGED outcome)
    /\ SF_svars(\E v \in Verdicts : return(h, v) /\ UNCHANGED outcome)
    /\ WF_svars(writeEnd(h) /\ UNCHANGED outcome)
    /\ WF_svars(Client(h))
    /\ WF_svars(closeBody(h))

SFairSpec == SSpec /\ Fairness

---------------------------------------------------------------------------
(* Properties                                                              *)

\* "It returns only after a completion event or a protocol/execution failure": a
\* client that returns a result has read everything the job wrote; by then the run
\* has returned without error and the job's directory has been removed.  A job the
\* worker has turned away or failed never gives its client a result, even if another
\* job with the same ID succeeds.
ResultIsFinal ==
  [][\A h \in Requests :
       outcome[h] = "none" /\ outcome'[h] = "result" =>
         /\ read'[h] = Len(stream'[h])
         /\ stream[h][Len(stream[h])] = "completion"
         /\ h \notin dir /\ h \notin writing
         /\ reply[h] = "stream" /\ phase[h] = "returned" /\ verdict[h] # "error"]_svars

\* Every call of client.Run returns: no reply, stream or early end of a stream
\* leaves the client waiting.
ClientReturns ==
  \A h \in Requests : hpc[h] # "idle" ~> outcome[h] # "none"

\* Every request that is taken in hand is finished and gives its slot back, whether
\* the job ends, is refused, or its client leaves in the middle of the stream.
HandlerEnds ==
  \A h \in Requests : hpc[h] # "idle" ~> hpc[h] = "done"
===========================================================================
