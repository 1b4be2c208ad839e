--------------------------- MODULE SessionProofs --------------------------
(***************************************************************************)
(* For any number of requests, clients and cancel requests: the worker's   *)
(* slots are accounted for, and a job's directory is gone before the       *)
(* stream says so; the stream is in order and its completion is final.     *)
(***************************************************************************)
EXTENDS Session, FiniteSetTheorems, TLAPS

\* Leaves are for Zenon unless they name another prover.
USE ZenonT(30)

Pre  == {"idle", "parse", "mkdir", "extract", "ready", "running", "run"}
Post == {"cleanup", "cleaned", "completion", "failure"}

\* The types the argument needs.
Types ==
  /\ hpc \in [Requests -> Holding \union {"idle", "done"}]
  /\ phase \in [Requests -> {"idle", "running", "returned", "refused"}]
  /\ stream \in [Requests -> Seq(Events)]
  /\ dir \subseteq Requests /\ cleaned \subseteq Requests

\* The handlers that have taken a slot and not given it back.
Holders == {h \in Requests : hpc[h] \in Holding}

SlotsMatch == slots = Cardinality(Holders) /\ slots <= MaxConcurrent

\* The executor is running a request exactly while the handler waits for it.
PhaseMatches ==
  \A h \in Requests :
    /\ hpc[h] \in Pre => phase[h] = "idle"
    /\ hpc[h] = "wait" <=> phase[h] = "running"
    /\ hpc[h] \in Post => phase[h] \in {"returned", "refused"}

\* Where the directory is, and whether the cleanup closure has run.
DirMatches ==
  \A h \in Requests :
    /\ hpc[h] \in {"idle", "parse", "mkdir"} => h \notin dir
    /\ hpc[h] \in Pre \union {"wait", "cleanup"} => h \notin cleaned
    /\ hpc[h] = "wait" => h \in dir
    /\ hpc[h] \in {"extract", "ready", "running", "run"} => h \in dir
    /\ hpc[h] \in {"cleaned", "completion"} => h \notin dir
    /\ hpc[h] \in {"release", "done"} /\ h \in dir => h \in cleaned

\* The stream of h says that the job is cleaned, or complete.
Said(h) == \E i \in 1 .. Len(stream[h]) : stream[h][i] \in {"cleaned", "completion"}

SaidIsTrue ==
  \A h \in Requests :
    Said(h) => /\ hpc[h] \in {"completion", "failure", "defer", "release", "done"}
               /\ h \notin dir /\ phase[h] \in {"returned", "refused"}

\* The inductive invariant.
IInv == Types /\ SlotsMatch /\ PhaseMatches /\ DirMatches /\ SaidIsTrue

---------------------------------------------------------------------------

\* A server that has just been created.
LEMMA InitInv == SInit => IInv
<1> SUFFICES ASSUME SInit PROVE IInv
  OBVIOUS
<1> USE DEF SInit, Init, Exec!Init, NoVerdict
<1>1. Types
  BY SMTT(30) DEF Types, Events
<1>2. SlotsMatch
  <2>1. Holders = {}
    BY DEF Holders, Holding
  <2> QED BY <2>1, FS_EmptySet, MaxConcurrentAssumption, SMTT(30) DEF SlotsMatch
<1>3. PhaseMatches /\ DirMatches
  BY DEF PhaseMatches, DirMatches, Pre, Post
<1>4. SaidIsTrue
  BY SMTT(30) DEF SaidIsTrue, Said
<1> QED BY <1>1, <1>2, <1>3, <1>4 DEF IInv

\* The number of holders is finite.
LEMMA HoldersFinite == IsFiniteSet(Holders) /\ Cardinality(Holders) \in Nat
BY RequestsAssumption, FS_Subset, FS_CardinalityType DEF Holders

\* A statement between acquire and release leaves the holders as they are.
LEMMA SlotsKept ==
  ASSUME IInv, NEW h \in Requests, NEW from, NEW to, Goto(h, from, to), slots' = slots,
         from \in Holding <=> to \in Holding
  PROVE  SlotsMatch'
<1>1. Holders' = Holders
  BY DEF IInv, Types, Goto, Holders
<1> QED BY <1>1 DEF IInv, SlotsMatch

\* A Write adds one event at most: the stream then says that the job is cleaned or
\* complete only if it did before, or if this is the event.
LEMMA WrittenSays ==
  ASSUME Types, NEW h \in Requests, NEW e \in Events, Written(h, e) \/ Failed(h)
  PROVE  /\ stream' \in [Requests -> Seq(Events)]
         /\ \A q \in Requests : Said(q)' => Said(q) \/ (q = h /\ e \in {"cleaned", "completion"})
<1>1. CASE UNCHANGED stream
  BY <1>1 DEF Types, Said
<1>2. CASE stream' = [stream EXCEPT ![h] = Append(@, e)]
  <2>1. stream[h] \in Seq(Events)
    BY DEF Types
  <2>2. stream' \in [Requests -> Seq(Events)]
    BY <1>2, <2>1, SMTT(30) DEF Types
  <2>3. ASSUME NEW q \in Requests, Said(q)'
        PROVE  Said(q) \/ (q = h /\ e \in {"cleaned", "completion"})
    <3>1. CASE q # h
      BY <1>2, <2>3, <3>1 DEF Types, Said
    <3>2. CASE q = h
      <4>1. stream'[h] = Append(stream[h], e)
        BY <1>2 DEF Types
      <4>2. PICK i \in 1 .. Len(stream'[h]) : stream'[h][i] \in {"cleaned", "completion"}
        BY <2>3, <3>2 DEF Said
      <4>3. i \in 1 .. Len(stream[h]) + 1
        BY <4>1, <4>2, <2>1, SMTT(30)
      <4>4. CASE i = Len(stream[h]) + 1
        BY <4>1, <4>2, <4>4, <3>2, <2>1, SMTT(30)
      <4>5. CASE i \in 1 .. Len(stream[h])
        <5>1. stream'[h][i] = stream[h][i]
          BY <4>1, <4>5, <2>1, SMTT(30)
        <5> QED BY <4>2, <4>5, <5>1, <3>2 DEF Said
      <4> QED BY <4>3, <4>4, <4>5, <2>1, SMTT(30)
    <3> QED BY <3>1, <3>2
  <2> QED BY <2>2, <2>3
<1> QED BY <1>1, <1>2 DEF Written, Failed

\* emit, for each of its five events.
LEMMA EmitKeeps ==
  ASSUME IInv, NEW h \in Requests, NEW e, NEW from, NEW to, emit(h, e, from, to),
         \/ e = "workspace_ready" /\ from = "ready" /\ to = "running"
         \/ e = "running" /\ from = "running" /\ to = "run"
         \/ e = "cleaned" /\ from = "cleaned" /\ to \in {"failure", "completion"}
         \/ e = "failure" /\ from = "failure" /\ to = "defer"
         \/ e = "completion" /\ from = "completion" /\ to = "defer"
  PROVE  IInv'
<1>1. PICK t \in {to, "defer"} : Goto(h, from, t)
  BY DEF emit
<1>2. /\ UNCHANGED <<slots, dir, cleaned, phase>>
      /\ Written(h, e) \/ Failed(h)
  BY DEF emit, execVars
<1>3. e \in Events /\ from \in Holding /\ t \in Holding
  BY <1>1 DEF Events, Holding
<1>4. SlotsMatch'
  BY <1>1, <1>2, <1>3, SlotsKept
<1>5. /\ stream' \in [Requests -> Seq(Events)]
      /\ \A q \in Requests : Said(q)' => Said(q) \/ (q = h /\ e \in {"cleaned", "completion"})
  BY <1>2, <1>3, WrittenSays DEF IInv
<1>6. Types'
  BY <1>1, <1>2, <1>3, <1>5 DEF IInv, Types, Goto
<1>7. PhaseMatches' /\ DirMatches'
  BY <1>1, <1>2 DEF IInv, Types, Goto, PhaseMatches, DirMatches, Pre, Post
<1>8. SaidIsTrue'
  BY <1>1, <1>2, <1>5 DEF IInv, Types, Goto, PhaseMatches, DirMatches, SaidIsTrue, Pre, Post
<1> QED BY <1>4, <1>6, <1>7, <1>8 DEF IInv

\* The statements of handleRun.  acquire and release are the ones that change the
\* holders; emit is the subject of the lemma above.
LEMMA HandlerKeeps ==
  ASSUME IInv, NEW h \in Requests, handleRun(h)
  PROVE  IInv'
<1> Types /\ SlotsMatch /\ PhaseMatches /\ DirMatches /\ SaidIsTrue
  BY DEF IInv
<1> USE DEF Types, Goto, PhaseMatches, DirMatches, SaidIsTrue, Pre, Post, Holding, execVars
<1>1. CASE acquire(h)
  <2>1. Holders' = Holders \union {h} /\ h \notin Holders
    BY <1>1 DEF acquire, Holders
  <2>2. slots < MaxConcurrent /\ slots' = slots + 1
    BY <1>1 DEF acquire
  <2>3. SlotsMatch'
    <3> HIDE DEF Types, Goto, PhaseMatches, DirMatches, SaidIsTrue, Holding
    <3>1. Cardinality(Holders') = Cardinality(Holders) + 1
      BY <2>1, HoldersFinite, FS_AddElement
    <3> QED BY <2>2, <3>1, HoldersFinite, MaxConcurrentAssumption, SMTT(30) DEF SlotsMatch
  <2>4. Types' /\ PhaseMatches' /\ DirMatches' /\ SaidIsTrue'
    BY <1>1 DEF acquire, Said
  <2> QED BY <2>3, <2>4 DEF IInv
<1>2. CASE turnAway(h)
  <2>1. SlotsMatch'
    BY <1>2, SlotsKept DEF turnAway
  <2>2. Types'
    BY <1>2 DEF turnAway
  <2>3. PhaseMatches'
    BY <1>2 DEF turnAway
  <2>4. DirMatches'
    BY <1>2 DEF turnAway
  <2>5. SaidIsTrue'
    BY <1>2 DEF turnAway, Said
  <2> QED BY <2>1, <2>2, <2>3, <2>4, <2>5 DEF IInv
<1>3. CASE parse(h)
  <2>1. SlotsMatch'
    BY <1>3, SlotsKept DEF parse
  <2>2. Types'
    BY <1>3 DEF parse
  <2>3. PhaseMatches'
    BY <1>3, SMTT(30) DEF parse
  <2>4. DirMatches'
    BY <1>3, SMTT(30) DEF parse
  <2>5. SaidIsTrue'
    BY <1>3 DEF parse, Said
  <2> QED BY <2>1, <2>2, <2>3, <2>4, <2>5 DEF IInv
<1>4. CASE MkdirTemp(h)
  <2>1. SlotsMatch'
    BY <1>4, SlotsKept, SMTT(30) DEF MkdirTemp
  <2>2. Types'
    BY <1>4 DEF MkdirTemp
  <2>3. PhaseMatches'
    BY <1>4, SMTT(30) DEF MkdirTemp
  <2>4. DirMatches'
    BY <1>4, SMTT(30) DEF MkdirTemp
  <2>5. SaidIsTrue'
    BY <1>4, SMTT(30) DEF MkdirTemp, Said
  <2> QED BY <2>1, <2>2, <2>3, <2>4, <2>5 DEF IInv
<1>5. CASE extract(h)
  <2>1. SlotsMatch'
    BY <1>5, SlotsKept, SMTT(30) DEF extract
  <2>2. Types'
    BY <1>5 DEF extract
  <2>3. PhaseMatches'
    BY <1>5, SMTT(30) DEF extract
  <2>4. DirMatches'
    BY <1>5, SMTT(30) DEF extract
  <2>5. SaidIsTrue'
    BY <1>5, SMTT(30) DEF extract, Said
  <2> QED BY <2>1, <2>2, <2>3, <2>4, <2>5 DEF IInv
<1>6. CASE emitReady(h) \/ emitRunning(h)
  BY <1>6, EmitKeeps DEF emitReady, emitRunning
<1>7. CASE runExecutor(h)
  <2>1. SlotsMatch'
    BY <1>7, SlotsKept, SMTT(30) DEF runExecutor, GotoRun
  <2>2. Types'
    BY <1>7 DEF runExecutor, GotoRun, Exec!Begin, Exec!Refuse
  <2>3. PhaseMatches'
    <3>1. CASE hpc' = [hpc EXCEPT ![h] = "wait"] /\ phase' = [phase EXCEPT ![h] = "running"]
      BY <3>1
    <3>2. CASE hpc' = [hpc EXCEPT ![h] = "cleanup"] /\ phase' = [phase EXCEPT ![h] = "refused"]
      BY <3>2
    <3> QED BY <1>7, <3>1, <3>2 DEF runExecutor, GotoRun, Exec!Begin, Exec!Refuse
  <2>4. DirMatches'
    BY <1>7, SMTT(30) DEF runExecutor, GotoRun, Exec!Begin, Exec!Refuse
  <2>5. SaidIsTrue'
    BY <1>7, SMTT(30) DEF runExecutor, GotoRun, Exec!Begin, Exec!Refuse, Said
  <2> QED BY <2>1, <2>2, <2>3, <2>4, <2>5 DEF IInv
<1>8. ASSUME NEW v \in Verdicts, return(h, v) PROVE IInv'
  <2>1. SlotsMatch'
    BY <1>8, SlotsKept DEF return, GotoRun
  <2>2. Types' /\ PhaseMatches' /\ DirMatches' /\ SaidIsTrue'
    BY <1>8, SMTT(30) DEF return, GotoRun, Exec!End, Said
  <2> QED BY <2>1, <2>2 DEF IInv
<1>9. CASE cleanup(h)
  <2>1. SlotsMatch'
    BY <1>9, SlotsKept, SMTT(30) DEF cleanup
  <2>2. Types'
    BY <1>9 DEF cleanup
  <2>3. PhaseMatches'
    BY <1>9, SMTT(30) DEF cleanup
  <2>4. DirMatches'
    BY <1>9, SMTT(30) DEF cleanup
  <2>5. SaidIsTrue'
    BY <1>9, SMTT(30) DEF cleanup, Said
  <2> QED BY <2>1, <2>2, <2>3, <2>4, <2>5 DEF IInv
<1>10. CASE emitCleaned(h) \/ emitFailure(h) \/ emitCompletion(h)
  BY <1>10, EmitKeeps DEF emitCleaned, emitFailure, emitCompletion
<1>11. CASE deferredCleanup(h)
  <2>1. SlotsMatch'
    BY <1>11, SlotsKept DEF deferredCleanup
  <2>2. Types' /\ PhaseMatches' /\ DirMatches' /\ SaidIsTrue'
    BY <1>11, SMTT(30) DEF deferredCleanup, Said
  <2> QED BY <2>1, <2>2 DEF IInv
<1>12. CASE release(h)
  <2>1. Holders' = Holders \ {h} /\ h \in Holders
    BY <1>12, SMTT(30) DEF release, Holders
  <2>2. slots' = slots - 1
    BY <1>12 DEF release
  <2>3. SlotsMatch'
    <3> HIDE DEF Types, Goto, PhaseMatches, DirMatches, SaidIsTrue, Holding
    <3>1. Cardinality(Holders') = Cardinality(Holders) - 1
      BY <2>1, HoldersFinite, FS_RemoveElement
    <3> QED BY <2>2, <3>1, HoldersFinite, MaxConcurrentAssumption, SMTT(30) DEF SlotsMatch
  <2>4. Types' /\ PhaseMatches' /\ DirMatches' /\ SaidIsTrue'
    BY <1>12, SMTT(30) DEF release, Said
  <2> QED BY <2>3, <2>4 DEF IInv
<1> QED BY <1>1, <1>2, <1>3, <1>4, <1>5, <1>6, <1>7, <1>8, <1>9, <1>10, <1>11, <1>12
        DEF handleRun

\* What goes on beside the handlers writes output, or changes nothing the invariant is
\* about; a client that hangs up only makes its stream forgotten.
LEMMA BesideKeeps ==
  ASSUME IInv,
         \/ \E h \in Requests : writeStart(h) \/ writeEnd(h) \/ askToStop(h)
         \/ \E k \in Cancels : handleJobAction(k)
         \/ \E h \in Requests : drain(h) \/ hangUp(h)
         \/ UNCHANGED vars
  PROVE  IInv'
<1> Types /\ SlotsMatch /\ PhaseMatches /\ DirMatches /\ SaidIsTrue
  BY DEF IInv
<1> DEFINE Still == UNCHANGED <<hpc, slots, dir, cleaned, phase>>
<1>1. ASSUME Still, stream' \in [Requests -> Seq(Events)],
             \A q \in Requests : Said(q)' => Said(q)
      PROVE  IInv'
  <2>1. Types' /\ PhaseMatches' /\ DirMatches'
    BY <1>1 DEF Types, PhaseMatches, DirMatches
  <2>2. SlotsMatch'
    BY <1>1 DEF SlotsMatch, Holders
  <2>3. SaidIsTrue'
    BY <1>1 DEF SaidIsTrue
  <2> QED BY <2>1, <2>2, <2>3 DEF IInv
<1>2. ASSUME Still, UNCHANGED stream PROVE IInv'
  BY <1>1, <1>2 DEF Types, Said
<1>3. ASSUME NEW h \in Requests, writeStart(h) \/ askToStop(h) \/ drain(h) PROVE IInv'
  BY <1>2, <1>3 DEF writeStart, askToStop, drain, Exec!Ask, execVars
<1>4. ASSUME NEW h \in Requests, writeEnd(h) PROVE IInv'
  <2>1. Still /\ (Written(h, "data") \/ Failed(h)) /\ "data" \in Events
    BY <1>4 DEF writeEnd, execVars, Events
  <2>2. /\ stream' \in [Requests -> Seq(Events)]
        /\ \A q \in Requests : Said(q)' => Said(q)
    BY <2>1, WrittenSays
  <2> QED BY <2>1, <2>2, <1>1
<1>5. ASSUME NEW h \in Requests, hangUp(h) PROVE IInv'
  <2>1. Still /\ stream' = [stream EXCEPT ![h] = <<>>]
    BY <1>5 DEF hangUp, execVars
  <2>2. stream' \in [Requests -> Seq(Events)]
    BY <2>1, SMTT(30) DEF Types
  <2>3. \A q \in Requests : Said(q)' => Said(q)
    BY <2>1, SMTT(30) DEF Types, Said
  <2> QED BY <2>1, <2>2, <2>3, <1>1
<1>6. ASSUME NEW k \in Cancels, handleJobAction(k) PROVE IInv'
  BY <1>2, <1>6 DEF handleJobAction, killLookup, killCancel, Exec!Ask, execVars
<1>7. CASE UNCHANGED vars
  BY <1>2, <1>7 DEF vars, execVars
<1> QED BY <1>3, <1>4, <1>5, <1>6, <1>7

\* Every step of clients and worker keeps the invariant.
LEMMA Invariant == SSpec => []IInv
<1>1. IInv /\ [SNext]_svars => IInv'
  <2> SUFFICES ASSUME IInv, [SNext]_svars PROVE IInv'
    OBVIOUS
  <2>1. CASE Server
    BY <2>1, HandlerKeeps, BesideKeeps DEF Server
  <2>2. ASSUME NEW h \in Requests,
               Client(h) \/ closeBody(h) \/ interrupt(h) \/ connectionLost(h)
        PROVE  IInv'
    <3>1. drain(h) \/ hangUp(h) \/ UNCHANGED vars
      BY <2>2 DEF Client, errorReply, event, closeBody, interrupt, connectionLost
    <3> QED BY <3>1, BesideKeeps
  <2>3. CASE UNCHANGED svars
    BY <2>3, BesideKeeps DEF svars
  <2> QED BY <2>1, <2>2, <2>3 DEF SNext
<1> QED BY <1>1, InitInv, PTL DEF SSpec

---------------------------------------------------------------------------
(* The stream, event by event.                                             *)

\* The two status lines come first.
Opened(s) == Len(s) >= 2 /\ s[1] = "workspace_ready" /\ s[2] = "running"

\* Then comes output,
Output(s) == Opened(s) /\ \A i \in 3 .. Len(s) : s[i] = "data"

\* then the line that the job is cleaned,
Cleaned(s) ==
  /\ Opened(s) /\ Len(s) >= 3 /\ s[Len(s)] = "cleaned"
  /\ \A i \in 3 .. Len(s) - 1 : s[i] = "data"

\* and the last event: a completion, after that line, or a failure.
Completed(s) ==
  /\ Opened(s) /\ Len(s) >= 4 /\ s[Len(s)] = "completion" /\ s[Len(s) - 1] = "cleaned"
  /\ \A i \in 3 .. Len(s) - 2 : s[i] = "data"

Broken(s) ==
  /\ Opened(s) /\ Len(s) >= 3 /\ s[Len(s)] = "failure"
  /\ \/ \A i \in 3 .. Len(s) - 1 : s[i] = "data"
     \/ /\ Len(s) >= 4 /\ s[Len(s) - 1] = "cleaned"
        /\ \A i \in 3 .. Len(s) - 2 : s[i] = "data"

\* One more event.
LEMMA OneMore ==
  ASSUME NEW s \in Seq(Events), NEW e \in Events
  PROVE  /\ Append(s, e) \in Seq(Events)
         /\ Len(s) \in Nat /\ Len(Append(s, e)) = Len(s) + 1
         /\ Append(s, e)[Len(s) + 1] = e
         /\ \A i \in 1 .. Len(s) : Append(s, e)[i] = s[i]
BY SMTT(30)

\* What the next event makes of a stream.
LEMMA Grows ==
  ASSUME NEW s \in Seq(Events)
  PROVE  /\ s = <<>> => Append(s, "workspace_ready") = <<"workspace_ready">>
         /\ s = <<"workspace_ready">> => Output(Append(s, "running"))
         /\ Output(s) => Output(Append(s, "data"))
         /\ Output(s) => Cleaned(Append(s, "cleaned"))
         /\ Output(s) => Broken(Append(s, "failure"))
         /\ Cleaned(s) => Broken(Append(s, "failure"))
         /\ Cleaned(s) => Completed(Append(s, "completion"))
<1>1. s = <<>> => Append(s, "workspace_ready") = <<"workspace_ready">>
  BY SMTT(30)
<1>2. s = <<"workspace_ready">> => Output(Append(s, "running"))
  BY OneMore, SMTT(30) DEF Output, Opened, Events
<1>3. Output(s) => Output(Append(s, "data"))
  BY OneMore, SMTT(30) DEF Output, Opened, Events
<1>4. Output(s) => Cleaned(Append(s, "cleaned"))
  BY OneMore, SMTT(30) DEF Output, Cleaned, Opened, Events
<1>5. Output(s) => Broken(Append(s, "failure"))
  BY OneMore, SMTT(30) DEF Output, Broken, Opened, Events
<1>6. Cleaned(s) => Broken(Append(s, "failure"))
  BY OneMore, SMTT(30) DEF Cleaned, Broken, Opened, Events
<1>7. Cleaned(s) => Completed(Append(s, "completion"))
  BY OneMore, SMTT(30) DEF Cleaned, Completed, Opened, Events
<1> QED BY <1>1, <1>2, <1>3, <1>4, <1>5, <1>6, <1>7


\* The shapes exclude each other where it matters, and each keeps the order that a
\* client relies on.
LEMMA ShapesOrdered ==
  ASSUME NEW s \in Seq(Events),
         s = <<>> \/ s = <<"workspace_ready">> \/ Output(s) \/ Cleaned(s) \/ Broken(s) \/ Completed(s)
  PROVE  /\ Len(s) > 0 => s[1] = "workspace_ready"
         /\ Len(s) > 1 => s[2] = "running"
         /\ \A i \in 1 .. Len(s) : s[i] = "data" =>
              i > 2 /\ \A j \in 1 .. Len(s) : s[j] = "cleaned" => i < j
         /\ \A i \in 1 .. Len(s) : s[i] = "completion" =>
              /\ Completed(s) /\ i = Len(s)
              /\ {j \in 1 .. Len(s) : s[j] = "cleaned"} = {Len(s) - 1}
         /\ \A i \in 1 .. Len(s) : s[i] = "failure" => i = Len(s) /\ i > 2
<1> Len(s) \in Nat
  BY SMTT(30)
<1>1. CASE s = <<>>
  BY <1>1, SMTT(30)
<1>2. CASE s = <<"workspace_ready">>
  <2>1. Len(s) = 1 /\ s[1] = "workspace_ready"
    BY <1>2
  <2> QED BY <2>1, SMTT(30)
<1>3. CASE Output(s)
  <2>1. \A i \in 1 .. Len(s) : i = 1 \/ i = 2 \/ s[i] = "data"
    BY <1>3, SMTT(30) DEF Output
  <2> QED BY <1>3, <2>1, SMTT(30) DEF Output, Opened
<1>4. CASE Cleaned(s)
  <2>1. \A i \in 1 .. Len(s) : i = 1 \/ i = 2 \/ i = Len(s) \/ s[i] = "data"
    BY <1>4, SMTT(30) DEF Cleaned
  <2> QED BY <1>4, <2>1, SMTT(30) DEF Cleaned, Opened
<1>5. CASE Broken(s)
  <2>1. /\ s[Len(s)] = "failure" /\ Len(s) >= 3
        /\ \A i \in 1 .. Len(s) : \/ i = 1 \/ i = 2 \/ i = Len(s) \/ s[i] = "data"
                                  \/ i = Len(s) - 1 /\ s[i] = "cleaned"
    BY <1>5, SMTT(30) DEF Broken
  <2>2. s[1] = "workspace_ready" /\ s[2] = "running" /\ Len(s) >= 3
    BY <1>5 DEF Broken, Opened
  <2>3. \A i \in 1 .. Len(s) : s[i] = "data" =>
          i > 2 /\ \A j \in 1 .. Len(s) : s[j] = "cleaned" => i < j
    <3> SUFFICES ASSUME NEW i \in 1 .. Len(s), s[i] = "data"
                 PROVE  i > 2 /\ \A j \in 1 .. Len(s) : s[j] = "cleaned" => i < j
      OBVIOUS
    <3>1. i > 2 /\ i # Len(s)
      BY <2>1, <2>2, SMTT(30)
    <3>2. ASSUME NEW j \in 1 .. Len(s), s[j] = "cleaned" PROVE j = Len(s) - 1
      BY <2>1, <2>2, <3>2
    <3> QED BY <3>1, <3>2, SMTT(30)
  <2>4. \A i \in 1 .. Len(s) : s[i] # "completion"
    BY <2>1, <2>2
  <2>5. \A i \in 1 .. Len(s) : s[i] = "failure" => i = Len(s) /\ i > 2
    BY <2>1, <2>2, SMTT(30)
  <2> QED BY <2>2, <2>3, <2>4, <2>5
<1>6. CASE Completed(s)
  <2>1. \A i \in 1 .. Len(s) : i = 1 \/ i = 2 \/ i = Len(s) - 1 \/ i = Len(s) \/ s[i] = "data"
    BY <1>6, SMTT(30) DEF Completed
  <2>2. s[1] = "workspace_ready" /\ s[2] = "running" /\ s[Len(s)] = "completion"
        /\ s[Len(s) - 1] = "cleaned" /\ Len(s) >= 4
    BY <1>6 DEF Completed, Opened
  <2>3. {j \in 1 .. Len(s) : s[j] = "cleaned"} = {Len(s) - 1}
    BY <2>1, <2>2, SMTT(30)
  <2>4. \A i \in 1 .. Len(s) : s[i] = "data" =>
          i > 2 /\ \A j \in 1 .. Len(s) : s[j] = "cleaned" => i < j
    <3> SUFFICES ASSUME NEW i \in 1 .. Len(s), s[i] = "data"
                 PROVE  i > 2 /\ \A j \in 1 .. Len(s) : s[j] = "cleaned" => i < j
      OBVIOUS
    <3>1. i > 2 /\ i # Len(s) /\ i # Len(s) - 1
      BY <2>2, SMTT(30)
    <3>2. ASSUME NEW j \in 1 .. Len(s), s[j] = "cleaned" PROVE j = Len(s) - 1
      BY <2>3, <3>2
    <3> QED BY <3>1, <3>2, SMTT(30)
  <2>5. \A i \in 1 .. Len(s) : s[i] = "completion" => i = Len(s)
    BY <2>1, <2>2
  <2>6. \A i \in 1 .. Len(s) : s[i] # "failure"
    BY <2>1, <2>2
  <2> QED BY <1>6, <2>2, <2>3, <2>4, <2>5, <2>6
<1> QED BY <1>1, <1>2, <1>3, <1>4, <1>5, <1>6

\* A stream that has its completion is none that is still to come to it, or that failed.
LEMMA CompletedIsLast ==
  ASSUME NEW s \in Seq(Events), Completed(s)
  PROVE  s # <<>> /\ s # <<"workspace_ready">> /\ ~Output(s) /\ ~Cleaned(s)
<1>1. Len(s) \in Nat /\ Len(s) >= 4 /\ s[Len(s)] = "completion"
  BY SMTT(30) DEF Completed
<1>2. s # <<>> /\ s # <<"workspace_ready">>
  BY <1>1, SMTT(30)
<1>3. ~Output(s)
  BY <1>1, SMTT(30) DEF Output
<1>4. ~Cleaned(s)
  BY <1>1 DEF Cleaned
<1> QED BY <1>2, <1>3, <1>4

\* What the stream of h looks like, statement by statement.
Shape(h) ==
  LET s == stream[h]
  IN /\ h \in gone => s = <<>>
     /\ h \notin gone =>
          /\ hpc[h] \in {"idle", "parse", "mkdir", "extract", "ready"} => s = <<>>
          /\ hpc[h] = "running" => s = <<"workspace_ready">>
          /\ hpc[h] \in {"run", "wait", "cleanup", "cleaned"} => Output(s)
          /\ hpc[h] = "failure" => Output(s) \/ Cleaned(s)
          /\ hpc[h] = "completion" => Cleaned(s)
          /\ hpc[h] \in {"defer", "release", "done"} => s = <<>> \/ Broken(s) \/ Completed(s)

Streaming == {"ready", "running", "run", "wait", "cleanup", "cleaned", "failure", "completion"}

\* The status line of the response goes with the stream, and a client that was promised
\* a stream, and stays, gets one.
Answered(h) ==
  /\ hpc[h] \in Streaming => reply[h] = "stream"
  /\ stream[h] # <<>> => reply[h] = "stream"
  /\ reply[h] = "stream" /\ h \notin gone =>
       \/ hpc[h] \in Streaming
       \/ hpc[h] \in {"defer", "release", "done"} /\ stream[h] # <<>>

\* A completion is about a run that returned without error.
Judged(h) ==
  /\ hpc[h] = "completion" => phase[h] = "returned" /\ verdict[h] # "error"
  /\ hpc[h] \in {"defer", "release", "done"} /\ Completed(stream[h])
       => phase[h] = "returned" /\ verdict[h] # "error"
  /\ h \in writing => hpc[h] = "wait"

Good(h) == Shape(h) /\ Answered(h) /\ Judged(h)

\* The type invariant, with what a cancel request has found.
Typed == TypeOK /\ \A k \in Cancels : cpc[k] = "cancel" => ctarget[k] \in Requests

\* The second inductive invariant, on top of the first.
StreamInv == Typed /\ \A h \in Requests : Good(h)

\* A step that leaves the state of h as it is, its context apart.
Same(h) ==
  /\ hpc'[h] = hpc[h] /\ stream'[h] = stream[h] /\ reply'[h] = reply[h]
  /\ phase'[h] = phase[h] /\ verdict'[h] = verdict[h]
  /\ h \in gone' <=> h \in gone
  /\ h \in writing' => h \in writing

\* Such a step keeps what is known of h.
LEMMA SameKeeps ==
  ASSUME NEW h \in Requests, Good(h), Same(h)
  PROVE  Good(h)'
BY SMTT(30) DEF Good, Shape, Answered, Streaming, Judged, Same


\* A handler's statement leaves the other requests alone.
LEMMA OthersSame ==
  ASSUME Typed, NEW h \in Requests, handleRun(h), NEW q \in Requests, q # h
  PROVE  Same(q)
<1> USE DEF Typed, TypeOK, Same, Goto, Reply, execVars, clientVars
<1>1. CASE acquire(h) \/ release(h)
  BY <1>1, SMTT(30) DEF acquire, release
<1>2. CASE turnAway(h) \/ parse(h)
  BY <1>2, SMTT(30) DEF turnAway, parse
<1>3. CASE MkdirTemp(h) \/ extract(h)
  BY <1>3, SMTT(30) DEF MkdirTemp, extract
<1>4. ASSUME NEW e, NEW from, NEW to, emit(h, e, from, to) PROVE Same(q)
  BY <1>4, SMTT(30) DEF emit, Written, Failed
<1>5. CASE runExecutor(h)
  BY <1>5, SMTT(30) DEF runExecutor, GotoRun, Exec!Begin, Exec!Refuse
<1>6. ASSUME NEW v \in Verdicts, return(h, v) PROVE Same(q)
  BY <1>6 DEF return, GotoRun, Exec!End
<1>7. CASE cleanup(h) \/ deferredCleanup(h)
  BY <1>7, SMTT(30) DEF cleanup, deferredCleanup
<1> HIDE DEF Typed, TypeOK, Same, Goto, Reply, execVars, clientVars
<1> QED BY <1>1, <1>2, <1>3, <1>4, <1>5, <1>6, <1>7
        DEF handleRun, emitReady, emitRunning, emitCleaned, emitFailure, emitCompletion

\* An Emit adds its event, or finds the client gone.
LEMMA EmitAdds ==
  ASSUME Typed, NEW h \in Requests, NEW e \in Events, NEW from, NEW to, emit(h, e, from, to)
  PROVE  /\ \/ /\ h \notin gone /\ hpc'[h] = to
               /\ stream'[h] = Append(stream[h], e) /\ stream'[h] # <<>>
            \/ h \in gone /\ hpc'[h] \in {to, "defer"} /\ stream'[h] = stream[h]
         /\ hpc[h] = from /\ stream[h] \in Seq(Events)
         /\ UNCHANGED <<reply, writing, gone, phase, asked, verdict>>
<1>1. /\ \/ h \notin gone /\ hpc'[h] = to /\ stream'[h] = Append(stream[h], e)
         \/ h \in gone /\ hpc'[h] \in {to, "defer"} /\ stream'[h] = stream[h]
      /\ hpc[h] = from /\ stream[h] \in Seq(Events)
      /\ UNCHANGED <<reply, writing, gone, phase, asked, verdict>>
  BY SMTT(30) DEF emit, Written, Failed, Goto, Typed, TypeOK, execVars, clientVars
<1>2. Append(stream[h], e) # <<>>
  BY <1>1, SMTT(30)
<1> QED BY <1>1, <1>2

\* A statement that leaves the status line alone and, if it is the last that writes to
\* the stream, leaves something in it.
LEMMA StillAnswered ==
  ASSUME NEW h \in Requests, Answered(h), UNCHANGED <<reply, gone>>,
         hpc[h] \in Streaming,
         \/ hpc'[h] \in Streaming
         \/ hpc'[h] = "defer" /\ (h \in gone \/ stream'[h] # <<>>)
  PROVE  Answered(h)'
<1>1. reply'[h] = "stream" /\ gone' = gone
  BY DEF Answered
<1> QED BY <1>1 DEF Answered, Streaming

\* A statement other than the wait that leaves the executor alone, and completes the
\* stream only if the run has returned without error.
LEMMA StillJudged ==
  ASSUME NEW h \in Requests, Judged(h), UNCHANGED <<writing, phase, asked, verdict>>,
         hpc[h] # "wait",
         \/ phase[h] = "returned" /\ verdict[h] # "error"
         \/ hpc'[h] # "completion" /\ (hpc'[h] \in {"defer", "release", "done"} => ~Completed(stream'[h]))
  PROVE  Judged(h)'
BY DEF Judged

\* The stream of the handler that takes the step.
LEMMA HandlerGood ==
  ASSUME IInv, StreamInv, NEW h \in Requests, handleRun(h)
  PROVE  Good(h)'
<1> Typed /\ Shape(h) /\ Answered(h) /\ Judged(h)
  BY DEF StreamInv, Good
<1> PhaseMatches
  BY DEF IInv
<1> SUFFICES Shape(h)' /\ Answered(h)' /\ Judged(h)'
  BY DEF Good
<1> ~Completed(<<>>)
  <2>1. <<>> \in Seq(Events)
    BY SMTT(30)
  <2> QED BY <2>1, CompletedIsLast
<1>1. CASE acquire(h) \/ release(h)
  <2>1. /\ \/ hpc[h] = "idle" /\ hpc'[h] = "parse"
           \/ hpc[h] = "release" /\ hpc'[h] = "done"
        /\ UNCHANGED <<stream, reply, writing, gone, phase, asked, verdict>>
    BY <1>1 DEF acquire, release, Goto, Typed, TypeOK, execVars, clientVars
  <2>2. Shape(h)'
    BY <2>1 DEF Shape
  <2>3. Answered(h)'
    BY <2>1 DEF Answered, Streaming
  <2>4. Judged(h)'
    BY <2>1 DEF Judged
  <2> QED BY <2>2, <2>3, <2>4
<1>2. CASE turnAway(h) \/ parse(h) \/ MkdirTemp(h)
  <2>1. hpc[h] \in {"idle", "parse", "mkdir"} /\ stream[h] = <<>>
    BY <1>2 DEF turnAway, parse, MkdirTemp, Goto, Shape
  <2>2. \/ hpc'[h] \in {"mkdir", "extract"} /\ reply' = reply
        \/ hpc'[h] \in {"release", "done"} /\ reply'[h] \in {"error", "busy"}
    <3>1. CASE turnAway(h)
      BY <3>1, SMTT(30) DEF turnAway, Reply, Goto, Typed, TypeOK
    <3>2. CASE parse(h)
      BY <3>2, SMTT(30) DEF parse, Reply, Goto, Typed, TypeOK
    <3>3. CASE MkdirTemp(h)
      BY <3>3, SMTT(30) DEF MkdirTemp, Reply, Goto, Typed, TypeOK
    <3> QED BY <1>2, <3>1, <3>2, <3>3
  <2>3. UNCHANGED <<stream, writing, gone, phase, asked, verdict>>
    BY <1>2 DEF turnAway, parse, MkdirTemp, execVars, clientVars
  <2>4. Shape(h)'
    BY <2>1, <2>2, <2>3 DEF Shape
  <2>5. Answered(h)'
    BY <2>1, <2>2, <2>3 DEF Answered, Streaming
  <2>6. Judged(h)'
    BY <2>1, <2>2, <2>3, StillJudged
  <2> QED BY <2>4, <2>5, <2>6
<1>3. CASE extract(h)
  <2>1. /\ hpc[h] = "extract" /\ stream[h] = <<>>
        /\ \/ hpc'[h] = "ready" /\ reply'[h] = "stream"
           \/ hpc'[h] = "defer" /\ reply'[h] = "error"
        /\ UNCHANGED <<stream, writing, gone, phase, asked, verdict>>
    <3>1. hpc[h] = "extract" /\ stream[h] = <<>>
      BY <1>3 DEF extract, Goto, Shape
    <3>2. \/ hpc'[h] = "ready" /\ reply'[h] = "stream"
          \/ hpc'[h] = "defer" /\ reply'[h] = "error"
      BY <1>3, SMTT(30) DEF extract, Reply, Goto, Typed, TypeOK
    <3>3. UNCHANGED <<stream, writing, gone, phase, asked, verdict>>
      BY <1>3 DEF extract, execVars, clientVars
    <3> QED BY <3>1, <3>2, <3>3
  <2>2. Shape(h)' /\ Answered(h)'
    BY <2>1 DEF Shape, Answered, Streaming
  <2>3. Judged(h)'
    BY <2>1, StillJudged
  <2> QED BY <2>2, <2>3
<1>4. CASE emitReady(h)
  <2>1. "workspace_ready" \in Events /\ emit(h, "workspace_ready", "ready", "running")
    BY <1>4 DEF emitReady, Events
  <2>2. /\ \/ /\ h \notin gone /\ hpc'[h] = "running"
              /\ stream'[h] = Append(stream[h], "workspace_ready") /\ stream'[h] # <<>>
           \/ h \in gone /\ hpc'[h] \in {"running", "defer"} /\ stream'[h] = stream[h]
        /\ hpc[h] = "ready" /\ stream[h] \in Seq(Events)
        /\ UNCHANGED <<reply, writing, gone, phase, asked, verdict>>
    BY <2>1, EmitAdds
  <2>3. stream[h] = <<>> => Append(stream[h], "workspace_ready") = <<"workspace_ready">>
    BY <2>2, Grows
  <2>4. stream[h] = <<>>
    BY <2>2 DEF Shape
  <2>5. Shape(h)'
    BY <2>2, <2>3, <2>4 DEF Shape
  <2>6. Answered(h)'
    BY <2>2, StillAnswered DEF Streaming
  <2>7. Judged(h)'
    BY <2>2, <2>4, StillJudged
  <2> QED BY <2>5, <2>6, <2>7
<1>5. CASE emitRunning(h)
  <2>1. "running" \in Events /\ emit(h, "running", "running", "run")
    BY <1>5 DEF emitRunning, Events
  <2>2. /\ \/ /\ h \notin gone /\ hpc'[h] = "run"
              /\ stream'[h] = Append(stream[h], "running") /\ stream'[h] # <<>>
           \/ h \in gone /\ hpc'[h] \in {"run", "defer"} /\ stream'[h] = stream[h]
        /\ hpc[h] = "running" /\ stream[h] \in Seq(Events)
        /\ UNCHANGED <<reply, writing, gone, phase, asked, verdict>>
    BY <2>1, EmitAdds
  <2>3. stream[h] = <<"workspace_ready">> => Output(Append(stream[h], "running"))
    BY <2>2, Grows
  <2>4. Shape(h)'
    BY <2>2, <2>3 DEF Shape
  <2>5. Answered(h)'
    BY <2>2, StillAnswered DEF Streaming
  <2>6. h \in gone => stream[h] = <<>>
    BY DEF Shape
  <2>7. Judged(h)'
    BY <2>2, <2>6, StillJudged
  <2> QED BY <2>4, <2>5, <2>7
<1>6. CASE runExecutor(h)
  <2>1. /\ hpc[h] = "run" /\ hpc'[h] \in {"wait", "cleanup"}
        /\ UNCHANGED <<stream, reply, writing, gone>>
    BY <1>6 DEF runExecutor, GotoRun, Goto, Typed, TypeOK, clientVars
  <2>2. UNCHANGED verdict /\ asked \subseteq asked'
    BY <1>6 DEF runExecutor, Exec!Begin, Exec!Refuse
  <2>3. Shape(h)'
    BY <2>1 DEF Shape
  <2>4. Answered(h)'
    BY <2>1, StillAnswered DEF Streaming
  <2>5. Judged(h)'
    BY <2>1, <2>2 DEF Judged
  <2> QED BY <2>3, <2>4, <2>5
<1>7. ASSUME NEW v \in Verdicts, return(h, v) PROVE Shape(h)' /\ Answered(h)' /\ Judged(h)'
  BY <1>7 DEF return, GotoRun, Exec!End, Goto, Typed, TypeOK, Shape, Answered, Streaming, Judged, clientVars
<1>8. CASE cleanup(h)
  BY <1>8, SMTT(30) DEF cleanup, Goto, Typed, TypeOK, Shape, Answered, Streaming, Judged, execVars, clientVars
<1>9. CASE emitCleaned(h)
  <2> DEFINE to == IF executionErr(h) THEN "failure" ELSE "completion"
  <2>1. "cleaned" \in Events /\ emit(h, "cleaned", "cleaned", to)
    BY <1>9 DEF emitCleaned, Events
  <2>2. /\ \/ /\ h \notin gone /\ hpc'[h] = to
              /\ stream'[h] = Append(stream[h], "cleaned") /\ stream'[h] # <<>>
           \/ h \in gone /\ hpc'[h] \in {to, "defer"} /\ stream'[h] = stream[h]
        /\ hpc[h] = "cleaned" /\ stream[h] \in Seq(Events)
        /\ UNCHANGED <<reply, writing, gone, phase, asked, verdict>>
    BY <2>1, EmitAdds, SMTT(30)
  <2>3. Output(stream[h]) => Cleaned(Append(stream[h], "cleaned"))
    BY <2>2, Grows
  <2>4. \/ to = "failure"
        \/ to = "completion" /\ phase[h] = "returned" /\ verdict[h] # "error"
    <3>1. phase[h] \in {"returned", "refused"}
      BY <2>2 DEF PhaseMatches, Post
    <3>2. CASE executionErr(h)
      BY <3>2
    <3>3. CASE ~executionErr(h)
      BY <3>1, <3>3 DEF executionErr
    <3> QED BY <3>2, <3>3
  <2> HIDE DEF to
  <2>5. Shape(h)'
    BY <2>2, <2>3, <2>4 DEF Shape
  <2>6. Answered(h)'
    BY <2>2, <2>4, StillAnswered DEF Streaming
  <2>7. h \in gone => stream[h] = <<>>
    BY DEF Shape
  <2>8. Judged(h)'
    BY <2>2, <2>4, <2>7, StillJudged
  <2> QED BY <2>5, <2>6, <2>8
<1>10. CASE emitFailure(h)
  <2>1. "failure" \in Events /\ emit(h, "failure", "failure", "defer")
    BY <1>10 DEF emitFailure, Events
  <2>2. /\ \/ /\ h \notin gone /\ hpc'[h] = "defer"
              /\ stream'[h] = Append(stream[h], "failure") /\ stream'[h] # <<>>
           \/ h \in gone /\ hpc'[h] \in {"defer", "defer"} /\ stream'[h] = stream[h]
        /\ hpc[h] = "failure" /\ stream[h] \in Seq(Events)
        /\ UNCHANGED <<reply, writing, gone, phase, asked, verdict>>
    BY <2>1, EmitAdds
  <2>3. Output(stream[h]) \/ Cleaned(stream[h]) => Broken(Append(stream[h], "failure"))
    BY <2>2, Grows
  <2>4. ~Completed(stream'[h])
    <3>1. CASE h \in gone
      <4>1. stream[h] = <<>>
        BY <3>1 DEF Shape
      <4> QED BY <2>2, <3>1, <4>1
    <3>2. CASE h \notin gone
      <4>1. /\ Len(Append(stream[h], "failure")) = Len(stream[h]) + 1
            /\ Append(stream[h], "failure")[Len(stream[h]) + 1] = "failure"
        BY <2>1, <2>2, OneMore
      <4>2. ~Completed(Append(stream[h], "failure"))
        BY <4>1 DEF Completed
      <4> QED BY <2>2, <3>2, <4>2
    <3> QED BY <3>1, <3>2
  <2>5. Shape(h)'
    BY <2>2, <2>3 DEF Shape
  <2>6. Answered(h)'
    BY <2>2, StillAnswered DEF Streaming
  <2>7. Judged(h)'
    BY <2>2, <2>4, StillJudged
  <2> QED BY <2>5, <2>6, <2>7
<1>11. CASE emitCompletion(h)
  <2>1. "completion" \in Events /\ emit(h, "completion", "completion", "defer")
    BY <1>11 DEF emitCompletion, Events
  <2>2. /\ \/ /\ h \notin gone /\ hpc'[h] = "defer"
              /\ stream'[h] = Append(stream[h], "completion") /\ stream'[h] # <<>>
           \/ h \in gone /\ hpc'[h] \in {"defer", "defer"} /\ stream'[h] = stream[h]
        /\ hpc[h] = "completion" /\ stream[h] \in Seq(Events)
        /\ UNCHANGED <<reply, writing, gone, phase, asked, verdict>>
    BY <2>1, EmitAdds
  <2>3. Cleaned(stream[h]) => Completed(Append(stream[h], "completion"))
    BY <2>2, Grows
  <2>4. Shape(h)'
    BY <2>2, <2>3 DEF Shape
  <2>5. Answered(h)'
    BY <2>2, StillAnswered DEF Streaming
  <2>6. Judged(h)'
    <3>1. phase[h] = "returned" /\ verdict[h] # "error"
      BY <2>2 DEF Judged
    <3> QED BY <2>2, <3>1, StillJudged
  <2> QED BY <2>4, <2>5, <2>6
<1>12. CASE deferredCleanup(h)
  BY <1>12 DEF deferredCleanup, Goto, Typed, TypeOK, Shape, Answered, Streaming, Judged, execVars, clientVars
<1> QED BY <1>1, <1>2, <1>3, <1>4, <1>5, <1>6, <1>7, <1>8, <1>9, <1>10, <1>11, <1>12
        DEF handleRun

\* The types that a handler's statement can disturb.
LEMMA HandlerTyped ==
  ASSUME IInv', Typed, NEW h \in Requests, handleRun(h)
  PROVE  Typed'
<1>1. /\ hpc' \in [Requests -> Holding \union {"idle", "done"}]
      /\ phase' \in [Requests -> {"idle", "running", "returned", "refused"}]
      /\ stream' \in [Requests -> Seq(Events)]
      /\ dir' \subseteq Requests /\ cleaned' \subseteq Requests
  BY DEF IInv, Types
<1>2. slots' \in 0 .. MaxConcurrent
  <2>1. IsFiniteSet(Holders')
    BY RequestsAssumption, FS_Subset DEF Holders
  <2>2. slots' \in Nat
    BY <2>1, FS_CardinalityType DEF IInv, SlotsMatch
  <2> QED BY <2>2, MaxConcurrentAssumption, SMTT(30) DEF IInv, SlotsMatch
<1>3. /\ UNCHANGED <<writing, gone, read, asked, cpc, ctarget>>
      /\ UNCHANGED reply \/ \E r \in {"busy", "error", "stream"} : Reply(h, r)
      /\ UNCHANGED verdict \/ \E v \in Verdicts : verdict' = [verdict EXCEPT ![h] = v]
  <2> USE DEF execVars, clientVars, cancelVars
  <2>1. CASE acquire(h) \/ release(h) \/ cleanup(h) \/ deferredCleanup(h)
    BY <2>1 DEF acquire, release, cleanup, deferredCleanup
  <2>2. CASE turnAway(h) \/ parse(h) \/ MkdirTemp(h) \/ extract(h)
    BY <2>2 DEF turnAway, parse, MkdirTemp, extract
  <2>3. CASE emitReady(h) \/ emitRunning(h) \/ emitCleaned(h) \/ emitFailure(h) \/ emitCompletion(h)
    BY <2>3 DEF emitReady, emitRunning, emitCleaned, emitFailure, emitCompletion, emit
  <2>4. CASE runExecutor(h)
    BY <2>4 DEF runExecutor, GotoRun, Exec!Begin, Exec!Refuse
  <2>5. ASSUME NEW v \in Verdicts, return(h, v)
        PROVE  /\ UNCHANGED <<writing, gone, read, asked, cpc, ctarget, reply>>
               /\ verdict' = [verdict EXCEPT ![h] = v]
    BY <2>5 DEF return, GotoRun, Exec!End
  <2> QED BY <2>1, <2>2, <2>3, <2>4, <2>5 DEF handleRun
<1>4. reply' \in [Requests -> {"none", "busy", "error", "stream"}]
  BY <1>3 DEF Typed, TypeOK, Reply
<1>5. verdict' \in [Requests -> Verdicts \union {"none"}]
  <2>1. verdict \in [Requests -> Verdicts \union {"none"}]
    BY DEF Typed, TypeOK
  <2> QED BY <1>3, <2>1
<1> QED BY <1>1, <1>2, <1>3, <1>4, <1>5 DEF Typed, TypeOK

\* The types follow from the first invariant for the variables it speaks of.
LEMMA OtherTypes ==
  ASSUME IInv', Typed, UNCHANGED <<slots, reply, verdict>>,
         writing' \subseteq Requests, gone' \subseteq Requests, asked' \subseteq Requests,
         read' \in [Requests -> Nat],
         cpc' \in [Cancels -> {"idle", "cancel", "204", "404"}],
         ctarget' \in [Cancels -> Requests \union {NoRequest}],
         \A k \in Cancels : cpc'[k] = "cancel" => ctarget'[k] \in Requests
  PROVE  Typed'
<1>1. /\ hpc' \in [Requests -> Holding \union {"idle", "done"}]
      /\ phase' \in [Requests -> {"idle", "running", "returned", "refused"}]
      /\ stream' \in [Requests -> Seq(Events)]
      /\ dir' \subseteq Requests /\ cleaned' \subseteq Requests
  BY DEF IInv, Types
<1>2. /\ slots' \in 0 .. MaxConcurrent /\ reply' \in [Requests -> {"none", "busy", "error", "stream"}]
      /\ verdict' \in [Requests -> Verdicts \union {"none"}]
  BY DEF Typed, TypeOK
<1> QED BY <1>1, <1>2 DEF Typed, TypeOK

\* What goes on beside the handlers keeps them as well.
LEMMA BesideTyped ==
  ASSUME IInv', Typed,
         \/ \E h \in Requests : writeStart(h) \/ writeEnd(h) \/ askToStop(h)
         \/ \E k \in Cancels : handleJobAction(k)
         \/ \E h \in Requests : drain(h) \/ hangUp(h)
         \/ UNCHANGED vars
  PROVE  Typed'
<1>1. /\ writing \subseteq Requests /\ gone \subseteq Requests /\ asked \subseteq Requests
      /\ read \in [Requests -> Nat]
      /\ cpc \in [Cancels -> {"idle", "cancel", "204", "404"}]
      /\ ctarget \in [Cancels -> Requests \union {NoRequest}]
      /\ \A k \in Cancels : cpc[k] = "cancel" => ctarget[k] \in Requests
  BY DEF Typed, TypeOK
<1> USE DEF execVars, clientVars, cancelVars
<1>2. ASSUME NEW h \in Requests, writeStart(h) \/ writeEnd(h) PROVE Typed'
  <2>1. /\ writing' \subseteq writing \union {h}
        /\ UNCHANGED <<slots, reply, verdict, gone, asked, read, cpc, ctarget>>
    BY <1>2 DEF writeStart, writeEnd
  <2> QED BY <1>1, <2>1, OtherTypes
<1>3. ASSUME NEW h \in Requests, askToStop(h) PROVE Typed'
  <2>1. /\ asked' \subseteq asked \union {h}
        /\ UNCHANGED <<slots, reply, verdict, gone, writing, read, cpc, ctarget>>
    BY <1>3 DEF askToStop, Exec!Ask
  <2> QED BY <1>1, <2>1, OtherTypes
<1>4. ASSUME NEW h \in Requests, drain(h) PROVE Typed'
  <2>1. /\ read' = [read EXCEPT ![h] = @ + 1]
        /\ UNCHANGED <<slots, reply, verdict, gone, writing, asked, cpc, ctarget>>
    BY <1>4 DEF drain
  <2>2. read' \in [Requests -> Nat]
    BY <1>1, <2>1, SMTT(30)
  <2> QED BY <1>1, <2>1, <2>2, OtherTypes
<1>5. ASSUME NEW h \in Requests, hangUp(h) PROVE Typed'
  <2>1. /\ read' = [read EXCEPT ![h] = 0] /\ gone' = gone \union {h}
        /\ UNCHANGED <<slots, reply, verdict, writing, asked, cpc, ctarget>>
    BY <1>5 DEF hangUp
  <2>2. read' \in [Requests -> Nat]
    BY <1>1, <2>1
  <2> QED BY <1>1, <2>1, <2>2, OtherTypes
<1>6. ASSUME NEW k \in Cancels, NEW i \in Ids, killLookup(k, i) PROVE Typed'
  <2>1. \/ /\ cpc' = [cpc EXCEPT ![k] = "cancel"]
           /\ \E h \in Requests : ctarget' = [ctarget EXCEPT ![k] = h]
        \/ cpc' = [cpc EXCEPT ![k] = "404"] /\ ctarget' = ctarget
    BY <1>6 DEF killLookup
  <2>2. UNCHANGED <<slots, reply, writing, asked, verdict, read, gone>>
    BY <1>6 DEF killLookup
  <2>3. /\ cpc' \in [Cancels -> {"idle", "cancel", "204", "404"}]
        /\ ctarget' \in [Cancels -> Requests \union {NoRequest}]
    BY <1>1, <2>1
  <2>4. \A c \in Cancels : cpc'[c] = "cancel" => ctarget'[c] \in Requests
    BY <1>1, <2>1
  <2> QED BY <1>1, <2>2, <2>3, <2>4, OtherTypes
<1>7. ASSUME NEW k \in Cancels, killCancel(k) PROVE Typed'
  <2>1. /\ cpc[k] = "cancel" /\ cpc' = [cpc EXCEPT ![k] = "204"]
        /\ asked' \subseteq asked \union {ctarget[k]}
        /\ UNCHANGED <<slots, reply, verdict, gone, writing, read, ctarget>>
    BY <1>7 DEF killCancel, Exec!Ask
  <2>2. cpc' \in [Cancels -> {"idle", "cancel", "204", "404"}]
    BY <1>1, <2>1
  <2>3. \A c \in Cancels : cpc'[c] = "cancel" => cpc[c] = "cancel"
    BY <1>1, <2>1
  <2>4. ctarget[k] \in Requests
    BY <1>1, <2>1
  <2> QED BY <1>1, <2>1, <2>2, <2>3, <2>4, OtherTypes
<1>8. CASE UNCHANGED vars
  <2>1. UNCHANGED <<slots, reply, verdict, gone, writing, asked, read, cpc, ctarget>>
    BY <1>8 DEF vars
  <2> QED BY <1>1, <2>1, OtherTypes
<1> QED BY <1>2, <1>3, <1>4, <1>5, <1>6, <1>7, <1>8 DEF handleJobAction

\* Beside the handlers only output is written, while the handler waits for its run, and
\* a client that hangs up has no stream any more.
LEMMA BesideGood ==
  ASSUME IInv, StreamInv, NEW q \in Requests,
         \/ \E h \in Requests : writeStart(h) \/ writeEnd(h) \/ askToStop(h)
         \/ \E k \in Cancels : handleJobAction(k)
         \/ \E h \in Requests : drain(h) \/ hangUp(h)
         \/ UNCHANGED vars
  PROVE  Good(q)'
<1> Good(q) /\ Typed
  BY DEF StreamInv
<1> USE DEF execVars, clientVars, cancelVars
<1>1. ASSUME NEW h \in Requests, writeStart(h) PROVE Good(q)'
  BY <1>1 DEF writeStart, Typed, TypeOK, Good, Shape, Answered, Streaming, Judged
<1>2. ASSUME NEW h \in Requests, writeEnd(h) PROVE Good(q)'
  <2>1. CASE h # q \/ UNCHANGED stream
    BY <1>2, <2>1, SameKeeps DEF writeEnd, Written, Failed, Typed, TypeOK, Same
  <2>2. CASE h = q /\ stream' = [stream EXCEPT ![h] = Append(@, "data")] /\ h \notin gone
    <3>1. stream'[q] = Append(stream[q], "data") /\ stream[q] \in Seq(Events)
      BY <2>2 DEF Typed, TypeOK
    <3>2. UNCHANGED <<hpc, reply, gone, phase, asked, verdict>> /\ writing' = writing \ {q}
      BY <1>2, <2>2 DEF writeEnd
    <3>3. hpc[q] = "wait"
      BY <1>2, <2>2 DEF writeEnd, Good, Judged
    <3>4. Output(stream'[q])
      BY <2>2, <3>1, <3>3, Grows DEF Good, Shape
    <3> QED BY <2>2, <3>1, <3>2, <3>3, <3>4 DEF Good, Shape, Answered, Streaming, Judged
  <2> QED BY <1>2, <2>1, <2>2 DEF writeEnd, Written, Failed
<1>3. ASSUME NEW h \in Requests, askToStop(h) PROVE Good(q)'
  BY <1>3, SameKeeps DEF askToStop, Exec!Ask, Same
<1>4. ASSUME NEW h \in Requests, drain(h) PROVE Good(q)'
  BY <1>4, SameKeeps DEF drain, Same
<1>5. ASSUME NEW h \in Requests, hangUp(h) PROVE Good(q)'
  <2>1. CASE h # q
    BY <1>5, <2>1, SameKeeps DEF hangUp, Same, Typed, TypeOK
  <2>2. CASE h = q
    <3>1. /\ stream'[q] = <<>> /\ q \in gone' /\ hpc' = hpc /\ reply' = reply
          /\ UNCHANGED <<writing, phase, asked, verdict>>
      BY <1>5, <2>2 DEF hangUp, Typed, TypeOK
    <3>2. ~Completed(<<>>)
      <4>1. <<>> \in Seq(Events)
        BY SMTT(30)
      <4> QED BY <4>1, CompletedIsLast
    <3>3. Shape(q)'
      BY <3>1 DEF Shape
    <3>4. Answered(q)'
      BY <3>1 DEF Good, Answered
    <3>5. Judged(q)'
      BY <3>1, <3>2 DEF Good, Judged
    <3> QED BY <3>3, <3>4, <3>5 DEF Good
  <2> QED BY <2>1, <2>2
<1>6. ASSUME NEW k \in Cancels, handleJobAction(k) PROVE Good(q)'
  BY <1>6, SameKeeps DEF handleJobAction, killLookup, killCancel, Exec!Ask, Same
<1>7. CASE UNCHANGED vars
  BY <1>7, SameKeeps DEF vars, Same
<1> QED BY <1>1, <1>2, <1>3, <1>4, <1>5, <1>6, <1>7


\* A new server has written nothing.
LEMMA InitStream == SInit => StreamInv
<1> SUFFICES ASSUME SInit PROVE StreamInv
  OBVIOUS
<1> USE DEF SInit, Init, Exec!Init, NoVerdict
<1>1. Typed
  BY MaxConcurrentAssumption, SMTT(30) DEF Typed, TypeOK, Events, Verdicts
<1>2. \A h \in Requests : Good(h)
  BY DEF Good, Shape, Answered, Streaming, Judged
<1> QED BY <1>1, <1>2 DEF StreamInv

\* Every step of clients and worker keeps both invariants.
LEMMA StreamInvariant == SSpec => [](IInv /\ StreamInv)
<1>1. IInv /\ IInv' /\ StreamInv /\ [SNext]_svars => StreamInv'
  <2> SUFFICES ASSUME IInv, IInv', StreamInv, [SNext]_svars PROVE StreamInv'
    OBVIOUS
  <2>1. ASSUME NEW h \in Requests, handleRun(h) PROVE StreamInv'
    <3>1. Typed'
      BY <2>1, HandlerTyped DEF StreamInv
    <3>2. ASSUME NEW q \in Requests PROVE Good(q)'
      BY <2>1, HandlerGood, OthersSame, SameKeeps DEF StreamInv
    <3> QED BY <3>1, <3>2 DEF StreamInv
  <2>2. ASSUME \/ \E h \in Requests : writeStart(h) \/ writeEnd(h) \/ askToStop(h)
               \/ \E k \in Cancels : handleJobAction(k)
               \/ \E h \in Requests : drain(h) \/ hangUp(h)
               \/ UNCHANGED vars
        PROVE  StreamInv'
    <3>1. Typed'
      BY <2>2, BesideTyped DEF StreamInv
    <3>2. \A q \in Requests : Good(q)'
      BY <2>2, BesideGood
    <3> QED BY <3>1, <3>2 DEF StreamInv
  <2>3. CASE Server
    BY <2>1, <2>2, <2>3 DEF Server
  <2>4. ASSUME NEW h \in Requests,
               Client(h) \/ closeBody(h) \/ interrupt(h) \/ connectionLost(h)
        PROVE  StreamInv'
    <3>1. drain(h) \/ hangUp(h) \/ UNCHANGED vars
      BY <2>4 DEF Client, errorReply, event, closeBody, interrupt, connectionLost
    <3> QED BY <2>2, <3>1
  <2>5. CASE UNCHANGED svars
    BY <2>2, <2>5 DEF svars
  <2> QED BY <2>3, <2>4, <2>5 DEF SNext
<1> QED BY <1>1, Invariant, InitStream, PTL DEF SSpec

---------------------------------------------------------------------------

\* Every return of handleRun gives its slot back once, whichever of its exits it takes
\* and whatever the clients do, and the executor never has more runs than the worker's
\* limit.
THEOREM SlotsAreAccounted == SSpec => []SlotsAccounted
<1>1. IInv => SlotsAccounted
  <2> SUFFICES ASSUME IInv PROVE SlotsAccounted
    OBVIOUS
  <2> DEFINE Running == {h \in Requests : phase[h] = "running"}
  <2>1. Running \subseteq Holders
    BY DEF IInv, PhaseMatches, Holders, Holding
  <2>2. Cardinality(Running) <= Cardinality(Holders) /\ Cardinality(Running) \in Nat
    BY <2>1, HoldersFinite, FS_Subset, FS_CardinalityType
  <2>3. slots = Cardinality(Holders) /\ slots <= MaxConcurrent
    BY DEF IInv, SlotsMatch
  <2>4. Cardinality(Running) <= MaxConcurrent
    BY <2>2, <2>3, HoldersFinite, MaxConcurrentAssumption, SMTT(30)
  <2> QED BY <2>3, <2>4 DEF SlotsAccounted, Holders
<1> QED BY <1>1, Invariant, PTL

\* The job directory is there while the job runs, is gone before the stream says
\* "cleaned" or "completion", and is left behind by a handler only after the cleanup
\* closure has tried to remove it.
THEOREM CleanedFirst == SSpec => []CleanBeforeCompletion
<1>1. IInv => CleanBeforeCompletion
  BY DEF IInv, PhaseMatches, DirMatches, SaidIsTrue, Said, CleanBeforeCompletion, Pre
<1> QED BY <1>1, Invariant, PTL

\* The state of the server has its types, also that of the cancel requests.
THEOREM TypesHold == SSpec => []TypeOK
<1>1. StreamInv => TypeOK
  BY DEF StreamInv, Typed
<1> QED BY <1>1, StreamInvariant, PTL

\* A state that satisfies the invariants has its streams in order.
LEMMA InOrder == ASSUME StreamInv PROVE StreamInOrder
<1> SUFFICES ASSUME NEW h \in Requests
             PROVE  LET s == stream[h]
                        n == Len(s)
                        At(e) == {i \in 1 .. n : s[i] = e}
                    IN /\ n > 0 => s[1] = "workspace_ready" /\ reply[h] = "stream"
                       /\ n > 1 => s[2] = "running"
                       /\ \A i \in At("data") : i > 2 /\ \A j \in At("cleaned") : i < j
                       /\ \A i \in At("completion") :
                            /\ i = n /\ At("cleaned") = {n - 1}
                            /\ phase[h] = "returned" /\ verdict[h] # "error"
                       /\ \A i \in At("failure") : i = n /\ i > 2
  BY DEF StreamInOrder
<1> DEFINE s == stream[h]
<1>1. s \in Seq(Events) /\ Good(h) /\ hpc[h] \in Holding \union {"idle", "done"}
  BY DEF StreamInv, Typed, TypeOK
<1>2. s = <<>> \/ s = <<"workspace_ready">> \/ Output(s) \/ Cleaned(s) \/ Broken(s) \/ Completed(s)
  BY <1>1 DEF Good, Shape, Holding
<1>3. s # <<>> => reply[h] = "stream"
  BY <1>1 DEF Good, Answered, Streaming
<1>4. Completed(s) => phase[h] = "returned" /\ verdict[h] # "error"
  <2> SUFFICES ASSUME Completed(s) PROVE phase[h] = "returned" /\ verdict[h] # "error"
    OBVIOUS
  <2>1. s # <<>> /\ s # <<"workspace_ready">> /\ ~Output(s) /\ ~Cleaned(s)
    BY <1>1, CompletedIsLast
  <2>2. hpc[h] \in {"defer", "release", "done"}
    BY <1>1, <2>1 DEF Good, Shape, Holding
  <2> QED BY <1>1, <2>2 DEF Good, Judged
<1>5. Len(s) > 0 => s # <<>>
  BY <1>1, SMTT(30)
<1> HIDE DEF s
<1>6. /\ Len(s) > 0 => s[1] = "workspace_ready"
      /\ Len(s) > 1 => s[2] = "running"
      /\ \A i \in 1 .. Len(s) : s[i] = "data" =>
           i > 2 /\ \A j \in 1 .. Len(s) : s[j] = "cleaned" => i < j
      /\ \A i \in 1 .. Len(s) : s[i] = "completion" =>
           /\ Completed(s) /\ i = Len(s)
           /\ {j \in 1 .. Len(s) : s[j] = "cleaned"} = {Len(s) - 1}
      /\ \A i \in 1 .. Len(s) : s[i] = "failure" => i = Len(s) /\ i > 2
  BY <1>1, <1>2, ShapesOrdered
<1> QED BY <1>3, <1>4, <1>5, <1>6 DEF s

\* The stream that a client decodes is in order, whatever the job writes and however
\* many requests are served at once; the completion is the last event and true.
THEOREM StreamsInOrder == SSpec => []StreamInOrder
<1>1. StreamInv => StreamInOrder
  BY InOrder
<1> QED BY <1>1, StreamInvariant, PTL

\* A call of client.Run returns once.
LEMMA Outcomes == SSpec => [](outcome \in [Requests -> {"none", "result", "remote", "closed", "local"}])
<1> DEFINE Inv == outcome \in [Requests -> {"none", "result", "remote", "closed", "local"}]
<1>1. SInit => Inv
  BY DEF SInit
<1>2. Inv /\ [SNext]_svars => Inv'
  BY DEF SNext, svars, Client, errorReply, event, closeBody, interrupt, connectionLost, Return
<1> QED BY <1>1, <1>2, PTL DEF SSpec

\* A result that client.Run returns is the completion event, read after everything
\* else of its stream, of a run that returned and whose directory is gone.
THEOREM ResultsAreFinal == SSpec => ResultIsFinal
<1> DEFINE Final(h) ==
       outcome[h] = "none" /\ outcome'[h] = "result" =>
         /\ read'[h] = Len(stream'[h])
         /\ stream[h][Len(stream[h])] = "completion"
         /\ h \notin dir /\ h \notin writing
         /\ reply[h] = "stream" /\ phase[h] = "returned" /\ verdict[h] # "error"
<1> DEFINE Typ == outcome \in [Requests -> {"none", "result", "remote", "closed", "local"}]
<1>1. Typ /\ IInv /\ StreamInv /\ [SNext]_svars => [\A h \in Requests : Final(h)]_svars
  <2> SUFFICES ASSUME Typ, IInv, StreamInv, SNext,
                      NEW h \in Requests, outcome[h] = "none", outcome'[h] = "result"
               PROVE  /\ read'[h] = Len(stream'[h])
                      /\ stream[h][Len(stream[h])] = "completion"
                      /\ h \notin dir /\ h \notin writing
                      /\ reply[h] = "stream" /\ phase[h] = "returned" /\ verdict[h] # "error"
    OBVIOUS
  <2>1. drain(h) /\ stream[h][read[h] + 1] = "completion"
    BY DEF SNext, Client, errorReply, event, closeBody, interrupt, connectionLost, Return
  <2> DEFINE i == read[h] + 1
  <2>2. /\ i \in 1 .. Len(stream[h]) /\ read'[h] = i /\ stream' = stream
        /\ stream[h] \in Seq(Events) /\ Len(stream[h]) \in Nat
    <3>1. stream \in [Requests -> Seq(Events)] /\ read \in [Requests -> Nat]
      BY DEF StreamInv, Typed, TypeOK
    <3>2. stream[h] \in Seq(Events) /\ Len(stream[h]) \in Nat /\ read[h] \in Nat
      BY <3>1, SMTT(30)
    <3>3. /\ read[h] < Len(stream[h]) /\ read' = [read EXCEPT ![h] = @ + 1] /\ stream' = stream
      BY <2>1 DEF drain
    <3>4. read'[h] = read[h] + 1
      BY <3>1, <3>3
    <3>5. i \in 1 .. Len(stream[h])
      BY <3>2, <3>3, SMTT(30)
    <3> HIDE DEF i
    <3>6. read'[h] = i
      BY <3>4 DEF i
    <3> QED BY <3>2, <3>3, <3>5, <3>6
  <2> HIDE DEF i
  <2>3. stream[h][i] = "completion"
    BY <2>1 DEF i
  <2>4. /\ i = Len(stream[h]) /\ phase[h] = "returned" /\ verdict[h] # "error"
        /\ reply[h] = "stream"
    <3> DEFINE s == stream[h]
    <3>1. LET At(e) == {k \in 1 .. Len(s) : s[k] = e}
          IN /\ Len(s) > 0 => reply[h] = "stream"
             /\ \A k \in At("completion") :
                  k = Len(s) /\ phase[h] = "returned" /\ verdict[h] # "error"
      BY InOrder DEF StreamInOrder
    <3>2. i \in {k \in 1 .. Len(s) : s[k] = "completion"} /\ Len(s) > 0
      BY <2>2, <2>3, SMTT(30)
    <3> HIDE DEF s
    <3>3. i = Len(s) /\ phase[h] = "returned" /\ verdict[h] # "error" /\ reply[h] = "stream"
      BY <3>1, <3>2
    <3> QED BY <3>3 DEF s
  <2>5. h \notin dir /\ hpc[h] # "wait"
    BY <2>2, <2>3 DEF IInv, SaidIsTrue, Said
  <2>6. h \notin writing
    BY <2>5 DEF StreamInv, Good, Judged
  <2> QED BY <2>2, <2>3, <2>4, <2>5, <2>6
<1> QED BY <1>1, StreamInvariant, Outcomes, PTL DEF SSpec, ResultIsFinal
===========================================================================
