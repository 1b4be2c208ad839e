--------------------------- MODULE MicrovmProofs --------------------------
(***************************************************************************)
(* The Firecracker executor, for any number of runs, job IDs, calls of     *)
(* Kill and frames: its safety invariants; that it implements the abstract *)
(* executor; that a Kill reaches only the run it found; and how large the  *)
(* image of a run and the frames of its guest can become.                  *)
(***************************************************************************)
EXTENDS Microvm, Sizes, TLAPS

\* Leaves are for Zenon unless they name another prover.
USE ZenonT(30)

---------------------------------------------------------------------------
(* Sizes.                                                                  *)

(***************************************************************************)
(* The image that workspaceImageSize asks for is always larger than the    *)
(* extracted workspace by the tenth and the 8 MiB of headroom that Needed  *)
(* adds, whatever the provider's ceiling.  It exceeds the ceiling of       *)
(* MaxDiskMB only when the workspace with its headroom does, and then it   *)
(* is no larger than that.                                                 *)
(***************************************************************************)
THEOREM ImageHoldsWorkspace ==
  ASSUME NEW content \in Nat, NEW diskMB \in Int,
         NEW maxDiskMB \in Int, minGuestDiskMB <= maxDiskMB
  PROVE  /\ imageBytes(content, diskMB, maxDiskMB) >= Needed(content)
         /\ imageBytes(content, diskMB, maxDiskMB) > content
         /\ \/ imageBytes(content, diskMB, maxDiskMB) <= maxDiskMB * MiB
            \/ imageBytes(content, diskMB, maxDiskMB) = Needed(content)
  BY SMTT(60) DEF imageBytes, workspaceImageSize, clampInt, Needed, minGuestDiskMB, MiB

(***************************************************************************)
(* A workspace that Extract has accepted fits in the disk the job asked    *)
(* for, so its image is the one requested, or, up to headroom and the      *)
(* least size of 64 MiB, no larger than it.                                *)
(***************************************************************************)
THEOREM RequestBoundsImage ==
  ASSUME NEW content \in Nat, NEW diskMB \in Nat \ {0},
         NEW maxDiskMB \in Int, minGuestDiskMB <= maxDiskMB,
         content <= extractionLimit(diskMB)
  PROVE  \/ imageBytes(content, diskMB, maxDiskMB) <= minGuestDiskMB * MiB
         \/ imageBytes(content, diskMB, maxDiskMB) <= Needed(diskMB * MiB)
  BY SMTT(60) DEF imageBytes, workspaceImageSize, clampInt, Needed, minGuestDiskMB, MiB,
         extractionLimit, maxWorkspaceBytes

(***************************************************************************)
(* An artifact that sendArtifacts may send never exceeds the frame that    *)
(* readGuest's scanner accepts, so returning one cannot turn a job's       *)
(* result into "guest_crash".                                              *)
(***************************************************************************)
THEOREM ArtifactFitsFrame ==
  ASSUME NEW n \in Nat, n <= maxArtifactBytes
  PROVE  EncodedBytes(n) + FrameOverhead < maxGuestMessageBytes
  BY SMTT(60) DEF EncodedBytes, FrameOverhead, maxArtifactBytes, maxGuestMessageBytes, MiB

---------------------------------------------------------------------------
\* The statements before the guest is started.
Before == {"idle", "refused", "mkdir", "mkfs", "cgroup", "tap", "listen", "start",
           "addProcess", "configure"}

\* No guest before configureVM has started it.
GuestOff ==
  \A r \in Runs : pc[r] \in Before => guest[r] = "off"

\* addProcess comes before configureVM: the VM is in its cgroup by then.
PlacedFirst ==
  \A r \in Runs : pc[r] = "configure" /\ proc[r] = "running" => r \in member

\* The tap statements are reached by egress jobs only.
TapForEgress ==
  \A r \in Runs : pc[r] \in {"tap", "untap"} => r \in Egress

\* There is no directory before MkdirTemp and after the deferred RemoveAll.
DirGone ==
  \A r \in Runs : pc[r] \in {"mkdir", "cancel", "unregister"} => r \notin dir

\* The inductive invariant.
IInv ==
  /\ TypeOK
  /\ OneRunPerId
  /\ NamesKept
  /\ NoDebris
  /\ VmConfined
  /\ GuestOff /\ PlacedFirst /\ TapForEgress /\ DirGone

---------------------------------------------------------------------------
(* Types.                                                                  *)

\* The results Run builds are results.
LEMMA ResultFacts ==
  /\ \A x \in Reasons : Ok(x) \in Results /\ Err(x) \in Results
  /\ \A x \in GuestReasons : Reported(x) \in Results
  /\ \A c : classifyContext(c) \in Reasons
  /\ {"executor_error", "guest_crash"} \subseteq Reasons
  /\ \A r \in Runs : ScanEnds(r) \in Results
BY DEF Ok, Err, Reported, Results, Reasons, classifyContext, ScanEnds

\* A result frame gives one of the guest's reasons.
LEMMA FrameFacts ==
  /\ \A f \in Frames : f.type = "result" => f.reason \in GuestReasons
  /\ Frame("garbled", "none") \in Frames
<1>1. \A x : Frame("result", x).reason = x
  BY DEF Frame
<1>2. \A t : Frame(t, "none").type = t
  BY DEF Frame
<1>3. ASSUME NEW f \in Frames, f.type = "result" PROVE f.reason \in GuestReasons
  <2>1. CASE \E t \in {"data", "skip", "noResult", "garbled", "oversized"} : f = Frame(t, "none")
    BY <2>1, <1>2, <1>3
  <2>2. CASE \E x \in GuestReasons : f = Frame("result", x)
    BY <2>2, <1>1
  <2> QED BY <2>1, <2>2 DEF Frames
<1>4. Frame("garbled", "none") \in Frames
  BY DEF Frames
<1> QED BY <1>3, <1>4

\* A step of Run keeps the type of pc.
LEMMA GotoType ==
  ASSUME TypeOK, NEW r \in Runs, NEW from, NEW to \in Steps, Goto(r, from, to)
  PROVE  pc' \in [Runs -> Steps]
BY DEF TypeOK, Goto

\* A return statement keeps the types of pc and result.
LEMMA ReturnType ==
  ASSUME TypeOK, NEW r \in Runs, NEW from, NEW res \in Results, NEW to \in Steps,
         Return(r, from, res, to)
  PROVE  pc' \in [Runs -> Steps] /\ result' \in [Runs -> Results]
BY DEF TypeOK, Goto, Return

\* Every statement of Run keeps the types.
LEMMA RunType ==
  ASSUME TypeOK, NEW r \in Runs, Run(r)
  PROVE  TypeOK'
<1> USE IdOfAssumption, MaxFramesAssumption DEF runVars, hostVars, guestVars, killVars
<1>1. CASE register(r)
  <2>1. pc' \in [Runs -> Steps] /\ result' \in [Runs -> Results]
    BY <1>1, GotoType, ReturnType, ResultFacts DEF register, Steps, Alive, AfterClose, TypeOK
  <2>2. QED BY <1>1, <2>1 DEF register, TypeOK
<1>2. CASE refuse(r)
  <2>1. pc' \in [Runs -> Steps] /\ result' \in [Runs -> Results]
    BY <1>2, GotoType, ReturnType, ResultFacts DEF refuse, Steps, Alive, AfterClose, TypeOK
  <2>2. QED BY <1>2, <2>1 DEF refuse, Contexts, TypeOK
<1>3. CASE MkdirTemp(r)
  <2>1. pc' \in [Runs -> Steps] /\ result' \in [Runs -> Results]
    BY <1>3, GotoType, ReturnType, ResultFacts DEF MkdirTemp, Steps, Alive, AfterClose, TypeOK
  <2>2. QED BY <1>3, <2>1 DEF MkdirTemp, TypeOK
<1>4. CASE mkfs(r)
  <2>1. pc' \in [Runs -> Steps] /\ result' \in [Runs -> Results]
    BY <1>4, GotoType, ReturnType, ResultFacts DEF mkfs, Steps, Alive, AfterClose, TypeOK
  <2>2. QED BY <1>4, <2>1 DEF mkfs, TypeOK
<1>5. CASE newCgroup(r)
  <2>1. pc' \in [Runs -> Steps] /\ result' \in [Runs -> Results]
    BY <1>5, GotoType, ReturnType, ResultFacts DEF newCgroup, Steps, Alive, AfterClose, TypeOK
  <2>2. QED BY <1>5, <2>1 DEF newCgroup, TypeOK
<1>6. CASE setupTap(r)
  <2>1. pc' \in [Runs -> Steps] /\ result' \in [Runs -> Results]
    BY <1>6, GotoType, ReturnType, ResultFacts DEF setupTap, Steps, Alive, AfterClose, TypeOK
  <2>2. QED BY <1>6, <2>1 DEF setupTap, TypeOK
<1>7. CASE Listen(r)
  <2>1. pc' \in [Runs -> Steps] /\ result' \in [Runs -> Results]
    BY <1>7, GotoType, ReturnType, ResultFacts DEF Listen, Steps, Alive, AfterClose, TypeOK
  <2>2. QED BY <1>7, <2>1 DEF Listen, TypeOK
<1>8. CASE Start(r)
  <2>1. pc' \in [Runs -> Steps] /\ result' \in [Runs -> Results]
    BY <1>8, GotoType, ReturnType, ResultFacts DEF Start, Steps, Alive, AfterClose, TypeOK
  <2>2. QED BY <1>8, <2>1 DEF Start, TypeOK
<1>9. CASE addProcess(r)
  <2>1. pc' \in [Runs -> Steps] /\ result' \in [Runs -> Results]
    BY <1>9, GotoType, ReturnType, ResultFacts DEF addProcess, Steps, Alive, AfterClose, TypeOK
  <2>2. QED BY <1>9, <2>1 DEF addProcess, TypeOK
<1>10. CASE configureVM(r)
  <2>1. pc' \in [Runs -> Steps] /\ result' \in [Runs -> Results]
    BY <1>10, GotoType, ReturnType, ResultFacts DEF configureVM, Steps, Alive, AfterClose, TypeOK
  <2>2. QED BY <1>10, <2>1 DEF configureVM, TypeOK
<1>11. CASE acceptGuest(r)
  <2>1. pc' \in [Runs -> Steps] /\ result' \in [Runs -> Results]
    BY <1>11, GotoType, ReturnType, ResultFacts DEF acceptGuest, Steps, Alive, AfterClose, TypeOK
  <2>2. QED BY <1>11, <2>1 DEF acceptGuest, TypeOK
<1>12. CASE sendJob(r)
  <2>1. pc' \in [Runs -> Steps] /\ result' \in [Runs -> Results]
    BY <1>12, GotoType, ReturnType, ResultFacts DEF sendJob, Steps, Alive, AfterClose, TypeOK
  <2>2. QED BY <1>12, <2>1 DEF sendJob, TypeOK
<1>13. CASE readFrame(r)
  <2> DEFINE frame == Head(wire[r])
  <2>a. frame \in Frames
    BY <1>13, SMTT(30) DEF readFrame, TypeOK
  <2>b. frame.type = "result" => Reported(frame.reason) \in Results
    BY <2>a, FrameFacts, ResultFacts
  <2>1. pc' \in [Runs -> Steps] /\ result' \in [Runs -> Results]
    BY <1>13, <2>b, GotoType, ReturnType, ResultFacts DEF readFrame, Steps, Alive, TypeOK
  <2>2. wire' \in [Runs -> Seq(Frames)]
    BY <1>13, SMTT(30) DEF readFrame, TypeOK
  <2>3. QED BY <1>13, <2>1, <2>2 DEF readFrame, TypeOK
<1>14. CASE readEOF(r)
  <2>1. pc' \in [Runs -> Steps] /\ result' \in [Runs -> Results]
    BY <1>14, GotoType, ReturnType, ResultFacts DEF readEOF, Steps, Alive, AfterClose, TypeOK
  <2>2. QED BY <1>14, <2>1 DEF readEOF, TypeOK
<1>15. CASE killed(r)
  <2>1. pc' \in [Runs -> Steps] /\ result' \in [Runs -> Results]
    BY <1>15, GotoType, ReturnType, ResultFacts DEF killed, Steps, Alive, AfterClose, TypeOK
  <2>2. QED BY <1>15, <2>1 DEF killed, TypeOK
<1>16. CASE closeConn(r)
  <2>1. pc' \in [Runs -> Steps] /\ result' \in [Runs -> Results]
    BY <1>16, GotoType, ReturnType, ResultFacts DEF closeConn, Steps, Alive, AfterClose, TypeOK
  <2>2. wire' \in [Runs -> Seq(Frames)] /\ sent' \in [Runs -> 0 .. MaxFrames]
    BY <1>16, SMTT(30) DEF closeConn, TypeOK
  <2>3. QED BY <1>16, <2>1, <2>2 DEF closeConn, TypeOK
<1>17. CASE teardownTap(r)
  <2>1. pc' \in [Runs -> Steps] /\ result' \in [Runs -> Results]
    BY <1>17, GotoType, ReturnType, ResultFacts DEF teardownTap, Steps, Alive, AfterClose, TypeOK
  <2>2. QED BY <1>17, <2>1 DEF teardownTap, TypeOK
<1>18. CASE deleteCgroup(r)
  <2>1. pc' \in [Runs -> Steps] /\ result' \in [Runs -> Results]
    BY <1>18, GotoType, ReturnType, ResultFacts DEF deleteCgroup, Steps, Alive, AfterClose, TypeOK
  <2>2. QED BY <1>18, <2>1 DEF deleteCgroup, TypeOK
<1>19. CASE removeDir(r)
  <2>1. pc' \in [Runs -> Steps] /\ result' \in [Runs -> Results]
    BY <1>19, GotoType, ReturnType, ResultFacts DEF removeDir, Steps, Alive, AfterClose, TypeOK
  <2>2. QED BY <1>19, <2>1 DEF removeDir, TypeOK
<1>20. CASE cancelCtx(r)
  <2>1. pc' \in [Runs -> Steps] /\ result' \in [Runs -> Results]
    BY <1>20, GotoType, ReturnType, ResultFacts DEF cancelCtx, Steps, Alive, AfterClose, TypeOK
  <2>2. QED BY <1>20, <2>1 DEF cancelCtx, TypeOK, Contexts, Done
<1>21. CASE unregister(r)
  <2>1. pc' \in [Runs -> Steps] /\ result' \in [Runs -> Results]
    BY <1>21, GotoType, ReturnType, ResultFacts DEF unregister, Steps, Alive, AfterClose, TypeOK
  <2>2. QED BY <1>21, <2>1 DEF unregister, TypeOK
<1> QED BY <1>1, <1>2, <1>3, <1>4, <1>5, <1>6, <1>7, <1>8, <1>9, <1>10, <1>11,
           <1>12, <1>13, <1>14, <1>15, <1>16, <1>17, <1>18, <1>19, <1>20, <1>21 DEF Run

\* The end of a VM process keeps the types.
LEMMA ExitType ==
  ASSUME TypeOK, NEW r \in Runs, exitProc(r)
  PROVE  TypeOK'
<1> USE DEF runVars, killVars
<1>1. proc' \in [Runs -> {"none", "running", "exited"}]
      /\ guest' \in [Runs -> {"off", "booting", "dialed", "closed"}]
      /\ member' \subseteq Runs
  BY DEF exitProc, TypeOK
<1> QED BY <1>1 DEF exitProc, TypeOK

\* So does everything that goes on beside a run.
LEMMA BesideType ==
  ASSUME TypeOK, NEW r \in Runs,
         \/ Guest(r) \/ deadline(r) \/ hangUp(r) \/ parentDone(r)
         \/ contextKill(r) \/ signal(r) \/ vmExit(r)
         \/ forwardCancel(r) \/ replyTimeout(r)
  PROVE  TypeOK'
<1> USE MaxFramesAssumption DEF runVars, hostVars, guestVars, killVars
<1>1. CASE deadline(r) \/ hangUp(r) \/ parentDone(r)
  <2>1. CASE deadline(r)
    BY <2>1 DEF deadline, Cancel, Done, Contexts, TypeOK
  <2>2. CASE hangUp(r)
    BY <2>2 DEF hangUp, Cancel, Done, Contexts, TypeOK
  <2>3. CASE parentDone(r)
    BY <2>3 DEF parentDone, Cancel, Done, Contexts, TypeOK
  <2> QED BY <1>1, <2>1, <2>2, <2>3
<1>2. CASE contextKill(r) \/ signal(r) \/ vmExit(r)
  BY <1>2, ExitType DEF contextKill, signal, vmExit
<1>3. CASE forwardCancel(r)
  BY <1>3 DEF forwardCancel, TypeOK
<1>4. CASE replyTimeout(r)
  <2> DEFINE torn == Frame("garbled", "none")
  <2>1. PICK n \in 0 .. Len(wire[r]) :
               \/ wire' = [wire EXCEPT ![r] = SubSeq(@, 1, n)]
               \/ wire' = [wire EXCEPT ![r] = Append(SubSeq(@, 1, n), torn)]
    BY <1>4 DEF replyTimeout
  <2>2. torn \in Frames
    BY FrameFacts
  <2> HIDE DEF torn
  <2>3. SubSeq(wire[r], 1, n) \in Seq(Frames)
    BY SMTT(30) DEF TypeOK
  <2>4. Append(SubSeq(wire[r], 1, n), torn) \in Seq(Frames)
    BY <2>2, <2>3, SMTT(30)
  <2>5. wire' \in [Runs -> Seq(Frames)]
    BY <2>1, <2>3, <2>4 DEF TypeOK
  <2> QED BY <1>4, <2>5 DEF replyTimeout, TypeOK
<1>5. CASE guestDial(r) \/ guestClose(r)
  BY <1>5 DEF guestDial, guestClose, TypeOK
<1>6. ASSUME NEW frame \in Frames, guestSend(r, frame) PROVE TypeOK'
  <2>1. wire' \in [Runs -> Seq(Frames)]
    BY <1>6, SMTT(30) DEF guestSend, TypeOK
  <2>2. sent' \in [Runs -> 0 .. MaxFrames]
    BY <1>6, SMTT(30) DEF guestSend, TypeOK
  <2> QED BY <1>6, <2>1, <2>2 DEF guestSend, TypeOK
<1> QED BY <1>1, <1>2, <1>3, <1>4, <1>5, <1>6 DEF Guest

\* Kill keeps the types.
LEMMA KillType ==
  ASSUME TypeOK, NEW k \in Killers, Kill(k)
  PROVE  TypeOK'
<1> USE DEF runVars, hostVars, guestVars
<1>1. ASSUME NEW i \in Ids, killLookup(k, i) PROVE TypeOK'
  BY <1>1 DEF killLookup, TypeOK
<1>2. CASE killCancel(k)
  <2>1. ctx' \in [Runs -> Contexts]
    BY <1>2 DEF killCancel, Cancel, Contexts, TypeOK
  <2> QED BY <1>2, <2>1 DEF killCancel, TypeOK
<1> QED BY <1>1, <1>2 DEF Kill

\* Every step keeps the types.
LEMMA TypeStep == TypeOK /\ [Next]_vars => TypeOK'
<1> SUFFICES ASSUME TypeOK, [Next]_vars PROVE TypeOK'
  OBVIOUS
<1>1. CASE Next
  BY <1>1, RunType, BesideType, KillType DEF Next
<1>2. CASE UNCHANGED vars
  BY <1>2 DEF vars, runVars, hostVars, guestVars, killVars, TypeOK
<1> QED BY <1>1, <1>2

---------------------------------------------------------------------------
(* Control: what a statement of Run does to pc and to the names.           *)

\* A statement that creates and removes nothing on the host: the run stays in
\* progress, enters no section in which it would need a cgroup or a TAP device it
\* did not have, and leaves none in which it has one.
Quiet(r) ==
  /\ UNCHANGED <<running, dir, cgroup, tap>>
  /\ pc' = [pc EXCEPT ![r] = pc'[r]]
  /\ pc[r] \in Alive /\ pc'[r] \in Alive
  /\ pc'[r] \in NeedsCgroup => pc[r] \in NeedsCgroup
  /\ r \in Egress => (pc'[r] \in NeedsTap <=> pc[r] \in NeedsTap)
  /\ pc'[r] = "tap" => r \in Egress
  /\ pc'[r] = "untap" => r \in Egress
  /\ pc'[r] \in {"mkdir", "cancel", "unregister"} => pc[r] = "cancel"

\* The statements between the creation and the removal of the host objects.
Middle(r) ==
  \/ mkfs(r) \/ Listen(r) \/ Start(r)
  \/ addProcess(r) \/ configureVM(r) \/ acceptGuest(r) \/ sendJob(r)
  \/ readFrame(r) \/ readEOF(r) \/ killed(r) \/ closeConn(r)
  \/ cancelCtx(r)

\* Those statements are quiet.
LEMMA MiddleIsQuiet ==
  ASSUME TypeOK, NEW r \in Runs, Middle(r)
  PROVE  Quiet(r)
<1> pc \in [Runs -> Steps]
  BY DEF TypeOK
<1> USE DEF Quiet, Goto, Return, AfterClose, Alive, NeedsCgroup, NeedsTap, hostVars
<1>1. CASE mkfs(r)
  BY <1>1 DEF mkfs
<1>2. CASE Listen(r)
  BY <1>2 DEF Listen
<1>3. CASE Start(r)
  BY <1>3 DEF Start
<1>4. CASE addProcess(r)
  BY <1>4 DEF addProcess
<1>5. CASE configureVM(r)
  BY <1>5 DEF configureVM
<1>6. CASE acceptGuest(r)
  BY <1>6 DEF acceptGuest
<1>7. CASE sendJob(r)
  BY <1>7 DEF sendJob
<1>8. CASE readFrame(r)
  BY <1>8 DEF readFrame
<1>9. CASE readEOF(r)
  BY <1>9 DEF readEOF
<1>10. CASE killed(r)
  BY <1>10 DEF killed
<1>11. CASE closeConn(r)
  BY <1>11 DEF closeConn
<1>12. CASE cancelCtx(r)
  BY <1>12 DEF cancelCtx
<1> QED BY <1>1, <1>2, <1>3, <1>4, <1>5, <1>6, <1>7, <1>8, <1>9, <1>10, <1>11, <1>12 DEF Middle

\* A quiet statement keeps what the invariant says of the names.
LEMMA QuietKeeps ==
  ASSUME IInv, NEW r \in Runs, Quiet(r)
  PROVE  OneRunPerId' /\ NamesKept' /\ NoDebris' /\ TapForEgress' /\ DirGone'
<1> pc \in [Runs -> Steps]
  BY DEF IInv, TypeOK
<1> \A q \in Runs : q # r => pc'[q] = pc[q]
  BY DEF Quiet
<1>1. OneRunPerId'
  BY DEF IInv, OneRunPerId, Quiet
<1>2. NamesKept'
  BY DEF IInv, NamesKept, Quiet
<1>3. NoDebris'
  <2>1. \A q \in dir' : pc'[q] \in Alive
    BY DEF IInv, TypeOK, NoDebris, Quiet
  <2>2. ASSUME NEW i \in tap'
        PROVE  \E q \in Egress : IdOf[q] = i /\ pc'[q] \in NeedsTap
    <3>1. PICK q \in Egress : IdOf[q] = i /\ pc[q] \in NeedsTap
      BY <2>2 DEF IInv, NoDebris, Quiet
    <3>2. pc'[q] \in NeedsTap
      BY <3>1, EgressAssumption DEF Quiet
    <3> QED BY <3>1, <3>2
  <2> QED BY <2>1, <2>2 DEF NoDebris
<1>4. TapForEgress'
  BY DEF IInv, TapForEgress, Quiet
<1>5. DirGone'
  BY DEF IInv, DirGone, Quiet
<1> QED BY <1>1, <1>2, <1>3, <1>4, <1>5

---------------------------------------------------------------------------
(* The statements that register, create and remove.                        *)

\* They keep what the invariant says of the names; the argument is that no other
\* run of the job ID is in progress (OneRunPerId) when a name is given up.
LEMMA NamesStep ==
  ASSUME IInv, NEW r \in Runs, Run(r)
  PROVE  OneRunPerId' /\ NamesKept' /\ NoDebris' /\ TapForEgress' /\ DirGone'
<1> TypeOK /\ OneRunPerId /\ NamesKept /\ NoDebris /\ TapForEgress /\ DirGone
  BY DEF IInv
<1> pc \in [Runs -> Steps] /\ running \in [Ids -> Runs \union {NoRun}]
    /\ dir \subseteq Runs /\ tap \subseteq Ids /\ cgroup \subseteq Ids
  BY DEF TypeOK
<1> USE IdOfAssumption, EgressAssumption, NoRunAssumption DEF Goto, Return
<1>1. CASE Middle(r)
  BY <1>1, MiddleIsQuiet, QuietKeeps
<1>2. CASE register(r)
  <2> /\ pc[r] = "idle" /\ pc' = [pc EXCEPT ![r] = "mkdir"]
      /\ running[IdOf[r]] = NoRun /\ running' = [running EXCEPT ![IdOf[r]] = r]
      /\ UNCHANGED <<dir, cgroup, tap>>
    BY <1>2 DEF register, hostVars
  <2>1. OneRunPerId'
    BY SMTT(30) DEF OneRunPerId, Alive
  <2>2. NamesKept'
    BY DEF NamesKept, NeedsCgroup, NeedsTap
  <2>3. NoDebris'
    BY SMTT(30) DEF NoDebris, Alive, NeedsCgroup, NeedsTap
  <2>4. TapForEgress'
    BY DEF TapForEgress
  <2>5. DirGone'
    BY DEF DirGone, NoDebris, Alive
  <2> QED BY <2>1, <2>2, <2>3, <2>4, <2>5
<1>3. CASE refuse(r)
  <2> /\ pc[r] = "idle" /\ pc' = [pc EXCEPT ![r] = "refused"]
      /\ UNCHANGED <<running, dir, cgroup, tap>>
    BY <1>3 DEF refuse, hostVars
  <2>1. OneRunPerId' /\ TapForEgress' /\ DirGone'
    BY SMTT(30) DEF OneRunPerId, Alive, TapForEgress, DirGone
  <2>2. NamesKept' /\ NoDebris'
    BY SMTT(30) DEF NamesKept, NoDebris, Alive, NeedsCgroup, NeedsTap
  <2> QED BY <2>1, <2>2
<1>4. CASE MkdirTemp(r)
  <2> /\ pc[r] = "mkdir"
      /\ \/ pc' = [pc EXCEPT ![r] = "mkfs"] /\ dir' = dir \union {r}
         \/ pc' = [pc EXCEPT ![r] = "cancel"] /\ dir' = dir
      /\ UNCHANGED <<running, cgroup, tap>>
    BY <1>4 DEF MkdirTemp
  <2>1. OneRunPerId' /\ TapForEgress'
    BY SMTT(30) DEF OneRunPerId, Alive, TapForEgress
  <2>2. NamesKept'
    BY SMTT(30) DEF NamesKept, NeedsCgroup, NeedsTap
  <2>3. NoDebris'
    BY SMTT(30) DEF NoDebris, Alive, NeedsCgroup, NeedsTap
  <2>4. DirGone'
    BY SMTT(30) DEF DirGone
  <2> QED BY <2>1, <2>2, <2>3, <2>4
<1>5. CASE newCgroup(r)
  <2> /\ pc[r] = "cgroup"
      /\ \/ /\ pc' = [pc EXCEPT ![r] = IF r \in Egress THEN "tap" ELSE "listen"]
            /\ cgroup' = cgroup \union {IdOf[r]}
         \/ pc' = [pc EXCEPT ![r] = "undir"] /\ cgroup' = cgroup
      /\ UNCHANGED <<running, dir, tap>>
    BY <1>5 DEF newCgroup
  <2>1. OneRunPerId' /\ TapForEgress' /\ DirGone'
    BY SMTT(30) DEF OneRunPerId, Alive, TapForEgress, DirGone
  <2>2. NamesKept'
    BY SMTT(30) DEF NamesKept, NeedsCgroup, NeedsTap
  <2>3. NoDebris'
    BY SMTT(30) DEF NoDebris, Alive, NeedsCgroup, NeedsTap
  <2> QED BY <2>1, <2>2, <2>3
<1>6. CASE setupTap(r)
  <2> /\ pc[r] = "tap" /\ r \in Egress
      /\ \/ pc' = [pc EXCEPT ![r] = "listen"] /\ tap' = tap \union {IdOf[r]}
         \/ pc' = [pc EXCEPT ![r] = "uncgroup"] /\ tap' = tap
      /\ UNCHANGED <<running, dir, cgroup>>
    BY <1>6 DEF setupTap, TapForEgress
  <2>1. OneRunPerId' /\ TapForEgress' /\ DirGone'
    BY SMTT(30) DEF OneRunPerId, Alive, TapForEgress, DirGone
  <2>2. NamesKept'
    BY SMTT(30) DEF NamesKept, NeedsCgroup, NeedsTap
  <2>3. NoDebris'
    BY SMTT(30) DEF NoDebris, Alive, NeedsCgroup, NeedsTap
  <2> QED BY <2>1, <2>2, <2>3
<1>7. CASE teardownTap(r)
  <2> /\ pc[r] = "untap" /\ pc' = [pc EXCEPT ![r] = "uncgroup"]
      /\ tap' = tap \ {IdOf[r]}
      /\ UNCHANGED <<running, dir, cgroup>>
    BY <1>7 DEF teardownTap
  <2>1. OneRunPerId' /\ TapForEgress' /\ DirGone'
    BY SMTT(30) DEF OneRunPerId, Alive, TapForEgress, DirGone
  <2>2. \A q \in Runs : q # r /\ IdOf[q] = IdOf[r] => pc[q] \notin Alive
    BY SMTT(30) DEF OneRunPerId, Alive
  <2>3. NamesKept'
    BY <2>2 DEF NamesKept, NeedsCgroup, NeedsTap, Alive
  <2>4. NoDebris'
    BY SMTT(30) DEF NoDebris, Alive, NeedsCgroup, NeedsTap
  <2> QED BY <2>1, <2>3, <2>4
<1>8. CASE deleteCgroup(r)
  <2> /\ pc[r] = "uncgroup" /\ pc' = [pc EXCEPT ![r] = "undir"]
      /\ cgroup \ {IdOf[r]} \subseteq cgroup'
      /\ UNCHANGED <<running, dir, tap>>
    BY <1>8 DEF deleteCgroup
  <2>1. OneRunPerId' /\ TapForEgress' /\ DirGone'
    BY SMTT(30) DEF OneRunPerId, Alive, TapForEgress, DirGone
  <2>2. \A q \in Runs : q # r /\ IdOf[q] = IdOf[r] => pc[q] \notin Alive
    BY SMTT(30) DEF OneRunPerId, Alive
  <2>3. NamesKept'
    BY <2>2 DEF NamesKept, NeedsCgroup, NeedsTap, Alive
  <2>4. NoDebris'
    BY SMTT(30) DEF NoDebris, Alive, NeedsCgroup, NeedsTap
  <2> QED BY <2>1, <2>3, <2>4
<1>9. CASE removeDir(r)
  <2> /\ pc[r] = "undir" /\ pc' = [pc EXCEPT ![r] = "cancel"]
      /\ dir' = dir \ {r}
      /\ UNCHANGED <<running, cgroup, tap>>
    BY <1>9 DEF removeDir
  <2>1. OneRunPerId' /\ TapForEgress' /\ DirGone'
    BY SMTT(30) DEF OneRunPerId, Alive, TapForEgress, DirGone
  <2>2. NamesKept'
    BY DEF NamesKept, NeedsCgroup, NeedsTap
  <2>3. NoDebris'
    BY SMTT(30) DEF NoDebris, Alive, NeedsCgroup, NeedsTap
  <2> QED BY <2>1, <2>2, <2>3
<1>10. CASE unregister(r)
  <2> /\ pc[r] = "unregister" /\ pc' = [pc EXCEPT ![r] = "done"]
      /\ running' = [running EXCEPT ![IdOf[r]] = NoRun]
      /\ UNCHANGED <<dir, cgroup, tap>>
    BY <1>10 DEF unregister, hostVars
  <2>1. OneRunPerId'
    BY DEF OneRunPerId, Alive
  <2>2. NamesKept'
    BY DEF NamesKept, NeedsCgroup, NeedsTap
  <2>3. NoDebris'
    BY SMTT(30) DEF NoDebris, DirGone, Alive, NeedsCgroup, NeedsTap
  <2>4. TapForEgress' /\ DirGone'
    BY DEF TapForEgress, DirGone
  <2> QED BY <2>1, <2>2, <2>3, <2>4
<1> QED
  BY <1>1, <1>2, <1>3, <1>4, <1>5, <1>6, <1>7, <1>8, <1>9, <1>10 DEF Run, Middle

---------------------------------------------------------------------------
(* The VM process and its guest.                                           *)

\* The statements of Run keep a started guest confined: configureVM starts it
\* after addProcess, and the cgroup is not removed while a process is in it.
LEMMA GuestStep ==
  ASSUME IInv, NEW r \in Runs, Run(r)
  PROVE  VmConfined' /\ GuestOff' /\ PlacedFirst'
<1> TypeOK /\ NamesKept /\ VmConfined /\ GuestOff /\ PlacedFirst
  BY DEF IInv
<1> /\ pc \in [Runs -> Steps]
    /\ proc \in [Runs -> {"none", "running", "exited"}]
    /\ guest \in [Runs -> {"off", "booting", "dialed", "closed"}]
    /\ member \subseteq Runs
  BY DEF TypeOK
<1> USE IdOfAssumption DEF Goto, Return
<1>1. CASE Start(r)
  <2> /\ pc[r] = "start" /\ guest' = guest /\ member' = member /\ cgroup' = cgroup
      /\ \/ proc' = [proc EXCEPT ![r] = "running"] /\ pc' = [pc EXCEPT ![r] = "addProcess"]
         \/ proc' = proc /\ pc' = [pc EXCEPT ![r] = "close"]
    BY <1>1 DEF Start, hostVars, guestVars
  <2>1. guest[r] = "off"
    BY DEF GuestOff, Before
  <2>2. VmConfined'
    BY <2>1 DEF VmConfined
  <2>3. GuestOff' /\ PlacedFirst'
    BY DEF GuestOff, PlacedFirst, Before
  <2> QED BY <2>2, <2>3
<1>2. CASE addProcess(r)
  <2> /\ pc[r] = "addProcess" /\ guest' = guest /\ proc' = proc /\ cgroup' = cgroup
      /\ \/ member' = member \union {r} /\ pc' = [pc EXCEPT ![r] = "configure"]
         \/ member' = member /\ pc' = [pc EXCEPT ![r] = "kill"]
    BY <1>2 DEF addProcess, guestVars
  <2>1. VmConfined'
    BY DEF VmConfined
  <2>2. GuestOff' /\ PlacedFirst'
    BY DEF GuestOff, PlacedFirst, Before
  <2> QED BY <2>1, <2>2
<1>3. CASE configureVM(r)
  <2> /\ pc[r] = "configure" /\ proc' = proc /\ member' = member /\ cgroup' = cgroup
      /\ \/ /\ proc[r] = "running"
            /\ guest' = [guest EXCEPT ![r] = "booting"] /\ pc' = [pc EXCEPT ![r] = "accept"]
         \/ guest' = guest /\ pc' = [pc EXCEPT ![r] = "kill"]
         \/ /\ proc[r] = "running"
            /\ guest' = [guest EXCEPT ![r] = "booting"] /\ pc' = [pc EXCEPT ![r] = "kill"]
    BY <1>3 DEF configureVM, hostVars
  <2>1. IdOf[r] \in cgroup
    BY DEF NamesKept, NeedsCgroup
  <2>2. VmConfined'
    BY <2>1 DEF VmConfined, PlacedFirst
  <2>3. GuestOff' /\ PlacedFirst'
    BY DEF GuestOff, PlacedFirst, Before
  <2> QED BY <2>2, <2>3
<1>4. CASE deleteCgroup(r)
  <2> /\ pc[r] = "uncgroup" /\ pc' = [pc EXCEPT ![r] = "undir"]
      /\ cgroup' = IF Inside(IdOf[r]) = {} THEN cgroup \ {IdOf[r]} ELSE cgroup
      /\ proc' = proc /\ guest' = guest /\ member' = member
    BY <1>4 DEF deleteCgroup, guestVars
  <2>1. VmConfined'
    BY DEF VmConfined, Inside
  <2>2. GuestOff' /\ PlacedFirst'
    BY DEF GuestOff, PlacedFirst, Before
  <2> QED BY <2>1, <2>2
<1>5. CASE newCgroup(r)
  <2> /\ pc[r] = "cgroup" /\ cgroup \subseteq cgroup'
      /\ \/ pc' = [pc EXCEPT ![r] = IF r \in Egress THEN "tap" ELSE "listen"]
         \/ pc' = [pc EXCEPT ![r] = "undir"]
      /\ proc' = proc /\ guest' = guest /\ member' = member
    BY <1>5 DEF newCgroup, guestVars
  <2> QED BY DEF VmConfined, GuestOff, PlacedFirst, Before
<1>6. ASSUME /\ UNCHANGED <<proc, guest, member, cgroup>>
             /\ pc' = [pc EXCEPT ![r] = pc'[r]]
             /\ pc'[r] \in Before => pc[r] \in Before
             /\ pc'[r] # "configure"
      PROVE  VmConfined' /\ GuestOff' /\ PlacedFirst'
  BY <1>6 DEF VmConfined, GuestOff, PlacedFirst
<1> USE DEF hostVars, guestVars
<1>7. CASE register(r) \/ refuse(r) \/ MkdirTemp(r) \/ mkfs(r) \/ setupTap(r)
  <2> UNCHANGED <<proc, guest, member, cgroup>>
    BY <1>7 DEF register, refuse, MkdirTemp, mkfs, setupTap
  <2> /\ pc' = [pc EXCEPT ![r] = pc'[r]]
      /\ pc[r] \in Before
      /\ pc'[r] # "configure"
    BY <1>7 DEF register, refuse, MkdirTemp, mkfs, setupTap, Before
  <2> QED BY <1>6
<1>8. CASE Listen(r) \/ acceptGuest(r) \/ sendJob(r) \/ readEOF(r) \/ killed(r)
  <2> UNCHANGED <<proc, guest, member, cgroup>>
    BY <1>8 DEF Listen, acceptGuest, sendJob, readEOF, killed
  <2> /\ pc' = [pc EXCEPT ![r] = pc'[r]]
      /\ pc'[r] \in Before => pc[r] \in Before
      /\ pc'[r] # "configure"
    BY <1>8 DEF Listen, acceptGuest, sendJob, readEOF, killed, AfterClose, Before
  <2> QED BY <1>6
<1>9. CASE readFrame(r)
  <2> UNCHANGED <<proc, guest, member, cgroup>>
    BY <1>9 DEF readFrame
  <2> /\ pc' = [pc EXCEPT ![r] = pc'[r]]
      /\ pc'[r] \in Before => pc[r] \in Before
      /\ pc'[r] # "configure"
    BY <1>9 DEF readFrame, Before
  <2> QED BY <1>6
<1>10. CASE closeConn(r) \/ teardownTap(r) \/ removeDir(r) \/ cancelCtx(r) \/ unregister(r)
  <2> UNCHANGED <<proc, guest, member, cgroup>>
    BY <1>10 DEF closeConn, teardownTap, removeDir, cancelCtx, unregister
  <2> /\ pc' = [pc EXCEPT ![r] = pc'[r]]
      /\ pc'[r] \in Before => pc[r] \in Before
      /\ pc'[r] # "configure"
    BY <1>10 DEF closeConn, teardownTap, removeDir, cancelCtx, unregister, AfterClose, Before
  <2> QED BY <1>6
<1> QED
  BY <1>1, <1>2, <1>3, <1>4, <1>5, <1>7, <1>8, <1>9, <1>10 DEF Run

\* What goes on beside the runs keeps the invariant: it moves no run, and takes a VM
\* process out of its cgroup only when it ends.
LEMMA BesideStep ==
  ASSUME IInv, NEW r \in Runs,
         \/ Guest(r) \/ deadline(r) \/ hangUp(r) \/ parentDone(r)
         \/ contextKill(r) \/ signal(r) \/ vmExit(r)
         \/ forwardCancel(r) \/ replyTimeout(r)
  PROVE  IInv'
<1> TypeOK /\ TypeOK'
  BY BesideType DEF IInv
<1> USE DEF runVars, hostVars, killVars, guestVars
<1>1. UNCHANGED <<running, pc, dir, cgroup, tap>>
  BY DEF Guest, guestDial, guestClose, guestSend, deadline, hangUp, parentDone,
         contextKill, signal, vmExit, exitProc, forwardCancel, replyTimeout
<1>2. OneRunPerId' /\ NamesKept' /\ NoDebris' /\ TapForEgress' /\ DirGone'
  BY <1>1 DEF IInv, OneRunPerId, NamesKept, NoDebris, TapForEgress, DirGone
<1>3. VmConfined' /\ GuestOff' /\ PlacedFirst'
  <2> /\ VmConfined /\ GuestOff /\ PlacedFirst
      /\ proc \in [Runs -> {"none", "running", "exited"}]
      /\ guest \in [Runs -> {"off", "booting", "dialed", "closed"}]
    BY DEF IInv, TypeOK
  <2>1. CASE exitProc(r)
    <3> /\ proc' = [proc EXCEPT ![r] = "exited"] /\ member' = member \ {r}
        /\ guest' = [guest EXCEPT ![r] = IF @ \in {"dialed", "closed"} THEN "closed" ELSE "off"]
      BY <2>1 DEF exitProc
    <3>1. VmConfined'
      BY <1>1 DEF VmConfined
    <3>2. GuestOff' /\ PlacedFirst'
      BY <1>1 DEF GuestOff, PlacedFirst
    <3> QED BY <3>1, <3>2
  <2>2. CASE guestDial(r) \/ guestClose(r)
    <3> /\ proc' = proc /\ member' = member /\ guest[r] \in {"booting", "dialed"}
        /\ guest' = [guest EXCEPT ![r] = guest'[r]]
      BY <2>2 DEF guestDial, guestClose
    <3> QED BY <1>1 DEF VmConfined, GuestOff, PlacedFirst
  <2>3. CASE UNCHANGED <<proc, member, guest>>
    BY <1>1, <2>3 DEF VmConfined, GuestOff, PlacedFirst
  <2>4. exitProc(r) \/ guestDial(r) \/ guestClose(r) \/ UNCHANGED <<proc, member, guest>>
    BY DEF Guest, guestSend, deadline, hangUp, parentDone, contextKill, signal, vmExit,
           forwardCancel, replyTimeout
  <2> QED BY <2>1, <2>2, <2>3, <2>4
<1> QED BY <1>2, <1>3 DEF IInv

\* Kill keeps the invariant: it touches contexts only.
LEMMA KillStep ==
  ASSUME IInv, NEW k \in Killers, Kill(k)
  PROVE  IInv'
<1> TypeOK'
  BY KillType DEF IInv
<1>1. UNCHANGED <<running, pc, hostVars, proc, guestVars>>
  BY DEF Kill, killLookup, killCancel, runVars
<1> QED BY <1>1 DEF IInv, OneRunPerId, NamesKept, NoDebris, VmConfined, GuestOff,
                   PlacedFirst, TapForEgress, DirGone, hostVars, guestVars

---------------------------------------------------------------------------
(* The theorems.                                                           *)

\* The invariant holds initially.
LEMMA InitIInv == Init => IInv
<1> SUFFICES ASSUME Init PROVE IInv
  OBVIOUS
<1> USE IdOfAssumption, NoRunAssumption, MaxFramesAssumption DEF Init
<1>1. TypeOK
  BY ResultFacts, SMTT(30) DEF TypeOK, Contexts, NoResult, Steps, Alive, Reasons
<1>2. OneRunPerId /\ NamesKept /\ NoDebris
  BY DEF OneRunPerId, NamesKept, NoDebris, Alive, NeedsCgroup, NeedsTap
<1>3. VmConfined /\ GuestOff /\ PlacedFirst /\ TapForEgress /\ DirGone
  BY DEF VmConfined, GuestOff, PlacedFirst, TapForEgress, DirGone
<1> QED BY <1>1, <1>2, <1>3 DEF IInv

\* Every step keeps it.
LEMMA NextIInv == IInv /\ [Next]_vars => IInv'
<1> SUFFICES ASSUME IInv, [Next]_vars PROVE IInv'
  OBVIOUS
<1>1. ASSUME NEW r \in Runs, Run(r) PROVE IInv'
  BY <1>1, RunType, NamesStep, GuestStep DEF IInv
<1>2. CASE Next
  BY <1>1, <1>2, BesideStep, KillStep DEF Next
<1>3. CASE UNCHANGED vars
  BY <1>3, TypeStep DEF vars, runVars, hostVars, guestVars, IInv, OneRunPerId, NamesKept,
       NoDebris, VmConfined, GuestOff, PlacedFirst, TapForEgress, DirGone
<1> QED BY <1>2, <1>3

\* The inductive invariant of Run, Kill and everything beside them.
THEOREM Invariance == Spec => []IInv
BY InitIInv, NextIInv, PTL DEF Spec

\* The executor's state keeps its types.
THEOREM Types == Spec => []TypeOK
<1>1. IInv => TypeOK
  BY DEF IInv
<1> QED BY <1>1, Invariance, PTL

\* register and unregister admit one run per job ID, and Kill finds it.
THEOREM OneRun == Spec => []OneRunPerId
<1>1. IInv => OneRunPerId
  BY DEF IInv
<1> QED BY <1>1, Invariance, PTL

\* The deferred calls of one run never take away the cgroup or the TAP device of
\* another run with the same job ID.
THEOREM NamesAreKept == Spec => []NamesKept
<1>1. IInv => NamesKept
  BY DEF IInv
<1> QED BY <1>1, Invariance, PTL

\* On every return of Run the deferred calls remove the directory and the TAP device.
THEOREM NothingLeftBehind == Spec => []NoDebris
<1>1. IInv => NoDebris
  BY DEF IInv
<1> QED BY <1>1, Invariance, PTL

\* A started guest never runs outside an existing cgroup of its job.
THEOREM Confinement == Spec => []VmConfined
<1>1. IInv => VmConfined
  BY DEF IInv
<1> QED BY <1>1, Invariance, PTL

---------------------------------------------------------------------------
(* The abstract executor, and Kill.                                        *)

\* The running map files a call under the ID of its job.
FiledById ==
  \A i \in Ids : running[i] # NoRun => IdOf[running[i]] = i

\* The host's own results that blame the context.
Blames(res) == res.by = "host" /\ res.reason \in {"cancelled", "timeout"}

\* A result of the host that blames the context is given only to a run told to stop.
VerdictAsked ==
  \A r \in Runs : Blames(result[r]) => ctx[r] \in {"cancelled", "deadline"}

\* The context is live when Run is called, has ended when it returns, and is released
\* by Run itself only in the deferred cancel().
CtxSpan ==
  \A r \in Runs :
    /\ pc[r] = "idle" => ctx[r] = "live"
    /\ pc[r] \in {"unregister", "done"} => Done(ctx[r])
    /\ pc[r] \in Alive \ {"unregister"} => ctx[r] # "released"

\* A Kill holds the cancel func of a call that was accepted.
TargetStarted ==
  \A k \in Killers : ktarget[k] # NoRun => pc[ktarget[k]] \in Alive \union {"done"}

RInv ==
  /\ IInv
  /\ FiledById /\ VerdictAsked /\ CtxSpan /\ TargetStarted

\* The statements of a run in progress: they move the run along and may end its
\* context, and a result that blames the context is one of an ended context.
Progress(r) ==
  /\ running' = running /\ ktarget' = ktarget
  /\ pc' = [pc EXCEPT ![r] = pc'[r]]
  /\ pc[r] \in Alive \ {"unregister"} /\ pc'[r] \in Alive
  /\ result' = [result EXCEPT ![r] = result'[r]]
  /\ Blames(result'[r]) => result'[r] = result[r] \/ Done(ctx[r])
  /\ (ctx' = ctx /\ pc'[r] # "unregister") \/ cancelCtx(r)

\* Which of the results Run returns blame the context.
LEMMA ReasonFacts ==
  /\ \A x : ~Blames(Reported(x))
  /\ ~Blames(Err("executor_error")) /\ ~Blames(Err("guest_crash")) /\ ~Blames(NoResult)
  /\ \A r \in Runs : Blames(ScanEnds(r)) => Done(ctx[r])
  /\ Blames(Ok("cancelled")) /\ Blames(Ok("timeout"))
BY DEF Ok, Err, Reported, Blames, NoResult, ScanEnds

\* Every statement of Run between register and unregister is of that kind.
LEMMA RunProgress ==
  ASSUME TypeOK, NEW r \in Runs, Run(r)
  PROVE  register(r) \/ refuse(r) \/ unregister(r) \/ Progress(r)
<1> pc \in [Runs -> Steps] /\ result \in [Runs -> Results]
  BY DEF TypeOK
<1> USE DEF Progress, Goto, Return, AfterClose, Alive, killVars
<1>1. CASE MkdirTemp(r)
  BY <1>1, ReasonFacts, ZenonT(60) DEF MkdirTemp
<1>2. CASE mkfs(r)
  BY <1>2, ReasonFacts, ZenonT(60) DEF mkfs
<1>3. CASE newCgroup(r)
  BY <1>3, ReasonFacts, ZenonT(60) DEF newCgroup
<1>4. CASE setupTap(r)
  BY <1>4, ReasonFacts, ZenonT(60) DEF setupTap
<1>5. CASE Listen(r)
  BY <1>5, ReasonFacts, ZenonT(60) DEF Listen
<1>6. CASE Start(r)
  BY <1>6, ReasonFacts, ZenonT(60) DEF Start
<1>7. CASE addProcess(r)
  BY <1>7, ReasonFacts, ZenonT(60) DEF addProcess
<1>8. CASE configureVM(r)
  BY <1>8, ReasonFacts, ZenonT(60) DEF configureVM
<1>9. CASE acceptGuest(r)
  BY <1>9, ReasonFacts, ZenonT(60) DEF acceptGuest
<1>10. CASE sendJob(r)
  BY <1>10, ReasonFacts, ZenonT(60) DEF sendJob
<1>11. CASE readFrame(r)
  BY <1>11, ReasonFacts, SMTT(60) DEF readFrame
<1>12. CASE readEOF(r)
  BY <1>12, ReasonFacts, ZenonT(60) DEF readEOF
<1>13. CASE killed(r) \/ closeConn(r) \/ teardownTap(r) \/ deleteCgroup(r) \/ removeDir(r)
  BY <1>13 DEF killed, closeConn, teardownTap, deleteCgroup, removeDir
<1>14. CASE cancelCtx(r)
  BY <1>14 DEF cancelCtx
<1> QED
  BY <1>1, <1>2, <1>3, <1>4, <1>5, <1>6, <1>7, <1>8, <1>9, <1>10, <1>11, <1>12, <1>13,
     <1>14 DEF Run

\* A statement of a run in progress keeps the invariant.
LEMMA ProgressKeeps ==
  ASSUME RInv, NEW r \in Runs, Progress(r)
  PROVE  FiledById' /\ VerdictAsked' /\ CtxSpan' /\ TargetStarted'
<1> /\ FiledById /\ VerdictAsked /\ CtxSpan /\ TargetStarted
    /\ pc \in [Runs -> Steps] /\ result \in [Runs -> Results]
    /\ ctx \in [Runs -> Contexts]
    /\ ktarget \in [Killers -> Runs \union {NoRun}]
  BY DEF RInv, IInv, TypeOK
<1>1. \/ ctx' = ctx /\ pc'[r] # "unregister"
      \/ /\ pc'[r] = "unregister"
         /\ ctx' = [ctx EXCEPT ![r] = IF Done(@) THEN @ ELSE "released"]
  BY DEF Progress, cancelCtx, Goto
<1>2. \A q \in Runs : Done(ctx[q]) => ctx'[q] = ctx[q]
  BY <1>1 DEF Done
<1>3. FiledById'
  BY DEF Progress, FiledById
<1>4. VerdictAsked'
  <2> SUFFICES ASSUME NEW q \in Runs, Blames(result'[q])
               PROVE  ctx'[q] \in {"cancelled", "deadline"}
    BY DEF VerdictAsked
  <2>1. ctx[q] \in {"cancelled", "deadline"}
    <3>1. CASE result'[q] = result[q]
      BY <3>1 DEF VerdictAsked
    <3>2. CASE result'[q] # result[q]
      <4>1. q = r /\ Done(ctx[r])
        BY <3>2 DEF Progress
      <4>2. ctx[r] # "released"
        BY DEF Progress, CtxSpan
      <4> QED BY <4>1, <4>2 DEF Contexts, Done
    <3> QED BY <3>1, <3>2
  <2> QED BY <2>1, <1>2 DEF Done
<1>5. CtxSpan'
  <2> SUFFICES ASSUME NEW q \in Runs
               PROVE  /\ pc'[q] = "idle" => ctx'[q] = "live"
                      /\ pc'[q] \in {"unregister", "done"} => Done(ctx'[q])
                      /\ pc'[q] \in Alive \ {"unregister"} => ctx'[q] # "released"
    BY DEF CtxSpan
  <2>1. CASE q = r
    BY <2>1, <1>1 DEF Progress, Alive, Done, CtxSpan
  <2>2. CASE q # r
    BY <2>2, <1>1, <1>2 DEF Progress, CtxSpan
  <2> QED BY <2>1, <2>2
<1>6. TargetStarted'
  BY NoRunAssumption, SMTT(30) DEF Progress, TargetStarted
<1> QED BY <1>3, <1>4, <1>5, <1>6

\* The invariant holds initially.
LEMMA InitRInv == Init => RInv
<1> SUFFICES ASSUME Init PROVE RInv
  OBVIOUS
<1> USE DEF Init
<1>1. VerdictAsked
  BY ReasonFacts DEF VerdictAsked
<1>2. FiledById /\ CtxSpan /\ TargetStarted
  BY DEF FiledById, CtxSpan, TargetStarted
<1> QED BY <1>1, <1>2, InitIInv DEF RInv

\* Every step keeps it.
LEMMA NextRInv == RInv /\ [Next]_vars => RInv'
<1> SUFFICES ASSUME RInv, [Next]_vars PROVE RInv'
  OBVIOUS
<1> IInv /\ IInv'
  BY NextIInv DEF RInv
<1> /\ OneRunPerId /\ FiledById /\ VerdictAsked /\ CtxSpan /\ TargetStarted
    /\ pc \in [Runs -> Steps] /\ result \in [Runs -> Results]
    /\ running \in [Ids -> Runs \union {NoRun}]
    /\ ctx \in [Runs -> Contexts]
    /\ ktarget \in [Killers -> Runs \union {NoRun}]
  BY DEF RInv, IInv, TypeOK
<1> USE IdOfAssumption, NoRunAssumption
<1>1. ASSUME NEW r \in Runs, register(r) PROVE RInv'
  <2> /\ pc[r] = "idle" /\ pc' = [pc EXCEPT ![r] = "mkdir"]
      /\ running' = [running EXCEPT ![IdOf[r]] = r]
      /\ UNCHANGED <<ctx, result, ktarget>>
    BY <1>1 DEF register, Goto, killVars
  <2>1. FiledById' /\ VerdictAsked'
    BY DEF FiledById, VerdictAsked
  <2>2. CtxSpan'
    BY DEF CtxSpan
  <2>3. TargetStarted'
    BY DEF TargetStarted, Alive
  <2> QED BY <2>1, <2>2, <2>3 DEF RInv
<1>2. ASSUME NEW r \in Runs, refuse(r) PROVE RInv'
  <2> /\ pc[r] = "idle" /\ pc' = [pc EXCEPT ![r] = "refused"]
      /\ result' = [result EXCEPT ![r] = Err("executor_error")]
      /\ ctx' = [ctx EXCEPT ![r] = IF r \in Rooted THEN "released" ELSE @]
      /\ UNCHANGED <<running, ktarget>>
    BY <1>2 DEF refuse, Return, Goto, killVars
  <2>1. FiledById' /\ VerdictAsked'
    BY ReasonFacts DEF FiledById, VerdictAsked
  <2>2. CtxSpan'
    BY DEF CtxSpan, Alive
  <2>3. TargetStarted'
    BY DEF TargetStarted, Alive
  <2> QED BY <2>1, <2>2, <2>3 DEF RInv
<1>3. ASSUME NEW r \in Runs, unregister(r) PROVE RInv'
  <2> /\ pc[r] = "unregister" /\ pc' = [pc EXCEPT ![r] = "done"]
      /\ running' = [running EXCEPT ![IdOf[r]] = NoRun]
      /\ UNCHANGED <<ctx, result, ktarget>>
    BY <1>3 DEF unregister, Goto, killVars
  <2>1. FiledById' /\ VerdictAsked'
    BY DEF FiledById, VerdictAsked
  <2>2. CtxSpan'
    BY DEF CtxSpan, Alive
  <2>3. TargetStarted'
    BY DEF TargetStarted
  <2> QED BY <2>1, <2>2, <2>3 DEF RInv
<1>4. ASSUME NEW r \in Runs, Run(r) PROVE RInv'
  BY <1>1, <1>2, <1>3, <1>4, RunProgress, ProgressKeeps DEF RInv, IInv
<1>5. ASSUME NEW r \in Runs, deadline(r) \/ parentDone(r) PROVE RInv'
  <2> /\ pc[r] \in Alive /\ UNCHANGED <<running, pc, result, ktarget>>
      /\ \E c \in {"cancelled", "deadline"} : ctx' = [ctx EXCEPT ![r] = c]
    BY <1>5 DEF deadline, parentDone, Cancel, Done, killVars
  <2>1. FiledById' /\ VerdictAsked' /\ TargetStarted'
    BY DEF FiledById, VerdictAsked, TargetStarted, Done
  <2>2. CtxSpan'
    BY DEF CtxSpan, Alive, Done
  <2> QED BY <2>1, <2>2 DEF RInv
<1>6. ASSUME NEW k \in Killers, NEW i \in Ids, killLookup(k, i) PROVE RInv'
  <2> /\ ktarget' = [ktarget EXCEPT ![k] = running[i]]
      /\ UNCHANGED <<running, pc, result, ctx>>
    BY <1>6 DEF killLookup, runVars
  <2>1. FiledById' /\ VerdictAsked' /\ CtxSpan'
    BY DEF FiledById, VerdictAsked, CtxSpan
  <2>2. running[i] # NoRun => pc[running[i]] \in Alive
    BY SMTT(30) DEF FiledById, OneRunPerId
  <2>3. TargetStarted'
    BY <2>2 DEF TargetStarted
  <2> QED BY <2>1, <2>3 DEF RInv
<1>7. ASSUME NEW k \in Killers, killCancel(k) PROVE RInv'
  <2> /\ UNCHANGED <<running, pc, result, ktarget>>
      /\ Cancel(ktarget[k])
    BY <1>7 DEF killCancel
  <2>1. FiledById' /\ VerdictAsked' /\ TargetStarted'
    BY DEF FiledById, VerdictAsked, TargetStarted, Cancel, Done
  <2>2. CtxSpan'
    BY DEF CtxSpan, TargetStarted, Cancel, Done, Alive
  <2> QED BY <2>1, <2>2 DEF RInv
<1>8. CASE UNCHANGED <<running, pc, result, ctx, ktarget>>
  BY <1>8 DEF RInv, FiledById, VerdictAsked, CtxSpan, TargetStarted, Done
<1>9. ASSUME NEW r \in Runs,
             \/ Guest(r) \/ hangUp(r) \/ contextKill(r) \/ signal(r) \/ vmExit(r)
             \/ forwardCancel(r) \/ replyTimeout(r)
      PROVE  RInv'
  <2>1. UNCHANGED <<running, pc, result, ctx, ktarget>>
    BY <1>9 DEF Guest, guestDial, guestClose, guestSend, hangUp, contextKill, signal, vmExit,
                exitProc, forwardCancel, replyTimeout, runVars, killVars
  <2> QED BY <2>1, <1>8
<1>10. CASE Next
  BY <1>10, <1>4, <1>5, <1>6, <1>7, <1>9 DEF Next, Kill
<1>11. CASE UNCHANGED vars
  BY <1>11, <1>8 DEF vars, runVars, killVars
<1> QED BY <1>10, <1>11

---------------------------------------------------------------------------
(* The refinement mapping.                                                 *)

\* A run is busy in the abstract executor exactly when the running map has its ID.
LEMMA BusyIsRunning ==
  ASSUME RInv, NEW r \in Runs
  PROVE  Abstract!Busy(r) <=> running[IdOf[r]] # NoRun
<1> /\ OneRunPerId /\ FiledById /\ pc \in [Runs -> Steps]
    /\ running \in [Ids -> Runs \union {NoRun}]
  BY DEF RInv, IInv, TypeOK
<1> USE IdOfAssumption, NoRunAssumption
<1>1. \A q \in Runs : Phase(q) = "running" <=> pc[q] \in Alive
  BY DEF Phase, Steps, Alive
<1>2. ASSUME NEW q \in Runs, IdOf[q] = IdOf[r], pc[q] \in Alive
      PROVE  running[IdOf[r]] # NoRun
  BY <1>2 DEF OneRunPerId
<1>3. ASSUME running[IdOf[r]] # NoRun
      PROVE  \E q \in Runs : IdOf[q] = IdOf[r] /\ pc[q] \in Alive
  BY <1>3, SMTT(30) DEF OneRunPerId, FiledById
<1> QED BY <1>1, <1>2, <1>3 DEF Abstract!Busy, Phases

\* The initial states map to initial states of the abstract executor.
LEMMA InitRefines == Init => Abstract!Init
BY SMTT(30) DEF Init, Abstract!Init, Phases, Asked, Returned, Phase, Done

\* A step that moves no run into or out of Run maps to a stutter, or to an Ask when
\* it ends the context of a run in progress.
LEMMA WithinRefines ==
  ASSUME RInv, NEW r \in Runs,
         pc' = [pc EXCEPT ![r] = pc'[r]],
         pc[r] \in Alive, pc'[r] \in Alive,
         result' = [result EXCEPT ![r] = result'[r]],
         NEW c \in Contexts, ctx' = [ctx EXCEPT ![r] = c],
         Done(ctx[r]) => ctx[r] = c
  PROVE  \/ Abstract!Ask(r)
         \/ UNCHANGED <<Phases, Asked, Returned>>
<1> /\ pc \in [Runs -> Steps] /\ result \in [Runs -> Results]
    /\ ctx \in [Runs -> Contexts]
  BY DEF RInv, IInv, TypeOK
<1>1. Phase(r) = "running"
  BY DEF Phase, Alive
<1>2. Phases' = Phases
  BY SMTT(30) DEF Phases, Phase, Alive
<1>3. Returned' = Returned
  BY SMTT(30) DEF Returned, Alive
<1>4. Asked' = Asked \/ Asked' = Asked \union {r}
  BY DEF Asked, Done, Contexts
<1>5. Phases[r] = "running"
  BY <1>1 DEF Phases
<1> QED BY <1>2, <1>3, <1>4, <1>5 DEF Abstract!Ask

\* Every step maps to a step of the abstract executor or to a stutter.
LEMMA NextRefines == RInv /\ [Next]_vars => [Abstract!Next]_(Abstract!vars)
<1> DEFINE mapped == <<Phases, Asked, Returned>>
<1> SUFFICES ASSUME RInv, [Next]_vars PROVE Abstract!Next \/ UNCHANGED mapped
  BY DEF Abstract!vars
<1> /\ VerdictAsked /\ CtxSpan /\ TargetStarted
    /\ pc \in [Runs -> Steps] /\ result \in [Runs -> Results]
    /\ ctx \in [Runs -> Contexts]
    /\ ktarget \in [Killers -> Runs \union {NoRun}]
  BY DEF RInv, IInv, TypeOK
<1> USE NoRunAssumption
<1>1. ASSUME NEW r \in Runs, register(r) PROVE Abstract!Begin(r)
  <2> /\ pc[r] = "idle" /\ pc' = [pc EXCEPT ![r] = "mkdir"]
      /\ r \in Rooted /\ running[IdOf[r]] = NoRun
      /\ UNCHANGED <<ctx, result>>
    BY <1>1 DEF register, Goto
  <2>1. ~Abstract!Busy(r)
    BY BusyIsRunning
  <2>2. Phases[r] = "idle" /\ Phases' = [Phases EXCEPT ![r] = "running"]
    BY DEF Phases, Phase
  <2>3. Asked' = Asked /\ Returned' = Returned
    BY DEF Asked, Returned
  <2> QED BY <2>1, <2>2, <2>3 DEF Abstract!Begin
<1>2. ASSUME NEW r \in Runs, refuse(r) PROVE Abstract!Refuse(r)
  <2> /\ pc[r] = "idle" /\ pc' = [pc EXCEPT ![r] = "refused"]
      /\ r \notin Rooted \/ running[IdOf[r]] # NoRun
      /\ ctx' = [ctx EXCEPT ![r] = IF r \in Rooted THEN "released" ELSE @]
      /\ result' = [result EXCEPT ![r] = Err("executor_error")]
    BY <1>2 DEF refuse, Return, Goto
  <2>1. r \notin Rooted \/ Abstract!Busy(r)
    BY BusyIsRunning
  <2>2. Phases[r] = "idle" /\ Phases' = [Phases EXCEPT ![r] = "refused"]
    BY DEF Phases, Phase
  <2>3. Asked' = Asked
    BY DEF Asked, CtxSpan
  <2>4. Returned' = Returned
    BY DEF Returned
  <2> QED BY <2>1, <2>2, <2>3, <2>4 DEF Abstract!Refuse
<1>3. ASSUME NEW r \in Runs, unregister(r) PROVE \E v \in Results : Abstract!End(r, v)
  <2> /\ pc[r] = "unregister" /\ pc' = [pc EXCEPT ![r] = "done"]
      /\ UNCHANGED <<ctx, result>>
    BY <1>3 DEF unregister, Goto
  <2>1. Phases[r] = "running" /\ Phases' = [Phases EXCEPT ![r] = "returned"]
    BY DEF Phases, Phase
  <2>2. Asked' = Asked /\ (result[r] \in {Ok("cancelled"), Ok("timeout")} => r \in Asked)
    BY ReasonFacts DEF Asked, VerdictAsked
  <2>3. Returned' = [Returned EXCEPT ![r] = result[r]]
    BY DEF Returned
  <2>4. result[r] \in Results
    OBVIOUS
  <2>5. Abstract!End(r, result[r])
    BY <2>1, <2>2, <2>3 DEF Abstract!End
  <2> QED BY <2>4, <2>5
<1>4. ASSUME NEW r \in Runs, Progress(r) PROVE Abstract!Ask(r) \/ UNCHANGED mapped
  <2>1. \E c \in Contexts : ctx' = [ctx EXCEPT ![r] = c] /\ (Done(ctx[r]) => ctx[r] = c)
    <3>1. CASE ctx' = ctx
      BY <3>1
    <3>2. CASE cancelCtx(r)
      BY <3>2 DEF cancelCtx, Done, Contexts
    <3> QED BY <1>4, <3>1, <3>2 DEF Progress
  <2> QED BY <1>4, <2>1, WithinRefines DEF Progress
<1>5. ASSUME NEW r \in Runs, deadline(r) \/ parentDone(r)
      PROVE  Abstract!Ask(r) \/ UNCHANGED mapped
  <2>1. /\ pc[r] \in Alive /\ ~Done(ctx[r]) /\ UNCHANGED <<pc, result>>
        /\ \E c \in {"cancelled", "deadline"} : ctx' = [ctx EXCEPT ![r] = c]
    BY <1>5 DEF deadline, parentDone, Cancel, Done
  <2>2. pc' = [pc EXCEPT ![r] = pc'[r]] /\ result' = [result EXCEPT ![r] = result'[r]]
    BY <2>1
  <2> QED BY <2>1, <2>2, WithinRefines DEF Contexts
<1>6. ASSUME UNCHANGED <<pc, result, ctx>> PROVE UNCHANGED mapped
  BY <1>6 DEF Phases, Asked, Returned, Phase
<1>7. ASSUME NEW k \in Killers, killCancel(k)
      PROVE  (\E r \in Runs : Abstract!Ask(r)) \/ UNCHANGED mapped
  <2>1. UNCHANGED <<pc, result>> /\ Cancel(ktarget[k])
    BY <1>7 DEF killCancel
  <2>2. CASE ktarget[k] = NoRun \/ Done(ctx[ktarget[k]])
    <3>1. ctx' = ctx
      BY <2>1, <2>2 DEF Cancel
    <3> QED BY <2>1, <3>1, <1>6
  <2>3. CASE ktarget[k] \in Runs /\ ~Done(ctx[ktarget[k]])
    <3>1. pc[ktarget[k]] \in Alive
      BY <2>3 DEF TargetStarted, CtxSpan
    <3>2. ctx' = [ctx EXCEPT ![ktarget[k]] = "cancelled"]
      BY <2>1, <2>3 DEF Cancel
    <3>3. /\ pc' = [pc EXCEPT ![ktarget[k]] = pc'[ktarget[k]]]
          /\ result' = [result EXCEPT ![ktarget[k]] = result'[ktarget[k]]]
      BY <2>1
    <3>4. Abstract!Ask(ktarget[k]) \/ UNCHANGED mapped
      BY <2>1, <2>3, <3>1, <3>2, <3>3, WithinRefines DEF Contexts
    <3> HIDE DEF mapped
    <3> QED BY <2>3, <3>4
  <2> QED BY <2>2, <2>3
<1>8. ASSUME NEW r \in Runs, Run(r) PROVE Abstract!Next \/ UNCHANGED mapped
  <2>1. register(r) \/ refuse(r) \/ unregister(r) \/ Progress(r)
    BY <1>8, RunProgress DEF RInv, IInv
  <2> QED BY <2>1, <1>1, <1>2, <1>3, <1>4 DEF Abstract!Next
<1>9. ASSUME NEW r \in Runs,
             \/ Guest(r) \/ hangUp(r) \/ contextKill(r) \/ signal(r) \/ vmExit(r)
             \/ forwardCancel(r) \/ replyTimeout(r)
      PROVE  UNCHANGED mapped
  <2>1. UNCHANGED <<pc, result, ctx>>
    BY <1>9 DEF Guest, guestDial, guestClose, guestSend, hangUp, contextKill, signal, vmExit,
                exitProc, forwardCancel, replyTimeout, runVars
  <2> QED BY <2>1, <1>6
<1>10. ASSUME NEW k \in Killers, NEW i \in Ids, killLookup(k, i) PROVE UNCHANGED mapped
  <2>1. UNCHANGED <<pc, result, ctx>>
    BY <1>10 DEF killLookup, runVars
  <2> QED BY <2>1, <1>6
<1>11. CASE Next
  <2> HIDE DEF mapped
  <2> QED
    BY <1>11, <1>5, <1>7, <1>8, <1>9, <1>10 DEF Next, Kill, Abstract!Next
<1>12. CASE UNCHANGED vars
  BY <1>12, <1>6 DEF vars, runVars
<1> QED BY <1>11, <1>12

\* The Firecracker executor implements the abstract executor the worker relies on: one run
\* per ID, and no result in which the host, rather than the guest, says a run was
\* cancelled or timed out that nobody asked to stop.
THEOREM Implements == Spec => ExecutorSpec
<1>1. Spec => []RInv
  BY InitRInv, NextRInv, PTL DEF Spec
<1> QED BY <1>1, InitRefines, NextRefines, PTL DEF Spec, ExecutorSpec, Abstract!Spec

\* Kill cancels the call whose cancel func it looked up and no other.
THEOREM KillIsExact == Spec => KillHitsItsRun
<1>1. TypeOK /\ [Next]_vars =>
        [\A r \in Runs :
           ctx[r] = "live" /\ ctx'[r] = "cancelled"
             => \/ \E k \in Killers : ktarget[k] = r /\ kpc'[k] = "ok"
                \/ r \in gone]_vars
  <2> SUFFICES ASSUME TypeOK, [Next]_vars, NEW r \in Runs,
                      ctx[r] = "live", ctx'[r] = "cancelled"
               PROVE  \/ \E k \in Killers : ktarget[k] = r /\ kpc'[k] = "ok"
                      \/ r \in gone
    OBVIOUS
  <2> /\ ctx \in [Runs -> Contexts]
      /\ kpc \in [Killers -> {"idle", "cancel", "ok", "notRunning"}]
      /\ ktarget \in [Killers -> Runs \union {NoRun}]
    BY DEF TypeOK
  <2>1. ASSUME NEW q \in Runs, refuse(q) PROVE FALSE
    BY <2>1 DEF refuse
  <2>2. ASSUME NEW q \in Runs, Progress(q) PROVE FALSE
    BY <2>2 DEF Progress, cancelCtx, Done
  <2>3. ASSUME NEW q \in Runs, Run(q) PROVE FALSE
    BY <2>1, <2>2, <2>3, RunProgress DEF register, unregister
  <2>4. ASSUME NEW q \in Runs, deadline(q) \/ parentDone(q) PROVE r \in gone
    BY <2>4 DEF deadline, parentDone, Cancel
  <2>5. ASSUME NEW k \in Killers, killCancel(k) PROVE ktarget[k] = r /\ kpc'[k] = "ok"
    BY <2>5 DEF killCancel, Cancel
  <2>6. CASE UNCHANGED ctx
    BY <2>6
  <2>7. CASE Next
    <3>1. ASSUME NEW q \in Runs,
                 \/ Guest(q) \/ hangUp(q) \/ contextKill(q) \/ signal(q) \/ vmExit(q)
                 \/ forwardCancel(q) \/ replyTimeout(q)
          PROVE  UNCHANGED ctx
      BY <3>1 DEF Guest, guestDial, guestClose, guestSend, hangUp, contextKill, signal, vmExit,
                  exitProc, forwardCancel, replyTimeout, runVars
    <3>2. ASSUME NEW k \in Killers, NEW i \in Ids, killLookup(k, i) PROVE UNCHANGED ctx
      BY <3>2 DEF killLookup, runVars
    <3> QED BY <2>7, <3>1, <3>2, <2>3, <2>4, <2>5, <2>6 DEF Next, Kill
  <2>8. CASE UNCHANGED vars
    BY <2>8, <2>6 DEF vars, runVars
  <2> QED BY <2>7, <2>8
<1> QED BY <1>1, Types, PTL DEF Spec, KillHitsItsRun
===========================================================================
