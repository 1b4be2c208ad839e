------------------------------ MODULE Transfer ----------------------------
(***************************************************************************)
(* One "yonk run" seen as the journey of its files (cmd/yonk/main.go): the *)
(* command parses its options, packs the working directory and uploads it; *)
(* the worker extracts it; the guest's copy of it is what the job works    *)
(* on; the guest returns the requested artifacts (internal/guest), and     *)
(* the command writes them into the working directory.                     *)
(***************************************************************************)
EXTENDS Workspace, FiniteSetsExt

CONSTANTS
  OptionLists,       \* option lists a user may give
  defaultExclusions, \* a sequence of paths
  JobNodes,          \* nodes the job may leave at a path
  MaxWrites,         \* bound on the paths the job changes
  MaxArtifact        \* maxArtifactBytes

Option == [name : {"--exclude", "--no-default-excludes", "--artifact", "--malformed"}, path : Path]

ASSUME TransferAssumption ==
  /\ MaxWrites \in Nat /\ MaxArtifact \in Nat /\ JobNodes \subseteq Node
  /\ defaultExclusions \in Seq(Path) /\ OptionLists \subseteq Seq(Option)

VARIABLES
  ypc,       \* run of cmd/yonk and client.Run: "args", "info", "pack", "upload" (in Do),
             \* "drain", "await" (at uploadResult), "stream", "exit"
  code,      \* its exit: "none", "usage" (2), "failure" (125), "result" (the job's code)
  artifacts, \* the requested artifacts, a sequence of paths
  up,        \* the goroutine that writes the request: "idle", "writing", "sent", "done", "failed"
  pipe,      \* the pipe it writes to: "open", or "closed" at the reading end
  jpc,       \* the guest: "off", "job", "artifacts", "done"
  disk,      \* the tree on the guest's workspace disk
  writes,    \* how many paths the job has changed
  sending,   \* the artifact that sendArtifacts is at
  wire,      \* frames between the guest and the command
  out        \* the artifact files the command has written: their name and data

uploadVars == <<up, pipe>>
guestVars == <<jpc, disk, writes, sending>>
vars == <<packVars, extractVars, uploadVars, guestVars, ypc, code, artifacts, wire, out>>

TInit ==
  /\ Init
  /\ ypc = IF wpc = "foreign" THEN "upload" ELSE "args"
  /\ code = "none" /\ artifacts = <<>>
  /\ up = "idle" /\ pipe = "open"
  /\ jpc = "off" /\ disk = <<>> /\ writes = 0 /\ sending = 1
  /\ wire = <<>> /\ out = <<>>

---------------------------------------------------------------------------
(* The command, up to the upload.                                          *)

Options0 == [ok |-> TRUE, exclusions |-> defaultExclusions, artifacts |-> <<>>]

\* One option: "--no-default-excludes" forgets every exclusion given before it.  The
\* numeric options and the network mode matter only for whether they are well formed.
parseOption(o, opt) ==
  CASE opt.name = "--exclude" -> [o EXCEPT !.exclusions = Append(@, opt.path)]
    [] opt.name = "--no-default-excludes" -> [o EXCEPT !.exclusions = <<>>]
    [] opt.name = "--artifact" -> [o EXCEPT !.artifacts = Append(@, opt.path)]
    [] opt.name = "--malformed" -> [o EXCEPT !.ok = FALSE]

parseRunArgs(opts) ==
  LET o[i \in 0 .. Len(opts)] == IF i = 0 THEN Options0 ELSE parseOption(o[i - 1], opts[i])
  IN o[Len(opts)]

\* Returning from run: the deferred Remove of the archive.
Exit(c) == ypc' = "exit" /\ code' = c /\ tmp' = FALSE

args ==
  /\ ypc = "args"
  /\ \E opts \in OptionLists :
       LET o == parseRunArgs(opts)
       IN IF o.ok
          THEN /\ exclusions' = o.exclusions /\ artifacts' = o.artifacts
               /\ ypc' = "info" /\ UNCHANGED <<code, tmp>>
          ELSE Exit("usage") /\ UNCHANGED <<exclusions, artifacts>>
  /\ UNCHANGED <<src, edits, wpc, todo, archive, extractVars, uploadVars, guestVars, wire, out>>

\* WorkerInfo, the capabilities, the job ID and the network mode.
info ==
  /\ ypc = "info"
  /\ \/ ypc' = "pack" /\ UNCHANGED <<code, tmp>>
     \/ Exit("failure")
  /\ UNCHANGED <<exclusions, artifacts, src, edits, wpc, todo, archive, extractVars, uploadVars,
                 guestVars, wire, out>>

pack ==
  /\ ypc = "pack" /\ Pack
  /\ UNCHANGED <<uploadVars, guestVars, ypc, code, artifacts, wire, out>>

\* The archive is there and can be opened: multipartRunBody starts the goroutine, then Do.
packed ==
  /\ ypc = "pack"
  /\ \/ wpc = "packed" /\ ypc' = "upload" /\ up' = "writing" /\ UNCHANGED <<code, tmp>>
     \/ wpc \in {"packed", "failed"} /\ Exit("failure") /\ UNCHANGED up
  /\ UNCHANGED <<exclusions, artifacts, src, edits, wpc, todo, archive, extractVars, pipe,
                 guestVars, wire, out>>

---------------------------------------------------------------------------
(* The worker.                                                             *)

\* Job.Validate, as far as it is about artifacts.  An absolute path passes.
validArtifact(p) == p = Clean(p) /\ p # <<>> /\ ~Outside(p)

receive ==
  /\ ypc = "upload"
  /\ \A p \in Range(artifacts) : validArtifact(p)
  /\ open
  /\ UNCHANGED <<uploadVars, guestVars, ypc, code, artifacts, wire, out>>

\* The last boundary comes when the goroutine has written it.
extract ==
  /\ ypc = "upload" /\ Extract
  /\ epc' = "ok" /\ Own => up \in {"sent", "done"}
  /\ UNCHANGED <<uploadVars, guestVars, ypc, code, artifacts, wire, out>>

Refused == epc \in {"refused", "failed"} \/ \E p \in Range(artifacts) : ~validArtifact(p)

---------------------------------------------------------------------------
(* The upload: client.Run, and the goroutine of multipartRunBody.          *)

\* A part of the request waits in the pipe until the transport takes it.
uploadSend ==
  /\ up = "writing" /\ pipe = "open" /\ up' = "sent"
  /\ UNCHANGED <<packVars, extractVars, pipe, guestVars, ypc, code, artifacts, wire, out>>

\* Nobody reads the pipe any more, or the archive cannot be read.
uploadFail ==
  /\ up = "writing" /\ up' = "failed" /\ pipe' = "closed"
  /\ UNCHANGED <<packVars, extractVars, guestVars, ypc, code, artifacts, wire, out>>

uploadDone ==
  /\ up = "sent" /\ up' = "done"
  /\ UNCHANGED <<packVars, extractVars, pipe, guestVars, ypc, code, artifacts, wire, out>>

\* net/http closes the body of a request it cannot write.
transportStops ==
  /\ ypc \in {"upload", "await"} /\ up = "writing" /\ pipe' = "closed"
  /\ UNCHANGED <<packVars, extractVars, up, guestVars, ypc, code, artifacts, wire, out>>

answerWithoutClose ==
  /\ ypc = "upload" /\ Own
  /\ \/ epc = "ok" /\ ypc' = "await" /\ UNCHANGED pipe
     \/ Refused /\ ypc' = "drain" /\ UNCHANGED pipe
     \/ ypc' = "drain" /\ pipe' = "closed"
  /\ UNCHANGED <<packVars, extractVars, up, guestVars, code, artifacts, wire, out>>

\* Do returns: 200, an error reply, or an error of its own such as an interrupt or a
\* lost connection.  Another client than this one is not followed any further.
answer ==
  /\ ypc = "upload" /\ Own
  /\ \/ epc = "ok" /\ ypc' = "await" /\ UNCHANGED pipe
     \/ Refused /\ ypc' = "drain" /\ pipe' = "closed"
     \/ ypc' = "drain" /\ pipe' = "closed"
  /\ UNCHANGED <<packVars, extractVars, up, guestVars, code, artifacts, wire, out>>

\* <-uploadResult
uploadResult ==
  /\ up \in {"done", "failed"}
  /\ \/ ypc = "await" /\ up = "done" /\ ypc' = "stream" /\ UNCHANGED <<code, tmp>>
     \/ ypc = "await" /\ up = "failed" /\ Exit("failure")
     \/ ypc = "drain" /\ Exit("failure")
  /\ UNCHANGED <<exclusions, artifacts, src, edits, wpc, todo, archive, extractVars, uploadVars,
                 guestVars, wire, out>>

---------------------------------------------------------------------------
(* The guest.                                                              *)

\* mkfs copies the workspace; the agent mounts it and starts the command.
boot ==
  /\ ypc = "stream" /\ jpc = "off"
  /\ jpc' = "job" /\ disk' = dest
  /\ UNCHANGED <<packVars, extractVars, uploadVars, writes, sending, ypc, code, artifacts, wire, out>>

\* The job changes the tree, here at the paths that matter.
write ==
  /\ jpc = "job" /\ writes < MaxWrites
  /\ writes' = writes + 1
  /\ \E p \in {Relative(a) : a \in Range(artifacts)} :
       /\ p # <<>>
       /\ \A q \in Parents(p) : q \in DOMAIN disk => Has(disk, q, "dir")
       /\ \E n \in JobNodes : disk' = Put(WithParents(disk, p), p, n)
  /\ UNCHANGED <<packVars, extractVars, uploadVars, jpc, sending, ypc, code, artifacts, wire, out>>

\* The command and its children are gone (GuestAgent!NoWorkAfterResult).
jobEnd ==
  /\ jpc = "job"
  /\ jpc' = "artifacts"
  /\ UNCHANGED <<packVars, extractVars, uploadVars, disk, writes, sending, ypc, code, artifacts, wire, out>>

\* filepath.Join with the mount point, which drops a leading "/"; Stat and ReadFile
\* follow links.
Mounted(p) == Real(disk, Relative(p))

\* What is missing, not a file or too large is skipped.
Available(p) ==
  Has(disk, Mounted(p), "file") /\ Len(disk[Mounted(p)].data) <= MaxArtifact

sendArtifactsUntilMissing ==
  /\ jpc = "artifacts" /\ sending <= Len(artifacts)
  /\ LET p == artifacts[sending]
     IN IF Available(p)
        THEN /\ wire' = Append(wire, [name |-> Base(p), data |-> disk[Mounted(p)].data])
             /\ sending' = sending + 1
        ELSE sending' = Len(artifacts) + 1 /\ UNCHANGED wire
  /\ UNCHANGED <<packVars, extractVars, uploadVars, jpc, disk, writes, ypc, code, artifacts, out>>

\* One turn of sendArtifacts: the frame carries the base name.
sendArtifacts ==
  /\ jpc = "artifacts" /\ sending <= Len(artifacts)
  /\ LET p == artifacts[sending]
     IN IF Available(p)
        THEN wire' = Append(wire, [name |-> Base(p), data |-> disk[Mounted(p)].data])
        ELSE UNCHANGED wire
  /\ sending' = sending + 1
  /\ UNCHANGED <<packVars, extractVars, uploadVars, jpc, disk, writes, ypc, code, artifacts, out>>

sendResult ==
  /\ jpc = "artifacts" /\ sending > Len(artifacts)
  /\ jpc' = "done"
  /\ UNCHANGED <<packVars, extractVars, uploadVars, disk, writes, sending, ypc, code, artifacts, wire, out>>

---------------------------------------------------------------------------
(* The command, on the stream.                                             *)

artifactBaseNames == {Base(p) : p \in Range(artifacts)}

\* An artifact event, which readGuest and the server have passed on: it must have been
\* requested; the file is opened with O_TRUNC and O_NOFOLLOW, so a link or a directory
\* of that name is an error; a Write that fails leaves it cut short.
writeArtifact ==
  /\ ypc = "stream" /\ wire # <<>>
  /\ LET f == Head(wire)
         opens == /\ f.name \in artifactBaseNames
                  /\ <<f.name>> \in DOMAIN src => Has(src, <<f.name>>, "file")
     IN \/ /\ opens /\ out' = With(out, f.name, f.data)
           /\ UNCHANGED <<ypc, code, tmp>>
        \/ /\ opens /\ \E n \in 0 .. Len(f.data) - 1 :
                         out' = With(out, f.name, SubSeq(f.data, 1, n))
           /\ Exit("failure")
        \/ ~opens /\ Exit("failure") /\ UNCHANGED out
  /\ wire' = Tail(wire)
  /\ UNCHANGED <<exclusions, artifacts, src, edits, wpc, todo, archive, extractVars, uploadVars, guestVars>>

\* The completion event, after everything the guest sent.
complete ==
  /\ ypc = "stream" /\ jpc = "done" /\ wire = <<>>
  /\ Exit("result")
  /\ UNCHANGED <<exclusions, artifacts, src, edits, wpc, todo, archive, extractVars, uploadVars,
                 guestVars, wire, out>>

\* A failure event, a lost connection or an interrupt.
lose ==
  /\ ypc = "stream" /\ Exit("failure")
  /\ UNCHANGED <<exclusions, artifacts, src, edits, wpc, todo, archive, extractVars, uploadVars,
                 guestVars, wire, out>>

---------------------------------------------------------------------------

TNext ==
  \/ args \/ info \/ pack \/ packed \/ receive \/ extract
  \/ uploadSend \/ uploadFail \/ uploadDone \/ transportStops \/ answer \/ uploadResult
  \/ boot \/ write \/ jobEnd \/ sendArtifacts \/ sendResult
  \/ writeArtifact \/ complete \/ lose

TSpec == TInit /\ [][TNext]_vars

(***************************************************************************)
(* Fairness: the worker goes on while it reads, and answers; as long as it *)
(* reads, the transport takes what the goroutine writes; a Write to a      *)
(* closed pipe returns.  A worker that has refused need not read the rest. *)
(***************************************************************************)
TFairness ==
  /\ WF_vars(receive) /\ WF_vars(extract)
  /\ WF_vars(answer /\ (epc = "ok" \/ Refused)) /\ WF_vars(uploadResult)
  /\ WF_vars(uploadSend /\ ~Refused) /\ WF_vars(uploadDone)
  /\ WF_vars(uploadFail /\ pipe = "closed")

TFairSpec == TSpec /\ TFairness

---------------------------------------------------------------------------
(* Properties                                                              *)

\* Type invariant.
TypeOK ==
  /\ IsTree(src) /\ IsTree(dest) /\ IsTree(disk)
  /\ edits \in 0 .. MaxEdits /\ writes \in 0 .. MaxWrites
  /\ wpc \in {"start", "visit", "copy", "descend", "packed", "failed", "foreign"}
  /\ epc \in {"idle", "next", "body", "ok", "refused", "failed"}
  /\ wpc \in {"copy", "descend"} => todo # <<>>
  /\ idx \in 1 .. Len(archive) + 1 /\ files \in 0 .. MaxFiles + 1 /\ bytes \in 0 .. MaxBytes
  /\ ypc \in {"args", "info", "pack", "upload", "drain", "await", "stream", "exit"}
  /\ up \in {"idle", "writing", "sent", "done", "failed"} /\ pipe \in {"open", "closed"}
  /\ code \in {"none", "usage", "failure", "result"} /\ tmp \in BOOLEAN
  /\ jpc \in {"off", "job", "artifacts", "done"} /\ sending \in 1 .. Len(artifacts) + 1

\* When the command exits, its temporary archive is gone (if Remove does not fail).
\* When it exits with the job's code, the working directory holds, under every
\* requested base name, the file the job left at the last requested path with that
\* name that could be sent, complete; where no path with the name could be sent,
\* nothing was written.
ArtifactsArrive ==
  ypc = "exit" =>
    /\ ~tmp
    /\ DOMAIN out \subseteq artifactBaseNames
    /\ code = "result" =>
         \A n \in artifactBaseNames :
           LET sent == {i \in DOMAIN artifacts : Base(artifacts[i]) = n /\ Available(artifacts[i])}
           IN IF sent = {} THEN n \notin DOMAIN out
              ELSE n \in DOMAIN out /\ out[n] = disk[Mounted(artifacts[Max(sent)])].data

\* client.Run does not hang in the upload, although it waits for a goroutine that
\* waits for the worker: also when the worker answers before it has read everything,
\* and when the connection breaks.
UploadEnds == ypc = "upload" /\ Own ~> ypc \in {"stream", "exit"}
===========================================================================
