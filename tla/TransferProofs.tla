--------------------------- MODULE TransferProofs -------------------------
(***************************************************************************)
(* Theorems about the journey of a run's files, for every tree, archive,   *)
(* option list and limit.                                                  *)
(***************************************************************************)
EXTENDS Transfer, WorkspaceProofs

\* Leaves are for Zenon unless they name another prover.
USE ZenonT(30)

---------------------------------------------------------------------------
(* The invariant.                                                          *)

\* What the command reads, and what it was asked for.
Preparing == Packing /\ artifacts \in Seq(Path)

\* How far the command, the worker and the guest may be apart.
Control ==
  /\ ypc \in {"args", "info", "pack", "upload", "drain", "await", "stream", "exit"}
  /\ up \in {"idle", "writing", "sent", "done", "failed"} /\ pipe \in {"open", "closed"}
  /\ code \in {"none", "usage", "failure", "result"}
  /\ jpc \in {"off", "job", "artifacts", "done"}
  /\ ypc \in {"args", "info"} => wpc = "start"
  /\ ypc \in {"upload", "drain", "await", "stream"} => wpc \in {"packed", "foreign"}
  /\ epc # "idle" => ypc \notin {"args", "info", "pack"} /\ wpc \in {"packed", "foreign"}
  /\ jpc # "off" => ypc \in {"stream", "exit"}
  /\ ypc = "exit" => ~tmp
  /\ ypc = "exit" /\ code = "result" => jpc = "done" /\ wire = <<>>

\* The guest and its disk.
Guest ==
  /\ IsTree(disk) /\ writes \in 0 .. MaxWrites /\ sending \in 1 .. Len(artifacts) + 1
  /\ jpc \in {"off", "job"} => sending = 1 /\ wire = <<>> /\ out = <<>>
  /\ jpc = "done" => sending = Len(artifacts) + 1

Sends(n, i) == Base(artifacts[i]) = n /\ Available(artifacts[i])

\* With the frames w under way and the files o written, the data that the file n will
\* have is d: of the frames with that name only the last matters.
Carried(w, o, n, d) ==
  \/ \E k \in DOMAIN w :
       w[k].name = n /\ w[k].data = d /\ \A l \in k + 1 .. Len(w) : w[l].name # n
  \/ /\ \A l \in DOMAIN w : w[l].name # n
     /\ n \in DOMAIN o /\ o[n] = d

\* No file n is there or under way.
Silent(w, o, n) == n \notin DOMAIN o /\ \A l \in DOMAIN w : w[l].name # n

\* What the guest has sent, for every requested name, is in the last frame with that name
\* or, when there is none, in the file.
Delivering ==
  /\ DOMAIN out \subseteq artifactBaseNames
  /\ wire \in Seq([name : artifactBaseNames, data : Seq(Nat)])
  /\ ypc # "exit" \/ code = "result" =>
       \A n \in artifactBaseNames :
         /\ \A i \in 1 .. sending - 1 :
              Sends(n, i) /\ (\A j \in i + 1 .. sending - 1 : ~Sends(n, j))
                => Carried(wire, out, n, disk[Mounted(artifacts[i])].data)
         /\ (\A i \in 1 .. sending - 1 : ~Sends(n, i)) => Silent(wire, out, n)

IInv == Preparing /\ Control /\ Extracting /\ Counting /\ Guest /\ Delivering

---------------------------------------------------------------------------
(* The options.                                                            *)

\* What parseRunArgs builds.
Parsed == [ok : BOOLEAN, exclusions : Seq(Path), artifacts : Seq(Path)]

\* One option of the command line leaves lists of paths.
LEMMA OptionIsParsed ==
  ASSUME NEW o \in Parsed, NEW opt \in Option
  PROVE  parseOption(o, opt) \in Parsed
<1>1. /\ o.exclusions \in Seq(Path) /\ o.artifacts \in Seq(Path) /\ o.ok \in BOOLEAN
      /\ opt.path \in Path
      /\ opt.name \in {"--exclude", "--no-default-excludes", "--artifact", "--malformed"}
  BY DEF Parsed, Option
<1>2. /\ Append(o.exclusions, opt.path) \in Seq(Path) /\ Append(o.artifacts, opt.path) \in Seq(Path)
      /\ <<>> \in Seq(Path)
  BY <1>1, SeqAppend, SeqEmpty
<1> QED
  BY <1>1, <1>2 DEF parseOption, Parsed

\* parseRunArgs returns lists of paths, whatever the options.
LEMMA ArgsAreParsed ==
  ASSUME NEW opts \in Seq(Option)
  PROVE  parseRunArgs(opts) \in Parsed
<1> DEFINE N == Len(opts)
           E(h) == h = [i \in 0 .. Len(opts) |-> IF i = 0 THEN Options0 ELSE parseOption(h[i - 1], opts[i])]
           o == CHOOSE h : E(h)
           g == [x \in Parsed \X (1 .. N) |-> parseOption(x[1], opts[x[2]])]
<1>1. N \in Nat /\ \A i \in 1 .. N : opts[i] \in Option
  BY SeqIs, SeqElement
<1>2. g \in [Parsed \X (1 .. N) -> Parsed]
  BY <1>1, OptionIsParsed
<1>3. Options0 \in Parsed
  BY TransferAssumption, SeqEmpty DEF Options0, Parsed
<1>4. \E f : Solution(f, Parsed, Options0, N, g)
  <2> HIDE DEF g, N
  <2> QED BY <1>1, <1>2, <1>3, Recursion
<1>5. PICK f \in [0 .. N -> Parsed] : f[0] = Options0 /\ \A i \in 1 .. N : f[i] = g[<<f[i - 1], i>>]
  <2> HIDE DEF g, N
  <2> QED BY <1>4 DEF Solution
<1>6. \A i \in 1 .. N : f[i] = parseOption(f[i - 1], opts[i])
  <2> TAKE i \in 1 .. N
  <2>1. i - 1 \in 0 .. N
    BY <1>1, SMTT(30)
  <2>2. f[i - 1] \in Parsed
    BY <2>1
  <2>3. g[<<f[i - 1], i>>] = parseOption(f[i - 1], opts[i])
    BY <2>2
  <2> QED BY <2>3, <1>5
<1>7. E(f)
  BY <1>1, <1>5, <1>6, SMTT(30)
<1>8. E(o)
  BY <1>7
<1>9. parseRunArgs(opts) = o[N]
  BY DEF parseRunArgs
<1> DEFINE C == {i \in 0 .. N : o[i] \in Parsed}
<1> HIDE DEF o
<1>10. 0 \in C
  BY <1>8, <1>3, <1>1, SMTT(30)
<1>11. ASSUME NEW i \in 1 .. N, i - 1 \in C PROVE i \in C
  <2>1. o[i] = parseOption(o[i - 1], opts[i])
    BY <1>8, <1>1, SMTT(30)
  <2>2. o[i - 1] \in Parsed /\ opts[i] \in Option
    BY <1>11, <1>1
  <2>3. o[i] \in Parsed
    BY <2>1, <2>2, OptionIsParsed
  <2> QED BY <2>3, SMTT(30)
<1>12. N \in C
  <2> HIDE DEF C, N
  <2>1. \A i \in 0 .. N : i \in C
    BY <1>10, <1>11, <1>1, Climb
  <2> QED BY <2>1, <1>1, SMTT(30)
<1> QED
  BY <1>9, <1>12 DEF C

---------------------------------------------------------------------------
(* The archive and the walk.                                               *)

\* The command starts with a tree, or with an archive of another client.
LEMMA InitPreparing == TInit => Preparing
<1> SUFFICES ASSUME TInit PROVE Preparing
  OBVIOUS
<1> USE DEF TInit, Init
<1>1. IsTree(src)
  <2>1. IsTree(<<>>)
    BY FS_EmptySet, SMTT(30) DEF IsTree
  <2>2. src \in Trees \/ src = <<>>
    OBVIOUS
  <2> QED BY <2>1, <2>2, TreesAssumption DEF IsOnDisk
<1>2. archive \in Seq(Entries) /\ \A i \in DOMAIN archive : Fits(archive[i]) /\ IsWhole(archive[i])
  <2>1. CASE archive = <<>>
    BY <2>1, SeqEmpty, SMTT(30)
  <2>2. CASE archive \in Foreign
    <3>1. archive \in Seq(Entries) /\ \A i \in DOMAIN archive : IsWhole(archive[i])
      BY <2>2, ForeignAssumption
    <3>2. \A i \in DOMAIN archive : archive[i] \in Entries
      BY <3>1, SeqElement, SeqIs
    <3>3. ASSUME NEW e \in Entries, IsWhole(e) PROVE Fits(e)
      BY <3>3, SMTT(30) DEF Entries, IsWhole, Fits
    <3> QED BY <3>1, <3>2, <3>3
  <2> QED BY <2>1, <2>2
<1>3. exclusions \in Seq(Path) /\ artifacts \in Seq(Path) /\ todo \in Seq(Item)
  BY SeqEmpty
<1>4. edits \in 0 .. MaxEdits
  <2>1. edits = 0
    OBVIOUS
  <2> QED BY <2>1, MaxEditsAssumption, SMTT(30)
<1>5. tmp \in BOOLEAN /\ wpc \in {"start", "foreign"}
  OBVIOUS
<1> QED
  BY <1>1, <1>2, <1>3, <1>4, <1>5 DEF Preparing, Packing

\* Every step preserves Preparing.
LEMMA PreparingKept ==
  ASSUME Preparing, [TNext]_vars
  PROVE  Preparing'
<1>1. CASE args
  <2>1. PICK opts \in OptionLists :
          IF parseRunArgs(opts).ok
          THEN /\ exclusions' = parseRunArgs(opts).exclusions
               /\ artifacts' = parseRunArgs(opts).artifacts
               /\ UNCHANGED tmp
          ELSE tmp' = FALSE /\ UNCHANGED <<exclusions, artifacts>>
    BY <1>1 DEF args, Exit
  <2>2. parseRunArgs(opts) \in Parsed
    BY TransferAssumption, ArgsAreParsed
  <2>3. /\ exclusions' \in Seq(Path) /\ artifacts' \in Seq(Path) /\ tmp' \in BOOLEAN
    BY <2>1, <2>2 DEF Parsed, Preparing, Packing
  <2>4. UNCHANGED <<src, edits, wpc, todo, archive>>
    BY <1>1 DEF args
  <2> QED BY <2>3, <2>4 DEF Preparing, Packing
<1>2. CASE pack
  BY <1>2, WalkStep DEF pack, Preparing
<1>3. CASE info \/ packed \/ uploadResult \/ writeArtifact \/ complete \/ lose
  <2>1. UNCHANGED <<exclusions, artifacts, src, edits, wpc, todo, archive>>
    BY <1>3 DEF info, packed, uploadResult, writeArtifact, complete, lose
  <2>2. tmp' = tmp \/ tmp' = FALSE
    BY <1>3 DEF info, packed, uploadResult, writeArtifact, complete, lose, Exit
  <2> QED BY <2>1, <2>2 DEF Preparing, Packing
<1>4. CASE \/ receive \/ extract \/ uploadSend \/ uploadFail \/ uploadDone \/ transportStops
           \/ answer \/ boot \/ write \/ jobEnd \/ sendArtifacts \/ sendResult \/ UNCHANGED vars
  <2>1. UNCHANGED <<packVars, artifacts>>
    BY <1>4, ExtractOnly
    DEF receive, open, extract, uploadSend, uploadFail, uploadDone, transportStops, answer, boot,
        write, jobEnd, sendArtifacts, sendResult, vars
  <2> QED BY <2>1 DEF packVars, Preparing, Packing
<1> QED
  BY <1>1, <1>2, <1>3, <1>4 DEF TNext

---------------------------------------------------------------------------
(* The command, the worker and the guest.                                  *)

\* Control holds when the command starts.
LEMMA InitControl == TInit => Control
  BY DEF TInit, Init, Control

\* Every step preserves Control.
LEMMA ControlKept ==
  ASSUME Control, [TNext]_vars
  PROVE  Control'
<1> USE DEF Control
<1>1. CASE args
  BY <1>1 DEF args, Exit, extractVars, uploadVars, guestVars
<1>2. CASE info
  BY <1>2 DEF info, Exit, extractVars, uploadVars, guestVars
<1>3. CASE pack
  <2>1. UNCHANGED extractVars
    BY <1>3, PackOnly DEF pack
  <2>2. ypc = "pack" /\ UNCHANGED <<uploadVars, guestVars, ypc, code, artifacts, wire, out>>
    BY <1>3 DEF pack
  <2> QED BY <2>1, <2>2 DEF extractVars, uploadVars, guestVars
<1>4. CASE packed
  BY <1>4 DEF packed, Exit, extractVars, uploadVars, guestVars
<1>5. CASE receive
  BY <1>5 DEF receive, open, packVars, uploadVars, guestVars
<1>6. CASE extract
  <2>1. ypc = "upload" /\ UNCHANGED <<uploadVars, guestVars, ypc, code, artifacts, wire, out>>
    BY <1>6 DEF extract
  <2>2. UNCHANGED packVars
    BY <1>6, ExtractOnly DEF extract
  <2> QED BY <2>1, <2>2 DEF packVars, uploadVars, guestVars
<1>7. CASE uploadSend \/ uploadFail \/ uploadDone \/ transportStops
  BY <1>7, SMTT(30) DEF uploadSend, uploadFail, uploadDone, transportStops, packVars, extractVars, guestVars
<1>8. CASE answer
  BY <1>8 DEF answer, packVars, extractVars, guestVars
<1>9. CASE uploadResult
  BY <1>9 DEF uploadResult, Exit, extractVars, uploadVars, guestVars
<1>10. CASE boot \/ jobEnd \/ sendResult
  BY SMTT(30), <1>10 DEF boot, jobEnd, sendResult, packVars, extractVars, uploadVars
<1>11. CASE write
  <2>1. jpc = "job" /\ UNCHANGED <<packVars, extractVars, uploadVars, jpc, sending, ypc, code, wire>>
    BY <1>11 DEF write
  <2> QED BY <2>1, SMTT(30) DEF packVars, extractVars, uploadVars
<1>12. CASE sendArtifacts
  <2>1. jpc = "artifacts" /\ UNCHANGED <<packVars, extractVars, uploadVars, jpc, ypc, code>>
    BY <1>12 DEF sendArtifacts
  <2> QED BY <2>1, SMTT(30) DEF packVars, extractVars, uploadVars
<1>13. CASE writeArtifact
  <2>1. /\ ypc = "stream" /\ \/ UNCHANGED <<ypc, code, tmp>>
                             \/ ypc' = "exit" /\ code' = "failure" /\ tmp' = FALSE
        /\ UNCHANGED <<wpc, extractVars, uploadVars, guestVars>>
    BY <1>13 DEF writeArtifact, Exit
  <2> QED BY <2>1 DEF extractVars, uploadVars, guestVars
<1>14. CASE complete \/ lose
  BY <1>14 DEF complete, lose, Exit, extractVars, uploadVars, guestVars
<1>15. CASE UNCHANGED vars
  BY <1>15, SMTT(30) DEF vars, packVars, extractVars, uploadVars, guestVars
<1> QED
  BY <1>1, <1>2, <1>3, <1>4, <1>5, <1>6, <1>7, <1>8, <1>9, <1>10, <1>11, <1>12, <1>13, <1>14, <1>15
  DEF TNext

---------------------------------------------------------------------------
(* Extract.                                                                *)

\* Extract starts with an empty directory.
LEMMA InitExtracting == TInit => Extracting
<1> SUFFICES ASSUME TInit PROVE Extracting
  OBVIOUS
<1>1. dest = <<>> /\ epc = "idle" /\ idx = 1 /\ bytes = 0 /\ files = 0
  BY DEF TInit, Init
<1>2. IsTree(dest)
  BY <1>1, FS_EmptySet, SMTT(30) DEF IsTree
<1>3. Len(archive) \in Nat
  BY InitPreparing, SeqIs DEF Preparing, Packing
<1>4. idx \in 1 .. Len(archive) + 1
  BY <1>1, <1>3, SMTT(30)
<1>5. bytes \in 0 .. MaxBytes /\ files \in 0 .. MaxFiles + 1 /\ files <= MaxFiles
  BY <1>1, LimitsAssumption, SMTT(30)
<1>6. TreeIsReal
  BY <1>1, SMTT(30) DEF TreeIsReal
<1> QED
  BY <1>1, <1>2, <1>4, <1>5, <1>6 DEF Extracting

\* Every step preserves Extracting.
LEMMA ExtractingKept ==
  ASSUME Preparing, Control, Extracting, [TNext]_vars
  PROVE  Extracting'
<1>1. CASE extract
  <2>1. CASE next
    BY <2>1, ExtractingNext DEF Preparing
  <2>2. CASE body
    BY <2>2, ExtractingBody DEF Preparing, Control, body
  <2>3. CASE end \/ breakOff
    BY <2>3 DEF end, breakOff, Extracting, packVars, TreeIsReal, IsDir, Has, IsTree
  <2> QED BY <1>1, <2>1, <2>2, <2>3 DEF extract, Extract
<1>2. CASE receive
  BY <1>2 DEF receive, open, Extracting, packVars, TreeIsReal, IsDir, Has, IsTree
<1>3. CASE pack
  <2>1. UNCHANGED extractVars /\ ypc = "pack"
    BY <1>3, PackOnly DEF pack
  <2>2. epc = "idle" /\ idx = 1
    BY <2>1 DEF Control, Extracting
  <2>3. Preparing'
    BY PreparingKept
  <2>4. Len(archive') \in Nat
    BY <2>3, SeqIs DEF Preparing, Packing
  <2>5. idx' \in 1 .. Len(archive') + 1
    BY <2>1, <2>2, <2>4, SMTT(30) DEF extractVars
  <2> QED BY <2>1, <2>2, <2>5 DEF Extracting, extractVars, TreeIsReal, IsDir, Has, IsTree
<1>4. CASE ~extract /\ ~receive /\ ~pack
  <2>1. UNCHANGED <<extractVars, archive>>
    BY <1>4 DEF TNext, args, info, packed, uploadSend, uploadFail, uploadDone, transportStops, answer,
                uploadResult, boot, write, jobEnd, sendArtifacts, sendResult, writeArtifact, complete,
                lose, vars, packVars
  <2> QED BY <2>1 DEF Extracting, extractVars, TreeIsReal, IsDir, Has, IsTree
<1> QED
  BY <1>1, <1>2, <1>3, <1>4

---------------------------------------------------------------------------
(* What Extract counts.                                                    *)

\* Extract starts with all counts 0.
LEMMA InitCounting == TInit => Counting
<1> SUFFICES ASSUME TInit PROVE Counting
  OBVIOUS
<1>1. dest = <<>> /\ epc = "idle" /\ bytes = 0 /\ files = 0 /\ seen = {}
  BY DEF TInit, Init
<1>2. IsTree(dest) /\ DOMAIN dest = {}
  BY <1>1, FS_EmptySet, SMTT(30) DEF IsTree
<1>3. Bytes(dest) = 0
  BY <1>2, BytesEmpty
<1>4. Leaves(dest) = {}
  BY <1>2 DEF Leaves
<1>5. Cardinality({}) = 0
  BY FS_EmptySet
<1> QED
  BY <1>1, <1>2, <1>3, <1>4, <1>5, LimitsAssumption, SMTT(30) DEF Counting

\* Every step preserves Counting.
LEMMA CountingKept ==
  ASSUME Preparing, Control, Extracting, Counting, [TNext]_vars
  PROVE  Counting'
<1>1. CASE UNCHANGED extractVars
  BY <1>1 DEF extractVars, Counting, Leaves
<1>2. CASE extract
  <2>1. CASE next
    BY <2>1, CountingNext DEF Preparing
  <2>2. CASE body
    BY <2>2, CountingBody DEF Preparing, Control, body
  <2>3. CASE end \/ breakOff
    BY <2>3 DEF end, breakOff, Counting, Leaves
  <2> QED BY <1>2, <2>1, <2>2, <2>3 DEF extract, Extract
<1>3. CASE receive
  BY <1>3 DEF receive, open, Counting, Leaves
<1>4. CASE ~extract /\ ~receive
  <2>1. UNCHANGED extractVars
    <3>1. CASE pack
      BY <3>1, PackOnly DEF pack
    <3>2. CASE ~pack
      BY <1>4, <3>2 DEF TNext, args, info, packed, uploadSend, uploadFail, uploadDone, transportStops,
                answer, uploadResult, boot, write, jobEnd, sendArtifacts, sendResult, writeArtifact,
                complete, lose, vars
    <3> QED BY <3>1, <3>2
  <2> QED BY <1>1, <2>1
<1> QED
  BY <1>2, <1>3, <1>4

---------------------------------------------------------------------------
(* The guest.                                                              *)

\* The guest starts with an empty disk.
LEMMA InitGuest == TInit => Guest
<1> SUFFICES ASSUME TInit PROVE Guest
  OBVIOUS
<1>1. /\ disk = <<>> /\ writes = 0 /\ sending = 1 /\ wire = <<>> /\ out = <<>>
      /\ artifacts = <<>> /\ jpc = "off"
  BY DEF TInit
<1>2. IsTree(disk)
  BY <1>1, FS_EmptySet, SMTT(30) DEF IsTree
<1> QED
  BY <1>1, <1>2, TransferAssumption, SMTT(30) DEF Guest

\* A requested artifact, as the job and the agent find it below the mount point.
LEMMA RelativeIsPath ==
  ASSUME artifacts \in Seq(Path), NEW a \in Range(artifacts)
  PROVE  Relative(a) \in Path
<1>1. PICK i \in DOMAIN artifacts : a = artifacts[i]
  BY DEF Range
<1>2. a \in Path
  BY <1>1, SeqElement, SMTT(30)
<1>3. a # <<>> => Tail(a) \in Path
  BY <1>2, SeqTail DEF Path
<1> QED
  BY <1>2, <1>3 DEF Relative, IsAbs

\* Every step preserves Guest.
LEMMA GuestKept ==
  ASSUME Preparing, Control, Extracting, Guest, [TNext]_vars
  PROVE  Guest'
<1>1. Len(artifacts) \in Nat
  BY SeqIs DEF Preparing, Packing
<1>2. CASE UNCHANGED <<guestVars, artifacts, wire, out>>
  BY <1>2 DEF Guest, guestVars, IsTree
<1>3. CASE args
  <2>1. jpc = "off" /\ UNCHANGED <<guestVars, wire, out>>
    BY <1>3 DEF args, Control
  <2>2. Preparing'
    BY PreparingKept
  <2>3. Len(artifacts') \in Nat
    BY <2>2, SeqIs DEF Preparing, Packing
  <2> QED BY <2>1, <2>3, SMTT(30) DEF Guest, guestVars, IsTree
<1>4. CASE boot
  <2>1. /\ jpc = "off" /\ jpc' = "job" /\ disk' = dest
        /\ UNCHANGED <<writes, sending, artifacts, wire, out>>
    BY <1>4 DEF boot
  <2>2. IsTree(disk')
    BY <2>1 DEF Extracting
  <2> QED BY <2>1, <2>2 DEF Guest
<1>5. CASE write
  <2>1. /\ jpc = "job" /\ writes < MaxWrites /\ writes' = writes + 1
        /\ UNCHANGED <<jpc, sending, artifacts, wire, out>>
    BY <1>5 DEF write
  <2>2. PICK a \in Range(artifacts), n \in JobNodes :
          Relative(a) # <<>> /\ disk' = Put(WithParents(disk, Relative(a)), Relative(a), n)
    BY <1>5 DEF write
  <2>3. Relative(a) \in Path \ {<<>>} /\ n \in Node
    BY <2>2, RelativeIsPath, TransferAssumption DEF Preparing, Packing
  <2>4. IsTree(WithParents(disk, Relative(a)))
    BY <2>3, WithParentsIsTree DEF Guest
  <2>5. IsTree(disk')
    BY <2>2, <2>3, <2>4, PutIsTree
  <2> QED BY <2>1, <2>5, TransferAssumption, SMTT(30) DEF Guest
<1>6. CASE jobEnd \/ sendResult
  BY SMTT(30), <1>1, <1>6 DEF jobEnd, sendResult, Guest, IsTree
<1>7. CASE sendArtifacts
  <2>1. /\ jpc = "artifacts" /\ sending <= Len(artifacts) /\ sending' = sending + 1
        /\ UNCHANGED <<jpc, disk, writes, artifacts>>
    BY <1>7 DEF sendArtifacts
  <2> QED BY SMTT(30), <1>1, <2>1 DEF Guest, IsTree
<1>8. CASE writeArtifact
  <2>1. wire # <<>> /\ UNCHANGED <<guestVars, artifacts>>
    BY <1>8 DEF writeArtifact
  <2> QED BY <2>1 DEF Guest, guestVars, IsTree
<1>9. CASE /\ ~args /\ ~boot /\ ~write /\ ~jobEnd /\ ~sendResult /\ ~sendArtifacts /\ ~writeArtifact
  <2>1. UNCHANGED <<guestVars, artifacts, wire, out>>
    BY <1>9 DEF TNext, info, pack, packed, receive, extract, uploadSend, uploadFail, uploadDone,
                transportStops, answer, uploadResult, complete, lose, vars
  <2> QED BY <1>2, <2>1
<1> QED
  BY <1>3, <1>4, <1>5, <1>6, <1>7, <1>8, <1>9, SMTT(30)

---------------------------------------------------------------------------
(* The artifacts on their way.                                             *)

\* Nothing is under way when the command starts.
LEMMA InitDelivering == TInit => Delivering
<1> SUFFICES ASSUME TInit PROVE Delivering
  OBVIOUS
<1>1. sending = 1 /\ wire = <<>> /\ out = <<>>
  BY DEF TInit
<1>2. wire \in Seq([name : artifactBaseNames, data : Seq(Nat)])
  BY <1>1, SMTT(30)
<1> QED
  BY <1>1, <1>2, SMTT(30) DEF Delivering, Silent

\* Before the guest sends the first artifact there is nothing to deliver.
LEMMA DeliveringNothing ==
  ASSUME sending' = 1, wire' = <<>>, out' = <<>>
  PROVE  Delivering'
<1>1. wire' \in Seq([name : artifactBaseNames', data : Seq(Nat)])
  BY SMTT(30)
<1> QED
  BY <1>1, SMTT(30) DEF Delivering, Silent

\* A step that leaves the guest's files alone leaves alone what is available.
LEMMA SendsSame ==
  ASSUME UNCHANGED <<disk, artifacts>>
  PROVE  /\ \A n, i : Sends(n, i)' <=> Sends(n, i)
         /\ \A i : disk'[Mounted(artifacts[i])'] = disk[Mounted(artifacts[i])]
         /\ artifactBaseNames' = artifactBaseNames
  BY DEF Sends, Available, Mounted, Has, artifactBaseNames

\* What the command still has to do with the stream.
Follows == ypc # "exit" \/ code = "result"

\* A step that changes neither files nor frames delivers nothing new.
LEMMA DeliveringSame ==
  ASSUME Delivering, UNCHANGED <<disk, artifacts, sending, wire, out>>, Follows' => Follows
  PROVE  Delivering'
<1>1. /\ \A n, i : Sends(n, i)' <=> Sends(n, i)
      /\ \A i : disk'[Mounted(artifacts[i])'] = disk[Mounted(artifacts[i])]
      /\ artifactBaseNames' = artifactBaseNames
  BY SendsSame
<1> QED
  BY <1>1 DEF Delivering, Follows

\* A frame that is appended is the last one with its name, and changes nothing for the
\* other names.
LEMMA FrameAppended ==
  ASSUME NEW F, NEW w \in Seq(F), NEW f \in F, NEW o, NEW n
  PROVE  /\ n = f.name => Carried(Append(w, f), o, n, f.data)
         /\ n # f.name => \A d : Carried(w, o, n, d) => Carried(Append(w, f), o, n, d)
         /\ n # f.name /\ Silent(w, o, n) => Silent(Append(w, f), o, n)
<1> DEFINE v == Append(w, f)
           L == Len(w)
<1>1. /\ L \in Nat /\ DOMAIN w = 1 .. L /\ Len(v) = L + 1 /\ DOMAIN v = 1 .. L + 1
      /\ \A k \in 1 .. L : v[k] = w[k]
      /\ v[L + 1] = f
  <2>1. /\ v \in Seq(F) /\ Len(v) = L + 1 /\ v[L + 1] = f /\ \A k \in 1 .. L : v[k] = w[k]
    BY SeqAppend, SMTT(30)
  <2> HIDE DEF v
  <2>2. DOMAIN v = 1 .. L + 1 /\ DOMAIN w = 1 .. L /\ L \in Nat
    BY <2>1, SeqIs
  <2> QED BY <2>1, <2>2
<1> HIDE DEF v, L
<1>2. \A k \in DOMAIN v : k \in 1 .. L \/ k = L + 1
  BY <1>1, SMTT(30)
<1>3. ASSUME n = f.name PROVE Carried(v, o, n, f.data)
  <2>1. L + 1 \in DOMAIN v /\ \A l \in L + 1 + 1 .. Len(v) : FALSE
    BY <1>1, SMTT(30)
  <2> QED BY <1>1, <1>3, <2>1 DEF Carried
<1>4. ASSUME n # f.name, NEW d, Carried(w, o, n, d) PROVE Carried(v, o, n, d)
  <2>1. CASE \E k \in DOMAIN w :
               w[k].name = n /\ w[k].data = d /\ \A l \in k + 1 .. Len(w) : w[l].name # n
    <3>1. PICK k \in 1 .. L : w[k].name = n /\ w[k].data = d /\ \A l \in k + 1 .. L : w[l].name # n
      BY <1>1, <2>1 DEF L
    <3>2. \A l \in k + 1 .. Len(v) : (l \in k + 1 .. L /\ l \in 1 .. L) \/ l = L + 1
      BY <1>1, SMTT(30)
    <3>3. \A l \in k + 1 .. Len(v) : v[l].name # n
      BY <1>1, <1>4, <3>1, <3>2
    <3>4. k \in DOMAIN v /\ v[k].name = n /\ v[k].data = d
      BY <1>1, <3>1, SMTT(30)
    <3> QED BY <3>3, <3>4 DEF Carried
  <2>2. CASE (\A l \in DOMAIN w : w[l].name # n) /\ n \in DOMAIN o /\ o[n] = d
    BY <1>1, <1>2, <1>4, <2>2 DEF Carried
  <2> QED BY <1>4, <2>1, <2>2 DEF Carried
<1>5. ASSUME n # f.name, Silent(w, o, n) PROVE Silent(v, o, n)
  BY <1>1, <1>2, <1>5 DEF Silent
<1> QED
  BY <1>3, <1>4, <1>5 DEF v

\* A frame that is written to its file leaves behind what it carried.
LEMMA FrameWritten ==
  ASSUME NEW F, NEW w \in Seq(F), w # <<>>, NEW o, NEW n
  PROVE  /\ \A d : Carried(w, o, n, d) => Carried(Tail(w), With(o, Head(w).name, Head(w).data), n, d)
         /\ Silent(w, o, n) => Silent(Tail(w), With(o, Head(w).name, Head(w).data), n)
<1> DEFINE v == Tail(w)
           L == Len(w)
           f == Head(w)
           q == With(o, f.name, f.data)
<1>1. /\ L \in Nat \ {0} /\ DOMAIN w = 1 .. L /\ Len(v) = L - 1 /\ DOMAIN v = 1 .. L - 1
      /\ \A k \in 1 .. L - 1 : v[k] = w[k + 1]
      /\ w[1] = f
  <2>1. v \in Seq(F) /\ Len(v) = L - 1 /\ \A k \in 1 .. Len(v) : v[k] = w[k + 1]
    BY SeqTail
  <2> HIDE DEF v
  <2>2. DOMAIN v = 1 .. L - 1 /\ DOMAIN w = 1 .. L /\ L \in Nat \ {0}
    BY <2>1, SeqIs, SeqEmpty
  <2>3. w[1] = f
    BY SMTT(30)
  <2> QED BY <2>1, <2>2, <2>3
<1>2. /\ DOMAIN q = DOMAIN o \union {f.name} /\ q[f.name] = f.data
      /\ \A m \in DOMAIN o : m # f.name => q[m] = o[m]
  <2> HIDE DEF f
  <2> QED BY DEF With
<1> HIDE DEF v, L, f, q
<1>3. ASSUME NEW d, Carried(w, o, n, d) PROVE Carried(v, q, n, d)
  <2>1. CASE \E k \in DOMAIN w :
               w[k].name = n /\ w[k].data = d /\ \A l \in k + 1 .. Len(w) : w[l].name # n
    <3>1. PICK k \in 1 .. L : w[k].name = n /\ w[k].data = d /\ \A l \in k + 1 .. L : w[l].name # n
      BY <1>1, <2>1 DEF L
    <3>2. CASE k = 1
      <4>1. \A l \in DOMAIN v : l + 1 \in k + 1 .. L /\ v[l] = w[l + 1]
        BY <1>1, <3>2, SMTT(30)
      <4>2. n = f.name /\ d = f.data
        BY <1>1, <3>1, <3>2
      <4> QED BY <1>2, <3>1, <4>1, <4>2 DEF Carried
    <3>3. CASE k # 1
      <4>1. k - 1 \in DOMAIN v /\ v[k - 1] = w[k]
        <5>1. k - 1 \in 1 .. L - 1 /\ (k - 1) + 1 = k
          BY <1>1, <3>1, <3>3, SMTT(30)
        <5> QED BY <1>1, <5>1
      <4>2. \A l \in (k - 1) + 1 .. Len(v) : l + 1 \in k + 1 .. L /\ v[l] = w[l + 1]
        BY <1>1, <3>1, <3>3, SMTT(30)
      <4>3. \A l \in (k - 1) + 1 .. Len(v) : v[l].name # n
        BY <3>1, <4>2
      <4> QED BY <3>1, <4>1, <4>3 DEF Carried
    <3> QED BY <3>2, <3>3
  <2>2. CASE (\A l \in DOMAIN w : w[l].name # n) /\ n \in DOMAIN o /\ o[n] = d
    <3>1. \A l \in DOMAIN v : l + 1 \in DOMAIN w /\ v[l] = w[l + 1]
      BY <1>1, SMTT(30)
    <3>2. 1 \in DOMAIN w
      BY <1>1, SMTT(30)
    <3>3. n # f.name
      BY <1>1, <2>2, <3>2
    <3> QED BY <1>2, <2>2, <3>1, <3>3 DEF Carried
  <2> QED BY <1>3, <2>1, <2>2 DEF Carried
<1>4. ASSUME Silent(w, o, n) PROVE Silent(v, q, n)
  <2>1. \A l \in DOMAIN v : l + 1 \in DOMAIN w /\ v[l] = w[l + 1]
    BY <1>1, SMTT(30)
  <2>2. 1 \in DOMAIN w
    BY <1>1, SMTT(30)
  <2> QED BY <1>1, <1>2, <1>4, <2>1, <2>2, SMTT(30) DEF Silent
<1> QED
  BY <1>3, <1>4 DEF v, f, q

\* What Delivering says of one name, with the first s artifacts sent, w under way and o written.
Arriving(n, s, w, o) ==
  /\ \A i \in 1 .. s :
       Sends(n, i) /\ (\A j \in i + 1 .. s : ~Sends(n, j))
         => Carried(w, o, n, disk[Mounted(artifacts[i])].data)
  /\ (\A i \in 1 .. s : ~Sends(n, i)) => Silent(w, o, n)

\* The next artifact is not sent under the name n, and nothing is lost for it.
LEMMA ArrivingOther ==
  ASSUME NEW n, NEW s \in Nat, NEW w, NEW o, NEW v, NEW q, Arriving(n, s, w, o), ~Sends(n, s + 1),
         \A d : Carried(w, o, n, d) => Carried(v, q, n, d),
         Silent(w, o, n) => Silent(v, q, n)
  PROVE  Arriving(n, s + 1, v, q)
<1>1. ASSUME NEW i \in 1 .. s + 1, Sends(n, i), \A j \in i + 1 .. s + 1 : ~Sends(n, j)
      PROVE  Carried(v, q, n, disk[Mounted(artifacts[i])].data)
  <2>1. i # s + 1
    BY <1>1
  <2>2. i \in 1 .. s /\ \A j \in i + 1 .. s : j \in i + 1 .. s + 1
    BY <2>1, SMTT(30)
  <2>3. Carried(w, o, n, disk[Mounted(artifacts[i])].data)
    BY <1>1, <2>2 DEF Arriving
  <2> QED BY <2>3
<1>2. ASSUME \A i \in 1 .. s + 1 : ~Sends(n, i) PROVE Silent(v, q, n)
  <2>1. \A i \in 1 .. s : i \in 1 .. s + 1
    BY SMTT(30)
  <2> QED BY <1>2, <2>1 DEF Arriving
<1> QED
  BY <1>1, <1>2 DEF Arriving

\* Any files and frames that carry what Arriving asks for do.
LEMMA ArrivingOn ==
  ASSUME NEW n, NEW s, NEW w, NEW o, NEW v, NEW q, Arriving(n, s, w, o),
         \A d : Carried(w, o, n, d) => Carried(v, q, n, d),
         Silent(w, o, n) => Silent(v, q, n)
  PROVE  Arriving(n, s, v, q)
  BY DEF Arriving

\* The next artifact is sent under the name n: the ones before it do not matter any more.
LEMMA ArrivingNew ==
  ASSUME NEW n, NEW s \in Nat, NEW v, NEW q, Sends(n, s + 1),
         Carried(v, q, n, disk[Mounted(artifacts[s + 1])].data)
  PROVE  Arriving(n, s + 1, v, q)
<1>1. ASSUME NEW i \in 1 .. s + 1, i # s + 1, \A j \in i + 1 .. s + 1 : ~Sends(n, j) PROVE FALSE
  <2>1. s + 1 \in i + 1 .. s + 1
    BY <1>1, SMTT(30)
  <2> QED BY <1>1, <2>1
<1>2. s + 1 \in 1 .. s + 1
  BY SMTT(30)
<1> QED
  BY <1>1, <1>2 DEF Arriving

\* Delivering, name by name.
LEMMA DeliveringIs ==
  Delivering <=> /\ DOMAIN out \subseteq artifactBaseNames
                 /\ wire \in Seq([name : artifactBaseNames, data : Seq(Nat)])
                 /\ Follows => \A n \in artifactBaseNames : Arriving(n, sending - 1, wire, out)
  BY DEF Delivering, Follows, Arriving

\* A step that leaves the guest's files alone may be judged by what they were before it.
LEMMA DeliveringThen ==
  ASSUME UNCHANGED <<disk, artifacts>>, DOMAIN out' \subseteq artifactBaseNames,
         wire' \in Seq([name : artifactBaseNames, data : Seq(Nat)]),
         Follows' => \A n \in artifactBaseNames : Arriving(n, sending' - 1, wire', out')
  PROVE  Delivering'
<1>1. /\ \A n, i : Sends(n, i)' <=> Sends(n, i)
      /\ \A i : disk'[Mounted(artifacts[i])'] = disk[Mounted(artifacts[i])]
      /\ artifactBaseNames' = artifactBaseNames
  BY SendsSame
<1> QED
  BY <1>1 DEF Delivering, Follows, Arriving

\* sendArtifacts: an artifact that is not available is skipped.
LEMMA DeliveringSend ==
  ASSUME Preparing, Guest, Delivering, sendArtifacts
  PROVE  Delivering'
<1> DEFINE p == artifacts[sending]
           F == [name : artifactBaseNames, data : Seq(Nat)]
           f == [name |-> Base(p), data |-> disk[Mounted(p)].data]
<1>1. /\ sending \in 1 .. Len(artifacts) /\ sending' = sending + 1
      /\ UNCHANGED <<disk, artifacts, ypc, code, out>>
      /\ wire' = IF Available(p) THEN Append(wire, f) ELSE wire
  BY SMTT(30) DEF sendArtifacts, Guest
<1>2. DOMAIN artifacts = 1 .. Len(artifacts) /\ Len(artifacts) \in Nat
  BY SeqIs DEF Preparing, Packing
<1>3. Base(p) \in artifactBaseNames /\ sending - 1 \in Nat /\ sending = (sending - 1) + 1
  BY <1>1, <1>2, SMTT(30) DEF artifactBaseNames, Range
<1>4. Available(p) => f \in F /\ f.name = Base(p) /\ f.data = disk[Mounted(p)].data
  <2>1. Available(p) => disk[Mounted(p)].data \in Seq(Nat)
    BY NodeFacts DEF Available, Has, Guest, IsTree
  <2> QED BY <1>3, <2>1
<1>5. \A n : Sends(n, sending) <=> Base(p) = n /\ Available(p)
  BY DEF Sends
<1>6. /\ DOMAIN out \subseteq artifactBaseNames /\ wire \in Seq(F)
      /\ Follows => \A n \in artifactBaseNames : Arriving(n, sending - 1, wire, out)
  BY DeliveringIs
<1>7. artifactBaseNames' = artifactBaseNames /\ (Follows' <=> Follows)
  BY <1>1 DEF artifactBaseNames, Follows
<1>8. wire' \in Seq(F)
  <2>1. CASE Available(p)
    <3> HIDE DEF f, F
    <3> QED BY <1>1, <1>4, <1>6, <2>1, SeqAppend
  <2> QED BY <1>1, <1>6, <2>1
<1>9. ASSUME Follows, NEW n \in artifactBaseNames PROVE Arriving(n, sending, wire', out)
  <2>1. Arriving(n, sending - 1, wire, out)
    BY <1>6, <1>9
  <2>2. CASE ~Available(p)
    <3>1. wire' = wire /\ ~Sends(n, sending)
      BY <1>1, <1>5, <2>2
    <3> QED BY <1>3, <2>1, <3>1, ArrivingOther
  <2>3. CASE Available(p) /\ n = Base(p)
    <3>1. Sends(n, sending) /\ wire' = Append(wire, f) /\ f \in F /\ f.name = n
      BY <1>1, <1>4, <1>5, <2>3
    <3>2. Carried(wire', out, n, f.data)
      <4> HIDE DEF f, F
      <4> QED BY <1>6, <3>1, FrameAppended
    <3>3. Carried(wire', out, n, disk[Mounted(artifacts[sending])].data)
      BY <1>4, <2>3, <3>2
    <3> QED BY <1>3, <3>1, <3>3, ArrivingNew
  <2>4. CASE Available(p) /\ n # Base(p)
    <3>1. ~Sends(n, sending) /\ wire' = Append(wire, f) /\ f \in F /\ f.name # n
      BY <1>1, <1>4, <1>5, <2>4
    <3>2. /\ \A d : Carried(wire, out, n, d) => Carried(wire', out, n, d)
          /\ Silent(wire, out, n) => Silent(wire', out, n)
      <4> HIDE DEF f, F
      <4> QED BY <1>6, <3>1, FrameAppended
    <3> QED BY <1>3, <2>1, <3>1, <3>2, ArrivingOther
  <2> QED BY <2>2, <2>3, <2>4
<1>10. sending' - 1 = sending
  BY <1>1, <1>2, SMTT(30)
<1> QED
  BY <1>1, <1>6, <1>7, <1>8, <1>9, <1>10, DeliveringThen, SMTT(30)

\* writeArtifact: the file has what the frame carried, or the command gives up.
LEMMA DeliveringWrite ==
  ASSUME Delivering, writeArtifact
  PROVE  Delivering'
<1> DEFINE F == [name : artifactBaseNames, data : Seq(Nat)]
           f == Head(wire)
<1>1. /\ DOMAIN out \subseteq artifactBaseNames /\ wire \in Seq(F)
      /\ Follows => \A n \in artifactBaseNames : Arriving(n, sending - 1, wire, out)
  BY DeliveringIs
<1>2. /\ ypc = "stream" /\ wire # <<>> /\ wire' = Tail(wire) /\ UNCHANGED <<disk, artifacts, sending>>
      /\ \/ f.name \in artifactBaseNames /\ out' = With(out, f.name, f.data)
         \/ /\ f.name \in artifactBaseNames /\ \E x : out' = With(out, f.name, x)
            /\ ypc' = "exit" /\ code' = "failure"
         \/ ypc' = "exit" /\ code' = "failure" /\ UNCHANGED out
  <2>1. /\ ypc = "stream" /\ wire # <<>> /\ wire' = Tail(wire) /\ UNCHANGED <<disk, artifacts, sending>>
    BY DEF writeArtifact, guestVars
  <2>2. \/ f.name \in artifactBaseNames /\ out' = With(out, f.name, f.data)
        \/ /\ f.name \in artifactBaseNames
           /\ \E n \in 0 .. Len(f.data) - 1 : out' = With(out, f.name, SubSeq(f.data, 1, n))
           /\ ypc' = "exit" /\ code' = "failure"
        \/ ypc' = "exit" /\ code' = "failure" /\ UNCHANGED out
    BY DEF writeArtifact, Exit
  <2>3. (\E n \in 0 .. Len(f.data) - 1 : out' = With(out, f.name, SubSeq(f.data, 1, n)))
          => \E x : out' = With(out, f.name, x)
    OBVIOUS
  <2> QED BY <2>1, <2>2, <2>3
<1>3. wire' \in Seq(F)
  <2> HIDE DEF F
  <2> QED BY <1>1, <1>2, SeqTail
<1>4. DOMAIN out' \subseteq artifactBaseNames
  <2> HIDE DEF f
  <2> QED BY <1>1, <1>2, SMTT(30) DEF With
<1>5. CASE ypc' = "exit" /\ code' = "failure"
  <2>1. ~Follows'
    BY <1>5 DEF Follows
  <2> QED BY <1>2, <1>3, <1>4, <2>1, DeliveringThen
<1>6. CASE out' = With(out, f.name, f.data)
  <2>1. ASSUME NEW n \in artifactBaseNames PROVE Arriving(n, sending - 1, wire', out')
    <3>1. Arriving(n, sending - 1, wire, out)
      BY <1>1, <1>2 DEF Follows
    <3>2. /\ \A d : Carried(wire, out, n, d) => Carried(wire', out', n, d)
          /\ Silent(wire, out, n) => Silent(wire', out', n)
      <4> HIDE DEF F
      <4> QED BY <1>1, <1>2, <1>6, FrameWritten
    <3> QED BY <3>1, <3>2, ArrivingOn
  <2> QED BY <1>2, <1>3, <1>4, <2>1, DeliveringThen
<1> QED
  BY <1>2, <1>5, <1>6

\* Every step preserves Delivering.
LEMMA DeliveringKept ==
  ASSUME Preparing, Control, Guest, Delivering, [TNext]_vars
  PROVE  Delivering'
<1>1. CASE args
  <2>1. jpc = "off" /\ UNCHANGED <<sending, wire, out>>
    BY <1>1 DEF args, Control, guestVars
  <2> QED BY <2>1, DeliveringNothing DEF Guest
<1>2. CASE boot \/ write
  <2>1. jpc \in {"off", "job"} /\ UNCHANGED <<sending, wire, out>>
    BY <1>2 DEF boot, write
  <2> QED BY <2>1, DeliveringNothing DEF Guest
<1>3. CASE sendArtifacts
  BY <1>3, DeliveringSend
<1>4. CASE writeArtifact
  BY <1>4, DeliveringWrite
<1>5. CASE ~args /\ ~boot /\ ~write /\ ~sendArtifacts /\ ~writeArtifact
  <2>1. UNCHANGED <<disk, artifacts, sending, wire, out>>
    BY <1>5 DEF TNext, info, pack, packed, receive, extract, uploadSend, uploadFail, uploadDone,
                transportStops, answer, uploadResult, jobEnd, sendResult, complete, lose, vars, guestVars
  <2>2. UNCHANGED <<ypc, code>> \/ ypc # "exit"
    BY <1>5 DEF TNext, info, pack, packed, receive, extract, uploadSend, uploadFail, uploadDone,
                transportStops, answer, uploadResult, jobEnd, sendResult, complete, lose, vars
  <2> QED BY <2>1, <2>2, DeliveringSame DEF Follows
<1> QED
  BY <1>1, <1>2, <1>3, <1>4, <1>5, SMTT(30)

---------------------------------------------------------------------------
(* The theorems.                                                           *)

\* IInv holds of every run of the command.
THEOREM InvariantHolds == TSpec => []IInv
<1>1. TInit => IInv
  BY InitPreparing, InitControl, InitExtracting, InitCounting, InitGuest, InitDelivering, SMTT(30)
  DEF IInv
<1>2. IInv /\ [TNext]_vars => IInv'
  BY PreparingKept, ControlKept, ExtractingKept, CountingKept, GuestKept, DeliveringKept, SMTT(30)
  DEF IInv
<1> QED
  BY <1>1, <1>2, PTL DEF TSpec

\* Type correctness of packing, uploading, extracting and returning: no tree ever has a
\* node without its name, and no count runs past its limit, whatever an archive of
\* another client contains.
THEOREM TypesHold == TSpec => []TypeOK
<1>1. IInv => TypeOK
  BY DEF IInv, Preparing, Packing, Control, Extracting, Guest, TypeOK
<1> QED
  BY <1>1, InvariantHolds, PTL

\* Extract puts nothing below a link or a file (workspace.go): what it creates is where
\* its name says, whatever the archive.
THEOREM TreesAreReal == TSpec => []TreeIsReal
<1>1. IInv => TreeIsReal
  BY DEF IInv, Extracting
<1> QED
  BY <1>1, InvariantHolds, PTL

\* Extract never writes more bytes, or more files and links, than its limits, and what it
\* reports when it succeeds is what is there.
THEOREM LimitsHold == TSpec => []WithinLimits
<1>1. ASSUME IInv PROVE WithinLimits
  <2>1. Bytes(dest) <= MaxBytes /\ Cardinality(Leaves(dest)) <= MaxFiles
    BY <1>1 DEF IInv, Counting
  <2>2. ASSUME epc = "ok" PROVE bytes = Bytes(dest) /\ files = Cardinality(DOMAIN dest \intersect seen)
    <3>1. bytes = Bytes(dest) /\ seen \subseteq DOMAIN dest /\ files = Cardinality(seen)
      BY <1>1, <2>2 DEF IInv, Counting
    <3>2. DOMAIN dest \intersect seen = seen
      BY <3>1
    <3> QED BY <3>1, <3>2
  <2> QED BY <2>1, <2>2 DEF WithinLimits, Leaves
<1> QED
  BY <1>1, InvariantHolds, PTL

\* The last of the requested paths with one name.
LEMMA Greatest ==
  ASSUME NEW N \in Nat, NEW S, S \subseteq 1 .. N, S # {}
  PROVE  Max(S) \in S /\ \A k \in S : k <= Max(S)
<1> DEFINE B == {N - i : i \in S}
<1>1. B \subseteq Nat /\ B # {}
  <2>1. \A i \in S : N - i \in Nat
    BY SMTT(30)
  <2> QED BY <2>1
<1>2. PICK m \in B : \A k \in B : m <= k
  <2> HIDE DEF B
  <2> QED BY <1>1, Least
<1>3. PICK g \in S : m = N - g
  BY <1>2
<1>4. \A k \in S : g >= k
  <2> TAKE k \in S
  <2>1. N - k \in B /\ k \in 1 .. N /\ g \in 1 .. N
    OBVIOUS
  <2> HIDE DEF B
  <2>2. N - g <= N - k
    BY <1>2, <1>3, <2>1
  <2> QED BY <2>1, <2>2, SMTT(30)
<1>5. Max(S) \in S /\ \A k \in S : Max(S) >= k
  BY <1>3, <1>4 DEF Max
<1> QED
  BY <1>5

\* writeArtifact and sendArtifacts: when the command exits with the job's code, each
\* requested base name has the complete file of the last requested path with that name
\* that the guest could send, and no other file was written; the archive is gone.
THEOREM ArtifactsReturn == TSpec => []ArtifactsArrive
<1>1. ASSUME IInv, ypc = "exit" PROVE ~tmp /\ DOMAIN out \subseteq artifactBaseNames
  BY <1>1 DEF IInv, Control, Delivering
<1>2. ASSUME IInv, ypc = "exit", code = "result", NEW n \in artifactBaseNames,
             NEW sent, sent = {i \in DOMAIN artifacts : Base(artifacts[i]) = n /\ Available(artifacts[i])}
      PROVE  IF sent = {} THEN n \notin DOMAIN out
             ELSE n \in DOMAIN out /\ out[n] = disk[Mounted(artifacts[Max(sent)])].data
  <2>1. wire = <<>> /\ sending = Len(artifacts) + 1
    BY <1>2 DEF IInv, Control, Guest
  <2>2. Len(artifacts) \in Nat /\ DOMAIN artifacts = 1 .. Len(artifacts)
    BY <1>2, SeqIs DEF IInv, Preparing, Packing
  <2>3. sending - 1 = Len(artifacts)
    BY <2>1, <2>2, SMTT(30)
  <2>4. Arriving(n, Len(artifacts), wire, out)
    BY <1>2, <2>3, DeliveringIs DEF IInv, Follows
  <2>5. sent \subseteq 1 .. Len(artifacts) /\ \A i \in 1 .. Len(artifacts) : i \in sent <=> Sends(n, i)
    BY <1>2, <2>2 DEF Sends
  <2>6. CASE sent = {}
    <3>1. Silent(wire, out, n)
      BY <2>4, <2>5, <2>6 DEF Arriving
    <3> QED BY <2>6, <3>1 DEF Silent
  <2>7. CASE sent # {}
    <3>1. Max(sent) \in sent /\ \A k \in sent : k <= Max(sent)
      BY <2>2, <2>5, <2>7, Greatest
    <3> DEFINE m == Max(sent)
    <3> HIDE DEF m
    <3>2. m \in 1 .. Len(artifacts) /\ Sends(n, m)
      BY <2>5, <3>1 DEF m
    <3>3. \A j \in m + 1 .. Len(artifacts) : j \in 1 .. Len(artifacts) /\ ~ (j <= m)
      BY <2>2, <3>2, SMTT(30)
    <3>4. \A j \in m + 1 .. Len(artifacts) : ~Sends(n, j)
      BY <2>5, <3>1, <3>3 DEF m
    <3>5. Carried(wire, out, n, disk[Mounted(artifacts[m])].data)
      BY <2>4, <3>2, <3>4 DEF Arriving
    <3>6. n \in DOMAIN out /\ out[n] = disk[Mounted(artifacts[m])].data
      BY SMTT(30), <2>1, <3>5 DEF Carried
    <3> QED BY <2>7, <3>6 DEF m
  <2> QED BY <2>6, <2>7
<1>3. IInv => ArtifactsArrive
  BY <1>1, <1>2 DEF ArtifactsArrive
<1> QED
  BY <1>3, InvariantHolds, PTL
===========================================================================
