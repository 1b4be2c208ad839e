------------------------------- MODULE Sizes ------------------------------
(***************************************************************************)
(* The sizes a job passes through on its way into a VM and back: the       *)
(* worker's extraction limit, the clamps and the disk image of the         *)
(* Firecracker executor, and the frames in which a guest returns           *)
(* artifacts.  All sizes are in bytes unless they are named MB.            *)
(***************************************************************************)
EXTENDS Integers

MiB == 1048576

maxWorkspaceBytes    == 8192 * MiB
minGuestDiskMB       == 64
maxArtifactBytes     == 512 * MiB
maxGuestMessageBytes == 768 * MiB

\* handleRun: the job's disk request, at most the worker's own limit.
extractionLimit(diskMB) ==
  IF diskMB < 8192 THEN diskMB * MiB ELSE maxWorkspaceBytes

clampInt(value, min, max) ==
  IF value < min THEN min ELSE IF value > max THEN max ELSE value

\* The room for a workspace, a tenth of it and the file system's own data.
Needed(contentBytes) == contentBytes + contentBytes \div 10 + 8 * MiB

workspaceImageSize(contentBytes, requestedDiskMB) ==
  LET content == IF contentBytes < 0 THEN 0 ELSE contentBytes
      least   == IF Needed(content) < 16 * MiB THEN 16 * MiB ELSE Needed(content)
      asked   == IF requestedDiskMB < 1 THEN 64 ELSE requestedDiskMB
  IN IF least < asked * MiB THEN asked * MiB ELSE least

\* The image that Run makes for a job.
imageBytes(contentBytes, diskMB, maxDiskMB) ==
  workspaceImageSize(contentBytes, clampInt(diskMB, minGuestDiskMB, maxDiskMB))

\* encoding/json writes bytes in base64; the rest of an artifact's message is its
\* type, its name (at most 255 bytes, each at most six in JSON) and punctuation.
FrameOverhead == 2048
EncodedBytes(n) == 4 * ((n + 2) \div 3)
===========================================================================
