----------------------------- MODULE Snapshots -----------------------------
(***************************************************************************)
(* The snapshots that core_backup.py publishes and restores: create stages *)
(* a tar and its manifest, upload copies both to a prefix of their own and *)
(* then switches latest.json, restore downloads the latest into an empty   *)
(* data directory on another host.  A snapshot is the number of its        *)
(* creation; a manifest is the snapshot it describes.                      *)
(*                                                                         *)
(* Backups of one host run one at a time (CoreBackup).  Any step may fail  *)
(* or its process be killed, and the store may acknowledge an object that  *)
(* it does not have.                                                       *)
(***************************************************************************)
EXTENDS Integers

CONSTANTS
    MaxSnapshots,   \* bound: creations
    MaxFaults       \* bound: failures, kills, objects not stored

ASSUME SnapshotsAssumption == MaxSnapshots \in Nat \ {0} /\ MaxFaults \in Nat

VARIABLES
    bpc,         \* next step of create and upload
    created,     \* snapshots made so far
    tar,         \* the snapshot in the staged core.tar, 0 for none
    manifest,    \* the staged manifest.json, 0 for none
    loaded,      \* the manifest upload has in memory
    tars,        \* the snapshot in each remote core.tar, 0 for none
    manifests,   \* the manifest in each remote manifest.json
    latest,      \* the manifest in latest.json
    rpc,         \* next step of restore
    wanted,      \* the manifest restore has read
    download,    \* the snapshot in restore.tar
    staging,     \* the snapshot in the directory .restore-*, 0 for none
    root,        \* the snapshot each root of the data directory is of, 0 for none
    core,        \* Core has used the data directory: "no", "running", "ended"
    faults

backup == <<bpc, created, tar, manifest, loaded>>
remote == <<tars, manifests, latest>>
restore == <<rpc, wanted, download, staging, root>>
vars == <<backup, remote, restore, core, faults>>

Snapshot == 1..MaxSnapshots
Roots == {"blocks", "chainstate"}

Init ==
    /\ bpc = "idle" /\ created = 0 /\ tar = 0 /\ manifest = 0 /\ loaded = 0
    /\ tars = [s \in Snapshot |-> 0]
    /\ manifests = [s \in Snapshot |-> 0]
    /\ latest = 0
    /\ rpc = "idle" /\ wanted = 0 /\ download = 0 /\ staging = 0
    /\ root = [r \in Roots |-> 0] /\ core = "no"
    /\ faults = 0

Fault == faults < MaxFaults /\ faults' = faults + 1

-----------------------------------------------------------------------------
(* create and upload.                                                      *)

\* Mutant of Prefix: every snapshot goes to the same place.
OneForAll(s) == 1

\* Where a snapshot goes: each has an identifier of its own.
Prefix(s) == s

\* The tar replaces the one staged before.
CreateTar ==
    /\ bpc = "idle" /\ created < MaxSnapshots
    /\ created' = created + 1 /\ tar' = created + 1
    /\ bpc' = "manifest"
    /\ UNCHANGED <<manifest, loaded, remote, restore, core, faults>>

CreateManifest ==
    /\ bpc = "manifest"
    /\ manifest' = tar /\ bpc' = "load"
    /\ UNCHANGED <<created, tar, loaded, remote, restore, core, faults>>

\* A failed upload may be run again by hand; the staged files are still there.
UploadAgain ==
    /\ bpc = "idle" /\ manifest # 0
    /\ bpc' = "load"
    /\ UNCHANGED <<created, tar, manifest, loaded, remote, restore, core, faults>>

\* The staged manifest is that of the staged tar, or the upload is refused.
Load ==
    /\ bpc = "load"
    /\ IF manifest = tar THEN loaded' = manifest /\ bpc' = "putTar"
                         ELSE bpc' = "idle" /\ UNCHANGED loaded
    /\ UNCHANGED <<created, tar, manifest, remote, restore, core, faults>>

\* An acknowledged upload, of which the store may have nothing.
PutTar ==
    /\ bpc = "putTar" /\ bpc' = "checkTar"
    /\ \/ tars' = [tars EXCEPT ![Prefix(loaded)] = tar] /\ UNCHANGED faults
       \/ Fault /\ UNCHANGED tars
    /\ UNCHANGED <<created, tar, manifest, loaded, manifests, latest, restore, core>>

\* Mutant of TarStored: the acknowledgement is believed.
TarAcknowledged(s) == TRUE

\* verify_size: there is an object and its size is that of the staged tar, which
\* tars of other snapshots may have too.
TarStored(s) == tars[Prefix(s)] # 0

CheckTar ==
    /\ bpc = "checkTar"
    /\ bpc' = IF TarStored(loaded) THEN "putManifest" ELSE "idle"
    /\ UNCHANGED <<created, tar, manifest, loaded, remote, restore, core, faults>>

PutManifest ==
    /\ bpc = "putManifest" /\ bpc' = "checkManifest"
    /\ \/ manifests' = [manifests EXCEPT ![Prefix(loaded)] = manifest]
          /\ UNCHANGED faults
       \/ Fault /\ UNCHANGED manifests
    /\ UNCHANGED <<created, tar, manifest, loaded, tars, latest, restore, core>>

CheckManifest ==
    /\ bpc = "checkManifest"
    /\ bpc' = IF manifests[Prefix(loaded)] = loaded THEN "publish" ELSE "idle"
    /\ UNCHANGED <<created, tar, manifest, loaded, remote, restore, core, faults>>

\* Of this upload nothing is verified.
Publish ==
    /\ bpc = "publish" /\ bpc' = "idle"
    /\ \/ latest' = manifest /\ UNCHANGED faults
       \/ Fault /\ UNCHANGED latest
    /\ UNCHANGED <<created, tar, manifest, loaded, tars, manifests, restore, core>>

\* A step fails or the process is killed, before or after its effect.
BackupFails ==
    /\ bpc # "idle" /\ bpc' = "idle" /\ Fault
    /\ UNCHANGED <<created, tar, manifest, loaded, remote, restore, core>>

-----------------------------------------------------------------------------
(* restore.                                                                *)

RestoreIdle == rpc \in {"idle", "done"}

Empty == staging = 0 /\ core = "no" /\ \A r \in Roots : root[r] = 0

\* A step of restore from one label, to another or to the end if it is refused.
RestoreStep(from, ok, to) ==
    /\ rpc = from /\ rpc' = IF ok THEN to ELSE "idle"
    /\ UNCHANGED <<backup, remote, core, faults>>

\* The script finds no service running, restore an empty directory.
Look ==
    /\ core # "running"
    /\ RestoreStep("idle", Empty, "lock")
    /\ UNCHANGED <<wanted, download, staging, root>>

LockData ==
    /\ RestoreStep("lock", core # "running", "recheck")
    /\ UNCHANGED <<wanted, download, staging, root>>

\* Mutant of Recheck: what was empty before the lock is taken to be empty.
StillEmpty ==
    /\ RestoreStep("recheck", TRUE, "latest")
    /\ UNCHANGED <<wanted, download, staging, root>>

Recheck ==
    /\ RestoreStep("recheck", Empty, "latest")
    /\ UNCHANGED <<wanted, download, staging, root>>

ReadLatest ==
    /\ RestoreStep("latest", latest # 0, "download")
    /\ wanted' = latest
    /\ UNCHANGED <<download, staging, root>>

\* Size before, size and checksum after the transfer.
Download ==
    /\ RestoreStep("download", tars[Prefix(wanted)] = wanted, "unpack")
    /\ download' = tars[Prefix(wanted)]
    /\ UNCHANGED <<wanted, staging, root>>

Unpack ==
    /\ RestoreStep("unpack", TRUE, "move")
    /\ staging' = download
    /\ UNCHANGED <<wanted, download, root>>

\* Mutant of NextRoot: the other order.
NextRootBackwards ==
    IF root["chainstate"] = 0 THEN "chainstate" ELSE "blocks"

\* ROOTS: the blocks first.
NextRoot == IF root["blocks"] = 0 THEN "blocks" ELSE "chainstate"

Move ==
    /\ \E r \in Roots : root[r] = 0
    /\ RestoreStep("move", TRUE, "move")
    /\ root' = [root EXCEPT ![NextRoot] = staging]
    /\ UNCHANGED <<wanted, download, staging>>

Finish ==
    /\ \A r \in Roots : root[r] # 0
    /\ RestoreStep("move", TRUE, "done")
    /\ staging' = 0
    /\ UNCHANGED <<wanted, download, root>>

\* An error: what was unpacked is removed, what was moved stays.
RestoreFails ==
    /\ ~RestoreIdle /\ rpc' = "idle" /\ Fault
    /\ staging' = 0
    /\ UNCHANGED <<backup, remote, core, wanted, download, root>>

\* A kill, which may come before the directory is unpacked in full.
RestoreKilled ==
    /\ ~RestoreIdle /\ rpc' = "idle" /\ Fault
    /\ staging' \in IF rpc = "unpack" THEN {0, download} ELSE {staging}
    /\ UNCHANGED <<backup, remote, core, wanted, download, root>>

-----------------------------------------------------------------------------
(* Core, started by mistake on the directory that is to be restored.       *)

LockIsFree == rpc \in {"idle", "lock"}

CoreStarts ==
    /\ Empty /\ LockIsFree
    /\ core' = "running"
    /\ UNCHANGED <<backup, remote, restore, faults>>

CoreEnds ==
    /\ core = "running" /\ core' = "ended"
    /\ UNCHANGED <<backup, remote, restore, faults>>

Backup ==
    \/ CreateTar \/ CreateManifest \/ UploadAgain \/ Load \/ PutTar \/ CheckTar
    \/ PutManifest \/ CheckManifest \/ Publish \/ BackupFails

Restore ==
    \/ Look \/ LockData \/ Recheck \/ ReadLatest \/ Download \/ Unpack \/ Move
    \/ Finish \/ RestoreFails \/ RestoreKilled

Next == Backup \/ Restore \/ CoreStarts \/ CoreEnds

Spec == Init /\ [][Next]_vars

-----------------------------------------------------------------------------
(* Properties                                                              *)

\* What latest.json names is in the store in full: a tar that is not stored, a
\* tar staged after the manifest, a failure or a kill at any step never lead to
\* a published snapshot that cannot be restored.
LatestIsComplete ==
    latest # 0 =>
        tars[Prefix(latest)] = latest /\ manifests[Prefix(latest)] = latest

\* "Previous generations remain available; a failed upload cannot replace
\* latest.json" (core_backup.py:302-303): no later backup touches a snapshot in
\* the store, nor does latest.json go back to an older one.
PublishedStays ==
    [][/\ \A s \in Snapshot : tars[s] = s => tars'[s] = s
       /\ latest' # latest => latest' > latest]_vars

\* "restores the databases and retained blocks together": the chainstate, without
\* which Core has no use for the directory, appears only beside the blocks of the
\* same snapshot, and success means both.
RestoredTogether ==
    /\ root["chainstate"] # 0 => root["blocks"] = root["chainstate"]
    /\ rpc = "done" => root["chainstate"] # 0 /\ staging = 0

\* A restore never unpacks into a directory that Core has used, even if Core ran
\* between the restore's look at it and its lock.
NeverMixed == core # "no" => staging = 0 /\ \A r \in Roots : root[r] = 0

-----------------------------------------------------------------------------
(* What all this implements.                                               *)

Complete == {s \in Snapshot : tars[Prefix(s)] = s /\ manifests[Prefix(s)] = s}

Delivered == IF rpc = "done" THEN root["chainstate"] ELSE 0

Promise == INSTANCE SnapshotStore WITH complete <- Complete, restored <- Delivered

\* Every step of create, upload and restore, of a failure or a kill, is one of a
\* store of complete snapshots or no step of it: the host that reports success
\* has a snapshot that was complete and published, even if another one was
\* uploaded and published while it was downloading.
KeepsPromise == Promise!Spec
=============================================================================
