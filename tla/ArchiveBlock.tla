---------------------------- MODULE ArchiveBlock ----------------------------
(***************************************************************************)
(* archive_block (archive.py): how a process uploads one completed block   *)
(* file.  The process runs beside Core, which may append to, truncate or   *)
(* delete the file between any two steps, so every read of the file and    *)
(* every check of its signature is a step of its own.                      *)
(*                                                                         *)
(* Simplifications.  A step that reads the whole file sees it at one       *)
(* instant: a read torn by a write is followed, like that write, by a      *)
(* signature check that fails.  A checksum is the bytes it was computed    *)
(* from (no collisions).  The order of a sidecar's height ranges and their *)
(* compaction are in module Heights, here they are a set.                  *)
(***************************************************************************)
EXTENDS Storage

CONSTANT Procs   \* archiver processes

VARIABLES
    pc,       \* where each process is, "idle" between its passes
    cur,      \* the block file it archives
    before,   \* the file's signature before it was first read
    sha,      \* its checksum
    ranges    \* its height ranges

locals == <<before, sha, ranges>>
jobVars == <<pc, cur, locals>>

ArchiveTypeOK ==
    /\ cur \in [Procs -> Files \union {None}]
    /\ before \in [Procs -> Signatures \union {None}]
    /\ sha \in [Procs -> AllBytes \union {None}]
    /\ ranges \in [Procs -> SUBSET Heights]

ArchivePcs == {"examine", "before", "hash", "hash_ok", "ranges", "ranges_ok",
               "upload", "upload_ok", "sidecar", "sidecar_ok",
               "verify", "verify_ok", "mark"}

\* marker.sidecar_json() of the ArchiveMarker built at line 146.
SideOf(p) == [sealed |-> before[p].sealed,
              sha |-> sha[p],
              heights |-> ranges[p]]

\* Process p moves from label `from`; the file it works on must still exist.
Reads(p, from, to) ==
    /\ pc[p] = from
    /\ cur[p] \in onDisk
    /\ pc' = [pc EXCEPT ![p] = to]
    /\ UNCHANGED <<coreVars, cur>>

\* already_archived: the pass goes on with its next file if this one is.
Examine(p) ==
    /\ pc[p] = "examine"
    /\ pc' = [pc EXCEPT ![p] = IF AlreadyArchived(cur[p]) THEN "next" ELSE "before"]
    /\ UNCHANGED <<coreVars, storageVars, marker, cur, locals>>

TakeSignature(p) ==
    /\ Reads(p, "before", "hash")
    /\ before' = [before EXCEPT ![p] = Signature(cur[p])]
    /\ UNCHANGED <<storageVars, marker, sha, ranges>>

ReadChecksum(p) ==
    /\ Reads(p, "hash", "hash_ok")
    /\ sha' = [sha EXCEPT ![p] = Bytes(cur[p])]
    /\ UNCHANGED <<storageVars, marker, before, ranges>>

\* A file without a complete block has no height ranges (heights.py:97-98).
ReadRanges(p) ==
    /\ Reads(p, "ranges", "ranges_ok")
    /\ blocks[cur[p]] # {}
    /\ ranges' = [ranges EXCEPT ![p] = blocks[cur[p]]]
    /\ UNCHANGED <<storageVars, marker, before, sha>>

UploadBlock(p) ==
    /\ Reads(p, "upload", "upload_ok")
    /\ UploadObject(cur[p])
    /\ UNCHANGED <<marker, locals>>

\* The label a passed signature check leads to.
AfterCheck(label) ==
    CASE label = "hash_ok" -> "ranges"
      [] label = "ranges_ok" -> "upload"
      [] label = "upload_ok" -> "sidecar"
      [] label = "sidecar_ok" -> "verify"
      [] label = "verify_ok" -> "mark"

CheckPcs == {"hash_ok", "ranges_ok", "upload_ok", "sidecar_ok", "verify_ok"}

\* Mutant of Unchanged: only the size is compared.
SameSize(p) == cur[p] \in onDisk /\ Signature(cur[p]).sealed = before[p].sealed

\* _ensure_source_unchanged between two operations.
Unchanged(p) == cur[p] \in onDisk /\ Signature(cur[p]) = before[p]

EnsureUnchanged(p) ==
    /\ pc[p] \in CheckPcs
    /\ Unchanged(p)
    /\ pc' = [pc EXCEPT ![p] = AfterCheck(pc[p])]
    /\ UNCHANGED <<coreVars, storageVars, marker, cur, locals>>

UploadMetadataSidecar(p) ==
    /\ pc[p] = "sidecar"
    /\ pc' = [pc EXCEPT ![p] = "sidecar_ok"]
    /\ UploadSidecar(cur[p], SideOf(p))
    /\ UNCHANGED <<coreVars, marker, cur, locals>>

VerifyRemote(p) ==
    /\ pc[p] = "verify"
    /\ Verifies(cur[p], SideOf(p))
    /\ pc' = [pc EXCEPT ![p] = "verify_ok"]
    /\ UNCHANGED <<coreVars, storageVars, marker, cur, locals>>

\* Mutant of Mark: the signature recorded is taken when the marker is written.
MarkAsItIsNow(p) ==
    /\ pc[p] = "mark"
    /\ WriteMarker(cur[p], SideOf(p), Signature(cur[p]))
    /\ pc' = [pc EXCEPT ![p] = "next"]
    /\ UNCHANGED <<coreVars, storageVars, cur, locals>>

\* The signature recorded is the one taken before the file was first read.
Mark(p) ==
    /\ pc[p] = "mark"
    /\ WriteMarker(cur[p], SideOf(p), before[p])
    /\ pc' = [pc EXCEPT ![p] = "next"]
    /\ UNCHANGED <<coreVars, storageVars, cur, locals>>

\* The conditions under which archive_block raises, each ends the pass.
ArchiveRefuses(p) ==
    \/ pc[p] \in {"before", "hash", "ranges", "upload"} /\ cur[p] \notin onDisk
    \/ pc[p] = "ranges" /\ blocks[cur[p]] = {}
    \/ pc[p] \in CheckPcs /\ ~Unchanged(p)
    \/ pc[p] = "verify" /\ ~Verifies(cur[p], SideOf(p))

ArchiveBlockStep(p) ==
    \/ Examine(p) \/ TakeSignature(p) \/ ReadChecksum(p) \/ ReadRanges(p)
    \/ UploadBlock(p) \/ EnsureUnchanged(p) \/ UploadMetadataSidecar(p)
    \/ VerifyRemote(p) \/ Mark(p)
=============================================================================
