-------------------------- MODULE ArchiveInvariants --------------------------
(***************************************************************************)
(* The inductive invariants behind the safety properties: what is true of  *)
(* the processes, the markers and the store in the middle of a pass.       *)
(***************************************************************************)
EXTENDS ArchiveSafety

AfterBefore == ArchivePcs \ {"examine", "before"}
AfterHash == AfterBefore \ {"hash"}
AfterRanges == AfterHash \ {"hash_ok", "ranges"}
AfterUpload == AfterRanges \ {"ranges_ok", "upload"}
AfterSidecar == AfterUpload \ {"upload_ok", "sidecar"}
Bounded == {"p_retain", "p_protect", "p_ceiling", "p_call", "p_wait"}

\* What a process's label says about its locals.
LabelsOK ==
    \A p \in Procs :
        /\ pc[p] \in ArchivePcs => cur[p] \in Files
        /\ pc[p] \in AfterBefore => before[p] \in Signatures
        /\ pc[p] \in AfterHash => sha[p] \in AllBytes
        /\ pc[p] \in Bounded => height[p] \in Int

TypeInv == TypeOK /\ LabelsOK

\* Only the holder of the lock is in a pass.
MutualExclusion == \A p \in Procs : pc[p] # "idle" => lock = p

\* A marker was written for a version of its file that existed.
MarkerPast(f) == marker[f] # None => marker[f].signature.mtime <= writes[f]

\* A marker that is current, whether or not its file was pruned, is evidence.
Evidence(f) ==
    Current(f) =>
        /\ marker[f].side.sha = Bytes(f)
        /\ marker[f].side.heights = blocks[f]
        /\ object[f] = Bytes(f) \/ <<f, "object">> \in lost
        /\ sidecar[f] = marker[f].side \/ <<f, "sidecar">> \in lost

\* While the file a process archives is the one whose signature it took, all
\* it read and uploaded so far is of this version.
SoFarConsistent(p) ==
    /\ pc[p] \in AfterHash => sha[p] = Bytes(cur[p])
    /\ pc[p] \in AfterRanges => ranges[p] = blocks[cur[p]]
    /\ pc[p] \in AfterUpload =>
          object[cur[p]] = Bytes(cur[p]) \/ <<cur[p], "object">> \in lost
    /\ pc[p] \in AfterSidecar =>
          sidecar[cur[p]] = SideOf(p) \/ <<cur[p], "sidecar">> \in lost

\* A file is only uploaded while it has no current marker, so that an upload
\* takes no evidence away.
Archiving(p) ==
    /\ pc[p] \in AfterBefore \union {"before"} => ~Current(cur[p])
    /\ pc[p] \in AfterBefore => before[p].mtime <= writes[cur[p]]
    /\ pc[p] \in AfterBefore /\ Signature(cur[p]) = before[p] => SoFarConsistent(p)

EvidenceInv ==
    /\ MutualExclusion
    /\ \A f \in Files : MarkerPast(f) /\ Evidence(f)
    /\ \A p \in Procs : Archiving(p)
-----------------------------------------------------------------------------
(* Why nothing is lost.                                                    *)

\* Core's files: the chain is stored, no file is ahead of the newest one, and
\* a file has a first block when it has any.
FilesOK ==
    /\ 0..tip \subseteq Stored
    /\ newest \in onDisk
    /\ \A f \in Files : f > newest => blocks[f] = {}
    /\ \A f \in Files : IF first[f] = None THEN blocks[f] = {} ELSE first[f] \in blocks[f]

\* The store was given all blocks of the file.
Preserved(f) ==
    \/ object[f] # None /\ object[f].blocks = blocks[f]
    \/ <<f, "object">> \in lost

\* Core may delete the file if the tip was b when the directory was listed:
\* it would keep the file, or the file is preserved.
Unharmed(f, b) == blocks[f] = {} \/ (\E x \in blocks[f] : x > b) \/ Preserved(f)

\* A prune up to height h leaves the file.
Above(f, h) == h # None /\ \E x \in blocks[f] : x > h

Spared(f, h, b) == Unharmed(f, b) \/ Above(f, h)

\* The labels between the scan and Core's answer.
Requesting == {"p_tip"} \union Bounded

\* What a process has established of each file of the directory so far, the
\* files that were created since its listing included.
Cleared(p) ==
    \A f \in onDisk :
        /\ pc[p] = "p_scan" => f \in todo[p] \union pending[p] \/ Unharmed(f, base[p])
        /\ pc[p] = "p_bound" => f \in todo[p] \/ Spared(f, height[p], base[p])
        /\ pc[p] \in Requesting => Spared(f, height[p], base[p])

\* The tip is not too far from where it was.
Recent(b) == b <= tip /\ tip <= b + MaxAdvance

LossInv ==
    /\ FilesOK
    /\ \A f \in Deleted : Preserved(f)
    /\ \A b \in Bases : Recent(b)
    /\ \A p \in Procs : Cleared(p)
    /\ \A r \in late : \A f \in onDisk : Spared(f, r.height, r.base)

-----------------------------------------------------------------------------
(* The other limits of a prune.                                            *)

\* A prune up to height h leaves the file, or Core keeps it if the tip was b
\* when the directory was listed.
Remains(f, h, b) == blocks[f] = {} \/ (\E x \in blocks[f] : x > b) \/ Above(f, h)

\* The labels behind the ceiling, and those behind the protected files.
Ceiled == {"p_call", "p_wait"}
Guarded == Ceiled \union {"p_ceiling"}

\* What the height of a prune respects, from the label on that establishes it.
Limited(p) ==
    /\ pc[p] \in Bounded => height[p] <= tip
    /\ pc[p] = "p_wait" => height[p] >= 1
    /\ UseCeiling /\ pc[p] \in Ceiled => scanned # None /\ height[p] <= scanned
    /\ RetainFrom # None =>
          \A f \in onDisk : f >= RetainFrom =>
             /\ pc[p] = "p_protect" => f \in todo[p] \/ Remains(f, height[p], base[p])
             /\ pc[p] \in Guarded => Remains(f, height[p], base[p])

LimitedRequest(r) ==
    /\ UseCeiling => scanned # None /\ r.height <= scanned
    /\ RetainFrom # None =>
          \A f \in onDisk : f >= RetainFrom => Remains(f, r.height, r.base)

LimitInv ==
    /\ \A p \in Procs : Limited(p)
    /\ \A r \in late : LimitedRequest(r)
    /\ ConsumerNotStarved
    /\ RetainedFilesStay

-----------------------------------------------------------------------------
(* Why what a marker describes is one version, and the latest.             *)

\* All that a process has done since it took the signature is of one version
\* of the file, from the check behind each operation on, also when Core has
\* changed the file since.
OneVersion(p) ==
    /\ pc[p] \in AfterRanges \ {"ranges_ok"} => ranges[p] = sha[p].blocks
    /\ pc[p] \in AfterUpload \ {"upload_ok"} =>
          object[cur[p]] = sha[p] \/ <<cur[p], "object">> \in lost
    /\ pc[p] \in AfterSidecar =>
          sidecar[cur[p]] = SideOf(p) \/ <<cur[p], "sidecar">> \in lost

\* A marker as old as the file's last modification describes the file, and its
\* two records of the size agree.
MarkerDated(f) ==
    marker[f] # None =>
        /\ marker[f].side.sealed = marker[f].signature.sealed
        /\ marker[f].signature.mtime = writes[f] => marker[f].signature = Signature(f)

\* The signature a process took is that of a later version than the marker's.
TakenLater(p) ==
    pc[p] \in AfterBefore =>
        /\ before[p].mtime = writes[cur[p]] => before[p] = Signature(cur[p])
        /\ marker[cur[p]] # None => marker[cur[p]].signature.mtime < before[p].mtime

VersionInv ==
    /\ \A f \in Files : MarkerDated(f)
    /\ \A p \in Procs : OneVersion(p) /\ TakenLater(p)

-----------------------------------------------------------------------------
(* Why what Core deletes was verified before.                              *)

\* What a process has verified of each file of the directory, or what spares
\* the file, those created since its listings included.
Vouched(p) ==
    \A f \in onDisk :
        /\ pc[p] = "p_verify" => f \in todo[p] \union verified[p] \/ ~Current(f)
        /\ pc[p] = "p_scan" =>
              /\ f \in verified[p] \/ ~Current(f)
              /\ \/ f \in todo[p] \union pending[p] \union verified[p]
                 \/ Remains(f, None, base[p])
        /\ pc[p] = "p_bound" =>
              f \in todo[p] \union verified[p] \/ Remains(f, height[p], base[p])
        /\ pc[p] \in Requesting =>
              f \in verified[p] \/ Remains(f, height[p], base[p])

VerifiedInv ==
    /\ \A p \in Procs : Vouched(p)
    /\ \A r \in late : \A f \in onDisk :
          f \in r.verified \/ Remains(f, r.height, r.base)

-----------------------------------------------------------------------------
(* Why a marker stays what it was, while Core's newest file is left alone. *)

\* No file that Core still writes to is archived.
SealedOnly ==
    /\ \A f \in Files : marker[f] # None => f < newest
    /\ \A p \in Procs : \A f \in queue[p] : f < newest
    /\ \A p \in Procs : cur[p] # None => cur[p] < newest

\* The marker of a file that was verified stays current, also when Core has
\* deleted the file.
StillCurrent ==
    /\ \A p \in Procs : \A f \in verified[p] : Current(f)
    /\ \A r \in late : \A f \in r.verified : Current(f)
    /\ \A f \in Deleted : Current(f)

-----------------------------------------------------------------------------
(* What the refinement of BlockArchive needs besides.                      *)

\* No process works on a file that Core has yet to create, and a store that
\* loses nothing has lost nothing.
OnlyKnownFiles ==
    /\ onDisk \subseteq 0..newest
    /\ \A f \in Files : marker[f] # None => f <= newest
    /\ \A p \in Procs : queue[p] \subseteq 0..newest
    /\ \A p \in Procs : cur[p] # None => cur[p] <= newest
    /\ MaxDamage = 0 => lost = {}

=============================================================================
