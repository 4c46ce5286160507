---------------------------- MODULE PromiseProofs ----------------------------
(***************************************************************************)
(* The archiver and Core, for every number of processes, files and blocks  *)
(* and every configuration, while the tip does not outrun the blocks Core  *)
(* keeps: only what was verified in the store is deleted, over a store     *)
(* that loses nothing the archiver implements BlockArchive, and the check  *)
(* before a Core snapshot judges the pruning of the archiver rightly.      *)
(***************************************************************************)
EXTENDS PruneProofs, SnapshotCheck, FiniteSetTheorems

USE CoreAssumption, StorageAssumption, PassAssumption

-----------------------------------------------------------------------------
(* Only files that Core created are worked on.                             *)

\* The steps of Core.
LEMMA CoreKnown ==
    ASSUME TypeInv, OnlyKnownFiles, CoreWrites
    PROVE  OnlyKnownFiles'
<1>1. UNCHANGED <<marker, queue, cur, lost>>
  BY DEF CoreWrites, passVars, jobVars, storageVars
<1>2. newest' \in {newest, newest + 1} /\ onDisk' \subseteq onDisk \union {newest'}
  BY DEF CoreWrites, Arrive, Roll, Connect
<1>3. newest \in Nat /\ Files \subseteq Nat /\ \A p \in Procs : cur[p] # None => cur[p] \in Nat
  BY DEF TypeInv, TypeOK, CoreTypeOK, ArchiveTypeOK, Files
<1> QED
  BY <1>1, <1>2, <1>3 DEF OnlyKnownFiles

\* Steps that create no file, upload nothing and write no marker.
LEMMA QuietKnown ==
    ASSUME TypeInv, OnlyKnownFiles, UNCHANGED <<newest, marker, lost>>, onDisk' \subseteq onDisk,
           \A p \in Procs : queue'[p] \subseteq queue[p] \union onDisk,
           \A p \in Procs : cur'[p] \in {cur[p], None} \union queue[p]
    PROVE  OnlyKnownFiles'
<1>1. \A p \in Procs : queue'[p] \subseteq 0..newest
  BY DEF OnlyKnownFiles
<1>2. ASSUME NEW p \in Procs, cur'[p] # None PROVE cur'[p] <= newest
  <2>1. CASE cur'[p] = cur[p]
    BY <1>2, <2>1 DEF OnlyKnownFiles
  <2>2. CASE cur'[p] \in queue[p]
    BY <2>2 DEF OnlyKnownFiles
  <2> QED
    BY <1>2, <2>1, <2>2
<1> QED
  BY <1>1, <1>2 DEF OnlyKnownFiles

\* Every step of archive_block: a marker is written for the file at hand.
LEMMA ArchiveKnown ==
    ASSUME TypeInv, OnlyKnownFiles, NEW p \in Procs, ArchiveBlockStep(p),
           UNCHANGED <<pruneVars, passVars>>
    PROVE  OnlyKnownFiles'
<1>1. UNCHANGED <<newest, onDisk, queue, cur>>
  BY DEF ArchiveBlockStep, Examine, TakeSignature, ReadChecksum, ReadRanges, EnsureUnchanged,
         UploadBlock, UploadMetadataSidecar, VerifyRemote, Mark, Reads, coreVars, passVars
<1>2. lost' \subseteq lost
  BY DEF ArchiveBlockStep, Examine, TakeSignature, ReadChecksum, ReadRanges, EnsureUnchanged,
         UploadBlock, UploadMetadataSidecar, VerifyRemote, Mark, storageVars, UploadObject, UploadSidecar
<1>3. CASE Mark(p)
  <2>1. cur[p] \in Files
    BY <1>3 DEF Mark, TypeInv, LabelsOK, ArchivePcs
  <2>2. cur[p] # None
    BY <2>1 DEF Files
  <2>3. \A f \in Files \ {cur[p]} : marker'[f] = marker[f]
    BY <1>3 DEF Mark, WriteMarker, TypeInv, TypeOK, MarkersTypeOK
  <2> QED
    BY <1>1, <1>2, <2>1, <2>2, <2>3 DEF OnlyKnownFiles
<1>4. CASE ~Mark(p)
  <2>1. UNCHANGED marker
    BY <1>4 DEF ArchiveBlockStep, Examine, TakeSignature, ReadChecksum, ReadRanges, EnsureUnchanged,
                UploadBlock, UploadMetadataSidecar, VerifyRemote
  <2> QED
    BY <1>1, <1>2, <2>1 DEF OnlyKnownFiles
<1> QED
  BY <1>3, <1>4

\* A store that may lose nothing loses nothing.
LEMMA StoreKeeps ==
    ASSUME TypeInv, MaxDamage = 0
    PROVE  ~StoreLoses
BY DEF StoreLoses, LoseObject, LoseSidecar, TypeInv, TypeOK, StorageTypeOK

\* Every step.
LEMMA KnownStep ==
    ASSUME TypeInv, OnlyKnownFiles, [Next]_vars
    PROVE  OnlyKnownFiles'
<1> USE DEF TypeInv, TypeOK, ArchiveTypeOK, PassTypeOK, coreVars, storageVars
<1>1. ASSUME NEW p \in Procs, Start(p) \/ Step(p) \/ Interrupted(p) PROVE OnlyKnownFiles'
  <2>1. CASE ArchiveBlockStep(p) /\ UNCHANGED <<pruneVars, passVars>>
    BY <2>1, ArchiveKnown
  <2>2. CASE PruneBlocksStep(p) /\ UNCHANGED passVars
    BY <2>2, PruneFrame, QuietKnown DEF pruneFrame, passVars
  <2>3. CASE Start(p)
    BY <2>3, QuietKnown DEF Start
  <2>4. CASE ListBlocks(p)
    BY <2>4, QuietKnown DEF ListBlocks, Archivable
  <2>5. CASE NextFile(p)
    BY <2>5, QuietKnown DEF NextFile
  <2>6. CASE EndBatch(p) \/ SkipPrune(p) \/ CorePrunes(p) \/ Refuse(p) \/ Interrupted(p)
    <3>1. UNCHANGED <<newest, marker, lost>> /\ onDisk' \subseteq onDisk
      BY <2>6 DEF EndBatch, SkipPrune, CorePrunes, Refuse, Interrupted, PruneTo
    <3>2. NextBatch(p) \/ EndPass(p) \/ UNCHANGED <<cur, queue>>
      BY <2>6 DEF EndBatch, SkipPrune, CorePrunes, Refuse, Interrupted
    <3>3. /\ \A q \in Procs : queue'[q] \subseteq queue[q]
          /\ \A q \in Procs : cur'[q] \in {cur[q], None}
      BY <3>2 DEF NextBatch, EndPass
    <3> QED
      BY <3>1, <3>3, QuietKnown
  <2> QED
    BY <1>1, <2>1, <2>2, <2>3, <2>4, <2>5, <2>6 DEF Step
<1>2. CASE CoreWrites
  BY <1>2, CoreKnown
<1>3. CASE StoreLoses
  BY <1>3, StoreKeeps DEF StoreLoses, OnlyKnownFiles, jobVars, passVars
<1>4. CASE ScannerAdvances \/ (\E r \in late : LatePrune(r)) \/ UNCHANGED vars
  BY <1>4, QuietKnown DEF ScannerAdvances, LatePrune, PruneTo, vars, jobVars, passVars
<1> QED
  BY <1>1, <1>2, <1>3, <1>4 DEF Next, Environment

-----------------------------------------------------------------------------
(* Only what was verified is deleted.                                      *)

\* A file either stays as it is or its modification time grows, in every step.
LEMMA EveryWrite ==
    ASSUME TypeInv, EvidenceInv, [Next]_vars, NEW f \in Files
    PROVE  FileStays(f) \/ writes'[f] > writes[f]
<1>1. ASSUME UNCHANGED <<blocks, writes, newest>> PROVE FileStays(f)
  BY <1>1 DEF FileStays
<1>2. ASSUME NEW p \in Procs, Start(p) \/ Step(p) \/ Interrupted(p) PROVE FileStays(f)
  <2>1. CASE ArchiveBlockStep(p) /\ UNCHANGED <<pruneVars, passVars>>
    BY <1>1, <2>1 DEF ArchiveBlockStep, Examine, TakeSignature, ReadChecksum, ReadRanges,
                EnsureUnchanged, UploadBlock, UploadMetadataSidecar, VerifyRemote, Mark, Reads, coreVars
  <2>2. CASE ~(ArchiveBlockStep(p) /\ UNCHANGED <<pruneVars, passVars>>)
    BY <1>1, <1>2, <2>2, ProcessQuiet DEF Quiet
  <2> QED
    BY <2>1, <2>2
<1>3. CASE CoreWrites
  BY <1>3, CoreWritesShow
<1>4. CASE StoreLoses \/ ScannerAdvances \/ (\E r \in late : LatePrune(r)) \/ UNCHANGED vars
  BY <1>1, <1>4 DEF StoreLoses, ScannerAdvances, LatePrune, PruneTo, vars, coreVars
<1> QED
  BY <1>2, <1>3, <1>4 DEF Next, Environment

\* While a process prunes nobody writes a marker, so that a file without a
\* current one stays without.
LEMMA StaysUnmarked ==
    ASSUME TypeInv, TypeInv', EvidenceInv, [Next]_vars, NEW q \in Procs, pc[q] \in PrunePcs,
           NEW f \in Files, ~Current(f)
    PROVE  ~Current(f)'
<1>1. pc[q] # "idle" /\ pc[q] # "mark"
  BY DEF PrunePcs
<1>2. \A p \in Procs : pc[p] # "mark"
  BY <1>1, OthersIdle
<1>3. \A g \in Files : marker'[g] = marker[g]
  BY <1>2, Marks
<1>4. UNCHANGED marker
  BY <1>3 DEF TypeInv, TypeOK, MarkersTypeOK
<1>5. MarkerPast(f) /\ writes' \in [Files -> Nat]
  BY DEF EvidenceInv, TypeInv, TypeOK, CoreTypeOK
<1> QED
  BY <1>4, <1>5, EveryWrite, WriteVoids

\* A file that Core creates has no marker.
LEMMA NewUnmarked ==
    ASSUME TypeInv, OnlyKnownFiles, [Next]_vars, NEW f \in onDisk', f \notin onDisk
    PROVE  ~Current(f)'
<1>1. ASSUME NEW p \in Procs, Start(p) \/ Step(p) \/ Interrupted(p) PROVE FALSE
  <2>1. CASE ArchiveBlockStep(p)
    BY <2>1 DEF ArchiveBlockStep, Examine, TakeSignature, ReadChecksum, ReadRanges, EnsureUnchanged,
                UploadBlock, UploadMetadataSidecar, VerifyRemote, Mark, Reads, coreVars
  <2>2. CASE PruneBlocksStep(p)
    BY <2>2, PruneFrame DEF pruneFrame, coreVars
  <2>3. CASE ~ArchiveBlockStep(p) /\ ~PruneBlocksStep(p)
    BY <1>1, <2>3 DEF Step, Start, Interrupted, ListBlocks, NextFile, EndBatch, SkipPrune, CorePrunes,
                      PruneTo, Refuse, coreVars
  <2> QED
    BY <2>1, <2>2, <2>3
<1>2. CoreWrites
  BY <1>1 DEF Next, Environment, StoreLoses, ScannerAdvances, LatePrune, PruneTo, vars, coreVars
<1>3. UNCHANGED marker /\ f = newest + 1
  BY <1>2 DEF CoreWrites, Arrive, Roll, Connect
<1>4. newest \in Nat /\ f \in Files
  BY <1>2, <1>3 DEF CoreWrites, Arrive, Roll, Connect, TypeInv, TypeOK, CoreTypeOK, Files
<1>5. marker[f] = None
  BY <1>3, <1>4 DEF OnlyKnownFiles
<1> QED
  BY <1>3, <1>5 DEF Current

\* What a process vouches for stays true while it does nothing.
LEMMA VouchedStays ==
    ASSUME TypeInv, TypeInv', EvidenceInv, LossInv, OnlyKnownFiles, VerifiedInv, [Next]_vars,
           NEW q \in Procs, pc'[q] = pc[q], todo'[q] = todo[q], pending'[q] = pending[q],
           verified'[q] = verified[q], base'[q] = base[q], height'[q] = height[q]
    PROVE  Vouched(q)'
<1> SUFFICES ASSUME NEW f \in onDisk',
                    pc[q] \in {"p_verify", "p_scan", "p_bound"} \union Requesting
             PROVE  /\ pc[q] = "p_verify" => f \in todo[q] \union verified[q] \/ ~Current(f)'
                    /\ pc[q] = "p_scan" =>
                          /\ f \in verified[q] \/ ~Current(f)'
                          /\ \/ f \in todo[q] \union pending[q] \union verified[q]
                             \/ Remains(f, None, base[q])'
                    /\ pc[q] = "p_bound" =>
                          f \in todo[q] \union verified[q] \/ Remains(f, height[q], base[q])'
                    /\ pc[q] \in Requesting =>
                          f \in verified[q] \/ Remains(f, height[q], base[q])'
  BY DEF Vouched, Remains, Above
<1>1. pc[q] \in PrunePcs
  BY DEF PrunePcs, Requesting, Bounded
<1>2. ASSUME f \in onDisk => ~Current(f) PROVE ~Current(f)'
  <2>1. CASE f \in onDisk
    BY <1>1, <1>2, <2>1, StaysUnmarked DEF TypeInv, TypeOK, CoreTypeOK
  <2>2. CASE f \notin onDisk
    BY <2>2, NewUnmarked
  <2> QED
    BY <2>1, <2>2
<1>3. pc[q] # "p_verify" => base[q] \in Heights /\ base[q] <= tip
  BY DEF LossInv, Bases, Waiting, Recent, Requesting, Bounded, PrunePcs, TypeInv, TypeOK, PruneTypeOK
<1>4. ASSUME NEW h \in Int \union {None}, pc[q] # "p_verify",
             f \in onDisk => Remains(f, h, base[q])
      PROVE  Remains(f, h, base[q])'
  BY <1>3, <1>4, RemainAll
<1>5. height[q] \in Int \union {None} /\ Vouched(q)
  BY DEF TypeInv, TypeOK, PruneTypeOK, VerifiedInv
<1>6. Requesting \intersect {"p_verify", "p_scan", "p_bound"} = {}
  BY DEF Requesting, Bounded
<1> QED
  BY <1>2, <1>4, <1>5, <1>6 DEF Vouched

\* Each step of a prune carries on what was verified.
LEMMA PruneVouches ==
    ASSUME TypeInv, LossInv, VerifiedInv, NEW p \in Procs, PruneBlocksStep(p)
    PROVE  Vouched(p)'
<1> USE DEF TypeInv, TypeOK, PruneTypeOK, CoreTypeOK, Goes, Drop
<1>0. /\ UNCHANGED <<blocks, first, writes, newest, onDisk, tip, marker>>
      /\ Vouched(p)
      /\ \A f \in Files : blocks[f] \subseteq Int
      /\ tip \in Int /\ height[p] \in Int \union {None}
  BY PruneFrame DEF pruneFrame, coreVars, VerifiedInv, Heights
<1>a. \A f, h, b : Remains(f, h, b)' = Remains(f, h, b) /\ Current(f)' = Current(f)
  BY <1>0 DEF Remains, Above, Current, Signature
<1> USE <1>0, <1>a DEF Requesting, Bounded
<1>1. CASE ListForVerify(p)
  BY <1>1 DEF ListForVerify, Vouched
<1>2. CASE VerifyNext(p)
  <2>1. PICK g \in todo[p] : VerifyNext(p)!(g)
    BY <1>2 DEF VerifyNext
  <2>2. /\ pc[p] = "p_verify" /\ pc' = pc /\ todo'[p] = todo[p] \ {g}
        /\ verified'[p] = IF RemoteConfirmed(g) THEN verified[p] \union {g} ELSE verified[p]
    BY <2>1
  <2>3. g \in onDisk /\ ~RemoteConfirmed(g) => ~Current(g)
    BY <2>1 DEF RemoteAcceptable, MarkerMatches, Current
  <2> QED
    BY <2>2, <2>3 DEF Vouched
<1>3. CASE ListForScan(p)
  BY <1>3 DEF ListForScan, Vouched
<1>4. CASE ScanNext(p)
  <2>1. PICK g \in todo[p] : ScanNext(p)!(g)
    BY <1>4 DEF ScanNext
  <2>2. /\ pc[p] = "p_scan" /\ pc' = pc /\ base' = base /\ verified' = verified
        /\ todo'[p] = todo[p] \ {g}
        /\ pending'[p] = IF AlreadyArchived(g) THEN pending[p] ELSE pending[p] \union {g}
    BY <2>1
  <2>3. g \in onDisk /\ AlreadyArchived(g) => Current(g)
    BY DEF AlreadyArchived, MarkerMatches
  <2>4. ASSUME NEW f \in onDisk
        PROVE  /\ f \in verified[p] \/ ~Current(f)
               /\ \/ f \in todo'[p] \union pending'[p] \union verified[p]
                  \/ Remains(f, None, base[p])
    BY <2>2, <2>3 DEF Vouched
  <2> QED
    BY <2>2, <2>4 DEF Vouched
<1>5. CASE ScanDone(p)
  <2>1. /\ pc[p] = "p_scan" /\ todo[p] = {} /\ todo'[p] = pending[p]
        /\ pc'[p] = IF pending[p] = {} THEN "p_tip" ELSE "p_bound"
        /\ UNCHANGED <<height, base, verified>>
    BY <1>5 DEF ScanDone
  <2>2. ASSUME NEW f \in onDisk
        PROVE  f \in pending[p] \union verified[p] \/ Remains(f, height[p], base[p])
    BY <2>1 DEF Vouched, Remains, Above
  <2> QED
    BY <2>1, <2>2 DEF Vouched
<1>6. CASE BoundNext(p)
  <2>1. PICK g \in todo[p] : BoundNext(p)!(g)
    BY <1>6 DEF BoundNext
  <2>2. /\ pc[p] = "p_bound" /\ pc' = pc /\ base' = base /\ verified' = verified /\ g \in onDisk
        /\ todo'[p] = todo[p] \ {g}
        /\ height'[p] = IF first[g] = None THEN height[p] ELSE Lower(height[p], BoundOf(g))
    BY <2>1
  <2>3. first[g] # None => first[g] \in blocks[g] /\ first[g] \in Int /\ BoundOf(g) \in Int
    BY <2>2 DEF LossInv, FilesOK, BoundOf
  <2>4. Remains(g, height'[p], base[p])
    <3>1. CASE first[g] = None
      BY <2>2, <3>1 DEF LossInv, FilesOK, Remains
    <3>2. CASE first[g] # None
      <4>1. height'[p] \in Int /\ height'[p] < first[g]
        BY <2>2, <2>3, <3>2 DEF Lower, BoundOf
      <4> QED
        BY <2>3, <3>2, <4>1 DEF Remains, Above
    <3> QED
      BY <3>1, <3>2
  <2>5. ASSUME NEW f \in onDisk, f \notin todo[p] \union verified[p]
        PROVE  Remains(f, height'[p], base[p])
    <3>1. Remains(f, height[p], base[p])
      BY <2>2, <2>5 DEF Vouched
    <3>2. CASE first[g] = None
      BY <2>2, <3>1, <3>2
    <3>3. CASE first[g] # None
      <4>1. BoundOf(g) \in Int /\ height'[p] = Lower(height[p], BoundOf(g))
        BY <2>2, <2>3, <3>3
      <4>2. Remains(f, Lower(height[p], BoundOf(g)), base[p])
        BY <3>1, <4>1, LowerRemains
      <4> QED
        BY <4>1, <4>2
    <3> QED
      BY <3>2, <3>3
  <2> QED
    BY <2>2, <2>4, <2>5 DEF Vouched
<1>7. CASE BoundDone(p)
  BY <1>7 DEF BoundDone, scanVars, Vouched
<1>8. CASE ReadTip(p)
  BY <1>8, LowerRemains DEF ReadTip, Vouched
<1>9. CASE ListProtected(p)
  BY <1>9 DEF ListProtected, Vouched
<1>10. CASE ProtectNext(p)
  <2>1. PICK g \in todo[p] : ProtectNext(p)!(g)
    BY <1>10 DEF ProtectNext
  <2>2. BoundOf(g) \in Int
    BY <2>1 DEF BoundOf, Heights
  <2> QED
    BY <2>1, <2>2, LowerRemains DEF Vouched
<1>11. CASE ProtectDone(p)
  BY <1>11 DEF ProtectDone, scanVars, Vouched
<1>12. CASE ReadCeiling(p)
  <2>1. UseCeiling => scanned \in Int
    BY <1>12 DEF ReadCeiling, Heights
  <2> QED
    BY <1>12, <2>1, LowerRemains DEF ReadCeiling, Ceiling, Vouched
<1>13. CASE CallPrune(p)
  BY <1>13 DEF CallPrune, scanVars, Vouched
<1> QED
  BY <1>1, <1>2, <1>3, <1>4, <1>5, <1>6, <1>7, <1>8, <1>9, <1>10, <1>11, <1>12, <1>13
     DEF PruneBlocksStep

\* Every step.
LEMMA VerifiedStep ==
    ASSUME TypeInv, TypeInv', EvidenceInv, LossInv, OnlyKnownFiles, VerifiedInv, [Next]_vars
    PROVE  VerifiedInv'
<1>1. ASSUME NEW r \in Requests, r.base <= tip, NEW f \in onDisk',
             \A g \in onDisk : g \in r.verified \/ Remains(g, r.height, r.base)
      PROVE  f \in r.verified \/ Remains(f, r.height, r.base)'
  <2>1. r.base \in Heights /\ r.height \in Int
    BY DEF Requests
  <2> QED
    BY <1>1, <2>1, RemainAll
<1>2. ASSUME NEW r \in late, NEW f \in onDisk'
      PROVE  f \in r.verified \/ Remains(f, r.height, r.base)'
  <2>1. r.base \in Bases /\ r \in Requests
    BY DEF Bases, TypeInv, TypeOK, PruneTypeOK
  <2> QED
    BY <1>1, <2>1 DEF VerifiedInv, LossInv, Recent
<1>3. ASSUME NEW p \in Procs, Start(p) \/ Step(p) \/ Interrupted(p) PROVE VerifiedInv'
  <2>1. OwnStep(p) /\ (PruneBlocksStep(p) \/ pc'[p] \notin WaitingPcs)
    BY <1>3, ProcessLocal
  <2>2. Vouched(p)'
    <3>1. CASE PruneBlocksStep(p)
      BY <3>1, PruneVouches
    <3>2. CASE ~PruneBlocksStep(p)
      <4>1. pc'[p] \notin WaitingPcs
        BY <2>1, <3>2
      <4>2. pc'[p] # "p_verify"
        <5>1. CASE ArchiveBlockStep(p)
          BY <5>1 DEF ArchiveBlockStep, Examine, TakeSignature, ReadChecksum, ReadRanges,
                EnsureUnchanged, CheckPcs, AfterCheck, UploadBlock, UploadMetadataSidecar,
                VerifyRemote, Mark, Reads, TypeInv, TypeOK
        <5>2. CASE NextBatch(p) \/ EndPass(p)
          BY <5>2, BatchEnds
        <5>3. CASE ~ArchiveBlockStep(p) /\ ~NextBatch(p) /\ ~EndPass(p)
          BY <1>3, <3>2, <5>3 DEF Step, Start, Interrupted, ListBlocks, NextFile, EndBatch,
                SkipPrune, CorePrunes, Refuse, Goes, TypeInv, TypeOK
        <5> QED
          BY <5>1, <5>2, <5>3
      <4> QED
        BY <4>1, <4>2 DEF Vouched, WaitingPcs, PrunePcs, Requesting, Bounded
    <3> QED
      BY <3>1, <3>2
  <2>3. ASSUME NEW q \in Procs \ {p} PROVE Vouched(q)'
    BY <2>1, VouchedStays DEF OwnStep
  <2>4. ASSUME NEW r \in late' \ late, NEW f \in onDisk'
        PROVE  f \in r.verified \/ Remains(f, r.height, r.base)'
    <3>1. r = RequestOf(p) /\ pc[p] = "p_wait"
      BY <2>1 DEF OwnStep
    <3>2. r \in Requests /\ r.height = height[p] /\ r.base = base[p] /\ r.verified = verified[p]
      BY <3>1 DEF RequestOf, Requests, TypeInv, TypeOK, PruneTypeOK, LabelsOK, Bounded
    <3>3. \A g \in onDisk : g \in r.verified \/ Remains(g, r.height, r.base)
      BY <3>1, <3>2 DEF VerifiedInv, Vouched, Requesting, Bounded
    <3>4. r.base <= tip
      BY <3>1, <3>2 DEF LossInv, Bases, Waiting, PrunePcs, Recent
    <3> QED
      BY <1>1, <3>2, <3>3, <3>4
  <2> QED
    BY <1>2, <2>2, <2>3, <2>4 DEF VerifiedInv
<1>4. CASE Environment \/ UNCHANGED vars
  <2>1. UNCHANGED <<pc, scanVars>> /\ late' \subseteq late
    BY <1>4 DEF Environment, CoreWrites, StoreLoses, ScannerAdvances, LatePrune, vars, jobVars, pruneVars
  <2>2. ASSUME NEW q \in Procs PROVE Vouched(q)'
    BY <2>1, VouchedStays DEF scanVars
  <2> QED
    BY <1>2, <2>1, <2>2 DEF VerifiedInv
<1> QED
  BY <1>3, <1>4 DEF Next

\* The request that deletes a file had vouched for it: its blocks are at or
\* below the request's height and too old for Core to keep.
LEMMA DeletedVouched ==
    ASSUME TypeInv, LossInv, VerifiedInv, MaxAdvance <= Keep, NEW h \in Int, NEW b \in Heights,
           PruneTo(h), Recent(b), NEW f \in onDisk, f \notin onDisk'
    PROVE  ~Remains(f, h, b)
<1>1. /\ blocks[f] # {} /\ blocks[f] \subseteq Heights
      /\ \A x \in blocks[f] : x <= h /\ x <= tip - Keep
  BY DEF PruneTo, Prunable, TypeInv, TypeOK, CoreTypeOK
<1>2. ASSUME NEW x \in blocks[f] PROVE ~(x > h) /\ ~(x > b)
  <2>1. x \in Int /\ tip \in Int /\ b \in Int /\ x <= h /\ x <= tip - Keep /\ tip <= b + MaxAdvance
    BY <1>1 DEF Recent, Heights, TypeInv, TypeOK, CoreTypeOK
  <2> QED
    BY <2>1
<1> QED
  BY <1>1, <1>2 DEF Remains, Above

\* Of each file that a step deletes, the request it executes knew the copy.
LEMMA DeletedIsVerified ==
    ASSUME TypeInv, LossInv, VerifiedInv, MaxAdvance <= Keep, [Next]_vars,
           NEW f \in onDisk, f \notin onDisk'
    PROVE  \E r \in Executed : f \in r.verified
<1>1. ASSUME NEW p \in Procs, CorePrunes(p) PROVE \E r \in Executed : f \in r.verified
  <2>1. pc[p] = "p_wait" /\ PruneTo(height[p]) /\ NextBatch(p) /\ Vouched(p)
    BY <1>1 DEF CorePrunes, VerifiedInv
  <2>2. RequestOf(p) \in Executed /\ RequestOf(p).verified = verified[p]
    BY <2>1, BatchEnds DEF Executed, RequestOf
  <2>3. Recent(base[p]) /\ height[p] \in Int /\ base[p] \in Heights
    BY <2>1 DEF LossInv, Bases, Waiting, PrunePcs, TypeInv, TypeOK, LabelsOK, PruneTypeOK, Bounded
  <2> QED
    BY <2>1, <2>2, <2>3, DeletedVouched DEF Vouched, Requesting, Bounded
<1>2. ASSUME NEW r \in late, LatePrune(r) PROVE \E s \in Executed : f \in s.verified
  <2>1. r \in Executed /\ PruneTo(r.height)
    BY <1>2 DEF LatePrune, Executed
  <2>2. Recent(r.base) /\ r.height \in Int /\ r.base \in Heights
    BY DEF LossInv, Bases, TypeInv, TypeOK, PruneTypeOK, Requests
  <2> QED
    BY <2>1, <2>2, DeletedVouched DEF VerifiedInv
<1> QED
  BY <1>1, <1>2, Deleter

\* Core deletes only files whose remote copy the pass that asked for it had
\* found in the store before it asked, for any number of processes, requests
\* executed late and files created or changed meanwhile
\* (_verify_archived_local_files, prune.py:87-98).
THEOREM DeletedFilesWereVerified == MaxAdvance <= Keep => (Spec => DeletedWereVerified)
<1> SUFFICES ASSUME MaxAdvance <= Keep PROVE Spec => DeletedWereVerified
  OBVIOUS
<1> DEFINE I == TypeInv /\ EvidenceInv /\ LossInv /\ OnlyKnownFiles /\ VerifiedInv
<1>1. Init => I
  <2>1. Init => OnlyKnownFiles
    BY DEF Init, CoreInit, MarkersInit, StorageInit, OnlyKnownFiles
  <2>2. Init => VerifiedInv
    BY DEF Init, VerifiedInv, Vouched, Requesting, Bounded
  <2> QED
    BY <2>1, <2>2, TypeInit, EvidenceInit, LossInit
<1>2. I /\ [Next]_vars => I'
  BY TypeStep, EvidenceStep, LossStep, KnownStep, VerifiedStep
<1>3. I /\ [Next]_vars => [\A f \in onDisk \ onDisk' : \E r \in Executed : f \in r.verified]_vars
  BY DeletedIsVerified
<1> QED
  BY <1>1, <1>2, <1>3, PTL DEF Spec, DeletedWereVerified

-----------------------------------------------------------------------------
(* What Core no longer writes to stays archived.                           *)

\* A file that Core has left behind stays as it is.
LEMMA SealedStays ==
    ASSUME TypeInv, EvidenceInv, [Next]_vars, NEW f \in Files, f < newest
    PROVE  FileStays(f)
<1> USE DEF TypeInv, TypeOK, CoreTypeOK, FileStays, Files
<1>1. ASSUME UNCHANGED <<blocks, writes, newest>> PROVE FileStays(f)
  BY <1>1
<1>2. ASSUME NEW p \in Procs, Start(p) \/ Step(p) \/ Interrupted(p) PROVE FileStays(f)
  <2>1. CASE ArchiveBlockStep(p) /\ UNCHANGED <<pruneVars, passVars>>
    BY <1>1, <2>1 DEF ArchiveBlockStep, Examine, TakeSignature, ReadChecksum, ReadRanges,
                EnsureUnchanged, UploadBlock, UploadMetadataSidecar, VerifyRemote, Mark, Reads, coreVars
  <2>2. CASE ~(ArchiveBlockStep(p) /\ UNCHANGED <<pruneVars, passVars>>)
    BY <1>1, <1>2, <2>2, ProcessQuiet DEF Quiet
  <2> QED
    BY <2>1, <2>2
<1>3. CASE CoreWrites
  <2>1. ASSUME NEW h \in Heights, Arrive(h) PROVE FileStays(f)
    BY <2>1 DEF Arrive
  <2>2. ASSUME Roll PROVE FileStays(f)
    BY <2>2 DEF Roll
  <2>3. ASSUME Connect PROVE FileStays(f)
    BY <2>3 DEF Connect
  <2> QED
    BY <1>3, <2>1, <2>2, <2>3 DEF CoreWrites
<1>4. CASE StoreLoses \/ ScannerAdvances \/ (\E r \in late : LatePrune(r)) \/ UNCHANGED vars
  BY <1>1, <1>4 DEF StoreLoses, ScannerAdvances, LatePrune, PruneTo, vars, coreVars
<1> QED
  BY <1>2, <1>3, <1>4 DEF Next, Environment

\* The marker of such a file, once current, is left alone.
LEMMA CurrentStays ==
    ASSUME TypeInv, EvidenceInv, [Next]_vars, NEW f \in Files, f < newest, Current(f)
    PROVE  Current(f)'
<1>1. FileStays(f)
  BY SealedStays
<1>2. marker'[f] = marker[f]
  <2> SUFFICES ASSUME marker'[f] # marker[f] PROVE FALSE
    OBVIOUS
  <2>1. PICK p \in Procs : pc[p] = "mark" /\ cur[p] = f
    BY Marks
  <2> QED
    BY <2>1 DEF EvidenceInv, Archiving, AfterBefore, ArchivePcs
<1> QED
  BY <1>1, <1>2 DEF FileStays, Current, Signature

\* What a pass lists is behind the newest file.
LEMMA ArchivableSealed ==
    ASSUME TypeInv, OnlyKnownFiles, KeepLatest >= 1
    PROVE  \A f \in Archivable : f < newest
<1> SUFFICES ASSUME NEW f \in Archivable PROVE f < newest
  OBVIOUS
<1>1. {g \in onDisk : g > f} # {}
  BY FS_EmptySet DEF Archivable
<1>2. PICK g \in onDisk : g > f
  BY <1>1
<1>3. g \in 0..newest /\ f \in 0..newest /\ newest \in Nat
  BY DEF OnlyKnownFiles, Archivable, TypeInv, TypeOK, CoreTypeOK, Files
<1> QED
  BY <1>2, <1>3

\* The files that processes are to work on come from such a list.
LEMMA QueueStep ==
    ASSUME TypeInv, [Next]_vars, NEW q \in Procs
    PROVE  /\ queue'[q] \subseteq queue[q] \union Archivable
           /\ cur'[q] \in {cur[q], None} \union queue[q]
<1> USE DEF TypeInv, TypeOK, ArchiveTypeOK, PassTypeOK
<1>1. ASSUME NEW p \in Procs, Start(p) \/ Step(p) \/ Interrupted(p)
      PROVE  /\ queue'[q] \subseteq queue[q] \union Archivable
             /\ cur'[q] \in {cur[q], None} \union queue[q]
  <2>1. CASE ArchiveBlockStep(p) /\ UNCHANGED <<pruneVars, passVars>>
    BY <2>1 DEF ArchiveBlockStep, Examine, TakeSignature, ReadChecksum, ReadRanges, EnsureUnchanged,
         UploadBlock, UploadMetadataSidecar, VerifyRemote, Mark, Reads, coreVars, passVars
  <2>2. CASE PruneBlocksStep(p) /\ UNCHANGED passVars
    BY <2>2, PruneFrame DEF pruneFrame, passVars
  <2>3. CASE Start(p) \/ ListBlocks(p) \/ NextFile(p)
    BY <2>3 DEF Start, ListBlocks, NextFile
  <2>4. CASE EndBatch(p) \/ SkipPrune(p) \/ CorePrunes(p) \/ Refuse(p) \/ Interrupted(p)
    <3>1. NextBatch(p) \/ EndPass(p) \/ UNCHANGED <<cur, queue>>
      BY <2>4 DEF EndBatch, SkipPrune, CorePrunes, Refuse, Interrupted
    <3> QED
      BY <3>1 DEF NextBatch, EndPass
  <2> QED
    BY <1>1, <2>1, <2>2, <2>3, <2>4 DEF Step
<1>2. CASE Environment \/ UNCHANGED vars
  BY <1>2 DEF Environment, CoreWrites, StoreLoses, ScannerAdvances, LatePrune, vars, jobVars, passVars
<1> QED
  BY <1>1, <1>2 DEF Next

LEMMA SealedStep ==
    ASSUME TypeInv, EvidenceInv, FilesOK, OnlyKnownFiles, SealedOnly, KeepLatest >= 1, [Next]_vars
    PROVE  SealedOnly'
<1>1. newest \in Nat /\ newest' \in {newest, newest + 1}
  BY EveryDirectory DEF DirectoryStep, TypeInv, TypeOK, CoreTypeOK, Files
<1>2. ASSUME NEW f \in Files, marker'[f] # None PROVE f < newest'
  <2>1. f < newest
    <3>1. CASE marker'[f] = marker[f]
      BY <1>2, <3>1 DEF SealedOnly
    <3>2. CASE marker'[f] # marker[f]
      <4>1. PICK p \in Procs : cur[p] = f
        BY <3>2, Marks
      <4>2. cur[p] # None
        BY <4>1 DEF Files
      <4> QED
        BY <4>1, <4>2 DEF SealedOnly
    <3> QED
      BY <3>1, <3>2
  <2> QED
    BY <1>1, <2>1 DEF Files
<1>3. ASSUME NEW p \in Procs, NEW f \in queue'[p] PROVE f < newest'
  <2>1. f \in queue[p] \union Archivable
    BY QueueStep
  <2>2. f < newest /\ f \in Files
    BY <2>1, ArchivableSealed DEF SealedOnly, Archivable, TypeInv, TypeOK, CoreTypeOK, PassTypeOK
  <2> QED
    BY <1>1, <2>2 DEF Files
<1>4. ASSUME NEW p \in Procs, cur'[p] # None PROVE cur'[p] < newest'
  <2>1. cur'[p] \in {cur[p]} \union queue[p]
    BY <1>4, QueueStep
  <2>2. cur'[p] < newest /\ cur'[p] \in Files
    BY <1>4, <2>1 DEF SealedOnly, TypeInv, TypeOK, ArchiveTypeOK, PassTypeOK
  <2> QED
    BY <1>1, <2>2 DEF Files
<1> QED
  BY <1>2, <1>3, <1>4 DEF SealedOnly

\* What a step adds to the files that were verified, and to the requests.
LEMMA VerifiedGrows ==
    ASSUME TypeInv, EvidenceInv, LossInv, [Next]_vars
    PROVE  /\ \A p \in Procs : \A f \in verified'[p] : f \in verified[p] \/ RemoteConfirmed(f)
           /\ \A r \in late' : r \in late \/ \E p \in Procs : r.verified = verified[p]
<1> USE DEF TypeInv, TypeOK, PruneTypeOK
<1>1. ASSUME NEW p \in Procs, Start(p) \/ Step(p) \/ Interrupted(p)
      PROVE  /\ \A q \in Procs : \A f \in verified'[q] : f \in verified[q] \/ RemoteConfirmed(f)
             /\ \A r \in late' : r \in late \/ r.verified = verified[p]
  <2>1. OwnStep(p)
    BY <1>1, ProcessLocal
  <2>2. ASSUME NEW f \in verified'[p] PROVE f \in verified[p] \/ RemoteConfirmed(f)
    <3>1. CASE VerifyNext(p)
      BY <2>2, <3>1 DEF VerifyNext
    <3>2. CASE PruneBlocksStep(p) /\ ~VerifyNext(p)
      BY <2>2, <3>2 DEF PruneBlocksStep, ListForVerify, ListForScan, ScanNext, ScanDone, BoundNext,
                BoundDone, ReadTip, ListProtected, ProtectNext, ProtectDone, ReadCeiling, CallPrune,
                scanVars
    <3>3. CASE ArchiveBlockStep(p) /\ UNCHANGED <<pruneVars, passVars>>
      BY <2>2, <3>3 DEF pruneVars, scanVars
    <3>4. CASE Start(p) \/ ListBlocks(p) \/ NextFile(p)
      BY <2>2, <3>4 DEF Start, ListBlocks, NextFile, pruneVars, scanVars
    <3>5. CASE EndBatch(p) \/ SkipPrune(p) \/ CorePrunes(p) \/ Refuse(p) \/ Interrupted(p)
      <4>1. NextBatch(p) \/ EndPass(p) \/ UNCHANGED scanVars
        BY <3>5 DEF EndBatch, SkipPrune, CorePrunes, Refuse, Interrupted
      <4> QED
        BY <2>2, <4>1 DEF NextBatch, EndPass, ForgetScan, scanVars
    <3> QED
      BY <1>1, <3>1, <3>2, <3>3, <3>4, <3>5 DEF Step
  <2>3. \A r \in late' : r \in late \/ r.verified = verified[p]
    BY <2>1 DEF OwnStep, RequestOf
  <2> QED
    BY <2>1, <2>2, <2>3 DEF OwnStep
<1>2. CASE Environment \/ UNCHANGED vars
  BY <1>2 DEF Environment, CoreWrites, StoreLoses, ScannerAdvances, LatePrune, vars, jobVars,
              pruneVars, scanVars
<1> QED
  BY <1>1, <1>2 DEF Next

\* What was verified stays current, whether or not it is deleted.
LEMMA StillCurrentStep ==
    ASSUME TypeInv, TypeInv', EvidenceInv, LossInv, OnlyKnownFiles, VerifiedInv,
           SealedOnly, StillCurrent, MaxAdvance <= Keep, [Next]_vars
    PROVE  StillCurrent'
<1>1. ASSUME NEW f \in Files, Current(f) PROVE Current(f)'
  BY <1>1, CurrentStays DEF SealedOnly, Current
<1>2. ASSUME NEW f \in Files, RemoteConfirmed(f) PROVE Current(f)
  <2>1. marker[f] # None /\ (f \in onDisk => Current(f))
    BY <1>2 DEF RemoteConfirmed, MarkerMatches
  <2>2. f < newest /\ f \in Int /\ newest \in Int
    BY <2>1 DEF SealedOnly, TypeInv, TypeOK, CoreTypeOK, Files
  <2>3. f \notin onDisk => f \in Deleted
    BY <2>2 DEF Deleted
  <2> QED
    BY <2>1, <2>3 DEF StillCurrent
<1>3. ASSUME NEW p \in Procs PROVE verified[p] \subseteq Files
  BY DEF TypeInv, TypeOK, PruneTypeOK
<1>4. ASSUME NEW r \in late PROVE r.verified \subseteq Files
  BY DEF TypeInv, TypeOK, PruneTypeOK, Requests
<1>5. ASSUME NEW p \in Procs, NEW f \in verified'[p] PROVE Current(f)'
  <2>1. f \in verified[p] \/ RemoteConfirmed(f)
    BY VerifiedGrows
  <2>2. CASE f \in verified[p]
    BY <1>1, <1>3, <2>2 DEF StillCurrent
  <2>3. CASE f \notin verified[p]
    <3>1. RemoteConfirmed(f)
      BY <2>1, <2>3
    <3>2. f \in Files
      BY DEF TypeInv, TypeOK, PruneTypeOK
    <3> QED
      BY <1>1, <1>2, <3>1, <3>2
  <2> QED
    BY <2>2, <2>3
<1>6. ASSUME NEW r \in late', NEW f \in r.verified PROVE Current(f)'
  <2>1. r \in late \/ \E p \in Procs : r.verified = verified[p]
    BY VerifiedGrows
  <2> QED
    BY <1>1, <1>3, <1>4, <2>1 DEF StillCurrent
<1>7. ASSUME NEW f \in Deleted' PROVE Current(f)'
  <2>1. f \in Files /\ f <= newest' /\ f \notin onDisk'
    BY <1>7 DEF Deleted
  <2>2. CASE f \in onDisk
    <3>1. PICK r \in Executed : f \in r.verified
      BY <2>1, <2>2, DeletedIsVerified
    <3>2. r \in late \/ \E p \in Procs : r.verified = verified[p]
      BY <3>1 DEF Executed, RequestOf
    <3> QED
      BY <1>1, <2>1, <3>1, <3>2 DEF StillCurrent
  <2>3. CASE f \notin onDisk
    <3>0. DirectoryStep
      BY EveryDirectory DEF LossInv
    <3>1. newest' \in onDisk' /\ newest' \in {newest, newest + 1} /\ newest \in Int /\ f \in Int
      BY <2>1, <3>0 DEF DirectoryStep, TypeInv, TypeOK, CoreTypeOK, Files
    <3>2. f \in Deleted
      BY <2>1, <2>3, <3>1 DEF Deleted
    <3> QED
      BY <1>1, <2>1, <3>2 DEF StillCurrent
  <2> QED
    BY <2>2, <2>3
<1> QED
  BY <1>5, <1>6, <1>7 DEF StillCurrent

-----------------------------------------------------------------------------
(* Every step is one of the abstract archive's, or none.                   *)

ArchiverInv == TypeInv /\ EvidenceInv /\ LossInv /\ OnlyKnownFiles

\* What is preserved is saved, where nothing is lost.
LEMMA PreservedIsSaved ==
    ASSUME ArchiverInv, MaxDamage = 0, NEW f \in Files, Preserved(f)
    PROVE  Promise!Saved(f)
BY DEF ArchiverInv, OnlyKnownFiles, Preserved, Promise!Saved, Copies

\* A stutter: no file, object or marker changes.
LEMMA Stutters ==
    ASSUME UNCHANGED <<blocks, writes, newest, onDisk, object, marker>>
    PROVE  UNCHANGED <<blocks, onDisk, Copies, OnRecord>>
BY DEF Copies, OnRecord, Current, Signature

\* Core's writes modify a file and take it off the record.
LEMMA CoreModifies ==
    ASSUME ArchiverInv, CoreWrites
    PROVE  (\E f \in Files : Promise!Modify(f)) \/ UNCHANGED <<blocks, onDisk, Copies, OnRecord>>
<1> USE DEF ArchiverInv, TypeInv, TypeOK, CoreTypeOK
<1>0. /\ UNCHANGED <<marker, object>> /\ Copies' = Copies
      /\ newest \in Nat /\ Files \subseteq Nat /\ newest \in onDisk /\ onDisk \subseteq 0..newest
  BY DEF CoreWrites, storageVars, Copies, Files, LossInv, FilesOK, OnlyKnownFiles
<1>1. ASSUME NEW g \in Files, writes'[g] = writes[g] + 1, writes' \in [Files -> Nat]
      PROVE  ~Current(g)'
  <2>1. MarkerPast(g) /\ writes[g] \in Nat
    BY DEF EvidenceInv
  <2> QED
    BY <1>0, <1>1, <2>1, WriteVoids DEF FileStays
<1>2. ASSUME NEW h \in Heights, Arrive(h), NEW f \in Files, f = newest PROVE Promise!Modify(f)
  <2>1. /\ blocks' = [blocks EXCEPT ![f] = @ \union {h}]
        /\ writes' = [writes EXCEPT ![f] = @ + 1]
        /\ UNCHANGED <<onDisk, newest>>
    BY <1>2 DEF Arrive
  <2>2. ~Current(f)'
    BY <1>1, <2>1
  <2>3. \A g \in onDisk \ {f} : Current(g)' <=> Current(g)
    BY <1>0, <2>1 DEF Current, Signature
  <2>4. OnRecord' = OnRecord \ {f}
    BY <2>1, <2>2, <2>3 DEF OnRecord
  <2>5. blocks[f] \union {h} \in SUBSET Heights
    OBVIOUS
  <2> QED
    BY <1>0, <1>2, <2>1, <2>4, <2>5 DEF Promise!Modify
<1>3. ASSUME Roll, NEW f \in Files, f = newest PROVE Promise!Modify(f)
  <2>1. PICK g \in Files : g = f + 1
    BY <1>0, <1>3 DEF Roll, Files
  <2>2. /\ blocks' = blocks /\ newest' = g /\ onDisk' = onDisk \union {g}
        /\ writes' = [writes EXCEPT ![f] = @ + 1]
    BY <1>3, <2>1 DEF Roll
  <2>3. ~Current(f)'
    BY <1>1, <2>2
  <2>4. marker[g] = None
    BY <1>0, <1>3, <2>1 DEF OnlyKnownFiles
  <2>5. ~Current(g)'
    BY <1>0, <2>4 DEF Current
  <2>6. \A x \in onDisk \ {f} : Current(x)' <=> Current(x)
    BY <1>0, <1>3, <2>1, <2>2 DEF Current, Signature
  <2>7. OnRecord' = OnRecord \ {f}
    BY <1>0, <1>3, <2>1, <2>2, <2>3, <2>5, <2>6 DEF OnRecord
  <2>8. blocks' = [blocks EXCEPT ![f] = blocks[f]]
    BY <2>2
  <2> QED
    BY <1>0, <1>3, <2>2, <2>7, <2>8 DEF Promise!Modify
<1>4. ASSUME Connect PROVE UNCHANGED <<blocks, onDisk, Copies, OnRecord>>
  BY <1>0, <1>4, Stutters DEF Connect
<1> QED
  BY <1>2, <1>3, <1>4 DEF CoreWrites

\* A prune deletes saved files.
LEMMA PruneDeletes ==
    ASSUME ArchiverInv, ArchiverInv', MaxDamage = 0, NEW h, PruneTo(h), UNCHANGED <<object, lost, marker>>
    PROVE  \E gone \in SUBSET onDisk : Promise!Delete(gone)
<1> DEFINE gone == Prunable(h)
<1> USE DEF ArchiverInv, TypeInv, TypeOK, CoreTypeOK
<1>1. gone \subseteq onDisk /\ onDisk' = onDisk \ gone /\ UNCHANGED <<blocks, writes, newest>>
  BY DEF PruneTo, Prunable
<1>2. ASSUME NEW f \in gone PROVE Promise!Saved(f)
  <2>1. f \in Files /\ f <= newest' /\ f \notin onDisk'
    <3>1. f \in onDisk /\ f \notin onDisk' /\ newest' = newest
      BY <1>1
    <3>2. f \in 0..newest
      BY <3>1 DEF OnlyKnownFiles
    <3> QED
      BY <3>1, <3>2 DEF Files
  <2>2. Preserved(f)'
    BY <2>1 DEF LossInv, Deleted
  <2>3. Preserved(f)
    BY <1>1, <2>2 DEF Preserved
  <2> QED
    BY <2>1, <2>3, PreservedIsSaved
<1>3. OnRecord' = OnRecord \ gone /\ Copies' = Copies
  BY <1>1 DEF OnRecord, Copies, Current, Signature
<1> QED
  BY <1>1, <1>2, <1>3 DEF Promise!Delete

\* The steps of archive_block: the upload saves the file; the marker records
\* it, if it is still the file that was saved.
LEMMA ArchiveSaves ==
    ASSUME ArchiverInv, MaxDamage = 0, NEW p \in Procs, ArchiveBlockStep(p)
    PROVE  \/ \E f \in Files : Promise!Save(f) \/ Promise!Record(f)
           \/ UNCHANGED <<blocks, onDisk, Copies, OnRecord>>
<1> USE DEF ArchiverInv, TypeInv, TypeOK, CoreTypeOK, StorageTypeOK, MarkersTypeOK
<1>1. UNCHANGED <<blocks, writes, newest, onDisk>>
  BY DEF ArchiveBlockStep, Examine, TakeSignature, ReadChecksum, ReadRanges, EnsureUnchanged,
         UploadBlock, UploadMetadataSidecar, VerifyRemote, Mark, Reads, coreVars
<1>2. CASE UploadBlock(p)
  <2>0. PICK f \in Files : f = cur[p]
    BY <1>2 DEF UploadBlock, Reads
  <2>1. /\ f \in onDisk /\ object' = [object EXCEPT ![f] = Bytes(f)]
        /\ UNCHANGED marker /\ Bytes(f) \in AllBytes
    BY <1>2, <2>0, FileType DEF UploadBlock, UploadObject, Reads
  <2>2. Copies' = [Copies EXCEPT ![f] = blocks[f]]
    BY <2>1 DEF Copies, Bytes
  <2>3. OnRecord' = OnRecord
    BY <1>1, <2>1 DEF OnRecord, Current, Signature
  <2> QED
    BY <1>1, <2>1, <2>2, <2>3 DEF Promise!Save
<1>3. CASE Mark(p)
  <2>0. PICK f \in Files : f = cur[p]
    BY <1>3 DEF Mark, LabelsOK, ArchivePcs
  <2>1. /\ pc[p] = "mark" /\ UNCHANGED object
        /\ marker' = [marker EXCEPT ![f] = [side |-> SideOf(p), signature |-> before[p]]]
    BY <1>3, <2>0 DEF Mark, WriteMarker, storageVars
  <2>2. Archiving(p) /\ ~Current(f)
    BY <2>0, <2>1 DEF EvidenceInv, Archiving, AfterBefore, ArchivePcs
  <2>3. Copies' = Copies
    BY <2>1 DEF Copies
  <2>4. \A g \in onDisk \ {f} : Current(g)' <=> Current(g)
    BY <1>1, <2>1 DEF Current, Signature
  <2>5. CASE f \in onDisk /\ Current(f)'
    <3>1. Signature(f) = before[p]
      BY <1>1, <2>1, <2>5 DEF Current, Signature
    <3>2. object[f] = Bytes(f) \/ <<f, "object">> \in lost
      BY <2>0, <2>1, <2>2, <3>1 DEF Archiving, SoFarConsistent, AfterBefore, AfterHash, AfterRanges,
                              AfterUpload, AfterSidecar, ArchivePcs
    <3>3. Promise!Saved(f)
      <4>1. Bytes(f) \in AllBytes
        BY FileType
      <4> QED
        BY <3>2, <4>1, PreservedIsSaved DEF Preserved, Bytes
    <3>4. OnRecord' = OnRecord \union {f}
      BY <1>1, <2>4, <2>5 DEF OnRecord
    <3> QED
      BY <1>1, <2>1, <2>3, <2>5, <3>3, <3>4 DEF Promise!Record
  <2>6. CASE ~(f \in onDisk /\ Current(f)')
    <3>1. OnRecord' = OnRecord
      BY <1>1, <2>2, <2>4, <2>6 DEF OnRecord
    <3> QED
      BY <1>1, <2>3, <3>1
  <2> QED
    BY <2>5, <2>6
<1>4. CASE ~UploadBlock(p) /\ ~Mark(p)
  <2>1. UNCHANGED <<object, marker>>
    BY <1>4 DEF ArchiveBlockStep, Examine, TakeSignature, ReadChecksum, ReadRanges, EnsureUnchanged,
                UploadMetadataSidecar, UploadSidecar, VerifyRemote, storageVars
  <2> QED
    BY <1>1, <2>1, Stutters
<1> QED
  BY <1>2, <1>3, <1>4

\* The start is that of the abstract archive.
LEMMA PromiseStart == Init => Promise!Init
<1> SUFFICES ASSUME Init PROVE Promise!Init
  OBVIOUS
<1>1. blocks \in [Files -> SUBSET Heights] /\ onDisk \in SUBSET Files
  BY TypeInit DEF TypeInv, TypeOK, CoreTypeOK
<1>2. Copies = [f \in Files |-> {}] /\ OnRecord = {}
  BY <1>1 DEF Init, StorageInit, MarkersInit, Copies, OnRecord, Current
<1> QED
  BY <1>1, <1>2 DEF Promise!Init

\* Every step is one of the abstract archive's, or none of it.
LEMMA PromiseStep ==
    ASSUME ArchiverInv, ArchiverInv', MaxDamage = 0, [Next]_vars
    PROVE  [Promise!Next]_(Promise!archiveVars)
<1> SUFFICES Promise!Next \/ UNCHANGED <<blocks, onDisk, Copies, OnRecord>>
  BY DEF Promise!archiveVars
<1> USE DEF coreVars, storageVars
<1>1. ASSUME NEW p \in Procs, Start(p) \/ Step(p) \/ Interrupted(p)
      PROVE  Promise!Next \/ UNCHANGED <<blocks, onDisk, Copies, OnRecord>>
  <2>1. CASE ArchiveBlockStep(p)
    BY <2>1, ArchiveSaves DEF Promise!Next
  <2>2. CASE PruneBlocksStep(p)
    BY <2>2, PruneFrame, Stutters DEF pruneFrame
  <2>3. CASE CorePrunes(p)
    BY <2>3, PruneDeletes DEF CorePrunes, Promise!Next
  <2>4. CASE ~ArchiveBlockStep(p) /\ ~PruneBlocksStep(p) /\ ~CorePrunes(p)
    <3>1. UNCHANGED <<blocks, writes, newest, onDisk, object, marker>>
      BY <1>1, <2>4 DEF Step, Start, Interrupted, ListBlocks, NextFile, EndBatch, SkipPrune, Refuse
    <3> QED
      BY <3>1, Stutters
  <2> QED
    BY <2>1, <2>2, <2>3, <2>4
<1>2. CASE CoreWrites
  BY <1>2, CoreModifies DEF Promise!Next
<1>3. CASE StoreLoses
  BY <1>3, StoreKeeps DEF ArchiverInv
<1>4. CASE \E r \in late : LatePrune(r)
  BY <1>4, PruneDeletes DEF LatePrune, Promise!Next
<1>5. CASE ScannerAdvances \/ UNCHANGED vars
  BY <1>5, Stutters DEF ScannerAdvances, vars
<1> QED
  BY <1>1, <1>2, <1>3, <1>4, <1>5 DEF Next, Environment

\* Over a store that loses nothing, and while the tip moves by at most the
\* blocks that Core keeps during a prune, the archiver is an archive: whatever
\* crashes, times out or is modified, a file goes only while its copy is
\* complete, and is on record only while its copy is exact.
THEOREM ArchiverIsAnArchive ==
    MaxDamage = 0 /\ MaxAdvance <= Keep => (Spec => KeepsPromise)
<1> SUFFICES ASSUME MaxDamage = 0, MaxAdvance <= Keep PROVE Spec => KeepsPromise
  OBVIOUS
<1>1. Init => ArchiverInv
  <2>1. Init => OnlyKnownFiles
    BY DEF Init, CoreInit, MarkersInit, StorageInit, OnlyKnownFiles
  <2> QED
    BY <2>1, TypeInit, EvidenceInit, LossInit DEF ArchiverInv
<1>2. ArchiverInv /\ [Next]_vars => ArchiverInv'
  BY TypeStep, EvidenceStep, LossStep, KnownStep DEF ArchiverInv
<1>3. ArchiverInv /\ ArchiverInv' /\ [Next]_vars => [Promise!Next]_(Promise!archiveVars)
  BY PromiseStep
<1> QED
  BY <1>1, <1>2, <1>3, PromiseStart, PTL DEF Spec, KeepsPromise, Promise!Spec

-----------------------------------------------------------------------------
(* The bound that the check works out.                                     *)

\* A set of natural numbers has a least element, and so has one of integers
\* that begin at -1.
LEMMA LeastNat ==
    ASSUME NEW S, S \subseteq Nat, S # {}
    PROVE  \E m \in S : \A x \in S : m <= x
<1>1. \E m \in S : \A x \in S : <<x, m>> \notin OpToRel(<, Nat)
  BY NatLessThanWellFounded, WFMin
<1>2. \A x, m \in Nat : <<x, m>> \notin OpToRel(<, Nat) => m <= x
  BY DEF OpToRel
<1> QED
  BY <1>1, <1>2

LEMMA LeastInt ==
    ASSUME NEW S, S \subseteq Int, S # {}, \A x \in S : -1 <= x
    PROVE  /\ Min(S) \in S
           /\ \A x \in S : Min(S) <= x
<1> DEFINE T == {x + 1 : x \in S}
<1>1. \A x \in S : x + 1 \in Nat
  <2> TAKE x \in S
  <2> x \in Int /\ -1 <= x
    OBVIOUS
  <2> QED
    OBVIOUS
<1>2. T \subseteq Nat /\ T # {}
  BY <1>1
<1>3. PICK m \in T : \A t \in T : m <= t
  <2> HIDE DEF T
  <2> QED
    BY <1>2, LeastNat
<1>4. PICK y \in S : m = y + 1
  OBVIOUS
<1>5. ASSUME NEW x \in S PROVE y <= x
  <2>1. x + 1 \in T
    OBVIOUS
  <2>2. y + 1 <= x + 1
    BY <1>3, <1>4, <2>1
  <2>3. x \in Int /\ y \in Int
    OBVIOUS
  <2> QED
    BY <2>2, <2>3
<1> QED
  BY <1>5 DEF Min

\* The bounds of files on disk start at -1.
LEMMA BoundsAre ==
    ASSUME TypeInv, NEW S, S \subseteq Files
    PROVE  BoundsOf(S) \subseteq Int /\ \A x \in BoundsOf(S) : -1 <= x
<1> SUFFICES ASSUME NEW g \in S, first[g] # None PROVE BoundOf(g) \in Int /\ -1 <= BoundOf(g)
  BY DEF BoundsOf
<1>1. first[g] \in Nat
  BY DEF TypeInv, TypeOK, CoreTypeOK, Heights
<1> QED
  BY <1>1 DEF BoundOf

\* safe_prune_height is below every file that is not archived, and the tip.
LEMMA SafeHeightIs ==
    ASSUME TypeInv
    PROVE  /\ SafeHeight \in Int /\ -1 <= SafeHeight /\ SafeHeight <= tip
           /\ \A g \in Unarchived : first[g] # None => SafeHeight < first[g]
<1> DEFINE S == BoundsOf(Unarchived) \union {tip}
<1>1. Unarchived \subseteq Files /\ tip \in Nat
  BY DEF Unarchived, TypeInv, TypeOK, CoreTypeOK, Heights
<1>2. S \subseteq Int /\ S # {} /\ \A x \in S : -1 <= x
  BY <1>1, BoundsAre
<1>3. Min(S) \in S /\ \A x \in S : Min(S) <= x
  <2> HIDE DEF S
  <2> QED
    BY <1>2, LeastInt
<1>4. SafeHeight = Min(S)
  BY DEF SafeHeight
<1>5. ASSUME NEW g \in Unarchived, first[g] # None PROVE SafeHeight < first[g]
  <2>1. BoundOf(g) \in S /\ first[g] \in Int
    BY <1>1, <1>5 DEF BoundsOf, TypeInv, TypeOK, CoreTypeOK, Heights
  <2>2. Min(S) <= BoundOf(g) /\ Min(S) \in Int
    BY <1>2, <1>3, <2>1
  <2> QED
    BY <1>4, <2>1, <2>2 DEF BoundOf
<1> QED
  BY <1>2, <1>3, <1>4, <1>5

\* What the archiver would have pruned is archived and old enough, and all
\* the bounds allow it.
LEMMA WouldPruneIs ==
    ASSUME TypeInv, FilesOK, NEW f \in WouldPrune
    PROVE  /\ f \in onDisk /\ f < newest /\ AlreadyArchived(f)
           /\ \A b \in blocks[f] : b <= tip - Keep /\ b <= SafeHeight
           /\ UseCeiling => scanned # None /\ \A b \in blocks[f] : b <= scanned
<1> DEFINE S == {SafeHeight} \union RetainBounds
           h == Ceiling(Min(S))
<1> USE DEF TypeInv, TypeOK, CoreTypeOK, PruneTypeOK
<1>1. f \in Prunable(h) /\ (UseCeiling => scanned # None)
  BY DEF WouldPrune
<1>2. SafeHeight \in Int /\ -1 <= SafeHeight
  BY SafeHeightIs
<1>3. S \subseteq Int /\ S # {} /\ \A x \in S : -1 <= x
  <2>1. Protected \subseteq Files
    BY DEF Protected
  <2> QED
    BY <1>2, <2>1, BoundsAre DEF RetainBounds
<1>4. Min(S) \in Int /\ Min(S) <= SafeHeight
  <2>1. SafeHeight \in S
    OBVIOUS
  <2> HIDE DEF S
  <2> QED
    BY <1>3, <2>1, LeastInt
<1>5. UseCeiling => scanned \in Int
  BY <1>1 DEF Heights
<1>6. h \in Int /\ h <= SafeHeight /\ (UseCeiling => h <= scanned)
  <2> HIDE DEF S
  <2> QED
    BY <1>2, <1>4, <1>5 DEF Ceiling, Lower
<1> HIDE DEF h
<1>7. /\ f \in onDisk /\ f < newest /\ blocks[f] # {} /\ blocks[f] \subseteq Int
      /\ \A b \in blocks[f] : b <= h /\ b <= tip - Keep
  BY <1>1 DEF Prunable, Heights
<1>8. \A b \in blocks[f] : b <= SafeHeight /\ (UseCeiling => b <= scanned)
  BY <1>2, <1>5, <1>6, <1>7
<1>9. AlreadyArchived(f)
  <2> SUFFICES ASSUME f \in Unarchived PROVE FALSE
    BY <1>7 DEF Unarchived
  <2>1. first[f] \in blocks[f]
    BY <1>7 DEF FilesOK
  <2>2. first[f] # None
    BY <1>7, <2>1
  <2>3. SafeHeight < first[f]
    BY <2>2, SafeHeightIs
  <2> QED
    BY <1>2, <1>7, <1>8, <2>1, <2>3
<1> QED
  BY <1>1, <1>7, <1>8, <1>9

LEMMA LowerOfTwo ==
    ASSUME NEW a \in Int, NEW b \in Int
    PROVE  Min({a, b}) \in {a, b} /\ Min({a, b}) <= a /\ Min({a, b}) <= b
<1>1. \E x \in {a, b} : \A y \in {a, b} : x <= y
  OBVIOUS
<1>2. Min({a, b}) \in {a, b} /\ \A y \in {a, b} : Min({a, b}) <= y
  BY <1>1 DEF Min
<1> QED
  BY <1>2

-----------------------------------------------------------------------------
(* What the check knows.                                                   *)

\* The labels of the check behind its bound, and behind the ceiling.
BoundKnown == {"ceiling", "list", "examine", "awaiting", "passed"}
CeilingKnown == BoundKnown \ {"ceiling"}

CheckTypeInv ==
    /\ observed \in Heights /\ observed <= tip
    /\ limit \in Int
    /\ unseen \subseteq Files

\* What the archiver would have pruned all along is within the bound, and the
\* check has yet to examine it.
SteadyInv ==
    /\ cpc # "info" => steadily \subseteq WouldPrune
    /\ cpc \notin {"info", "refused"} =>
          \A f \in steadily : \A b \in blocks[f] : b <= observed - Keep
    /\ cpc \in BoundKnown => \A f \in steadily : \A b \in blocks[f] : b <= limit
    /\ cpc = "examine" => steadily \subseteq unseen
    /\ cpc = "passed" => steadily = {}

\* A step of the check, or one beside it.
LEMMA CheckMoves ==
    ASSUME [CheckNext]_allVars
    PROVE  /\ [Next]_vars
           /\ UNCHANGED checkVars \/ (CheckStep /\ UNCHANGED vars)
           /\ UNCHANGED allVars \/ (cpc \notin Verdicts /\ Watch)
BY DEF CheckNext, allVars

LEMMA SameAnswers ==
    ASSUME UNCHANGED vars
    PROVE  /\ UNCHANGED <<blocks, first, onDisk, newest, tip, scanned, marker>>
           /\ \A f : AlreadyArchived(f)' = AlreadyArchived(f)
           /\ Unarchived' = Unarchived
           /\ WouldPrune' = WouldPrune
<1>1. UNCHANGED <<blocks, first, onDisk, newest, tip, scanned, marker, writes>>
  BY DEF vars, coreVars, pruneVars
<1>2. \A f : AlreadyArchived(f)' = AlreadyArchived(f)
  BY <1>1 DEF AlreadyArchived, MarkerMatches, Current, Signature
<1>3. Unarchived' = Unarchived
  BY <1>1, <1>2 DEF Unarchived
<1>4. \A S : BoundsOf(S)' = BoundsOf(S)
  BY <1>1 DEF BoundsOf, BoundOf
<1>5. WouldPrune' = WouldPrune
  BY <1>1, <1>3, <1>4 DEF WouldPrune, HeightKnown, RetainKnown, SafeHeight, RetainBounds, Protected,
                          Ceiling, Lower, Prunable
<1> QED
  BY <1>1, <1>2, <1>3, <1>5

LEMMA CheckTypeStep ==
    ASSUME TypeInv, TypeInv', FilesOK, CheckTypeInv, [CheckNext]_allVars
    PROVE  CheckTypeInv'
<1>1. tip' \in {tip, tip + 1} /\ tip \in Int /\ observed \in Int
  BY EveryDirectory, CheckMoves DEF DirectoryStep, CheckTypeInv, TypeInv, TypeOK, CoreTypeOK, Heights
<1>2. CASE UNCHANGED checkVars
  BY <1>1, <1>2 DEF checkVars, CheckTypeInv
<1>3. CASE CheckStep /\ UNCHANGED vars
  <2>1. observed' \in {observed, tip} /\ tip' = tip /\ tip \in Heights
    BY <1>3 DEF CheckStep, ReadInfo, Bound, CapByCeiling, List, ExamineListed, CheckPasses,
                CheckRefused, vars, coreVars, TypeInv, TypeOK, CoreTypeOK
  <2>2. unseen' \subseteq Files
    BY <1>3 DEF CheckStep, ReadInfo, Bound, CapByCeiling, List, ExamineListed, CheckPasses,
                CheckRefused, CheckTypeInv, Listed, TypeInv, TypeOK, CoreTypeOK
  <2>3. limit' \in Int
    <3>1. CASE Bound
      <4>1. limit' = Min({SafeHeight, observed - Keep}) /\ observed - Keep \in Int
        BY <1>1, <3>1 DEF Bound, Retainable
      <4>2. SafeHeight \in Int
        BY SafeHeightIs
      <4> QED
        BY <4>1, <4>2, LowerOfTwo
    <3>2. CASE CapByCeiling
      <4>1. UseCeiling => scanned \in Int
        BY <3>2 DEF CapByCeiling, TypeInv, TypeOK, PruneTypeOK, Heights
      <4> QED
        BY <3>2, <4>1 DEF CapByCeiling, Ceiling, Lower, CheckTypeInv
    <3> QED
      BY <1>3, <3>1, <3>2 DEF CheckStep, ReadInfo, List, ExamineListed, CheckPasses,
                CheckRefused, CheckTypeInv
  <2> QED
    BY <1>1, <2>1, <2>2, <2>3 DEF CheckTypeInv
<1> QED
  BY <1>2, <1>3, CheckMoves

\* What stays to be pruned is judged by what the check learns.
LEMMA SteadyStep ==
    ASSUME TypeInv, TypeInv', EvidenceInv, FilesOK, OnlyKnownFiles, CheckTypeInv, SteadyInv,
           [CheckNext]_allVars
    PROVE  SteadyInv'
<1>1. CASE UNCHANGED allVars
  <2>1. UNCHANGED <<cpc, observed, limit, unseen, steadily>> /\ UNCHANGED vars
    BY <1>1 DEF allVars, checkVars
  <2> QED
    BY <2>1, SameAnswers DEF SteadyInv
<1>2. CASE cpc' = "info"
  BY <1>2 DEF SteadyInv, BoundKnown
<1>3. CASE cpc' # "info" /\ Watch
  <2>1. steadily' \subseteq steadily /\ steadily' \subseteq WouldPrune /\ steadily' \subseteq WouldPrune'
    BY <1>3 DEF Watch
  <2>2. ASSUME NEW f \in steadily'
        PROVE  /\ f \in onDisk /\ f < newest /\ AlreadyArchived(f) /\ f \in Files
               /\ \A b \in blocks[f] : b <= tip - Keep /\ b <= SafeHeight
               /\ UseCeiling => scanned # None /\ \A b \in blocks[f] : b <= scanned
               /\ blocks'[f] = blocks[f] /\ blocks[f] \subseteq Int
    <3>1. /\ f \in onDisk /\ f < newest /\ AlreadyArchived(f)
          /\ \A b \in blocks[f] : b <= tip - Keep /\ b <= SafeHeight
          /\ UseCeiling => scanned # None /\ \A b \in blocks[f] : b <= scanned
      BY <2>1, WouldPruneIs
    <3>2. f \in Files
      BY <3>1 DEF TypeInv, TypeOK, CoreTypeOK
    <3>3. blocks'[f] = blocks[f]
      BY <3>1, <3>2, SealedStays, CheckMoves DEF FileStays
    <3> QED
      BY <3>1, <3>2, <3>3 DEF TypeInv, TypeOK, CoreTypeOK, Heights
  <2>3. CASE UNCHANGED checkVars
    <3>1. UNCHANGED <<cpc, observed, limit, unseen>>
      BY <2>3 DEF checkVars
    <3> QED
      BY <1>3, <2>1, <2>2, <3>1 DEF SteadyInv
  <2>4. CASE CheckStep /\ UNCHANGED vars
    <3>1. CASE ReadInfo
      <4>1. cpc' = "bound" /\ observed' = tip
        BY <3>1 DEF ReadInfo, CheckGoes
      <4> QED
        BY <2>1, <2>2, <4>1 DEF SteadyInv, BoundKnown
    <3>2. CASE Bound
      <4>1. /\ cpc = "bound" /\ cpc' = "ceiling" /\ observed' = observed
            /\ limit' = Min({SafeHeight, observed - Keep})
        BY <3>2 DEF Bound, CheckGoes, Retainable
      <4>2. SafeHeight \in Int /\ observed - Keep \in Int
        BY SafeHeightIs DEF CheckTypeInv, Heights
      <4>3. ASSUME NEW f \in steadily', NEW b \in blocks'[f] PROVE b <= observed - Keep /\ b <= limit'
        <5>1. b \in Int /\ b <= SafeHeight /\ b <= observed - Keep
          BY <2>1, <2>2, <4>1, <4>3 DEF SteadyInv
        <5>2. limit' \in {SafeHeight, observed - Keep}
          BY <4>1, <4>2, LowerOfTwo
        <5> QED
          BY <5>1, <5>2
      <4> QED
        BY <2>1, <4>1, <4>3 DEF SteadyInv, BoundKnown
    <3>3. CASE CapByCeiling
      <4>1. cpc = "ceiling" /\ cpc' = "list" /\ observed' = observed /\ limit' = Ceiling(limit)
        BY <3>3 DEF CapByCeiling, CheckGoes
      <4>2. ASSUME NEW f \in steadily', NEW b \in blocks'[f] PROVE b <= observed - Keep /\ b <= limit'
        BY <2>1, <2>2, <4>1, <4>2 DEF SteadyInv, BoundKnown, Ceiling, Lower
      <4> QED
        BY <2>1, <4>1, <4>2 DEF SteadyInv, BoundKnown
    <3>4. CASE List
      <4>1. /\ cpc = "list" /\ cpc' = "examine" /\ observed' = observed /\ limit' = limit
            /\ unseen' = Listed
        BY <3>4 DEF List, CheckGoes
      <4>2. ASSUME NEW f \in steadily' PROVE f \in Listed
        <5>1. newest \in onDisk /\ onDisk \subseteq 0..newest /\ newest \in Nat
          BY DEF FilesOK, OnlyKnownFiles, TypeInv, TypeOK, CoreTypeOK, Files
        <5>2. \A g \in onDisk : newest >= g /\ (g >= newest => g = newest)
          BY <5>1
        <5>3. Max(onDisk) \in onDisk /\ Max(onDisk) >= newest
          BY <5>1, <5>2 DEF Max
        <5>4. Max(onDisk) = newest
          BY <5>2, <5>3
        <5>5. f \in onDisk /\ f # newest
          BY <2>2, <5>1
        <5> QED
          BY <5>4, <5>5 DEF Listed
      <4>3. \A f \in steadily' : \A b \in blocks'[f] : b <= observed - Keep /\ b <= limit
        BY <2>1, <2>2, <4>1 DEF SteadyInv, BoundKnown
      <4> QED
        BY <2>1, <4>1, <4>2, <4>3 DEF SteadyInv, BoundKnown
    <3>5. CASE ExamineListed
      <4>1. PICK g \in unseen :
              /\ cpc = "examine" /\ observed' = observed /\ limit' = limit
              /\ cpc' = IF Awaits(g) THEN "awaiting" ELSE "examine"
              /\ unseen' = IF Awaits(g) THEN unseen ELSE unseen \ {g}
        BY <3>5 DEF ExamineListed, CheckGoes
      <4>2. \A f \in steadily' : \A b \in blocks'[f] : b <= observed - Keep /\ b <= limit
        BY <2>1, <2>2, <4>1 DEF SteadyInv, BoundKnown
      <4>3. ASSUME g \in steadily' PROVE Awaits(g)
        <5>1. Current(g)
          BY <2>2, <4>3 DEF AlreadyArchived, MarkerMatches
        <5>2. marker[g].side.heights = blocks[g]
          BY <2>2, <4>3, <5>1 DEF EvidenceInv, Evidence
        <5> QED
          BY <2>2, <4>2, <4>3, <5>2 DEF Awaits
      <4>4. cpc' = "examine" => steadily' \subseteq unseen'
        BY <2>1, <4>1, <4>3 DEF SteadyInv
      <4> QED
        BY <2>1, <4>1, <4>2, <4>4 DEF SteadyInv, BoundKnown
    <3>6. CASE CheckPasses
      <4>1. cpc = "examine" /\ cpc' = "passed" /\ observed' = observed /\ limit' = limit /\ unseen = {}
        BY <3>6 DEF CheckPasses, CheckGoes
      <4> QED
        BY <2>1, <4>1 DEF SteadyInv
    <3>7. CASE CheckRefused
      BY <2>1, <3>7 DEF CheckRefused, SteadyInv, BoundKnown
    <3> QED
      BY <2>4, <3>1, <3>2, <3>3, <3>4, <3>5, <3>6, <3>7 DEF CheckStep
  <2> QED
    BY <2>3, <2>4, CheckMoves
<1> QED
  BY <1>1, <1>2, <1>3, CheckMoves

\* When the check of a snapshot passes, no file is left that the archiver would
\* have pruned at every moment of the check (require_pruning_complete), although
\* the chain, the directory, the markers and the ceiling are read one after the
\* other, while blocks arrive, passes archive and prune, and the consumer reads.
THEOREM NothingEligibleIsPassed == CheckSpec => []PassedMeansPruned
<1> DEFINE I == TypeInv /\ EvidenceInv /\ FilesOK /\ OnlyKnownFiles
           J == CheckTypeInv /\ SteadyInv
<1>1. CheckInit => I /\ J
  <2> SUFFICES ASSUME CheckInit PROVE I /\ J
    OBVIOUS
  <2>1. Init /\ cpc = "info" /\ observed = 0 /\ limit = 0 /\ unseen = {}
    BY DEF CheckInit
  <2>2. OnlyKnownFiles
    BY <2>1 DEF Init, CoreInit, MarkersInit, StorageInit, OnlyKnownFiles
  <2>3. TypeInv /\ EvidenceInv /\ FilesOK
    BY <2>1, TypeInit, EvidenceInit, LossInit DEF LossInv
  <2>4. CheckTypeInv /\ SteadyInv
    BY <2>1 DEF CheckTypeInv, SteadyInv, BoundKnown, Init, CoreInit, Heights
  <2> QED
    BY <2>2, <2>3, <2>4
<1>2. I /\ J /\ [CheckNext]_allVars => I' /\ J'
  <2> SUFFICES ASSUME I, J, [CheckNext]_allVars PROVE I' /\ J'
    OBVIOUS
  <2>1. [Next]_vars
    BY CheckMoves
  <2>2. I'
    BY <2>1, TypeStep, EvidenceStep, EveryDirectory, KnownStep
  <2>3. J'
    BY <2>2, CheckTypeStep, SteadyStep
  <2> QED
    BY <2>2, <2>3
<1>3. J => PassedMeansPruned
  BY DEF SteadyInv, PassedMeansPruned
<1> QED
  BY <1>1, <1>2, <1>3, PTL DEF CheckSpec

\* The bound stays below every file that is not archived, those that Core adds
\* or begins to fill meanwhile included.
BoundInv ==
    /\ cpc \in BoundKnown =>
          /\ limit <= observed - Keep
          /\ \A g \in Unarchived : first[g] # None => limit < first[g]
    /\ UseCeiling /\ cpc \in CeilingKnown => scanned # None /\ limit <= scanned
    /\ cpc = "awaiting" =>
          \E f \in unseen : /\ IsFirstOf(f, unseen) /\ f < newest /\ AlreadyArchived(f)
                            /\ \A b \in blocks[f] : b <= limit

\* The first block of a file stays, or it is one beyond the tip.
LEMMA FirstStep ==
    ASSUME TypeInv, FilesOK, [Next]_vars, NEW f \in Files
    PROVE  first'[f] = first[f] \/ (first'[f] \in Int /\ first'[f] > tip)
<1> USE DEF TypeInv, TypeOK, CoreTypeOK
<1>1. ASSUME NEW p \in Procs, Start(p) \/ Step(p) \/ Interrupted(p) PROVE first' = first
  <2>1. CASE ArchiveBlockStep(p)
    BY <2>1 DEF ArchiveBlockStep, Examine, TakeSignature, ReadChecksum, ReadRanges, EnsureUnchanged,
                UploadBlock, UploadMetadataSidecar, VerifyRemote, Mark, Reads, coreVars
  <2>2. CASE PruneBlocksStep(p)
    BY <2>2, PruneFrame DEF pruneFrame, coreVars
  <2>3. CASE ~ArchiveBlockStep(p) /\ ~PruneBlocksStep(p)
    BY <1>1, <2>3 DEF Step, Start, Interrupted, ListBlocks, NextFile, EndBatch, SkipPrune, CorePrunes,
                      PruneTo, Refuse, coreVars
  <2> QED
    BY <2>1, <2>2, <2>3
<1>2. ASSUME NEW h \in Heights, Arrive(h) PROVE first'[f] = first[f] \/ (first'[f] \in Int /\ first'[f] > tip)
  <2>1. h \in Nat /\ tip \in Nat /\ h \notin 0..tip
    BY <1>2 DEF Arrive, FilesOK, Heights
  <2>2. first'[f] \in {first[f], h}
    BY <1>2 DEF Arrive
  <2> QED
    BY <2>1, <2>2
<1>3. CASE CoreWrites /\ ~\E h \in Heights : Arrive(h)
  BY <1>3 DEF CoreWrites, Roll, Connect
<1>4. CASE StoreLoses \/ ScannerAdvances \/ (\E r \in late : LatePrune(r)) \/ UNCHANGED vars
  BY <1>4 DEF StoreLoses, ScannerAdvances, LatePrune, PruneTo, vars, coreVars
<1> QED
  BY <1>1, <1>2, <1>3, <1>4 DEF Next, Environment

\* A file that is not archived after a step was not before, or is new.
LEMMA UnarchivedStep ==
    ASSUME TypeInv, TypeInv', EvidenceInv, SealedOnly, [Next]_vars, NEW g \in Unarchived'
    PROVE  g \in Unarchived \/ g \notin onDisk
<1> SUFFICES ASSUME g \in onDisk, AlreadyArchived(g) PROVE FALSE
  BY DEF Unarchived
<1>1. g \in onDisk' /\ ~AlreadyArchived(g)' /\ g \in Files
  BY DEF Unarchived, TypeInv, TypeOK, CoreTypeOK
<1>2. marker[g] # None /\ Current(g)
  BY DEF AlreadyArchived, MarkerMatches
<1>3. g < newest
  BY <1>1, <1>2 DEF SealedOnly
<1>4. Current(g)'
  BY <1>1, <1>2, <1>3, CurrentStays
<1> QED
  BY <1>1, <1>4 DEF AlreadyArchived, MarkerMatches, Current

\* What the archiver and Core do beside the check leaves its bound true.
LEMMA BoundStays ==
    ASSUME TypeInv, TypeInv', EvidenceInv, FilesOK, SealedOnly, CheckTypeInv, BoundInv,
           [Next]_vars, UNCHANGED checkVars, cpc \notin Verdicts
    PROVE  BoundInv'
<1>1. FilesOK' /\ DirectoryStep
  BY EveryDirectory
<1>2. UNCHANGED <<cpc, observed, limit, unseen>> /\ cpc # "awaiting"
  BY DEF checkVars, Verdicts
<1>3. /\ observed \in Int /\ observed <= tip /\ limit \in Int /\ tip \in Int
      /\ Keep \in Nat
  BY DEF CheckTypeInv, Heights, TypeInv, TypeOK, CoreTypeOK
<1>4. ASSUME cpc \in BoundKnown, NEW g \in Unarchived', first'[g] # None PROVE limit < first'[g]
  <2>1. g \in onDisk' /\ g \in Files
    BY DEF Unarchived, TypeInv, TypeOK, CoreTypeOK
  <2>2. g \in onDisk
    <3>1. blocks'[g] # {}
      BY <1>1, <1>4, <2>1 DEF FilesOK
    <3> QED
      BY <1>1, <2>1, <3>1 DEF DirectoryStep
  <2>3. g \in Unarchived
    BY <2>2, UnarchivedStep
  <2>4. CASE first'[g] = first[g]
    BY <1>4, <2>3, <2>4 DEF BoundInv
  <2>5. CASE first'[g] \in Int /\ first'[g] > tip
    <3>1. limit <= observed - Keep
      BY <1>4 DEF BoundInv
    <3> QED
      BY <1>3, <2>5, <3>1
  <2> QED
    BY <2>1, <2>4, <2>5, FirstStep
<1>5. ASSUME UseCeiling, cpc \in CeilingKnown PROVE scanned' # None /\ limit <= scanned'
  <2>1. scanned # None /\ limit <= scanned
    BY <1>5 DEF BoundInv
  <2> QED
    BY <1>3, <2>1, ScannedGrows
<1>6. cpc \in BoundKnown => limit <= observed - Keep
  BY DEF BoundInv
<1> QED
  BY <1>2, <1>4, <1>5, <1>6 DEF BoundInv

\* The check's own steps.
LEMMA BoundMoves ==
    ASSUME TypeInv, EvidenceInv, FilesOK, OnlyKnownFiles, SealedOnly, StillCurrent, CheckTypeInv,
           BoundInv, CheckStep, UNCHANGED vars
    PROVE  BoundInv'
<1>0. /\ UNCHANGED <<blocks, first, newest, scanned>> /\ Unarchived' = Unarchived
      /\ \A f : AlreadyArchived(f)' = AlreadyArchived(f)
  BY SameAnswers
<1> USE DEF BoundKnown, CeilingKnown
<1>1. CASE ReadInfo
  BY <1>1 DEF ReadInfo, CheckGoes, BoundInv
<1>2. CASE Bound
  <2>1. /\ cpc' = "ceiling" /\ observed' = observed
        /\ limit' = Min({SafeHeight, observed - Keep})
    BY <1>2 DEF Bound, CheckGoes, Retainable
  <2>2. SafeHeight \in Int /\ observed - Keep \in Int
    BY SafeHeightIs DEF CheckTypeInv, Heights
  <2>3. limit' \in Int /\ limit' <= SafeHeight /\ limit' <= observed - Keep
    BY <2>1, <2>2, LowerOfTwo
  <2>4. ASSUME NEW g \in Unarchived, first[g] # None PROVE limit' < first[g]
    <3>1. SafeHeight < first[g] /\ first[g] \in Int
      BY <2>4, SafeHeightIs DEF Unarchived, TypeInv, TypeOK, CoreTypeOK, Heights
    <3> QED
      BY <2>2, <2>3, <3>1
  <2> QED
    BY <1>0, <2>1, <2>3, <2>4 DEF BoundInv
<1>3. CASE CapByCeiling
  <2>1. /\ cpc = "ceiling" /\ cpc' = "list" /\ observed' = observed
        /\ limit' = Ceiling(limit) /\ (UseCeiling => scanned # None)
    BY <1>3 DEF CapByCeiling, CheckGoes
  <2>2. UseCeiling => scanned \in Int
    BY <2>1 DEF TypeInv, TypeOK, PruneTypeOK, Heights
  <2>3. limit \in Int /\ observed - Keep \in Int
    BY DEF CheckTypeInv, Heights
  <2>4. limit' \in Int /\ limit' <= limit /\ (UseCeiling => limit' <= scanned)
    BY <2>1, <2>2, <2>3 DEF Ceiling, Lower
  <2>5. ASSUME NEW g \in Unarchived, first[g] # None PROVE limit' < first[g]
    <3>1. limit < first[g] /\ first[g] \in Int
      BY <2>1, <2>5 DEF BoundInv, Unarchived, TypeInv, TypeOK, CoreTypeOK, Heights
    <3> QED
      BY <2>3, <2>4, <3>1
  <2>6. limit' <= observed - Keep
    BY <2>1, <2>3, <2>4 DEF BoundInv
  <2> QED
    BY <1>0, <2>1, <2>4, <2>5, <2>6 DEF BoundInv
<1>4. CASE List
  BY <1>0, <1>4 DEF List, CheckGoes, BoundInv
<1>5. CASE ExamineListed
  <2>1. PICK f \in unseen :
          /\ IsFirstOf(f, unseen) /\ cpc = "examine" /\ observed' = observed /\ limit' = limit
          /\ cpc' = IF Awaits(f) THEN "awaiting" ELSE "examine"
          /\ unseen' = IF Awaits(f) THEN unseen ELSE unseen \ {f}
    BY <1>5 DEF ExamineListed, CheckGoes
  <2>2. ASSUME Awaits(f)
        PROVE  f < newest /\ AlreadyArchived(f) /\ \A b \in blocks[f] : b <= limit
    <3>1. f \in Files /\ AlreadyArchived(f) /\ \A b \in marker[f].side.heights : b <= limit
      BY <2>2 DEF Awaits, CheckTypeInv
    <3>2. f < newest /\ (f \in onDisk => Current(f))
      BY <3>1 DEF AlreadyArchived, MarkerMatches, SealedOnly
    <3>3. f \notin onDisk => f \in Deleted
      BY <3>1, <3>2 DEF Deleted, TypeInv, TypeOK, CoreTypeOK, Files
    <3>4. Current(f)
      BY <3>2, <3>3 DEF StillCurrent
    <3>5. marker[f].side.heights = blocks[f]
      BY <3>1, <3>4 DEF EvidenceInv, Evidence
    <3> QED
      BY <3>1, <3>2, <3>5
  <2>3. CASE Awaits(f)
    BY <1>0, <2>1, <2>2, <2>3 DEF BoundInv
  <2>4. CASE ~Awaits(f)
    BY <1>0, <2>1, <2>4 DEF BoundInv
  <2> QED
    BY <2>3, <2>4
<1>6. CASE CheckPasses
  BY <1>0, <1>6 DEF CheckPasses, CheckGoes, BoundInv
<1>7. CASE CheckRefused
  BY <1>7 DEF CheckRefused, BoundInv
<1> QED
  BY <1>1, <1>2, <1>3, <1>4, <1>5, <1>6, <1>7 DEF CheckStep

\* The file over which the check says that pruning is awaited is one that only
\* the archiver's next pass keeps, where no parser retains files: the bound put
\* together from answers of different moments is never too high.
THEOREM AwaitedFilesGo ==
    RetainFrom = None /\ KeepLatest >= 1 /\ MaxAdvance <= Keep
        => (CheckSpec => []AwaitingMeansPrunable)
<1> SUFFICES ASSUME RetainFrom = None, KeepLatest >= 1, MaxAdvance <= Keep
             PROVE  CheckSpec => []AwaitingMeansPrunable
  OBVIOUS
<1> DEFINE I == /\ TypeInv /\ EvidenceInv /\ LossInv /\ OnlyKnownFiles /\ VerifiedInv
                /\ SealedOnly /\ StillCurrent
           J == CheckTypeInv /\ BoundInv
<1>1. CheckInit => I /\ J
  <2> SUFFICES ASSUME CheckInit PROVE I /\ J
    OBVIOUS
  <2>1. Init /\ cpc = "info" /\ observed = 0 /\ limit = 0 /\ unseen = {}
    BY DEF CheckInit
  <2>2. OnlyKnownFiles /\ SealedOnly
    BY <2>1 DEF Init, CoreInit, MarkersInit, StorageInit, OnlyKnownFiles, SealedOnly
  <2>3. VerifiedInv
    BY <2>1 DEF Init, VerifiedInv, Vouched, Requesting, Bounded
  <2>4. StillCurrent
    BY <2>1 DEF Init, CoreInit, StillCurrent, Deleted, Files
  <2>5. TypeInv /\ EvidenceInv /\ LossInv
    BY <2>1, TypeInit, EvidenceInit, LossInit
  <2>6. CheckTypeInv /\ BoundInv
    BY <2>1 DEF CheckTypeInv, BoundInv, BoundKnown, CeilingKnown, Init, CoreInit, Heights
  <2> QED
    BY <2>2, <2>3, <2>4, <2>5, <2>6
<1>2. I /\ J /\ [CheckNext]_allVars => I' /\ J'
  <2> SUFFICES ASSUME I, J, [CheckNext]_allVars PROVE I' /\ J'
    OBVIOUS
  <2>1. [Next]_vars /\ FilesOK
    BY CheckMoves DEF LossInv
  <2>2. I'
    BY <2>1, TypeStep, EvidenceStep, LossStep, KnownStep, VerifiedStep, SealedStep, StillCurrentStep
  <2>3. CheckTypeInv'
    BY <2>1, <2>2, CheckTypeStep
  <2>4. BoundInv'
    <3>1. CASE UNCHANGED allVars
      <4>1. UNCHANGED <<cpc, observed, limit, unseen>> /\ UNCHANGED vars
        BY <3>1 DEF allVars, checkVars
      <4> QED
        BY <4>1, SameAnswers DEF BoundInv, IsFirstOf
    <3>2. CASE cpc \notin Verdicts /\ UNCHANGED checkVars
      BY <2>1, <2>2, <3>2, BoundStays
    <3>3. CASE CheckStep /\ UNCHANGED vars
      BY <2>1, <3>3, BoundMoves
    <3> QED
      BY <3>1, <3>2, <3>3, CheckMoves
  <2> QED
    BY <2>2, <2>3, <2>4
<1>3. I /\ J => AwaitingMeansPrunable
  <2> SUFFICES ASSUME I, J, cpc = "awaiting"
               PROVE  \E f \in unseen : IsFirstOf(f, unseen) /\ f < newest /\ BelowEveryLimit(f)
    BY DEF AwaitingMeansPrunable
  <2>1. PICK f \in unseen : /\ IsFirstOf(f, unseen) /\ f < newest /\ AlreadyArchived(f)
                            /\ \A b \in blocks[f] : b <= limit
    BY DEF BoundInv
  <2>2. /\ limit <= observed - Keep /\ observed <= tip /\ observed \in Int /\ tip \in Int /\ limit \in Int
        /\ UseCeiling => scanned # None /\ limit <= scanned /\ scanned \in Int
    BY DEF BoundInv, BoundKnown, CeilingKnown, CheckTypeInv, TypeInv, TypeOK, CoreTypeOK, PruneTypeOK, Heights
  <2>3. ASSUME NEW b \in blocks[f]
        PROVE  /\ b <= tip - Keep
               /\ UseCeiling => scanned # None /\ b <= scanned
               /\ \A g \in Unarchived : first[g] # None => b < first[g]
    <3>1. b \in Int /\ b <= limit
      BY <2>1 DEF CheckTypeInv, TypeInv, TypeOK, CoreTypeOK, Heights
    <3>2. ASSUME NEW g \in Unarchived, first[g] # None PROVE b < first[g]
      <4>1. limit < first[g] /\ first[g] \in Int
        BY <3>2 DEF BoundInv, BoundKnown, Unarchived, TypeInv, TypeOK, CoreTypeOK, Heights
      <4> QED
        BY <2>2, <3>1, <4>1
    <3> QED
      BY <2>2, <3>1, <3>2
  <2> QED
    BY <2>1, <2>3 DEF BelowEveryLimit
<1> QED
  BY <1>1, <1>2, <1>3, PTL DEF CheckSpec
=============================================================================
