---------------------------- MODULE ArchiveProofs ----------------------------
(***************************************************************************)
(* Theorems about the archiver, for every number of processes, files and   *)
(* blocks and every configuration.                                         *)
(***************************************************************************)
EXTENDS ArchiveInvariants, TLAPS

USE CoreAssumption, StorageAssumption, PassAssumption

-----------------------------------------------------------------------------
(* Typing.                                                                 *)

\* The initial state is well typed.
LEMMA TypeInit == Init => TypeInv
<1> SUFFICES ASSUME Init PROVE TypeInv
  OBVIOUS
<1>1. 0 \in Heights /\ 0 \in Files
  BY DEF Heights, Files
<1>2. CoreTypeOK
  BY <1>1 DEF Init, CoreInit, CoreTypeOK
<1>3. MarkersTypeOK /\ StorageTypeOK
  BY DEF Init, MarkersInit, StorageInit, MarkersTypeOK, StorageTypeOK
<1>4. ArchiveTypeOK /\ PruneTypeOK /\ PassTypeOK /\ pc \in [Procs -> Labels]
  BY <1>1 DEF Init, ArchiveTypeOK, PruneTypeOK, PassTypeOK, Labels
<1>5. LabelsOK
  BY DEF Init, LabelsOK, ArchivePcs, AfterBefore, AfterHash, Bounded
<1> QED
  BY <1>2, <1>3, <1>4, <1>5 DEF TypeInv, TypeOK

\* What stat() and the file's content are, for a file of the directory.
LEMMA FileType ==
    ASSUME TypeInv, NEW f \in Files
    PROVE  Signature(f) \in Signatures /\ Bytes(f) \in AllBytes
<1>1. writes[f] \in Nat /\ blocks[f] \in SUBSET Heights
  BY DEF TypeInv, TypeOK, CoreTypeOK
<1>2. (f < newest) \in BOOLEAN
  OBVIOUS
<1> QED
  BY <1>1, <1>2 DEF Signature, Signatures, Bytes, AllBytes

\* Once the checksum is known there is a sidecar to write.
LEMMA SideType ==
    ASSUME TypeInv, NEW p \in Procs, pc[p] \in AfterHash
    PROVE  SideOf(p) \in Sidecars
<1>1. before[p].sealed \in BOOLEAN /\ sha[p] \in AllBytes /\ ranges[p] \in SUBSET Heights
  BY DEF TypeInv, TypeOK, ArchiveTypeOK, LabelsOK, AfterBefore, AfterHash, Signatures
<1> QED
  BY <1>1 DEF SideOf, Sidecars

\* Steps of archive_block leave Core, the prunes and the passes alone.
LEMMA ArchiveFrameType ==
    ASSUME TypeInv, UNCHANGED <<coreVars, pruneVars, passVars>>
    PROVE  CoreTypeOK' /\ PruneTypeOK' /\ PassTypeOK'
<1>1. CoreTypeOK'
  BY DEF TypeInv, TypeOK, CoreTypeOK, coreVars
<1>2. PruneTypeOK'
  BY DEF TypeInv, TypeOK, PruneTypeOK, pruneVars, scanVars
<1>3. PassTypeOK'
  BY DEF TypeInv, TypeOK, PassTypeOK, passVars
<1> QED
  BY <1>1, <1>2, <1>3

\* Every step of archive_block preserves the types.
LEMMA ArchiveBlockType ==
    ASSUME TypeInv, NEW p \in Procs, ArchiveBlockStep(p), UNCHANGED <<pruneVars, passVars>>
    PROVE  TypeInv'
<1> USE DEF TypeInv, TypeOK, MarkersTypeOK, StorageTypeOK, ArchiveTypeOK, LabelsOK,
            storageVars, pruneVars, scanVars, locals, Labels, ArchivePcs, AfterBefore,
            AfterHash, Bounded, PrunePcs
<1>1. CASE Examine(p)
  BY <1>1, ArchiveFrameType DEF Examine
<1>2. CASE TakeSignature(p)
  <2>1. Signature(cur[p]) \in Signatures
    BY <1>2, FileType DEF TakeSignature, Reads
  <2> QED
    BY <1>2, <2>1, ArchiveFrameType DEF TakeSignature, Reads
<1>3. CASE ReadChecksum(p)
  <2>1. Bytes(cur[p]) \in AllBytes
    BY <1>3, FileType DEF ReadChecksum, Reads
  <2> QED
    BY <1>3, <2>1, ArchiveFrameType DEF ReadChecksum, Reads
<1>4. CASE ReadRanges(p)
  <2>1. blocks[cur[p]] \in SUBSET Heights
    BY <1>4 DEF ReadRanges, Reads, CoreTypeOK
  <2> QED
    BY <1>4, <2>1, ArchiveFrameType DEF ReadRanges, Reads
<1>5. CASE UploadBlock(p)
  <2>1. Bytes(cur[p]) \in AllBytes
    BY <1>5, FileType DEF UploadBlock, Reads
  <2> QED
    BY <1>5, <2>1, ArchiveFrameType DEF UploadBlock, Reads, UploadObject
<1>6. CASE EnsureUnchanged(p)
  BY <1>6, ArchiveFrameType DEF EnsureUnchanged, CheckPcs, AfterCheck
<1>7. CASE UploadMetadataSidecar(p)
  <2>1. SideOf(p) \in Sidecars
    BY <1>7, SideType DEF UploadMetadataSidecar
  <2> QED
    BY <1>7, <2>1, ArchiveFrameType DEF UploadMetadataSidecar, UploadSidecar
<1>8. CASE VerifyRemote(p)
  BY <1>8, ArchiveFrameType DEF VerifyRemote
<1>9. CASE Mark(p)
  <2>1. SideOf(p) \in Sidecars
    BY <1>9, SideType DEF Mark
  <2>2. [side |-> SideOf(p), signature |-> before[p]] \in MarkerRecords
    BY <1>9, <2>1 DEF Mark, MarkerRecords
  <2> QED
    BY <1>9, <2>2, ArchiveFrameType DEF Mark, WriteMarker
<1> QED
  BY <1>1, <1>2, <1>3, <1>4, <1>5, <1>6, <1>7, <1>8, <1>9 DEF ArchiveBlockStep

\* Steps of a prune leave everything but its own locals alone.
LEMMA PruneFrameType ==
    ASSUME TypeInv, UNCHANGED <<pruneFrame, passVars>>
    PROVE  /\ CoreTypeOK' /\ MarkersTypeOK' /\ StorageTypeOK'
           /\ ArchiveTypeOK' /\ PassTypeOK'
<1>1. CoreTypeOK'
  BY DEF TypeInv, TypeOK, CoreTypeOK, coreVars, pruneFrame
<1>2. MarkersTypeOK' /\ StorageTypeOK'
  BY DEF TypeInv, TypeOK, MarkersTypeOK, StorageTypeOK, storageVars, pruneFrame
<1>3. ArchiveTypeOK' /\ PassTypeOK'
  BY DEF TypeInv, TypeOK, ArchiveTypeOK, PassTypeOK, passVars, locals, pruneFrame
<1> QED
  BY <1>1, <1>2, <1>3

\* Every step of prune_archived_blocks up to its request preserves the types.
LEMMA PruneBlocksType ==
    ASSUME TypeInv, NEW p \in Procs, PruneBlocksStep(p), UNCHANGED passVars
    PROVE  TypeInv'
<1> USE DEF TypeInv, TypeOK, PruneTypeOK, LabelsOK, scanVars, locals, pruneFrame,
            Labels, ArchivePcs, AfterBefore, AfterHash, Bounded, PrunePcs, Goes, Drop
<1>1. CASE ListForVerify(p)
  BY <1>1, PruneFrameType DEF ListForVerify, CoreTypeOK
<1>2. CASE VerifyNext(p)
  BY <1>2, PruneFrameType DEF VerifyNext
<1>3. CASE ListForScan(p)
  BY <1>3, PruneFrameType DEF ListForScan, CoreTypeOK
<1>4. CASE ScanNext(p)
  BY <1>4, PruneFrameType DEF ScanNext
<1>5. CASE ScanDone(p)
  BY <1>5, PruneFrameType DEF ScanDone
<1>6. CASE BoundNext(p)
  <2>1. PICK f \in todo[p] : BoundNext(p)!(f)
    BY <1>6 DEF BoundNext
  <2>2. first[f] # None => BoundOf(f) \in Int
    BY DEF CoreTypeOK, Heights, BoundOf
  <2>3. height'[p] \in Int \union {None}
    BY <2>1, <2>2 DEF Lower
  <2> QED
    BY <2>1, <2>3, PruneFrameType
<1>7. CASE BoundDone(p)
  BY <1>7, PruneFrameType DEF BoundDone
<1>8. CASE ReadTip(p)
  <2>1. Lower(height[p], tip) \in Int
    BY DEF CoreTypeOK, Heights, Lower
  <2> QED
    BY <1>8, <2>1, PruneFrameType DEF ReadTip
<1>9. CASE ListProtected(p)
  BY <1>9, PruneFrameType DEF ListProtected, Protected, CoreTypeOK
<1>10. CASE ProtectNext(p)
  <2>1. PICK f \in todo[p] : ProtectNext(p)!(f)
    BY <1>10 DEF ProtectNext
  <2>2. Lower(height[p], BoundOf(f)) \in Int
    BY <2>1 DEF CoreTypeOK, Heights, BoundOf, Lower
  <2> QED
    BY <2>1, <2>2, PruneFrameType
<1>11. CASE ProtectDone(p)
  BY <1>11, PruneFrameType DEF ProtectDone
<1>12. CASE ReadCeiling(p)
  <2>1. Ceiling(height[p]) \in Int
    BY <1>12 DEF ReadCeiling, Ceiling, Lower, Heights
  <2> QED
    BY <1>12, <2>1, PruneFrameType DEF ReadCeiling
<1>13. CASE CallPrune(p)
  BY <1>13, PruneFrameType DEF CallPrune
<1> QED
  BY <1>1, <1>2, <1>3, <1>4, <1>5, <1>6, <1>7, <1>8, <1>9, <1>10, <1>11, <1>12, <1>13
     DEF PruneBlocksStep

\* The end of a pass preserves the types.
LEMMA EndPassType ==
    ASSUME TypeInv, NEW p \in Procs, EndPass(p),
           UNCHANGED <<blocks, first, writes, newest, tip, storageVars, marker, scanned>>,
           onDisk' \subseteq onDisk, late' \in SUBSET Requests, faults' \in 0..MaxFaults
    PROVE  TypeInv'
<1>1. CoreTypeOK' /\ MarkersTypeOK' /\ StorageTypeOK'
  BY DEF TypeInv, TypeOK, CoreTypeOK, MarkersTypeOK, StorageTypeOK, storageVars
<1>2. pc' \in [Procs -> Labels] /\ ArchiveTypeOK'
  BY DEF TypeInv, TypeOK, ArchiveTypeOK, EndPass, ForgetFile, Labels
<1>3. 0 \in Heights
  BY DEF Heights
<1>4. PruneTypeOK'
  BY <1>3 DEF TypeInv, TypeOK, PruneTypeOK, EndPass, ForgetScan
<1>5. PassTypeOK'
  BY DEF TypeInv, TypeOK, PassTypeOK, EndPass
<1>6. LabelsOK'
  BY DEF TypeInv, TypeOK, ArchiveTypeOK, PruneTypeOK, LabelsOK, EndPass, ForgetFile,
         ForgetScan, ArchivePcs, AfterBefore, AfterHash, Bounded
<1> QED
  BY <1>1, <1>2, <1>4, <1>5, <1>6 DEF TypeInv, TypeOK

\* The step to the next batch preserves the types.
LEMMA NextBatchType ==
    ASSUME TypeInv, NEW p \in Procs, NextBatch(p),
           UNCHANGED <<blocks, first, writes, newest, tip, storageVars, marker, late, scanned, faults>>,
           onDisk' \subseteq onDisk
    PROVE  TypeInv'
<1>1. CASE queue[p] = {}
  <2>1. late' \in SUBSET Requests /\ faults' \in 0..MaxFaults
    BY DEF TypeInv, TypeOK, PruneTypeOK, PassTypeOK
  <2> QED
    BY <1>1, <2>1, EndPassType DEF NextBatch
<1>2. CASE queue[p] # {}
  <2>1. CoreTypeOK' /\ MarkersTypeOK' /\ StorageTypeOK'
    BY DEF TypeInv, TypeOK, CoreTypeOK, MarkersTypeOK, StorageTypeOK, storageVars
  <2>2. pc' \in [Procs -> Labels] /\ ArchiveTypeOK' /\ PassTypeOK'
    BY <1>2 DEF TypeInv, TypeOK, ArchiveTypeOK, PassTypeOK, NextBatch, Goes, locals, Labels
  <2>3. 0 \in Heights
    BY DEF Heights
  <2>4. PruneTypeOK'
    BY <1>2, <2>3 DEF TypeInv, TypeOK, PruneTypeOK, NextBatch, ForgetScan
  <2>5. LabelsOK'
    BY <1>2 DEF TypeInv, TypeOK, ArchiveTypeOK, PruneTypeOK, LabelsOK, NextBatch, Goes, locals,
                ForgetScan, ArchivePcs, AfterBefore, AfterHash, Bounded
  <2> QED
    BY <2>1, <2>2, <2>4, <2>5 DEF TypeInv, TypeOK
<1> QED
  BY <1>1, <1>2

\* Every step of a process preserves the types.
LEMMA ProcessType ==
    ASSUME TypeInv, NEW p \in Procs, Start(p) \/ Step(p) \/ Interrupted(p)
    PROVE  TypeInv'
<1>1. CASE Start(p)
  <2>1. CoreTypeOK' /\ MarkersTypeOK' /\ StorageTypeOK' /\ ArchiveTypeOK' /\ PruneTypeOK'
    BY <1>1 DEF Start, TypeInv, TypeOK, CoreTypeOK, MarkersTypeOK, StorageTypeOK, ArchiveTypeOK,
                PruneTypeOK, coreVars, storageVars, locals, pruneVars, scanVars
  <2>2. pc' \in [Procs -> Labels] /\ PassTypeOK'
    BY <1>1 DEF Start, TypeInv, TypeOK, PassTypeOK, Goes, Labels, PrunePcs
  <2>3. LabelsOK'
    BY <1>1 DEF Start, TypeInv, TypeOK, LabelsOK, Goes, locals, pruneVars, scanVars,
                ArchivePcs, AfterBefore, AfterHash, Bounded
  <2> QED
    BY <2>1, <2>2, <2>3 DEF TypeInv, TypeOK
<1>2. CASE ArchiveBlockStep(p) /\ UNCHANGED <<pruneVars, passVars>>
  BY <1>2, ArchiveBlockType
<1>3. CASE PruneBlocksStep(p) /\ UNCHANGED passVars
  BY <1>3, PruneBlocksType
<1>4. CASE ListBlocks(p)
  <2>1. CoreTypeOK' /\ MarkersTypeOK' /\ StorageTypeOK' /\ ArchiveTypeOK' /\ PruneTypeOK'
    BY <1>4 DEF ListBlocks, TypeInv, TypeOK, CoreTypeOK, MarkersTypeOK, StorageTypeOK, ArchiveTypeOK,
                PruneTypeOK, coreVars, storageVars, locals, pruneVars, scanVars
  <2>2. Archivable \in SUBSET Files
    BY DEF Archivable, TypeInv, TypeOK, CoreTypeOK
  <2>3. pc' \in [Procs -> Labels] /\ PassTypeOK'
    BY <1>4, <2>2 DEF ListBlocks, TypeInv, TypeOK, PassTypeOK, Goes, Labels
  <2>4. LabelsOK'
    BY <1>4 DEF ListBlocks, TypeInv, TypeOK, LabelsOK, Goes, locals, pruneVars, scanVars,
                ArchivePcs, AfterBefore, AfterHash, Bounded
  <2> QED
    BY <2>1, <2>3, <2>4 DEF TypeInv, TypeOK
<1>5. CASE NextFile(p)
  <2>1. PICK f \in queue[p] : NextFile(p)!(f)
    BY <1>5 DEF NextFile
  <2>2. f \in Files
    BY DEF TypeInv, TypeOK, PassTypeOK
  <2>3. CoreTypeOK' /\ MarkersTypeOK' /\ StorageTypeOK' /\ PruneTypeOK'
    BY <2>1 DEF TypeInv, TypeOK, CoreTypeOK, MarkersTypeOK, StorageTypeOK,
                PruneTypeOK, coreVars, storageVars, pruneVars, scanVars
  <2>4. pc' \in [Procs -> Labels] /\ ArchiveTypeOK'
    BY <2>1, <2>2 DEF TypeInv, TypeOK, ArchiveTypeOK, ForgetFile, Goes, Labels, ArchivePcs
  <2>5. PassTypeOK'
    BY <2>1 DEF TypeInv, TypeOK, PassTypeOK, BatchHasRoom
  <2>6. LabelsOK'
    BY <2>1, <2>2 DEF TypeInv, TypeOK, ArchiveTypeOK, LabelsOK, ForgetFile, Goes, pruneVars, scanVars,
                ArchivePcs, AfterBefore, AfterHash, Bounded
  <2> QED
    BY <2>3, <2>4, <2>5, <2>6 DEF TypeInv, TypeOK
<1>6. CASE EndBatch(p) /\ PruneAfter
  <2>1. CoreTypeOK' /\ MarkersTypeOK' /\ StorageTypeOK' /\ ArchiveTypeOK' /\ PruneTypeOK'
    BY <1>6 DEF EndBatch, TypeInv, TypeOK, CoreTypeOK, MarkersTypeOK, StorageTypeOK, ArchiveTypeOK,
                PruneTypeOK, coreVars, storageVars, locals, scanVars
  <2>2. pc' \in [Procs -> Labels] /\ PassTypeOK'
    BY <1>6 DEF EndBatch, TypeInv, TypeOK, PassTypeOK, Goes, Labels, PrunePcs
  <2>3. LabelsOK'
    BY <1>6 DEF EndBatch, TypeInv, TypeOK, LabelsOK, Goes, locals, scanVars,
                ArchivePcs, AfterBefore, AfterHash, Bounded
  <2> QED
    BY <2>1, <2>2, <2>3 DEF TypeInv, TypeOK
<1>7. CASE EndBatch(p) /\ ~PruneAfter
  BY <1>7, NextBatchType DEF EndBatch, coreVars
<1>8. CASE SkipPrune(p)
  BY <1>8, NextBatchType DEF SkipPrune, coreVars
<1>9. CASE CorePrunes(p)
  BY <1>9, NextBatchType DEF CorePrunes, PruneTo
<1>10. CASE Refuse(p)
  <2>1. late' \in SUBSET Requests /\ faults' \in 0..MaxFaults
    BY <1>10 DEF Refuse, TypeInv, TypeOK, PruneTypeOK, PassTypeOK
  <2> QED
    BY <1>10, <2>1, EndPassType DEF Refuse, coreVars
<1>11. CASE Interrupted(p)
  <2>1. pc[p] = "p_wait" => RequestOf(p) \in Requests
    BY DEF RequestOf, Requests, TypeInv, TypeOK, PruneTypeOK, LabelsOK, Bounded
  <2>2. late' \in SUBSET Requests
    BY <1>11, <2>1 DEF Interrupted, TypeInv, TypeOK, PruneTypeOK
  <2>3. faults' \in 0..MaxFaults
    BY <1>11 DEF Interrupted, TypeInv, TypeOK, PassTypeOK
  <2> QED
    BY <1>11, <2>2, <2>3, EndPassType DEF Interrupted, coreVars
<1> QED
  BY <1>1, <1>2, <1>3, <1>4, <1>5, <1>6, <1>7, <1>8, <1>9, <1>10, <1>11 DEF Step

\* What runs beside the processes preserves the types.
LEMMA EnvironmentType ==
    ASSUME TypeInv, Environment
    PROVE  TypeInv'
<1>1. CASE CoreWrites
  <2>1. MarkersTypeOK' /\ StorageTypeOK' /\ ArchiveTypeOK' /\ PruneTypeOK' /\ PassTypeOK'
    BY <1>1 DEF CoreWrites, TypeInv, TypeOK, MarkersTypeOK, StorageTypeOK, ArchiveTypeOK, PruneTypeOK,
                PassTypeOK, storageVars, jobVars, locals, pruneVars, scanVars, passVars
  <2>2. pc' \in [Procs -> Labels] /\ LabelsOK'
    BY <1>1 DEF CoreWrites, TypeInv, TypeOK, LabelsOK, jobVars, locals, pruneVars, scanVars
  <2>3. ASSUME NEW h \in Heights, Arrive(h) PROVE CoreTypeOK'
    BY <2>3 DEF Arrive, TypeInv, TypeOK, CoreTypeOK
  <2>4. ASSUME Roll PROVE CoreTypeOK'
    BY <2>4 DEF Roll, TypeInv, TypeOK, CoreTypeOK, Files
  <2>5. ASSUME Connect PROVE CoreTypeOK'
    BY <2>5 DEF Connect, Stored, TypeInv, TypeOK, CoreTypeOK
  <2> QED
    BY <1>1, <2>1, <2>2, <2>3, <2>4, <2>5 DEF CoreWrites, TypeInv, TypeOK
<1>2. CASE StoreLoses
  <2>1. CoreTypeOK' /\ MarkersTypeOK' /\ ArchiveTypeOK' /\ PruneTypeOK' /\ PassTypeOK'
    BY <1>2 DEF StoreLoses, TypeInv, TypeOK, CoreTypeOK, MarkersTypeOK, ArchiveTypeOK, PruneTypeOK,
                PassTypeOK, coreVars, jobVars, locals, pruneVars, scanVars, passVars
  <2>2. pc' \in [Procs -> Labels] /\ LabelsOK'
    BY <1>2 DEF StoreLoses, TypeInv, TypeOK, LabelsOK, jobVars, locals, pruneVars, scanVars
  <2>3. StorageTypeOK'
    BY <1>2 DEF StoreLoses, LoseObject, LoseSidecar, TypeInv, TypeOK, StorageTypeOK, Kinds
  <2> QED
    BY <2>1, <2>2, <2>3 DEF TypeInv, TypeOK
<1>3. CASE ScannerAdvances
  BY <1>3 DEF ScannerAdvances, TypeInv, TypeOK, LabelsOK, CoreTypeOK, MarkersTypeOK, StorageTypeOK,
              ArchiveTypeOK, PruneTypeOK, PassTypeOK, coreVars, storageVars, jobVars, locals,
              scanVars, passVars
<1>4. CASE \E r \in late : LatePrune(r)
  <2>1. PICK r \in late : LatePrune(r)
    BY <1>4
  <2>2. CoreTypeOK' /\ MarkersTypeOK' /\ StorageTypeOK'
    BY <2>1 DEF LatePrune, PruneTo, TypeInv, TypeOK, CoreTypeOK, MarkersTypeOK, StorageTypeOK, storageVars
  <2>3. ArchiveTypeOK' /\ PruneTypeOK' /\ PassTypeOK'
    BY <2>1 DEF LatePrune, TypeInv, TypeOK, ArchiveTypeOK, PruneTypeOK, PassTypeOK,
                jobVars, locals, scanVars, passVars
  <2>4. pc' \in [Procs -> Labels] /\ LabelsOK'
    BY <2>1 DEF LatePrune, TypeInv, TypeOK, LabelsOK, jobVars, locals, scanVars
  <2> QED
    BY <2>2, <2>3, <2>4 DEF TypeInv, TypeOK
<1> QED
  BY <1>1, <1>2, <1>3, <1>4 DEF Environment

\* Every step preserves the types.
LEMMA TypeStep == TypeInv /\ [Next]_vars => TypeInv'
<1> SUFFICES ASSUME TypeInv, [Next]_vars PROVE TypeInv'
  OBVIOUS
<1>1. CASE \E p \in Procs : Start(p) \/ Step(p) \/ Interrupted(p)
  BY <1>1, ProcessType
<1>2. CASE Environment
  BY <1>2, EnvironmentType
<1>3. CASE UNCHANGED vars
  BY <1>3 DEF vars, TypeInv, TypeOK, LabelsOK, CoreTypeOK, MarkersTypeOK, StorageTypeOK,
              ArchiveTypeOK, PruneTypeOK, PassTypeOK, coreVars, storageVars, jobVars, locals,
              pruneVars, scanVars, passVars
<1> QED
  BY <1>1, <1>2, <1>3 DEF Next

\* Every variable keeps its type, and a process that archives or prunes has
\* the locals its code relies on (no use before assignment in archive_block
\* and prune_archived_blocks).
THEOREM Typing == Spec => []TypeOK
<1>1. Spec => []TypeInv
  BY TypeInit, TypeStep, PTL DEF Spec
<1>2. TypeInv => TypeOK
  BY DEF TypeInv
<1> QED
  BY <1>1, <1>2, PTL

-----------------------------------------------------------------------------
(* A current marker is evidence.                                           *)

\* A file either stays as it is or its modification time grows.
FileStays(f) ==
    /\ writes'[f] = writes[f]
    /\ blocks'[f] = blocks[f]
    /\ (f < newest)' = (f < newest)

\* Core changes no file behind its modification time.
LEMMA CoreWritesShow ==
    ASSUME TypeInv, CoreWrites, NEW f \in Files
    PROVE  FileStays(f) \/ writes'[f] > writes[f]
<1> USE DEF TypeInv, TypeOK, CoreTypeOK, FileStays, Files
<1>1. ASSUME NEW h \in Heights, Arrive(h) PROVE FileStays(f) \/ writes'[f] > writes[f]
  BY <1>1 DEF Arrive
<1>2. ASSUME Roll PROVE FileStays(f) \/ writes'[f] > writes[f]
  BY <1>2 DEF Roll
<1>3. ASSUME Connect PROVE FileStays(f) \/ writes'[f] > writes[f]
  BY <1>3 DEF Connect
<1> QED
  BY <1>1, <1>2, <1>3 DEF CoreWrites

\* A write voids a marker, and leaves every other one what it is.
LEMMA WriteVoids ==
    ASSUME TypeInv, NEW f \in Files, MarkerPast(f), UNCHANGED marker,
           writes' \in [Files -> Nat], FileStays(f) \/ writes'[f] > writes[f]
    PROVE  /\ Current(f)' => Current(f) /\ FileStays(f)
           /\ MarkerPast(f)'
<1> USE DEF TypeInv, TypeOK, CoreTypeOK, MarkersTypeOK
<1>1. marker[f] # None => marker[f].signature.mtime \in Nat
  BY DEF MarkerRecords, Signatures
<1>2. CASE FileStays(f)
  BY <1>1, <1>2 DEF FileStays, Current, Signature, MarkerPast
<1>3. CASE writes'[f] > writes[f]
  BY <1>1, <1>3 DEF Current, Signature, MarkerPast
<1> QED
  BY <1>2, <1>3

\* A step of a process outside archive_block: it holds the lock or gets it, and
\* changes no file, marker or object.
Quiet(p) ==
    /\ UNCHANGED <<blocks, writes, newest, storageVars, marker>>
    /\ pc[p] # "idle" \/ lock = None
    /\ \A q \in Procs \ {p} : pc'[q] = pc[q]
    /\ pc'[p] \notin AfterBefore \union {"before"}
    /\ pc'[p] # "idle" => lock' = p

\* Meanwhile all others are between their passes.
LEMMA QuietOthers ==
    ASSUME EvidenceInv, NEW p \in Procs, Quiet(p)
    PROVE  \A q \in Procs \ {p} : pc'[q] = "idle"
BY None \notin Procs DEF EvidenceInv, MutualExclusion, Quiet

\* Such steps keep the invariant.
LEMMA QuietStep ==
    ASSUME TypeInv, EvidenceInv, NEW p \in Procs, Quiet(p)
    PROVE  EvidenceInv'
<1> USE DEF Quiet
<1>1. \A q \in Procs \ {p} : pc'[q] = "idle"
  BY QuietOthers
<1>2. MutualExclusion'
  BY <1>1 DEF MutualExclusion
<1>3. ASSUME NEW f \in Files PROVE MarkerPast(f)' /\ Evidence(f)'
  BY DEF EvidenceInv, MarkerPast, Evidence, Current, Signature, Bytes, storageVars
<1>4. ASSUME NEW q \in Procs PROVE Archiving(q)'
  <2>1. pc'[q] \notin AfterBefore \union {"before"}
    BY <1>1 DEF AfterBefore, ArchivePcs
  <2> QED
    BY <2>1 DEF Archiving
<1> QED
  BY <1>2, <1>3, <1>4 DEF EvidenceInv

\* While a process is in a pass, all others are between theirs.
LEMMA OthersIdle ==
    ASSUME EvidenceInv, NEW p \in Procs, pc[p] # "idle"
    PROVE  \A q \in Procs \ {p} : pc[q] = "idle"
BY DEF EvidenceInv, MutualExclusion

\* A step of archive_block keeps the invariant if it keeps what it says of the
\* files and of the process itself.
LEMMA BusyStep ==
    ASSUME TypeInv, EvidenceInv, NEW p \in Procs, pc[p] # "idle",
           \A q \in Procs \ {p} : pc'[q] = pc[q], UNCHANGED lock,
           \A f \in Files : MarkerPast(f)' /\ Evidence(f)',
           Archiving(p)'
    PROVE  EvidenceInv'
<1>1. \A q \in Procs \ {p} : pc'[q] = "idle"
  BY OthersIdle
<1>2. MutualExclusion'
  BY <1>1 DEF EvidenceInv, MutualExclusion
<1>3. ASSUME NEW q \in Procs \ {p} PROVE Archiving(q)'
  BY <1>1, <1>3 DEF Archiving, AfterBefore, ArchivePcs
<1> QED
  BY <1>2, <1>3 DEF EvidenceInv

\* With the files, markers and objects as they were, so is the evidence.
LEMMA SameEvidence ==
    ASSUME EvidenceInv, UNCHANGED <<blocks, writes, newest, storageVars, marker>>
    PROVE  \A f \in Files : MarkerPast(f)' /\ Evidence(f)'
BY DEF EvidenceInv, MarkerPast, Evidence, Current, Signature, Bytes, storageVars

\* Every step of archive_block keeps the invariant.
LEMMA ArchiveBlockEvidence ==
    ASSUME TypeInv, TypeInv', EvidenceInv, NEW p \in Procs,
           ArchiveBlockStep(p), UNCHANGED <<pruneVars, passVars>>
    PROVE  EvidenceInv'
<1> DEFINE f == cur[p]
<1>0. Archiving(p) /\ pc \in [Procs -> Labels]
  BY DEF EvidenceInv, TypeInv, TypeOK
<1> USE DEF passVars
<1>1. CASE Examine(p)
  <2>1. Archiving(p)'
    <3>1. pc'[p] = "before" => ~Current(cur[p])
      BY <1>0, <1>1 DEF Examine, AlreadyArchived, MarkerMatches, Current
    <3> QED
      BY <1>0, <1>1, <3>1 DEF Examine, Archiving, Current, Signature, AfterBefore, ArchivePcs,
                        coreVars, locals
  <2> QED
    BY <1>0, <1>1, <2>1, SameEvidence, BusyStep DEF Examine, coreVars
<1>2. CASE TakeSignature(p)
  <2>1. /\ f \in Files /\ pc'[p] = "hash" /\ before'[p] = Signature(f)
        /\ UNCHANGED <<coreVars, storageVars, marker, cur>>
        /\ \A q \in Procs \ {p} : pc'[q] = pc[q]
    BY <1>0, <1>2 DEF TakeSignature, Reads, TypeInv, TypeOK, ArchiveTypeOK, LabelsOK, ArchivePcs
  <2>2. ~Current(f) /\ pc[p] = "before"
    BY <1>0, <1>2 DEF TakeSignature, Reads, Archiving
  <2>3. before'[p].mtime = writes[f] /\ writes[f] \in Nat
    BY <2>1 DEF Signature, TypeInv, TypeOK, CoreTypeOK
  <2>4. Archiving(p)'
    BY <2>1, <2>2, <2>3 DEF Archiving, SoFarConsistent, Current, Signature, coreVars,
                      AfterBefore, AfterHash, AfterRanges, AfterUpload, AfterSidecar, ArchivePcs
  <2> QED
    BY <2>1, <2>2, <2>4, SameEvidence, BusyStep DEF coreVars
<1>3. CASE ReadChecksum(p)
  <2>1. /\ pc[p] = "hash" /\ pc'[p] = "hash_ok" /\ sha'[p] = Bytes(f)
        /\ UNCHANGED <<coreVars, storageVars, marker, cur, before>>
        /\ \A q \in Procs \ {p} : pc'[q] = pc[q]
    BY <1>0, <1>3 DEF ReadChecksum, Reads, TypeInv, TypeOK, ArchiveTypeOK
  <2>2. Archiving(p)'
    BY <1>0, <2>1 DEF Archiving, SoFarConsistent, Current, Signature, Bytes, coreVars,
                      AfterBefore, AfterHash, AfterRanges, AfterUpload, AfterSidecar, ArchivePcs
  <2> QED
    BY <1>3, <2>1, <2>2, SameEvidence, BusyStep DEF coreVars
<1>4. CASE ReadRanges(p)
  <2>1. /\ pc[p] = "ranges" /\ pc'[p] = "ranges_ok" /\ ranges'[p] = blocks[f]
        /\ UNCHANGED <<coreVars, storageVars, marker, cur, before, sha>>
        /\ \A q \in Procs \ {p} : pc'[q] = pc[q]
    BY <1>0, <1>4 DEF ReadRanges, Reads, TypeInv, TypeOK, ArchiveTypeOK
  <2>2. Archiving(p)'
    BY <1>0, <2>1 DEF Archiving, SoFarConsistent, Current, Signature, Bytes, coreVars,
                      AfterBefore, AfterHash, AfterRanges, AfterUpload, AfterSidecar, ArchivePcs
  <2> QED
    BY <1>4, <2>1, <2>2, SameEvidence, BusyStep DEF coreVars
<1>5. CASE UploadBlock(p)
  <2>1. /\ pc[p] = "upload" /\ pc'[p] = "upload_ok" /\ f \in Files
        /\ object' = [object EXCEPT ![f] = Bytes(f)] /\ lost' = lost \ {<<f, "object">>}
        /\ UNCHANGED <<coreVars, sidecar, marker, cur, before, sha, ranges>>
        /\ \A q \in Procs \ {p} : pc'[q] = pc[q]
    BY <1>0, <1>5 DEF UploadBlock, UploadObject, Reads, TypeInv, TypeOK, LabelsOK, ArchivePcs, locals
  <2>2. ~Current(f)
    BY <1>0, <2>1 DEF Archiving, AfterBefore, ArchivePcs
  <2>3. ASSUME NEW g \in Files PROVE MarkerPast(g)' /\ Evidence(g)'
    BY <2>1, <2>2 DEF EvidenceInv, MarkerPast, Evidence, Current, Signature, Bytes, coreVars,
                      TypeInv, TypeOK, StorageTypeOK
  <2>4. Archiving(p)'
    BY <1>0, <2>1 DEF Archiving, SoFarConsistent, Current, Signature, Bytes, coreVars,
                      AfterBefore, AfterHash, AfterRanges, AfterUpload, AfterSidecar, ArchivePcs,
                      TypeInv, TypeOK, StorageTypeOK
  <2> QED
    BY <2>1, <2>3, <2>4, BusyStep
<1>6. CASE EnsureUnchanged(p)
  <2>1. /\ pc[p] \in CheckPcs /\ pc'[p] = AfterCheck(pc[p])
        /\ UNCHANGED <<coreVars, storageVars, marker, cur, before, sha, ranges>>
        /\ \A q \in Procs \ {p} : pc'[q] = pc[q]
    BY <1>0, <1>6 DEF EnsureUnchanged, locals
  <2>2. Archiving(p)'
    BY <1>0, <2>1 DEF Archiving, SoFarConsistent, Current, Signature, Bytes, SideOf, coreVars,
                      storageVars, CheckPcs, AfterCheck,
                      AfterBefore, AfterHash, AfterRanges, AfterUpload, AfterSidecar, ArchivePcs
  <2>3. pc[p] # "idle"
    BY <2>1 DEF CheckPcs
  <2> QED
    BY <2>1, <2>2, <2>3, SameEvidence, BusyStep DEF coreVars
<1>7. CASE UploadMetadataSidecar(p)
  <2>1. /\ pc[p] = "sidecar" /\ pc'[p] = "sidecar_ok" /\ f \in Files
        /\ sidecar' = [sidecar EXCEPT ![f] = SideOf(p)] /\ lost' = lost \ {<<f, "sidecar">>}
        /\ UNCHANGED <<coreVars, object, marker, cur, before, sha, ranges>>
        /\ \A q \in Procs \ {p} : pc'[q] = pc[q]
    BY <1>0, <1>7 DEF UploadMetadataSidecar, UploadSidecar, TypeInv, TypeOK, LabelsOK, ArchivePcs, locals
  <2>2. ~Current(f)
    BY <1>0, <2>1 DEF Archiving, AfterBefore, ArchivePcs
  <2>3. ASSUME NEW g \in Files PROVE MarkerPast(g)' /\ Evidence(g)'
    BY <2>1, <2>2 DEF EvidenceInv, MarkerPast, Evidence, Current, Signature, Bytes, coreVars,
                      TypeInv, TypeOK, StorageTypeOK
  <2>4. Archiving(p)'
    BY <1>0, <2>1 DEF Archiving, SoFarConsistent, Current, Signature, Bytes, SideOf, coreVars,
                      AfterBefore, AfterHash, AfterRanges, AfterUpload, AfterSidecar, ArchivePcs,
                      TypeInv, TypeOK, StorageTypeOK
  <2> QED
    BY <2>1, <2>3, <2>4, BusyStep
<1>8. CASE VerifyRemote(p)
  <2>1. /\ pc[p] = "verify" /\ pc'[p] = "verify_ok"
        /\ UNCHANGED <<coreVars, storageVars, marker, cur, before, sha, ranges>>
        /\ \A q \in Procs \ {p} : pc'[q] = pc[q]
    BY <1>0, <1>8 DEF VerifyRemote, locals
  <2>2. Archiving(p)'
    BY <1>0, <2>1 DEF Archiving, SoFarConsistent, Current, Signature, Bytes, SideOf, coreVars, storageVars,
                      AfterBefore, AfterHash, AfterRanges, AfterUpload, AfterSidecar, ArchivePcs
  <2> QED
    BY <2>1, <2>2, SameEvidence, BusyStep DEF coreVars
<1>9. CASE Mark(p)
  <2>1. /\ pc[p] = "mark" /\ pc'[p] = "next" /\ f \in Files
        /\ marker' = [marker EXCEPT ![f] = [side |-> SideOf(p), signature |-> before[p]]]
        /\ UNCHANGED <<coreVars, storageVars, cur, before, sha, ranges>>
        /\ \A q \in Procs \ {p} : pc'[q] = pc[q]
    BY <1>0, <1>9 DEF Mark, WriteMarker, TypeInv, TypeOK, LabelsOK, ArchivePcs, locals
  <2>2. /\ before[p].mtime <= writes[f]
        /\ Signature(f) = before[p] =>
              /\ sha[p] = Bytes(f) /\ ranges[p] = blocks[f]
              /\ object[f] = Bytes(f) \/ <<f, "object">> \in lost
              /\ sidecar[f] = SideOf(p) \/ <<f, "sidecar">> \in lost
    BY <1>0, <2>1 DEF Archiving, SoFarConsistent,
                      AfterBefore, AfterHash, AfterRanges, AfterUpload, AfterSidecar, ArchivePcs
  <2>3. /\ marker'[f].side = SideOf(p) /\ marker'[f].signature = before[p]
        /\ SideOf(p).sha = sha[p] /\ SideOf(p).heights = ranges[p]
    BY <2>1 DEF TypeInv, TypeOK, MarkersTypeOK, SideOf
  <2>4. MarkerPast(f)' /\ Evidence(f)'
    BY <2>1, <2>2, <2>3 DEF MarkerPast, Evidence, Current, Signature, Bytes, coreVars, storageVars
  <2>5. ASSUME NEW g \in Files \ {f} PROVE MarkerPast(g)' /\ Evidence(g)'
    <3>1. marker'[g] = marker[g]
      BY <2>1 DEF TypeInv, TypeOK, MarkersTypeOK
    <3> QED
      BY <2>1, <3>1 DEF EvidenceInv, MarkerPast, Evidence, Current, Signature, Bytes, coreVars, storageVars
  <2>6. Archiving(p)'
    BY <2>1 DEF Archiving, AfterBefore, ArchivePcs
  <2> QED
    BY <2>1, <2>4, <2>5, <2>6, BusyStep
<1> QED
  BY <1>1, <1>2, <1>3, <1>4, <1>5, <1>6, <1>7, <1>8, <1>9 DEF ArchiveBlockStep

\* Every step of a process is one of archive_block or quiet.
LEMMA ProcessQuiet ==
    ASSUME TypeInv, EvidenceInv, NEW p \in Procs, Start(p) \/ Step(p) \/ Interrupted(p),
           ~(ArchiveBlockStep(p) /\ UNCHANGED <<pruneVars, passVars>>)
    PROVE  Quiet(p)
<1> USE DEF Quiet, coreVars, storageVars
<1>0. pc \in [Procs -> Labels]
  BY DEF TypeInv, TypeOK
<1>1. CASE Start(p)
  BY <1>0, <1>1 DEF Start, LockFree, Goes, AfterBefore, ArchivePcs
<1>2. CASE PruneBlocksStep(p) /\ UNCHANGED passVars
  <2>1. /\ pc[p] \in PrunePcs /\ pc'[p] \in PrunePcs
        /\ \A q \in Procs \ {p} : pc'[q] = pc[q]
        /\ UNCHANGED pruneFrame
    BY <1>0, <1>2 DEF PruneBlocksStep, ListForVerify, VerifyNext, ListForScan, ScanNext, ScanDone,
                  BoundNext, BoundDone, ReadTip, ListProtected, ProtectNext, ProtectDone,
                  ReadCeiling, CallPrune, Goes, PrunePcs
  <2>2. pc[p] # "idle" /\ pc'[p] \notin AfterBefore \union {"before"} /\ lock = p
    BY <2>1 DEF AfterBefore, ArchivePcs, PrunePcs, EvidenceInv, MutualExclusion
  <2> QED
    BY <1>2, <2>1, <2>2 DEF pruneFrame, passVars
<1>3. CASE ListBlocks(p)
  BY <1>0, <1>3 DEF ListBlocks, EvidenceInv, MutualExclusion, Goes, AfterBefore, ArchivePcs
<1>4. CASE NextFile(p)
  BY <1>0, <1>4 DEF NextFile, EvidenceInv, MutualExclusion, Goes, AfterBefore, ArchivePcs
<1>5. ASSUME pc[p] # "idle", NextBatch(p),
             UNCHANGED <<blocks, writes, newest, storageVars, marker>>
      PROVE  Quiet(p)
  BY <1>0, <1>5 DEF NextBatch, EndPass, EvidenceInv, MutualExclusion, Goes, AfterBefore, ArchivePcs
<1>6. CASE EndBatch(p) /\ PruneAfter
  BY <1>0, <1>6 DEF EndBatch, BatchDone, EvidenceInv, MutualExclusion, Goes, AfterBefore, ArchivePcs
<1>7. CASE EndBatch(p) /\ ~PruneAfter
  BY <1>5, <1>7 DEF EndBatch, BatchDone
<1>8. CASE SkipPrune(p)
  BY <1>5, <1>8 DEF SkipPrune, PruneReturns, CannotBound
<1>9. CASE CorePrunes(p)
  BY <1>5, <1>9 DEF CorePrunes, PruneTo
<1>10. CASE Refuse(p)
  BY <1>0, <1>10 DEF Refuse, ArchiveRefuses, PruneRefuses, CannotBound, CheckPcs, EndPass,
                   AfterBefore, ArchivePcs
<1>11. CASE Interrupted(p)
  BY <1>0, <1>11 DEF Interrupted, EndPass, AfterBefore, ArchivePcs
<1> QED
  BY <1>1, <1>2, <1>3, <1>4, <1>6, <1>7, <1>8, <1>9, <1>10, <1>11 DEF Step

\* Every step of a process keeps the invariant.
LEMMA ProcessEvidence ==
    ASSUME TypeInv, TypeInv', EvidenceInv,
           NEW p \in Procs, Start(p) \/ Step(p) \/ Interrupted(p)
    PROVE  EvidenceInv'
<1>1. CASE ArchiveBlockStep(p) /\ UNCHANGED <<pruneVars, passVars>>
  BY <1>1, ArchiveBlockEvidence
<1>2. CASE ~(ArchiveBlockStep(p) /\ UNCHANGED <<pruneVars, passVars>>)
  BY <1>2, ProcessQuiet, QuietStep
<1> QED
  BY <1>1, <1>2

\* The invariant is about the files' contents, the markers, the store and the
\* processes that archive; it says nothing of the directory and of prunes.
LEMMA SameInvariant ==
    ASSUME EvidenceInv,
           UNCHANGED <<blocks, writes, newest, storageVars, marker, pc, cur, before, sha, ranges, lock>>
    PROVE  EvidenceInv'
<1>1. MutualExclusion'
  BY DEF EvidenceInv, MutualExclusion
<1>2. ASSUME NEW p \in Procs PROVE Archiving(p)'
  BY DEF EvidenceInv, Archiving, SoFarConsistent, Current, Signature, Bytes, SideOf, storageVars
<1> QED
  BY <1>1, <1>2, SameEvidence DEF EvidenceInv

\* What runs beside the processes keeps the invariant: Core's writes void the
\* markers they outdate, and what the store loses is known to be lost.
LEMMA EnvironmentEvidence ==
    ASSUME TypeInv, TypeInv', EvidenceInv, Environment
    PROVE  EvidenceInv'
<1>1. CASE CoreWrites
  <2>1. /\ UNCHANGED <<storageVars, marker, pc, cur, before, sha, ranges, lock>>
        /\ writes' \in [Files -> Nat]
    BY <1>1 DEF CoreWrites, jobVars, locals, passVars, TypeInv, TypeOK, CoreTypeOK
  <2>2. MutualExclusion'
    BY <2>1 DEF EvidenceInv, MutualExclusion
  <2>3. ASSUME NEW f \in Files PROVE MarkerPast(f)' /\ Evidence(f)'
    <3>1. MarkerPast(f)' /\ (Current(f)' => Current(f) /\ FileStays(f))
      BY <1>1, <2>1, CoreWritesShow, WriteVoids DEF EvidenceInv
    <3> QED
      BY <2>1, <3>1 DEF EvidenceInv, Evidence, FileStays, Bytes, storageVars
  <2>4. ASSUME NEW p \in Procs PROVE Archiving(p)'
    <3>1. CASE pc[p] \notin AfterBefore \union {"before"}
      BY <2>1, <3>1 DEF Archiving
    <3>2. CASE pc[p] \in AfterBefore \union {"before"}
      <4>1. PICK f \in Files : f = cur[p]
        BY <3>2 DEF TypeInv, LabelsOK, AfterBefore, ArchivePcs
      <4>2. FileStays(f) \/ writes'[f] > writes[f]
        BY <1>1, CoreWritesShow
      <4>3. ~Current(f)'
        <5>1. MarkerPast(f) /\ ~Current(f)
          BY <3>2, <4>1 DEF EvidenceInv, Archiving
        <5> QED
          BY <2>1, <4>2, <5>1, WriteVoids
      <4>4. writes[f] \in Nat /\ writes'[f] \in Nat
        BY <2>1 DEF TypeInv, TypeOK, CoreTypeOK
      <4>5. pc[p] \in AfterBefore => before[p].mtime \in Nat /\ before[p].mtime <= writes[f]
        BY <4>1 DEF TypeInv, LabelsOK, Signatures, EvidenceInv, Archiving
      <4>6. pc[p] \in AfterBefore => before[p].mtime <= writes'[f]
        BY <4>2, <4>4, <4>5 DEF FileStays
      <4>7. ASSUME pc[p] \in AfterBefore, Signature(f)' = before[p]
            PROVE  SoFarConsistent(p)'
        <5>1. FileStays(f) /\ Signature(f) = before[p]
          BY <2>1, <4>2, <4>4, <4>5, <4>7 DEF FileStays, Signature
        <5> QED
          BY <2>1, <4>1, <4>7, <5>1 DEF EvidenceInv, Archiving, SoFarConsistent, FileStays, Bytes, SideOf,
                           storageVars
      <4> QED
        BY <2>1, <4>1, <4>3, <4>6, <4>7 DEF Archiving
    <3> QED
      BY <3>1, <3>2
  <2> QED
    BY <2>2, <2>3, <2>4 DEF EvidenceInv
<1>2. CASE StoreLoses
  <2>1. UNCHANGED <<coreVars, marker, pc, cur, before, sha, ranges, lock>>
    BY <1>2 DEF StoreLoses, jobVars, locals, passVars
  <2>2. PICK g \in Files : LoseObject(g) \/ LoseSidecar(g)
    BY <1>2 DEF StoreLoses
  <2>3. ASSUME NEW f \in Files
        PROVE  /\ object'[f] = object[f] \/ <<f, "object">> \in lost'
               /\ sidecar'[f] = sidecar[f] \/ <<f, "sidecar">> \in lost'
               /\ lost \subseteq lost'
    BY <2>2 DEF LoseObject, LoseSidecar, TypeInv, TypeOK, StorageTypeOK
  <2>4. MutualExclusion'
    BY <2>1 DEF EvidenceInv, MutualExclusion
  <2>5. ASSUME NEW f \in Files PROVE MarkerPast(f)' /\ Evidence(f)'
    BY <2>1, <2>3 DEF EvidenceInv, MarkerPast, Evidence, Current, Signature, Bytes, coreVars
  <2>6. ASSUME NEW p \in Procs PROVE Archiving(p)'
    <3>1. pc[p] \in AfterBefore => cur[p] \in Files
      BY DEF TypeInv, LabelsOK, AfterBefore
    <3> QED
      BY <2>1, <2>3, <3>1 DEF EvidenceInv, Archiving, SoFarConsistent, Current, Signature, Bytes, SideOf,
                       coreVars, AfterHash, AfterRanges, AfterUpload, AfterSidecar
  <2> QED
    BY <2>4, <2>5, <2>6 DEF EvidenceInv
<1>3. CASE ScannerAdvances \/ \E r \in late : LatePrune(r)
  BY <1>3, SameInvariant DEF ScannerAdvances, LatePrune, PruneTo, coreVars, jobVars, locals, passVars
<1> QED
  BY <1>1, <1>2, <1>3 DEF Environment

\* The invariant holds initially, no process being in a pass and no marker
\* being there.
LEMMA EvidenceInit == Init => EvidenceInv
BY DEF Init, MarkersInit, EvidenceInv, MutualExclusion, MarkerPast, Evidence, Current, Archiving,
       AfterBefore, ArchivePcs

\* Every step keeps the invariant.
LEMMA EvidenceStep == TypeInv /\ TypeInv' /\ EvidenceInv /\ [Next]_vars => EvidenceInv'
<1> SUFFICES ASSUME TypeInv, TypeInv', EvidenceInv, [Next]_vars PROVE EvidenceInv'
  OBVIOUS
<1>1. CASE \E p \in Procs : Start(p) \/ Step(p) \/ Interrupted(p)
  BY <1>1, ProcessEvidence
<1>2. CASE Environment
  BY <1>2, EnvironmentEvidence
<1>3. CASE UNCHANGED vars
  BY <1>3, SameInvariant DEF vars, coreVars, jobVars, locals, passVars
<1> QED
  BY <1>1, <1>2, <1>3 DEF Next

\* A marker that matches its local file is evidence that the store was given
\* exactly this file and a sidecar that describes it, for any number of
\* processes, interruptions, losses and interleavings with Core (archive_block
\* writes the marker last, with the signature it took first).
THEOREM MarkersAreEvidence == Spec => []MarkerIsEvidence
<1>1. Spec => [](TypeInv /\ EvidenceInv)
  BY TypeInit, TypeStep, EvidenceInit, EvidenceStep, PTL DEF Spec
<1>2. TypeInv /\ EvidenceInv => MarkerIsEvidence
  BY DEF TypeInv, TypeOK, CoreTypeOK, EvidenceInv, Evidence, MarkerIsEvidence
<1> QED
  BY <1>1, <1>2, PTL

-----------------------------------------------------------------------------
(* What a marker describes is one version of the file, and the latest.     *)

\* Quiet steps keep what is known of the versions.
LEMMA QuietVersion ==
    ASSUME EvidenceInv, VersionInv, NEW p \in Procs, Quiet(p)
    PROVE  VersionInv'
<1>1. ASSUME NEW q \in Procs PROVE pc'[q] \notin AfterBefore
  BY QuietOthers DEF Quiet, AfterBefore, ArchivePcs
<1>2. ASSUME NEW q \in Procs PROVE OneVersion(q)' /\ TakenLater(q)'
  BY <1>1 DEF OneVersion, TakenLater, AfterHash, AfterRanges, AfterUpload, AfterSidecar
<1>3. ASSUME NEW f \in Files PROVE MarkerDated(f)'
  BY DEF VersionInv, MarkerDated, Quiet, Signature
<1> QED
  BY <1>2, <1>3 DEF VersionInv

\* A step of archive_block keeps it if it keeps what is known of the process
\* and the markers.
LEMMA BusyVersion ==
    ASSUME EvidenceInv, NEW p \in Procs, pc[p] # "idle",
           \A q \in Procs \ {p} : pc'[q] = pc[q],
           \A f \in Files : MarkerDated(f)',
           OneVersion(p)', TakenLater(p)'
    PROVE  VersionInv'
<1>1. \A q \in Procs \ {p} : pc'[q] = "idle"
  BY OthersIdle
<1>2. ASSUME NEW q \in Procs \ {p} PROVE OneVersion(q)' /\ TakenLater(q)'
  BY <1>1, <1>2 DEF OneVersion, TakenLater, AfterBefore, AfterHash, AfterRanges, AfterUpload,
                    AfterSidecar, ArchivePcs
<1> QED
  BY <1>2 DEF VersionInv

\* With the files and the markers as they were, so are their dates.
LEMMA SameDates ==
    ASSUME VersionInv, UNCHANGED <<writes, newest, marker>>
    PROVE  \A f \in Files : MarkerDated(f)'
BY DEF VersionInv, MarkerDated, Signature

\* Every step of archive_block: the check behind an operation makes sure that
\* what was done is of the version whose signature was taken.
LEMMA ArchiveBlockVersion ==
    ASSUME TypeInv, EvidenceInv, VersionInv, NEW p \in Procs,
           ArchiveBlockStep(p), UNCHANGED <<pruneVars, passVars>>
    PROVE  VersionInv'
<1> DEFINE f == cur[p]
<1>0. OneVersion(p) /\ TakenLater(p) /\ Archiving(p) /\ pc \in [Procs -> Labels]
  BY DEF VersionInv, EvidenceInv, TypeInv, TypeOK
<1> USE DEF OneVersion, TakenLater, AfterBefore, AfterHash, AfterRanges, AfterUpload, AfterSidecar,
            ArchivePcs
<1>1. CASE Examine(p)
  <2>1. pc[p] = "examine" /\ pc'[p] \in {"next", "before"} /\ \A q \in Procs \ {p} : pc'[q] = pc[q]
    BY <1>0, <1>1 DEF Examine
  <2> QED
    BY <1>1, <2>1, SameDates, BusyVersion DEF Examine, coreVars
<1>2. CASE TakeSignature(p)
  <2>1. /\ pc[p] = "before" /\ pc'[p] = "hash" /\ before'[p] = Signature(f) /\ f \in Files
        /\ UNCHANGED <<coreVars, storageVars, marker, cur>>
        /\ \A q \in Procs \ {p} : pc'[q] = pc[q]
    BY <1>0, <1>2 DEF TakeSignature, Reads, TypeInv, TypeOK, ArchiveTypeOK, LabelsOK
  <2>2. ~Current(f) /\ MarkerPast(f) /\ MarkerDated(f) /\ writes[f] \in Nat
    BY <1>0, <2>1 DEF Archiving, EvidenceInv, VersionInv, TypeInv, TypeOK, CoreTypeOK
  <2>3. marker[f] # None => marker[f].signature.mtime \in Nat /\ marker[f].signature.mtime < writes[f]
    BY <2>1, <2>2 DEF Current, MarkerPast, MarkerDated, TypeInv, TypeOK, MarkersTypeOK, MarkerRecords,
                      Signatures
  <2>4. TakenLater(p)'
    BY <2>1, <2>3 DEF Signature, coreVars
  <2> QED
    BY <2>1, <2>4, SameDates, BusyVersion DEF coreVars
<1>3. CASE ReadChecksum(p)
  <2>1. /\ pc[p] = "hash" /\ pc'[p] = "hash_ok"
        /\ UNCHANGED <<coreVars, storageVars, marker, cur, before>>
        /\ \A q \in Procs \ {p} : pc'[q] = pc[q]
    BY <1>0, <1>3 DEF ReadChecksum, Reads
  <2> QED
    BY <1>0, <2>1, SameDates, BusyVersion DEF Signature, coreVars
<1>4. CASE ReadRanges(p)
  <2>1. /\ pc[p] = "ranges" /\ pc'[p] = "ranges_ok"
        /\ UNCHANGED <<coreVars, storageVars, marker, cur, before>>
        /\ \A q \in Procs \ {p} : pc'[q] = pc[q]
    BY <1>0, <1>4 DEF ReadRanges, Reads
  <2> QED
    BY <1>0, <2>1, SameDates, BusyVersion DEF Signature, coreVars
<1>5. CASE UploadBlock(p)
  <2>1. /\ pc[p] = "upload" /\ pc'[p] = "upload_ok"
        /\ UNCHANGED <<coreVars, marker, cur, before, sha, ranges>>
        /\ \A q \in Procs \ {p} : pc'[q] = pc[q]
    BY <1>0, <1>5 DEF UploadBlock, Reads, locals
  <2> QED
    BY <1>0, <2>1, SameDates, BusyVersion DEF Signature, coreVars
<1>6. CASE EnsureUnchanged(p)
  <2>1. /\ pc[p] \in CheckPcs /\ pc'[p] = AfterCheck(pc[p]) /\ Unchanged(p)
        /\ UNCHANGED <<coreVars, storageVars, marker, cur, before, sha, ranges>>
        /\ \A q \in Procs \ {p} : pc'[q] = pc[q]
    BY <1>0, <1>6 DEF EnsureUnchanged, locals
  <2>2. pc[p] \in AfterBefore /\ SoFarConsistent(p)
    BY <1>0, <2>1 DEF CheckPcs, Unchanged, Archiving
  <2>3. OneVersion(p)'
    BY <1>0, <2>1, <2>2 DEF CheckPcs, AfterCheck, SoFarConsistent, Bytes, SideOf, storageVars
  <2>4. TakenLater(p)'
    BY <1>0, <2>1, <2>2 DEF Signature, coreVars
  <2> QED
    BY <2>1, <2>3, <2>4, SameDates, BusyVersion DEF CheckPcs, coreVars
<1>7. CASE UploadMetadataSidecar(p)
  <2>1. /\ pc[p] = "sidecar" /\ pc'[p] = "sidecar_ok" /\ f \in Files
        /\ sidecar' = [sidecar EXCEPT ![f] = SideOf(p)] /\ lost' = lost \ {<<f, "sidecar">>}
        /\ UNCHANGED <<coreVars, object, marker, cur, before, sha, ranges>>
        /\ \A q \in Procs \ {p} : pc'[q] = pc[q]
    BY <1>0, <1>7 DEF UploadMetadataSidecar, UploadSidecar, TypeInv, LabelsOK, locals
  <2>2. OneVersion(p)'
    BY <1>0, <2>1 DEF SideOf, TypeInv, TypeOK, StorageTypeOK
  <2>3. TakenLater(p)'
    BY <1>0, <2>1 DEF Signature, coreVars
  <2> QED
    BY <2>1, <2>2, <2>3, SameDates, BusyVersion DEF coreVars
<1>8. CASE VerifyRemote(p)
  <2>1. /\ pc[p] = "verify" /\ pc'[p] = "verify_ok"
        /\ UNCHANGED <<coreVars, storageVars, marker, cur, before, sha, ranges>>
        /\ \A q \in Procs \ {p} : pc'[q] = pc[q]
    BY <1>0, <1>8 DEF VerifyRemote, locals
  <2> QED
    BY <1>0, <2>1, SameDates, BusyVersion DEF Signature, SideOf, storageVars, coreVars
<1>9. CASE Mark(p)
  <2>1. /\ pc[p] = "mark" /\ pc'[p] = "next" /\ f \in Files
        /\ marker' = [marker EXCEPT ![f] = [side |-> SideOf(p), signature |-> before[p]]]
        /\ UNCHANGED coreVars
        /\ \A q \in Procs \ {p} : pc'[q] = pc[q]
    BY <1>0, <1>9 DEF Mark, WriteMarker, TypeInv, LabelsOK
  <2>2. ASSUME NEW g \in Files PROVE MarkerDated(g)'
    <3>1. CASE g = f
      BY <1>0, <2>1, <3>1 DEF MarkerDated, Signature, SideOf, coreVars, TypeInv, TypeOK, MarkersTypeOK
    <3>2. CASE g # f
      BY <2>1, <3>2 DEF VersionInv, MarkerDated, Signature, coreVars, TypeInv, TypeOK, MarkersTypeOK
    <3> QED
      BY <3>1, <3>2
  <2> QED
    BY <2>1, <2>2, BusyVersion
<1> QED
  BY <1>1, <1>2, <1>3, <1>4, <1>5, <1>6, <1>7, <1>8, <1>9 DEF ArchiveBlockStep

\* The versions are known from the files, markers, store and processes alone.
LEMMA SameVersion ==
    ASSUME VersionInv,
           UNCHANGED <<writes, newest, storageVars, marker, pc, cur, before, sha, ranges>>
    PROVE  VersionInv'
BY DEF VersionInv, MarkerDated, OneVersion, TakenLater, Signature, SideOf, storageVars

\* What runs beside the processes: a write makes every signature outdated, a
\* loss is known to the store.
LEMMA EnvironmentVersion ==
    ASSUME TypeInv, TypeInv', EvidenceInv, VersionInv, Environment
    PROVE  VersionInv'
<1>1. CASE CoreWrites
  <2>1. UNCHANGED <<storageVars, marker, pc, cur, before, sha, ranges>>
    BY <1>1 DEF CoreWrites, jobVars, locals
  <2>2. ASSUME NEW f \in Files PROVE MarkerDated(f)'
    <3>1. FileStays(f) \/ writes'[f] > writes[f]
      BY <1>1, CoreWritesShow
    <3>2. /\ MarkerPast(f) /\ MarkerDated(f) /\ writes[f] \in Nat /\ writes'[f] \in Nat
          /\ marker[f] # None => marker[f].signature.mtime \in Nat
      BY DEF EvidenceInv, VersionInv, TypeInv, TypeOK, CoreTypeOK, MarkersTypeOK, MarkerRecords, Signatures
    <3> QED
      BY <2>1, <3>1, <3>2 DEF MarkerPast, MarkerDated, FileStays, Signature
  <2>3. ASSUME NEW p \in Procs PROVE OneVersion(p)'
    BY <2>1 DEF VersionInv, OneVersion, SideOf, storageVars
  <2>4. ASSUME NEW p \in Procs PROVE TakenLater(p)'
    <3>1. CASE pc[p] \notin AfterBefore
      BY <2>1, <3>1 DEF TakenLater
    <3>2. CASE pc[p] \in AfterBefore
      <4>1. PICK f \in Files : f = cur[p]
        BY <3>2 DEF TypeInv, LabelsOK, AfterBefore
      <4>2. FileStays(f) \/ writes'[f] > writes[f]
        BY <1>1, CoreWritesShow
      <4>3. /\ before[p].mtime \in Nat /\ before[p].mtime <= writes[f]
            /\ writes[f] \in Nat /\ writes'[f] \in Nat /\ TakenLater(p)
        BY <3>2, <4>1 DEF TypeInv, TypeOK, CoreTypeOK, LabelsOK, Signatures, EvidenceInv, Archiving,
                          VersionInv
      <4> QED
        BY <2>1, <3>2, <4>1, <4>2, <4>3 DEF TakenLater, FileStays, Signature
    <3> QED
      BY <3>1, <3>2
  <2> QED
    BY <2>2, <2>3, <2>4 DEF VersionInv
<1>2. CASE StoreLoses
  <2>1. UNCHANGED <<writes, newest, marker, pc, cur, before, sha, ranges>>
    BY <1>2 DEF StoreLoses, coreVars, jobVars, locals
  <2>2. PICK g \in Files : LoseObject(g) \/ LoseSidecar(g)
    BY <1>2 DEF StoreLoses
  <2>3. ASSUME NEW f \in Files
        PROVE  /\ object'[f] = object[f] \/ <<f, "object">> \in lost'
               /\ sidecar'[f] = sidecar[f] \/ <<f, "sidecar">> \in lost'
               /\ lost \subseteq lost'
    BY <2>2 DEF LoseObject, LoseSidecar, TypeInv, TypeOK, StorageTypeOK
  <2>4. ASSUME NEW p \in Procs PROVE OneVersion(p)'
    <3>1. pc[p] \in AfterBefore => cur[p] \in Files
      BY DEF TypeInv, LabelsOK, AfterBefore
    <3> QED
      BY <2>1, <2>3, <3>1 DEF VersionInv, OneVersion, SideOf, AfterHash, AfterRanges, AfterUpload,
                              AfterSidecar
  <2>5. ASSUME NEW p \in Procs PROVE TakenLater(p)'
    BY <2>1 DEF VersionInv, TakenLater, Signature
  <2> QED
    BY <2>1, <2>4, <2>5, SameDates DEF VersionInv
<1>3. CASE ScannerAdvances \/ \E r \in late : LatePrune(r)
  BY <1>3, SameVersion DEF ScannerAdvances, LatePrune, PruneTo, coreVars, jobVars, locals
<1> QED
  BY <1>1, <1>2, <1>3 DEF Environment

\* Nothing is marked or under way at first.
LEMMA VersionInit == Init => VersionInv
BY DEF Init, MarkersInit, VersionInv, MarkerDated, OneVersion, TakenLater, AfterBefore, AfterHash,
       AfterRanges, AfterUpload, AfterSidecar, ArchivePcs

\* Every step keeps it.
LEMMA VersionStep ==
    TypeInv /\ TypeInv' /\ EvidenceInv /\ VersionInv /\ [Next]_vars => VersionInv'
<1> SUFFICES ASSUME TypeInv, TypeInv', EvidenceInv, VersionInv, [Next]_vars PROVE VersionInv'
  OBVIOUS
<1>1. ASSUME NEW p \in Procs, Start(p) \/ Step(p) \/ Interrupted(p) PROVE VersionInv'
  <2>1. CASE ArchiveBlockStep(p) /\ UNCHANGED <<pruneVars, passVars>>
    BY <2>1, ArchiveBlockVersion
  <2>2. CASE ~(ArchiveBlockStep(p) /\ UNCHANGED <<pruneVars, passVars>>)
    BY <1>1, <2>2, ProcessQuiet, QuietVersion
  <2> QED
    BY <2>1, <2>2
<1>2. CASE Environment
  BY <1>2, EnvironmentVersion
<1>3. CASE UNCHANGED vars
  BY <1>3, SameVersion DEF vars, coreVars, jobVars, locals
<1> QED
  BY <1>1, <1>2, <1>3 DEF Next

\* Only Mark writes a marker, that of the file at hand.
LEMMA Marks ==
    ASSUME TypeInv, EvidenceInv, [Next]_vars, NEW f \in Files, marker'[f] # marker[f]
    PROVE  \E p \in Procs :
             /\ pc[p] = "mark" /\ cur[p] = f
             /\ marker'[f] = [side |-> SideOf(p), signature |-> before[p]]
<1>1. ASSUME NEW p \in Procs, ArchiveBlockStep(p), UNCHANGED <<pruneVars, passVars>> PROVE Mark(p)
  BY <1>1 DEF ArchiveBlockStep, Examine, TakeSignature, ReadChecksum, ReadRanges, EnsureUnchanged,
              UploadBlock, UploadMetadataSidecar, VerifyRemote
<1>2. ASSUME NEW p \in Procs, Start(p) \/ Step(p) \/ Interrupted(p) PROVE Mark(p)
  BY <1>1, <1>2, ProcessQuiet DEF Quiet
<1>3. ~Environment /\ ~UNCHANGED vars
  BY DEF Environment, CoreWrites, StoreLoses, ScannerAdvances, LatePrune, vars
<1>4. PICK p \in Procs : Mark(p)
  BY <1>2, <1>3 DEF Next
<1>5. cur[p] = f
  BY <1>4 DEF Mark, WriteMarker, TypeInv, TypeOK, MarkersTypeOK
<1> QED
  BY <1>4, <1>5 DEF Mark, WriteMarker, TypeInv, TypeOK, MarkersTypeOK

\* When a marker is written, block object, sidecar and marker describe one and
\* the same version of the file, whatever Core wrote between any two of the
\* operations (the checks at archive.py:157-161).
THEOREM MarkersAgreeWithTheStore == Spec => MarksAgree
<1>1. TypeInv /\ EvidenceInv /\ VersionInv /\ [Next]_vars
        => [\A f \in Files : marker'[f] # marker[f] =>
              LET side == marker'[f].side IN
                 /\ object[f] = side.sha \/ <<f, "object">> \in lost
                 /\ sidecar[f] = side \/ <<f, "sidecar">> \in lost
                 /\ side.heights = side.sha.blocks]_vars
  <2> SUFFICES ASSUME TypeInv, EvidenceInv, VersionInv, [Next]_vars,
                      NEW f \in Files, marker'[f] # marker[f]
               PROVE  /\ object[f] = marker'[f].side.sha \/ <<f, "object">> \in lost
                      /\ sidecar[f] = marker'[f].side \/ <<f, "sidecar">> \in lost
                      /\ marker'[f].side.heights = marker'[f].side.sha.blocks
    OBVIOUS
  <2>1. PICK p \in Procs : /\ pc[p] = "mark" /\ cur[p] = f
                           /\ marker'[f] = [side |-> SideOf(p), signature |-> before[p]]
    BY Marks
  <2>2. /\ marker'[f].side = SideOf(p) /\ SideOf(p).sha = sha[p] /\ SideOf(p).heights = ranges[p]
        /\ OneVersion(p)
    BY <2>1 DEF SideOf, VersionInv
  <2> QED
    BY <2>1, <2>2 DEF OneVersion, AfterBefore, AfterHash, AfterRanges, AfterUpload, AfterSidecar, ArchivePcs
<1>2. Spec => [](TypeInv /\ EvidenceInv /\ VersionInv)
  BY TypeInit, TypeStep, EvidenceInit, EvidenceStep, VersionInit, VersionStep, PTL DEF Spec
<1> QED
  BY <1>1, <1>2, PTL DEF Spec, MarksAgree

\* A marker is only ever replaced by one of a later version of its file: what
\* a faster process recorded is never undone by a slower one.
THEOREM MarkersNeverGoBack == Spec => MarkersAdvance
<1>1. TypeInv /\ EvidenceInv /\ VersionInv /\ [Next]_vars
        => [\A f \in Files :
              marker[f] # None /\ marker'[f] # marker[f] =>
                 marker'[f].signature.mtime > marker[f].signature.mtime]_vars
  <2> SUFFICES ASSUME TypeInv, EvidenceInv, VersionInv, [Next]_vars,
                      NEW f \in Files, marker[f] # None, marker'[f] # marker[f]
               PROVE  marker'[f].signature.mtime > marker[f].signature.mtime
    OBVIOUS
  <2>1. PICK p \in Procs : /\ pc[p] = "mark" /\ cur[p] = f
                           /\ marker'[f] = [side |-> SideOf(p), signature |-> before[p]]
    BY Marks
  <2>2. marker[f].signature.mtime < before[p].mtime
    BY <2>1 DEF VersionInv, TakenLater, AfterBefore, ArchivePcs
  <2>3. marker[f].signature.mtime \in Nat /\ before[p].mtime \in Nat
    BY <2>1 DEF TypeInv, TypeOK, LabelsOK, MarkersTypeOK, MarkerRecords, Signatures, AfterBefore, ArchivePcs
  <2> QED
    BY <2>1, <2>2, <2>3
<1>2. Spec => [](TypeInv /\ EvidenceInv /\ VersionInv)
  BY TypeInit, TypeStep, EvidenceInit, EvidenceStep, VersionInit, VersionStep, PTL DEF Spec
<1> QED
  BY <1>1, <1>2, PTL DEF Spec, MarkersAdvance
=============================================================================
