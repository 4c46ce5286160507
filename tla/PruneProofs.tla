------------------------------ MODULE PruneProofs -----------------------------
(***************************************************************************)
(* What a prune may delete, for every number of processes, files and       *)
(* blocks and every configuration: no block is lost, and the limits set by *)
(* the tip, the consumer and the parser hold.  The arguments are those of  *)
(* LossInv and LimitInv in ArchiveInvariants.                              *)
(***************************************************************************)
EXTENDS ArchiveProofs

USE CoreAssumption, StorageAssumption, PassAssumption

-----------------------------------------------------------------------------
(* What one step may do to a file.                                         *)

\* A file either stays preserved, if it is, or gets a block above the tip.
ContentStep(f) ==
    \/ blocks'[f] = blocks[f] /\ (Preserved(f) => Preserved(f)')
    \/ f \in onDisk /\ \E h \in Heights : h > tip /\ blocks'[f] = blocks[f] \union {h}

\* With contents and store as they were, nothing changes.
LEMMA SameContent ==
    ASSUME UNCHANGED <<blocks, object, lost>>, NEW f \in Files
    PROVE  ContentStep(f)
BY DEF ContentStep, Preserved

\* A block arrives above the tip, since the chain is stored.
LEMMA CoreContent ==
    ASSUME TypeInv, FilesOK, CoreWrites, NEW f \in Files
    PROVE  ContentStep(f)
<1> USE DEF TypeInv, TypeOK, CoreTypeOK, storageVars
<1>1. ASSUME NEW h \in Heights, Arrive(h) PROVE ContentStep(f)
  <2>1. h > tip
    BY <1>1 DEF Arrive, FilesOK, Heights
  <2>2. CASE f = newest
    BY <1>1, <2>1, <2>2 DEF Arrive, FilesOK, ContentStep
  <2>3. CASE f # newest
    <3>1. blocks'[f] = blocks[f] /\ UNCHANGED <<object, lost>>
      BY <1>1, <2>3 DEF Arrive, CoreWrites
    <3> QED
      BY <3>1 DEF ContentStep, Preserved
  <2> QED
    BY <2>2, <2>3
<1>2. ASSUME Roll \/ Connect PROVE ContentStep(f)
  BY <1>2, SameContent DEF Roll, Connect, CoreWrites
<1> QED
  BY <1>1, <1>2 DEF CoreWrites

\* An upload makes a copy of the file as it is.
LEMMA UploadContent ==
    ASSUME TypeInv, NEW p \in Procs, UploadBlock(p), NEW f \in Files
    PROVE  ContentStep(f)
<1> USE DEF TypeInv, TypeOK, CoreTypeOK, StorageTypeOK
<1>1. /\ UNCHANGED blocks
      /\ object' = [object EXCEPT ![cur[p]] = Bytes(cur[p])]
      /\ lost' = lost \ {<<cur[p], "object">>}
  BY DEF UploadBlock, Reads, UploadObject, coreVars
<1>2. CASE f = cur[p]
  <2>1. object'[f] = Bytes(f) /\ Bytes(f) \in AllBytes
    BY <1>1, <1>2, FileType
  <2>2. Preserved(f)'
    BY <1>1, <2>1 DEF Preserved, Bytes
  <2> QED
    BY <1>1, <2>2 DEF ContentStep
<1>3. CASE f # cur[p]
  <2>1. object'[f] = object[f] /\ (<<f, "object">> \in lost => <<f, "object">> \in lost')
    BY <1>1, <1>3
  <2> QED
    BY <1>1, <2>1 DEF ContentStep, Preserved
<1> QED
  BY <1>2, <1>3

\* What the store loses is known to be lost.
LEMMA LossContent ==
    ASSUME TypeInv, StoreLoses, NEW f \in Files
    PROVE  ContentStep(f)
<1>1. UNCHANGED blocks
  BY DEF StoreLoses, coreVars
<1>2. PICK g \in Files : LoseObject(g) \/ LoseSidecar(g)
  BY DEF StoreLoses
<1>3. \/ object'[f] = object[f]
      \/ <<f, "object">> \in lost'
  BY <1>2 DEF LoseObject, LoseSidecar, TypeInv, TypeOK, StorageTypeOK
<1>4. lost \subseteq lost'
  BY <1>2 DEF LoseObject, LoseSidecar
<1> QED
  BY <1>1, <1>3, <1>4 DEF ContentStep, Preserved

\* The other steps of archive_block upload no block object.
LEMMA ArchiveContent ==
    ASSUME TypeInv, NEW p \in Procs, ArchiveBlockStep(p), NEW f \in Files
    PROVE  ContentStep(f)
<1>1. CASE UploadBlock(p)
  BY <1>1, UploadContent
<1>2. CASE UploadMetadataSidecar(p)
  <2>1. UNCHANGED <<blocks, object>> /\ lost' = lost \ {<<cur[p], "sidecar">>}
    BY <1>2 DEF UploadMetadataSidecar, UploadSidecar, coreVars
  <2>2. <<f, "object">> # <<cur[p], "sidecar">>
    OBVIOUS
  <2> QED
    BY <2>1, <2>2 DEF ContentStep, Preserved
<1>3. CASE ~UploadBlock(p) /\ ~UploadMetadataSidecar(p)
  <2>1. UNCHANGED <<blocks, object, lost>>
    BY <1>3 DEF ArchiveBlockStep, Examine, TakeSignature, ReadChecksum, ReadRanges, EnsureUnchanged,
                VerifyRemote, Mark, Reads, coreVars, storageVars
  <2> QED
    BY <2>1, SameContent
<1> QED
  BY <1>1, <1>2, <1>3

\* A prune changes no content.
LEMMA PruneFrame ==
    ASSUME NEW p \in Procs, PruneBlocksStep(p)
    PROVE  UNCHANGED pruneFrame
BY DEF PruneBlocksStep, ListForVerify, VerifyNext, ListForScan, ScanNext, ScanDone, BoundNext,
       BoundDone, ReadTip, ListProtected, ProtectNext, ProtectDone, ReadCeiling, CallPrune

\* Every step.
LEMMA EveryContent ==
    ASSUME TypeInv, FilesOK, [Next]_vars, NEW f \in Files
    PROVE  ContentStep(f)
<1> USE DEF coreVars, storageVars
<1>1. ASSUME NEW p \in Procs, Start(p) \/ Step(p) \/ Interrupted(p)
      PROVE  ContentStep(f)
  <2>1. CASE ArchiveBlockStep(p)
    BY <2>1, ArchiveContent
  <2>2. CASE PruneBlocksStep(p)
    BY <2>2, PruneFrame, SameContent DEF pruneFrame
  <2>3. CASE ~ArchiveBlockStep(p) /\ ~PruneBlocksStep(p)
    <3>1. UNCHANGED <<blocks, object, lost>>
      BY <1>1, <2>3 DEF Step, Start, Interrupted, ListBlocks, NextFile, EndBatch, SkipPrune, CorePrunes,
                        PruneTo, Refuse
    <3> QED
      BY <3>1, SameContent
  <2> QED
    BY <2>1, <2>2, <2>3
<1>2. CASE CoreWrites
  BY <1>2, CoreContent
<1>3. CASE StoreLoses
  BY <1>3, LossContent
<1>4. CASE ScannerAdvances \/ \E r \in late : LatePrune(r)
  BY <1>4, SameContent DEF ScannerAdvances, LatePrune, PruneTo
<1>5. CASE UNCHANGED vars
  BY <1>5, SameContent DEF vars
<1> QED
  BY <1>1, <1>2, <1>3, <1>4, <1>5 DEF Next, Environment

\* What is unharmed, or above a bound, stays so: new blocks are above the tip.
LEMMA SparedStays ==
    ASSUME TypeInv, FilesOK, [Next]_vars, NEW f \in Files, NEW b \in Heights, b <= tip
    PROVE  /\ Unharmed(f, b) => Unharmed(f, b)'
           /\ \A h \in Int \union {None} : Spared(f, h, b) => Spared(f, h, b)'
<1> USE DEF TypeInv, TypeOK, CoreTypeOK, Heights
<1>1. ContentStep(f)
  BY EveryContent
<1>2. Unharmed(f, b) => Unharmed(f, b)'
  BY <1>1 DEF ContentStep, Unharmed
<1>3. ASSUME NEW h \in Int \union {None}, Above(f, h) PROVE Above(f, h)'
  BY <1>1, <1>3 DEF ContentStep, Above
<1> QED
  BY <1>2, <1>3 DEF Spared

-----------------------------------------------------------------------------
(* The directory and the tip.                                              *)

\* What a step does to the directory and the tip: Core adds the next file,
\* deletes some, or moves the tip by one.
DirectoryStep ==
    /\ \A f \in onDisk' \ onDisk : f \in Files /\ blocks'[f] = {}
    /\ newest \in onDisk' /\ newest' \in onDisk'
    /\ newest' \in {newest, newest + 1}
    /\ tip' \in {tip, tip + 1}

\* Core's writes keep its files in order.
LEMMA CoreFiles ==
    ASSUME TypeInv, FilesOK, CoreWrites
    PROVE  FilesOK' /\ DirectoryStep
<1> USE DEF TypeInv, TypeOK, CoreTypeOK
<1>0. newest \in Nat /\ MaxFile \in Nat /\ Files \subseteq Nat /\ tip \in Nat
  BY DEF Files, Heights
<1>1. ASSUME NEW h \in Heights, Arrive(h) PROVE FilesOK' /\ DirectoryStep
  <2>1. UNCHANGED <<onDisk, newest, tip>>
    BY <1>1 DEF Arrive
  <2>2. ASSUME NEW f \in Files PROVE blocks[f] \subseteq blocks'[f]
    BY <1>1 DEF Arrive
  <2>3. Stored \subseteq Stored'
    BY <2>2 DEF Stored
  <2>4. ASSUME NEW f \in Files, f > newest PROVE blocks'[f] = {}
    BY <1>0, <1>1, <2>4 DEF Arrive, FilesOK
  <2>5. ASSUME NEW f \in Files
        PROVE  IF first'[f] = None THEN blocks'[f] = {} ELSE first'[f] \in blocks'[f]
    <3>1. CASE f = newest
      <4>1. h # None
        BY DEF Heights
      <4> QED
        BY <1>1, <3>1, <4>1 DEF Arrive, FilesOK
    <3>2. CASE f # newest
      BY <1>1, <3>2 DEF Arrive, FilesOK
    <3> QED
      BY <3>1, <3>2
  <2> QED
    BY <2>1, <2>3, <2>4, <2>5 DEF FilesOK, DirectoryStep
<1>2. ASSUME Roll PROVE FilesOK' /\ DirectoryStep
  <2>1. /\ newest' = newest + 1 /\ onDisk' = onDisk \union {newest + 1}
        /\ UNCHANGED <<blocks, first, tip>> /\ newest + 1 \in Files
    BY <1>0, <1>2 DEF Roll, Files
  <2>2. blocks[newest + 1] = {}
    BY <1>0, <2>1 DEF FilesOK
  <2>3. \A f \in Files : f > newest' => blocks'[f] = {}
    BY <1>0, <2>1 DEF FilesOK
  <2> QED
    BY <2>1, <2>2, <2>3 DEF FilesOK, DirectoryStep, Stored
<1>3. ASSUME Connect PROVE FilesOK' /\ DirectoryStep
  <2>1. /\ tip + 1 \in Stored /\ tip' = tip + 1
        /\ UNCHANGED <<blocks, first, onDisk, newest>>
    BY <1>3 DEF Connect
  <2>2. 0..tip' \subseteq Stored
    BY <1>0, <2>1 DEF FilesOK
  <2> QED
    BY <2>1, <2>2 DEF FilesOK, DirectoryStep, Stored
<1> QED
  BY <1>1, <1>2, <1>3 DEF CoreWrites

\* A prune leaves the newest file.
LEMMA PruneFiles ==
    ASSUME TypeInv, FilesOK, NEW h, PruneTo(h)
    PROVE  FilesOK' /\ DirectoryStep
<1>1. newest \notin Prunable(h)
  BY DEF Prunable, TypeInv, TypeOK, CoreTypeOK, Files
<1> QED
  BY <1>1 DEF PruneTo, FilesOK, Stored, DirectoryStep

\* Every step, and who prunes.
LEMMA EveryDirectory ==
    ASSUME TypeInv, FilesOK, [Next]_vars
    PROVE  FilesOK' /\ DirectoryStep
<1>1. ASSUME UNCHANGED coreVars PROVE FilesOK' /\ DirectoryStep
  BY <1>1 DEF coreVars, FilesOK, Stored, DirectoryStep
<1>2. ASSUME NEW p \in Procs, Start(p) \/ Step(p) \/ Interrupted(p)
      PROVE  FilesOK' /\ DirectoryStep
  <2>1. CASE ArchiveBlockStep(p)
    BY <1>1, <2>1 DEF ArchiveBlockStep, Examine, TakeSignature, ReadChecksum, ReadRanges, EnsureUnchanged,
                UploadBlock, UploadMetadataSidecar, VerifyRemote, Mark, Reads
  <2>2. CASE PruneBlocksStep(p)
    BY <1>1, <2>2, PruneFrame DEF pruneFrame
  <2>3. CASE CorePrunes(p)
    BY <2>3, PruneFiles DEF CorePrunes
  <2>4. CASE ~ArchiveBlockStep(p) /\ ~PruneBlocksStep(p) /\ ~CorePrunes(p)
    BY <1>1, <1>2, <2>4 DEF Step, Start, Interrupted, ListBlocks, NextFile, EndBatch, SkipPrune, Refuse
  <2> QED
    BY <2>1, <2>2, <2>3, <2>4
<1>3. CASE CoreWrites
  BY <1>3, CoreFiles
<1>4. CASE StoreLoses \/ ScannerAdvances
  BY <1>1, <1>4 DEF StoreLoses, ScannerAdvances
<1>5. ASSUME NEW r \in late, LatePrune(r) PROVE FilesOK' /\ DirectoryStep
  BY <1>5, PruneFiles DEF LatePrune
<1>6. CASE UNCHANGED vars
  BY <1>1, <1>6 DEF vars
<1> QED
  BY <1>2, <1>3, <1>4, <1>5, <1>6 DEF Next, Environment


-----------------------------------------------------------------------------
(* What a process has established.                                         *)

WaitingPcs == PrunePcs \ {"prune", "p_verify"}

\* What a process knows stays true while it does nothing.
LEMMA ClearedStays ==
    ASSUME TypeInv, LossInv, [Next]_vars, NEW q \in Procs,
           pc'[q] = pc[q], todo'[q] = todo[q], pending'[q] = pending[q],
           base'[q] = base[q], height'[q] = height[q]
    PROVE  Cleared(q)'
<1> SUFFICES ASSUME NEW f \in onDisk', pc[q] \in {"p_scan", "p_bound"} \union Requesting
             PROVE  /\ pc[q] = "p_scan" => f \in todo[q] \union pending[q] \/ Unharmed(f, base[q])'
                    /\ pc[q] = "p_bound" => f \in todo[q] \/ Spared(f, height[q], base[q])'
                    /\ pc[q] \in Requesting => Spared(f, height[q], base[q])'
  BY DEF Cleared, Unharmed, Spared, Above
<1>1. DirectoryStep /\ FilesOK
  BY EveryDirectory DEF LossInv
<1>2. base[q] \in Heights /\ height[q] \in Int \union {None}
  BY DEF TypeInv, TypeOK, PruneTypeOK
<1>3. base[q] <= tip
  BY DEF LossInv, Bases, Waiting, Recent, Requesting, Bounded, PrunePcs
<1>4. CASE f \in onDisk
  <2>1. f \in Files
    BY <1>4 DEF TypeInv, TypeOK, CoreTypeOK
  <2>2. Cleared(q)
    BY DEF LossInv
  <2> QED
    BY <1>1, <1>2, <1>3, <1>4, <2>1, <2>2, SparedStays DEF Cleared
<1>5. CASE f \notin onDisk
  <2>1. blocks'[f] = {}
    BY <1>1, <1>5 DEF DirectoryStep
  <2> QED
    BY <2>1 DEF Unharmed, Spared
<1> QED
  BY <1>4, <1>5

\* A process whose prune is over, or has not begun, has nothing to know.
LEMMA NothingToClear ==
    ASSUME NEW p \in Procs, pc'[p] \notin WaitingPcs
    PROVE  Cleared(p)'
BY DEF Cleared, WaitingPcs, PrunePcs, Requesting, Bounded

\* Lowering the bound keeps what is above it.
LEMMA LowerSpares ==
    ASSUME NEW f, NEW b, NEW h \in Int \union {None}, NEW c \in Int, Spared(f, h, b),
           blocks[f] \subseteq Int
    PROVE  Spared(f, Lower(h, c), b)
BY DEF Spared, Above, Lower

\* A file whose marker is current is preserved.
LEMMA ArchivedIsPreserved ==
    ASSUME TypeInv, EvidenceInv, NEW f \in onDisk, AlreadyArchived(f)
    PROVE  Preserved(f)
<1>1. f \in Files /\ Bytes(f) \in AllBytes
  BY FileType DEF TypeInv, TypeOK, CoreTypeOK
<1>2. object[f] = Bytes(f) \/ <<f, "object">> \in lost
  BY <1>1 DEF AlreadyArchived, MarkerMatches, EvidenceInv, Evidence
<1> QED
  BY <1>1, <1>2 DEF Preserved, Bytes

\* Each step of a prune establishes what the next one relies on.
LEMMA PruneClears ==
    ASSUME TypeInv, EvidenceInv, LossInv, NEW p \in Procs, PruneBlocksStep(p)
    PROVE  /\ Cleared(p)'
           /\ pc'[p] \in WaitingPcs => base'[p] = tip \/ (base'[p] = base[p] /\ p \in Waiting)
<1> USE DEF TypeInv, TypeOK, PruneTypeOK, CoreTypeOK, Goes, Drop
<1>0. /\ UNCHANGED <<blocks, first, onDisk, tip, object, lost>>
      /\ Cleared(p)
      /\ \A f \in Files : blocks[f] \subseteq Int
      /\ tip \in Int /\ height[p] \in Int \union {None}
  BY PruneFrame DEF pruneFrame, coreVars, storageVars, LossInv, Heights
<1>a. \A f, h, b : Unharmed(f, b)' = Unharmed(f, b) /\ Spared(f, h, b)' = Spared(f, h, b)
  BY <1>0 DEF Unharmed, Spared, Above, Preserved
<1> USE <1>0, <1>a DEF Waiting, WaitingPcs, PrunePcs, Requesting, Bounded
<1>1. CASE ListForVerify(p)
  BY <1>1 DEF ListForVerify, Cleared
<1>2. CASE VerifyNext(p)
  BY <1>2 DEF VerifyNext, Cleared
<1>3. CASE ListForScan(p)
  BY <1>3 DEF ListForScan, Cleared
<1>4. CASE ScanNext(p)
  <2>1. PICK g \in todo[p] : ScanNext(p)!(g)
    BY <1>4 DEF ScanNext
  <2>2. g \in onDisk /\ AlreadyArchived(g) => Preserved(g)
    BY ArchivedIsPreserved
  <2>3. /\ pc[p] = "p_scan" /\ pc' = pc /\ base' = base
        /\ todo'[p] = todo[p] \ {g}
        /\ pending'[p] = IF AlreadyArchived(g) THEN pending[p] ELSE pending[p] \union {g}
    BY <2>1
  <2>4. ASSUME NEW f \in onDisk
        PROVE  f \in todo'[p] \union pending'[p] \/ Unharmed(f, base[p])
    BY <2>2, <2>3 DEF Cleared, Unharmed
  <2> QED
    BY <2>3, <2>4 DEF Cleared
<1>5. CASE ScanDone(p)
  <2>1. /\ pc[p] = "p_scan" /\ todo[p] = {} /\ todo'[p] = pending[p]
        /\ pc'[p] = IF pending[p] = {} THEN "p_tip" ELSE "p_bound"
        /\ UNCHANGED <<height, base>>
    BY <1>5 DEF ScanDone
  <2>2. ASSUME NEW f \in onDisk PROVE f \in pending[p] \/ Spared(f, height[p], base[p])
    BY <2>1 DEF Cleared, Spared
  <2> QED
    BY <2>1, <2>2 DEF Cleared
<1>6. CASE BoundNext(p)
  <2>1. PICK g \in todo[p] : BoundNext(p)!(g)
    BY <1>6 DEF BoundNext
  <2>2. /\ pc[p] = "p_bound" /\ pc' = pc /\ base' = base /\ g \in onDisk
        /\ todo'[p] = todo[p] \ {g}
        /\ height'[p] = IF first[g] = None THEN height[p] ELSE Lower(height[p], BoundOf(g))
    BY <2>1
  <2>3. first[g] # None => first[g] \in blocks[g] /\ first[g] \in Int
    BY <2>2 DEF LossInv, FilesOK
  <2>4. Spared(g, height'[p], base[p])
    <3>1. CASE first[g] = None
      BY <2>2, <3>1 DEF LossInv, FilesOK, Spared, Unharmed
    <3>2. CASE first[g] # None
      <4>1. height'[p] \in Int /\ height'[p] < first[g]
        BY <2>2, <2>3, <3>2 DEF Lower, BoundOf
      <4> QED
        BY <2>3, <3>2, <4>1 DEF Spared, Above
    <3> QED
      BY <3>1, <3>2
  <2>5. ASSUME NEW f \in onDisk, f \notin todo[p] PROVE Spared(f, height'[p], base[p])
    <3>1. Spared(f, height[p], base[p])
      BY <2>2, <2>5 DEF Cleared
    <3>2. CASE first[g] = None
      BY <2>2, <3>1, <3>2
    <3>3. CASE first[g] # None
      <4>1. BoundOf(g) \in Int /\ height'[p] = Lower(height[p], BoundOf(g))
        BY <2>2, <2>3, <3>3 DEF BoundOf
      <4>2. Spared(f, Lower(height[p], BoundOf(g)), base[p])
        BY <3>1, <4>1, LowerSpares
      <4> QED
        BY <4>1, <4>2
    <3> QED
      BY <3>2, <3>3
  <2> QED
    BY <2>2, <2>4, <2>5 DEF Cleared
<1>7. CASE BoundDone(p)
  BY <1>7 DEF BoundDone, scanVars, Cleared
<1>8. CASE ReadTip(p)
  BY <1>8, LowerSpares DEF ReadTip, Cleared
<1>9. CASE ListProtected(p)
  BY <1>9 DEF ListProtected, Cleared
<1>10. CASE ProtectNext(p)
  <2>1. PICK g \in todo[p] : ProtectNext(p)!(g)
    BY <1>10 DEF ProtectNext
  <2>2. BoundOf(g) \in Int
    BY <2>1 DEF BoundOf, Heights
  <2> QED
    BY <2>1, <2>2, LowerSpares DEF Cleared
<1>11. CASE ProtectDone(p)
  BY <1>11 DEF ProtectDone, scanVars, Cleared
<1>12. CASE ReadCeiling(p)
  <2>1. UseCeiling => scanned \in Int
    BY <1>12 DEF ReadCeiling, Heights
  <2> QED
    BY <1>12, <2>1, LowerSpares DEF ReadCeiling, Ceiling, Cleared
<1>13. CASE CallPrune(p)
  BY <1>13 DEF CallPrune, scanVars, Cleared
<1> QED
  BY <1>1, <1>2, <1>3, <1>4, <1>5, <1>6, <1>7, <1>8, <1>9, <1>10, <1>11, <1>12, <1>13
     DEF PruneBlocksStep


-----------------------------------------------------------------------------
(* Steps of a process, of Core and of the store.                           *)

\* A process changes no other's locals and not the tip; it leaves a request
\* behind when it gives up waiting.
OwnStep(p) ==
    /\ \A q \in Procs \ {p} :
          /\ pc'[q] = pc[q] /\ todo'[q] = todo[q] /\ pending'[q] = pending[q]
          /\ base'[q] = base[q] /\ height'[q] = height[q] /\ verified'[q] = verified[q]
    /\ \A r \in late' \ late : r = RequestOf(p) /\ pc[p] = "p_wait"
    /\ tip' = tip

\* The bounds of a prune start from the tip.
BaseStep(p) ==
    pc'[p] \in WaitingPcs => base'[p] = tip \/ (base'[p] = base[p] /\ p \in Waiting)

\* The end of a batch or a pass.
LEMMA BatchEnds ==
    ASSUME TypeInv, NEW p \in Procs, NextBatch(p) \/ EndPass(p)
    PROVE  /\ pc'[p] \in {"next", "idle"}
           /\ \A q \in Procs \ {p} :
                /\ pc'[q] = pc[q] /\ todo'[q] = todo[q] /\ pending'[q] = pending[q]
                /\ base'[q] = base[q] /\ height'[q] = height[q] /\ verified'[q] = verified[q]
BY DEF TypeInv, TypeOK, PruneTypeOK, NextBatch, EndPass, ForgetScan, Goes

\* A step of a process is one of its prune, or it leaves or precedes the prune.
LEMMA ProcessMoves ==
    ASSUME TypeInv, NEW p \in Procs, Start(p) \/ Step(p) \/ Interrupted(p)
    PROVE  /\ OwnStep(p)
           /\ PruneBlocksStep(p) \/ pc'[p] \notin WaitingPcs
<1> USE DEF OwnStep, TypeInv, TypeOK, PruneTypeOK, Goes
<1>1. CASE PruneBlocksStep(p)
  <2>1. OwnStep(p)
    BY <1>1 DEF PruneBlocksStep, ListForVerify, VerifyNext, ListForScan, ScanNext, ScanDone, BoundNext,
                BoundDone, ReadTip, ListProtected, ProtectNext, ProtectDone, ReadCeiling, CallPrune,
                Drop, pruneFrame, coreVars, scanVars
  <2> QED
    BY <1>1, <2>1
<1>2. CASE ArchiveBlockStep(p) /\ UNCHANGED <<pruneVars, passVars>>
  <2>1. pc'[p] \in ArchivePcs \union {"next"}
    BY <1>2 DEF ArchiveBlockStep, Examine, TakeSignature, ReadChecksum, ReadRanges, EnsureUnchanged,
                UploadBlock, UploadMetadataSidecar, VerifyRemote, Mark, Reads, CheckPcs, AfterCheck,
                ArchivePcs
  <2>2. pc'[p] \notin WaitingPcs
    BY <2>1 DEF ArchivePcs, WaitingPcs, PrunePcs
  <2>3. OwnStep(p)
    BY <1>2 DEF ArchiveBlockStep, Examine, TakeSignature, ReadChecksum, ReadRanges, EnsureUnchanged,
                UploadBlock, UploadMetadataSidecar, VerifyRemote, Mark, Reads, coreVars, pruneVars,
                scanVars
  <2> QED
    BY <2>2, <2>3
<1>3. CASE Start(p) \/ ListBlocks(p) \/ NextFile(p) \/ (EndBatch(p) /\ PruneAfter)
  <2>1. /\ pc'[p] \in {"prune", "list", "next", "examine"}
        /\ \A q \in Procs \ {p} : pc'[q] = pc[q]
        /\ UNCHANGED <<scanVars, late, tip>>
    BY <1>3 DEF Start, ListBlocks, NextFile, EndBatch, pruneVars, coreVars
  <2>2. pc'[p] \notin WaitingPcs
    BY <2>1 DEF WaitingPcs, PrunePcs
  <2> QED
    BY <2>1, <2>2 DEF scanVars
<1>4. CASE (EndBatch(p) /\ ~PruneAfter) \/ SkipPrune(p) \/ CorePrunes(p) \/ Refuse(p) \/ Interrupted(p)
  <2>1. NextBatch(p) \/ EndPass(p)
    BY <1>4 DEF EndBatch, SkipPrune, CorePrunes, Refuse, Interrupted
  <2>2. tip' = tip /\ \A r \in late' \ late : r = RequestOf(p) /\ pc[p] = "p_wait"
    BY <1>4 DEF EndBatch, SkipPrune, CorePrunes, Refuse, Interrupted, PruneTo, coreVars
  <2>3. pc'[p] \notin WaitingPcs
    BY <2>1, BatchEnds DEF WaitingPcs, PrunePcs
  <2> QED
    BY <2>1, <2>2, <2>3, BatchEnds
<1> QED
  BY <1>1, <1>2, <1>3, <1>4 DEF Step

\* Every step of a process.
LEMMA ProcessLocal ==
    ASSUME TypeInv, EvidenceInv, LossInv, NEW p \in Procs, Start(p) \/ Step(p) \/ Interrupted(p)
    PROVE  /\ Cleared(p)' /\ OwnStep(p) /\ BaseStep(p)
           /\ PruneBlocksStep(p) \/ pc'[p] \notin WaitingPcs
BY ProcessMoves, PruneClears, NothingToClear DEF BaseStep

\* A late request spares what it spared.
LEMMA LateStays ==
    ASSUME TypeInv, LossInv, [Next]_vars, NEW r \in Requests, r.base <= tip, NEW f \in onDisk',
           \A g \in onDisk : Spared(g, r.height, r.base)
    PROVE  Spared(f, r.height, r.base)'
<1>1. DirectoryStep /\ FilesOK
  BY EveryDirectory DEF LossInv
<1>2. r.base \in Heights /\ r.height \in Int
  BY DEF Requests
<1>3. CASE f \in onDisk
  <2>1. f \in Files
    BY <1>3 DEF TypeInv, TypeOK, CoreTypeOK
  <2> QED
    BY <1>1, <1>2, <1>3, <2>1, SparedStays
<1>4. CASE f \notin onDisk
  BY <1>1, <1>4 DEF DirectoryStep, Spared, Unharmed
<1> QED
  BY <1>3, <1>4

\* A file leaves the directory when a request is executed.
LEMMA Deleter ==
    ASSUME [Next]_vars, NEW f \in onDisk, f \notin onDisk'
    PROVE  (\E p \in Procs : CorePrunes(p)) \/ (\E r \in late : LatePrune(r))
<1>1. ASSUME NEW p \in Procs, Start(p) \/ Step(p) \/ Interrupted(p) PROVE CorePrunes(p)
  <2>1. CASE ArchiveBlockStep(p)
    BY <2>1 DEF ArchiveBlockStep, Examine, TakeSignature, ReadChecksum, ReadRanges, EnsureUnchanged,
                UploadBlock, UploadMetadataSidecar, VerifyRemote, Mark, Reads, coreVars
  <2>2. CASE PruneBlocksStep(p)
    BY <2>2, PruneFrame DEF pruneFrame, coreVars
  <2>3. CASE ~ArchiveBlockStep(p) /\ ~PruneBlocksStep(p)
    BY <1>1, <2>3 DEF Step, Start, Interrupted, ListBlocks, NextFile, EndBatch, SkipPrune, Refuse, coreVars
  <2> QED
    BY <2>1, <2>2, <2>3
<1>2. CASE CoreWrites
  BY <1>2 DEF CoreWrites, Arrive, Roll, Connect
<1>3. CASE StoreLoses \/ ScannerAdvances \/ UNCHANGED vars
  BY <1>3 DEF StoreLoses, ScannerAdvances, vars, coreVars
<1> QED
  BY <1>1, <1>2, <1>3 DEF Next, Environment

\* The request spares the files that are not preserved.
LEMMA Deletion ==
    ASSUME TypeInv, LossInv, [Next]_vars, NEW f \in onDisk, f \notin onDisk'
    PROVE  \E h \in Int, b \in Heights : PruneTo(h) /\ Recent(b) /\ Spared(f, h, b)
<1>1. ASSUME NEW p \in Procs, CorePrunes(p)
      PROVE  PruneTo(height[p]) /\ Recent(base[p]) /\ Spared(f, height[p], base[p])
             /\ height[p] \in Int /\ base[p] \in Heights
  <2>1. pc[p] = "p_wait" /\ PruneTo(height[p]) /\ Cleared(p)
    BY <1>1 DEF CorePrunes, LossInv
  <2>2. base[p] \in Bases
    BY <2>1 DEF Bases, Waiting, PrunePcs
  <2> QED
    BY <2>1, <2>2 DEF LossInv, Cleared, Requesting, Bounded, TypeInv, TypeOK, LabelsOK, PruneTypeOK
<1>2. ASSUME NEW r \in late, LatePrune(r)
      PROVE  PruneTo(r.height) /\ Recent(r.base) /\ Spared(f, r.height, r.base)
             /\ r.height \in Int /\ r.base \in Heights
  <2>1. r.base \in Bases /\ r \in Requests
    BY DEF Bases, TypeInv, TypeOK, PruneTypeOK
  <2> QED
    BY <1>2, <2>1 DEF LossInv, LatePrune, Requests
<1> QED
  BY <1>1, <1>2, Deleter

\* Core deletes only preserved files, and they stay preserved.
LEMMA DeletedStays ==
    ASSUME TypeInv, LossInv, [Next]_vars, MaxAdvance <= Keep, NEW f \in Deleted'
    PROVE  Preserved(f)'
<1>1. DirectoryStep /\ FilesOK
  BY EveryDirectory DEF LossInv
<1>2. f \in Files /\ f \notin onDisk' /\ f <= newest'
  BY DEF Deleted
<1>3. ContentStep(f)
  BY <1>1, <1>2, EveryContent
<1>4. CASE f \notin onDisk
  <2>1. f \in Deleted
    BY <1>1, <1>2, <1>4 DEF Deleted, DirectoryStep, TypeInv, TypeOK, CoreTypeOK, Files
  <2> QED
    BY <1>3, <1>4, <2>1 DEF LossInv, ContentStep
<1>5. CASE f \in onDisk
  <2>1. PICK h \in Int, b \in Heights : PruneTo(h) /\ Recent(b) /\ Spared(f, h, b)
    BY <1>2, <1>5, Deletion
  <2>2. /\ blocks[f] # {} /\ blocks[f] \subseteq Heights
        /\ \A x \in blocks[f] : x <= h /\ x <= tip - Keep
    BY <1>2, <1>5, <2>1 DEF PruneTo, Prunable, TypeInv, TypeOK, CoreTypeOK
  <2>3. ASSUME NEW x \in blocks[f] PROVE ~(x > h) /\ ~(x > b)
    <3>1. x \in Int /\ tip \in Int /\ b \in Int /\ x <= h /\ x <= tip - Keep /\ tip <= b + MaxAdvance
      BY <2>1, <2>2 DEF Recent, Heights, TypeInv, TypeOK, CoreTypeOK
    <3> QED
      BY <3>1
  <2>4. Preserved(f)
    BY <2>1, <2>2, <2>3 DEF Spared, Above, Unharmed
  <2>5. blocks'[f] = blocks[f]
    BY <2>1 DEF PruneTo
  <2>6. \A x \in Heights : x > tip => blocks'[f] # blocks[f] \union {x}
    <3>1. \A x \in Heights : x > tip => x \notin blocks[f]
      BY <2>2 DEF Heights, TypeInv, TypeOK, CoreTypeOK
    <3> QED
      BY <2>5, <3>1
  <2> QED
    BY <1>3, <2>4, <2>6 DEF ContentStep
<1> QED
  BY <1>4, <1>5


\* The tip is bounded while a prune is under way.
LEMMA BasesStay ==
    ASSUME TypeInv, EvidenceInv, LossInv, [Next]_vars, NEW b \in Bases'
    PROVE  Recent(b)'
<1>0. tip \in Int /\ MaxAdvance \in Nat
  BY DEF TypeInv, TypeOK, CoreTypeOK, Heights
<1>1. ASSUME NEW p \in Procs, Start(p) \/ Step(p) \/ Interrupted(p) PROVE Recent(b)'
  <2>1. OwnStep(p) /\ BaseStep(p)
    BY <1>1, ProcessLocal
  <2>2. CASE \E q \in Waiting' : b = base'[q]
    <3>1. PICK q \in Waiting' : b = base'[q]
      BY <2>2
    <3>2. b = tip \/ b \in Bases
      <4>1. q \in Procs /\ pc'[q] \in WaitingPcs
        BY DEF Waiting, WaitingPcs
      <4>2. CASE q = p
        BY <2>1, <3>1, <4>1, <4>2 DEF BaseStep, Bases
      <4>3. CASE q # p
        BY <2>1, <3>1, <4>1, <4>3 DEF OwnStep, Bases, Waiting, WaitingPcs
      <4> QED
        BY <4>2, <4>3
    <3> QED
      BY <1>0, <2>1, <3>2 DEF OwnStep, LossInv, Recent
  <2>3. CASE \E r \in late' : b = r.base
    <3>1. PICK r \in late' : b = r.base
      BY <2>3
    <3>2. b \in Bases
      BY <2>1, <3>1 DEF OwnStep, Bases, RequestOf, Waiting, PrunePcs
    <3> QED
      BY <2>1, <3>2 DEF OwnStep, LossInv, Recent
  <2> QED
    BY <2>2, <2>3 DEF Bases
<1>2. ASSUME UNCHANGED <<tip, pc, base>>, late' \subseteq late PROVE Recent(b)'
  BY <1>2 DEF LossInv, Recent, Bases, Waiting
<1>3. CASE CoreWrites
  <2>1. UNCHANGED <<pc, base, late>>
    BY <1>3 DEF CoreWrites, jobVars, pruneVars, scanVars
  <2>2. CASE UNCHANGED tip
    BY <1>2, <2>1, <2>2
  <2>3. CASE ~ UNCHANGED tip
    <3>1. tip' = tip + 1 /\ \A c \in Bases : tip + 1 - c <= MaxAdvance
      BY <1>3, <2>3 DEF CoreWrites, Arrive, Roll, Connect
    <3>2. b \in Bases
      BY <2>1 DEF Bases, Waiting
    <3>3. b \in Int
      BY <3>2 DEF Bases, Waiting, Requests, TypeInv, TypeOK, PruneTypeOK, Heights
    <3> QED
      BY <1>0, <3>1, <3>2, <3>3 DEF LossInv, Recent
  <2> QED
    BY <2>2, <2>3
<1>4. CASE StoreLoses \/ ScannerAdvances \/ UNCHANGED vars
  BY <1>2, <1>4 DEF StoreLoses, ScannerAdvances, vars, coreVars, jobVars, pruneVars, scanVars
<1>5. CASE \E r \in late : LatePrune(r)
  BY <1>2, <1>5 DEF LatePrune, PruneTo, jobVars, scanVars
<1> QED
  BY <1>1, <1>3, <1>4, <1>5 DEF Next, Environment

\* Nothing has been deleted, asked or scanned at first.
LEMMA LossInit == Init => LossInv
<1> SUFFICES ASSUME Init PROVE LossInv
  OBVIOUS
<1>1. FilesOK
  BY DEF Init, CoreInit, FilesOK, Stored, Files
<1>2. Deleted = {}
  BY DEF Init, CoreInit, Deleted, Files
<1>3. Bases = {} /\ late = {}
  BY DEF Init, Bases, Waiting, PrunePcs
<1>4. ASSUME NEW p \in Procs PROVE Cleared(p)
  BY DEF Init, Cleared, Requesting, Bounded
<1> QED
  BY <1>1, <1>2, <1>3, <1>4 DEF LossInv

\* Every step keeps the invariant.
LEMMA LossStep ==
    ASSUME TypeInv, EvidenceInv, LossInv, [Next]_vars, MaxAdvance <= Keep
    PROVE  LossInv'
<1>1. FilesOK'
  BY EveryDirectory DEF LossInv
<1>2. \A f \in Deleted' : Preserved(f)'
  BY DeletedStays
<1>3. \A b \in Bases' : Recent(b)'
  BY BasesStay
<1>4. ASSUME NEW r \in late, NEW f \in onDisk' PROVE Spared(f, r.height, r.base)'
  <2>1. r.base \in Bases /\ r \in Requests
    BY DEF Bases, TypeInv, TypeOK, PruneTypeOK
  <2> QED
    BY <2>1, LateStays DEF LossInv, Recent
<1>5. ASSUME NEW p \in Procs, Start(p) \/ Step(p) \/ Interrupted(p)
      PROVE  /\ \A q \in Procs : Cleared(q)'
             /\ \A r \in late' : \A f \in onDisk' : Spared(f, r.height, r.base)'
  <2>1. Cleared(p)' /\ OwnStep(p)
    BY <1>5, ProcessLocal
  <2>2. ASSUME NEW q \in Procs \ {p} PROVE Cleared(q)'
    BY <2>1, ClearedStays DEF OwnStep
  <2>3. ASSUME NEW r \in late' \ late, NEW f \in onDisk' PROVE Spared(f, r.height, r.base)'
    <3>1. r = RequestOf(p) /\ pc[p] = "p_wait"
      BY <2>1 DEF OwnStep
    <3>2. r \in Requests /\ r.height = height[p] /\ r.base = base[p]
      BY <3>1 DEF RequestOf, Requests, TypeInv, TypeOK, PruneTypeOK, LabelsOK, Bounded
    <3>3. \A g \in onDisk : Spared(g, r.height, r.base)
      BY <3>1, <3>2 DEF LossInv, Cleared, Requesting, Bounded
    <3>4. r.base <= tip
      BY <3>1, <3>2 DEF LossInv, Bases, Waiting, PrunePcs, Recent
    <3> QED
      BY <3>2, <3>3, <3>4, LateStays
  <2> QED
    BY <1>4, <2>1, <2>2, <2>3
<1>6. ASSUME UNCHANGED <<pc, scanVars>>, late' \subseteq late
      PROVE  /\ \A q \in Procs : Cleared(q)'
             /\ \A r \in late' : \A f \in onDisk' : Spared(f, r.height, r.base)'
  BY <1>4, <1>6, ClearedStays DEF scanVars
<1>7. CASE Environment \/ UNCHANGED vars
  <2>1. UNCHANGED <<pc, scanVars>> /\ late' \subseteq late
    BY <1>7 DEF Environment, CoreWrites, StoreLoses, ScannerAdvances, LatePrune, vars, jobVars, pruneVars
  <2> QED
    BY <1>1, <1>2, <1>3, <1>6, <2>1 DEF LossInv
<1>8. CASE \E p \in Procs : Start(p) \/ Step(p) \/ Interrupted(p)
  BY <1>1, <1>2, <1>3, <1>5, <1>8 DEF LossInv
<1> QED
  BY <1>7, <1>8 DEF Next

\* "nothing is deleted until it is known to be in S3" (prune.py:5-6), for any
\* number of processes, files, requests that time out and blocks that arrive
\* out of order, while the tip moves by at most the blocks that Core keeps
\* between the listing of a prune and its execution.
THEOREM NoBlockIsLost == MaxAdvance <= Keep => (Spec => []NothingLost)
<1> SUFFICES ASSUME MaxAdvance <= Keep PROVE Spec => []NothingLost
  OBVIOUS
<1>1. Init => TypeInv /\ EvidenceInv /\ LossInv
  BY TypeInit, EvidenceInit, LossInit
<1>2. TypeInv /\ EvidenceInv /\ LossInv /\ [Next]_vars => (TypeInv /\ EvidenceInv /\ LossInv)'
  BY TypeStep, EvidenceStep, LossStep
<1>3. TypeInv /\ EvidenceInv /\ LossInv => NothingLost
  BY DEF LossInv, NothingLost, Preserved
<1> QED
  BY <1>1, <1>2, <1>3, PTL DEF Spec


-----------------------------------------------------------------------------
(* The tip, the consumer and the parser.                                   *)

\* A file that a bound leaves, or that Core keeps, stays so.
LEMMA RemainsStay ==
    ASSUME TypeInv, FilesOK, [Next]_vars, NEW f \in Files, NEW b \in Heights, b <= tip
    PROVE  \A h \in Int \union {None} : Remains(f, h, b) => Remains(f, h, b)'
<1>1. ContentStep(f)
  BY EveryContent
<1>2. tip \in Int /\ \A h \in Heights : h \in Int
  BY DEF TypeInv, TypeOK, CoreTypeOK, Heights
<1> QED
  BY <1>1, <1>2 DEF ContentStep, Remains, Above

\* The same for all files of the directory, the new ones included.
LEMMA RemainAll ==
    ASSUME TypeInv, LossInv, [Next]_vars, NEW f \in onDisk', NEW b \in Heights, b <= tip,
           NEW h \in Int \union {None}, f \in onDisk => Remains(f, h, b)
    PROVE  Remains(f, h, b)'
<1>1. DirectoryStep /\ FilesOK
  BY EveryDirectory DEF LossInv
<1>2. f \in onDisk => f \in Files
  BY DEF TypeInv, TypeOK, CoreTypeOK
<1>3. CASE f \in onDisk
  BY <1>1, <1>2, <1>3, RemainsStay
<1>4. CASE f \notin onDisk
  BY <1>1, <1>4 DEF DirectoryStep, Remains
<1> QED
  BY <1>3, <1>4

\* The consumer only advances.
LEMMA ScannedGrows ==
    ASSUME TypeInv, [Next]_vars, scanned # None
    PROVE  scanned' # None /\ scanned \in Int /\ scanned' \in Int /\ scanned <= scanned'
<1>1. scanned \in Int
  BY DEF TypeInv, TypeOK, PruneTypeOK, Heights
<1>2. ASSUME NEW p \in Procs, Start(p) \/ Step(p) \/ Interrupted(p) PROVE scanned' = scanned
  <2>1. CASE PruneBlocksStep(p)
    BY <2>1, PruneFrame DEF pruneFrame
  <2>2. CASE ~PruneBlocksStep(p)
    BY <1>2, <2>2 DEF Step, Start, Interrupted, ListBlocks, NextFile, EndBatch, SkipPrune, CorePrunes,
                      Refuse, pruneVars
  <2> QED
    BY <2>1, <2>2
<1>3. CASE ScannerAdvances
  <2>1. PICK h \in Heights : (scanned # None => h > scanned) /\ scanned' = h
    BY <1>3 DEF ScannerAdvances
  <2>2. h \in Int
    BY DEF Heights
  <2> QED
    BY <1>1, <2>1, <2>2
<1>4. CASE CoreWrites \/ StoreLoses \/ (\E r \in late : LatePrune(r)) \/ UNCHANGED vars
  BY <1>1, <1>4 DEF CoreWrites, StoreLoses, LatePrune, vars, pruneVars
<1> QED
  BY <1>1, <1>2, <1>3, <1>4 DEF Next, Environment

\* The limits of a prune hold while its process does nothing.
LEMMA LimitedStays ==
    ASSUME TypeInv, LossInv, LimitInv, [Next]_vars, NEW q \in Procs,
           pc'[q] = pc[q], todo'[q] = todo[q], base'[q] = base[q], height'[q] = height[q]
    PROVE  Limited(q)'
<1>1. DirectoryStep
  BY EveryDirectory DEF LossInv
<1>2. Limited(q) /\ tip \in Int /\ height[q] \in Int \union {None} /\ base[q] \in Heights
  BY DEF LimitInv, TypeInv, TypeOK, PruneTypeOK, CoreTypeOK, Heights
<1>3. pc[q] \in Bounded => height[q] \in Int /\ height[q] <= tip'
  BY <1>1, <1>2 DEF DirectoryStep, Limited, TypeInv, LabelsOK
<1>4. UseCeiling /\ pc[q] \in Ceiled => scanned' # None /\ height[q] <= scanned'
  BY <1>2, <1>3, ScannedGrows DEF Limited, Ceiled, Bounded
<1>5. ASSUME NEW f \in onDisk', RetainFrom # None, f >= RetainFrom
      PROVE  /\ pc[q] = "p_protect" => f \in todo[q] \/ Remains(f, height[q], base[q])'
             /\ pc[q] \in Guarded => Remains(f, height[q], base[q])'
  <2>1. pc[q] \in Guarded \union {"p_protect"} => base[q] <= tip
    BY DEF LossInv, Bases, Waiting, Recent, Guarded, Ceiled, PrunePcs
  <2> QED
    BY <1>2, <1>5, <2>1, RemainAll DEF Limited
<1> QED
  BY <1>2, <1>3, <1>4, <1>5 DEF Limited, Remains, Above

\* And those of a request whose caller gave up.
LEMMA LateLimits ==
    ASSUME TypeInv, LossInv, [Next]_vars, NEW r \in Requests, r.base <= tip, LimitedRequest(r)
    PROVE  LimitedRequest(r)'
<1>1. r.base \in Heights /\ r.height \in Int
  BY DEF Requests
<1>2. UseCeiling => scanned' # None /\ r.height <= scanned'
  BY <1>1, ScannedGrows DEF LimitedRequest
<1>3. ASSUME NEW f \in onDisk', RetainFrom # None, f >= RetainFrom
      PROVE  Remains(f, r.height, r.base)'
  BY <1>1, <1>3, RemainAll DEF LimitedRequest
<1> QED
  BY <1>2, <1>3 DEF LimitedRequest

\* Lowering the bound keeps what is above it.
LEMMA LowerRemains ==
    ASSUME NEW f, NEW b, NEW h \in Int \union {None}, NEW c \in Int, Remains(f, h, b),
           blocks[f] \subseteq Int
    PROVE  Remains(f, Lower(h, c), b)
BY DEF Remains, Above, Lower

\* Each step of a prune respects the limits it has read.
LEMMA PruneLimits ==
    ASSUME TypeInv, LossInv, LimitInv, NEW p \in Procs, PruneBlocksStep(p)
    PROVE  Limited(p)'
<1> USE DEF TypeInv, TypeOK, PruneTypeOK, CoreTypeOK, Goes, Drop
<1>0. /\ UNCHANGED <<blocks, first, onDisk, tip, scanned>>
      /\ Limited(p)
      /\ \A f \in Files : blocks[f] \subseteq Int
      /\ tip \in Int /\ height[p] \in Int \union {None}
      /\ pc[p] \in Bounded => height[p] \in Int
      /\ scanned # None => scanned \in Int
  BY PruneFrame DEF pruneFrame, coreVars, LimitInv, Heights, LabelsOK
<1>a. \A f, h, b : Remains(f, h, b)' = Remains(f, h, b)
  BY <1>0 DEF Remains, Above
<1> USE <1>0, <1>a DEF Bounded, Guarded, Ceiled
<1>1. CASE ListForVerify(p) \/ VerifyNext(p) \/ ListForScan(p) \/ ScanNext(p) \/ ScanDone(p)
           \/ BoundNext(p) \/ BoundDone(p)
  <2>1. pc'[p] \in {"p_verify", "p_scan", "p_bound", "p_tip"}
    BY <1>1 DEF ListForVerify, VerifyNext, ListForScan, ScanNext, ScanDone, BoundNext, BoundDone
  <2> QED
    BY <2>1 DEF Limited
<1>2. CASE ReadTip(p)
  <2>1. pc'[p] = "p_retain" /\ height'[p] <= tip
    BY <1>2 DEF ReadTip, Lower
  <2> QED
    BY <2>1 DEF Limited
<1>3. CASE ListProtected(p)
  <2>1. /\ pc[p] = "p_retain" /\ height' = height
        /\ pc'[p] = IF RetainFrom = None THEN "p_ceiling" ELSE "p_protect"
        /\ RetainFrom # None => todo'[p] = Protected
    BY <1>3 DEF ListProtected
  <2> QED
    BY <2>1 DEF Limited, Protected
<1>4. CASE ProtectNext(p)
  <2>1. PICK g \in todo[p] : ProtectNext(p)!(g)
    BY <1>4 DEF ProtectNext
  <2>2. /\ pc[p] = "p_protect" /\ pc' = pc /\ base' = base /\ g \in onDisk /\ first[g] # None
        /\ todo'[p] = todo[p] \ {g} /\ height'[p] = Lower(height[p], BoundOf(g))
    BY <2>1
  <2>3. first[g] \in blocks[g] /\ first[g] \in Int /\ BoundOf(g) \in Int
    BY <2>2 DEF LossInv, FilesOK, BoundOf
  <2>4. height'[p] <= tip /\ height'[p] \in Int /\ height'[p] < first[g]
    BY <2>2, <2>3 DEF Limited, Lower, BoundOf
  <2>5. Remains(g, height'[p], base[p])
    BY <2>3, <2>4 DEF Remains, Above
  <2>6. ASSUME NEW f \in onDisk, RetainFrom # None, f >= RetainFrom, f \notin todo[p]
        PROVE  Remains(f, height'[p], base[p])
    <3>1. Remains(f, height[p], base[p])
      BY <2>2, <2>6 DEF Limited
    <3> QED
      BY <2>2, <2>3, <3>1, LowerRemains
  <2> QED
    BY <2>2, <2>4, <2>5, <2>6 DEF Limited
<1>5. CASE ProtectDone(p)
  BY <1>5 DEF ProtectDone, scanVars, Limited
<1>6. CASE ReadCeiling(p)
  <2>1. /\ pc[p] = "p_ceiling" /\ pc'[p] = "p_call" /\ base' = base
        /\ height'[p] = Ceiling(height[p]) /\ height[p] \in Int
        /\ UseCeiling => scanned \in Int
    BY <1>6 DEF ReadCeiling
  <2>2. /\ height'[p] \in Int /\ height'[p] <= height[p]
        /\ UseCeiling => height'[p] <= scanned
    BY <2>1 DEF Ceiling, Lower
  <2>3. height'[p] <= tip
    BY <2>1, <2>2 DEF Limited
  <2>4. ASSUME NEW f \in onDisk, RetainFrom # None, f >= RetainFrom
        PROVE  Remains(f, height'[p], base[p])
    <3>1. Remains(f, height[p], base[p])
      BY <2>1, <2>4 DEF Limited
    <3> QED
      BY <2>1, <3>1, LowerRemains DEF Ceiling
  <2>5. UseCeiling => scanned # None
    BY <1>6 DEF ReadCeiling
  <2> QED
    BY <2>1, <2>2, <2>3, <2>4, <2>5 DEF Limited
<1>7. CASE CallPrune(p)
  <2>1. pc[p] = "p_call" /\ pc'[p] = "p_wait" /\ UNCHANGED <<height, base>> /\ height[p] >= 1
    BY <1>7 DEF CallPrune, NothingToPrune, scanVars
  <2> QED
    BY <2>1 DEF Limited
<1> QED
  BY <1>1, <1>2, <1>3, <1>4, <1>5, <1>6, <1>7 DEF PruneBlocksStep


\* What the executed request respects.
LEMMA LimitedDeletion ==
    ASSUME TypeInv, LossInv, LimitInv, [Next]_vars, NEW f \in onDisk, f \notin onDisk'
    PROVE  \E h \in Int, b \in Heights :
             /\ PruneTo(h) /\ Recent(b)
             /\ UseCeiling => scanned # None /\ h <= scanned
             /\ RetainFrom # None /\ f >= RetainFrom => Remains(f, h, b)
<1>1. ASSUME NEW p \in Procs, CorePrunes(p)
      PROVE  /\ PruneTo(height[p]) /\ Recent(base[p]) /\ height[p] \in Int /\ base[p] \in Heights
             /\ UseCeiling => scanned # None /\ height[p] <= scanned
             /\ RetainFrom # None /\ f >= RetainFrom => Remains(f, height[p], base[p])
  <2>1. pc[p] = "p_wait" /\ PruneTo(height[p]) /\ Limited(p)
    BY <1>1 DEF CorePrunes, LimitInv
  <2>2. Recent(base[p])
    BY <2>1 DEF LossInv, Bases, Waiting, PrunePcs
  <2> QED
    BY <2>1, <2>2 DEF Limited, Guarded, Ceiled, Bounded, TypeInv, TypeOK, LabelsOK, PruneTypeOK
<1>2. ASSUME NEW r \in late, LatePrune(r)
      PROVE  /\ PruneTo(r.height) /\ Recent(r.base) /\ r.height \in Int /\ r.base \in Heights
             /\ UseCeiling => scanned # None /\ r.height <= scanned
             /\ RetainFrom # None /\ f >= RetainFrom => Remains(f, r.height, r.base)
  <2>1. r.base \in Bases /\ r \in Requests /\ LimitedRequest(r)
    BY DEF Bases, LimitInv, TypeInv, TypeOK, PruneTypeOK
  <2> QED
    BY <1>2, <2>1 DEF LossInv, LatePrune, Requests, LimitedRequest
<1> QED
  BY <1>1, <1>2, Deleter

\* A file that is gone was deleted earlier, or is by this step.
LEMMA GoneBefore ==
    ASSUME TypeInv, LossInv, [Next]_vars, NEW f \in Deleted'
    PROVE  f \in Files /\ f \notin onDisk' /\ (f \in onDisk \/ (f \in Deleted /\ blocks'[f] = blocks[f]))
<1>1. DirectoryStep /\ FilesOK
  BY EveryDirectory DEF LossInv
<1>2. f \in Files /\ f \notin onDisk' /\ f <= newest'
  BY DEF Deleted
<1>3. f \notin onDisk => f \in Deleted
  BY <1>1, <1>2 DEF Deleted, DirectoryStep, TypeInv, TypeOK, CoreTypeOK, Files
<1>4. f \notin onDisk => blocks'[f] = blocks[f]
  BY <1>1, <1>2, EveryContent DEF ContentStep
<1> QED
  BY <1>2, <1>3, <1>4

\* No block is deleted that the consumer has not read.
LEMMA ConsumerStays ==
    ASSUME TypeInv, LossInv, LimitInv, [Next]_vars
    PROVE  ConsumerNotStarved'
<1> SUFFICES ASSUME UseCeiling, NEW f \in Deleted'
             PROVE  scanned' # None /\ \A x \in blocks'[f] : x <= scanned'
  BY DEF ConsumerNotStarved
<1>1. f \in Files /\ (f \in onDisk \/ (f \in Deleted /\ blocks'[f] = blocks[f]))
  BY GoneBefore
<1>2. blocks[f] \subseteq Int
  BY <1>1 DEF TypeInv, TypeOK, CoreTypeOK, Heights
<1>3. ASSUME scanned # None, blocks'[f] = blocks[f], \A x \in blocks[f] : x <= scanned
      PROVE  scanned' # None /\ \A x \in blocks'[f] : x <= scanned'
  BY <1>2, <1>3, ScannedGrows
<1>4. CASE f \in onDisk
  <2>1. PICK h \in Int : PruneTo(h) /\ scanned # None /\ h <= scanned
    BY <1>4, GoneBefore, LimitedDeletion
  <2>2. blocks' = blocks /\ \A x \in blocks[f] : x <= h
    BY <1>4, <2>1, GoneBefore DEF PruneTo, Prunable
  <2>3. scanned \in Int
    BY <2>1, ScannedGrows
  <2> QED
    BY <1>2, <1>3, <2>1, <2>2, <2>3
<1>5. CASE f \notin onDisk
  BY <1>1, <1>3, <1>5 DEF LimitInv, ConsumerNotStarved
<1> QED
  BY <1>4, <1>5

\* No file is deleted that the parser has yet to finish.
LEMMA RetainedStay ==
    ASSUME TypeInv, LossInv, LimitInv, [Next]_vars, MaxAdvance <= Keep
    PROVE  RetainedFilesStay'
<1> SUFFICES ASSUME RetainFrom # None, NEW f \in Deleted' PROVE f < RetainFrom
  BY DEF RetainedFilesStay
<1>1. f \in Files /\ (f \in onDisk \/ f \in Deleted)
  BY GoneBefore
<1>2. f \in Int /\ RetainFrom \in Int
  BY <1>1 DEF Files
<1>3. CASE f \in onDisk /\ f >= RetainFrom
  <2>1. PICK h \in Int, b \in Heights : PruneTo(h) /\ Recent(b) /\ Remains(f, h, b)
    BY <1>3, GoneBefore, LimitedDeletion
  <2>2. /\ blocks[f] # {} /\ blocks[f] \subseteq Heights
        /\ \A x \in blocks[f] : x <= h /\ x <= tip - Keep
    BY <1>1, <1>3, <2>1, GoneBefore DEF PruneTo, Prunable, TypeInv, TypeOK, CoreTypeOK
  <2>3. ASSUME NEW x \in blocks[f] PROVE ~(x > h) /\ ~(x > b)
    <3>1. x \in Int /\ tip \in Int /\ b \in Int /\ x <= h /\ x <= tip - Keep /\ tip <= b + MaxAdvance
      BY <2>1, <2>2 DEF Recent, Heights, TypeInv, TypeOK, CoreTypeOK
    <3> QED
      BY <3>1
  <2> QED
    BY <2>1, <2>2, <2>3 DEF Remains, Above
<1>4. CASE f \in Deleted
  BY <1>4 DEF LimitInv, RetainedFilesStay
<1> QED
  BY <1>1, <1>2, <1>3, <1>4

\* Every step keeps the limits.
LEMMA LimitStep ==
    ASSUME TypeInv, EvidenceInv, LossInv, LimitInv, [Next]_vars, MaxAdvance <= Keep
    PROVE  LimitInv'
<1>1. ASSUME NEW r \in late PROVE LimitedRequest(r)'
  <2>1. r.base \in Bases /\ r \in Requests
    BY DEF Bases, TypeInv, TypeOK, PruneTypeOK
  <2> QED
    BY <2>1, LateLimits DEF LossInv, LimitInv, Recent
<1>2. ASSUME NEW p \in Procs, Start(p) \/ Step(p) \/ Interrupted(p)
      PROVE  (\A q \in Procs : Limited(q)') /\ (\A r \in late' : LimitedRequest(r)')
  <2>1. OwnStep(p) /\ (PruneBlocksStep(p) \/ pc'[p] \notin WaitingPcs)
    BY <1>2, ProcessLocal
  <2>2. Limited(p)'
    <3>1. CASE PruneBlocksStep(p)
      BY <3>1, PruneLimits
    <3>2. CASE pc'[p] \notin WaitingPcs
      BY <3>2 DEF Limited, WaitingPcs, PrunePcs, Bounded, Guarded, Ceiled
    <3> QED
      BY <2>1, <3>1, <3>2
  <2>3. ASSUME NEW q \in Procs \ {p} PROVE Limited(q)'
    BY <2>1, LimitedStays DEF OwnStep
  <2>4. ASSUME NEW r \in late' \ late PROVE LimitedRequest(r)'
    <3>1. r = RequestOf(p) /\ pc[p] = "p_wait"
      BY <2>1 DEF OwnStep
    <3>2. r \in Requests /\ r.height = height[p] /\ r.base = base[p]
      BY <3>1 DEF RequestOf, Requests, TypeInv, TypeOK, PruneTypeOK, LabelsOK, Bounded
    <3>3. LimitedRequest(r)
      BY <3>1, <3>2 DEF LimitInv, Limited, LimitedRequest, Guarded, Ceiled
    <3>4. r.base <= tip
      BY <3>1, <3>2 DEF LossInv, Bases, Waiting, PrunePcs, Recent
    <3> QED
      BY <3>2, <3>3, <3>4, LateLimits
  <2> QED
    BY <1>1, <2>2, <2>3, <2>4
<1>3. CASE Environment \/ UNCHANGED vars
  <2>1. UNCHANGED <<pc, scanVars>> /\ late' \subseteq late
    BY <1>3 DEF Environment, CoreWrites, StoreLoses, ScannerAdvances, LatePrune, vars, jobVars, pruneVars
  <2>2. ASSUME NEW q \in Procs PROVE Limited(q)'
    BY <2>1, LimitedStays DEF scanVars
  <2> QED
    BY <1>1, <2>1, <2>2, ConsumerStays, RetainedStay DEF LimitInv
<1>4. CASE \E p \in Procs : Start(p) \/ Step(p) \/ Interrupted(p)
  BY <1>2, <1>4, ConsumerStays, RetainedStay DEF LimitInv
<1> QED
  BY <1>3, <1>4 DEF Next

\* All of it, at every step.
LEMMA PruneInv ==
    ASSUME MaxAdvance <= Keep
    PROVE  Spec => [](TypeInv /\ LimitInv)
<1>1. Init => LimitInv
  BY DEF Init, CoreInit, LimitInv, Limited, Bounded, Guarded, Ceiled, ConsumerNotStarved,
         RetainedFilesStay, Deleted, Files
<1>2. Init => TypeInv /\ EvidenceInv /\ LossInv /\ LimitInv
  BY <1>1, TypeInit, EvidenceInit, LossInit
<1>3. TypeInv /\ EvidenceInv /\ LossInv /\ LimitInv /\ [Next]_vars
        => (TypeInv /\ EvidenceInv /\ LossInv /\ LimitInv)'
  BY TypeStep, EvidenceStep, LossStep, LimitStep
<1> QED
  BY <1>2, <1>3, PTL DEF Spec

\* No block is gone that the consumer has not read (prune.py:135-144), also
\* when a request is executed after its caller gave up.
THEOREM ConsumerNeverStarves == MaxAdvance <= Keep => (Spec => []ConsumerNotStarved)
<1> SUFFICES ASSUME MaxAdvance <= Keep PROVE Spec => []ConsumerNotStarved
  OBVIOUS
<1>1. LimitInv => ConsumerNotStarved
  BY DEF LimitInv
<1> QED
  BY <1>1, PruneInv, PTL

\* The files from the parser's resume file on stay, those that Core creates
\* after they were listed included (prune.py:113-133).
THEOREM RetainedFilesAlwaysStay == MaxAdvance <= Keep => (Spec => []RetainedFilesStay)
<1> SUFFICES ASSUME MaxAdvance <= Keep PROVE Spec => []RetainedFilesStay
  OBVIOUS
<1>1. LimitInv => RetainedFilesStay
  BY DEF LimitInv
<1> QED
  BY <1>1, PruneInv, PTL

-----------------------------------------------------------------------------
(* What Core is asked for, however far its tip moves meanwhile.            *)

\* From the reading of the tip on a height is not above it, and with the
\* request it is positive.
Acceptable(p) ==
    /\ pc[p] \in Bounded => height[p] <= tip
    /\ pc[p] = "p_wait" => height[p] >= 1

AcceptedInv == \A p \in Procs : Acceptable(p)

\* The tip never goes back.
LEMMA TipGrows ==
    ASSUME TypeInv, [Next]_vars
    PROVE  tip \in Int /\ tip' \in Int /\ tip <= tip'
<1> USE DEF TypeInv, TypeOK, CoreTypeOK, Heights
<1>1. ASSUME NEW p \in Procs, Start(p) \/ Step(p) \/ Interrupted(p) PROVE tip' = tip
  BY <1>1, ProcessMoves DEF OwnStep
<1>2. CASE CoreWrites
  BY <1>2 DEF CoreWrites, Arrive, Roll, Connect
<1>3. CASE StoreLoses \/ ScannerAdvances \/ (\E r \in late : LatePrune(r)) \/ UNCHANGED vars
  BY <1>3 DEF StoreLoses, ScannerAdvances, LatePrune, PruneTo, vars, coreVars
<1> QED
  BY <1>1, <1>2, <1>3 DEF Next, Environment

\* Each step of a prune.
LEMMA PruneAsks ==
    ASSUME TypeInv, NEW p \in Procs, Acceptable(p), PruneBlocksStep(p)
    PROVE  Acceptable(p)'
<1> USE DEF TypeInv, TypeOK, PruneTypeOK, CoreTypeOK, Goes, Acceptable, Bounded
<1>0. /\ UNCHANGED <<first, onDisk, tip, scanned>>
      /\ tip \in Int /\ height[p] \in Int \union {None}
      /\ pc[p] \in Bounded => height[p] \in Int
      /\ scanned # None => scanned \in Int
  BY PruneFrame DEF pruneFrame, coreVars, Heights, LabelsOK
<1>1. CASE ListForVerify(p) \/ VerifyNext(p) \/ ListForScan(p) \/ ScanNext(p) \/ ScanDone(p)
           \/ BoundNext(p) \/ BoundDone(p)
  <2>1. pc'[p] \in {"p_verify", "p_scan", "p_bound", "p_tip"}
    BY <1>1 DEF ListForVerify, VerifyNext, ListForScan, ScanNext, ScanDone, BoundNext, BoundDone
  <2> QED
    BY <2>1
<1>2. CASE ReadTip(p)
  BY <1>0, <1>2 DEF ReadTip, Lower
<1>3. CASE ListProtected(p) \/ ProtectDone(p)
  BY <1>0, <1>3 DEF ListProtected, ProtectDone, scanVars
<1>4. CASE ProtectNext(p)
  <2>1. PICK g \in todo[p] : ProtectNext(p)!(g)
    BY <1>4 DEF ProtectNext
  <2>2. BoundOf(g) \in Int
    BY <2>1 DEF BoundOf, Heights
  <2> QED
    BY <1>0, <2>1, <2>2 DEF Lower
<1>5. CASE ReadCeiling(p)
  BY <1>0, <1>5 DEF ReadCeiling, Ceiling, Lower
<1>6. CASE CallPrune(p)
  BY <1>0, <1>6 DEF CallPrune, NothingToPrune, scanVars
<1> QED
  BY <1>1, <1>2, <1>3, <1>4, <1>5, <1>6 DEF PruneBlocksStep

\* Every step.
LEMMA AcceptedStep == TypeInv /\ AcceptedInv /\ [Next]_vars => AcceptedInv'
<1> SUFFICES ASSUME TypeInv, AcceptedInv, [Next]_vars, NEW q \in Procs
             PROVE  Acceptable(q)'
  BY DEF AcceptedInv
<1>1. tip \in Int /\ tip' \in Int /\ tip <= tip'
  BY TipGrows
<1>2. Acceptable(q) /\ (pc[q] \in Bounded => height[q] \in Int)
  BY DEF AcceptedInv, TypeInv, LabelsOK
<1>3. CASE pc'[q] = pc[q] /\ height'[q] = height[q]
  BY <1>1, <1>2, <1>3 DEF Acceptable
<1>4. ASSUME NEW p \in Procs, Start(p) \/ Step(p) \/ Interrupted(p) PROVE Acceptable(q)'
  <2>1. OwnStep(p) /\ (PruneBlocksStep(p) \/ pc'[p] \notin WaitingPcs)
    BY <1>4, ProcessMoves
  <2>2. CASE p # q
    BY <1>3, <2>1, <2>2 DEF OwnStep
  <2>3. CASE p = q /\ pc'[p] \notin WaitingPcs
    BY <2>3 DEF Acceptable, Bounded, WaitingPcs, PrunePcs
  <2>4. CASE p = q /\ PruneBlocksStep(p)
    BY <1>2, <2>4, PruneAsks
  <2> QED
    BY <2>1, <2>2, <2>3, <2>4
<1>5. CASE Environment \/ UNCHANGED vars
  <2>1. UNCHANGED <<pc, height>>
    BY <1>5 DEF Environment, CoreWrites, StoreLoses, ScannerAdvances, LatePrune, vars, jobVars, pruneVars,
                scanVars
  <2> QED
    BY <1>3, <2>1
<1> QED
  BY <1>4, <1>5 DEF Next

\* Core is never asked to prune above its tip or below height 1, however far
\* the tip moves between its reading and the request (prune.py:53-54, 74-75 and
\* 152-154).
THEOREM CoreAlwaysAccepts == Spec => []CoreAcceptsTheHeight
<1>1. Init => TypeInv /\ AcceptedInv
  BY TypeInit DEF Init, AcceptedInv, Acceptable, Bounded
<1>2. TypeInv /\ AcceptedInv /\ [Next]_vars => (TypeInv /\ AcceptedInv)'
  BY TypeStep, AcceptedStep
<1>3. TypeInv /\ AcceptedInv => CoreAcceptsTheHeight
  BY DEF TypeInv, TypeOK, CoreTypeOK, LabelsOK, AcceptedInv, Acceptable, Bounded,
         CoreAcceptsTheHeight, Heights
<1> QED
  BY <1>1, <1>2, <1>3, PTL DEF Spec

=============================================================================
