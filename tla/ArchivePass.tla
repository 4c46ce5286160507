----------------------------- MODULE ArchivePass -----------------------------
(***************************************************************************)
(* The archiver beside Bitcoin Core: archive() (archive.py) and the        *)
(* prune-only pass of main() (cli.py), run by processes that share one     *)
(* lock file, one state directory and one store, and may fail or be killed *)
(* at any step.                                                            *)
(***************************************************************************)
EXTENDS PruneBlocks, FiniteSets

CONSTANTS
    KeepLatest,   \* keep_latest_files
    BatchFiles,   \* PRUNE_BATCH_FILES (16)
    PruneAfter,   \* prune_after_archive
    MaxFaults,    \* bound: how many passes fail or are killed
    MaxAdvance    \* assumed: how far the tip moves while a prune is under way

ASSUME PassAssumption ==
    /\ KeepLatest \in Nat
    /\ BatchFiles \in Nat \ {0}
    /\ MaxFaults \in Nat
    /\ MaxAdvance \in Nat
    /\ PruneAfter \in BOOLEAN
    /\ UseCeiling \in BOOLEAN
    /\ PruneOnly \subseteq Procs
    /\ RetainFrom \in Files \union {None}
    /\ None \notin Procs \union Int

VARIABLES
    lock,    \* the process that holds the archive lock, None when free
    queue,   \* the files a pass has still to archive
    done,    \* how many files of the current batch it has taken
    faults   \* how many passes failed or were killed

passVars == <<lock, queue, done, faults>>

vars == <<coreVars, storageVars, marker, jobVars, pruneVars, passVars>>

Labels == {"idle", "list", "next"} \union ArchivePcs \union PrunePcs

PassTypeOK ==
    /\ lock \in Procs \union {None}
    /\ queue \in [Procs -> SUBSET Files]
    /\ done \in [Procs -> 0..BatchFiles]
    /\ faults \in 0..MaxFaults

TypeOK ==
    /\ CoreTypeOK
    /\ MarkersTypeOK
    /\ StorageTypeOK
    /\ pc \in [Procs -> Labels]
    /\ ArchiveTypeOK
    /\ PruneTypeOK
    /\ PassTypeOK

Init ==
    /\ CoreInit
    /\ MarkersInit
    /\ StorageInit
    /\ pc = [p \in Procs |-> "idle"]
    /\ cur = [p \in Procs |-> None]
    /\ before = [p \in Procs |-> None]
    /\ sha = [p \in Procs |-> None]
    /\ ranges = [p \in Procs |-> {}]
    /\ todo = [p \in Procs |-> {}]
    /\ pending = [p \in Procs |-> {}]
    /\ verified = [p \in Procs |-> {}]
    /\ base = [p \in Procs |-> 0]
    /\ height = [p \in Procs |-> None]
    /\ late = {}
    /\ scanned = None
    /\ lock = None
    /\ queue = [p \in Procs |-> {}]
    /\ done = [p \in Procs |-> 0]
    /\ faults = 0

-----------------------------------------------------------------------------
(* One pass.                                                               *)

\* The locals of archive_block and of prune_archived_blocks go out of scope.
ForgetFile(p) ==
    /\ before' = [before EXCEPT ![p] = None]
    /\ sha' = [sha EXCEPT ![p] = None]
    /\ ranges' = [ranges EXCEPT ![p] = {}]

ForgetScan(p) ==
    /\ todo' = [todo EXCEPT ![p] = {}]
    /\ pending' = [pending EXCEPT ![p] = {}]
    /\ verified' = [verified EXCEPT ![p] = {}]
    /\ base' = [base EXCEPT ![p] = 0]
    /\ height' = [height EXCEPT ![p] = None]

\* The pass is over, its locals are gone and the lock is free again.
EndPass(p) ==
    /\ pc' = [pc EXCEPT ![p] = "idle"]
    /\ cur' = [cur EXCEPT ![p] = None]
    /\ ForgetFile(p)
    /\ ForgetScan(p)
    /\ queue' = [queue EXCEPT ![p] = {}]
    /\ done' = [done EXCEPT ![p] = 0]
    /\ lock' = None

\* Mutant of LockFree: the lock excludes nobody.
LockIgnored == TRUE

LockFree == lock = None

\* flock: a process that does not get the lock leaves everything as it is.
Start(p) ==
    /\ pc[p] = "idle"
    /\ LockFree
    /\ lock' = p
    /\ Goes(p, IF p \in PruneOnly THEN "prune" ELSE "list")
    /\ UNCHANGED <<coreVars, storageVars, marker, cur, locals, pruneVars, queue, done, faults>>

\* Mutant of Archivable: one file too many is held back.
ArchivableTooFew ==
    {f \in onDisk : Cardinality({g \in onDisk : g > f}) > KeepLatest}

\* All but the newest KeepLatest files of the block directory.
Archivable ==
    {f \in onDisk : Cardinality({g \in onDisk : g > f}) >= KeepLatest}

ListBlocks(p) ==
    /\ pc[p] = "list"
    /\ queue' = [queue EXCEPT ![p] = Archivable]
    /\ Goes(p, "next")
    /\ UNCHANGED <<coreVars, storageVars, marker, cur, locals, pruneVars, lock, done, faults>>

\* Mutant of BatchHasRoom: an off-by-one at the end of the batch.
BatchOverflows(p) == done[p] <= BatchFiles

BatchHasRoom(p) == done[p] < BatchFiles

\* The next file of the batch; the previous one is done with.
NextFile(p) ==
    \E f \in queue[p] :
        /\ pc[p] = "next"
        /\ IsFirstOf(f, queue[p])
        /\ BatchHasRoom(p)
        /\ cur' = [cur EXCEPT ![p] = f]
        /\ ForgetFile(p)
        /\ queue' = [queue EXCEPT ![p] = @ \ {f}]
        /\ done' = [done EXCEPT ![p] = @ + 1]
        /\ Goes(p, "examine")
        /\ UNCHANGED <<coreVars, storageVars, marker, pruneVars, lock, faults>>

\* A batch ends when it is full or the list is exhausted.  Also an empty list
\* makes one batch, so that such a pass still prunes (archive.py:209-210).
BatchDone(p) ==
    /\ pc[p] = "next"
    /\ queue[p] = {} \/ done[p] = BatchFiles

\* Mutant of NextBatch: the batch count is not reset.
NextBatchUncounted(p) ==
    IF queue[p] = {}
    THEN EndPass(p)
    ELSE /\ Goes(p, "next")
         /\ ForgetScan(p)
         /\ UNCHANGED <<cur, locals, queue, done, lock>>

\* The next batch, or the end of the pass.
NextBatch(p) ==
    IF queue[p] = {}
    THEN EndPass(p)
    ELSE /\ Goes(p, "next")
         /\ done' = [done EXCEPT ![p] = 0]
         /\ ForgetScan(p)
         /\ UNCHANGED <<cur, locals, queue, lock>>

EndBatch(p) ==
    /\ BatchDone(p)
    /\ IF PruneAfter
       THEN Goes(p, "prune") /\ UNCHANGED <<cur, locals, scanVars, queue, done, lock>>
       ELSE NextBatch(p)
    /\ UNCHANGED <<coreVars, storageVars, marker, late, scanned, faults>>

\* prune_archived_blocks returned without a request.
SkipPrune(p) ==
    /\ PruneReturns(p)
    /\ NextBatch(p)
    /\ UNCHANGED <<coreVars, storageVars, marker, late, scanned, faults>>

\* Core executes the request of a waiting caller and answers.
CorePrunes(p) ==
    /\ pc[p] = "p_wait"
    /\ PruneTo(height[p])
    /\ NextBatch(p)
    /\ UNCHANGED <<storageVars, marker, late, scanned, faults>>

\* archive_block or prune_archived_blocks raises over what it found.
Refuse(p) ==
    /\ ArchiveRefuses(p) \/ PruneRefuses(p)
    /\ EndPass(p)
    /\ UNCHANGED <<coreVars, storageVars, marker, late, scanned, faults>>

\* A call fails or times out, the watchdog cancels the pass, or the process
\* is killed.  A request that Core already has may still be executed.
Interrupted(p) ==
    /\ pc[p] # "idle"
    /\ faults < MaxFaults
    /\ faults' = faults + 1
    /\ late' = IF pc[p] = "p_wait" THEN late \union {RequestOf(p)} ELSE late
    /\ EndPass(p)
    /\ UNCHANGED <<coreVars, storageVars, marker, scanned>>

-----------------------------------------------------------------------------
(* What runs beside the passes.                                            *)

Waiting == {p \in Procs : pc[p] \in PrunePcs \ {"prune", "p_verify"}}

\* The tip when each prune that may still delete files listed the directory.
Bases == {base[p] : p \in Waiting} \union {r.base : r \in late}

CoreWrites ==
    /\ \/ \E h \in Heights : Arrive(h)
       \/ Roll
       \/ Connect /\ \A b \in Bases : tip + 1 - b <= MaxAdvance
    /\ UNCHANGED <<storageVars, marker, jobVars, pruneVars, passVars>>

LatePrune(r) ==
    /\ r \in late
    /\ PruneTo(r.height)
    /\ late' = late \ {r}
    /\ UNCHANGED <<storageVars, marker, jobVars, scanVars, scanned, passVars>>

StoreLoses ==
    /\ \E f \in Files : LoseObject(f) \/ LoseSidecar(f)
    /\ UNCHANGED <<coreVars, marker, jobVars, pruneVars, passVars>>

\* The consumer of prune_ceiling_file has read the chain further.
ScannerAdvances ==
    /\ UseCeiling
    /\ \E h \in Heights :
        /\ h <= tip
        /\ scanned # None => h > scanned
        /\ scanned' = h
    /\ UNCHANGED <<coreVars, storageVars, marker, jobVars, scanVars, late, passVars>>

-----------------------------------------------------------------------------

Step(p) ==
    \/ ArchiveBlockStep(p) /\ UNCHANGED <<pruneVars, passVars>>
    \/ PruneBlocksStep(p) /\ UNCHANGED passVars
    \/ ListBlocks(p)
    \/ NextFile(p)
    \/ EndBatch(p)
    \/ SkipPrune(p)
    \/ CorePrunes(p)
    \/ Refuse(p)

Environment ==
    \/ CoreWrites
    \/ StoreLoses
    \/ ScannerAdvances
    \/ \E r \in late : LatePrune(r)

Next ==
    \/ \E p \in Procs : Start(p) \/ Step(p) \/ Interrupted(p)
    \/ Environment

Spec == Init /\ [][Next]_vars

\* A process that is not killed goes on with its pass, run_repeatedly starts
\* the next one, and Core answers.  Core and the peers owe nothing.
FairSpec == Spec /\ \A p \in Procs : WF_vars(Start(p)) /\ WF_vars(Step(p))
=============================================================================
