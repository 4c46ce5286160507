-------------------------- MODULE SnapshotProofs --------------------------
(***************************************************************************)
(* Proofs about the snapshots for any number of them and of failures: what *)
(* latest.json names is complete, what is published stays, and a restore   *)
(* brings both roots of one snapshot into a directory of its own.          *)
(***************************************************************************)
EXTENDS Snapshots, TLAPS

BackupLabels == {"idle", "manifest", "load", "putTar", "checkTar", "putManifest",
                 "checkManifest", "publish"}
RestoreLabels == {"idle", "lock", "recheck", "latest", "download", "unpack",
                  "move", "done"}
Known == 0..MaxSnapshots

TypeOK ==
    /\ bpc \in BackupLabels /\ rpc \in RestoreLabels
    /\ created \in Known /\ tar \in Known /\ manifest \in Known
    /\ loaded \in Known /\ latest \in Known
    /\ tars \in [Snapshot -> Known] /\ manifests \in [Snapshot -> Known]
    /\ wanted \in Known /\ download \in Known /\ staging \in Known
    /\ root \in [Roots -> Known]
    /\ core \in {"no", "running", "ended"}
    /\ rpc = "download" => wanted # 0

-----------------------------------------------------------------------------
(* What is published.                                                      *)

\* A remote prefix holds what belongs there, or nothing yet.
Filed == \A s \in Snapshot : tars[s] \in {0, s} /\ manifests[s] \in {0, s}

\* Nothing is staged, loaded or published before it was created.
Aged == latest <= manifest /\ manifest <= tar /\ tar = created

\* What an upload works on, and how far it has come.
Uploading ==
    /\ bpc = "manifest" => tar # 0
    /\ bpc = "load" => manifest # 0
    /\ bpc \in {"putTar", "checkTar", "putManifest", "checkManifest", "publish"} =>
          loaded # 0 /\ loaded = manifest /\ manifest = tar
    /\ bpc \in {"putManifest", "checkManifest", "publish"} => tars[loaded] = loaded
    /\ bpc = "publish" => manifests[loaded] = loaded

PublishInv == TypeOK /\ Filed /\ Aged /\ Uploading /\ LatestIsComplete

-----------------------------------------------------------------------------
(* What is restored.                                                       *)

\* Behind the recheck the restore has the lock and Core has never run.
Reserved == rpc \in {"latest", "download", "unpack", "move", "done"} => core = "no"

\* What restore has in hand, and how far it has come.
Restoring ==
    /\ rpc \in {"lock", "recheck", "latest", "download", "unpack"} /\ core = "no" =>
          staging = 0 /\ \A r \in Roots : root[r] = 0
    /\ rpc = "unpack" => download # 0
    /\ rpc = "move" => staging # 0 /\ \A r \in Roots : root[r] \in {0, staging}

RestoreInv == TypeOK /\ Reserved /\ Restoring /\ RestoredTogether /\ NeverMixed
-----------------------------------------------------------------------------
\* Every step keeps the types.
LEMMA TypeStep == TypeOK /\ [Next]_vars => TypeOK'
<1> SUFFICES ASSUME TypeOK, [Next]_vars PROVE TypeOK'
  OBVIOUS
<1> USE SnapshotsAssumption DEF TypeOK, BackupLabels, RestoreLabels, Known,
        Snapshot, Roots, Prefix, backup, remote, restore
<1>1. CASE CreateTar
  BY <1>1 DEF CreateTar
<1>2. CASE CreateManifest
  BY <1>2 DEF CreateManifest
<1>3. CASE UploadAgain
  BY <1>3 DEF UploadAgain
<1>4. CASE Load
  BY <1>4 DEF Load
<1>5. CASE PutTar
  BY <1>5 DEF PutTar, Fault
<1>6. CASE CheckTar
  BY <1>6 DEF CheckTar, TarStored
<1>7. CASE PutManifest
  BY <1>7 DEF PutManifest, Fault
<1>8. CASE CheckManifest
  BY <1>8 DEF CheckManifest
<1>9. CASE Publish
  BY <1>9 DEF Publish, Fault
<1>10. CASE BackupFails
  BY <1>10 DEF BackupFails, Fault
<1>11. CASE Look
  BY <1>11 DEF Look, RestoreStep, Empty
<1>12. CASE LockData
  BY <1>12 DEF LockData, RestoreStep
<1>13. CASE Recheck
  BY <1>13 DEF Recheck, RestoreStep, Empty
<1>14. CASE ReadLatest
  BY <1>14 DEF ReadLatest, RestoreStep
<1>15. CASE Download
  BY <1>15 DEF Download, RestoreStep
<1>16. CASE Unpack
  BY <1>16 DEF Unpack, RestoreStep
<1>17. CASE Move
  BY <1>17 DEF Move, RestoreStep, NextRoot
<1>18. CASE Finish
  BY <1>18 DEF Finish, RestoreStep
<1>19. CASE RestoreFails
  BY <1>19 DEF RestoreFails, RestoreIdle, Fault
<1>20. CASE RestoreKilled
  BY <1>20 DEF RestoreKilled, RestoreIdle, Fault
<1>21. CASE CoreStarts
  BY <1>21 DEF CoreStarts, LockIsFree, Empty
<1>22. CASE CoreEnds
  BY <1>22 DEF CoreEnds
<1>23. CASE UNCHANGED vars
  BY <1>23 DEF vars
<1>24. QED
  BY <1>1, <1>2, <1>3, <1>4, <1>5, <1>6, <1>7, <1>8, <1>9, <1>10, <1>11, <1>12, <1>13, <1>14, <1>15, <1>16, <1>17, <1>18, <1>19, <1>20, <1>21, <1>22, <1>23 DEF Next, Backup, Restore

\* Every step keeps what is published, and where the upload stands.
LEMMA PublishStep == PublishInv /\ [Next]_vars => PublishInv'
<1> SUFFICES ASSUME PublishInv, [Next]_vars
             PROVE  (Filed /\ Aged /\ Uploading /\ LatestIsComplete)'
  BY TypeStep DEF PublishInv
<1> USE SnapshotsAssumption DEF PublishInv, TypeOK, BackupLabels, Filed, Aged,
        Uploading, LatestIsComplete, Known, Snapshot, Prefix, backup, remote
<1>1. CASE CreateTar
  BY <1>1 DEF CreateTar
<1>2. CASE CreateManifest
  BY <1>2 DEF CreateManifest
<1>3. CASE UploadAgain
  BY <1>3 DEF UploadAgain
<1>4. CASE Load
  BY <1>4 DEF Load
<1>5. CASE PutTar
  BY <1>5 DEF PutTar, Fault
<1>6. CASE CheckTar
  BY <1>6 DEF CheckTar, TarStored
<1>7. CASE PutManifest
  BY <1>7 DEF PutManifest, Fault
<1>8. CASE CheckManifest
  BY <1>8 DEF CheckManifest
<1>9. CASE Publish
  BY <1>9 DEF Publish, Fault
<1>10. CASE BackupFails
  BY <1>10 DEF BackupFails, Fault
<1>11. CASE Restore \/ CoreStarts \/ CoreEnds
  BY <1>11 DEF Restore, Look, LockData, Recheck, ReadLatest, Download, Unpack, Move, Finish, RestoreFails, RestoreKilled, CoreStarts, CoreEnds, RestoreStep
<1>12. CASE UNCHANGED vars
  BY <1>12 DEF vars
<1>13. QED
  BY <1>1, <1>2, <1>3, <1>4, <1>5, <1>6, <1>7, <1>8, <1>9, <1>10, <1>11, <1>12 DEF Next, Backup

\* Every step keeps the data directory as the restore's progress tells.
LEMMA RestoreStepInv == RestoreInv /\ [Next]_vars => RestoreInv'
<1> SUFFICES ASSUME RestoreInv, [Next]_vars
             PROVE  (Reserved /\ Restoring /\ RestoredTogether /\ NeverMixed)'
  BY TypeStep DEF RestoreInv
<1> USE DEF RestoreInv, TypeOK, Reserved, Restoring, RestoredTogether,
        NeverMixed, Known, Snapshot, Roots, Prefix, restore
<1>1. CASE Look
  BY <1>1 DEF Look, RestoreStep, Empty
<1>2. CASE LockData
  BY <1>2 DEF LockData, RestoreStep
<1>3. CASE Recheck
  BY <1>3 DEF Recheck, RestoreStep, Empty
<1>4. CASE ReadLatest
  BY <1>4 DEF ReadLatest, RestoreStep
<1>5. CASE Download
  BY <1>5 DEF Download, RestoreStep
<1>6. CASE Unpack
  BY <1>6 DEF Unpack, RestoreStep
<1>7. CASE Move
  BY <1>7 DEF Move, RestoreStep, NextRoot
<1>8. CASE Finish
  BY <1>8 DEF Finish, RestoreStep
<1>9. CASE RestoreFails
  BY <1>9 DEF RestoreFails, RestoreIdle, Fault
<1>10. CASE RestoreKilled
  BY <1>10 DEF RestoreKilled, RestoreIdle, Fault
<1>11. CASE CoreStarts
  BY <1>11 DEF CoreStarts, LockIsFree, Empty
<1>12. CASE CoreEnds
  BY <1>12 DEF CoreEnds
<1>13. CASE Backup
  BY <1>13 DEF Backup, CreateTar, CreateManifest, UploadAgain, Load, PutTar, CheckTar, PutManifest, CheckManifest, Publish, BackupFails
<1>14. CASE UNCHANGED vars
  BY <1>14 DEF vars
<1>15. QED
  BY <1>1, <1>2, <1>3, <1>4, <1>5, <1>6, <1>7, <1>8, <1>9, <1>10, <1>11, <1>12, <1>13, <1>14 DEF Next, Restore

\* The invariants hold at the start and throughout.
LEMMA SnapshotInvariant == Spec => [](PublishInv /\ RestoreInv)
<1>1. Init => PublishInv /\ RestoreInv
  BY SnapshotsAssumption DEF Init, PublishInv, RestoreInv, TypeOK, BackupLabels,
     RestoreLabels, Known, Snapshot, Roots, Filed, Aged, Uploading,
     LatestIsComplete, Reserved, Restoring, RestoredTogether, NeverMixed
<1>2. PublishInv /\ RestoreInv /\ [Next]_vars => (PublishInv /\ RestoreInv)'
  BY PublishStep, RestoreStepInv
<1>3. QED
  BY <1>1, <1>2, PTL DEF Spec

\* The snapshot that latest.json names is in the store in full.
THEOREM LatestComplete == Spec => []LatestIsComplete
<1>1. PublishInv => LatestIsComplete
  BY DEF PublishInv
<1>2. QED
  BY <1>1, SnapshotInvariant, PTL

\* A restored chainstate stands beside the blocks of its snapshot.
THEOREM RestoresTogether == Spec => []RestoredTogether
<1>1. RestoreInv => RestoredTogether
  BY DEF RestoreInv
<1>2. QED
  BY <1>1, SnapshotInvariant, PTL

\* A restore leaves a directory alone that Core has used.
THEOREM RestoresNeverMix == Spec => []NeverMixed
<1>1. RestoreInv => NeverMixed
  BY DEF RestoreInv
<1>2. QED
  BY <1>1, SnapshotInvariant, PTL

\* Snapshots in the store stay, and latest.json moves forward only.
THEOREM PublishedRemains == Spec => PublishedStays
<1>1. PublishInv /\ [Next]_vars =>
        [/\ \A s \in Snapshot : tars[s] = s => tars'[s] = s
         /\ latest' # latest => latest' > latest]_vars
  <2> SUFFICES ASSUME PublishInv, Next
               PROVE  /\ \A s \in Snapshot : tars[s] = s => tars'[s] = s
                      /\ latest' # latest => latest' > latest
    OBVIOUS
  <2> USE DEF PublishInv, TypeOK, Aged, Uploading, Known, Snapshot, Prefix
  <2>1. CASE PutTar
    BY <2>1 DEF PutTar
  <2>2. CASE Publish
    BY <2>2 DEF Publish, remote
  <2>3. CASE ~PutTar /\ ~Publish
    <3>1. UNCHANGED <<tars, latest>>
      BY <2>3 DEF Next, Backup, Restore, CreateTar, CreateManifest, UploadAgain,
         Load, CheckTar, PutManifest, CheckManifest, BackupFails, Look, LockData,
         Recheck, ReadLatest, Download, Unpack, Move, Finish, RestoreFails,
         RestoreKilled, CoreStarts, CoreEnds, RestoreStep, remote
    <3>2. QED
      BY <3>1
  <2>4. QED
    BY <2>1, <2>2, <2>3
<1>2. QED
  BY <1>1, SnapshotInvariant, PTL DEF Spec, PublishedStays

-----------------------------------------------------------------------------
(* The implementation of the store of snapshots.                           *)

\* A restore works on a complete snapshot that was published.
Wanting ==
    /\ rpc \in {"download", "unpack", "move", "done"} =>
          wanted \in Complete /\ wanted <= latest
    /\ rpc = "unpack" => download = wanted
    /\ rpc = "move" => staging = wanted
    /\ rpc = "done" => root["chainstate"] = wanted

PromiseInv == PublishInv /\ RestoreInv /\ Wanting

\* Complete snapshots stay and the latest is never replaced by an older one.
LEMMA StoreGrows ==
    PublishInv /\ [Next]_vars => Complete \subseteq Complete' /\ latest <= latest'
<1> SUFFICES ASSUME PublishInv, [Next]_vars
             PROVE  Complete \subseteq Complete' /\ latest <= latest'
  OBVIOUS
<1> USE SnapshotsAssumption DEF PublishInv, TypeOK, Aged, Uploading, Complete,
        Known, Snapshot, Prefix, remote
<1>1. CASE PutTar
  BY <1>1 DEF PutTar
<1>2. CASE PutManifest
  BY <1>2 DEF PutManifest
<1>3. CASE Publish
  BY <1>3 DEF Publish
<1>4. CASE UNCHANGED remote
  BY <1>4
<1>5. CASE UNCHANGED vars
  BY <1>5 DEF vars
<1>6. QED
  BY <1>1, <1>2, <1>3, <1>4, <1>5 DEF Next, Backup, Restore, CreateTar,
     CreateManifest, UploadAgain, Load, CheckTar, CheckManifest, BackupFails, Look,
     LockData, Recheck, ReadLatest, Download, Unpack, Move, Finish, RestoreFails,
     RestoreKilled, CoreStarts, CoreEnds, RestoreStep

\* Every step keeps what a restore works on.
LEMMA WantingStep == PromiseInv /\ [Next]_vars => Wanting'
<1> SUFFICES ASSUME PromiseInv, [Next]_vars PROVE Wanting'
  OBVIOUS
<1>1. Complete \subseteq Complete' /\ latest <= latest'
  BY StoreGrows DEF PromiseInv
<1>2. latest \in Int /\ latest' \in Int /\ wanted \in Int
  BY TypeStep, SnapshotsAssumption DEF PromiseInv, PublishInv, TypeOK, Known
<1>3. CASE ReadLatest
  <2>1. latest # 0 => latest \in Complete
    BY DEF PromiseInv, PublishInv, LatestIsComplete, TypeOK, Known, Snapshot, Complete
  <2>2. QED
    BY <1>1, <1>2, <1>3, <2>1 DEF ReadLatest, RestoreStep, Wanting
<1>4. CASE Download
  BY <1>1, <1>2, <1>4 DEF Download, RestoreStep, Wanting, PromiseInv, Prefix
<1>5. CASE Unpack
  BY <1>1, <1>2, <1>5 DEF Unpack, RestoreStep, Wanting, PromiseInv
<1>6. CASE Move
  BY <1>1, <1>2, <1>6 DEF Move, RestoreStep, Wanting, PromiseInv
<1>7. CASE Finish
  <2>1. root["chainstate"] = staging
    BY <1>7 DEF Finish, RestoreStep, PromiseInv, RestoreInv, Restoring, Roots
  <2>2. QED
    BY <1>1, <1>2, <1>7, <2>1 DEF Finish, RestoreStep, Wanting, PromiseInv
<1>8. CASE Look \/ LockData \/ Recheck \/ RestoreFails \/ RestoreKilled
  BY <1>8 DEF Look, LockData, Recheck, RestoreFails, RestoreKilled, RestoreStep, Wanting
<1>9. CASE UNCHANGED restore
  BY <1>1, <1>2, <1>9 DEF restore, Wanting, PromiseInv
<1>10. QED
  BY <1>3, <1>4, <1>5, <1>6, <1>7, <1>8, <1>9 DEF Next, Backup, Restore, CreateTar,
     CreateManifest, UploadAgain, Load, PutTar, CheckTar, PutManifest, CheckManifest,
     Publish, BackupFails, CoreStarts, CoreEnds, vars

\* The start is that of the store of snapshots.
LEMMA PromiseStart == Init => Promise!Init
  BY SnapshotsAssumption DEF Init, Promise!Init, Complete, Delivered, Snapshot, Prefix

\* Every step is one of the store of snapshots, or no step of it.
LEMMA PromiseStep == PromiseInv /\ [Next]_vars => [Promise!Next]_(Promise!storeVars)
<1> SUFFICES ASSUME PromiseInv, [Next]_vars
             PROVE  Promise!Next \/ UNCHANGED <<Complete, latest, Delivered>>
  BY DEF Promise!storeVars
<1> USE SnapshotsAssumption
<1>1. CASE PutTar \/ PutManifest
  <2>1. loaded \in Snapshot /\ tar = loaded /\ manifest = loaded
    BY <1>1 DEF PutTar, PutManifest, PromiseInv, PublishInv, TypeOK, Uploading, Known, Snapshot
  <2>2. Complete' = Complete \/ Complete' = Complete \union {loaded}
    BY <1>1, <2>1 DEF PutTar, PutManifest, PromiseInv, PublishInv, TypeOK, Complete, Prefix
  <2>3. latest' = latest /\ Delivered' = Delivered
    BY <1>1 DEF PutTar, PutManifest, Delivered, restore
  <2>4. QED
    BY <2>1, <2>2, <2>3 DEF Promise!Next, Promise!Store
<1>2. CASE Publish
  <2>1. /\ loaded \in Complete /\ loaded = manifest
        /\ manifest \in Int /\ latest \in Int /\ latest <= manifest
    BY <1>2 DEF Publish, PromiseInv, PublishInv, TypeOK, Uploading, Aged, Known,
       Snapshot, Complete, Prefix
  <2>2. Complete' = Complete /\ Delivered' = Delivered /\ latest' \in {latest, manifest}
    BY <1>2 DEF Publish, Complete, Delivered, restore, Prefix
  <2>3. loaded \in Snapshot
    BY <2>1 DEF Complete
  <2>4. CASE latest' # latest
    <3>1. Promise!Publish(loaded)
      BY <2>1, <2>2, <2>4 DEF Promise!Publish
    <3>2. QED
      BY <2>3, <3>1 DEF Promise!Next
  <2>5. QED
    BY <2>2, <2>4
<1>3. CASE Finish
  <2>1. root["chainstate"] = wanted /\ rpc = "move" /\ rpc' = "done"
    BY <1>3 DEF Finish, RestoreStep, PromiseInv, Wanting, RestoreInv, Restoring, Roots
  <2>2. wanted \in Complete /\ wanted <= latest /\ wanted \in Snapshot
    BY <2>1 DEF PromiseInv, Wanting, Complete
  <2>3. Complete' = Complete /\ latest' = latest /\ root' = root
    BY <1>3 DEF Finish, RestoreStep, Complete, remote, Prefix
  <2>4. Promise!Restore(wanted)
    BY <2>1, <2>2, <2>3 DEF Promise!Restore, Delivered
  <2>5. QED
    BY <2>2, <2>4 DEF Promise!Next
<1>4. CASE CreateTar \/ CreateManifest \/ UploadAgain \/ Load \/ CheckTar
           \/ CheckManifest \/ BackupFails \/ CoreStarts \/ CoreEnds
  BY <1>4 DEF CreateTar, CreateManifest, UploadAgain, Load, CheckTar, CheckManifest,
     BackupFails, CoreStarts, CoreEnds, Complete, Delivered, remote, restore, Prefix
<1>5. CASE Look \/ LockData \/ Recheck \/ ReadLatest \/ Download \/ Unpack \/ Move
           \/ RestoreFails \/ RestoreKilled
  <2>1. UNCHANGED remote /\ rpc # "done" /\ rpc' # "done"
    BY <1>5 DEF Look, LockData, Recheck, ReadLatest, Download, Unpack, Move,
       RestoreFails, RestoreKilled, RestoreIdle, RestoreStep
  <2>2. QED
    BY <2>1 DEF Complete, Delivered, remote, Prefix
<1>6. CASE UNCHANGED vars
  BY <1>6 DEF vars, Complete, Delivered, remote, restore, Prefix
<1>7. QED
  BY <1>1, <1>2, <1>3, <1>4, <1>5, <1>6 DEF Next, Backup, Restore

\* Uploads, failures and restores are together a store of complete snapshots.
THEOREM SnapshotsAreAStore == Spec => KeepsPromise
<1>1. Init => Wanting
  BY DEF Init, Wanting
<1>2. PromiseInv /\ [Next]_vars => PromiseInv'
  BY PublishStep, RestoreStepInv, WantingStep DEF PromiseInv
<1>3. Spec => []PromiseInv
  <2>1. Init => PublishInv /\ RestoreInv
    BY SnapshotsAssumption DEF Init, PublishInv, RestoreInv, TypeOK, BackupLabels,
       RestoreLabels, Known, Snapshot, Roots, Filed, Aged, Uploading,
       LatestIsComplete, Reserved, Restoring, RestoredTogether, NeverMixed
  <2>2. QED
    BY <1>1, <1>2, <2>1, PTL DEF Spec, PromiseInv
<1>4. QED
  BY <1>3, PromiseStart, PromiseStep, PTL DEF Spec, KeepsPromise, Promise!Spec
=============================================================================
