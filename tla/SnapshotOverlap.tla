--------------------------- MODULE SnapshotOverlap ---------------------------
(***************************************************************************)
(* An upload whose client was killed.  Its container goes on, while the    *)
(* script, and with it the lock against a second backup, is gone; the next *)
(* run stages its own tar and manifest in the same directory.  upload and  *)
(* create take no lock of their own: upload reads manifest.json once for   *)
(* its checks and opens both files by name for every transfer.             *)
(*                                                                         *)
(* Simplification: the next run comes as far as its own upload only when   *)
(* the one before has ended.                                               *)
(*                                                                         *)
(* Snapshots' LatestIsComplete does not hold here.                         *)
(***************************************************************************)
EXTENDS Snapshots

VARIABLES
    orphaned,   \* the upload's client was lost
    beside      \* next step of the other run's create: "none", "manifest"

overlapVars == <<vars, orphaned, beside>>

Uploading == bpc \in {"putTar", "checkTar", "putManifest", "checkManifest", "publish"}

OverlapInit == Init /\ orphaned = FALSE /\ beside = "none"

LoseClient ==
    /\ Uploading /\ ~orphaned
    /\ Fault /\ orphaned' = TRUE
    /\ UNCHANGED <<backup, remote, restore, core, beside>>

\* create of the next run: temporary.replace(core.tar), then write_json.
TarBeside ==
    /\ orphaned /\ beside = "none" /\ created < MaxSnapshots
    /\ created' = created + 1 /\ tar' = created + 1
    /\ beside' = "manifest"
    /\ UNCHANGED <<bpc, manifest, loaded, remote, restore, core, faults, orphaned>>

ManifestBeside ==
    /\ beside = "manifest" /\ beside' = "none"
    /\ manifest' = tar
    /\ UNCHANGED <<bpc, created, tar, loaded, remote, restore, core, faults, orphaned>>

\* The steps of Snapshots; nobody else begins while the next run stages its files.
Alone ==
    /\ Next
    /\ bpc = "idle" /\ bpc' # "idle" => beside = "none"
    /\ orphaned' = (orphaned /\ bpc' # "idle")
    /\ UNCHANGED beside

OverlapNext == Alone \/ LoseClient \/ TarBeside \/ ManifestBeside

OverlapSpec == OverlapInit /\ [][OverlapNext]_overlapVars

=============================================================================
