------------------------------- MODULE Storage -------------------------------
(***************************************************************************)
(* The S3-compatible store as s5cmd drives it (s3.py): per block file one  *)
(* block object and one metadata sidecar.  The store may lose an object    *)
(* after it was uploaded; `lost` names the ones missing for that reason.   *)
(***************************************************************************)
EXTENDS Markers

CONSTANT MaxDamage   \* bound: how many objects the store loses

\* The absence of an object is not an object.
ASSUME StorageAssumption == MaxDamage \in Nat /\ None \notin AllBytes

VARIABLES
    object,    \* the block object of each file, None before its upload
    sidecar,   \* the metadata sidecar of each file, None before its upload
    lost,      \* what the store lost and no later upload replaced
    losses     \* how many objects were lost so far

storageVars == <<object, sidecar, lost, losses>>

Kinds == {"object", "sidecar"}

StorageTypeOK ==
    /\ object \in [Files -> AllBytes \union {None}]
    /\ sidecar \in [Files -> Sidecars \union {None}]
    /\ lost \in SUBSET (Files \X Kinds)
    /\ losses \in 0..MaxDamage

StorageInit ==
    /\ object = [f \in Files |-> None]
    /\ sidecar = [f \in Files |-> None]
    /\ lost = {}
    /\ losses = 0

\* `s5cmd cp` of the block file as it is now.
UploadObject(f) ==
    /\ object' = [object EXCEPT ![f] = Bytes(f)]
    /\ lost' = lost \ {<<f, "object">>}
    /\ UNCHANGED <<sidecar, losses>>

\* `s5cmd cp` of the sidecar.
UploadSidecar(f, side) ==
    /\ sidecar' = [sidecar EXCEPT ![f] = side]
    /\ lost' = lost \ {<<f, "sidecar">>}
    /\ UNCHANGED <<object, losses>>

\* S5cmdClient.verify: the object is there with the expected size, and the
\* sidecar is the expected one.  The object's content is not read back.
Verifies(f, side) ==
    /\ object[f] # None
    /\ object[f].sealed = side.sealed
    /\ sidecar[f] = side

\* The store loses a block object or a sidecar.
LoseObject(f) ==
    /\ losses < MaxDamage /\ object[f] # None
    /\ object' = [object EXCEPT ![f] = None]
    /\ lost' = lost \union {<<f, "object">>}
    /\ losses' = losses + 1
    /\ UNCHANGED sidecar

LoseSidecar(f) ==
    /\ losses < MaxDamage /\ sidecar[f] # None
    /\ sidecar' = [sidecar EXCEPT ![f] = None]
    /\ lost' = lost \union {<<f, "sidecar">>}
    /\ losses' = losses + 1
    /\ UNCHANGED object
=============================================================================
