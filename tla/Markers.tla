------------------------------- MODULE Markers -------------------------------
(***************************************************************************)
(* The archiver's state directory (state.py): one marker per block file    *)
(* that records what was uploaded and the signature of its source.  A      *)
(* marker is replaced atomically, so a reader sees the old or the new one. *)
(* The schema checks of read_marker are left out: only this program writes *)
(* markers, and one it cannot read fails the pass like any other error.    *)
(***************************************************************************)
EXTENDS CoreNode

VARIABLE marker   \* the marker of each block file, None when there is none

\* What the remote sidecar says of a block object (models.sidecar_json).
Sidecars == [sealed: BOOLEAN, sha: AllBytes, heights: SUBSET Heights]
MarkerRecords == [side: Sidecars, signature: Signatures]

MarkersTypeOK == marker \in [Files -> MarkerRecords \union {None}]

MarkersInit == marker = [f \in Files |-> None]

\* Mutant of Current: the modification time is not compared.
CurrentBySize(f) ==
    marker[f] # None /\ marker[f].side.sealed = Signature(f).sealed

\* The local file is the one the marker was written for.
Current(f) ==
    /\ marker[f] # None
    /\ marker[f].side.sealed = Signature(f).sealed
    /\ marker[f].signature = Signature(f)

\* A marker whose file is gone is taken to match it.
MarkerMatches(f) == marker[f] # None /\ (f \in onDisk => Current(f))

AlreadyArchived(f) == MarkerMatches(f)

WriteMarker(f, side, signature) ==
    marker' = [marker EXCEPT ![f] = [side |-> side, signature |-> signature]]
=============================================================================
