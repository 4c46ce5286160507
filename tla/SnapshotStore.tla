---------------------------- MODULE SnapshotStore ----------------------------
(***************************************************************************)
(* What the snapshots of core_backup.py promise, without saying how: a     *)
(* store of complete snapshots that only grows, of which one at a time is  *)
(* the latest, and hosts that get a whole snapshot of it or nothing.       *)
(***************************************************************************)
EXTENDS Integers

CONSTANT Snapshot

VARIABLES
    complete,   \* the snapshots that can be restored
    latest,     \* the published one, 0 before the first
    restored    \* the snapshot that a restore has delivered, 0 for none

storeVars == <<complete, latest, restored>>

Init == complete = {} /\ latest = 0 /\ restored = 0

Store(s) ==
    /\ complete' = complete \union {s}
    /\ UNCHANGED <<latest, restored>>

Publish(s) ==
    /\ s \in complete /\ s > latest
    /\ latest' = s
    /\ UNCHANGED <<complete, restored>>

\* The snapshot may have been superseded while it was downloaded.
Restore(s) ==
    /\ restored = 0
    /\ s \in complete /\ s <= latest
    /\ restored' = s
    /\ UNCHANGED <<complete, latest>>

Next == \E s \in Snapshot : Store(s) \/ Publish(s) \/ Restore(s)

Spec == Init /\ [][Next]_storeVars
=============================================================================
