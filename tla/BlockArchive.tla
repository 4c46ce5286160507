---------------------------- MODULE BlockArchive ----------------------------
(***************************************************************************)
(* What the archiver promises, without saying how: a file of the block     *)
(* directory disappears only while the store holds all of its blocks, and  *)
(* a file is on record as archived only while the store holds exactly it.  *)
(***************************************************************************)
CONSTANTS Files, Blocks

VARIABLES
    content,   \* the blocks written to each file
    present,   \* the files in the block directory
    copy,      \* the blocks of each file's remote copy
    recorded   \* the files on record as archived

archiveVars == <<content, present, copy, recorded>>

Saved(f) == copy[f] = content[f]

Init ==
    /\ content \in [Files -> SUBSET Blocks]
    /\ present \in SUBSET Files
    /\ copy = [f \in Files |-> {}]
    /\ recorded = {}

\* A file is modified, and with that no longer what was recorded.
Modify(f) ==
    /\ f \in present
    /\ \E c \in SUBSET Blocks :
        content[f] \subseteq c /\ content' = [content EXCEPT ![f] = c]
    /\ present \subseteq present' /\ present' \subseteq Files
    /\ recorded' = recorded \ {f}
    /\ UNCHANGED copy

Save(f) ==
    /\ f \in present
    /\ copy' = [copy EXCEPT ![f] = content[f]]
    /\ UNCHANGED <<content, present, recorded>>

Record(f) ==
    /\ f \in present
    /\ Saved(f)
    /\ recorded' = recorded \union {f}
    /\ UNCHANGED <<content, present, copy>>

\* Several files may go at once.
Delete(gone) ==
    /\ \A f \in gone : Saved(f)
    /\ present' = present \ gone
    /\ recorded' = recorded \ gone
    /\ UNCHANGED <<content, copy>>

Next ==
    \/ \E f \in Files : Modify(f) \/ Save(f) \/ Record(f)
    \/ \E gone \in SUBSET present : Delete(gone)

Spec == Init /\ [][Next]_archiveVars
=============================================================================
