---------------------------- MODULE ArchiveSafety ----------------------------
(***************************************************************************)
(* What the archiver promises, whatever Core, the store and the other      *)
(* archiver processes do between any two of its steps.                     *)
(***************************************************************************)
EXTENDS ArchivePass

\* While a local file is the one its marker describes, the marker tells the
\* truth about it and the remote copy and its sidecar agree with both, unless
\* the store lost them.  archive_block writes the marker last, after every
\* upload, check and verification; a later change voids it by its signature.
MarkerIsEvidence ==
    \A f \in onDisk : Current(f) =>
        /\ marker[f].side.sha = Bytes(f)
        /\ marker[f].side.heights = blocks[f]
        /\ object[f] = Bytes(f) \/ <<f, "object">> \in lost
        /\ sidecar[f] = marker[f].side \/ <<f, "sidecar">> \in lost

\* "nothing is deleted until it is known to be in S3" (prune.py:5-6): of every
\* file Core pruned, the store was given all the blocks it ever held.
NothingLost ==
    \A f \in Deleted :
        \/ object[f] # None /\ object[f].blocks = blocks[f]
        \/ <<f, "object">> \in lost

\* A consumer behind the tip never finds a block gone that it has not read
\* (the prune ceiling, prune.py:135-144).
ConsumerNotStarved ==
    UseCeiling => \A f \in Deleted : scanned # None /\ \A b \in blocks[f] : b <= scanned

\* The files from the parser's resume file on stay, though Core prunes by
\* height and arrival order is not height order (prune.py:113-133).
RetainedFilesStay ==
    RetainFrom # None => \A f \in Deleted : f < RetainFrom

\* Core rejects a height above its tip (prune.py:73-75), although the files
\* the height is derived from may hold blocks far ahead of it.
CoreAcceptsTheHeight ==
    \A p \in Procs : pc[p] = "p_wait" => height[p] \in 1..tip

\* The requests Core executes in a step: of a caller that waits, or late.
Executed ==
    {RequestOf(p) : p \in {q \in Procs : pc[q] = "p_wait" /\ pc'[q] # "p_wait"}}
        \union (late \ late')

\* Core deletes only files whose remote copy the pass that asked for it had
\* found in the store before it asked (_verify_archived_local_files).
DeletedWereVerified ==
    [][\A f \in onDisk \ onDisk' : \E r \in Executed : f \in r.verified]_vars

\* A marker is only ever replaced by one of a later version of its file: the
\* pass of a slower process does not undo what a faster one recorded.
MarkersAdvance ==
    [][\A f \in Files :
         marker[f] # None /\ marker'[f] # marker[f] =>
            marker'[f].signature.mtime > marker[f].signature.mtime]_vars

\* When a marker is written, block object, sidecar and marker describe one and
\* the same version of the file: none of the three was made from a version
\* that Core changed in between (the checks at archive.py:157-161).
MarksAgree ==
    [][\A f \in Files : marker'[f] # marker[f] =>
         LET side == marker'[f].side IN
            /\ object[f] = side.sha \/ <<f, "object">> \in lost
            /\ sidecar[f] = side \/ <<f, "sidecar">> \in lost
            /\ side.heights = side.sha.blocks]_vars

\* What was uploaded is a copy, what a marker describes is on record.
Copies == [f \in Files |-> IF object[f] = None THEN {} ELSE object[f].blocks]
OnRecord == {f \in onDisk : Current(f)}

\* The abstract archive; what Core pruned is gone.
Promise == INSTANCE BlockArchive WITH
    Blocks <- Heights,
    content <- blocks,
    present <- onDisk,
    copy <- Copies,
    recorded <- OnRecord

\* Every step of the archiver and of Core is one the abstract archive allows,
\* as long as the store loses nothing.
KeepsPromise == Promise!Spec

-----------------------------------------------------------------------------

\* Every pass ends, whatever it finds and however many batches it has.
PassEnds == \A p \in Procs : pc[p] # "idle" ~> pc[p] = "idle"

\* All files but the newest KeepLatest.
Completed(f) ==
    \E newer \in SUBSET onDisk :
        Cardinality(newer) = KeepLatest /\ \A g \in newer : g > f

\* "a temporary S3 or RPC outage heals without a restart" (schedule.py:66-67):
\* once finitely many faults are over, each completed file gets archived.
Heals ==
    \A f \in Files :
        f \in onDisk /\ Completed(f) ~> (f \in onDisk => Current(f))

\* The files that bound a prune: not archived, with at least one block.
Bounding == {g \in onDisk : ~Current(g) /\ first[g] # None}

\* An archived file that stays below every bound of a prune.
Prunables ==
    {f \in onDisk :
        /\ f < newest
        /\ Current(f)
        /\ \A b \in blocks[f] : b <= tip - Keep
        /\ Bounding # {} \/ \A g \in onDisk : Current(g)
        /\ \A g \in Bounding :
              /\ 1 < first[g]
              /\ \A b \in blocks[f] : b < first[g]}

\* Files that Core retained earlier are pruned by a later pass, also when that
\* pass has nothing new to archive (archive.py:209-210).  While the only files
\* that are not archived hold no block yet, no height is known (prune.py:70-71).
BacklogIsPruned == \A f \in Files : f \in Prunables ~> f \notin Prunables
=============================================================================
