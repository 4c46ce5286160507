----------------------------- MODULE PruneBlocks -----------------------------
(***************************************************************************)
(* prune_archived_blocks (prune.py): verify the remote copy of every       *)
(* archived local file, derive a height that spares every file that is not *)
(* archived, every file a parser still needs and every block a consumer    *)
(* has not read, and ask Core to prune up to it.                           *)
(*                                                                         *)
(* Each directory listing is a snapshot; Core goes on writing while the    *)
(* listed files are examined one by one, and a request that timed out may  *)
(* still be executed later.  Core answers getblockheader the same way each *)
(* time, so the height cache of a pass changes nothing and is left out.    *)
(***************************************************************************)
EXTENDS ArchiveBlock

CONSTANTS
    PruneOnly,    \* the processes that run `--prune-only`
    RetainFrom,   \* prune_retain_from_file, None when not configured
    UseCeiling    \* whether prune_ceiling_file is configured

VARIABLES
    todo,      \* listed files a process has not examined yet
    pending,   \* the files it found without a current marker
    verified,  \* the files whose remote copy it verified
    base,      \* the tip when it listed the files (for properties only)
    height,    \* the lowest bound on the prune so far, None without one
    late,      \* requests whose caller gave up, Core may still execute them
    scanned    \* height in the consumer's progress file, None if unreadable

scanVars == <<todo, pending, verified, base, height>>
pruneVars == <<scanVars, late, scanned>>

\* A request to Core, with what its caller knew: the remote copies it
\* verified and the tip when it listed the files (both only for properties).
Requests == [height: Int, verified: SUBSET Files, base: Heights]

PruneTypeOK ==
    /\ todo \in [Procs -> SUBSET Files]
    /\ pending \in [Procs -> SUBSET Files]
    /\ verified \in [Procs -> SUBSET Files]
    /\ base \in [Procs -> Heights]
    /\ height \in [Procs -> Int \union {None}]
    /\ late \in SUBSET Requests
    /\ scanned \in Heights \union {None}

PrunePcs == {"prune", "p_verify", "p_scan", "p_bound", "p_tip", "p_retain",
             "p_protect", "p_ceiling", "p_call", "p_wait"}

RequestOf(p) == [height |-> height[p], verified |-> verified[p], base |-> base[p]]

IsFirstOf(f, S) == f \in S /\ \A g \in S : f <= g

\* min(height, bound), where a height not known yet bounds nothing.
Lower(h, bound) == IF h = None \/ bound < h THEN bound ELSE h

pruneFrame == <<coreVars, storageVars, marker, cur, locals, late, scanned>>

Goes(p, to) == pc' = [pc EXCEPT ![p] = to]

\* File f has been examined.
Drop(p, f) == todo' = [todo EXCEPT ![p] = @ \ {f}]

\* The glob at the head of _verify_archived_local_files.
ListForVerify(p) ==
    /\ pc[p] = "prune"
    /\ Goes(p, "p_verify")
    /\ todo' = [todo EXCEPT ![p] = onDisk]
    /\ UNCHANGED <<pending, verified, base, height, pruneFrame>>

\* The remote copy of a listed file, if its marker matches, is as recorded.
RemoteConfirmed(f) == MarkerMatches(f) /\ Verifies(f, marker[f].side)

\* Mutant of RemoteAcceptable: a failed verification does not stop the prune.
RemoteTolerated(f) == TRUE

\* A listed file without a matching marker is skipped.
RemoteAcceptable(f) == MarkerMatches(f) => RemoteConfirmed(f)

VerifyNext(p) ==
    \E f \in todo[p] :
        /\ pc[p] = "p_verify"
        /\ IsFirstOf(f, todo[p])
        /\ RemoteAcceptable(f)
        /\ Drop(p, f)
        /\ verified' = [verified EXCEPT ![p] = IF RemoteConfirmed(f) THEN @ \union {f} ELSE @]
        /\ UNCHANGED <<pc, pending, base, height, pruneFrame>>

\* The glob of unarchived_blocks, which safe_prune_height calls.
ListForScan(p) ==
    /\ pc[p] = "p_verify"
    /\ todo[p] = {}
    /\ Goes(p, "p_scan")
    /\ todo' = [todo EXCEPT ![p] = onDisk]
    /\ base' = [base EXCEPT ![p] = tip]
    /\ UNCHANGED <<pending, verified, height, pruneFrame>>

ScanNext(p) ==
    \E f \in todo[p] :
        /\ pc[p] = "p_scan"
        /\ IsFirstOf(f, todo[p])
        /\ Drop(p, f)
        /\ pending' = [pending EXCEPT ![p] = IF AlreadyArchived(f) THEN @ ELSE @ \union {f}]
        /\ UNCHANGED <<pc, verified, base, height, pruneFrame>>

\* With nothing pending the tip is the only bound.
ScanDone(p) ==
    /\ pc[p] = "p_scan"
    /\ todo[p] = {}
    /\ Goes(p, IF pending[p] = {} THEN "p_tip" ELSE "p_bound")
    /\ todo' = [todo EXCEPT ![p] = pending[p]]
    /\ UNCHANGED <<pending, verified, base, height, pruneFrame>>

\* Mutant of BoundOf: the first block itself may go.
BoundAtFirst(f) == first[f]

\* One below a block of the file, so that the file is not pruned.
BoundOf(f) == first[f] - 1

\* A pending file that holds no block yet bounds nothing.
BoundNext(p) ==
    \E f \in todo[p] :
        /\ pc[p] = "p_bound"
        /\ IsFirstOf(f, todo[p])
        /\ f \in onDisk
        /\ Drop(p, f)
        /\ height' = [height EXCEPT ![p] = IF first[f] = None THEN @ ELSE Lower(@, BoundOf(f))]
        /\ UNCHANGED <<pc, pending, verified, base, pruneFrame>>

BoundDone(p) ==
    /\ pc[p] = "p_bound"
    /\ todo[p] = {}
    /\ height[p] # None
    /\ Goes(p, "p_tip")
    /\ UNCHANGED <<scanVars, pruneFrame>>

\* Mutant of ReadTip: the tip bounds a prune only when no file does.
ReadTipIfUnbounded(p) ==
    /\ pc[p] = "p_tip"
    /\ Goes(p, "p_retain")
    /\ height' = [height EXCEPT ![p] = IF @ = None THEN tip ELSE @]
    /\ UNCHANGED <<todo, pending, verified, base, pruneFrame>>

\* chain_height: downloaded blocks may be ahead of the active chain.
ReadTip(p) ==
    /\ pc[p] = "p_tip"
    /\ Goes(p, "p_retain")
    /\ height' = [height EXCEPT ![p] = Lower(@, tip)]
    /\ UNCHANGED <<todo, pending, verified, base, pruneFrame>>

\* Mutant of Protected: only the resume file bounds the prune.
ProtectedResumeFile == {RetainFrom}

\* Every file from the parser's resume file on.
Protected == {f \in onDisk : f >= RetainFrom}

\* The parser's resume file must be there before the protected ones are listed.
ListProtected(p) ==
    /\ pc[p] = "p_retain"
    /\ RetainFrom # None => RetainFrom \in onDisk
    /\ Goes(p, IF RetainFrom = None THEN "p_ceiling" ELSE "p_protect")
    /\ todo' = [todo EXCEPT ![p] = IF RetainFrom = None THEN {} ELSE Protected]
    /\ UNCHANGED <<pending, verified, base, height, pruneFrame>>

ProtectNext(p) ==
    \E f \in todo[p] :
        /\ pc[p] = "p_protect"
        /\ IsFirstOf(f, todo[p])
        /\ f \in onDisk
        /\ first[f] # None
        /\ Drop(p, f)
        /\ height' = [height EXCEPT ![p] = Lower(@, BoundOf(f))]
        /\ UNCHANGED <<pc, pending, verified, base, pruneFrame>>

ProtectDone(p) ==
    /\ pc[p] = "p_protect"
    /\ todo[p] = {}
    /\ Goes(p, "p_ceiling")
    /\ UNCHANGED <<scanVars, pruneFrame>>

\* Mutant of Ceiling: the consumer's progress is ignored.
CeilingIgnored(h) == h

\* The height that the progress file still allows.
Ceiling(h) == IF UseCeiling THEN Lower(h, scanned) ELSE h

\* read_prune_ceiling: no block above the consumer's height is pruned.
ReadCeiling(p) ==
    /\ pc[p] = "p_ceiling"
    /\ UseCeiling => scanned # None
    /\ Goes(p, "p_call")
    /\ height' = [height EXCEPT ![p] = Ceiling(@)]
    /\ UNCHANGED <<todo, pending, verified, base, pruneFrame>>

\* Mutant of NothingToPrune: an off-by-one at the lowest height.
NothingAboveOne(p) == height[p] <= 1

NothingToPrune(p) == height[p] <= 0

\* prune_blockchain: the request is on its way to Core.
CallPrune(p) ==
    /\ pc[p] = "p_call"
    /\ ~NothingToPrune(p)
    /\ Goes(p, "p_wait")
    /\ UNCHANGED <<scanVars, pruneFrame>>

PruneBlocksStep(p) ==
    \/ ListForVerify(p) \/ VerifyNext(p) \/ ListForScan(p) \/ ScanNext(p)
    \/ ScanDone(p) \/ BoundNext(p) \/ BoundDone(p) \/ ReadTip(p)
    \/ ListProtected(p) \/ ProtectNext(p) \/ ProtectDone(p)
    \/ ReadCeiling(p) \/ CallPrune(p)

\* Conditions under which a strict prune raises and any other returns.
CannotBound(p) ==
    \/ pc[p] = "p_bound" /\ todo[p] = {} /\ height[p] = None
    \/ pc[p] = "p_retain" /\ RetainFrom # None /\ RetainFrom \notin onDisk
    \/ /\ pc[p] = "p_protect"
       /\ \E f \in todo[p] :
            IsFirstOf(f, todo[p]) /\ f \in onDisk /\ first[f] = None
    \/ pc[p] = "p_ceiling" /\ UseCeiling /\ scanned = None

\* Conditions under which the prune returns without a request.
PruneReturns(p) ==
    \/ CannotBound(p) /\ p \notin PruneOnly
    \/ pc[p] = "p_call" /\ NothingToPrune(p)

\* Conditions under which the prune raises, which ends the pass.
PruneRefuses(p) ==
    \/ CannotBound(p) /\ p \in PruneOnly
    \/ /\ pc[p] = "p_verify"
       /\ \E f \in todo[p] : /\ IsFirstOf(f, todo[p])
                                  /\ ~RemoteAcceptable(f)
    \/ /\ pc[p] \in {"p_bound", "p_protect"}
       /\ \E f \in todo[p] : IsFirstOf(f, todo[p]) /\ f \notin onDisk
=============================================================================
