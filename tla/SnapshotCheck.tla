---------------------------- MODULE SnapshotCheck ----------------------------
(***************************************************************************)
(* The eligibility check of a Core snapshot (core_backup.py: check) beside *)
(* the archiver it asks about.  The first check runs while the archiver    *)
(* archives and prunes, both run while Core writes: the answers it puts    *)
(* together are of different moments.                                      *)
(*                                                                         *)
(* Simplifications.  safe_prune_height is one step here; PruneBlocks takes *)
(* it apart.  Core's optional indexes, a second chainstate, its headers,   *)
(* and the sizes and links that inventory counts may refuse the check at   *)
(* any time (CheckRefused); they do not bear on what awaits pruning.       *)
(***************************************************************************)
EXTENDS ArchiveSafety, FiniteSetsExt

CONSTANT MaxLag   \* CORE_BACKUP_MAX_LAG (2016)

ASSUME LagAssumption == MaxLag \in Nat

VARIABLES
    cpc,        \* next step of the check, or its verdict
    observed,   \* the tip in the observed chain info
    limit,      \* the pruning bound it works out
    unseen,     \* listed files not examined yet
    steadily    \* files that the archiver would have pruned all along

checkVars == <<cpc, observed, limit, unseen>>
allVars == <<vars, checkVars, steadily>>

Verdicts == {"passed", "awaiting", "refused"}

-----------------------------------------------------------------------------
(* What a pass of the archiver would do at this moment.                    *)

Unarchived == {f \in onDisk : ~AlreadyArchived(f)}

\* The bounds that files on disk put on a prune.
BoundsOf(S) == {BoundOf(f) : f \in {g \in S : first[g] # None}}

HeightKnown == Unarchived = {} \/ BoundsOf(Unarchived) # {}

\* safe_prune_height, where HeightKnown.
SafeHeight == Min(BoundsOf(Unarchived) \union {tip})

RetainKnown ==
    RetainFrom # None =>
        RetainFrom \in onDisk /\ \A f \in Protected : first[f] # None

RetainBounds == IF RetainFrom = None THEN {} ELSE BoundsOf(Protected)

\* The files that prune_archived_blocks would have Core delete now.
WouldPrune ==
    IF HeightKnown /\ RetainKnown /\ (UseCeiling => scanned # None)
    THEN LET h == Ceiling(Min({SafeHeight} \union RetainBounds))
         IN  IF h <= 0 THEN {} ELSE Prunable(h)
    ELSE {}

-----------------------------------------------------------------------------
(* The check.                                                              *)

\* getblockchaininfo's pruneheight: the blocks from it to the tip are there.
Available(h) == \E f \in onDisk : h \in blocks[f]
PruneHeight == CHOOSE h \in 0..tip+1 :
                  /\ \A g \in h..tip : Available(g)
                  /\ h > 0 => ~Available(h - 1)

\* require_pruned, of the parts of the answer that pruning changes.
Pruned == 0 < PruneHeight /\ PruneHeight <= tip /\ tip - PruneHeight <= MaxLag

CheckGoes(from, to) == cpc = from /\ cpc' = to

ReadInfo ==
    /\ Pruned
    /\ CheckGoes("info", "bound")
    /\ observed' = tip
    /\ UNCHANGED <<limit, unseen>>

\* Mutant of Retainable: what Core keeps around its tip is forgotten.
Everything == tip

\* Core keeps the latest blocks below the tip that was observed.
Retainable == observed - Keep

Bound ==
    /\ HeightKnown
    /\ CheckGoes("bound", "ceiling")
    /\ limit' = Min({SafeHeight, Retainable})
    /\ UNCHANGED <<observed, unseen>>

CapByCeiling ==
    /\ UseCeiling => scanned # None
    /\ CheckGoes("ceiling", "list")
    /\ limit' = Ceiling(limit)
    /\ UNCHANGED <<observed, unseen>>

\* All files but the last, which Core still writes to.
Listed == onDisk \ {Max(onDisk)}

List ==
    /\ onDisk # {}
    /\ CheckGoes("list", "examine")
    /\ unseen' = Listed
    /\ UNCHANGED <<observed, limit>>

\* Mutant of Awaits: the highest block of a file may be at the bound.
AwaitsBelow(f) == AlreadyArchived(f) /\ \A b \in marker[f].side.heights : b < limit

\* An archived file whose highest block the bound covers.
Awaits(f) == AlreadyArchived(f) /\ \A b \in marker[f].side.heights : b <= limit

ExamineListed ==
    \E f \in unseen :
        /\ IsFirstOf(f, unseen)
        /\ CheckGoes("examine", IF Awaits(f) THEN "awaiting" ELSE "examine")
        /\ unseen' = IF Awaits(f) THEN unseen ELSE unseen \ {f}
        /\ UNCHANGED <<observed, limit>>

CheckPasses ==
    /\ unseen = {}
    /\ CheckGoes("examine", "passed")
    /\ UNCHANGED <<observed, limit, unseen>>

\* The check ends for another reason, among them what a guard above excludes.
CheckRefused ==
    /\ cpc' = "refused"
    /\ UNCHANGED <<observed, limit, unseen>>

CheckStep ==
    \/ ReadInfo \/ Bound \/ CapByCeiling \/ List \/ ExamineListed
    \/ CheckPasses \/ CheckRefused

-----------------------------------------------------------------------------

CheckInit ==
    /\ Init
    /\ cpc = "info" /\ observed = 0 /\ limit = 0 /\ unseen = {}
    /\ steadily = Files

\* The ghost is about the time from the first answer to the verdict.
Watch ==
    steadily' = IF cpc' = "info"
                THEN steadily
                ELSE steadily \intersect WouldPrune \intersect WouldPrune'

\* What follows a verdict is left to the other modules: the system stops here.
CheckNext ==
    /\ cpc \notin Verdicts
    /\ \/ Next /\ UNCHANGED checkVars
       \/ CheckStep /\ UNCHANGED vars
    /\ Watch

CheckSpec == CheckInit /\ [][CheckNext]_allVars

-----------------------------------------------------------------------------
(* Properties.                                                             *)

\* "no verified archived file remains eligible for the archiver's pruning"
\* (docs/core-snapshots.md:24): when the check passes, there is no file that
\* the archiver would have pruned at every moment of the check, although tip,
\* markers, ceiling and directory were read one after the other.
PassedMeansPruned == cpc = "passed" => steadily = {}

\* An archived file that no bound of a prune spares, whatever is still
\* empty or missing.
BelowEveryLimit(f) ==
    /\ AlreadyArchived(f)
    /\ \A b \in blocks[f] :
          /\ b <= tip - Keep
          /\ UseCeiling => scanned # None /\ b <= scanned
          /\ \A g \in Unarchived : first[g] # None => b < first[g]
          /\ RetainFrom # None => \A g \in Protected : first[g] # None => b < first[g]

\* The file over which the check says that pruning is awaited is indeed one
\* that only the archiver's next pass keeps: what it refuses heals by waiting,
\* although it put its bound together from answers of different moments.
AwaitingMeansPrunable ==
    cpc = "awaiting" =>
        \E f \in unseen : IsFirstOf(f, unseen) /\ f < newest /\ BelowEveryLimit(f)
=============================================================================
