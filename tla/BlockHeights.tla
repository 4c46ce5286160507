---------------------------- MODULE BlockHeights ----------------------------
(***************************************************************************)
(* block_height_ranges (heights.py): which heights the blocks of one file  *)
(* have.  Headers name only their parent, so the file's blocks are linked  *)
(* into groups, the node is asked for one block of each group, and the     *)
(* heights are then compacted into the ranges of the sidecar.              *)
(*                                                                         *)
(* The blocks are taken in the order of the file, which is arbitrary.  A   *)
(* header contains the hash of its parent, so that parents form no cycle   *)
(* and the "cyclic block ancestry" error is left out (NeverCyclic).  A     *)
(* lookup that fails ends the pass, which ArchivePass models.              *)
(***************************************************************************)
EXTENDS Integers, SequencesExt

CONSTANTS
    Hashes,     \* block hashes
    MaxDepth,   \* bound: the height of the highest block
    None        \* no value

ASSUME HeightsAssumption == MaxDepth \in Nat /\ None \notin Hashes \union Int

VARIABLES
    parent,    \* the block chain with its stale branches; constant
    chain,     \* the height the node reports of each block; constant
    inFile,    \* the blocks in the file: the keys of `parents`; constant
    phase,     \* "resolve", "walk", "compact" or "done"
    left,      \* blocks that resolve_heights has not come to
    trail,     \* the blocks of a walk that have no height yet, child first
    at,        \* where the walk is
    last,      \* the height assigned last
    heights,   \* the heights found, None where there is none yet
    lookups,   \* how often the node was asked
    rest,      \* the heights not compacted yet
    ranges     \* the compacted ranges

given == <<parent, chain, inFile>>
resolving == <<left, trail, at, last, heights, lookups>>
vars == <<given, phase, resolving, rest, ranges>>

\* A tree of blocks whose root is the genesis block.
IsChain(up, h) ==
    /\ \A b \in Hashes : IF up[b] = None THEN h[b] = 0 ELSE h[b] = h[up[b]] + 1
    /\ \A b, c \in Hashes : up[b] = None /\ up[c] = None => b = c

\* parent_links, of a file with at least one complete block.
Init ==
    /\ chain \in [Hashes -> 0..MaxDepth]
    /\ parent \in [Hashes -> Hashes \union {None}]
    /\ IsChain(parent, chain)
    /\ inFile \in (SUBSET Hashes) \ {{}}
    /\ phase = "resolve"
    /\ left = inFile
    /\ trail = <<>>
    /\ at = None
    /\ last = None
    /\ heights = [b \in Hashes |-> None]
    /\ lookups = 0
    /\ rest = {}
    /\ ranges = <<>>

Known(b) == b \in inFile /\ heights[b] # None

\* resolve_heights: the next block of the file, unless its height is known.
Pick(b) ==
    /\ phase = "resolve"
    /\ trail = <<>>
    /\ b \in left
    /\ left' = left \ {b}
    /\ IF Known(b) THEN UNCHANGED <<phase, at>> ELSE phase' = "walk" /\ at' = b
    /\ UNCHANGED <<given, trail, last, heights, lookups, rest, ranges>>

\* Mutant of Unresolved: a walk does not stop at a block already resolved.
InFile(b) == b \in inFile

Unresolved(b) == b \in inFile /\ ~Known(b)

\* One round of the loop of _unresolved_ancestry.
Walk ==
    /\ phase = "walk"
    /\ Unresolved(at)
    /\ trail' = Append(trail, at)
    /\ at' = parent[at]
    /\ UNCHANGED <<given, phase, left, last, heights, lookups, rest, ranges>>

\* _assign_heights: the walk stopped at a resolved block, or else its last
\* block is the oldest of its group and the node is asked for it.
Anchor ==
    /\ phase = "walk"
    /\ ~Unresolved(at)
    /\ phase' = "resolve"
    /\ IF Known(at)
       THEN last' = heights[at] /\ UNCHANGED <<trail, heights, lookups>>
       ELSE /\ trail' = Front(trail)
            /\ last' = chain[Last(trail)]
            /\ heights' = [heights EXCEPT ![Last(trail)] = chain[Last(trail)]]
            /\ lookups' = lookups + 1
    /\ UNCHANGED <<given, left, at, rest, ranges>>

\* Mutant of NextOf: the descendants are taken in the order of the walk.
ChildFirst(s) == Head(s)

\* The next of reversed(descendants).
NextOf(s) == Last(s)

Descend ==
    /\ phase = "resolve"
    /\ trail # <<>>
    /\ last' = last + 1
    /\ heights' = [heights EXCEPT ![NextOf(trail)] = last + 1]
    /\ trail' = Front(trail)
    /\ UNCHANGED <<given, phase, left, at, lookups, rest, ranges>>

Resolved ==
    /\ phase = "resolve"
    /\ trail = <<>>
    /\ left = {}
    /\ phase' = "compact"
    /\ rest' = {heights[b] : b \in inFile}
    /\ UNCHANGED <<given, resolving, ranges>>

\* Mutant of Adjacent: compares with the start of the range.
AfterStart(range, h) == h = range.start + 1

Adjacent(range, h) == h = range.end + 1

\* compact_ranges: the next of sorted(set(heights)).
Compact(h) ==
    /\ phase = "compact"
    /\ h \in rest /\ \A g \in rest : h <= g
    /\ rest' = rest \ {h}
    /\ ranges' = IF ranges # <<>> /\ Adjacent(Last(ranges), h)
                 THEN [ranges EXCEPT ![Len(ranges)].end = h]
                 ELSE Append(ranges, [start |-> h, end |-> h])
    /\ UNCHANGED <<given, phase, resolving>>

Compacted ==
    /\ phase = "compact"
    /\ rest = {}
    /\ phase' = "done"
    /\ UNCHANGED <<given, resolving, rest, ranges>>

Next ==
    \/ \E b \in left : Pick(b)
    \/ Walk \/ Anchor \/ Descend \/ Resolved
    \/ \E h \in rest : Compact(h)
    \/ Compacted

Spec == Init /\ [][Next]_vars

-----------------------------------------------------------------------------

\* Every height that is derived is the one the node would have reported,
\* although the node is asked for few (heights.py:3-5).
HeightsTrue == \A b \in Hashes : heights[b] \in {None, chain[b]}

\* The blocks whose parent is not in the file: one in each connected group.
Oldest == {b \in inFile : parent[b] \notin inFile}

\* "the node is asked once per connected group (for its oldest block in the
\* file)" (heights.py:4-5), in whatever order the file holds the blocks.
AskedOncePerGroup == lookups = Cardinality({b \in Oldest : Known(b)})

\* A walk never comes back to a block of its trail (heights.py:41-42).
NeverCyclic == phase = "walk" => at \notin ToSet(trail)

\* What read_marker accepts as height ranges (state.py:28-50).
Canonical(s) ==
    /\ s # <<>>
    /\ \A i \in 1..Len(s) :
        /\ 0 <= s[i].start /\ s[i].start <= s[i].end
        /\ i > 1 => s[i].start > s[i - 1].end + 1

\* The ranges of a sidecar hold exactly the heights of the file's blocks, and
\* the marker that repeats them can be read back: also a file with gaps, with
\* stale blocks of the same height and with a single block.
RangesFaithful ==
    phase = "done" =>
        /\ UNION {s.start..s.end : s \in ToSet(ranges)} = {chain[b] : b \in inFile}
        /\ Canonical(ranges)
=============================================================================
