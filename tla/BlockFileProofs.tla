--------------------------- MODULE BlockFileProofs ---------------------------
(***************************************************************************)
(* Proofs about the two readers of a block file.  block_height_ranges: for *)
(* every set of blocks, every file and every order of the file, the ranges *)
(* hold the heights that the blocks have in the chain, and the node is     *)
(* asked once per group.  block_headers: for every preallocation, every    *)
(* size of records and every number of crashes of Core, a completed file   *)
(* reads in full, and nothing stored before a scan is missed by it.        *)
(***************************************************************************)
EXTENDS BlockHeights, BlockScan, SequenceTheorems, FiniteSetTheorems, TLAPS

TypeInv ==
    /\ parent \in [Hashes -> Hashes \union {None}]
    /\ chain \in [Hashes -> 0..MaxDepth]
    /\ IsChain(parent, chain)
    /\ inFile \subseteq Hashes
    /\ left \subseteq inFile
    /\ trail \in Seq(Hashes)
    /\ at \in Hashes \union {None}
    /\ heights \in [Hashes -> Int \union {None}]

\* Each block of the trail is followed by its parent.
Linked ==
    \A i \in 1..Len(trail) : i < Len(trail) => parent[trail[i]] = trail[i + 1]

\* The walk stands at the parent of the trail's end, below all of the trail.
Walking ==
    phase = "walk" =>
        /\ trail = <<>> => Unresolved(at)
        /\ trail # <<>> => at = parent[trail[Len(trail)]]
        /\ at # None => \A i \in 1..Len(trail) : chain[at] < chain[trail[i]]

\* What was assigned last is the height of the parent of the trail's end.
Descending ==
    phase = "resolve" /\ trail # <<>> =>
        parent[trail[Len(trail)]] # None /\ last = chain[parent[trail[Len(trail)]]]

HeightsInv == TypeInv /\ HeightsTrue /\ Linked /\ Walking /\ Descending

LEMMA FrontFacts ==
    ASSUME NEW S, NEW s \in Seq(S), s # <<>>
    PROVE  /\ Front(s) \in Seq(S)
           /\ Len(Front(s)) = Len(s) - 1
           /\ \A i \in 1..(Len(s) - 1) : Front(s)[i] = s[i]
           /\ Len(s) \in Nat \ {0}
           /\ Last(s) = s[Len(s)] /\ Last(s) \in S
<1>1. Len(s) \in Nat \ {0} /\ Len(s) >= 1
  <2>1. Len(s) \in Nat \ {0}
    BY EmptySeq
  <2> QED BY <2>1
<1>2. Last(s) = s[Len(s)] /\ Last(s) \in S
  BY <1>1 DEF Last
<1>3. SubSeq(s, 1, Len(s) - 1) \in Seq(S)
  BY <1>1, SubSeqProperties
<1>4. Len(SubSeq(s, 1, Len(s) - 1)) = Len(s) - 1
  <2>1. \A i \in 1..(Len(s) - 1) : s[i] \in S
    BY <1>1
  <2>2. Len(SubSeq(s, 1, Len(s) - 1)) = IF 1 <= Len(s) - 1 THEN (Len(s) - 1) - 1 + 1 ELSE 0
    BY <2>1, <1>1, SubSeqProperties
  <2>3. CASE Len(s) = 1
    BY <2>2, <2>3
  <2>4. CASE Len(s) > 1
    BY <2>2, <2>4, <1>1
  <2> QED BY <2>3, <2>4, <1>1
<1>5. \A i \in 1..(Len(s) - 1) : SubSeq(s, 1, Len(s) - 1)[i] = s[i]
  <2>1. \A i \in 1..(Len(s) - 1) : s[i] \in S
    BY <1>1
  <2>2. \A i \in 1..((Len(s) - 1) - 1 + 1) : SubSeq(s, 1, Len(s) - 1)[i] = s[1 + i - 1]
    BY <2>1, <1>1, SubSeqProperties
  <2>3. (Len(s) - 1) - 1 + 1 = Len(s) - 1
    BY <1>1
  <2>4. ASSUME NEW i \in 1..(Len(s) - 1) PROVE SubSeq(s, 1, Len(s) - 1)[i] = s[i]
    <3>1. 1 + i - 1 = i
      BY <1>1
    <3> QED BY <2>2, <2>3, <3>1
  <2> QED BY <2>4
<1> QED BY <1>1, <1>2, <1>3, <1>4, <1>5 DEF Front

LEMMA InitHeights == Init => HeightsInv
<1> SUFFICES ASSUME Init PROVE HeightsInv
  OBVIOUS
<1>1. TypeInv
  BY HeightsAssumption DEF Init, TypeInv
<1>2. HeightsTrue /\ Linked /\ Walking /\ Descending
  BY DEF Init, HeightsTrue, Linked, Walking, Descending
<1> QED BY <1>1, <1>2 DEF HeightsInv

LEMMA NextHeights == HeightsInv /\ [Next]_vars => HeightsInv'
<1> SUFFICES ASSUME HeightsInv, [Next]_vars PROVE HeightsInv'
  OBVIOUS
<1> USE HeightsAssumption DEF HeightsInv
<1>1. ASSUME NEW b \in left, Pick(b) PROVE HeightsInv'
  <2>1. TypeInv' /\ HeightsTrue' /\ Linked'
    BY <1>1 DEF Pick, TypeInv, HeightsTrue, Linked, given, IsChain
  <2>2. Walking'
    BY <1>1 DEF Pick, TypeInv, Walking, Unresolved, Known, given
  <2>3. Descending'
    BY <1>1 DEF Pick, Descending
  <2> QED BY <2>1, <2>2, <2>3
<1>2. CASE Walk
  <2>1. at \in Hashes /\ chain[at] \in Int /\ Len(trail) \in Nat
    BY <1>2 DEF Walk, Unresolved, TypeInv
  <2>2. /\ Len(trail') = Len(trail) + 1
        /\ \A i \in 1..Len(trail) : trail'[i] = trail[i]
        /\ trail'[Len(trail')] = at
        /\ trail' # <<>>
        /\ trail' \in Seq(Hashes)
    BY <1>2, <2>1 DEF Walk, TypeInv
  <2>3. TypeInv' /\ HeightsTrue'
    BY <1>2, <2>1, <2>2 DEF Walk, TypeInv, HeightsTrue, given, IsChain
  <2>4. Linked'
    <3>1. phase = "walk" /\ parent' = parent
      BY <1>2 DEF Walk, given
    <3>2. ASSUME NEW i \in 1..Len(trail'), i < Len(trail')
          PROVE  parent'[trail'[i]] = trail'[i + 1]
      <4>1. CASE i < Len(trail) BY <4>1, <2>1, <2>2, <3>1 DEF Linked
      <4>2. CASE i = Len(trail) BY <4>2, <2>1, <2>2, <3>1, <3>2 DEF Walking
      <4> QED BY <4>1, <4>2, <3>2, <2>1, <2>2
    <3> QED BY <3>2 DEF Linked
  <2>5. Walking'
    <3>1. parent[at] # None => chain[parent[at]] < chain[at] /\ chain[parent[at]] \in Int
      BY <2>1 DEF TypeInv, IsChain
    <3>2. \A i \in 1..Len(trail) : chain[at] < chain[trail[i]] /\ chain[trail[i]] \in Int
      BY <1>2, <2>1 DEF Walk, Walking, TypeInv
    <3>3. /\ at' = parent[at] /\ chain' = chain /\ parent' = parent
      BY <1>2 DEF Walk, given
    <3>4. ASSUME at' # None, NEW i \in 1..Len(trail') PROVE chain'[at'] < chain'[trail'[i]]
      <4>1. CASE i = Len(trail') BY <4>1, <3>4, <3>1, <3>3, <2>2, <2>1
      <4>2. CASE i \in 1..Len(trail) BY <4>2, <3>4, <3>1, <3>2, <3>3, <2>2, <2>1
      <4> QED BY <4>1, <4>2, <2>1, <2>2
    <3> QED BY <3>3, <3>4, <2>2 DEF Walking
  <2>6. Descending'
    BY <1>2 DEF Walk, Descending
  <2> QED BY <2>3, <2>4, <2>5, <2>6
<1>3. CASE Anchor
  <2>1. trail # <<>>
    BY <1>3 DEF Anchor, Walking
  <2>2. /\ Len(trail) \in Nat \ {0}
        /\ Last(trail) = trail[Len(trail)]
        /\ Last(trail) \in Hashes
        /\ Front(trail) \in Seq(Hashes)
        /\ Len(Front(trail)) = Len(trail) - 1
        /\ \A i \in 1..(Len(trail) - 1) : Front(trail)[i] = trail[i]
    BY <2>1, FrontFacts DEF TypeInv
  <2>3. at = parent[trail[Len(trail)]]
    BY <1>3, <2>1 DEF Anchor, Walking
  <2>4. CASE Known(at)
    <3>1. at \in Hashes /\ heights[at] = chain[at]
      BY <2>4 DEF Known, TypeInv, HeightsTrue
    <3>2. /\ trail' = trail /\ heights' = heights /\ last' = heights[at]
          /\ UNCHANGED <<parent, chain, inFile, left, at>>
          /\ phase' = "resolve"
      BY <1>3, <2>4 DEF Anchor, given
    <3> QED
      BY <3>1, <3>2, <2>3 DEF TypeInv, HeightsTrue, Linked, Walking, Descending, IsChain
  <2>5. CASE ~Known(at)
    <3>1. /\ trail' = Front(trail) /\ last' = chain[Last(trail)]
          /\ heights' = [heights EXCEPT ![Last(trail)] = chain[Last(trail)]]
          /\ UNCHANGED <<parent, chain, inFile, left, at>>
          /\ phase' = "resolve"
      BY <1>3, <2>5 DEF Anchor, given
    <3>2. TypeInv' /\ HeightsTrue'
      BY <3>1, <2>2 DEF TypeInv, HeightsTrue, IsChain
    <3>3. Linked'
      BY <3>1, <2>2 DEF Linked
    <3>4. Walking'
      BY <3>1 DEF Walking
    <3>5. Descending'
      <4> SUFFICES ASSUME trail' # <<>>
                   PROVE  /\ parent[trail'[Len(trail')]] # None
                          /\ last' = chain[parent[trail'[Len(trail')]]]
        BY <3>1 DEF Descending
      <4>1. Len(trail') = Len(trail) - 1 /\ Len(trail') > 0
        BY <3>1, <2>2
      <4>2. parent[trail[Len(trail) - 1]] = trail[Len(trail)]
        BY <4>1, <2>2 DEF Linked
      <4>3. trail'[Len(trail')] = trail[Len(trail) - 1]
        BY <4>1, <3>1, <2>2
      <4> QED BY <4>2, <4>3, <3>1, <2>2 DEF TypeInv
    <3> QED BY <3>2, <3>3, <3>4, <3>5
  <2> QED BY <2>4, <2>5
<1>4. CASE Descend
  <2>1. /\ Len(trail) \in Nat \ {0}
        /\ Last(trail) = trail[Len(trail)]
        /\ Last(trail) \in Hashes
        /\ Front(trail) \in Seq(Hashes)
        /\ Len(Front(trail)) = Len(trail) - 1
        /\ \A i \in 1..(Len(trail) - 1) : Front(trail)[i] = trail[i]
    BY <1>4, FrontFacts DEF TypeInv, Descend
  <2>2. /\ phase = "resolve" /\ trail # <<>> /\ trail' = Front(trail)
        /\ last' = last + 1
        /\ heights' = [heights EXCEPT ![Last(trail)] = last + 1]
        /\ UNCHANGED <<parent, chain, inFile, left, at, phase>>
    BY <1>4 DEF Descend, NextOf, given
  <2>3. last + 1 = chain[Last(trail)]
    BY <2>1, <2>2 DEF Descending, TypeInv, IsChain
  <2>4. TypeInv' /\ HeightsTrue'
    BY <2>1, <2>2, <2>3 DEF TypeInv, HeightsTrue, IsChain
  <2>5. Linked'
    BY <2>1, <2>2 DEF Linked
  <2>6. Walking'
    BY <2>2 DEF Walking
  <2>7. Descending'
    <3> SUFFICES ASSUME trail' # <<>>
                 PROVE  /\ parent[trail'[Len(trail')]] # None
                        /\ last' = chain[parent[trail'[Len(trail')]]]
      BY <2>2 DEF Descending
    <3>1. Len(trail') = Len(trail) - 1 /\ Len(trail') > 0
      BY <2>1, <2>2
    <3>2. parent[trail[Len(trail) - 1]] = trail[Len(trail)]
      BY <3>1, <2>1 DEF Linked
    <3>3. trail'[Len(trail')] = trail[Len(trail) - 1]
      BY <3>1, <2>1, <2>2
    <3> QED BY <3>2, <3>3, <2>1, <2>2, <2>3 DEF TypeInv
  <2> QED BY <2>4, <2>5, <2>6, <2>7
<1>5. CASE Resolved
  BY <1>5 DEF Resolved, TypeInv, HeightsTrue, Linked, Walking, Descending, given, resolving, IsChain
<1>6. ASSUME NEW h \in rest, Compact(h) PROVE HeightsInv'
  BY <1>6 DEF Compact, TypeInv, HeightsTrue, Linked, Walking, Descending, given, resolving, IsChain
<1>7. CASE Compacted
  BY <1>7 DEF Compacted, TypeInv, HeightsTrue, Linked, Walking, Descending, given, resolving, IsChain
<1>8. CASE UNCHANGED vars
  BY <1>8 DEF vars, TypeInv, HeightsTrue, Linked, Walking, Descending, given, resolving, IsChain,
     Unresolved, Known
<1> QED BY <1>1, <1>2, <1>3, <1>4, <1>5, <1>6, <1>7, <1>8 DEF Next

\* The height recorded for any block of any file is the one the node reports.
THEOREM HeightsAreTrue == Spec => []HeightsTrue
<1>1. HeightsInv => HeightsTrue
  BY DEF HeightsInv
<1> QED BY InitHeights, NextHeights, <1>1, PTL DEF Spec

\* The "cyclic block ancestry" error is never raised for blocks of a chain.
THEOREM WalksEnd == Spec => []NeverCyclic
<1>1. HeightsInv => NeverCyclic
  <2> SUFFICES ASSUME HeightsInv, phase = "walk", at \in ToSet(trail) PROVE FALSE
    BY DEF NeverCyclic
  <2>1. PICK i \in 1..Len(trail) : at = trail[i]
    BY DEF ToSet, HeightsInv, TypeInv
  <2>2. at \in Hashes /\ chain[at] \in Int
    BY <2>1 DEF HeightsInv, TypeInv
  <2>3. chain[at] < chain[trail[i]]
    BY <2>2, HeightsAssumption DEF HeightsInv, Walking
  <2> QED BY <2>1, <2>2, <2>3
<1> QED BY InitHeights, NextHeights, <1>1, PTL DEF Spec

-----------------------------------------------------------------------------
(* The node is asked once per group.                                       *)

KnownOldest == {b \in Oldest : Known(b)}

\* The trail holds different blocks that have no height yet, and once the walk
\* has stopped the parent of its end is a block of the file: what is left of a
\* trail is never the oldest block of a group.
TrailInv ==
    /\ \A i \in 1..Len(trail) : Unresolved(trail[i])
    /\ \A i, j \in 1..Len(trail) : i # j => trail[i] # trail[j]
    /\ phase = "resolve" /\ trail # <<>> => parent[trail[Len(trail)]] \in inFile

Counted == IsFiniteSet(KnownOldest) /\ lookups = Cardinality(KnownOldest)

AskedInv == HeightsInv /\ TrailInv /\ Counted

\* What Counted says depends on nothing but these.
LEMMA SameCount ==
    ASSUME Counted, lookups' = lookups, KnownOldest' = KnownOldest
    PROVE  Counted'
BY DEF Counted

LEMMA SameOldest ==
    ASSUME UNCHANGED <<parent, inFile, heights>>
    PROVE  KnownOldest' = KnownOldest
BY DEF KnownOldest, Oldest, Known

LEMMA InitAsked == Init => AskedInv
<1> SUFFICES ASSUME Init PROVE AskedInv
  OBVIOUS
<1>1. KnownOldest = {}
  BY DEF Init, KnownOldest, Known, Oldest
<1>2. Counted
  BY <1>1, FS_EmptySet DEF Counted, Init
<1>3. TrailInv
  BY DEF Init, TrailInv
<1> QED BY <1>2, <1>3, InitHeights DEF AskedInv

LEMMA NextAsked == AskedInv /\ [Next]_vars => AskedInv'
<1> SUFFICES ASSUME AskedInv, [Next]_vars PROVE AskedInv'
  OBVIOUS
<1>0. HeightsInv /\ HeightsInv' /\ TypeInv
  BY NextHeights DEF AskedInv, HeightsInv
<1> SUFFICES TrailInv' /\ Counted'
  BY <1>0 DEF AskedInv
<1> USE HeightsAssumption DEF AskedInv
<1>1. ASSUME NEW b \in left, Pick(b) PROVE TrailInv' /\ Counted'
  <2>1. TrailInv'
    BY <1>1 DEF Pick, TrailInv, Unresolved, Known, given
  <2>2. Counted'
    BY <1>1, SameOldest, SameCount DEF Pick, given
  <2> QED BY <2>1, <2>2
<1>2. CASE Walk
  <2>1. at \in Hashes /\ at # None /\ Unresolved(at) /\ Len(trail) \in Nat
    BY <1>2, <1>0 DEF Walk, Unresolved, TypeInv
  <2>2. /\ Len(trail') = Len(trail) + 1
        /\ \A i \in 1..Len(trail) : trail'[i] = trail[i]
        /\ trail'[Len(trail')] = at
        /\ phase' = "walk" /\ UNCHANGED <<parent, inFile, heights, lookups>>
    BY <1>2, <1>0, <2>1 DEF Walk, TypeInv, given
  <2>3. \A i \in 1..Len(trail) : trail[i] # at
    <3>1. \A i \in 1..Len(trail) : chain[at] < chain[trail[i]]
      BY <1>2, <1>0, <2>1 DEF Walk, HeightsInv, Walking
    <3>2. chain[at] \in Int
      BY <1>0, <2>1 DEF TypeInv
    <3> QED BY <3>1, <3>2
  <2>4. \A i \in 1..Len(trail') : i = Len(trail') \/ i \in 1..Len(trail)
    BY <2>1, <2>2
  <2>5. \A i \in 1..Len(trail') : Unresolved(trail'[i])
    BY <2>1, <2>2, <2>4 DEF TrailInv
  <2>6. \A i, j \in 1..Len(trail') : i # j => trail'[i] # trail'[j]
    BY <2>2, <2>3, <2>4 DEF TrailInv
  <2>7. \A c : Unresolved(c)' <=> Unresolved(c)
    BY <2>2 DEF Unresolved, Known
  <2>8. TrailInv'
    BY <2>2, <2>5, <2>6, <2>7 DEF TrailInv
  <2> QED BY <2>8, <2>2, SameOldest, SameCount
<1>3. CASE Anchor
  <2>1. trail # <<>> /\ phase = "walk" /\ ~Unresolved(at)
    BY <1>3, <1>0 DEF Anchor, HeightsInv, Walking
  <2>2. at = parent[trail[Len(trail)]]
    BY <1>0, <2>1 DEF HeightsInv, Walking
  <2>3. CASE Known(at)
    <3>1. /\ phase' = "resolve"
          /\ UNCHANGED <<parent, inFile, trail, heights, lookups>>
      BY <1>3, <2>3 DEF Anchor, given
    <3>2. at \in inFile
      BY <2>3 DEF Known
    <3>3. TrailInv'
      BY <3>1, <3>2, <2>2 DEF TrailInv, Unresolved, Known
    <3> QED BY <3>1, <3>3, SameOldest, SameCount
  <2>4. CASE ~Known(at)
    <3> DEFINE b == trail[Len(trail)]
    <3>1. /\ Len(trail) \in Nat \ {0}
          /\ Last(trail) = b
          /\ b \in Hashes
          /\ Len(Front(trail)) = Len(trail) - 1
          /\ \A i \in 1..(Len(trail) - 1) : Front(trail)[i] = trail[i]
      BY <2>1, <1>0, FrontFacts DEF TypeInv
    <3>2. /\ phase' = "resolve" /\ trail' = Front(trail)
          /\ heights' = [heights EXCEPT ![b] = chain[b]]
          /\ lookups' = lookups + 1
          /\ UNCHANGED <<parent, inFile>>
      BY <1>3, <2>4, <3>1 DEF Anchor, given
    <3>3. /\ heights \in [Hashes -> Int \union {None}]
          /\ chain[b] # None /\ inFile \subseteq Hashes
      BY <1>0, <3>1 DEF TypeInv
    <3>4. Len(trail) \in 1..Len(trail) /\ Unresolved(b)
      BY <3>1 DEF TrailInv
    <3>5. b \in Oldest /\ b \notin KnownOldest
      BY <3>4, <2>1, <2>2, <2>4 DEF Unresolved, Oldest, KnownOldest
    <3>6. KnownOldest' = KnownOldest \union {b}
      BY <3>2, <3>3, <3>5 DEF KnownOldest, Oldest, Known
    <3>7. Counted'
      BY <3>2, <3>5, <3>6, FS_AddElement DEF Counted
    <3>8. Len(trail') = Len(trail) - 1
          /\ \A i \in 1..Len(trail') : trail'[i] = trail[i] /\ i \in 1..Len(trail) /\ i # Len(trail)
      BY <3>1, <3>2
    <3>9. \A i \in 1..Len(trail') : trail'[i] # b /\ trail'[i] \in inFile
      BY <3>4, <3>8 DEF TrailInv, Unresolved
    <3>10. \A i \in 1..Len(trail') : Unresolved(trail[i])
      BY <3>8 DEF TrailInv
    <3>11. \A i \in 1..Len(trail') : heights'[trail'[i]] = heights[trail[i]]
      BY <3>2, <3>3, <3>8, <3>9
    <3>12. \A i \in 1..Len(trail') : Unresolved(trail[i])'
      BY <3>2, <3>8, <3>10, <3>11 DEF Unresolved, Known
    <3>13. \A i, j \in 1..Len(trail') : i # j => trail'[i] # trail'[j]
      BY <3>8 DEF TrailInv
    <3>14. trail' # <<>> => parent'[trail'[Len(trail')]] \in inFile'
      <4> SUFFICES ASSUME trail' # <<>> PROVE parent'[trail'[Len(trail')]] \in inFile'
        OBVIOUS
      <4>0. trail' \in Seq(Hashes)
        BY <1>0 DEF HeightsInv, TypeInv
      <4>1. Len(trail') \in 1..Len(trail')
        BY <4>0, <3>8, <3>1, EmptySeq
      <4>2. parent[trail[Len(trail) - 1]] = trail[Len(trail)]
        <5>1. Len(trail) - 1 \in 1..Len(trail) /\ Len(trail) - 1 < Len(trail)
          BY <4>1, <3>8, <3>1
        <5>2. Len(trail) - 1 + 1 = Len(trail)
          BY <3>1
        <5>3. Linked
          BY <1>0 DEF HeightsInv
        <5> QED BY <5>1, <5>2, <5>3 DEF Linked
      <4>3. trail'[Len(trail')] = trail[Len(trail) - 1]
        BY <4>1, <3>8
      <4>4. b \in inFile
        BY <3>4 DEF Unresolved
      <4> QED BY <4>2, <4>3, <4>4, <3>2
    <3>15. TrailInv'
      BY <3>12, <3>13, <3>14 DEF TrailInv
    <3> QED BY <3>7, <3>15
  <2> QED BY <2>3, <2>4
<1>4. CASE Descend
  <2> DEFINE b == trail[Len(trail)]
  <2>1. /\ Len(trail) \in Nat \ {0}
        /\ Last(trail) = b
        /\ b \in Hashes
        /\ Len(Front(trail)) = Len(trail) - 1
        /\ \A i \in 1..(Len(trail) - 1) : Front(trail)[i] = trail[i]
    BY <1>4, <1>0, FrontFacts DEF TypeInv, Descend
  <2>2. /\ phase = "resolve" /\ trail # <<>> /\ trail' = Front(trail)
        /\ heights' = [heights EXCEPT ![b] = last + 1]
        /\ UNCHANGED <<parent, inFile, lookups>>
    BY <1>4, <2>1 DEF Descend, NextOf, given
  <2>3. heights \in [Hashes -> Int \union {None}] /\ inFile \subseteq Hashes
    BY <1>0 DEF TypeInv
  <2>4. Len(trail) \in 1..Len(trail) /\ Unresolved(b) /\ b \notin Oldest
    BY <2>1, <2>2 DEF TrailInv, Oldest
  <2>5. KnownOldest' = KnownOldest
    BY <2>2, <2>3, <2>4 DEF KnownOldest, Oldest, Known
  <2>6. Counted'
    BY <2>2, <2>5, SameCount
  <2>7. Len(trail') = Len(trail) - 1
        /\ \A i \in 1..Len(trail') : trail'[i] = trail[i] /\ i \in 1..Len(trail) /\ i # Len(trail)
    BY <2>1, <2>2
  <2>8. \A i \in 1..Len(trail') : trail'[i] # b /\ trail'[i] \in inFile
    BY <2>4, <2>7 DEF TrailInv, Unresolved
  <2>9. \A i \in 1..Len(trail') : Unresolved(trail[i])
    BY <2>7 DEF TrailInv
  <2>10. \A i \in 1..Len(trail') : heights'[trail'[i]] = heights[trail[i]]
    BY <2>2, <2>3, <2>7, <2>8
  <2>11. \A i \in 1..Len(trail') : Unresolved(trail[i])'
    BY <2>2, <2>7, <2>9, <2>10 DEF Unresolved, Known
  <2>12. \A i, j \in 1..Len(trail') : i # j => trail'[i] # trail'[j]
    BY <2>7 DEF TrailInv
  <2>13. trail' # <<>> => parent'[trail'[Len(trail')]] \in inFile'
    <3> SUFFICES ASSUME trail' # <<>> PROVE parent'[trail'[Len(trail')]] \in inFile'
      OBVIOUS
    <3>0. trail' \in Seq(Hashes)
      BY <1>0 DEF HeightsInv, TypeInv
    <3>1. Len(trail') \in 1..Len(trail')
      BY <3>0, <2>7, <2>1, EmptySeq
    <3>2. parent[trail[Len(trail) - 1]] = trail[Len(trail)]
      <4>1. Len(trail) - 1 \in 1..Len(trail) /\ Len(trail) - 1 < Len(trail)
        BY <3>1, <2>7, <2>1
      <4>2. Len(trail) - 1 + 1 = Len(trail)
        BY <2>1
      <4>3. Linked
        BY <1>0 DEF HeightsInv
      <4> QED BY <4>1, <4>2, <4>3 DEF Linked
    <3>3. trail'[Len(trail')] = trail[Len(trail) - 1]
      BY <3>1, <2>7
    <3>4. b \in inFile
      BY <2>4 DEF Unresolved
    <3> QED BY <3>2, <3>3, <3>4, <2>2
  <2>14. TrailInv'
    BY <2>11, <2>12, <2>13 DEF TrailInv
  <2> QED BY <2>6, <2>14
<1>5. CASE Resolved
  BY <1>5, SameOldest, SameCount DEF Resolved, given, resolving, TrailInv, Unresolved, Known
<1>6. ASSUME NEW h \in rest, Compact(h) PROVE TrailInv' /\ Counted'
  BY <1>6, SameOldest, SameCount DEF Compact, given, resolving, TrailInv, Unresolved, Known
<1>7. CASE Compacted
  BY <1>7, SameOldest, SameCount DEF Compacted, given, resolving, TrailInv, Unresolved, Known
<1>8. CASE UNCHANGED vars
  BY <1>8, SameOldest, SameCount DEF vars, given, resolving, TrailInv, Unresolved, Known
<1> QED BY <1>1, <1>2, <1>3, <1>4, <1>5, <1>6, <1>7, <1>8 DEF Next

\* The node is asked for the oldest block of each group and for no other, in
\* whatever order the file holds its blocks.
THEOREM NodeIsAskedOncePerGroup == Spec => []AskedOncePerGroup
<1>1. AskedInv => AskedOncePerGroup
  BY DEF AskedInv, Counted, KnownOldest, AskedOncePerGroup
<1> QED BY InitAsked, NextAsked, <1>1, PTL DEF Spec

-----------------------------------------------------------------------------
(* The ranges hold the heights of the file.                                *)

\* Every block has been resolved, is being resolved, or is still to come.
Covered ==
    \A b \in inFile :
        \/ b \in left \/ Known(b)
        \/ \E i \in 1..Len(trail) : trail[i] = b
        \/ phase = "walk" /\ at = b

Resolving ==
    phase \in {"resolve", "walk"} => rest = {} /\ ranges = <<>> /\ Covered

\* The height is in one of the ranges found so far.
Within(x) == \E i \in 1..Len(ranges) : ranges[i].start <= x /\ x <= ranges[i].end

\* The ranges are apart and in order, and each starts and ends at a height.
Apart ==
    \A i \in 1..Len(ranges) :
        /\ 0 <= ranges[i].start /\ ranges[i].start <= ranges[i].end
        /\ i > 1 => ranges[i].start > ranges[i - 1].end + 1

\* What is still to be compacted lies above the ranges, and with them it is
\* what the file has.
Split ==
    /\ ranges # <<>> => \A h \in rest : h > ranges[Len(ranges)].end
    /\ \A x \in Int : (\E b \in inFile : chain[b] = x) <=> x \in rest \/ Within(x)

Compacting ==
    phase \in {"compact", "done"} =>
        /\ \A b \in inFile : heights[b] = chain[b]
        /\ Apart /\ Split
        /\ phase = "done" => rest = {}

RangesInv ==
    /\ HeightsInv
    /\ inFile # {}
    /\ phase \in {"resolve", "walk", "compact", "done"}
    /\ rest \subseteq Nat
    /\ ranges \in Seq([start : Int, end : Int])
    /\ Resolving /\ Compacting

LEMMA RangeFields ==
    ASSUME NEW s \in Seq([start : Int, end : Int])
    PROVE  \A i \in 1..Len(s) :
              s[i] \in [start : Int, end : Int] /\ s[i].start \in Int /\ s[i].end \in Int
<1>1. \A S : \A t \in Seq(S) : \A i \in 1..Len(t) : t[i] \in S
  OBVIOUS
<1>2. \A i \in 1..Len(s) : s[i] \in [start : Int, end : Int]
  BY <1>1, Zenon
<1>3. \A r \in [start : Int, end : Int] : r.start \in Int /\ r.end \in Int
  OBVIOUS
<1> QED BY <1>2, <1>3, Zenon

LEMMA InitRanges == Init => RangesInv
<1> SUFFICES ASSUME Init PROVE RangesInv
  OBVIOUS
<1>1. Resolving /\ Compacting
  BY DEF Init, Resolving, Covered, Compacting
<1>2. /\ inFile # {} /\ phase \in {"resolve", "walk", "compact", "done"}
      /\ rest \subseteq Nat /\ ranges \in Seq([start : Int, end : Int])
  BY DEF Init
<1> QED BY <1>1, <1>2, InitHeights DEF RangesInv

\* A height added to the last range, when it is next to it.
LEMMA Extending ==
    ASSUME NEW h \in Int, rest \subseteq Int,
           ranges \in Seq([start : Int, end : Int]), ranges # <<>>,
           Apart, Split, h \in rest, \A g \in rest : h <= g,
           Adjacent(Last(ranges), h),
           ranges' = [ranges EXCEPT ![Len(ranges)].end = h],
           rest' = rest \ {h}, UNCHANGED <<inFile, chain>>
    PROVE  ranges' \in Seq([start : Int, end : Int]) /\ Apart' /\ Split'
<1> DEFINE n == Len(ranges)
<1>1. n \in Nat \ {0} /\ n \in 1..n
  BY EmptySeq
<1>2. \A i \in 1..n : ranges[i].start \in Int /\ ranges[i].end \in Int
  BY RangeFields
<1>3. h = ranges[n].end + 1
  BY DEF Adjacent, Last
<1>4. /\ ranges' \in Seq([start : Int, end : Int]) /\ Len(ranges') = n
      /\ \A i \in 1..n : ranges'[i].start = ranges[i].start
      /\ \A i \in 1..n : i # n => ranges'[i].end = ranges[i].end
      /\ ranges'[n].end = h
  <2>1. ranges' = [ranges EXCEPT ![n] = [ranges[n] EXCEPT !.end = h]]
    OBVIOUS
  <2>2. ranges[n] \in [start : Int, end : Int]
    BY <1>1, RangeFields
  <2> DEFINE r == [ranges[n] EXCEPT !.end = h]
  <2>3. r \in [start : Int, end : Int] /\ r.start = ranges[n].start /\ r.end = h
    BY <2>2
  <2> HIDE DEF r
  <2>4. ranges' = [ranges EXCEPT ![n] = r]
    BY <2>1 DEF r
  <2>5. ranges' \in Seq([start : Int, end : Int]) /\ Len(ranges') = n
    BY <2>3, <2>4, <1>1
  <2>6. \A i \in 1..n : ranges'[i] = IF i = n THEN r ELSE ranges[i]
    BY <2>4, <1>1
  <2> QED BY <2>3, <2>5, <2>6, <1>1
<1>5. Apart'
  <2> SUFFICES ASSUME NEW i \in 1..n
               PROVE  /\ 0 <= ranges'[i].start /\ ranges'[i].start <= ranges'[i].end
                      /\ i > 1 => ranges'[i].start > ranges'[i - 1].end + 1
    BY <1>4 DEF Apart
  <2>1. /\ 0 <= ranges[i].start /\ ranges[i].start <= ranges[i].end
        /\ i > 1 => ranges[i].start > ranges[i - 1].end + 1
    BY DEF Apart
  <2>2. i > 1 => i - 1 \in 1..n /\ i - 1 # n
    BY <1>1
  <2> QED BY <2>1, <2>2, <1>1, <1>2, <1>3, <1>4
<1>6. \A g \in rest' : g > ranges'[n].end
  BY <1>4
<1>7. ASSUME NEW x \in Int
      PROVE  (x \in rest \/ Within(x)) <=> (x \in rest' \/ Within(x)')
  <2>1. ASSUME Within(x) PROVE Within(x)'
    <3>1. PICK i \in 1..n : ranges[i].start <= x /\ x <= ranges[i].end
      BY <2>1 DEF Within
    <3>2. ranges'[i].start <= x /\ x <= ranges'[i].end
      BY <3>1, <1>1, <1>2, <1>3, <1>4
    <3> QED BY <3>2, <1>4 DEF Within
  <2>2. ASSUME Within(x)' PROVE x = h \/ Within(x)
    <3>1. PICK i \in 1..n : ranges'[i].start <= x /\ x <= ranges'[i].end
      BY <2>2, <1>4 DEF Within
    <3>2. x = h \/ (ranges[i].start <= x /\ x <= ranges[i].end)
      BY <3>1, <1>1, <1>2, <1>3, <1>4
    <3> QED BY <3>2 DEF Within
  <2>3. Within(h)'
    <3>1. ranges[n].start <= ranges[n].end
      BY <1>1 DEF Apart
    <3>2. ranges'[n].start <= h /\ h <= ranges'[n].end
      BY <3>1, <1>1, <1>2, <1>3, <1>4
    <3> QED BY <3>2, <1>1, <1>4 DEF Within
  <2> QED BY <2>1, <2>2, <2>3
<1>8. Split'
  <2>1. \A x \in Int : (\E b \in inFile : chain[b] = x) <=> x \in rest \/ Within(x)
    BY DEF Split
  <2>2. \A x \in Int : (\E b \in inFile' : chain'[b] = x) <=> x \in rest' \/ Within(x)'
    BY <2>1, <1>7
  <2> QED BY <2>2, <1>4, <1>6 DEF Split
<1> QED BY <1>4, <1>5, <1>8

\* A height that starts a range of its own.
LEMMA Starting ==
    ASSUME NEW h \in Nat, rest \subseteq Int,
           ranges \in Seq([start : Int, end : Int]),
           Apart, Split, h \in rest, \A g \in rest : h <= g,
           ~(ranges # <<>> /\ Adjacent(Last(ranges), h)),
           ranges' = Append(ranges, [start |-> h, end |-> h]),
           rest' = rest \ {h}, UNCHANGED <<inFile, chain>>
    PROVE  ranges' \in Seq([start : Int, end : Int]) /\ Apart' /\ Split'
<1> DEFINE n == Len(ranges)
           r == [start |-> h, end |-> h]
<1>0. r \in [start : Int, end : Int] /\ r.start = h /\ r.end = h
  OBVIOUS
<1>1. n \in Nat
  OBVIOUS
<1>2. \A i \in 1..n : ranges[i].start \in Int /\ ranges[i].end \in Int
  BY RangeFields
<1> HIDE DEF r
<1>3. ranges' = Append(ranges, r)
  BY DEF r
<1>4. /\ ranges' \in Seq([start : Int, end : Int]) /\ Len(ranges') = n + 1
      /\ \A i \in 1..n : ranges'[i] = ranges[i]
      /\ ranges'[n + 1] = r
  BY <1>0, <1>1, <1>3
<1>5. n > 0 => h > ranges[n].end + 1
  <2> SUFFICES ASSUME n > 0 PROVE h > ranges[n].end + 1
    OBVIOUS
  <2>1. ranges # <<>> /\ n \in 1..n
    BY <1>1
  <2>2. h > ranges[n].end
    BY <2>1 DEF Split
  <2>3. h # ranges[n].end + 1
    BY <2>1 DEF Adjacent, Last
  <2> QED BY <2>1, <2>2, <2>3, <1>2
<1>6. Apart'
  <2> SUFFICES ASSUME NEW i \in 1..(n + 1)
               PROVE  /\ 0 <= ranges'[i].start /\ ranges'[i].start <= ranges'[i].end
                      /\ i > 1 => ranges'[i].start > ranges'[i - 1].end + 1
    BY <1>4 DEF Apart
  <2>1. CASE i \in 1..n
    <3>1. /\ 0 <= ranges[i].start /\ ranges[i].start <= ranges[i].end
          /\ i > 1 => ranges[i].start > ranges[i - 1].end + 1
      BY <2>1 DEF Apart
    <3>2. i > 1 => i - 1 \in 1..n
      BY <2>1, <1>1
    <3> QED BY <3>1, <3>2, <2>1, <1>4
  <2>2. CASE i = n + 1
    <3>1. i > 1 => i - 1 = n /\ n > 0 /\ n \in 1..n
      BY <2>2, <1>1
    <3> QED BY <3>1, <2>2, <1>0, <1>4, <1>5
  <2> QED BY <2>1, <2>2, <1>1
<1>7. \A g \in rest' : g > ranges'[n + 1].end
  BY <1>0, <1>4
<1>8. ASSUME NEW x \in Int
      PROVE  (x \in rest \/ Within(x)) <=> (x \in rest' \/ Within(x)')
  <2>1. ASSUME Within(x) PROVE Within(x)'
    <3>1. PICK i \in 1..n : ranges[i].start <= x /\ x <= ranges[i].end
      BY <2>1 DEF Within
    <3>2. i \in 1..(n + 1) /\ ranges'[i].start <= x /\ x <= ranges'[i].end
      BY <3>1, <1>1, <1>4
    <3> QED BY <3>2, <1>4 DEF Within
  <2>2. ASSUME Within(x)' PROVE x = h \/ Within(x)
    <3>1. PICK i \in 1..(n + 1) : ranges'[i].start <= x /\ x <= ranges'[i].end
      BY <2>2, <1>4 DEF Within
    <3>2. CASE i = n + 1
      BY <3>1, <3>2, <1>0, <1>4
    <3>3. CASE i \in 1..n
      BY <3>1, <3>3, <1>4 DEF Within
    <3> QED BY <3>2, <3>3, <1>1
  <2>3. Within(h)'
    <3>1. n + 1 \in 1..(n + 1) /\ ranges'[n + 1].start <= h /\ h <= ranges'[n + 1].end
      BY <1>0, <1>1, <1>4
    <3> QED BY <3>1, <1>4 DEF Within
  <2> QED BY <2>1, <2>2, <2>3
<1>9. Split'
  <2>1. \A x \in Int : (\E b \in inFile : chain[b] = x) <=> x \in rest \/ Within(x)
    BY DEF Split
  <2>2. \A x \in Int : (\E b \in inFile' : chain'[b] = x) <=> x \in rest' \/ Within(x)'
    BY <2>1, <1>8
  <2> QED BY <2>2, <1>4, <1>7 DEF Split
<1> QED BY <1>4, <1>6, <1>9

LEMMA NextRanges == RangesInv /\ [Next]_vars => RangesInv'
<1> SUFFICES ASSUME RangesInv, [Next]_vars PROVE RangesInv'
  OBVIOUS
<1>0. HeightsInv /\ HeightsInv' /\ TypeInv /\ HeightsTrue
  BY NextHeights DEF RangesInv, HeightsInv
<1>a. /\ inFile # {} /\ phase \in {"resolve", "walk", "compact", "done"}
      /\ rest \subseteq Nat /\ ranges \in Seq([start : Int, end : Int])
      /\ Resolving /\ Compacting
  BY DEF RangesInv
\* While heights are resolved nothing is compacted.
<1>b. ASSUME phase \in {"resolve", "walk"}, phase' \in {"resolve", "walk"}, Covered',
             UNCHANGED <<inFile, rest, ranges>>
      PROVE  RangesInv'
  <2>1. Resolving'
    BY <1>a, <1>b DEF Resolving
  <2>2. Compacting'
    BY <1>b DEF Compacting
  <2> QED BY <1>0, <1>a, <1>b, <2>1, <2>2 DEF RangesInv
<1>1. ASSUME NEW b \in left, Pick(b) PROVE RangesInv'
  <2>1. Covered'
    BY <1>1, <1>a DEF Pick, Resolving, Covered, Known, given
  <2> QED BY <1>1, <1>b, <2>1 DEF Pick, given
<1>2. CASE Walk
  <2>1. /\ \A i \in 1..Len(trail) : i \in 1..Len(trail') /\ trail'[i] = trail[i]
        /\ Len(trail') \in 1..Len(trail') /\ trail'[Len(trail')] = at
    <3>1. at \in Hashes /\ trail \in Seq(Hashes) /\ trail' = Append(trail, at)
      BY <1>2, <1>0, HeightsAssumption DEF Walk, Unresolved, TypeInv
    <3> QED BY <3>1
  <2>2. phase = "walk" /\ phase' = "walk" /\ UNCHANGED <<inFile, left, heights>>
    BY <1>2 DEF Walk, given
  <2>3. Covered'
    BY <1>a, <2>1, <2>2 DEF Resolving, Covered, Known
  <2> QED BY <1>2, <1>b, <2>2, <2>3 DEF Walk
<1>3. CASE Anchor
  <2>1. trail # <<>> /\ phase = "walk" /\ phase' = "resolve" /\ ~Unresolved(at)
    BY <1>3, <1>0 DEF Anchor, HeightsInv, Walking
  <2>2. Covered /\ (at \in inFile => Known(at)) /\ UNCHANGED <<inFile, left, rest, ranges>>
    BY <1>3, <1>a, <2>1 DEF Anchor, Resolving, Unresolved, given
  <2>3. CASE Known(at)
    <3>1. UNCHANGED <<trail, heights>>
      BY <1>3, <2>3 DEF Anchor
    <3>2. Covered'
      BY <3>1, <2>2 DEF Covered, Known
    <3> QED BY <1>b, <2>1, <2>2, <3>2
  <2>4. CASE ~Known(at)
    <3> DEFINE b == trail[Len(trail)]
    <3>1. /\ Len(trail) \in Nat \ {0}
          /\ b \in Hashes /\ trail' = Front(trail)
          /\ Len(Front(trail)) = Len(trail) - 1
          /\ \A i \in 1..(Len(trail) - 1) : Front(trail)[i] = trail[i]
          /\ heights' = [heights EXCEPT ![b] = chain[b]]
      BY <1>3, <2>1, <2>4, <1>0, FrontFacts DEF TypeInv, Anchor
    <3>2. chain[b] # None /\ heights \in [Hashes -> Int \union {None}] /\ inFile \subseteq Hashes
      BY <3>1, <1>0, HeightsAssumption DEF TypeInv
    <3>3. \A i \in 1..Len(trail) : i = Len(trail) \/ (i \in 1..Len(trail') /\ trail'[i] = trail[i])
      BY <3>1
    <3>4. \A c \in inFile : Known(c) \/ c = b => Known(c)'
      BY <3>1, <3>2, <2>2 DEF Known
    <3>5. Covered'
      BY <3>3, <3>4, <2>2 DEF Covered
    <3> QED BY <1>b, <2>1, <2>2, <3>5
  <2> QED BY <2>3, <2>4
<1>4. CASE Descend
  <2> DEFINE b == trail[Len(trail)]
  <2>1. phase = "resolve" /\ phase' = "resolve" /\ trail # <<>>
        /\ UNCHANGED <<inFile, left, rest, ranges, chain>>
    BY <1>4 DEF Descend, given
  <2>2. /\ Len(trail) \in Nat \ {0}
        /\ b \in Hashes /\ trail' = Front(trail)
        /\ Len(Front(trail)) = Len(trail) - 1
        /\ \A i \in 1..(Len(trail) - 1) : Front(trail)[i] = trail[i]
        /\ heights' = [heights EXCEPT ![b] = last + 1]
    BY <1>4, <2>1, <1>0, FrontFacts DEF TypeInv, Descend, NextOf
  <2>3. last + 1 \in Int
    BY <2>1, <2>2, <1>0, HeightsAssumption DEF HeightsInv, TypeInv, Descending
  <2>4. /\ last + 1 # None /\ heights \in [Hashes -> Int \union {None}]
        /\ inFile \subseteq Hashes
    BY <2>3, <1>0, HeightsAssumption DEF TypeInv
  <2>5. \A i \in 1..Len(trail) : i = Len(trail) \/ (i \in 1..Len(trail') /\ trail'[i] = trail[i])
    BY <2>2
  <2>6. \A c \in inFile : Known(c) \/ c = b => Known(c)'
    BY <2>1, <2>2, <2>4 DEF Known
  <2>7. Covered
    BY <1>a, <2>1 DEF Resolving
  <2>8. Covered'
    BY <2>1, <2>5, <2>6, <2>7 DEF Covered
  <2> QED BY <1>b, <2>1, <2>8
<1>5. CASE Resolved
  <2>1. /\ phase = "resolve" /\ phase' = "compact" /\ trail = <<>> /\ left = {}
        /\ rest' = {heights[b] : b \in inFile}
        /\ UNCHANGED <<inFile, chain, heights, ranges>>
    BY <1>5 DEF Resolved, given, resolving
  <2>2. Covered /\ ranges = <<>> /\ rest = {}
    BY <1>a, <2>1 DEF Resolving
  <2>3. \A b \in inFile : Known(b)
    BY <2>1, <2>2 DEF Covered
  <2>4. \A b \in inFile : heights[b] = chain[b] /\ chain[b] \in Nat
    BY <2>3, <1>0, HeightsAssumption DEF Known, HeightsTrue, TypeInv
  <2>5. Apart' /\ ~(\E x \in Int : Within(x)')
    BY <2>1, <2>2 DEF Apart, Within
  <2>6. Split'
    <3>1. \A x \in Int : (\E b \in inFile : chain[b] = x) <=> x \in rest'
      BY <2>1, <2>4
    <3> QED BY <3>1, <2>1, <2>2, <2>5 DEF Split
  <2>7. Compacting' /\ Resolving'
    BY <2>1, <2>4, <2>5, <2>6 DEF Compacting, Resolving
  <2>8. rest' \subseteq Nat
    BY <2>1, <2>4
  <2> QED BY <1>0, <1>a, <2>1, <2>7, <2>8 DEF RangesInv
<1>6. ASSUME NEW h \in rest, Compact(h) PROVE RangesInv'
  <2>1. /\ phase = "compact" /\ phase' = "compact" /\ \A g \in rest : h <= g
        /\ rest' = rest \ {h} /\ UNCHANGED <<inFile, chain, heights>>
        /\ h \in Nat /\ h \in Int /\ rest \subseteq Int /\ rest' \subseteq Nat
    BY <1>6, <1>a DEF Compact, given, resolving
  <2>2. Apart /\ Split /\ \A b \in inFile : heights[b] = chain[b]
    BY <1>a, <2>1 DEF Compacting
  <2>3. ranges' \in Seq([start : Int, end : Int]) /\ Apart' /\ Split'
    <3>1. CASE ranges # <<>> /\ Adjacent(Last(ranges), h)
      <4>1. ranges' = [ranges EXCEPT ![Len(ranges)].end = h]
        BY <1>6, <3>1 DEF Compact
      <4> QED BY <4>1, <3>1, <2>1, <2>2, <1>a, Extending
    <3>2. CASE ~(ranges # <<>> /\ Adjacent(Last(ranges), h))
      <4>1. ranges' = Append(ranges, [start |-> h, end |-> h])
        BY <1>6, <3>2 DEF Compact
      <4> QED BY <4>1, <3>2, <2>1, <2>2, <1>a, Starting
    <3> QED BY <3>1, <3>2
  <2>4. Compacting' /\ Resolving'
    BY <2>1, <2>2, <2>3 DEF Compacting, Resolving
  <2> QED BY <1>0, <1>a, <2>1, <2>3, <2>4 DEF RangesInv
<1>7. CASE Compacted
  <2>1. /\ phase = "compact" /\ phase' = "done" /\ rest = {}
        /\ UNCHANGED <<inFile, chain, heights, rest, ranges>>
    BY <1>7 DEF Compacted, given, resolving
  <2>2. Compacting' /\ Resolving'
    BY <1>a, <2>1 DEF Compacting, Resolving, Apart, Split, Within
  <2> QED BY <1>0, <1>a, <2>1, <2>2 DEF RangesInv
<1>8. CASE UNCHANGED vars
  BY <1>0, <1>8 DEF vars, given, resolving, RangesInv, Resolving, Covered, Known, Compacting,
     Apart, Split, Within
<1> QED BY <1>1, <1>2, <1>3, <1>4, <1>5, <1>6, <1>7, <1>8 DEF Next

\* When the ranges are done they hold exactly the heights of the file's blocks,
\* in the form that the reader of a marker accepts.
THEOREM RangesAreFaithful == Spec => []RangesFaithful
<1>1. RangesInv => RangesFaithful
  <2> SUFFICES ASSUME RangesInv, phase = "done"
               PROVE  /\ UNION {s.start..s.end : s \in ToSet(ranges)} = {chain[b] : b \in inFile}
                      /\ Canonical(ranges)
    BY DEF RangesFaithful
  <2>1. Apart /\ Split /\ rest = {} /\ inFile # {} /\ ranges \in Seq([start : Int, end : Int])
    BY DEF RangesInv, Compacting
  <2>2. \A b \in inFile : chain[b] \in Int
    BY HeightsAssumption DEF RangesInv, HeightsInv, TypeInv
  <2>3. \A i \in 1..Len(ranges) : ranges[i].start \in Int /\ ranges[i].end \in Int
    BY <2>1, RangeFields
  <2>4. \A x \in Int : (\E b \in inFile : chain[b] = x) <=> Within(x)
    BY <2>1 DEF Split
  <2>5. \A x : x \in UNION {s.start..s.end : s \in ToSet(ranges)} <=> x \in Int /\ Within(x)
    <3>1. ToSet(ranges) = {ranges[i] : i \in 1..Len(ranges)}
      BY <2>1 DEF ToSet
    <3> QED BY <3>1, <2>3 DEF Within
  <2>6. \A x : x \in {chain[b] : b \in inFile} <=> x \in Int /\ Within(x)
    BY <2>2, <2>4
  <2>7. UNION {s.start..s.end : s \in ToSet(ranges)} = {chain[b] : b \in inFile}
    BY <2>5, <2>6
  <2>8. ranges # <<>>
    <3>1. PICK b \in inFile : Within(chain[b])
      BY <2>1, <2>2, <2>4
    <3> QED BY <3>1 DEF Within
  <2>9. Canonical(ranges)
    BY <2>1, <2>8 DEF Canonical, Apart
  <2> QED BY <2>7, <2>9
<1> QED BY InitRanges, NextRanges, <1>1, PTL DEF Spec

-----------------------------------------------------------------------------
(* Cells, prefixes and records.                                            *)

Cell ==
    {Zero, <<"magic">>, <<"body">>}
        \union {<<"size", n>> : n \in Int} \union {<<"header", b>> : b \in Int}

LEMMA CellKinds ==
    /\ <<"magic">> # Zero
    /\ \A n, m : <<"size", n>> = <<"size", m>> => n = m
    /\ Zero \in Cell /\ <<"magic">> \in Cell /\ <<"body">> \in Cell
    /\ \A n \in Int : <<"size", n>> \in Cell /\ <<"header", n>> \in Cell
<1>1. <<"magic">> # Zero
  BY DEF Zero
<1>2. \A n, m : <<"size", n>> = <<"size", m>> => n = m
  OBVIOUS
<1>3. /\ Zero \in Cell /\ <<"magic">> \in Cell /\ <<"body">> \in Cell
      /\ \A n \in Int : <<"size", n>> \in Cell /\ <<"header", n>> \in Cell
  <2>1. Zero \in Cell /\ <<"magic">> \in Cell /\ <<"body">> \in Cell
    BY Zenon DEF Cell
  <2>2. ASSUME NEW n \in Int PROVE <<"size", n>> \in Cell /\ <<"header", n>> \in Cell
    <3>1. <<"size", n>> \in {<<"size", m>> : m \in Int}
      BY Zenon
    <3>2. <<"header", n>> \in {<<"header", b>> : b \in Int}
      BY Zenon
    <3> QED BY <3>1, <3>2, Zenon DEF Cell
  <2> QED BY <2>1, <2>2, Zenon
<1> QED BY <1>1, <1>2, <1>3, Zenon

LEMMA AsSeq ==
    ASSUME NEW S, NEW n \in Nat, NEW f \in [1..n -> S]
    PROVE  f \in Seq(S) /\ Len(f) = n
<1>1. f \in Seq(S)
  OBVIOUS
<1>2. 1..Len(f) = 1..n /\ Len(f) \in Nat
  BY <1>1, LenProperties
<1>3. (n > 0 => n \in 1..Len(f)) /\ (Len(f) > 0 => Len(f) \in 1..n)
  BY <1>2
<1> QED BY <1>1, <1>2, <1>3

LEMMA ThreeCells ==
    ASSUME NEW S, NEW u \in S, NEW v \in S, NEW w \in S
    PROVE  <<u, v, w>> \in Seq(S) /\ Len(<<u, v, w>>) = 3
OBVIOUS

LEMMA RecordIs ==
    ASSUME NEW b \in Int, NEW n \in Nat \ {0}
    PROVE  /\ Record(b, n) \in Seq(Cell)
           /\ Len(Record(b, n)) = n + 2
           /\ Record(b, n)[1] = <<"magic">>
           /\ Record(b, n)[2] = <<"size", n>>
           /\ Record(b, n)[3] = <<"header", b>>
<1> DEFINE head == << <<"magic">>, <<"size", n>>, <<"header", b>> >>
           tail == [i \in 1..n-1 |-> <<"body">>]
<1>1. head \in Seq(Cell) /\ Len(head) = 3
  <2>1. n \in Int
    OBVIOUS
  <2>2. <<"magic">> \in Cell /\ <<"size", n>> \in Cell /\ <<"header", b>> \in Cell
    BY <2>1, CellKinds, Zenon
  <2> QED BY <2>2, ThreeCells
<1>2. tail \in Seq(Cell) /\ Len(tail) = n - 1
  <2>1. n - 1 \in Nat
    OBVIOUS
  <2>2. \A i \in 1..(n - 1) : <<"body">> \in Cell
    BY CellKinds
  <2>3. tail \in [1..(n - 1) -> Cell]
    BY <2>2
  <2> QED BY <2>1, <2>3, AsSeq
<1>3. head[1] = <<"magic">> /\ head[2] = <<"size", n>> /\ head[3] = <<"header", b>>
  OBVIOUS
<1>4. Record(b, n) = head \o tail
  BY DEF Record
<1> HIDE DEF head, tail
<1>5. /\ head \o tail \in Seq(Cell)
      /\ Len(head \o tail) = Len(head) + Len(tail)
      /\ \A i \in 1..(Len(head) + Len(tail)) :
            (head \o tail)[i] = IF i <= Len(head) THEN head[i] ELSE tail[i - Len(head)]
  BY <1>1, <1>2, ConcatProperties
<1>6. Len(head) + Len(tail) = n + 2 /\ {1, 2, 3} \subseteq 1..(n + 2)
  BY <1>1, <1>2
<1> QED BY <1>1, <1>3, <1>4, <1>5, <1>6

\* A pair of neighbours of a sequence.
LEMMA PairIs ==
    ASSUME NEW s, NEW m \in Int, NEW n \in Int, n = m + 1,
           \A i \in m..n : s[i] \in Cell
    PROVE  /\ Len(SubSeq(s, m, n)) = 2
           /\ SubSeq(s, m, n)[1] = s[m] /\ SubSeq(s, m, n)[2] = s[n]
<1> DEFINE two == SubSeq(s, m, n)
<1>1. /\ Len(two) = IF m <= n THEN n - m + 1 ELSE 0
      /\ \A i \in 1..(n - m + 1) : two[i] = s[m + i - 1]
  BY SubSeqProperties
<1> HIDE DEF two
<1>2. m <= n /\ n - m + 1 = 2 /\ m + 1 - 1 = m /\ m + 2 - 1 = n
  OBVIOUS
<1>3. Len(two) = 2 /\ two[1] = s[m] /\ two[2] = s[n]
  BY <1>1, <1>2
<1> QED BY <1>3 DEF two

\* The two cells of a prefix that are in the file, or none of them at its end.
LEMMA PrefixIs ==
    ASSUME cells \in Seq(Cell), pos \in Nat
    PROVE  /\ pos + 2 <= Len(cells) =>
                 /\ Len(Prefix) = 2
                 /\ Prefix[1] = cells[pos + 1] /\ Prefix[2] = cells[pos + 2]
           /\ pos = Len(cells) => Prefix = <<>>
<1>1. Len(cells) \in Nat
  OBVIOUS
<1>2. ASSUME pos + 2 <= Len(cells)
      PROVE  /\ Len(Prefix) = 2
             /\ Prefix[1] = cells[pos + 1] /\ Prefix[2] = cells[pos + 2]
  <2>1. Prefix = SubSeq(cells, pos + 1, pos + 2)
    BY <1>2 DEF Prefix
  <2>2. \A i \in (pos + 1)..(pos + 2) : cells[i] \in Cell
    BY <1>1, <1>2
  <2>3. pos + 1 \in Int /\ pos + 2 \in Int /\ pos + 2 = (pos + 1) + 1
    OBVIOUS
  <2> QED BY <2>1, <2>2, <2>3, PairIs
<1>3. ASSUME pos = Len(cells) PROVE Prefix = <<>>
  <2>1. Prefix = SubSeq(cells, pos + 1, Len(cells))
    BY <1>1, <1>3 DEF Prefix
  <2>2. pos + 1 \in Int /\ Len(cells) \in Int /\ Len(cells) < pos + 1
    BY <1>1, <1>3
  <2> QED BY <2>1, <2>2, SubSeqEmpty
<1> QED BY <1>2, <1>3

\* Whatever is missing is there afterwards.
LEMMA PreallocationIs ==
    ASSUME NEW need \in Int
    PROVE  Preallocation(need) \in Seq(Cell) /\ Len(Preallocation(need)) >= need
<1>1. CASE need <= 0
  <2>1. Preallocation(need) = <<>>
    BY <1>1 DEF Preallocation
  <2> QED BY <2>1, <1>1
<1>2. CASE need > 0
  <2> DEFINE q == (need + Chunk - 1) \div Chunk
             n == q * Chunk
  <2>1. Chunk \in Nat \ {0}
    BY BlockScanAssumption
  <2>2. q \in Nat /\ n \in Nat /\ n >= need
    <3>1. /\ q \in Int
          /\ need + Chunk - 1 = Chunk * q + ((need + Chunk - 1) % Chunk)
          /\ (need + Chunk - 1) % Chunk \in 0..(Chunk - 1)
      BY <2>1, <1>2
    <3> HIDE DEF q
    <3>2. Chunk * q >= need /\ n = Chunk * q
      BY <3>1, <2>1
    <3>3. q > 0
      BY <3>1, <3>2, <2>1, <1>2
    <3> QED BY <3>1, <3>2, <3>3, <2>1
  <2>3. Preallocation(need) = Zeros(n)
    BY <1>2 DEF Preallocation
  <2> HIDE DEF n
  <2>4. Zeros(n) \in [1..n -> Cell]
    BY CellKinds DEF Zeros
  <2> QED BY <2>2, <2>3, <2>4, AsSeq
<1> QED BY <1>1, <1>2

LEMMA WrittenIs ==
    ASSUME cells \in Seq(Cell), pending \in Seq(Cell), used \in Nat, NEW k \in 0..Len(pending)
    PROVE  /\ Written(cells, k) \in Seq(Cell)
           /\ Len(Written(cells, k)) = Len(cells)
           /\ \A i \in 1..Len(cells) : i - used \in 1..k => Written(cells, k)[i] = pending[i - used]
           /\ \A i \in 1..Len(cells) : i - used \notin 1..k => Written(cells, k)[i] = cells[i]
<1>1. Len(cells) \in Nat /\ DOMAIN cells = 1..Len(cells) /\ Len(pending) \in Nat
  OBVIOUS
<1>2. \A i \in 1..Len(cells) :
         (IF i - used \in 1..k THEN pending[i - used] ELSE cells[i]) \in Cell
  BY <1>1
<1>3. Written(cells, k) \in [1..Len(cells) -> Cell]
  BY <1>1, <1>2 DEF Written
<1>4. \A i \in 1..Len(cells) :
         Written(cells, k)[i] = IF i - used \in 1..k THEN pending[i - used] ELSE cells[i]
  BY <1>1 DEF Written
<1> QED BY <1>1, <1>3, <1>4, AsSeq

-----------------------------------------------------------------------------
(* The layout of the file, and where a scan is in it.                      *)

ScanTypeInv ==
    /\ {stored, used, before, pos, size, length} \subseteq Nat
    /\ cells \in Seq(Cell) /\ pending \in Seq(Cell) /\ yielded \in Seq(Cell)
    /\ sealed \in BOOLEAN

\* Block b starts behind the first s[b] cells and has a payload of z[b]: what
\* has been stored stays in the file.
Laid(s, z) ==
    /\ s[1] = 0 /\ s[stored + 1] = used
    /\ \A b \in 1..stored :
        /\ z[b] \in 1..MaxPayload
        /\ s[b + 1] = s[b] + 2 + z[b] /\ s[b + 1] <= used
        /\ cells[s[b] + 1] = <<"magic">>
        /\ cells[s[b] + 2] = <<"size", z[b]>>
        /\ cells[s[b] + 3] = <<"header", b>>

\* There is room for the record being written, and a completed file ends where
\* its last record does.
Writing ==
    /\ used <= Len(cells)
    /\ pending # <<>> =>
        /\ ~sealed /\ used + Len(pending) <= Len(cells)
        /\ \E n \in 1..MaxPayload : pending = Record(stored + 1, n)
    /\ sealed => Len(cells) = used

\* A scan that has not yielded all that was stored when it began is at the
\* record that comes next.
Tracking(s, z) ==
    spc # "idle" =>
        /\ before <= stored
        /\ \A i \in 1..before : i <= Len(yielded) => yielded[i] = <<"header", i>>
        /\ spc = "prefix" /\ Len(yielded) <= before => pos = s[Len(yielded) + 1]
        /\ spc = "header" /\ Len(yielded) < before =>
              pos = s[Len(yielded) + 1] + 2 /\ size = z[Len(yielded) + 1]
        /\ spc = "done" => Len(yielded) >= before

\* A scan of a completed file that nothing disturbs.
Undisturbed ==
    sealed /\ quiet /\ spc # "idle" =>
        /\ before = stored /\ length = used /\ Len(yielded) <= stored
        /\ spc # "error" /\ (spc = "header" => Len(yielded) < stored)

ScanInv ==
    /\ ScanTypeInv /\ Writing /\ Undisturbed
    /\ \E s, z \in [Nat -> Nat] : Laid(s, z) /\ Tracking(s, z)

LEMMA InitScan == ScanInit => ScanInv
<1> SUFFICES ASSUME ScanInit PROVE ScanInv
  OBVIOUS
<1>1. ScanTypeInv /\ Writing /\ Undisturbed
  <2>1. <<>> \in Seq(Cell) /\ Len(<<>>) = 0
    OBVIOUS
  <2>2. cells = <<>> /\ pending = <<>> /\ yielded = <<>> /\ used = 0 /\ sealed = FALSE
    BY DEF ScanInit
  <2>3. {stored, used, before, pos, size, length} \subseteq Nat
    BY DEF ScanInit
  <2>4. Len(cells) = 0
    BY <2>1, <2>2
  <2>5. ScanTypeInv
    BY <2>1, <2>2, <2>3 DEF ScanTypeInv
  <2>6. Writing
    BY <2>2, <2>4 DEF Writing
  <2>7. Undisturbed
    BY DEF ScanInit, Undisturbed
  <2> QED BY <2>5, <2>6, <2>7
<1> DEFINE nil == [i \in Nat |-> 0]
<1>2. nil \in [Nat -> Nat] /\ nil[1] = 0 /\ stored = 0 /\ used = 0 /\ nil[stored + 1] = used
  BY DEF ScanInit
<1>3. Laid(nil, nil)
  BY <1>2 DEF Laid
<1>4. Tracking(nil, nil)
  BY DEF ScanInit, Tracking
<1> HIDE DEF nil
<1> QED BY <1>1, <1>2, <1>3, <1>4 DEF ScanInv

\* What is stored is where it was, as long as the cells it takes are.
LEMMA LaidStays ==
    ASSUME NEW s \in [Nat -> Nat], NEW z \in [Nat -> Nat], ScanTypeInv, Laid(s, z),
           UNCHANGED <<stored, used>>, \A i \in 1..used : cells'[i] = cells[i]
    PROVE  Laid(s, z)'
<1>1. stored \in Nat /\ used \in Nat
  BY DEF ScanTypeInv
<1>2. ASSUME NEW b \in 1..stored
      PROVE  /\ z[b] \in 1..MaxPayload
             /\ s[b + 1] = s[b] + 2 + z[b] /\ s[b + 1] <= used
             /\ cells'[s[b] + 1] = <<"magic">>
             /\ cells'[s[b] + 2] = <<"size", z[b]>>
             /\ cells'[s[b] + 3] = <<"header", b>>
  <2>1. /\ z[b] \in 1..MaxPayload
        /\ s[b + 1] = s[b] + 2 + z[b] /\ s[b + 1] <= used
        /\ cells[s[b] + 1] = <<"magic">>
        /\ cells[s[b] + 2] = <<"size", z[b]>>
        /\ cells[s[b] + 3] = <<"header", b>>
    BY DEF Laid
  <2>2. b \in Nat /\ s[b] \in Nat /\ z[b] \in Nat /\ z[b] >= 1
    BY <2>1, <1>1
  <2>3. {s[b] + 1, s[b] + 2, s[b] + 3} \subseteq 1..used
    BY <2>1, <2>2, <1>1
  <2> QED BY <2>1, <2>3
<1>3. s[1] = 0 /\ s[stored + 1] = used
  BY DEF Laid
<1> QED BY <1>2, <1>3 DEF Laid

\* The prefix of a stored record is neither the end nor taken for another.
LEMMA AtRecord ==
    ASSUME NEW s \in [Nat -> Nat], NEW z \in [Nat -> Nat], ScanTypeInv, Laid(s, z), Writing,
           NEW b \in 1..stored, pos = s[b]
    PROVE  /\ ~Ends /\ z[b] \in 1..MaxPayload /\ \A n : Claims(n) <=> n = z[b]
<1>1. stored \in Nat /\ used \in Nat /\ pos \in Nat /\ cells \in Seq(Cell)
  BY DEF ScanTypeInv
<1>2. /\ z[b] \in 1..MaxPayload
      /\ s[b + 1] = s[b] + 2 + z[b] /\ s[b + 1] <= used
      /\ cells[s[b] + 1] = <<"magic">>
      /\ cells[s[b] + 2] = <<"size", z[b]>>
  BY DEF Laid
<1>3. pos + 2 <= Len(cells)
  <2>1. used <= Len(cells) /\ Len(cells) \in Nat
    BY <1>1 DEF Writing
  <2>2. b \in Nat
    BY <1>1
  <2>3. z[b] \in Nat /\ s[b] \in Nat /\ s[b + 1] \in Nat
    BY <2>2
  <2>4. s[b + 1] = s[b] + 2 + z[b] /\ s[b + 1] <= used
    BY <1>2
  <2>5. \A u, v, x, y \in Nat : x = u + 2 + v /\ x <= y => u + 2 <= y
    OBVIOUS
  <2>6. s[b] + 2 <= used
    BY <1>1, <2>3, <2>4, <2>5, Zenon
  <2> QED BY <1>1, <2>1, <2>6
<1>4. Len(Prefix) = 2 /\ Prefix[1] = <<"magic">> /\ Prefix[2] = <<"size", z[b]>>
  BY <1>1, <1>2, <1>3, PrefixIs
<1>5. ~Ends
  <2>1. Prefix # <<>>
    <3>1. Len(<<>>) # 2
      OBVIOUS
    <3> QED BY <1>4, <3>1, Zenon
  <2>2. Prefix # <<Zero, Zero>>
    <3>1. <<Zero, Zero>>[1] = Zero
      OBVIOUS
    <3> QED BY <3>1, <1>4, CellKinds
  <2> QED BY <2>1, <2>2 DEF Ends
<1>6. \A n : Claims(n) <=> n = z[b]
  BY <1>4, CellKinds, Zenon DEF Claims
<1> QED BY <1>2, <1>5, <1>6

\* A step of Core that stores no block.
LEMMA CoreStays ==
    ASSUME ScanInv, UNCHANGED <<stored, used, scan, before>>, quiet' = FALSE,
           cells' \in Seq(Cell), pending' \in Seq(Cell), sealed' \in BOOLEAN, Writing',
           \A i \in 1..used : cells'[i] = cells[i]
    PROVE  ScanInv'
<1>1. PICK s, z \in [Nat -> Nat] : Laid(s, z) /\ Tracking(s, z)
  BY DEF ScanInv
<1>2. Laid(s, z)'
  BY <1>1, LaidStays DEF ScanInv
<1>3. Tracking(s, z)'
  BY <1>1 DEF Tracking, scan
<1>4. ScanTypeInv'
  <2>1. /\ {stored, used, before, pos, size, length} \subseteq Nat /\ yielded \in Seq(Cell)
        /\ UNCHANGED <<stored, used, before, pos, size, length, yielded>>
    BY DEF ScanInv, ScanTypeInv, scan
  <2>2. {stored', used', before', pos', size', length'} \subseteq Nat /\ yielded' \in Seq(Cell)
    BY <2>1
  <2> QED BY <2>2 DEF ScanTypeInv
<1>5. Undisturbed'
  BY DEF Undisturbed
<1> QED BY <1>1, <1>2, <1>3, <1>4, <1>5 DEF ScanInv

\* A function that is s but for its value v at k.
Changed(s, k, v) ==
    \E t \in [Nat -> Nat] : t[k] = v /\ \A i \in Nat : i # k => t[i] = s[i]

LEMMA ChangedIs ==
    ASSUME NEW s \in [Nat -> Nat], NEW k \in Nat, NEW v \in Nat
    PROVE  Changed(s, k, v)
<1> DEFINE t == [s EXCEPT ![k] = v]
<1>1. t \in [Nat -> Nat] /\ t[k] = v /\ \A i \in Nat : i # k => t[i] = s[i]
  OBVIOUS
<1> QED BY <1>1 DEF Changed

LEMMA CoreScan == ScanInv /\ Core => ScanInv'
<1> SUFFICES ASSUME ScanInv, Core PROVE ScanInv'
  OBVIOUS
<1>1. quiet' = FALSE /\ UNCHANGED <<scan, before>>
  BY DEF Core
<1>a. ScanTypeInv
  BY DEF ScanInv
<1>s. cells \in Seq(Cell) /\ pending \in Seq(Cell) /\ sealed \in BOOLEAN
  BY <1>a, Zenon DEF ScanTypeInv
<1>2. stored \in Nat /\ used \in Nat /\ Len(cells) \in Nat /\ Len(pending) \in Nat
  <2>1. stored \in Nat /\ used \in Nat
    BY <1>a DEF ScanTypeInv
  <2>2. \A q \in Seq(Cell) : Len(q) \in Nat
    OBVIOUS
  <2> QED BY <2>1, <2>2, <1>s, Zenon
<1>3. /\ used <= Len(cells) /\ (sealed => Len(cells) = used)
      /\ pending # <<>> =>
            /\ ~sealed /\ used + Len(pending) <= Len(cells)
            /\ \E n \in 1..MaxPayload : pending = Record(stored + 1, n)
  BY DEF ScanInv, Writing
<1>4. MaxPayload \in Nat \ {0}
  BY BlockScanAssumption
<1>5. ASSUME NEW n \in 1..MaxPayload, StartRecord(n) PROVE ScanInv'
  <2> DEFINE pre == Preallocation(used + 2 + n - Len(cells))
  <2>1. /\ ~sealed /\ pending = <<>> /\ pending' = Record(stored + 1, n) /\ cells' = cells \o pre
        /\ UNCHANGED <<stored, used, sealed>>
    BY <1>5 DEF StartRecord
  <2>2. n \in Nat \ {0} /\ used + 2 + n - Len(cells) \in Int /\ stored + 1 \in Int
    BY <1>2, <1>4
  <2>3. pre \in Seq(Cell) /\ Len(pre) >= used + 2 + n - Len(cells) /\ Len(pre) \in Nat
    BY <2>2, PreallocationIs
  <2>4. Record(stored + 1, n) \in Seq(Cell) /\ Len(Record(stored + 1, n)) = n + 2
    BY <2>2, RecordIs
  <2> HIDE DEF pre
  <2>5. /\ cells' \in Seq(Cell) /\ Len(cells') = Len(cells) + Len(pre)
        /\ \A i \in 1..(Len(cells) + Len(pre)) :
              cells'[i] = IF i <= Len(cells) THEN cells[i] ELSE pre[i - Len(cells)]
    BY <1>s, <2>1, <2>3, ConcatProperties
  <2>6. \A i \in 1..used : cells'[i] = cells[i]
    BY <1>2, <1>3, <2>3, <2>5
  <2>7. used' <= Len(cells') /\ used' + Len(pending') <= Len(cells')
    BY <1>2, <1>3, <2>1, <2>2, <2>3, <2>4, <2>5
  <2>8. ~sealed' /\ \E m \in 1..MaxPayload : pending' = Record(stored' + 1, m)
    BY <2>1
  <2>9. Writing'
    BY <2>7, <2>8 DEF Writing
  <2>10. pending' \in Seq(Cell) /\ sealed' \in BOOLEAN
    BY <1>s, <2>1, <2>4
  <2> QED BY <1>1, <2>1, <2>5, <2>6, <2>9, <2>10, CoreStays
<1>6. ASSUME NEW k \in 1..MaxPayload+1, WritePart(k) PROVE ScanInv'
  <2>1. /\ k \in 0..Len(pending) /\ cells' = Written(cells, k)
        /\ UNCHANGED <<stored, used, pending, sealed>>
    BY <1>2, <1>4, <1>6 DEF WritePart
  <2>2. /\ cells' \in Seq(Cell) /\ Len(cells') = Len(cells)
        /\ \A i \in 1..Len(cells) : i - used \notin 1..k => cells'[i] = cells[i]
    BY <1>s, <1>2, <2>1, WrittenIs
  <2>3. \A i \in 1..used : cells'[i] = cells[i]
    <3>1. \A i \in 1..used : i \in 1..Len(cells) /\ i - used \notin 1..k
      BY <1>2, <1>3, <2>1
    <3> QED BY <3>1, <2>2, Zenon
  <2>4. Writing'
    BY <1>3, <2>1, <2>2 DEF Writing
  <2> QED BY <1>1, <1>s, <2>1, <2>2, <2>3, <2>4, CoreStays
<1>7. CASE Complete
  <2>1. /\ pending = <<>> /\ cells' = SubSeq(cells, 1, used) /\ sealed'
        /\ UNCHANGED <<stored, used, pending>>
    BY <1>7 DEF Complete
  <2>2. \A i \in 1..used : cells[i] \in Cell
    BY <1>s, <1>2, <1>3
  <2>3. /\ SubSeq(cells, 1, used) \in Seq(Cell)
        /\ Len(SubSeq(cells, 1, used)) = IF 1 <= used THEN used - 1 + 1 ELSE 0
        /\ \A i \in 1..(used - 1 + 1) : SubSeq(cells, 1, used)[i] = cells[1 + i - 1]
    BY <1>2, <2>2, SubSeqProperties
  <2>4. (IF 1 <= used THEN used - 1 + 1 ELSE 0) = used /\ used - 1 + 1 = used
    BY <1>2
  <2>5. \A i \in 1..used : 1 + i - 1 = i
    BY <1>2
  <2>6. cells' \in Seq(Cell) /\ Len(cells') = used /\ \A i \in 1..used : cells'[i] = cells[i]
    BY <2>1, <2>3, <2>4, <2>5
  <2>7. Writing'
    BY <1>2, <2>1, <2>6 DEF Writing
  <2>8. sealed' \in BOOLEAN
    BY <1>7 DEF Complete
  <2> QED BY <1>1, <1>s, <2>1, <2>6, <2>7, <2>8, CoreStays
<1>8. CASE Crash
  <2>1. pending # <<>> /\ pending' = <<>> /\ UNCHANGED <<cells, stored, used, sealed>>
    BY <1>8 DEF Crash
  <2>2. Writing'
    BY <1>3, <2>1 DEF Writing
  <2>3. pending' \in Seq(Cell)
    BY <2>1
  <2> QED BY <1>1, <1>s, <2>1, <2>2, <2>3, CoreStays
<1>9. CASE WriteAll
  <2>1. /\ pending # <<>> /\ pending' = <<>> /\ cells' = Written(cells, Len(pending))
        /\ stored' = stored + 1 /\ used' = used + Len(pending) /\ UNCHANGED sealed
    BY <1>9 DEF WriteAll
  <2>2. PICK n \in 1..MaxPayload : pending = Record(stored + 1, n)
    BY <1>3, <2>1
  <2>3. n \in Nat \ {0} /\ stored + 1 \in Int
    BY <1>2, <1>4
  <2>4. /\ Len(pending) = n + 2 /\ pending[1] = <<"magic">>
        /\ pending[2] = <<"size", n>> /\ pending[3] = <<"header", stored + 1>>
    BY <2>2, <2>3, RecordIs
  <2>5. /\ cells' \in Seq(Cell) /\ Len(cells') = Len(cells)
        /\ \A i \in 1..Len(cells) : i - used \in 1..Len(pending) => cells'[i] = pending[i - used]
        /\ \A i \in 1..Len(cells) : i - used \notin 1..Len(pending) => cells'[i] = cells[i]
    <3>1. Len(pending) \in 0..Len(pending)
      BY <1>2
    <3> QED BY <1>s, <1>2, <2>1, <3>1, WrittenIs
  <2>6. used + Len(pending) <= Len(cells) /\ ~sealed
    BY <1>3, <2>1
  <2>7. \A i \in 1..used : cells'[i] = cells[i]
    BY <1>2, <1>3, <2>5
  <2>8. /\ cells'[used + 1] = <<"magic">>
        /\ cells'[used + 2] = <<"size", n>> /\ cells'[used + 3] = <<"header", stored + 1>>
    <3>1. ASSUME NEW j \in 1..3 PROVE cells'[used + j] = pending[j]
      <4>1. PICK e \in Int : e = used + j
        BY <1>2
      <4>2. e \in 1..Len(cells) /\ e - used \in 1..Len(pending) /\ e - used = j
        BY <1>2, <2>3, <2>4, <2>6, <4>1
      <4>3. cells'[e] = pending[e - used]
        BY <4>2, <2>5, Zenon
      <4> QED BY <4>1, <4>2, <4>3
    <3>2. cells'[used + 1] = pending[1] /\ cells'[used + 2] = pending[2] /\ cells'[used + 3] = pending[3]
      BY <3>1
    <3> QED BY <3>2, <2>4
  <2>9. PICK s, z \in [Nat -> Nat] : Laid(s, z) /\ Tracking(s, z)
    BY DEF ScanInv
  <2>a. stored + 2 \in Nat /\ stored + 1 \in Nat /\ used + 2 + n \in Nat /\ n \in Nat
    BY <1>2, <2>3
  <2>b. PICK t \in [Nat -> Nat] :
           t[stored + 2] = used + 2 + n /\ \A i \in Nat : i # stored + 2 => t[i] = s[i]
    <3>1. Changed(s, stored + 2, used + 2 + n)
      BY <2>9, <2>a, ChangedIs
    <3> QED BY <3>1 DEF Changed
  <2>c. PICK y \in [Nat -> Nat] :
           y[stored + 1] = n /\ \A i \in Nat : i # stored + 1 => y[i] = z[i]
    <3>1. Changed(z, stored + 1, n)
      BY <2>9, <2>a, ChangedIs
    <3> QED BY <3>1 DEF Changed
  <2>10. /\ \A i \in Nat : i <= stored + 1 => t[i] = s[i]
         /\ \A i \in Nat : i <= stored => y[i] = z[i]
    <3>1. \A i, m \in Nat : (i <= m + 1 => i # m + 2) /\ (i <= m => i # m + 1)
      OBVIOUS
    <3> QED BY <3>1, <1>2, <2>b, <2>c, Zenon
  <2>11. Laid(t, y)'
    <3>1. \A b \in 1..stored :
             /\ z[b] \in 1..MaxPayload
             /\ s[b + 1] = s[b] + 2 + z[b] /\ s[b + 1] <= used
             /\ cells[s[b] + 1] = <<"magic">>
             /\ cells[s[b] + 2] = <<"size", z[b]>>
             /\ cells[s[b] + 3] = <<"header", b>>
      BY <2>9 DEF Laid
    <3>2. s[1] = 0 /\ s[stored + 1] = used
      BY <2>9 DEF Laid
    <3>3. ASSUME NEW b \in 1..(stored + 1)
          PROVE  /\ y[b] \in 1..MaxPayload
                 /\ t[b + 1] = t[b] + 2 + y[b] /\ t[b + 1] <= used'
                 /\ cells'[t[b] + 1] = <<"magic">>
                 /\ cells'[t[b] + 2] = <<"size", y[b]>>
                 /\ cells'[t[b] + 3] = <<"header", b>>
      <4>1. CASE b \in 1..stored
        <5>0. b \in Nat /\ b + 1 \in Nat /\ b <= stored + 1 /\ b + 1 <= stored + 1 /\ b <= stored
          BY <4>1, <1>2
        <5>1. t[b] = s[b] /\ t[b + 1] = s[b + 1] /\ y[b] = z[b]
          BY <5>0, <2>10, Zenon
        <5>2. b \in Nat /\ b + 1 \in Nat
          BY <1>2
        <5>3. s[b] \in Nat /\ s[b + 1] \in Nat /\ z[b] \in Nat
          BY <5>2, <2>9
        <5>4. s[b + 1] = s[b] + 2 + z[b] /\ s[b + 1] <= used /\ z[b] >= 1
          BY <3>1, <4>1, <5>3
        <5>5. \A u, v, x, w \in Nat : x = u + 2 + v /\ x <= w /\ v >= 1 =>
                 {u + 1, u + 2, u + 3} \subseteq 1..w
          OBVIOUS
        <5>6. {s[b] + 1, s[b] + 2, s[b] + 3} \subseteq 1..used
          BY <1>2, <5>3, <5>4, <5>5, Zenon
        <5>7. /\ cells'[s[b] + 1] = cells[s[b] + 1] /\ cells'[s[b] + 2] = cells[s[b] + 2]
              /\ cells'[s[b] + 3] = cells[s[b] + 3]
          BY <5>6, <2>7, Zenon
        <5>8. \A x, v, w \in Nat : x <= v => x <= v + w
          OBVIOUS
        <5>9. s[b + 1] <= used'
          BY <1>2, <2>1, <5>3, <5>4, <5>8, Zenon
        <5> QED BY <3>1, <4>1, <5>1, <5>7, <5>9, Zenon
      <4>2. CASE b = stored + 1
        <5>0. b \in Nat /\ b <= stored + 1 /\ b + 1 = stored + 2
          BY <4>2, <1>2
        <5>1. t[b] = used /\ y[b] = n
          BY <4>2, <5>0, <2>10, <2>c, <3>2
        <5>2. t[b + 1] = used + 2 + n /\ used + 2 + n = t[b] + 2 + y[b]
          BY <5>0, <5>1, <2>b
        <5>3. used + 2 + n <= used'
          BY <1>2, <2>1, <2>3, <2>4
        <5> QED BY <4>2, <5>1, <5>2, <5>3, <2>8, Zenon
      <4>3. b \in 1..stored \/ b = stored + 1
        BY <1>2
      <4> QED BY <4>1, <4>2, <4>3, Zenon
    <3>4. t[1] = 0 /\ t[stored' + 1] = used'
      <4>1. 1 \in Nat /\ 1 <= stored + 1 /\ stored' + 1 = stored + 2 /\ used' = used + 2 + n
        BY <1>2, <2>1, <2>3, <2>4
      <4> QED BY <4>1, <2>10, <2>b, <3>2
    <3>5. \A b \in 1..stored' :
             /\ y[b] \in 1..MaxPayload
             /\ t[b + 1] = t[b] + 2 + y[b] /\ t[b + 1] <= used'
             /\ cells'[t[b] + 1] = <<"magic">>
             /\ cells'[t[b] + 2] = <<"size", y[b]>>
             /\ cells'[t[b] + 3] = <<"header", b>>
      BY <3>3, <2>1
    <3> QED BY <3>4, <3>5 DEF Laid
  <2>12. Tracking(t, y)'
    <3>1. UNCHANGED <<spc, before, yielded, pos, size>> /\ before \in Nat /\ Len(yielded) \in Nat
      BY <1>1 DEF scan, ScanInv, ScanTypeInv
    <3>2. SUFFICES ASSUME spc # "idle" PROVE Tracking(t, y)'
      BY <3>1 DEF Tracking
    <3>3. /\ before <= stored
          /\ \A i \in 1..before : i <= Len(yielded) => yielded[i] = <<"header", i>>
          /\ spc = "prefix" /\ Len(yielded) <= before => pos = s[Len(yielded) + 1]
          /\ spc = "header" /\ Len(yielded) < before =>
                pos = s[Len(yielded) + 1] + 2 /\ size = z[Len(yielded) + 1]
          /\ spc = "done" => Len(yielded) >= before
      BY <2>9, <3>2 DEF Tracking
    <3>a. /\ Len(yielded) + 1 \in Nat
          /\ Len(yielded) <= before => Len(yielded) + 1 <= stored + 1
          /\ Len(yielded) < before => Len(yielded) + 1 <= stored /\ Len(yielded) <= before
      <4>1. \A k, m, u \in Nat : m <= u =>
               /\ k + 1 \in Nat
               /\ k <= m => k + 1 <= u + 1
               /\ k < m => k + 1 <= u /\ k <= m
        OBVIOUS
      <4>2. before <= stored
        BY <3>3
      <4> QED BY <1>2, <3>1, <4>1, <4>2, Zenon
    <3>4. Len(yielded) <= before =>
             t[Len(yielded) + 1] = s[Len(yielded) + 1]
      BY <2>10, <3>a, Zenon
    <3>5. Len(yielded) < before =>
             y[Len(yielded) + 1] = z[Len(yielded) + 1] /\ Len(yielded) <= before
      BY <2>10, <3>a, Zenon
    <3>6. before <= stored'
      BY <1>2, <2>1, <3>1, <3>3
    <3> QED BY <3>1, <3>3, <3>4, <3>5, <3>6 DEF Tracking
  <2>13. Writing'
    BY <1>2, <2>1, <2>5, <2>6 DEF Writing
  <2>14. ScanTypeInv'
    <3>1. stored' \in Nat /\ used' \in Nat /\ pending' \in Seq(Cell)
      BY <1>2, <2>1
    <3>2. {before, pos, size, length} \subseteq Nat /\ yielded \in Seq(Cell)
      BY <1>a DEF ScanTypeInv
    <3>3. UNCHANGED <<before, pos, size, length, yielded>>
      BY <1>1 DEF scan
    <3>4. {stored', used', before', pos', size', length'} \subseteq Nat /\ yielded' \in Seq(Cell)
      BY <3>1, <3>2, <3>3
    <3>5. sealed' \in BOOLEAN
      BY <1>s, <2>1
    <3> QED BY <2>5, <3>1, <3>4, <3>5 DEF ScanTypeInv
  <2>15. Undisturbed'
    BY <1>1 DEF Undisturbed
  <2> QED BY <2>11, <2>12, <2>13, <2>14, <2>15 DEF ScanInv
<1> QED BY <1>5, <1>6, <1>7, <1>8, <1>9 DEF Core

LEMMA AtEnd ==
    ASSUME ScanTypeInv, pos = Len(cells)
    PROVE  Ends
<1>1. cells \in Seq(Cell) /\ pos \in Nat
  BY DEF ScanTypeInv
<1>2. Prefix = <<>>
  BY <1>1, PrefixIs
<1> QED BY <1>2 DEF Ends

\* A step of the scan leaves the file alone.
LEMMA ScanMoves ==
    ASSUME NEW s \in [Nat -> Nat], NEW z \in [Nat -> Nat],
           ScanTypeInv, Writing, Laid(s, z), UNCHANGED core,
           {before', pos', size', length'} \subseteq Nat, yielded' \in Seq(Cell),
           Tracking(s, z)', Undisturbed'
    PROVE  ScanInv'
<1>1. Laid(s, z)'
  BY DEF Laid, core
<1>2. Writing'
  BY DEF Writing, core
<1>3. ScanTypeInv'
  <2>1. {stored, used} \subseteq Nat /\ cells \in Seq(Cell) /\ pending \in Seq(Cell)
    BY DEF ScanTypeInv
  <2>2. sealed \in BOOLEAN
    BY DEF ScanTypeInv
  <2>3. UNCHANGED <<stored, used, cells, pending, sealed>>
    BY DEF core
  <2>4. {stored', used', before', pos', size', length'} \subseteq Nat
    BY <2>1, <2>3
  <2> QED BY <2>1, <2>2, <2>3, <2>4 DEF ScanTypeInv
<1> QED BY <1>1, <1>2, <1>3 DEF ScanInv

LEMMA ScanScan == ScanInv /\ Scan => ScanInv'
<1> SUFFICES ASSUME ScanInv, Scan PROVE ScanInv'
  OBVIOUS
<1>1. UNCHANGED core
  BY DEF Scan
<1>2. PICK s, z \in [Nat -> Nat] : Laid(s, z) /\ Tracking(s, z)
  BY DEF ScanInv
<1>3. ScanTypeInv /\ Writing /\ Undisturbed
  BY DEF ScanInv
<1> DEFINE k == Len(yielded)
<1>4. /\ stored \in Nat /\ used \in Nat /\ before \in Nat /\ pos \in Nat /\ size \in Nat
      /\ length \in Nat
  BY <1>3 DEF ScanTypeInv
<1>5. cells \in Seq(Cell) /\ yielded \in Seq(Cell)
  BY <1>3 DEF ScanTypeInv
<1>6. k \in Nat /\ Len(cells) \in Nat
  <2>1. \A q \in Seq(Cell) : Len(q) \in Nat
    OBVIOUS
  <2> QED BY <2>1, <1>5, Zenon
<1>8. /\ s[1] = 0 /\ s[stored + 1] = used
      /\ \A b \in 1..stored :
            /\ z[b] \in 1..MaxPayload
            /\ s[b + 1] = s[b] + 2 + z[b] /\ s[b + 1] <= used
            /\ cells[s[b] + 3] = <<"header", b>>
  BY <1>2 DEF Laid
<1>9. used <= Len(cells) /\ (sealed => Len(cells) = used)
  BY <1>3 DEF Writing
<1>10. spc # "idle" =>
         /\ before <= stored
         /\ \A i \in 1..before : i <= k => yielded[i] = <<"header", i>>
         /\ spc = "prefix" /\ k <= before => pos = s[k + 1]
         /\ spc = "header" /\ k < before => pos = s[k + 1] + 2 /\ size = z[k + 1]
         /\ spc = "done" => k >= before
  BY <1>2 DEF Tracking
<1>11. sealed /\ quiet /\ spc # "idle" =>
         /\ before = stored /\ length = used /\ k <= stored
         /\ spc # "error" /\ (spc = "header" => k < stored)
  BY <1>3 DEF Undisturbed
<1> HIDE DEF k
<1>7. k + 1 \in Nat /\ k + 2 \in Nat /\ k + 1 + 1 = k + 2 /\ 1 \in Nat
  BY <1>6
\* The record that comes next.
<1>12. ASSUME spc = "prefix", k < before
       PROVE  ~Ends /\ k + 1 \in 1..stored /\ z[k + 1] \in 1..MaxPayload
              /\ \A n : Claims(n) <=> n = z[k + 1]
  <2>1. k + 1 \in 1..stored /\ pos = s[k + 1]
    BY <1>12, <1>4, <1>6, <1>10
  <2> QED BY <2>1, <1>2, <1>3, AtRecord
\* Behind the last record of a completed file.
<1>13. ASSUME spc = "prefix", sealed, quiet, ~Ends PROVE k < before
  <2>1. k <= before /\ before = stored
    BY <1>13, <1>11
  <2>2. k # before
    <3> SUFFICES ASSUME k = before PROVE FALSE
      OBVIOUS
    <3>1. pos = s[stored + 1]
      BY <2>1, <1>10, <1>13, <1>4
    <3>2. pos = Len(cells)
      BY <3>1, <1>8, <1>9, <1>13
    <3> QED BY <3>2, <1>3, <1>13, AtEnd
  <2> QED BY <2>1, <2>2, <1>4, <1>6
<1>14. ASSUME spc = "header", k < before
       PROVE  /\ k + 1 \in 1..stored
              /\ pos = s[k + 1] + 2 /\ size = z[k + 1] /\ size \in 1..MaxPayload
              /\ pos + size = s[k + 2] /\ pos + size <= used
              /\ cells[pos + 1] = <<"header", k + 1>>
  <2>1. k + 1 \in 1..stored /\ pos = s[k + 1] + 2 /\ size = z[k + 1]
    BY <1>14, <1>4, <1>6, <1>10
  <2>2. /\ z[k + 1] \in 1..MaxPayload
        /\ s[k + 2] = s[k + 1] + 2 + z[k + 1] /\ s[k + 2] <= used
        /\ cells[s[k + 1] + 3] = <<"header", k + 1>>
    BY <2>1, <1>7, <1>8
  <2>3. s[k + 1] \in Nat
    BY <1>2, <1>7
  <2>4. s[k + 1] + 2 + 1 = s[k + 1] + 3
    BY <2>3
  <2> QED BY <2>1, <2>2, <2>4
<1>15. CASE Open
  <2>1. /\ spc' = "prefix" /\ length' = Len(cells) /\ pos' = 0 /\ yielded' = <<>>
        /\ before' = stored /\ size' = size
    BY <1>15 DEF Open, ScanGoes
  <2>2. yielded' \in Seq(Cell) /\ Len(yielded') = 0
    BY <2>1
  <2>3. stored' = stored /\ used' = used /\ (sealed' <=> sealed)
    BY <1>1 DEF core
  <2>4. Tracking(s, z)'
    <3>1. /\ before' <= stored'
          /\ \A i \in 1..before' : ~(i <= Len(yielded'))
          /\ pos' = s[Len(yielded') + 1]
      BY <2>1, <2>2, <2>3, <1>4, <1>8
    <3> QED BY <2>1, <3>1 DEF Tracking
  <2>5. Undisturbed'
    BY <2>1, <2>2, <2>3, <1>4, <1>9 DEF Undisturbed
  <2>6. {before', pos', size', length'} \subseteq Nat
    BY <2>1, <1>4, <1>6
  <2> QED BY <1>1, <1>2, <1>3, <2>2, <2>4, <2>5, <2>6, ScanMoves
<1>16. CASE ReadPrefix
  <2>1. PICK n \in 1..MaxPayload : ~Ends /\ Claims(n) /\ size' = n
    BY <1>16 DEF ReadPrefix
  <2>2. /\ ~Ends /\ spc = "prefix" /\ spc' = "header" /\ pos' = pos + 2
        /\ UNCHANGED <<length, yielded, before, quiet>>
    BY <1>16 DEF ReadPrefix, ScanGoes
  <2>3. UNCHANGED <<stored, used, sealed>>
    BY <1>1 DEF core
  <2>4. k < before => pos' = s[k + 1] + 2 /\ size' = z[k + 1]
    <3> SUFFICES ASSUME k < before PROVE pos' = s[k + 1] + 2 /\ size' = z[k + 1]
      OBVIOUS
    <3>1. n = z[k + 1]
      BY <1>12, <2>1, <2>2
    <3>2. pos = s[k + 1]
      BY <1>4, <1>6, <1>10, <2>2
    <3> QED BY <3>1, <3>2, <2>1, <2>2
  <2>5. Tracking(s, z)'
    BY <2>2, <2>3, <2>4, <1>10 DEF Tracking, k
  <2>6. Undisturbed'
    BY <2>2, <2>3, <1>11, <1>13 DEF Undisturbed, k
  <2>7. {before', pos', size', length'} \subseteq Nat /\ yielded' \in Seq(Cell)
    BY <2>1, <2>2, <1>4, <1>5, BlockScanAssumption
  <2> QED BY <1>1, <1>2, <1>3, <2>5, <2>6, <2>7, ScanMoves
<1>17. CASE ScanEnds
  <2>1. /\ Ends /\ spc = "prefix" /\ spc' = "done"
        /\ UNCHANGED <<length, pos, size, yielded, before, quiet>>
    BY <1>17 DEF ScanEnds, ScanGoes
  <2>2. UNCHANGED <<stored, used, sealed>>
    BY <1>1 DEF core
  <2>3. k >= before
    BY <1>4, <1>6, <1>12, <2>1
  <2>4. Tracking(s, z)'
    BY <2>1, <2>2, <2>3, <1>10 DEF Tracking, k
  <2>5. Undisturbed'
    BY <2>1, <2>2, <1>11 DEF Undisturbed, k
  <2>6. {before', pos', size', length'} \subseteq Nat /\ yielded' \in Seq(Cell)
    BY <2>1, <1>4, <1>5
  <2> QED BY <1>1, <1>2, <1>3, <2>4, <2>5, <2>6, ScanMoves
<1>18. CASE ReadHeader
  <2>1. /\ pos < Len(cells) /\ spc = "header" /\ spc' = "prefix"
        /\ yielded' = Append(yielded, cells[pos + 1]) /\ pos' = pos + size
        /\ UNCHANGED <<length, size, before, quiet>>
    BY <1>18 DEF ReadHeader, ScanGoes, Behind
  <2>2. UNCHANGED <<stored, used, sealed>>
    BY <1>1 DEF core
  <2>3. cells[pos + 1] \in Cell
    <3>1. pos + 1 \in 1..Len(cells)
      BY <2>1, <1>4, <1>6
    <3>2. \A q \in Seq(Cell) : \A i \in 1..Len(q) : q[i] \in Cell
      OBVIOUS
    <3> QED BY <3>1, <3>2, <1>5
  <2>4. /\ yielded' \in Seq(Cell) /\ Len(yielded') = k + 1
        /\ \A i \in 1..k : yielded'[i] = yielded[i]
        /\ yielded'[k + 1] = cells[pos + 1]
    <3>1. \A q \in Seq(Cell) : \A e \in Cell :
             /\ Append(q, e) \in Seq(Cell) /\ Len(Append(q, e)) = Len(q) + 1
             /\ \A i \in 1..Len(q) : Append(q, e)[i] = q[i]
             /\ Append(q, e)[Len(q) + 1] = e
      OBVIOUS
    <3> QED BY <3>1, <2>1, <2>3, <1>5, Zenon DEF k
  <2>5. ASSUME k < before
        PROVE  pos' = s[k + 1 + 1] /\ yielded'[k + 1] = <<"header", k + 1>>
    BY <2>5, <1>7, <1>14, <2>1, <2>4
  <2>6. Tracking(s, z)'
    <3>1. before <= stored /\ \A i \in 1..before : i <= k => yielded[i] = <<"header", i>>
      BY <1>10, <2>1
    <3>2. ASSUME NEW i \in 1..before, i <= k + 1 PROVE yielded'[i] = <<"header", i>>
      <4>1. CASE i <= k
        <5>1. i \in 1..k
          BY <4>1, <1>4, <1>6
        <5> QED BY <5>1, <4>1, <3>1, <2>4
      <4>2. CASE i = k + 1
        <5>1. k < before
          BY <4>2, <1>4, <1>6
        <5> QED BY <5>1, <4>2, <2>5
      <4>3. i <= k \/ i = k + 1
        BY <3>2, <1>4, <1>6
      <4> QED BY <4>1, <4>2, <4>3
    <3>3. k + 1 <= before => k < before
      BY <1>4, <1>6
    <3>4. k + 1 <= before => pos' = s[k + 1 + 1]
      BY <3>3, <2>5
    <3> QED BY <2>1, <2>2, <2>4, <3>1, <3>2, <3>4 DEF Tracking
  <2>7. Undisturbed'
    <3>1. k < stored => k + 1 <= stored
      BY <1>4, <1>6
    <3> QED BY <2>1, <2>2, <2>4, <3>1, <1>11 DEF Undisturbed
  <2>8. {before', pos', size', length'} \subseteq Nat
    BY <2>1, <1>4
  <2> QED BY <1>1, <1>2, <1>3, <2>4, <2>6, <2>7, <2>8, ScanMoves
<1>19. CASE ScanFails
  <2>1. spc' = "error" /\ UNCHANGED <<length, pos, size, yielded, before, quiet>>
    BY <1>19 DEF ScanFails
  <2>2. UNCHANGED <<stored, used, sealed>>
    BY <1>1 DEF core
  <2>3. \/ spc = "prefix" /\ ~Ends /\ ~\E n \in 1..MaxPayload : Claims(n)
        \/ spc = "header" /\ (pos >= Len(cells) \/ ~Fits)
    BY <1>19 DEF ScanFails
  <2>4. Tracking(s, z)'
    BY <2>1, <2>2, <2>3, <1>10 DEF Tracking, k
  <2>5. ~(sealed /\ quiet)
    <3> SUFFICES ASSUME sealed, quiet PROVE FALSE
      OBVIOUS
    <3>1. CASE spc = "prefix" /\ ~Ends /\ ~\E n \in 1..MaxPayload : Claims(n)
      <4>1. k < before
        BY <3>1, <1>13
      <4> QED BY <4>1, <3>1, <1>12
    <3>2. CASE spc = "header" /\ (pos >= Len(cells) \/ ~Fits)
      <4>1. k < before /\ length = used /\ Len(cells) = used
        BY <3>2, <1>9, <1>11
      <4>2. pos + size <= used /\ size \in 1..MaxPayload
        BY <4>1, <3>2, <1>14
      <4>3. pos < Len(cells)
        BY <4>1, <4>2, <1>4
      <4>4. Fits
        BY <4>1, <4>2 DEF Fits
      <4> QED BY <4>3, <4>4, <3>2, <1>4, <1>6
    <3> QED BY <3>1, <3>2, <2>3
  <2>6. Undisturbed'
    BY <2>1, <2>2, <2>5 DEF Undisturbed
  <2>7. {before', pos', size', length'} \subseteq Nat /\ yielded' \in Seq(Cell)
    BY <2>1, <1>4, <1>5
  <2> QED BY <1>1, <1>2, <1>3, <2>4, <2>6, <2>7, ScanMoves
<1>20. CASE ScanAgain
  <2>1. spc' = "idle" /\ UNCHANGED <<length, pos, size, yielded, before, quiet>>
    BY <1>20 DEF ScanAgain
  <2>2. Tracking(s, z)' /\ Undisturbed'
    BY <2>1 DEF Tracking, Undisturbed
  <2>3. {before', pos', size', length'} \subseteq Nat /\ yielded' \in Seq(Cell)
    BY <2>1, <1>4, <1>5
  <2> QED BY <1>1, <1>2, <1>3, <2>2, <2>3, ScanMoves
<1> QED BY <1>15, <1>16, <1>17, <1>18, <1>19, <1>20 DEF Scan

LEMMA NextScan == ScanInv /\ [ScanNext]_scanVars => ScanInv'
<1>1. ASSUME ScanInv, UNCHANGED scanVars PROVE ScanInv'
  <2>1. PICK s, z \in [Nat -> Nat] : Laid(s, z) /\ Tracking(s, z)
    BY <1>1 DEF ScanInv
  <2>2. UNCHANGED <<core, scan, before, quiet>>
    BY <1>1 DEF scanVars
  <2>3. UNCHANGED <<spc, length, pos, size, yielded, before, quiet, stored, used, sealed>>
    BY <2>2 DEF scan, core
  <2>a. Tracking(s, z)'
    BY <2>1, <2>3 DEF Tracking
  <2>4. Undisturbed'
    BY <1>1, <2>3 DEF ScanInv, Undisturbed
  <2>5. {before, pos, size, length} \subseteq Nat /\ yielded \in Seq(Cell)
    BY <1>1 DEF ScanInv, ScanTypeInv
  <2>6. {before', pos', size', length'} \subseteq Nat /\ yielded' \in Seq(Cell)
    BY <2>3, <2>5
  <2> QED BY <1>1, <2>1, <2>2, <2>a, <2>4, <2>6, ScanMoves DEF ScanInv
<1> QED BY <1>1, CoreScan, ScanScan DEF ScanNext

LEMMA BlocksAre ==
    ASSUME NEW n \in Nat
    PROVE  /\ Blocks(n) \in Seq(Cell) /\ Len(Blocks(n)) = n
           /\ \A i \in 1..n : Blocks(n)[i] = <<"header", i>>
<1>1. \A i \in 1..n : <<"header", i>> \in Cell
  <2>1. \A i \in 1..n : i \in Int
    OBVIOUS
  <2> QED BY <2>1, CellKinds, Zenon
<1>2. Blocks(n) \in [1..n -> Cell]
  BY <1>1 DEF Blocks
<1> QED BY <1>2, AsSeq DEF Blocks

\* Sequences that agree as far as the first one goes.
LEMMA PrefixOf ==
    ASSUME NEW s \in Seq(Cell), NEW t \in Seq(Cell), Len(s) <= Len(t),
           \A i \in 1..Len(s) : s[i] = t[i]
    PROVE  IsPrefix(s, t)
<1>1. Len(s) \in Nat /\ Len(t) \in Nat
  OBVIOUS
<1>2. \A i \in 1..Len(s) : s[i] \in Cell /\ t[i] \in Cell
  BY <1>1
<1>3. /\ SubSeq(s, 1, Len(s)) \in Seq(Cell)
      /\ Len(SubSeq(s, 1, Len(s))) = IF 1 <= Len(s) THEN Len(s) - 1 + 1 ELSE 0
      /\ \A i \in 1..(Len(s) - 1 + 1) : SubSeq(s, 1, Len(s))[i] = s[1 + i - 1]
  BY <1>1, <1>2, SubSeqProperties
<1>4. /\ SubSeq(t, 1, Len(s)) \in Seq(Cell)
      /\ Len(SubSeq(t, 1, Len(s))) = IF 1 <= Len(s) THEN Len(s) - 1 + 1 ELSE 0
      /\ \A i \in 1..(Len(s) - 1 + 1) : SubSeq(t, 1, Len(s))[i] = t[1 + i - 1]
  BY <1>1, <1>2, SubSeqProperties
<1> DEFINE a == SubSeq(s, 1, Len(s))
           b == SubSeq(t, 1, Len(s))
<1> HIDE DEF a, b
<1>5. (IF 1 <= Len(s) THEN Len(s) - 1 + 1 ELSE 0) = Len(s) /\ Len(s) - 1 + 1 = Len(s)
  BY <1>1
<1>6. \A i \in 1..Len(s) : 1 + i - 1 = i
  BY <1>1
<1>7. a \in Seq(Cell) /\ b \in Seq(Cell) /\ Len(a) = Len(s) /\ Len(b) = Len(s)
  BY <1>3, <1>4, <1>5 DEF a, b
<1>8. \A i \in 1..Len(s) : a[i] = s[i] /\ b[i] = t[i]
  BY <1>3, <1>4, <1>5, <1>6 DEF a, b
<1>9. a = b
  BY <1>7, <1>8, SeqEqual
<1> QED BY <1>9 DEF IsPrefix, a, b

\* However Core writes and crashes meanwhile, a scan that ends without an error
\* has yielded every block that was stored when it opened the file.
THEOREM StoredBlocksAreRead == ScanSpec => []NothingStoredIsMissed
<1>1. ScanInv => NothingStoredIsMissed
  <2> SUFFICES ASSUME ScanInv, spc = "done" PROVE IsPrefix(Blocks(before), yielded)
    BY DEF NothingStoredIsMissed
  <2>1. /\ Len(yielded) >= before
        /\ \A i \in 1..before : i <= Len(yielded) => yielded[i] = <<"header", i>>
    BY DEF ScanInv, Tracking
  <2>2. before \in Nat
    BY DEF ScanInv, ScanTypeInv
  <2>3. yielded \in Seq(Cell)
    BY DEF ScanInv, ScanTypeInv
  <2>4. /\ Blocks(before) \in Seq(Cell) /\ Len(Blocks(before)) = before
        /\ \A i \in 1..before : Blocks(before)[i] = <<"header", i>>
    BY <2>2, BlocksAre
  <2>5. Len(yielded) \in Nat
    BY <2>3
  <2>6. \A i \in 1..before : i <= Len(yielded)
    BY <2>1, <2>2, <2>5
  <2>7. \A i \in 1..Len(Blocks(before)) : Blocks(before)[i] = yielded[i]
    BY <2>1, <2>4, <2>6
  <2> QED BY <2>1, <2>3, <2>4, <2>7, PrefixOf
<1> QED BY InitScan, NextScan, <1>1, PTL DEF ScanSpec

\* A completed file that nothing disturbs reads in full and without an error,
\* whatever the crashes of Core had left in it.
THEOREM CompletedFilesReadInFull == ScanSpec => []CompletedFileReadsInFull
<1>1. ScanInv => CompletedFileReadsInFull
  <2> SUFFICES ASSUME ScanInv, sealed, quiet, spc # "idle"
               PROVE  /\ spc # "error"
                      /\ IsPrefix(yielded, Blocks(stored))
                      /\ spc = "done" => yielded = Blocks(stored)
    BY DEF CompletedFileReadsInFull
  <2>1. /\ before = stored /\ Len(yielded) <= stored /\ spc # "error"
    BY DEF ScanInv, Undisturbed
  <2>2. /\ \A i \in 1..before : i <= Len(yielded) => yielded[i] = <<"header", i>>
        /\ spc = "done" => Len(yielded) >= before
    BY DEF ScanInv, Tracking
  <2>3. stored \in Nat
    BY DEF ScanInv, ScanTypeInv
  <2>4. yielded \in Seq(Cell)
    BY DEF ScanInv, ScanTypeInv
  <2>5. /\ Blocks(stored) \in Seq(Cell) /\ Len(Blocks(stored)) = stored
        /\ \A i \in 1..stored : Blocks(stored)[i] = <<"header", i>>
    BY <2>3, BlocksAre
  <2>6. Len(yielded) \in Nat
    BY <2>4
  <2>7. \A i \in 1..Len(yielded) : i \in 1..stored /\ i <= Len(yielded)
    BY <2>1, <2>3, <2>6
  <2>8. \A i \in 1..Len(yielded) : yielded[i] = Blocks(stored)[i]
    BY <2>1, <2>2, <2>5, <2>7
  <2>9. IsPrefix(yielded, Blocks(stored))
    BY <2>1, <2>4, <2>5, <2>8, PrefixOf
  <2>10. ASSUME spc = "done" PROVE yielded = Blocks(stored)
    <3>1. Len(yielded) = Len(Blocks(stored))
      BY <2>10, <2>1, <2>2, <2>3, <2>5, <2>6
    <3> QED BY <3>1, <2>4, <2>5, <2>8, SeqEqual
  <2> QED BY <2>1, <2>9, <2>10
<1> QED BY InitScan, NextScan, <1>1, PTL DEF ScanSpec
=============================================================================
