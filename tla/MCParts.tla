------------------------------- MODULE MCParts -------------------------------
(***************************************************************************)
(* Bounded instances, for TLC, of the parts that share no state with any   *)
(* other.  One of them runs; the others stay in an initial state.          *)
(***************************************************************************)
EXTENDS BlockHeights, BlockScan, MarkerFile, CommandLine, TLC

VARIABLE part   \* the one that runs; constant

partsVars == <<vars, scanVars, markerVars, commandVars, part>>

SomeTree ==
    CHOOSE t \in [up: [Hashes -> Hashes \union {None}], h: [Hashes -> 0..MaxDepth]] :
        IsChain(t.up, t.h)

HeightsIdle ==
    /\ parent = SomeTree.up /\ chain = SomeTree.h /\ inFile = Hashes
    /\ Init

MarkerIdle ==
    \E n \in Names :
        LET spelled == [name |-> n, slash |-> FALSE]
            plain == [endpoint |-> spelled, destination |-> spelled]
        IN  config = plain /\ rconfig = plain /\ MarkerInit

CommandIdle ==
    /\ settings = [flags |-> NoFlags, env |-> [o \in FromEnvironment |-> "none"],
                   limit |-> "positive", manual |-> TRUE]
    /\ CommandInit

\* No definition tells one endpoint or destination from another.
Symmetric == Permutations(Names)

PartsInit ==
    \/ part = "heights" /\ Init /\ ScanInit /\ MarkerIdle /\ CommandIdle
    \/ part = "scan" /\ HeightsIdle /\ ScanInit /\ MarkerIdle /\ CommandIdle
    \/ part = "marker" /\ HeightsIdle /\ ScanInit /\ MarkerInit /\ CommandIdle
    \/ part = "command" /\ HeightsIdle /\ ScanInit /\ MarkerIdle /\ CommandInit

HeightsStep ==
    /\ part = "heights" /\ Next
    /\ UNCHANGED <<scanVars, markerVars, commandVars, part>>

\* block_height_ranges returns: the only part that ends.
HeightsEnd == part = "heights" /\ phase = "done" /\ UNCHANGED partsVars

ScanStep ==
    /\ part = "scan" /\ ScanNext
    /\ UNCHANGED <<vars, markerVars, commandVars, part>>

MarkerStep ==
    /\ part = "marker" /\ MarkerNext
    /\ UNCHANGED <<vars, scanVars, commandVars, part>>

CommandStep ==
    /\ part = "command" /\ CommandNext
    /\ UNCHANGED <<vars, scanVars, markerVars, part>>

PartsNext == HeightsStep \/ HeightsEnd \/ ScanStep \/ MarkerStep \/ CommandStep

PartsSpec == PartsInit /\ [][PartsNext]_partsVars
=============================================================================
