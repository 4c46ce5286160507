------------------------------ MODULE CoreNode ------------------------------
(***************************************************************************)
(* Bitcoin Core, as far as the archiver can observe and drive it: the      *)
(* blk*.dat files it appends to, the active chain's tip, and the manual    *)
(* pruning that `pruneblockchain` performs.  Core is not part of the       *)
(* repository; it is modelled from how prune.py, bitcoin.py, blockfile.py  *)
(* and state.py use it.                                                    *)
(*                                                                         *)
(* Simplifications.                                                        *)
(*  - A block is its height: forks and reorganizations are left out.       *)
(*  - A file's bytes are the set of blocks in it and whether Core has      *)
(*    truncated it.  Blocks are only appended, in arrival order, so of     *)
(*    that order just the first block matters (prune.py reads it alone).   *)
(*  - A preallocated file keeps its size while blocks are appended to it,  *)
(*    so the size changes only when Core truncates the file.               *)
(*  - `writes` counts a file's modifications; it stands for st_mtime_ns    *)
(*    and assumes that two modifications never share a timestamp.          *)
(***************************************************************************)
EXTENDS Integers

CONSTANTS
    MaxHeight,  \* bound: the highest block that exists
    MaxFile,    \* bound: the highest block file number
    Keep,       \* blocks below the tip that Core never prunes (288)
    Window,     \* how far ahead of the tip blocks are downloaded (1024)
    None        \* no value

ASSUME CoreAssumption ==
    /\ MaxHeight \in Nat
    /\ MaxFile \in Nat
    /\ Keep \in Nat
    /\ Window \in Nat

Heights == 0..MaxHeight
Files == 0..MaxFile

VARIABLES
    blocks,   \* the blocks written to each file; kept after its deletion
    first,    \* the first block of each file, None while it holds no block
    writes,   \* how often each file was modified: its st_mtime_ns
    onDisk,   \* the files that exist in the block directory
    newest,   \* the file Core appends to
    tip       \* height of the active chain

coreVars == <<blocks, first, writes, onDisk, newest, tip>>

CoreTypeOK ==
    /\ blocks \in [Files -> SUBSET Heights]
    /\ first \in [Files -> Heights \union {None}]
    /\ writes \in [Files -> Nat]
    /\ onDisk \in SUBSET Files
    /\ newest \in Files
    /\ tip \in Heights

\* A data directory that holds the genesis block.
CoreInit ==
    /\ blocks = [f \in Files |-> IF f = 0 THEN {0} ELSE {}]
    /\ first = [f \in Files |-> IF f = 0 THEN 0 ELSE None]
    /\ writes = [f \in Files |-> IF f = 0 THEN 1 ELSE 0]
    /\ onDisk = {0}
    /\ newest = 0
    /\ tip = 0

Stored == UNION {blocks[f] : f \in Files}

Bytes(f) == [blocks |-> blocks[f], sealed |-> f < newest]
AllBytes == [blocks: SUBSET Heights, sealed: BOOLEAN]

\* What stat() reports: the size, which truncation changes, and the mtime.
Signature(f) == [sealed |-> f < newest, mtime |-> writes[f]]
Signatures == [sealed: BOOLEAN, mtime: Nat]

-----------------------------------------------------------------------------

\* A block arrives from a peer, possibly ahead of blocks still missing.
Arrive(h) ==
    /\ h \notin Stored
    /\ h <= tip + Window
    /\ blocks' = [blocks EXCEPT ![newest] = @ \union {h}]
    /\ first' = [first EXCEPT ![newest] = IF blocks[newest] = {} THEN h ELSE @]
    /\ writes' = [writes EXCEPT ![newest] = @ + 1]
    /\ UNCHANGED <<onDisk, newest, tip>>

\* The chain grows by a block that is already stored.
Connect ==
    /\ tip + 1 \in Stored
    /\ tip' = tip + 1
    /\ UNCHANGED <<blocks, first, writes, onDisk, newest>>

\* The current file is full: Core truncates it and preallocates the next.
Roll ==
    /\ newest < MaxFile
    /\ blocks[newest] # {}
    /\ writes' = [writes EXCEPT ![newest] = @ + 1]
    /\ newest' = newest + 1
    /\ onDisk' = onDisk \union {newest + 1}
    /\ UNCHANGED <<blocks, first, tip>>

\* Core deletes a file once its highest block is at or below the requested
\* height and below the blocks it keeps around the tip (prune.py:37-38).
Prunable(h) ==
    {f \in onDisk : /\ f < newest
                    /\ blocks[f] # {}
                    /\ \A b \in blocks[f] : b <= h /\ b <= tip - Keep}

PruneTo(h) ==
    /\ onDisk' = onDisk \ Prunable(h)
    /\ UNCHANGED <<blocks, first, writes, newest, tip>>

Deleted == {f \in Files : f <= newest} \ onDisk
=============================================================================
