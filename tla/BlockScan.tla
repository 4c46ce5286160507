------------------------------ MODULE BlockScan -----------------------------
(***************************************************************************)
(* A scan of one block file (blockfile.py: block_headers) while Core       *)
(* writes to it.  A file is a sequence of cells: a record has two cells of *)
(* prefix (magic and size), one of header, the rest of body; the blocks of *)
(* a file are numbered in its order.                                       *)
(*                                                                         *)
(* Core is modelled from how the reader takes its files: it preallocates   *)
(* zeros, writes a record in pieces from its start on, writes over what a  *)
(* crash has left, and cuts a completed file to what it used.              *)
(***************************************************************************)
EXTENDS Integers, SequencesExt

CONSTANTS
    Chunk,        \* cells that Core preallocates at once
    MaxCells,     \* bound: cells of the file
    MaxPayload,   \* bound: cells of header and body of a record
    MaxCrashes    \* bound: ends of Core within a record

ASSUME BlockScanAssumption == {Chunk, MaxCells, MaxPayload, MaxCrashes} \subseteq Nat \ {0}

VARIABLES
    cells,      \* the file
    stored,     \* the number of blocks that Core has stored
    used,       \* the cells that they take
    pending,    \* the record it is writing
    sealed,     \* the file is complete
    crashes,
    spc,        \* next step of the scan, or how it ended
    length,     \* file_size
    pos,        \* cells read or skipped
    size,       \* payload of the record being read
    yielded,    \* headers so far
    before,     \* ghost: the blocks stored when the file was opened
    quiet       \* ghost: nothing was written since

core == <<cells, stored, used, pending, sealed, crashes>>
scan == <<spc, length, pos, size, yielded>>
scanVars == <<core, scan, before, quiet>>

Zero == <<"zero">>
Zeros(n) == [i \in 1..n |-> Zero]
Record(b, n) ==
    << <<"magic">>, <<"size", n>>, <<"header", b>> >> \o [i \in 1..n-1 |-> <<"body">>]

ScanInit ==
    /\ cells = <<>> /\ stored = 0 /\ used = 0 /\ pending = <<>>
    /\ sealed = FALSE /\ crashes = 0
    /\ spc = "idle" /\ length = 0 /\ pos = 0 /\ size = 0 /\ yielded = <<>>
    /\ before = 0 /\ quiet = TRUE

-----------------------------------------------------------------------------
(* Core.                                                                   *)

\* Whole chunks of zeros, if cells are needed beyond the end.
Preallocation(need) ==
    IF need <= 0 THEN <<>> ELSE Zeros(((need + Chunk - 1) \div Chunk) * Chunk)

StartRecord(n) ==
    /\ ~sealed /\ pending = <<>> /\ used + 2 + n <= MaxCells
    /\ pending' = Record(stored + 1, n)
    /\ cells' = cells \o Preallocation(used + 2 + n - Len(cells))
    /\ UNCHANGED <<stored, used, sealed, crashes>>

Written(s, k) == [i \in DOMAIN s |-> IF i - used \in 1..k THEN pending[i - used] ELSE s[i]]

\* The start of the record is in the file.
WritePart(k) ==
    /\ k < Len(pending)
    /\ cells' = Written(cells, k)
    /\ UNCHANGED <<stored, used, pending, sealed, crashes>>

WriteAll ==
    /\ pending # <<>> /\ pending' = <<>>
    /\ cells' = Written(cells, Len(pending))
    /\ stored' = stored + 1 /\ used' = used + Len(pending)
    /\ UNCHANGED <<sealed, crashes>>

Complete ==
    /\ ~sealed /\ pending = <<>> /\ stored > 0
    /\ cells' = SubSeq(cells, 1, used) /\ sealed' = TRUE
    /\ UNCHANGED <<stored, used, pending, crashes>>

\* Core ends and starts again with what it had stored.
Crash ==
    /\ pending # <<>> /\ crashes < MaxCrashes
    /\ crashes' = crashes + 1 /\ pending' = <<>>
    /\ UNCHANGED <<cells, stored, used, sealed>>

Core ==
    /\ \/ \E n \in 1..MaxPayload : StartRecord(n)
       \/ \E k \in 1..MaxPayload+1 : WritePart(k)
       \/ WriteAll \/ Complete \/ Crash
    /\ quiet' = FALSE
    /\ UNCHANGED <<scan, before>>

-----------------------------------------------------------------------------
(* The scan.                                                               *)

ScanGoes(from, to) == spc = from /\ spc' = to

Open ==
    /\ ScanGoes("idle", "prefix")
    /\ length' = Len(cells) /\ pos' = 0 /\ yielded' = <<>>
    /\ before' = stored /\ quiet' = TRUE
    /\ UNCHANGED size

\* What a read of a prefix returns: less than two cells at the end.
Prefix ==
    SubSeq(cells, pos + 1, IF pos + 2 <= Len(cells) THEN pos + 2 ELSE Len(cells))

Claims(n) == Len(Prefix) = 2 /\ Prefix[2] = <<"size", n>>

\* Mutant of Ends: what is no more than a header is taken for padding.
EndsAtSmall == Prefix \in {<<>>, <<Zero, Zero>>} \/ Claims(1)

Ends == Prefix \in {<<>>, <<Zero, Zero>>}

ReadPrefix ==
    \E n \in 1..MaxPayload :
        /\ ~Ends /\ Claims(n)
        /\ ScanGoes("prefix", "header")
        /\ size' = n /\ pos' = pos + 2
        /\ UNCHANGED <<length, yielded, before, quiet>>

ScanEnds ==
    /\ Ends
    /\ ScanGoes("prefix", "done")
    /\ UNCHANGED <<length, pos, size, yielded, before, quiet>>

\* Mutant of Fits: a record may not end where the file ends.
FitsBelow == pos + size < length

\* The record is in the file as it was opened.
Fits == pos + size <= length

\* Behind the record.
Behind == pos + size

ReadHeader ==
    /\ pos < Len(cells) /\ Fits
    /\ ScanGoes("header", "prefix")
    /\ yielded' = Append(yielded, cells[pos + 1]) /\ pos' = Behind
    /\ UNCHANGED <<length, size, before, quiet>>

\* A cut prefix, an absurd size, a cut record.
ScanFails ==
    /\ \/ spc = "prefix" /\ ~Ends /\ ~\E n \in 1..MaxPayload : Claims(n)
       \/ spc = "header" /\ (pos >= Len(cells) \/ ~Fits)
    /\ spc' = "error"
    /\ UNCHANGED <<length, pos, size, yielded, before, quiet>>

ScanAgain ==
    /\ spc \in {"done", "error"} /\ spc' = "idle"
    /\ UNCHANGED <<length, pos, size, yielded, before, quiet>>

Scan ==
    /\ Open \/ ReadPrefix \/ ScanEnds \/ ReadHeader \/ ScanFails \/ ScanAgain
    /\ UNCHANGED core

ScanNext == Core \/ Scan

ScanSpec == ScanInit /\ [][ScanNext]_scanVars

-----------------------------------------------------------------------------
(* Properties.                                                             *)

Blocks(n) == [b \in 1..n |-> <<"header", b>>]

\* A completed file that stays as it is reads in full, without an error, from
\* the first record to the last one at its very end, whatever crashes left in
\* it before it was completed: the ranges of its marker are all its blocks.
CompletedFileReadsInFull ==
    sealed /\ quiet /\ spc # "idle" =>
        /\ spc # "error"
        /\ IsPrefix(yielded, Blocks(stored))
        /\ spc = "done" => yielded = Blocks(stored)

\* While Core appends and crashes, a scan of the file it writes to may fail or
\* yield what it has just begun to write, but never misses a block that was
\* stored when the file was opened: "no block" means that there was none, which
\* is why a file without a first block bounds no prune.
NothingStoredIsMissed ==
    spc = "done" => IsPrefix(Blocks(before), yielded)
=============================================================================
