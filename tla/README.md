# A verification of bitcoin-block-archive

`bitcoin-block-archive` uploads the completed `blk*.dat` files of a Bitcoin Core
node to an S3-compatible store, records each upload in a marker, and drives
Core's manual pruning so that disk space is reclaimed without losing a block.
This directory holds TLA+ models of it, the TLC configurations that check them
and TLAPS proofs about them. Paths are relative to the repository; Python
modules are those of `src/bitcoin_block_archive/`.

## 1. Inventory

| Part | State | Operations | Hard behaviour |
|---|---|---|---|
| Pass (`archive.py: archive`) | position in the list, batch | list, archive, prune per batch | failure at any step, retry by the schedule |
| Block archiving (`archive.py: archive_block`) | signature, checksum, ranges | hash, read heights, upload, sidecar, verify, mark | Core changes the file between any two steps |
| Markers (`state.py`, `models.py`) | one marker per file | read, compare, replace atomically | stale markers, equal sizes, kills, loss of power, other stores |
| Store client (`s3.py`) | objects and sidecars | upload, verify | lost objects, partly replaced copies |
| Pruning (`prune.py`) | bound, lists | verify copies, bound, retain, ceiling, request | stale listings, order of arrival, late requests |
| Lock (`locking.py`) | one lock file | try, release | two passes, killed holders |
| Heights (`heights.py`) | heights found so far | resolve, compact | any order, gaps, stale branches |
| Block files (`blockfile.py`) | none | first block, headers | preallocated, torn, growing and cut files |
| Scheduler (`schedule.py`, `cli.py`) | stop event, exit code | pass, wait, signals | failed passes, signals in a pass |
| Watchdog (`watchdog.py`, `disk.py`) | latch, monitor thread | check, trip, stop Core, join | two threads, failing requests |
| Core wrapper (`bitcoin.py`, `process.py`) | none | heights, tip, prune, mode, stop | timeouts |
| Core snapshots (`core_backup.py`, `core-backup.sh`) | staged tar, manifest, `latest.json`, services | check, prepare, create, upload, restore, resume | interruption between steps, partial restore |
| Configuration (`config.py`, parsers of `cli.py`, `schedule.py`, `disk.py`) | `.env`, command lines | parse, validate | two programs, two validations, edited settings |
| Deployment (`deploy.sh`, `compose.yaml`, ...) | containers, volumes | start, restart | - |
| Dumplings (`dumplings/`) | progress file | scan | reads blocks before they are pruned |

How they interact: `main` runs a pass under the watchdog and the signal
handlers; a pass takes the lock, archives files through the store client,
writes markers, and after each batch of 16 files prunes. Pruning reads the
markers, the block files, the consumer's progress file and Core. Everything
runs beside Core, which shares nothing but the block directory and its RPC
interface. The consumer and Core's snapshots read what pruning must keep.

What makes them correct: nothing is deleted that is not in the store; a marker
that matches its file is evidence for a complete remote copy; nobody who still
needs a file or a block loses it; passes end, retry and make progress; the
watchdog stops Core once and never goes unreported.

## 2. The modules and the code

    CoreNode -- Markers -- Storage -- ArchiveBlock -- PruneBlocks -- ArchivePass
                                                                        |
                          BlockArchive (abstract)  <--------------  ArchiveSafety
                                                                        |
                   PromiseProofs -- PruneProofs -- ArchiveProofs -- ArchiveInvariants -- MCArchive
                         |
    ArchiveSafety -- SnapshotCheck       Supervisor -- SupervisorProofs

    BlockHeights, BlockScan, MarkerFile, CommandLine -- MCParts
    BlockHeights, BlockScan -- BlockFileProofs    MarkerFile, CommandLine -- MarkerProofs
    CoreBackup -- BackupProofs

    SnapshotStore (abstract)  <--  Snapshots -- SnapshotProofs, SnapshotOverlap

Each module of the first line extends the one before it.

* `CoreNode` - Core, external: the files with their blocks, the tip, and
  `pruneblockchain`. Modelled from how `prune.py`, `state.py` and
  `blockfile.py` use it: blocks arrive in any order within a download window
  and are appended to the newest file; a completed file is truncated; a file
  goes when its highest block is at or below the requested height and below
  the blocks Core keeps around the tip.
* `Markers` - `state.py`: markers, `marker_matches_file`, `write_marker`.
* `Storage` - `s3.py`: block objects and sidecars, `upload`, `verify`, and a
  store that may lose what it had.
* `ArchiveBlock` - `archive_block`: one action per read of the file, per
  upload and per signature check (`EnsureUnchanged` is the check that follows
  five of them).
* `PruneBlocks` - `prune_archived_blocks`: the three directory listings are
  snapshots that are worked off file by file; strict and lenient handling of
  what cannot be bounded; requests on their way to Core.
* `ArchivePass` - `archive` and the pass of `--prune-only`: lock, list,
  batches, end, refusal, interruption; and what runs beside it (Core, store,
  consumer, requests executed late). `Spec` and `FairSpec` are here.
* `BlockArchive` - the abstract archive: a file leaves the directory only
  while its blocks are saved, and is on record only while its copy is exact.
* `ArchiveSafety` - all properties of the archiver, and the refinement mapping
  to `BlockArchive`.
* `ArchiveInvariants` - the inductive invariants behind the proofs, kept apart
  so that TLC can evaluate it. `MCArchive` instantiates it all for TLC.
* `SnapshotCheck` - the eligibility check of a snapshot (`core_backup.py:
  check`, `require_pruned`, `require_pruning_complete`): one action per answer
  it collects, beside the whole archiver of `ArchivePass`.
* `MarkerFile` - what `Markers` takes for granted: the temporary file, its
  replacement, destination and endpoint in a marker, kills, a loss of power, a
  process with other options, and a reader that takes no lock.
* `BlockScan` - `blockfile.py: block_headers` cell by cell, beside a Core that
  preallocates, writes, crashes, writes over and cuts the file.
* `CommandLine` - `build_parser`, the types of `schedule.py` and `disk.py`,
  `Config.__post_init__`, the combinations `main` refuses, how a snapshot check
  ends over its settings and those in the archiver's `ARCHIVER_ARGS`, and the
  wait between two passes (`WaitFails`). By what the check judges once it goes
  on is in `SnapshotCheck`.
* `MCParts` instantiates the parts that share no state with any other for TLC:
  one of them runs, the others stay in an initial state.
* `BlockHeights` - `heights.py` step by step, with the acceptance test of
  `state.py: _height_ranges` as `Canonical`.
* `Supervisor` - `main`, `run_pass`, `run_repeatedly`, `stop_on_signals` and
  `watch_disk`: two threads, three events, a Core in one of the three pruning
  modes that `require_safe_pruning` tells apart, an operator, restarts.
* `CoreBackup` - `core-backup.sh`: one action per compose command, the flags
  `core_stopped` and `consumers_stopped`, the traps (`Exit` enters `cleanup`
  once), `resume` from both of its callers, the script's lock, and the
  container of `create`, which holds Core's lock and may outlive its client.
* `Snapshots` - what that container stages, `upload`, `latest.json`, and
  `restore` on another host, with failures and kills between their steps.
* `SnapshotStore` - the abstract store: complete snapshots that are only added,
  one published at a time, in order, and hosts that get one of them or nothing.
* `SnapshotOverlap` - `Snapshots` with an upload that outlives its client while
  the next run stages its files.

### Simplifications

* A block is its height (`CoreNode`): no forks or reorganizations there;
  `BlockHeights` has them.
* A file's bytes are its set of blocks and whether it was truncated; its size
  changes only by truncation, as files are preallocated; every modification
  has an mtime of its own.
* A whole-file read happens at one instant. A read torn by a write is followed
  by that write's new mtime and so by a failing signature check. `s5cmd`
  killed by a timeout is taken to have no effect later.
* A checksum is the bytes it was computed from; `verify` does not read the
  object back, only its size. A store loses objects but does not alter them.
* The head and the cat of `verify` are one step; so are the truncation of a
  completed file and the creation of the next.
* The height cache of a pass is left out: Core's answer for a hash is constant.
* In `Markers` a marker is replaced at once and always of this store;
  `MarkerFile` shows why it may be taken so. There a text is whole or torn, and
  what `load_object` or a check of a field refuses is torn. Versions of the
  block file agree in size.
* The polls of the watchdog's latch and `require_safe_pruning` are in
  `Supervisor`; in `ArchivePass` their failures are interruptions like others.
* `CoreBackup`: a failed compose command may have had a part of its effect, but
  none later; the eligibility checks only read, so a preflight passes (if Core
  answers) or refuses; the consumers run or not by the script alone. Core has no
  restart policy in `compose.yaml` and stays down once it has ended.
* `Snapshots`: an upload is there in full or not at all, and may be absent
  although it was acknowledged; tars of different snapshots may agree in size.
  Runs do not overlap; `SnapshotOverlap` drops that.
* `SnapshotCheck`: Core's optional indexes, a second chainstate, sizes and links
  may refuse the check at any time. `safe_prune_height` is one step there.
* `BlockScan`: a cell stands for half a prefix, a header or a piece of a body;
  Core writes a record in pieces from its start on.
* `CommandLine`: one text stands for all of its kind, the numbers beyond one
  wait (`long`) and beyond a float (`endless`) among the kinds. Options passed on
  as they are (directories, profile, endpoint) are left out. A time limit for a
  call that is too long to wait for makes each such call raise inside the pass,
  which fails like any other.
* `SnapshotCheck`: check and archiver have one and the same configuration, apart
  from the files the archiver retains. An edited `.env`, or a destination or
  endpoint in `ARCHIVER_ARGS`, would make them differ and is left out.
* Ghost variables (`owed`, `excused`, `uploaded`, `base`, `verified`, `lost`,
  `losses`, `faults`, `started`, `requests`, `steadily`, `meanwhile`,
  `unpowered`, `before` and `quiet` of `BlockScan`) are only read by properties and bounds. `base` also appears in
  the guard that limits the tip's advance (below).

### The assumption on the tip

`prune.py` derives its bound from a listing of the directory. A file that Core
creates after it is not in the listing. What protects such a file is that Core
never prunes the newest 288 blocks (`Keep`). `MaxAdvance` bounds how far the
tip moves from the listing to the execution of the request; with
`MaxAdvance <= Keep` nothing is lost (runs `prune`, `race`). Run
`fast_sync` drops the assumption and finds a file that is pruned without a
copy: created after the listing, filled with blocks that arrive out of order
below the bound, completed, and overtaken by the tip by more than `Keep`. It
needs a fast initial synchronization or a request that Core executes long after
its caller timed out. `safe_prune_height` promises the "Highest height that
cannot delete an unarchived block file"; the run is listed as a finding.

## 3. What is checked

| Run | Question | Properties |
|---|---|---|
| `prune` | Do batches, each with a prune, lose a block in four files with two per batch, with requests that time out? | `TypeOK`, `NothingLost`, `CoreAcceptsTheHeight` |
| `race` | Two processes that archive and prune the same files, the one Core writes to among them (`--keep-latest-files 0`), and may be killed anywhere. Do lock and signature checks hold it together, and is each step one of the abstract archive's? | `MarkerIsEvidence`, `KeepsPromise`, `MarksAgree`, `MarkersAdvance` |
| `prune_only` | A scheduled archiver and a strict prune-only process with parser boundary and ceiling, over a store that loses an object or sidecar at any time. | `ConsumerNotStarved`, `RetainedFilesStay`, `DeletedWereVerified` |
| `parts` | Four parts that share no state, each on its own. Heights: all trees of four blocks, all files of them, all orders. Markers: kills, loss of power, changed configurations. Block files: scanned at any moment of their life. Command line: all switches, up to two edited texts. | `HeightsTrue`, `AskedOncePerGroup`, `RangesFaithful`; `AcceptedIsEvidence`, `OwnMarkersAccepted`, `ReaderNotMisled`; `CompletedFileReadsInFull`, `NothingStoredIsMissed`; `OnlyEndlessRaises` |
| `liveness` | After the last fault, do passes end, files get archived, archived files get pruned? | `PassEnds`, `Heals`, `BacklogIsPruned` |
| `fast_sync` | Is `MaxAdvance <= Keep` needed? Violated, see above. | `NothingLost` |
| `supervisor` | Threads, signals, kills, restarts, a disk and a node that change at any time. | `NothingOutlives`, `StopsOnce`, `AtMostOneMore`, `LowDiskStopsCore`, `UnsafeCoreStopped`, `StopEnds` |
| `core_backup` | Two runs of the script over any running services: failing commands, a lost client, signals, kills, a Core that ends by itself. | `CopiedOffline`, `NoHiddenOutage`, `CoreFirst`, `Resumed` |
| `snapshots` | Two snapshots staged and uploaded with failures, kills and manual retries, while another host restores. | `LatestIsComplete`, `PublishedStays`, `RestoredTogether`, `NeverMixed`, `KeepsPromise` |
| `snapshot_check` | The eligibility check beside an archiver that prunes and a Core that writes, with a ceiling. | `PassedMeansPruned`, `AwaitingMeansPrunable` |
| `retained_check` | The same beside an archiver that retains files for a parser. Violated: a finding, see below. | `AwaitingMeansPrunable` |
| `overlap_latest` | An upload outlives its client while the next run stages: is what `latest.json` names complete? Violated: a finding, see below. | `LatestIsComplete` |

Every property is shown to depend on the code by a mutant of one definition
(named in `PROJECT.json`) under which TLC finds it violated.

Observations. `MarkerIsEvidence` needs no signature check during an upload:
the marker records the signature taken before the first read, so that a change
voids it; the checks are what `MarksAgree` needs, that object, sidecar and
marker are of one version. And while a copy in the store stays damaged, every
pass stops at its first prune, so that files beyond the first batch wait for a
manual repair (`archive.py:210-216`, `prune.py:95`); `Heals` is stated without
damage. `Resumed` has to except a second signal: `cleanup` clears the EXIT trap
but not those of INT and TERM (`core-backup.sh:60-66`), so that a signal while
it waits for Core (up to 600 s) ends the script with the consumers stopped, and a
copy that outlives its client. The docs promise that Core and the consumers
restart "also on copy failures" (`docs/core-snapshots.md:37-38`); but when the
client of `create` is lost and its container goes on, that still holds Core's
lock; the cleanup starts Core, which ends at once, and tries no second time, so
that Core, which has no restart policy, and the consumers stay down when the copy
has ended. The script reports it (`NoHiddenOutage`). `StopEnds` has no clock: that a signal ends the wait,
not how soon. A restore that ends between its two renames (`core_backup.py:384-385`) leaves
blocks without chainstate, which `RestoredTogether` allows (it excludes a
chainstate without its blocks), and one that is killed a `.restore-*` directory;
either way the next restore refuses the directory until someone empties it.

`retained_check`: the check takes over three options of the archiver but not
`--prune-retain-from-file` (`core_backup.py:148-153`), so that beside such an
archiver it counts retained files as awaiting pruning and skips every snapshot,
whereas the docs promise a check by what the archiver would prune.
`AwaitingMeansPrunable` says of the file over which the check stops that it is
archived and below the bound that each file puts on a prune. It does not say that
a prune at this very moment would delete it: while no pending file holds a block
yet, such as one that Core has just created, no pass knows a bound
(`prune.py:54-73`), which the next block heals.
`overlap_latest`: `upload` opens the staged files by name and takes no lock. If
its client is killed, the next `create` may replace them under it; the new tar
is then published under the old identifier, and a restore refuses it by its
checksum until the next upload.

`OwnMarkersAccepted` has to except a loss of power: nothing is synced before
`os.replace` (`state.py:163-170`), so that a marker may come back empty, and
`read_marker` then ends each pass until someone removes it.
`CompletedFileReadsInFull` is about completed files: in one that Core still
writes to, zeros of 1 to 7 bytes behind the last record are an error although
"trailing zero bytes mark the end" (`blockfile.py:5`, `67`); only
`--keep-latest-files 0` scans such files, and the next record ends it.
`OnlyEndlessRaises` has two exceptions. An interval such as `99999999h` passes both
validations, and `stop.wait` raises `OverflowError` for it (`schedule.py:80`), so
that the archiver ends with a traceback after its first pass. And a size limit of
the snapshots may exceed the largest float (`core_backup.py:51-52`; for
`--min-free-space` the parser catches that, `cli.py:86-90`).
Since `compose.yaml` gives `ARCHIVE_INTERVAL` a default, `--prune-only` is refused
there unless `--interval 0` stands beside it (`PruneOnlyRefused`).

### Bounds

`MaxHeight` 3-4, `MaxFile` 2-3, `Keep` 1 and `Window` 1-3 stand for the chain,
the files, 288 and 1024. Four files with five blocks are the smallest instance
in which an archived, a pending, a protected and a newly created file coexist
and blocks lie out of order across file borders; two files suffice for races
over one file. `BatchFiles` is 1 or 2 for 16, so that passes have several
batches and a partial one. `MaxFaults` 1 gives one crash, timeout or killed
process at any step and any number of passes after it; `MaxDamage` 1 one lost
object. In `race` blocks arrive at most one ahead of the tip (`Window` 1): its
question is the two processes; out-of-order arrival is in `prune`. In
`parts` four blocks allow two groups of two, a chain with a gap and stale
branches; two versions of a file, two names and two faults let a marker be
replaced, be torn and come back, and a process leave its store and return (the
names are symmetric); twelve cells hold several records in three preallocated
chunks, with payloads of one to three cells and two crashes that leave pieces
behind; two edits set any two texts beside each other. The check of
`snapshot_check` meets one archiver with three files and a tip that moves under
every step (`MaxLag` 3 refuses none: how far Core has fallen behind is not its question).
In `supervisor` passes have up to `MaxOps` 2 operations and
`MaxFaults` 2 failed requests, so that a failed stop is followed by another
failed one. In `core_backup` two runs show what a run leaves to the next, two
faults and two signals a failure within the cleanup of another. In `snapshots`
two creations allow a tar and a manifest of different snapshots, and a published
one that a later upload could spoil. Deadlock is checked in all runs but those of
`SnapshotCheck`, which stop at the verdict of the check.

### Fairness

`FairSpec` in `ArchivePass`: weak fairness of each process' start and steps.
A process that is not killed goes on, since every external call has a time
limit (`process.py`); `run_repeatedly` starts the next pass; Core answers what
it is asked. Core and its peers owe nothing: they need not write, complete a
file or move the tip. Faults are finitely many, as in "a temporary S3 or RPC
outage heals" (`schedule.py:66-67`). In `Supervisor`: weak fairness of each
thread and of the restart by the container runtime (`compose.yaml:89`); nothing
is assumed of signals, the disk or Core's operator. In `CoreBackup`: weak
fairness of the script's commands and of the copy, since stopping has a grace
period, starting a time limit, and tar and upload are finite; no fairness of an
operator who starts services.

## 4. What is proved

Every safety property that a passing run checks is also a theorem, for every
value of the constants that the named assumptions allow; so is that the detailed
specifications implement the abstract ones.

Module `ArchiveProofs`, for all values of the constants that satisfy the named
assumptions (natural numbers, Booleans, `None` distinct):

* `Typing`: `Spec => []TypeOK`. `TypeOK` is not inductive: `cur[p]` must be a
  file where it is used, and the signature a signature. `TypeInv` adds
  `LabelsOK`, which says at which labels these locals are set.
* `MarkersAreEvidence`: `Spec => []MarkerIsEvidence`. The argument
  (`EvidenceInv`): the lock admits one process at a time (`MutualExclusion`),
  so only it changes object and sidecar; a marker's mtime is never ahead of the
  file's (`MarkerPast`), so that a later write voids it for good; and for each
  file that is being archived, as long as its signature is still the one taken
  first, checksum, ranges, object and sidecar are those of the file
  (`SoFarConsistent`, `Archiving`), each from its own label on. Hence when the
  marker is written it is evidence (`Evidence`), whatever Core did meanwhile.
* `MarkersAgreeWithTheStore`: `Spec => [][MarksAgree]_vars`, and
  `MarkersNeverGoBack`: `Spec => [][MarkersAdvance]_vars`. When a marker is written
  object and sidecar may already be of an older version than the file, which
  `EvidenceInv` leaves open; `VersionInv` says of which: what a process has read is
  of the version whose signature the last check that passed still saw, and of no
  other, up to the label of the next check.

Module `PruneProofs`, all but the last under the assumption `MaxAdvance <= Keep`
(section 2):

* `NoBlockIsLost`: `Spec => []NothingLost`. The argument (`LossInv`): the chain
  is stored, so that a block that arrives is above the tip (`FilesOK`); hence a
  file that is empty, preserved, or holds a block above the tip at the listing
  stays one of these (`Unharmed`), and so do the files created later. Each step
  of a prune either finds a file `Unharmed` (its marker is current, so by
  `MarkersAreEvidence` it is preserved) or keeps the height below one of its
  blocks (`Above`), from its own label on (`Cleared`); a request that became
  late keeps what its caller had established. When Core executes it, a file
  with a block above the bound is left, and one with a block above the tip at
  the listing is among those Core keeps, since the tip is still near (`Recent`).
* `ConsumerNeverStarves`, `RetainedFilesAlwaysStay`: other limits of a prune,
  from `LimitInv`: from the label that reads a limit on, the height respects it,
  and so does a request whose caller gave up. For the retained files this needs
  the assumption on the tip again: a file created after they were listed is
  protected by Core alone.
* `CoreAlwaysAccepts`: `Spec => []CoreAcceptsTheHeight`, without that assumption:
  the tip only grows (`TipGrows`), each step of a prune lowers the height or keeps
  it (`PruneAsks`), and the request is made for a positive one (`AcceptedInv`).

Module `PromiseProofs`: `ArchiverIsAnArchive`, the refinement of
`BlockArchive`: with the same assumption and a store that loses nothing
(`MaxDamage = 0`), `Spec => KeepsPromise`. An upload is a `Save`, the write of
a marker a `Record` if the file is still the one that was uploaded, a prune
(also a late one) a `Delete`, Core's writes are a `Modify`, all else stutters.
It needs in addition that no process works on a file Core has yet to create
(`OnlyKnownFiles`), so that a new file is never on record.
`DeletedFilesWereVerified`: `Spec => [][DeletedWereVerified]_vars`, under the
assumption on the tip alone. Each step of a prune finds a file verified, or keeps
the height below one of its blocks, or it is a file Core will keep
(`VerifiedInv`); a late request keeps what its caller had verified.

It also proves the check of `SnapshotCheck`, which runs beside that archiver:

* `NothingEligibleIsPassed`: `CheckSpec => []PassedMeansPruned`. A file that was
  prunable at every moment lies below the bound whenever that is worked out, was
  listed, and is archived and below the bound when it is examined
  (`SteadyInv`, from the label of each answer on).
* `AwaitedFilesGo`: `CheckSpec => []AwaitingMeansPrunable`, where no files are
  retained (`RetainFrom = None`, the case of the finding `retained_check`), at
  least the newest file is kept (`KeepLatest >= 1`), and the tip moves by at most
  `Keep` during a prune. The bound was worked out earlier than the file is
  examined: a file that was archived then stays so, since only completed files
  are archived and those no longer change (`SealedOnly`, `StillCurrent`), hence
  the pending files of the moment are among those of the bound or newer than it,
  and their first blocks are above the limit or above the tip at the time
  (`BoundInv`). With `KeepLatest = 0` a marker may lapse after the bound was taken;
  there TLC finds no violation in the instances of the run, and nothing is proved.

Module `MarkerProofs`, for any number of names, versions and faults:
`MarkersStayEvidence` (a marker of the newest version, or of a file that is
gone, has its object at its place, `Backed`), `OwnMarkersStayAccepted` (a
marker names its target as `write_marker` does, and is torn only after a loss
of power, `Legible`) and `ReaderIsNotMisled` (between the reader's steps the marker
may be replaced, but not by one of another place). The module also proves what
`CommandLine` promises: `OnlyEndlessSettingsRaise` (each conversion of a setting ends
in a usage error or in a value that `Config` accepts, `ParsedMeansValid`, so that a
program that ends with a traceback had an endless interval or size limit).

Module `SupervisorProofs`: `NothingOutlivesMain`, `CoreIsStoppedOnce` and
`OneMoreAtMost`, for any faults, restarts and interleaving, from one invariant
(`SupervisorInv`). The main thread looks at the disk only where no monitor lives
(`Turns`); a thread about to ask Core to stop is the one that set the latch, and
nobody looks again once it is set (`Latch`); main reports a trip with status 1
(`Reported`); and an operation begun after the trip was polled for before it, with
none begun since (`OneMore`).

Module `BlockFileProofs`:

* `HeightsAreTrue`: `Spec => []HeightsTrue`. The trail of a walk is linked by
  parents (`Linked`) and what was assigned last is the height of the parent of
  its end (`Descending`).
* `WalksEnd`: `Spec => []NeverCyclic`: the walk stands below all of its trail
  (`Walking`), so that it cannot return to it and the error of
  `heights.py:41-42` is unreachable for blocks of a chain.
* `NodeIsAskedOncePerGroup`: `Spec => []AskedOncePerGroup`. The trail holds
  different blocks without a height, and once a walk has stopped the parent of
  its end is in the file (`TrailInv`): only a walk that left the file asks, for
  the oldest block of a group that was not known (`Counted`).
* `RangesAreFaithful`: `Spec => []RangesFaithful`. Every block is resolved, on a
  trail or still to come (`Covered`); then the ranges so far and the heights still
  to be compacted are together those of the file, the latter above the former
  (`Split`), and the ranges keep a gap between them (`Apart`).

And about `BlockScan`, for any size of chunks and records and any crashes:
`StoredBlocksAreRead` and `CompletedFilesReadInFull`, from `ScanInv`. There are
starts and sizes of the stored records (`Laid`, an existential witness that grows
with each record), Core writes behind them only (`Writing`), and a scan that has
not yielded what was stored when it began stands at the record that comes next
(`Tracking`), where neither the end nor an error is possible if the file is
complete (`Undisturbed`).

Module `BackupProofs`: `CopiesAreOffline`, `OutagesAreReported` and
`ConsumersAfterCore`, from one invariant (`BackupInv`): what the script owes a
start is known to its flags (`FlagsTell`), a flag is set only behind the traps
(`TrapFits`), resume passes Core before the consumers and both before the upload
(`InOrder`), and cleanup begins with status 0 only when nothing is owed
(`CleanSuccess`). That nothing is copied beside a running Core rests on the lock
alone, not on the order of the script.

Module `SnapshotProofs`: `LatestComplete` and `PublishedRemains` (a prefix holds
its own snapshot or nothing, `Filed`; latest.json, manifest and tar are of
increasing age, `Aged`; what each label of the upload has established,
`Uploading`), `RestoresTogether` and `RestoresNeverMix` (behind the recheck Core
has never run, `Reserved`; the roots hold the unpacked snapshot or nothing,
`Restoring`). `SnapshotsAreAStore` is the refinement: `Spec => KeepsPromise`,
each step of staging, upload and restore is one of `SnapshotStore` or stutters.
The initial states and `StoreGrows` (a snapshot in the store stays complete)
follow from the invariant above; a restore needs in addition that what it looks
for was published when it looked and has been in the store since (`Wanting`).
They assume at least one snapshot and natural bounds.

Only model-checked: liveness, that is `PassEnds`, `Heals` and `BacklogIsPruned` of
the archiver, `LowDiskStopsCore`, `UnsafeCoreStopped` and `StopEnds` of
`Supervisor`, and `Resumed` of `CoreBackup`. Fairness and ENABLED are outside the
prover's reach.

## 5. What is not modelled

* `logging_setup.py`, `jsonutil.py`, `hashing.py`, `errors.py`, `constants.py`: helpers
  without state. A text that `jsonutil` refuses is a torn marker or a failed
  step, a checksum stands for the bytes it was computed from.
* The refusal of an obfuscated block directory (`blockfile.py: xor.dat`): a pass
  that fails before its first step, like other failures of `ArchivePass`.
* What `inventory` counts and compares, Core's indexes: reasons to refuse a
  snapshot, any of which `SnapshotCheck` may give at any time. The age of a
  preflight receipt (`core_backup.py:202`) is not told apart for that reason.
* `deploy.sh`, `docker-entrypoint.sh`, the volume scripts and the wiring of
  `compose.yaml`: run once, by hand, with no state to come back to. The restart
  policy, the stop signal and the environment they pass on are in `Supervisor`
  and `CommandLine`.
* `dumplings/`: builds and tests a third-party scanner; the archiver only reads
  its progress file (`ScannerAdvances`). `gen_scanner.py` writes test data.
* Manual repair: a damaged copy or a torn marker is removed by hand.

## 6. Plan

1. Done: archiver core, heights, supervisor, snapshots and their abstract store,
   eligibility check, marker file, block file, command line; every safety
   property of the passing runs and both refinements proved.
2. Model: the effect of a compose command that failed, arriving later; the
   watchdog's stop of Core during an archive pass in one model with the schedule.
3. Proofs: `AwaitedFilesGo` without `KeepLatest >= 1`; that the snapshot check
   leaves the archiver's guarantees untouched (`CheckSpec => Spec`), so that the
   theorems of `Spec` hold beside it; the safety half of the liveness properties,
   such as that a pass under way always has a step to take.
