----------------------------- MODULE MarkerFile -----------------------------
(***************************************************************************)
(* The marker of one block file as a file (state.py): how it is written,   *)
(* replaced and read, for which destination it counts, and what kills, a   *)
(* loss of power and a change of the configuration make of it.  Markers    *)
(* takes the outcome for granted: a marker is replaced at once.            *)
(*                                                                         *)
(* One process at a time writes (ArchivePass: lock).  The reader is        *)
(* core_backup.py, which takes no lock and has a configuration of its own. *)
(*                                                                         *)
(* Simplifications.  Versions of the block file are numbered in the order  *)
(* of their mtime; they agree in size.  What a marker says of content and  *)
(* heights is left to ArchiveBlock.  A text is whole or torn, which        *)
(* load_object refuses.  A block file is deleted only while archived.      *)
(***************************************************************************)
EXTENDS Integers

CONSTANTS
    Names,        \* endpoints and destinations, apart from their spelling
    NoFile,         \* no file
    Torn,         \* a file that holds no whole text
    MaxVersion,   \* bound: versions of the block file
    MaxFaults     \* bound: kills, losses of power, changes of the configuration

VARIABLES
    pc,         \* next step of the writer
    config,     \* the writer's configuration
    signed,     \* the version whose signature it took
    temporary,  \* the file blk*.dat.json.tmp
    marker,     \* the file blk*.dat.json
    flushed,    \* the marker that a loss of power leaves
    version,    \* the newest version of the block file
    present,    \* the block file is there
    store,      \* the version of its object at each endpoint and destination
    rpc,        \* next step of the reader, or its verdict
    rconfig,    \* the reader's configuration
    seen,       \* the version of the marker it has read
    faults,
    unpowered,  \* power was lost at some time
    meanwhile   \* the object was current at some time since the reader began

file == <<version, present>>
writer == <<pc, config, signed, temporary, marker, store>>
reader == <<rpc, rconfig, seen>>
markerVars == <<writer, flushed, file, reader, faults, unpowered, meanwhile>>

\* An option as it is given, with a slash at its end or without.
Spellings == [name: Names, slash: BOOLEAN]
Configs == [endpoint: Spellings, destination: Spellings]

\* Texts of markers.
Whole == [version : Nat, target : Configs]

ASSUME MarkerFileAssumption ==
    /\ MaxVersion \in Nat /\ MaxFaults \in Nat
    /\ NoFile # Torn /\ NoFile \notin Whole /\ Torn \notin Whole

\* rstrip("/")
Strip(s) == [s EXCEPT !.slash = FALSE]

\* remote_url and the endpoint, as they stand in a marker.
Target(c) == [endpoint |-> Strip(c.endpoint), destination |-> Strip(c.destination)]

\* The place that a configuration stands for.
Place(c) == <<c.endpoint.name, c.destination.name>>

\* What write_marker writes of the configuration.
MarkerTarget(c) == Target(c)

MarkerInit ==
    /\ pc = "idle" /\ config \in Configs /\ signed = 0
    /\ temporary = NoFile /\ marker = NoFile /\ flushed = NoFile
    /\ version = 1 /\ present = TRUE
    /\ store = [p \in Names \X Names |-> 0]
    /\ rpc = "idle" /\ rconfig \in Configs /\ seen = 0
    /\ faults = 0 /\ unpowered = FALSE /\ meanwhile = FALSE

-----------------------------------------------------------------------------
(* Reading.                                                                *)

\* Mutant of Accepted: the endpoint is not compared.
AcceptedAnywhere(c) ==
    marker \notin {NoFile, Torn} /\ marker.target.destination = Target(c).destination

\* read_marker raises no error.
Accepted(c) == marker \notin {NoFile, Torn} /\ marker.target = Target(c)

\* Mutant of SameSignature: the modification time is not compared.
SameSize(v) == TRUE

SameSignature(v) == v = version

\* already_archived, for the writer, which reads with nobody writing.
AlreadyArchived(c) == Accepted(c) /\ (present => SameSignature(marker.version))

ReaderGoes(from, to) == rpc = from /\ rpc' = to /\ UNCHANGED <<rconfig>>

Look ==
    /\ ReaderGoes("idle", IF marker = NoFile THEN "no" ELSE "read")
    /\ UNCHANGED seen

ReadMarker ==
    /\ ReaderGoes("read", IF Accepted(rconfig) THEN "exists" ELSE "error")
    /\ seen' = IF Accepted(rconfig) THEN marker.version ELSE seen

Exists ==
    /\ ReaderGoes("exists", IF present THEN "stat" ELSE "yes")
    /\ UNCHANGED seen

\* The file may have gone since.
Stat ==
    /\ ReaderGoes("stat", IF ~present THEN "error"
                          ELSE IF SameSignature(seen) THEN "yes" ELSE "no")
    /\ UNCHANGED seen

ReadAgain ==
    /\ rpc \in {"yes", "no", "error"}
    /\ ReaderGoes(rpc, "idle")
    /\ UNCHANGED seen

Read ==
    /\ Look \/ ReadMarker \/ Exists \/ Stat \/ ReadAgain
    /\ UNCHANGED <<writer, flushed, file, faults, unpowered>>

-----------------------------------------------------------------------------
(* Writing.                                                                *)

WriterGoes(from, to) == pc = from /\ pc' = to /\ UNCHANGED config

\* A marker that is refused ends the pass, a matching one the block's part in it.
Begin ==
    /\ present
    /\ marker = NoFile \/ Accepted(config)
    /\ ~AlreadyArchived(config)
    /\ WriterGoes("idle", "upload")
    /\ signed' = version
    /\ UNCHANGED <<temporary, marker, store>>

Upload ==
    /\ version = signed
    /\ WriterGoes("upload", "open")
    /\ store' = [store EXCEPT ![Place(config)] = version]
    /\ UNCHANGED <<signed, temporary, marker>>

\* A changed source ends the pass.
SourceChanged ==
    /\ version # signed
    /\ WriterGoes("upload", "idle")
    /\ UNCHANGED <<signed, temporary, marker, store>>

\* Mutant of OpenTemporary: the marker is written in place.
OpenMarker ==
    /\ WriterGoes("open", "write")
    /\ marker' = Torn
    /\ UNCHANGED <<signed, temporary, store>>

\* write_text truncates what a killed process left.
OpenTemporary ==
    /\ WriterGoes("open", "write")
    /\ temporary' = Torn
    /\ UNCHANGED <<signed, marker, store>>

WriteTemporary ==
    /\ WriterGoes("write", "replace")
    /\ temporary' = [version |-> signed, target |-> MarkerTarget(config)]
    /\ UNCHANGED <<signed, marker, store>>

Replace ==
    /\ WriterGoes("replace", "idle")
    /\ marker' = temporary /\ temporary' = NoFile
    /\ UNCHANGED <<signed, store>>

Write ==
    /\ \/ Begin \/ Upload \/ SourceChanged
       \/ OpenTemporary \/ WriteTemporary \/ Replace
    /\ UNCHANGED <<flushed, file, reader, faults, unpowered>>

-----------------------------------------------------------------------------
(* What happens to both.                                                   *)

Fault == faults < MaxFaults /\ faults' = faults + 1

Modify ==
    /\ present /\ version < MaxVersion
    /\ version' = version + 1
    /\ UNCHANGED <<writer, flushed, present, reader, faults, unpowered>>

\* Core executes a prune that a pass with a matching marker has asked for.
Delete ==
    /\ present /\ AlreadyArchived(config)
    /\ present' = FALSE
    /\ UNCHANGED <<writer, flushed, version, reader, faults, unpowered>>

Kill ==
    /\ Fault
    /\ pc # "idle" /\ pc' = "idle"
    /\ UNCHANGED <<config, signed, temporary, marker, store>>
    /\ UNCHANGED <<flushed, file, reader, unpowered>>

\* The writer is started with other options.
Reconfigure ==
    /\ Fault
    /\ pc = "idle" /\ config' \in Configs
    /\ UNCHANGED <<pc, signed, temporary, marker, store>>
    /\ UNCHANGED <<flushed, file, reader, unpowered>>

\* The system writes the marker through, at a time of its own.
Flush ==
    /\ flushed' = marker
    /\ UNCHANGED <<writer, file, reader, faults, unpowered>>

\* Nothing is synced: the old marker may be back, or the new one be empty.
LosePower ==
    /\ Fault
    /\ pc' = "idle" /\ unpowered' = TRUE
    /\ \/ UNCHANGED marker
       \/ marker # flushed /\ marker' \in {flushed, Torn}
    /\ flushed' = marker'
    /\ temporary' \in {temporary, Torn, NoFile}
    /\ rpc' = "idle"
    /\ UNCHANGED <<config, signed, store, file, rconfig, seen>>

\* The object is of the file's newest version, for the reader's configuration.
Current == store[Place(rconfig)] = version

MarkerNext ==
    /\ \/ Read \/ Write \/ Modify \/ Delete \/ Kill \/ Reconfigure \/ Flush
       \/ LosePower
    /\ meanwhile' = IF rpc' = "idle" THEN FALSE ELSE meanwhile \/ Current \/ Current'

MarkerSpec == MarkerInit /\ [][MarkerNext]_markerVars

-----------------------------------------------------------------------------
(* Properties.                                                             *)

\* Whatever was killed or configured, a marker that a process accepts and that
\* matches the block file speaks of an object at the place the process uses: a
\* marker of another store never passes for one of this store.
AcceptedIsEvidence ==
    \A c \in Configs : AlreadyArchived(c) => store[Place(c)] = version

\* A process is not stopped by the marker of its own store: a killed writer leaves
\* no torn one, and a slash in the options changes nothing.  Only a loss of power
\* can leave a torn marker, as nothing is synced before the marker is replaced.
OwnMarkersAccepted ==
    \A c \in Configs :
        \/ marker = NoFile \/ Accepted(c)
        \/ marker = Torn /\ unpowered
        \/ marker # Torn /\ <<marker.target.endpoint.name,
                              marker.target.destination.name>> # Place(c)

\* A reader without a lock says that the file is archived only if it was, at
\* some time while it read: the marker is replaced, the file modified, archived
\* again and deleted between its steps.
ReaderNotMisled == rpc = "yes" => meanwhile
=============================================================================
