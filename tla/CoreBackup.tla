---------------------------- MODULE CoreBackup ----------------------------
(***************************************************************************)
(* core-backup.sh on the host: it stops the consumers and Core, lets a     *)
(* container copy Core's data, starts everything again and uploads the     *)
(* copy.  Each compose command is one step; it may fail with a part of its *)
(* effect, but none later.  bash runs a trap only between two commands, so *)
(* that a signal during a command counts as one right after it.            *)
(*                                                                         *)
(* The copy (core_backup.py: create) runs in a container of its own, which *)
(* goes on when the client that the script waits for, or the script, is    *)
(* killed.  The client inherits the script's lock file.                    *)
(***************************************************************************)
EXTENDS Integers

CONSTANTS
    Core,        \* the service bitcoin-core
    Consumers,   \* the services archiver and dumplings
    MaxRuns,     \* bound: invocations of the script
    MaxFaults,   \* bound: failed commands, lost clients, ends of Core
    MaxSignals   \* bound: interrupts of the script

ASSUME BackupAssumption ==
    /\ Core \notin Consumers
    /\ MaxRuns \in Nat /\ MaxFaults \in Nat /\ MaxSignals \in Nat

VARIABLES
    running,           \* the services that run
    cookie,            \* Core's RPC cookie exists: it runs, or ended badly
    pc,                \* the script's next command
    trap,              \* "none" before line 64, "set", "cleared" in cleanup
    consumers,         \* those that ran when the script began
    consumersStopped,
    coreStopped,
    code,              \* exit status: "ok" or "failed"
    receipt,           \* preflight.json is younger than 900 seconds
    copier,            \* the container of create: "none", "attached" to its
                       \* client or "detached" from it
    uploaded,          \* this run has uploaded its copy
    owed,              \* services this run stopped and has not started again
    excused,           \* what kept this run from that: "nothing", "lock" of a
                       \* copy whose client is gone, or a "fault" of cleanup
    runs, faults, signals

script == <<consumers, consumersStopped, coreStopped>>
world == <<running, cookie>>
counts == <<runs, faults, signals>>
vars == <<world, pc, trap, script, code, receipt, copier, uploaded, owed,
          excused, counts>>

Services == {Core} \union Consumers

Alive == pc \notin {"idle", "exited", "killed"}

Init ==
    /\ running \in SUBSET Services
    /\ cookie = (Core \in running)
    /\ pc = "idle" /\ trap = "none" /\ code = "ok"
    /\ consumers = {} /\ consumersStopped = FALSE /\ coreStopped = FALSE
    /\ receipt = FALSE /\ copier = "none" /\ uploaded = FALSE
    /\ owed = {} /\ excused = "nothing"
    /\ runs = 0 /\ faults = 0 /\ signals = 0

Fails == faults < MaxFaults /\ faults' = faults + 1 /\ UNCHANGED <<runs, signals>>

Proceed(to) == pc' = to /\ UNCHANGED <<trap, code>>

\* The script ends with a status; the EXIT trap runs cleanup first, once.
Exit(status) ==
    /\ code' = status
    /\ IF trap = "set" THEN trap' = "cleared" /\ pc' = "startCore"
                       ELSE UNCHANGED trap /\ pc' = "exited"

\* At the end of resume: main goes on, cleanup keeps the status.
Resume == IF trap = "set" THEN Proceed("upload") ELSE Exit(code)

-----------------------------------------------------------------------------
(* Before anything is stopped.                                             *)

\* The lock is free when no script and no client of a killed script runs.
LockIsFree == ~Alive /\ copier # "attached"

Begin ==
    /\ LockIsFree /\ runs < MaxRuns
    /\ runs' = runs + 1
    /\ consumers' = running \ {Core}
    /\ consumersStopped' = FALSE /\ coreStopped' = FALSE
    /\ trap' = "none" /\ uploaded' = FALSE
    /\ owed' = {} /\ excused' = "nothing"
    /\ IF Core \in running THEN pc' = "check" /\ code' = "ok"
                           ELSE pc' = "exited" /\ code' = "failed"
    /\ UNCHANGED <<world, receipt, copier, faults, signals>>

\* check(): Core answers and qualifies by its pruning, size and indexes; this
\* model says of the latter only that it may refuse.
Preflight == Core \in running

\* step check: the preflight passes, refuses (status 3: skip) or fails.
Check ==
    /\ pc = "check"
    /\ \/ /\ Preflight
          /\ pc' = IF consumers = {} THEN "prepare" ELSE "stopConsumers"
          /\ trap' = "set" /\ UNCHANGED <<code, counts>>
       \/ Exit("ok") /\ UNCHANGED counts
       \/ Fails /\ Exit("failed")
    /\ UNCHANGED <<world, script, receipt, copier, uploaded, owed, excused>>

-----------------------------------------------------------------------------
(* Stopping, copying.                                                      *)

StopServices(S) ==
    /\ running' = running \ S
    /\ owed' = owed \union (S \intersect running)

\* Mutant of StopConsumers: the flag is set after the command.
StopConsumersThenNote ==
    /\ pc = "stopConsumers"
    /\ \E S \in SUBSET consumers :
          /\ StopServices(S)
          /\ \/ S = consumers /\ Proceed("prepare") /\ consumersStopped' = TRUE
                /\ UNCHANGED counts
             \/ Fails /\ Exit("failed") /\ UNCHANGED consumersStopped
    /\ UNCHANGED <<cookie, consumers, coreStopped, receipt, copier, uploaded,
                   excused>>

StopConsumers ==
    /\ pc = "stopConsumers"
    /\ consumersStopped' = TRUE
    /\ \E S \in SUBSET consumers :
          /\ StopServices(S)
          /\ \/ S = consumers /\ Proceed("prepare") /\ UNCHANGED counts
             \/ Fails /\ Exit("failed")
    /\ UNCHANGED <<cookie, consumers, coreStopped, receipt, copier, uploaded,
                   excused>>

\* step prepare: the preflight again, which writes its receipt.
Prepare ==
    /\ pc = "prepare"
    /\ \/ Preflight /\ receipt' = TRUE /\ Proceed("findCore")
       \/ Exit("failed") /\ UNCHANGED receipt
    /\ UNCHANGED <<world, script, copier, uploaded, owed, excused, counts>>

ReceiptExpires ==
    /\ receipt /\ receipt' = FALSE
    /\ UNCHANGED <<world, pc, trap, script, code, copier, uploaded, owed,
                   excused, counts>>

\* ps -q finds the container of a Core that runs.
FindCore ==
    /\ pc = "findCore"
    /\ \/ Core \in running /\ Proceed("stopCore") /\ UNCHANGED counts
       \/ Core \notin running /\ Exit("failed") /\ UNCHANGED counts
       \/ Fails /\ Exit("failed")
    /\ UNCHANGED <<world, script, receipt, copier, uploaded, owed, excused>>

\* Core ends well, is killed after its grace period, or does not end; one that has
\* ended by itself stays as it is.
StopCore ==
    /\ pc = "stopCore"
    /\ coreStopped' = TRUE
    /\ \/ /\ StopServices({Core}) /\ cookie' = (cookie /\ Core \notin running)
          /\ \/ Proceed("inspect") /\ UNCHANGED counts
             \/ Fails /\ Exit("failed")
       \/ StopServices({Core}) /\ Fails /\ Proceed("inspect") /\ UNCHANGED cookie
       \/ Fails /\ Exit("failed") /\ UNCHANGED <<world, owed>>
    /\ UNCHANGED <<consumers, consumersStopped, receipt, copier, uploaded, excused>>

\* docker inspect: exit code 0, not OOM-killed, not running.
Inspect ==
    /\ pc = "inspect"
    /\ IF Core \notin running /\ ~cookie THEN Proceed("create")
                                         ELSE Exit("failed")
    /\ UNCHANGED <<world, script, receipt, copier, uploaded, owed, excused,
                   counts>>

\* stopped_core: the copy begins with Core's lock free and its cookie gone.
Offline == Core \notin running /\ ~cookie

\* Mutant of CoreLockIsFree: the lock is only tested, not held.
CoreLockUntaken == TRUE

\* stopped_core holds the lock as long as the container copies.
CoreLockIsFree == copier = "none"

Create ==
    /\ pc = "create" /\ copier = "none"
    /\ \/ /\ receipt /\ Offline
          /\ copier' = "attached" /\ Proceed("copying")
       \/ Exit("failed") /\ UNCHANGED copier
    /\ UNCHANGED <<world, script, receipt, uploaded, owed, excused, counts>>

\* The container ends: the tar and its manifest are staged, or something failed.
CopyEnds ==
    /\ copier # "none" /\ copier' = "none"
    /\ IF pc # "copying" THEN UNCHANGED <<pc, trap, code>>
                         ELSE Proceed("startCore") \/ Exit("failed")
    /\ UNCHANGED <<world, script, receipt, uploaded, owed, excused, counts>>

\* The client of the container dies; the container goes on.
LoseClient ==
    /\ copier = "attached" /\ copier' = "detached" /\ Fails
    /\ IF pc = "copying" THEN Exit("failed") ELSE UNCHANGED <<pc, trap, code>>
    /\ UNCHANGED <<world, script, receipt, uploaded, owed, excused>>

-----------------------------------------------------------------------------
(* resume, from main at line 81 and from cleanup.                          *)

StartServices(S) ==
    /\ running' = running \union S
    /\ owed' = owed \ S

\* Mutant of StartFails: the consumers do not wait for Core.
StartFailsOnward(cause) == Proceed("startConsumers") /\ UNCHANGED excused

\* A failure in main is tried again by cleanup; one in cleanup is final.
StartFails(cause) ==
    /\ Exit("failed")
    /\ excused' = IF trap = "cleared" THEN cause ELSE excused

\* start --wait bitcoin-core: it becomes healthy, or not in time, or it does not
\* start, as when it finds its data locked.
StartCore ==
    /\ pc = "startCore" /\ coreStopped
    /\ \/ /\ CoreLockIsFree \/ Core \in running
          /\ StartServices({Core}) /\ cookie' = TRUE
          /\ \/ coreStopped' = FALSE /\ Proceed("startConsumers")
                /\ UNCHANGED <<excused, counts>>
             \/ Fails /\ StartFails("fault") /\ UNCHANGED coreStopped
       \/ /\ \/ /\ ~CoreLockIsFree /\ Core \notin running
                /\ StartFails("lock") /\ UNCHANGED counts
             \/ Fails /\ StartFails("fault")
          /\ UNCHANGED <<world, owed, coreStopped>>
    /\ UNCHANGED <<consumers, consumersStopped, receipt, copier, uploaded>>

CoreNotStopped ==
    /\ pc = "startCore" /\ ~coreStopped
    /\ Proceed("startConsumers")
    /\ UNCHANGED <<world, script, receipt, copier, uploaded, owed, excused,
                   counts>>

\* Mutant of StartConsumers: what the command returns is not looked at.
StartConsumersAtMost ==
    /\ pc = "startConsumers" /\ consumersStopped
    /\ \E S \in SUBSET consumers :
          /\ StartServices(S)
          /\ IF S = consumers THEN UNCHANGED counts ELSE Fails
    /\ consumersStopped' = FALSE /\ Resume
    /\ UNCHANGED <<cookie, consumers, coreStopped, receipt, copier, uploaded,
                   excused>>

StartConsumers ==
    /\ pc = "startConsumers" /\ consumersStopped
    /\ \E S \in SUBSET consumers :
          /\ StartServices(S)
          /\ \/ S = consumers /\ consumersStopped' = FALSE /\ Resume
                /\ UNCHANGED <<excused, counts>>
             \/ Fails /\ StartFails("fault") /\ UNCHANGED consumersStopped
    /\ UNCHANGED <<cookie, consumers, coreStopped, receipt, copier, uploaded>>

NoConsumers ==
    /\ pc = "startConsumers" /\ ~consumersStopped
    /\ Resume
    /\ UNCHANGED <<world, script, receipt, copier, uploaded, owed, excused,
                   counts>>

\* step upload, then the end of the script.
Upload ==
    /\ pc = "upload"
    /\ \/ uploaded' = TRUE /\ Exit("ok")
       \/ Exit("failed") /\ UNCHANGED uploaded
    /\ UNCHANGED <<world, script, receipt, copier, owed, excused, counts>>

-----------------------------------------------------------------------------
(* What happens beside the script.                                         *)

\* INT or TERM: exit, and with it cleanup, unless cleanup is running already.
\* While a copy runs the signal waits for its end.
Interrupt ==
    /\ Alive /\ pc # "copying" /\ signals < MaxSignals
    /\ signals' = signals + 1
    /\ Exit("failed")
    /\ excused' = IF trap = "cleared" THEN "fault" ELSE excused
    /\ UNCHANGED <<world, script, receipt, copier, uploaded, owed, runs, faults>>

Kill ==
    /\ Alive /\ signals < MaxSignals
    /\ signals' = signals + 1
    /\ pc' = "killed" /\ excused' = "fault"
    /\ UNCHANGED <<world, trap, script, code, receipt, copier, uploaded, owed,
                   runs, faults>>

\* Core crashes, or the archiver's watchdog stops it.  It is not restarted.
CoreEnds ==
    /\ Core \in running /\ Fails
    /\ running' = running \ {Core} /\ cookie' \in BOOLEAN
    /\ UNCHANGED <<pc, trap, script, code, receipt, copier, uploaded, owed,
                   excused>>

\* An operator starts every service after the script has gone.
Repair ==
    /\ ~Alive /\ running # Services /\ CoreLockIsFree
    /\ StartServices(Services) /\ cookie' = TRUE
    /\ UNCHANGED <<pc, trap, script, code, receipt, copier, uploaded, excused,
                   counts>>

Step ==
    \/ Check \/ StopConsumers \/ Prepare \/ FindCore \/ StopCore \/ Inspect
    \/ Create \/ StartCore \/ CoreNotStopped \/ StartConsumers \/ NoConsumers
    \/ Upload

\* All runs are over and everything runs.
Done == ~Alive /\ runs = MaxRuns /\ copier = "none" /\ UNCHANGED vars

Next ==
    \/ Begin \/ Step \/ CopyEnds \/ ReceiptExpires
    \/ LoseClient \/ Interrupt \/ Kill \/ CoreEnds \/ Repair \/ Done

Spec == Init /\ [][Next]_vars

\* Every command of the script ends, and so does the container of create.
FairSpec == Spec /\ WF_vars(Step) /\ WF_vars(CopyEnds)
-----------------------------------------------------------------------------
(* Properties                                                              *)

\* Core's data is copied only while Core does not run and after it ended well,
\* whoever starts it in the meantime and whatever became of the script.
CopiedOffline == copier # "none" => Core \notin running /\ ~cookie

\* The script starts a consumer only when Core, if the script stopped it, has
\* been started again.
CoreFirst ==
    [][\A c \in Consumers :
          Alive /\ c \notin running /\ c \in running' => Core \notin owed']_vars

\* "Core and the previously running consumers restart before upload", which may
\* take hours; and exit status 0 means a skip before anything was stopped or an
\* uploaded copy with every service started again.  A half failed resume is
\* never reported as success.
NoHiddenOutage ==
    /\ pc = "upload" => owed = {}
    /\ pc = "exited" /\ code = "ok" => owed = {} /\ (uploaded \/ trap = "none")

\* They restart "also on copy failures" (docs/core-snapshots.md:36-38): what the
\* script stopped it starts again, whatever command failed, half done or not,
\* and whenever it was interrupted.  Only a kill, an interrupt of cleanup or a
\* command of cleanup that fails prevents it, and a copy that goes on without its
\* client: it still holds Core's lock, so that the one attempt of cleanup to start
\* Core fails at once, and nobody tries again when the copy has ended.
Resumed == (owed # {}) ~> (owed = {} \/ excused # "nothing")
=============================================================================
