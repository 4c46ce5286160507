----------------------------- MODULE Supervisor -----------------------------
(***************************************************************************)
(* main() (cli.py) with the schedule of its passes (schedule.py) and the   *)
(* disk watchdog (watchdog.py): a main thread that runs passes, a monitor  *)
(* thread that checks the free space beside it, signals that ask for an    *)
(* end, and the node that both threads may stop.  The container runtime    *)
(* starts the process again after it exits, but not after an operator's    *)
(* stop (compose.yaml:89, restart: unless-stopped).                        *)
(*                                                                         *)
(* A pass is a chain of operations (archive_block, prune_archived_blocks), *)
(* each behind a poll of the watchdog's latch; what they do is the subject *)
(* of ArchivePass.  Space that cannot be measured counts as low.           *)
(***************************************************************************)
EXTENDS Integers

CONSTANTS
    MaxOps,     \* bound: operations of one pass
    MaxFaults   \* bound: failed requests, locks found taken, killed processes

ASSUME SupervisorAssumption == MaxOps \in Nat /\ MaxFaults \in Nat

VARIABLES
    repeats,    \* whether --interval is not 0; constant
    watched,    \* whether --min-free-space is not 0; constant
    prunes,     \* whether --prune-after-archive is given; constant
    pc,         \* where the main thread and the monitor thread are
    stop,       \* the event that ends the schedule
    tripped,    \* the event that latches a low disk
    finished,   \* the event that ends the monitor
    ops,        \* operations left in the pass
    succeeded,  \* what main() makes its exit code of
    code,       \* the exit code
    requests,   \* stop requests of the watchdog in this process
    started,    \* operations started since the watchdog tripped
    low,        \* the free space is below the threshold
    mode,       \* how Core prunes: "none", "manual" or "automatic"
    coreUp,     \* Core runs
    ordered,    \* an operator asked for the end
    faults      \* failures so far, see MaxFaults

config == <<repeats, watched, prunes>>
events == <<stop, tripped, finished>>
results == <<succeeded, code>>
counts == <<ops, requests, started>>
world == <<low, mode, coreUp, ordered>>
vars == <<config, pc, events, results, counts, world, faults>>

Threads == {"main", "monitor"}

Modes == {"none", "manual", "automatic"}

Fresh ==
    /\ pc' = [t \in Threads |-> IF t = "main" THEN "enter" ELSE "none"]
    /\ stop' = FALSE /\ tripped' = FALSE /\ finished' = FALSE
    /\ succeeded' = TRUE /\ code' = 0
    /\ ops' = 0 /\ requests' = 0 /\ started' = 0

Init ==
    /\ repeats \in BOOLEAN /\ watched \in BOOLEAN /\ prunes \in BOOLEAN
    /\ pc = [t \in Threads |-> IF t = "main" THEN "enter" ELSE "none"]
    /\ stop = FALSE /\ tripped = FALSE /\ finished = FALSE
    /\ succeeded = TRUE /\ code = 0
    /\ ops = 0 /\ requests = 0 /\ started = 0
    /\ low \in BOOLEAN /\ mode \in Modes /\ coreUp \in BOOLEAN
    /\ ordered = FALSE /\ faults = 0

Gone == pc["main"] \in {"exited", "killed"}

\* Thread t moves from one label to another.
Moves(t, from, to) ==
    /\ pc[t] = from
    /\ pc' = [pc EXCEPT ![t] = to]
    /\ UNCHANGED <<config, world>>

\* main() returns: its code tells whether a pass failed or the watchdog tripped.
Exits == code' = IF succeeded /\ ~tripped THEN 0 ELSE 1

\* A call to Core fails, or another process has what this one asks for.
Fails == faults < MaxFaults /\ faults' = faults + 1

\* stop_bitcoin: Core stops, or the request fails, which is only logged.
StopCore ==
    \/ coreUp' = FALSE /\ UNCHANGED faults
    \/ coreUp /\ Fails /\ UNCHANGED coreUp

-----------------------------------------------------------------------------
(* _check, called by either thread.                                        *)

\* Where a thread goes on after its check.
Checked(t) ==
    CASE t = "monitor" -> IF tripped THEN "ended" ELSE "sleep"
      [] t = "main" /\ finished -> "exit"
      [] OTHER -> "checked"

EnoughSpace(t) ==
    /\ ~low
    /\ Moves(t, "read", Checked(t))
    /\ UNCHANGED <<events, results, counts, faults>>

LowSpace(t) ==
    /\ low
    /\ Moves(t, "read", "trip")
    /\ UNCHANGED <<events, results, counts, faults>>

Trip(t) ==
    /\ Moves(t, "trip", "wake")
    /\ tripped' = TRUE
    /\ UNCHANGED <<stop, finished, results, counts, faults>>

Wake(t) ==
    /\ Moves(t, "wake", "request")
    /\ stop' = TRUE
    /\ UNCHANGED <<tripped, finished, results, counts, faults>>

RequestStop(t) ==
    /\ pc[t] = "request"
    /\ pc' = [pc EXCEPT ![t] = Checked(t)]
    /\ StopCore
    /\ requests' = requests + 1
    /\ UNCHANGED <<config, events, results, ops, started, low, mode, ordered>>

Check(t) ==
    EnoughSpace(t) \/ LowSpace(t) \/ Trip(t) \/ Wake(t) \/ RequestStop(t)

-----------------------------------------------------------------------------
(* watch_disk around the body of main().                                   *)

Enter ==
    /\ Moves("main", "enter", IF watched THEN "read" ELSE "body")
    /\ UNCHANGED <<events, results, counts, faults>>

\* Mutant of StartMonitor: the disk is checked at the ends only.
NoMonitor ==
    /\ Moves("main", "checked", "body")
    /\ UNCHANGED <<events, results, counts, faults>>

\* A watchdog that tripped at once needs no monitor.
StartMonitor ==
    /\ pc["main"] = "checked"
    /\ pc' = [pc EXCEPT !["main"] = "body",
                        !["monitor"] = IF tripped THEN "none" ELSE "sleep"]
    /\ UNCHANGED <<config, world, events, results, counts, faults>>

\* finished.wait(30) of the monitor: the end, or another check.
MonitorWakes ==
    /\ Moves("monitor", "sleep", IF finished THEN "ended" ELSE "read")
    /\ UNCHANGED <<events, results, counts, faults>>

\* The exit of watch_disk: without a monitor there is nothing to end.
Leave ==
    /\ Moves("main", "leave", IF pc["monitor"] = "none" THEN "exit" ELSE "join")
    /\ finished' = (pc["monitor"] # "none")
    /\ UNCHANGED <<stop, tripped, results, counts, faults>>

\* Mutant of Ended: the monitor is not waited for.
NotAwaited == TRUE

Ended == pc["monitor"] = "ended"

\* Mutant of LastCheck: also after the watchdog has tripped.
AlwaysChecked == "read"

\* A short pass may have ended before the monitor's first check.
LastCheck == IF tripped THEN "exit" ELSE "read"

Join ==
    /\ Ended
    /\ Moves("main", "join", LastCheck)
    /\ UNCHANGED <<events, results, counts, faults>>

Exit ==
    /\ Moves("main", "exit", "exited")
    /\ Exits
    /\ UNCHANGED <<events, succeeded, counts, faults>>

-----------------------------------------------------------------------------
(* run_repeatedly, run_pass and archive.                                   *)

\* Mutant of Stopping: only a low disk ends the schedule.
OnlyLowDisk == tripped

Stopping == stop

\* The head of the body and of the loop.
Body ==
    /\ Moves("main", "body", IF Stopping THEN "leave" ELSE "begin")
    /\ UNCHANGED <<events, results, counts, faults>>

\* The lock is taken: archive returns at once.
LockTaken ==
    /\ Moves("main", "begin", "passed")
    /\ Fails
    /\ UNCHANGED <<events, results, counts>>

Begin ==
    /\ Moves("main", "begin", IF tripped THEN "failed" ELSE "mode")
    /\ UNCHANGED <<events, results, counts, faults>>

\* Mutant of Refused: every refusal of the node's mode is an ordinary failure.
RefusedLikeAnyError == "failed"

\* A node that prunes by itself is stopped.
Refused == "unsafe"

\* require_safe_pruning: what the pass does about the mode of a node that answers.
\* One that does not prune is refused by an archiver that wants to, and left alone.
AfterMode ==
    CASE mode = "automatic" -> Refused
      [] mode = "none" /\ prunes -> "failed"
      [] OTHER -> "poll"

Mode ==
    /\ coreUp
    /\ Moves("main", "mode", AfterMode)
    /\ ops' \in IF AfterMode = "poll" THEN 0..MaxOps ELSE {ops}
    /\ UNCHANGED <<events, results, requests, started, faults>>

\* A node that cannot be asked fails the pass only.
ModeUnknown ==
    /\ Moves("main", "mode", "failed")
    /\ IF coreUp THEN Fails ELSE UNCHANGED faults
    /\ UNCHANGED <<events, results, counts>>

StopUnsafeCore ==
    /\ pc["main"] = "unsafe"
    /\ pc' = [pc EXCEPT !["main"] = "failed"]
    /\ StopCore
    /\ UNCHANGED <<config, events, results, counts, low, mode, ordered>>

\* The next operation or the end of the pass.  As a mutant of AfterPoll: the
\* latch is read once per pass, not before each operation.
Onward == IF ops = 0 THEN "passed" ELSE "start"

\* _check_cancelled.
AfterPoll == IF tripped THEN "failed" ELSE Onward

Poll ==
    /\ Moves("main", "poll", AfterPoll)
    /\ UNCHANGED <<events, results, counts, faults>>

StartOperation ==
    /\ Moves("main", "start", "operate")
    /\ ops' = ops - 1
    /\ started' = IF tripped THEN started + 1 ELSE started
    /\ UNCHANGED <<events, results, requests, faults>>

\* An operation ends well, raises, or, being a prune, finds that Core now prunes by
\* itself.  No poll follows the last prune of a pass.
EndOperation ==
    /\ \/ Moves("main", "operate", "poll")
       \/ ops = 0 /\ Moves("main", "operate", "passed")
       \/ Moves("main", "operate", "failed")
       \/ coreUp /\ mode = "automatic" /\ prunes /\ Moves("main", "operate", Refused)
    /\ UNCHANGED <<events, results, counts, faults>>

\* What run_pass returns; a failed pass of a schedule does not end it.
PassOver(label, result) ==
    /\ Moves("main", label, IF repeats THEN "after" ELSE "leave")
    /\ succeeded' = IF repeats THEN succeeded ELSE result
    /\ UNCHANGED <<events, code, counts, faults>>

After ==
    /\ Moves("main", "after", IF Stopping THEN "leave" ELSE "wait")
    /\ UNCHANGED <<events, results, counts, faults>>

\* stop.wait(interval) returns early when the event is set.
Wait ==
    /\ Moves("main", "wait", IF Stopping THEN "leave" ELSE "body")
    /\ UNCHANGED <<events, results, counts, faults>>

Main ==
    \/ Check("main")
    \/ Enter \/ StartMonitor \/ Leave \/ Join \/ Exit
    \/ Body \/ LockTaken \/ Begin \/ Mode \/ ModeUnknown \/ StopUnsafeCore
    \/ Poll \/ StartOperation \/ EndOperation
    \/ PassOver("passed", ~tripped) \/ PassOver("failed", FALSE)
    \/ After \/ Wait

Monitor == Check("monitor") \/ MonitorWakes

-----------------------------------------------------------------------------
(* What happens around the process.                                        *)

\* `docker stop`: the handler of stop_on_signals sets the event.
Signal ==
    /\ ~Gone /\ ~ordered
    /\ stop' = TRUE
    /\ ordered' = TRUE
    /\ UNCHANGED <<config, pc, tripped, finished, results, counts, low, mode, coreUp, faults>>

Killed ==
    /\ ~Gone
    /\ Fails
    /\ pc' = [t \in Threads |-> "killed"]
    /\ UNCHANGED <<config, events, results, counts, world>>

Restart ==
    /\ Gone /\ ~ordered
    /\ Fresh
    /\ UNCHANGED <<config, world, faults>>

SpaceChanges ==
    /\ low' = ~low
    /\ UNCHANGED <<config, pc, events, results, counts, mode, coreUp, ordered, faults>>

\* Nobody but an operator starts Core, in any mode of pruning.
CoreStartsOrStops ==
    /\ coreUp' = ~coreUp
    /\ mode' \in Modes
    /\ UNCHANGED <<config, pc, events, results, counts, low, ordered, faults>>

Next ==
    \/ Main \/ Monitor
    \/ Signal \/ Killed \/ Restart \/ SpaceChanges \/ CoreStartsOrStops

Spec == Init /\ [][Next]_vars

\* Threads that are not killed go on: every call has a time limit.  A process
\* that has ended is started again.
FairSpec == Spec /\ WF_vars(Main) /\ WF_vars(Monitor) /\ WF_vars(Restart)

-----------------------------------------------------------------------------

\* "no background RPC can outlive the CLI or go unreported on exit"
\* (watchdog.py:53-54): when main() returns, the monitor is over, and if the
\* watchdog asked Core to stop, the exit code says so.
NothingOutlives ==
    pc["main"] = "exited" =>
        /\ pc["monitor"] \in {"none", "ended"}
        /\ requests > 0 => code = 1

\* The watchdog latches: of all the checks of a process, by two threads, at
\* most one asks Core to stop (watchdog.py:61-82).
StopsOnce == requests <= 1

\* "An operation already in flight may finish after a trip" (watchdog.py:51-52):
\* after the watchdog tripped a pass begins at most one more operation, the one
\* whose poll it had passed.
AtMostOneMore == started <= 1

\* If the disk stays low, Core does not go on running: a failed stop request
\* is never retried by the process that made it (watchdog.py:41-44), yet that
\* process ends and its successor trips at once.
LowDiskStopsCore ==
    <>[](low /\ watched /\ ~ordered) => []<>(~coreUp)

\* A node that prunes by itself is found and stopped (cli.py:302-308), also if
\* it was started in that mode long after the archiver, and if stopping fails.
UnsafeCoreStopped == <>[](mode = "automatic" /\ ~ordered) => []<>(~coreUp)

\* SIGTERM ends the schedule, in a wait or after the pass (compose.yaml:84-86); so
\* does a low disk.  How soon is not said: there is no time in this model.
StopEnds == stop ~> Gone
=============================================================================
