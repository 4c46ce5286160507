--------------------------- MODULE SupervisorProofs ---------------------------
(***************************************************************************)
(* Theorems about the supervisor, for every length of a pass, any number   *)
(* of faults and restarts, and every interleaving of the main thread, the  *)
(* monitor, signals and Core.                                              *)
(***************************************************************************)
EXTENDS Supervisor, TLAPS

\* The labels of the main thread inside watch_disk, and those of a thread
\* that has tripped the watchdog and not yet asked Core to stop.
BodyPcs == {"body", "begin", "mode", "unsafe", "poll", "start", "operate", "passed", "failed",
            "after", "wait", "leave"}
CheckPcs == {"read", "trip", "wake", "request"}
Tripping == {"wake", "request"}
MainPcs == BodyPcs \union CheckPcs \union {"enter", "checked", "join", "exit", "exited", "killed"}
MonitorPcs == CheckPcs \union {"none", "sleep", "ended", "killed"}

SupervisorTypeOK ==
    /\ pc \in [Threads -> MainPcs \union MonitorPcs]
    /\ pc["main"] \in MainPcs /\ pc["monitor"] \in MonitorPcs
    /\ tripped \in BOOLEAN /\ finished \in BOOLEAN
    /\ requests \in Nat /\ started \in Nat

\* Which thread may be where: the main thread checks the disk before there is
\* a monitor and after the monitor has ended, a monitor lives in between, and
\* both are killed at once.
Turns ==
    /\ pc["main"] \in {"enter", "checked"} => ~finished /\ pc["monitor"] = "none"
    /\ pc["main"] \in CheckPcs => pc["monitor"] = IF finished THEN "ended" ELSE "none"
    /\ pc["main"] \in BodyPcs => ~finished /\ pc["monitor"] # "killed"
    /\ pc["main"] = "join" => finished /\ pc["monitor"] \notin {"none", "killed"}
    /\ pc["main"] \in {"exit", "exited"} => pc["monitor"] \in {"none", "ended"}
    /\ pc["main"] = "killed" => pc["monitor"] = "killed"

\* The latch: a thread that looks at the disk, or will, has not found it low;
\* one that is about to ask Core to stop is the first and the only one.
Latch ==
    /\ pc["main"] = "enter" => ~tripped
    /\ \A t \in Threads : pc[t] \in {"sleep", "read", "trip"} => ~tripped
    /\ \A t \in Threads : pc[t] \in Tripping => tripped /\ requests = 0
    /\ requests > 0 => tripped
    /\ requests <= 1

\* What main() reports.
Reported == pc["main"] = "exited" /\ tripped => code = 1

\* Only the operation whose poll came before the trip is still begun.
OneMore ==
    /\ started > 0 => tripped
    /\ pc["main"] = "start" => started = 0
    /\ started <= 1

SupervisorInv == SupervisorTypeOK /\ Turns /\ Latch /\ Reported /\ OneMore

\* Where a thread goes on.
LEMMA CheckedIs ==
    /\ Checked("monitor") = IF tripped THEN "ended" ELSE "sleep"
    /\ Checked("main") = IF finished THEN "exit" ELSE "checked"
BY DEF Checked

\* Each step of a check keeps the invariant, by either thread.
LEMMA CheckStep ==
    ASSUME SupervisorInv, NEW t \in Threads, Check(t)
    PROVE  SupervisorInv'
<1> USE DEF SupervisorInv, SupervisorTypeOK, Turns, Latch, Reported, OneMore, Threads, BodyPcs,
            CheckPcs, Tripping, MainPcs, MonitorPcs, Moves, config, events, results, counts, world
<1>0. t = "main" \/ t = "monitor"
  OBVIOUS
<1>1. CASE EnoughSpace(t)
  BY <1>0, <1>1, CheckedIs DEF EnoughSpace
<1>2. CASE LowSpace(t)
  BY <1>0, <1>2 DEF LowSpace
<1>3. CASE Trip(t)
  BY <1>0, <1>3 DEF Trip
<1>4. CASE Wake(t)
  BY <1>0, <1>4 DEF Wake
<1>5. CASE RequestStop(t)
  BY <1>0, <1>5, CheckedIs DEF RequestStop
<1> QED
  BY <1>1, <1>2, <1>3, <1>4, <1>5 DEF Check

\* The entry and the exit of watch_disk.
LEMMA WatchStep ==
    ASSUME SupervisorInv,
           Enter \/ StartMonitor \/ MonitorWakes \/ Leave \/ Join \/ Exit
    PROVE  SupervisorInv'
<1> USE DEF SupervisorInv, SupervisorTypeOK, Turns, Latch, Reported, OneMore, Threads, BodyPcs,
            CheckPcs, Tripping, MainPcs, MonitorPcs, Moves, config, events, results, counts, world
<1>1. CASE Enter
  BY <1>1 DEF Enter
<1>2. CASE StartMonitor
  BY <1>2 DEF StartMonitor
<1>3. CASE MonitorWakes
  BY <1>3 DEF MonitorWakes
<1>4. CASE Leave
  BY <1>4 DEF Leave
<1>5. CASE Join
  BY <1>5 DEF Join, Ended, LastCheck
<1>6. CASE Exit
  BY <1>6 DEF Exit, Exits
<1> QED
  BY <1>1, <1>2, <1>3, <1>4, <1>5, <1>6

\* The passes of the schedule: no operation is begun behind a poll that saw
\* the latch.
LEMMA PassStep ==
    ASSUME SupervisorInv,
           \/ Body \/ LockTaken \/ Begin \/ Mode \/ ModeUnknown \/ StopUnsafeCore
           \/ Poll \/ StartOperation \/ EndOperation
           \/ PassOver("passed", ~tripped) \/ PassOver("failed", FALSE)
           \/ After \/ Wait
    PROVE  SupervisorInv'
<1> USE DEF SupervisorInv, SupervisorTypeOK, Turns, Latch, Reported, OneMore, Threads, BodyPcs,
            CheckPcs, Tripping, MainPcs, MonitorPcs, Moves, config, events, results, counts, world
<1>1. CASE Body \/ LockTaken \/ Begin
  BY <1>1 DEF Body, LockTaken, Begin
<1>2. CASE Mode \/ ModeUnknown \/ StopUnsafeCore
  BY <1>2 DEF Mode, AfterMode, ModeUnknown, StopUnsafeCore, Refused
<1>3. CASE Poll
  BY <1>3 DEF Poll, AfterPoll, Onward
<1>4. CASE StartOperation
  BY <1>4 DEF StartOperation
<1>5. CASE EndOperation
  BY <1>5 DEF EndOperation, Refused
<1>6. CASE PassOver("passed", ~tripped) \/ PassOver("failed", FALSE)
  <2>1. /\ pc["main"] \in {"passed", "failed"}
        /\ pc' = [pc EXCEPT !["main"] = IF repeats THEN "after" ELSE "leave"]
        /\ UNCHANGED <<events, counts, code>>
    BY <1>6 DEF PassOver
  <2> QED
    BY <2>1
<1>7. CASE After \/ Wait
  BY <1>7 DEF After, Wait
<1> QED
  BY <1>1, <1>2, <1>3, <1>4, <1>5, <1>6, <1>7

\* Signals, kills, restarts, the disk and Core.
LEMMA AroundStep ==
    ASSUME SupervisorInv,
           Signal \/ Killed \/ Restart \/ SpaceChanges \/ CoreStartsOrStops \/ UNCHANGED vars
    PROVE  SupervisorInv'
<1> USE DEF SupervisorInv, SupervisorTypeOK, Turns, Latch, Reported, OneMore, Threads, BodyPcs,
            CheckPcs, Tripping, MainPcs, MonitorPcs, config, events, results, counts, world
<1>1. CASE Signal \/ SpaceChanges \/ CoreStartsOrStops \/ UNCHANGED vars
  BY <1>1 DEF Signal, SpaceChanges, CoreStartsOrStops, vars
<1>2. CASE Killed
  <2>1. pc'["main"] = "killed" /\ pc'["monitor"] = "killed" /\ UNCHANGED <<events, results, counts>>
    BY <1>2 DEF Killed
  <2>2. pc' \in [Threads -> MainPcs \union MonitorPcs]
    BY <1>2 DEF Killed
  <2> QED
    BY <2>1, <2>2
<1>3. CASE Restart
  <2>1. pc'["main"] = "enter" /\ pc'["monitor"] = "none"
    BY <1>3 DEF Restart, Fresh
  <2>2. pc' \in [Threads -> MainPcs \union MonitorPcs]
    BY <1>3 DEF Restart, Fresh
  <2>3. /\ tripped' \in BOOLEAN /\ ~tripped' /\ finished' \in BOOLEAN /\ ~finished'
        /\ requests' = 0 /\ started' = 0
    BY <1>3 DEF Restart, Fresh
  <2>4. SupervisorTypeOK' /\ Turns' /\ Reported' /\ OneMore'
    BY <2>1, <2>2, <2>3
  <2>5. Latch'
    BY <2>1, <2>3
  <2> QED
    BY <2>4, <2>5
<1> HIDE DEF SupervisorInv
<1> QED
  BY <1>1, <1>2, <1>3

\* The invariant holds of every process.
LEMMA SupervisorHolds == Spec => []SupervisorInv
<1>1. Init => SupervisorInv
  <2> SUFFICES ASSUME Init PROVE SupervisorInv
    OBVIOUS
  <2> USE DEF Threads, BodyPcs, CheckPcs, Tripping, MainPcs, MonitorPcs
  <2>1. /\ pc \in [Threads -> MainPcs \union MonitorPcs]
        /\ pc["main"] = "enter" /\ pc["monitor"] = "none"
    BY DEF Init
  <2>2. /\ tripped \in BOOLEAN /\ ~tripped /\ finished \in BOOLEAN /\ ~finished
        /\ requests = 0 /\ started = 0
    BY DEF Init
  <2>3. SupervisorTypeOK /\ Turns /\ Reported /\ OneMore
    BY <2>1, <2>2 DEF SupervisorTypeOK, Turns, Reported, OneMore
  <2>4. Latch
    BY <2>1, <2>2 DEF Latch
  <2> QED
    BY <2>3, <2>4 DEF SupervisorInv
<1>2. SupervisorInv /\ [Next]_vars => SupervisorInv'
  <2> SUFFICES ASSUME SupervisorInv, [Next]_vars PROVE SupervisorInv'
    OBVIOUS
  <2>1. "main" \in Threads /\ "monitor" \in Threads
    BY DEF Threads
  <2> QED
    BY <2>1, CheckStep, WatchStep, PassStep, AroundStep DEF Next, Main, Monitor
<1> QED
  BY <1>1, <1>2, PTL DEF Spec

\* When main() returns, the monitor is over, and a stop request of the watchdog
\* shows in the exit code (watchdog.py:53-54), whichever thread made it and
\* whatever the pass did meanwhile.
THEOREM NothingOutlivesMain == Spec => []NothingOutlives
<1>1. SupervisorInv => NothingOutlives
  BY DEF SupervisorInv, SupervisorTypeOK, Turns, Latch, Reported, NothingOutlives
<1> QED
  BY <1>1, SupervisorHolds, PTL

\* The two threads of a process ask Core at most once to stop.
THEOREM CoreIsStoppedOnce == Spec => []StopsOnce
<1>1. SupervisorInv => StopsOnce
  BY DEF SupervisorInv, Latch, StopsOnce
<1> QED
  BY <1>1, SupervisorHolds, PTL

\* After a trip a pass begins at most the operation whose poll it had passed.
THEOREM OneMoreAtMost == Spec => []AtMostOneMore
<1>1. SupervisorInv => AtMostOneMore
  BY DEF SupervisorInv, OneMore, AtMostOneMore
<1> QED
  BY <1>1, SupervisorHolds, PTL
=============================================================================
