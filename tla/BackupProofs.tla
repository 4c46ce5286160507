--------------------------- MODULE BackupProofs ---------------------------
(***************************************************************************)
(* Proofs about core-backup.sh for any consumers, any number of runs,      *)
(* failures and signals: Core's data is copied only while Core is down,    *)
(* the script reports no success and begins no upload while it owes a      *)
(* service its start, and consumers start after Core.                      *)
(***************************************************************************)
EXTENDS CoreBackup, TLAPS

\* What is owed is known to the flags that resume looks at.
FlagsTell ==
    /\ running \subseteq Services /\ consumers \subseteq Consumers
    /\ owed \subseteq Services
    /\ Core \in owed => coreStopped
    /\ owed \subseteq consumers \union {Core}
    /\ (\E c \in Consumers : c \in owed) => consumersStopped

\* Before the traps are set nothing is stopped, and cleanup begins them cleared.
TrapFits ==
    /\ trap \in {"none", "set", "cleared"}
    /\ pc = "check" => trap = "none"
    /\ pc \in {"stopConsumers", "prepare", "findCore", "stopCore", "inspect",
               "create", "copying", "upload"} => trap = "set"
    /\ pc \in {"startCore", "startConsumers"} => trap \in {"set", "cleared"}
    /\ pc = "exited" => trap # "set"
    /\ trap = "none" => ~coreStopped /\ ~consumersStopped

\* resume has passed Core before it comes to the consumers, and both before the
\* upload.
InOrder ==
    /\ pc \in {"startConsumers", "upload"} => ~coreStopped
    /\ pc = "upload" => ~consumersStopped

\* Cleanup begins with status 0 only after an upload.
CleanSuccess ==
    trap = "cleared" /\ code = "ok" =>
        uploaded /\ ~coreStopped /\ ~consumersStopped

BackupInv == CopiedOffline /\ FlagsTell /\ TrapFits /\ InOrder /\ CleanSuccess

-----------------------------------------------------------------------------
\* No service has been stopped before the first run.
LEMMA BackupStart == Init => BackupInv
  BY DEF Init, BackupInv, CopiedOffline, FlagsTell, TrapFits, InOrder, CleanSuccess

\* Every step of the script and of what happens beside it keeps the invariant.
LEMMA BackupStep == BackupInv /\ [Next]_vars => BackupInv'
<1> SUFFICES ASSUME BackupInv, [Next]_vars PROVE BackupInv'
  OBVIOUS
<1> USE BackupAssumption DEF BackupInv, CopiedOffline, FlagsTell, TrapFits,
        InOrder, CleanSuccess, Services, world, script, counts
<1>1. CASE Begin
  BY <1>1 DEF Begin, LockIsFree, Alive
<1>2. CASE Check
  BY <1>2 DEF Check, Exit, Preflight, Fails
<1>3. CASE StopConsumers
  <2>1. CopiedOffline'
    BY <1>3 DEF StopConsumers, StopServices, Exit, Proceed, Fails
  <2>2. FlagsTell'
    BY <1>3 DEF StopConsumers, StopServices, Exit, Proceed, Fails
  <2>3. TrapFits'
    <3>1. pc = "stopConsumers" /\ trap = "set"
      BY <1>3 DEF StopConsumers
    <3>2. Proceed("prepare") \/ Exit("failed")
      BY <1>3 DEF StopConsumers
    <3>3. CASE Proceed("prepare")
      BY <3>1, <3>3 DEF Proceed
    <3>4. CASE Exit("failed")
      BY <3>1, <3>4 DEF Exit
    <3>5. QED
      BY <3>2, <3>3, <3>4
  <2>4. InOrder'
    BY <1>3 DEF StopConsumers, StopServices, Exit, Proceed, Fails
  <2>5. CleanSuccess'
    BY <1>3 DEF StopConsumers, StopServices, Exit, Proceed, Fails
  <2>6. QED
    BY <2>1, <2>2, <2>3, <2>4, <2>5
<1>4. CASE Prepare
  BY <1>4 DEF Prepare, Exit, Proceed, Preflight
<1>5. CASE FindCore
  BY <1>5 DEF FindCore, Exit, Proceed, Fails
<1>6. CASE StopCore
  <2>1. CopiedOffline'
    BY <1>6 DEF StopCore, StopServices, Exit, Proceed, Fails
  <2>2. FlagsTell'
    BY <1>6 DEF StopCore, StopServices, Exit, Proceed, Fails
  <2>3. TrapFits'
    BY <1>6 DEF StopCore, StopServices, Exit, Proceed, Fails
  <2>4. InOrder'
    BY <1>6 DEF StopCore, StopServices, Exit, Proceed, Fails
  <2>5. CleanSuccess'
    BY <1>6 DEF StopCore, StopServices, Exit, Proceed, Fails
  <2>6. QED
    BY <2>1, <2>2, <2>3, <2>4, <2>5
<1>7. CASE Inspect
  BY <1>7 DEF Inspect, Exit, Proceed
<1>8. CASE Create
  BY <1>8 DEF Create, Offline, Exit, Proceed
<1>9. CASE StartCore
  <2>1. CopiedOffline'
    BY <1>9 DEF StartCore, CoreLockIsFree, StartServices, StartFails, Exit, Proceed, Fails
  <2>2. FlagsTell'
    BY <1>9 DEF StartCore, CoreLockIsFree, StartServices, StartFails, Exit, Proceed, Fails
  <2>3. TrapFits'
    BY <1>9 DEF StartCore, CoreLockIsFree, StartServices, StartFails, Exit, Proceed, Fails
  <2>4. InOrder'
    BY <1>9 DEF StartCore, CoreLockIsFree, StartServices, StartFails, Exit, Proceed, Fails
  <2>5. CleanSuccess'
    BY <1>9 DEF StartCore, CoreLockIsFree, StartServices, StartFails, Exit, Proceed, Fails
  <2>6. QED
    BY <2>1, <2>2, <2>3, <2>4, <2>5
<1>10. CASE CoreNotStopped
  BY <1>10 DEF CoreNotStopped, Proceed
<1>11. CASE StartConsumers
  <2>1. CopiedOffline'
    BY <1>11 DEF StartConsumers, StartServices, StartFails, Resume, Exit, Proceed, Fails
  <2>2. FlagsTell'
    BY <1>11 DEF StartConsumers, StartServices, StartFails, Resume, Exit, Proceed, Fails
  <2>3. TrapFits'
    BY <1>11 DEF StartConsumers, StartServices, StartFails, Resume, Exit, Proceed, Fails
  <2>4. InOrder'
    BY <1>11 DEF StartConsumers, StartServices, StartFails, Resume, Exit, Proceed, Fails
  <2>5. CleanSuccess'
    BY <1>11 DEF StartConsumers, StartServices, StartFails, Resume, Exit, Proceed, Fails
  <2>6. QED
    BY <2>1, <2>2, <2>3, <2>4, <2>5
<1>12. CASE NoConsumers
  BY <1>12 DEF NoConsumers, Resume, Exit, Proceed
<1>13. CASE Upload
  BY <1>13 DEF Upload, Exit
<1>14. CASE CopyEnds
  BY <1>14 DEF CopyEnds, Exit, Proceed
<1>15. CASE ReceiptExpires
  BY <1>15 DEF ReceiptExpires
<1>16. CASE LoseClient
  BY <1>16 DEF LoseClient, Exit, Fails
<1>17. CASE Interrupt
  BY <1>17 DEF Interrupt, Exit, Alive
<1>18. CASE Kill
  BY <1>18 DEF Kill, Alive
<1>19. CASE CoreEnds
  BY <1>19 DEF CoreEnds, Fails
<1>20. CASE Repair
  BY <1>20 DEF Repair, Alive, CoreLockIsFree, StartServices
<1>21. CASE UNCHANGED vars
  BY <1>21 DEF vars
<1>22. QED
  BY <1>1, <1>2, <1>3, <1>4, <1>5, <1>6, <1>7, <1>8, <1>9, <1>10, <1>11, <1>12, <1>13, <1>14, <1>15, <1>16, <1>17, <1>18, <1>19, <1>20, <1>21 DEF Next, Step, Done

\* The invariant holds throughout.
LEMMA BackupInvariant == Spec => []BackupInv
  BY BackupStart, BackupStep, PTL DEF Spec

\* Core's data is copied only while Core is down after a clean end.
THEOREM CopiesAreOffline == Spec => []CopiedOffline
<1>1. BackupInv => CopiedOffline
  BY DEF BackupInv
<1>2. QED
  BY <1>1, BackupInvariant, PTL

\* Neither the upload nor status 0 hides a service that the script has stopped
\* and not started again.
THEOREM OutagesAreReported == Spec => []NoHiddenOutage
<1>1. BackupInv => NoHiddenOutage
  <2> SUFFICES ASSUME BackupInv PROVE NoHiddenOutage
    OBVIOUS
  <2> USE DEF BackupInv, FlagsTell, TrapFits, InOrder, CleanSuccess
  <2>1. ASSUME ~coreStopped, ~consumersStopped PROVE owed = {}
    BY <2>1 DEF Services
  <2>2. pc = "upload" => owed = {}
    BY <2>1
  <2>3. ASSUME pc = "exited", code = "ok"
        PROVE  owed = {} /\ (uploaded \/ trap = "none")
    <3>1. CASE trap = "none"
      BY <2>1, <3>1
    <3>2. CASE trap = "cleared"
      BY <2>1, <2>3, <3>2
    <3>3. QED
      BY <2>3, <3>1, <3>2
  <2>4. QED
    BY <2>2, <2>3 DEF NoHiddenOutage
<1>2. QED
  BY <1>1, BackupInvariant, PTL

\* A consumer that the script starts finds Core started, unless the script found
\* no need to stop it.
THEOREM ConsumersAfterCore == Spec => CoreFirst
<1>1. BackupInv /\ [Next]_vars =>
        [\A c \in Consumers :
            Alive /\ c \notin running /\ c \in running' => Core \notin owed']_vars
  <2> SUFFICES ASSUME BackupInv, Next, NEW c \in Consumers, Alive,
                      c \notin running, c \in running'
               PROVE  Core \notin owed'
    BY DEF CoreFirst
  <2>1. CASE StartConsumers
    BY <2>1 DEF StartConsumers, StartServices, BackupInv, InOrder, FlagsTell
  <2>2. CASE StartCore
    BY <2>2, BackupAssumption DEF StartCore, StartServices, world
  <2>3. CASE ~StartConsumers /\ ~StartCore
    <3>1. running' \subseteq running
      BY <2>3 DEF Next, Step, Begin, LockIsFree, Check, StopConsumers, Prepare,
         FindCore, StopCore, Inspect, Create, CoreNotStopped, NoConsumers, Upload,
         CopyEnds, ReceiptExpires, LoseClient, Interrupt, Kill, CoreEnds, Repair,
         Done, StopServices, world, vars
    <3>2. QED
      BY <3>1
  <2>4. QED
    BY <2>1, <2>2, <2>3
<1>2. QED
  BY <1>1, BackupInvariant, PTL DEF Spec, CoreFirst

=============================================================================
