----------------------------- MODULE ObBootProofs -----------------------------
(***************************************************************************)
(* What holds of Overboot from one boot to the next, whatever contents a   *)
(* configuration file may have, whatever may fail, and for every number of *)
(* reloads.                                                                *)
(*                                                                         *)
(* The properties of ObBoot look at the ends of passes and boots.  The     *)
(* inductive invariant says what holds on the way there: which variables   *)
(* belong to which place of the program (ControlOK), what each step of the *)
(* jobs has achieved (JobsOK), what a pass may rely on (PassOK), what it   *)
(* reports (OutcomeOK), how the lock ties one boot to the next (LockOK),   *)
(* what may be left of a partial configuration file (PartsOK), and which   *)
(* boots may still compose the system (BootOK).  That the boots implement  *)
(* ObSystem follows from it, one step of obinit, the user or the power at  *)
(* a time.                                                                 *)
(***************************************************************************)
EXTENDS ObBoot, TLAPS

ControlOK ==
  /\ pc = "task" => task < 12
  /\ pc = "lockWrite" => task = 2
  /\ step # "idle" => pc = "task" /\ task = 3
  /\ composed => pc \in {"loop", "os"} /\ ~reload
  /\ reload => pc \in {"undo", "loop", "load", "os"} \/ step = "failed"
  /\ pc = "load" /\ reload => maxReloads > 0

InstallSteps == {"install", "installWrite", "installRead", "installRemove"}
UpdateSteps == {"updateWrite", "updateRead", "updateRemove"}

JobsOK ==
  /\ step \in {"commitRename", "commitInfo", "commitWrite", "commitRead", "commitRemove"}
       => commitJob \in Layer
  /\ step = "commitRemove" => layer[commitJob] = "complete" \/ slipped
  /\ step \in {"update"} \cup UpdateSteps \cup InstallSteps => commitJob = None
  /\ step \in UpdateSteps => updateJob # None
  /\ step = "updateWrite" => config \in {Empty} \cup Torn
  /\ step = "updateRemove" =>
       \/ config = updateJob
       \/ error
       \/ slipped /\ config \in {Empty} \cup Torn
  /\ step \in InstallSteps => updateJob = None
  /\ step \in {"installWrite", "installRemove"} => place \in installJobs
  /\ step = "installRemove" => parts[place] = "whole" \/ place \in lost
  /\ step = "done" => ~PendingJobs
  /\ promised => commitJob # None /\ work \in {"upper", "layer"}

PassOK ==
  /\ pc \in {"lockWrite", "end"} => cfg = config
  /\ pc = "task" /\ step \notin UpdateSteps \cup {"failed"} => cfg = config
  /\ pc = "task" /\ task > 3 => ~PendingJobs
  /\ pc = "end" => ~PendingJobs /\ lock = None

OutcomeOK ==
  /\ composed => exitCode = 0 /\ lock = None
  /\ pc \in {"loop", "os"} /\ ~composed => exitCode = 1 \/ cfg \notin Enabled
  /\ ComposedIsClean
  /\ NoPartCutOff

\* A boot that failed behind the lock, with the lock left in place, is only
\* followed by boots that are stopped by it, until the file is changed.
LockOK ==
  /\ pc = "lockWrite" => cfg \in SafeMode /\ ~guarded
  /\ attempted => cfg \in SafeMode
  /\ attempted /\ guarded => lock = cfg
  /\ failed # None => failed = config
  /\ kept /\ failed # None =>
       /\ failed \in SafeMode
       /\ lock = failed /\ lockOnDisk = failed
       /\ pc \notin {"lockWrite", "end"}
       /\ pc = "task" => task < 3

\* A partial configuration file that is cut off is still to be installed, or
\* nobody noticed it.
PartsOK ==
  \A p \in Part : parts[p] \in CutOff => p \in installJobs \cup lost

\* Which boots may still compose the system: only one that was switched on, and
\* none that is closed.
BootOK ==
  /\ pc \in {"task", "lockWrite", "end", "undo"} => cfg \in Enabled
  /\ composed \/ attempted => cfg \in Enabled
  /\ pc = "loop" /\ cfg \notin Enabled => cfg = config \/ error
  /\ pc = "off" => ~error
  /\ pc = "load" => ~composed /\ (exitCode = 0 => ~error)
  /\ Closed => ~attempted /\ unsynced = {}

\* Variables that are Booleans.
BooleansOK ==
  /\ upper \in BOOLEAN /\ promised \in BOOLEAN /\ slipped \in BOOLEAN
  /\ reload \in BOOLEAN /\ error \in BOOLEAN
  /\ composed \in BOOLEAN /\ kept \in BOOLEAN
  /\ attempted \in BOOLEAN /\ guarded \in BOOLEAN /\ blocked \in BOOLEAN

IInv == TypeOK /\ ControlOK /\ JobsOK /\ PassOK /\ OutcomeOK /\ LockOK /\ PartsOK
        /\ BootOK

------------------------------------------------------------------------------

\* The places of the tasks in the list.
LEMMA TaskNames ==
  /\ Len(Tasks) = 11
  /\ \A i \in 1..11 :
       /\ Tasks[i] = "InitPersistentDevice" <=> i = 1
       /\ Tasks[i] = "InitLock" <=> i = 2
       /\ Tasks[i] = "ExecPreInitJobs" <=> i = 3
       /\ Tasks[i] = "InitOverbootDir" <=> i = 4
       /\ Tasks[i] \in MountTasks <=> i \in 5..9
       /\ Tasks[i] = "checkRollback" <=> i = 10
       /\ Tasks[i] = "UnsetLock" <=> i = 11
  BY SMT DEF Tasks, MountTasks

\* The initial state satisfies the invariant.
LEMMA InitInv == Init => IInv
<1> SUFFICES ASSUME Init PROVE IInv
  OBVIOUS
<1> USE DEF Init, JobsInit
<1>1. BooleansOK
  BY Zenon DEF BooleansOK
<1>2. JobsTypeOK
  BY <1>1, ConfigAssumption, SMT DEF JobsTypeOK, BooleansOK, Content,
      LayerState, Part, PartState
<1>3. TypeOK
  BY <1>1, <1>2, BootAssumption, TaskNames, SMT DEF TypeOK, BooleansOK
<1>4. ControlOK /\ JobsOK /\ PassOK
  BY SMT DEF ControlOK, JobsOK, PassOK, UpdateSteps
<1>5. OutcomeOK /\ LockOK
  BY SMT DEF OutcomeOK, ComposedIsClean, NoPartCutOff, LockOK
<1>6. PartsOK
  BY SMT DEF PartsOK, CutOff
<1>7. BootOK
  BY SMT DEF BootOK, Closed
<1> QED BY <1>2, <1>3, <1>4, <1>5, <1>6, <1>7 DEF IInv

\* Every step leaves a Boolean in the Boolean variables.
LEMMA BooleansPreserved == IInv /\ [Next]_vars => BooleansOK'
<1> SUFFICES ASSUME IInv, [Next]_vars PROVE BooleansOK'
  OBVIOUS
<1> USE DEF IInv, TypeOK, JobsTypeOK, BooleansOK
<1> USE DEF At, Committable, InstallFrame, NextJob, GoBehind, Succeed, Fail,
    TaskFrame, LogError, MayLogError, IgnoredFault, GoTo, TaskFails
<1> USE DEF jobsVars, diskJobs, installVars, historyVars, upperVars,
    lockVars, bootVars,
    mainVars, vars
<1>1. CASE PowerOn
  BY <1>1, Zenon DEF PowerOn
<1>2. CASE LoadContext
  BY <1>2, Zenon DEF LoadContext, LoadFiles, LoadNothing
<1>3. CASE ScanAgain
  BY <1>3, Zenon DEF ScanAgain
<1>4. CASE InitPersistentDevice
  BY <1>4, Zenon DEF InitPersistentDevice
<1>5. CASE LockNotNeeded
  BY <1>5, Zenon DEF LockNotNeeded
<1>6. CASE LockBlocks
  BY <1>6, Zenon DEF LockBlocks, LockMatches
<1>7. CASE OpenLock
  BY <1>7, Zenon DEF OpenLock, LockMatches
<1>8. CASE WriteLock
  BY <1>8, Zenon DEF WriteLock
<1>9. CASE StartJobs
  BY <1>9, Zenon DEF StartJobs
<1>10. CASE ExecJobs
  <2>1. CASE NoPendingJobs
    BY <1>10, <2>1, Zenon DEF ExecJobs, NoPendingJobs
  <2>2. CASE RemountRootRw
    BY <1>10, <2>2, Zenon DEF ExecJobs, RemountRootRw
  <2>3. CASE SkipCommit
    BY <1>10, <2>3, Zenon DEF ExecJobs, SkipCommit
  <2>4. CASE CommitRefused
    BY <1>10, <2>4, Zenon DEF ExecJobs, CommitRefused
  <2>5. CASE CommitMakeLayerDir
    BY <1>10, <2>5, Zenon DEF ExecJobs, CommitMakeLayerDir
  <2>6. CASE CommitRename
    BY <1>10, <2>6, Zenon DEF ExecJobs, CommitRename
  <2>7. CASE CommitWriteInfo
    BY <1>10, <2>7, Zenon DEF ExecJobs, CommitWriteInfo, MakeUpper
  <2>8. CASE CommitRemoveJob
    BY <1>10, <2>8, Zenon DEF ExecJobs, CommitRemoveJob
  <2>9. CASE SkipUpdate
    BY <1>10, <2>9, Zenon DEF ExecJobs, SkipUpdate
  <2>10. CASE UpdateTruncate
    BY <1>10, <2>10, Zenon DEF ExecJobs, UpdateTruncate
  <2>11. CASE UpdateWrite
    BY <1>10, <2>11, Zenon DEF ExecJobs, UpdateWrite
  <2>12. CASE UpdateRemoveJob
    BY <1>10, <2>12, Zenon DEF ExecJobs, UpdateRemoveJob
  <2>13. CASE ScanFailed
    BY <1>10, <2>13, Zenon DEF ExecJobs, ScanFailed
  <2>14. CASE InstallOpen
    BY <1>10, <2>14, Zenon DEF ExecJobs, InstallOpen
  <2>15. CASE InstallWrite
    BY <1>10, <2>15, Zenon DEF ExecJobs, InstallWrite
  <2>16. CASE InstallRemoveJob
    BY <1>10, <2>16, Zenon DEF ExecJobs, InstallRemoveJob
  <2>17. CASE InstallEnds
    BY <1>10, <2>17, Zenon DEF ExecJobs, InstallEnds
  <2>18. CASE CommitOpenInfo
    BY <1>10, <2>18, Zenon DEF ExecJobs, CommitOpenInfo
  <2>19. CASE ReadFails
    BY <1>10, <2>19, Zenon DEF ExecJobs, ReadFails, Reading
  <2>20. CASE ReadAgain
    BY <1>10, <2>20, Zenon DEF ExecJobs, ReadAgain
  <2> QED BY <1>10, <2>1, <2>2, <2>3, <2>4, <2>5, <2>6, <2>7, <2>8, <2>9,
      <2>10, <2>11, <2>12, <2>13, <2>14, <2>15, <2>16, <2>17, <2>18, <2>19, <2>20
      DEF ExecJobs, JobsStep
<1>11. CASE JobsReturn
  BY <1>11, Zenon DEF JobsReturn
<1>12. CASE InitOverbootDir
  BY <1>12, Zenon DEF InitOverbootDir, PrepareUpper, ClearedWork
<1>13. CASE InitMounts
  BY <1>13, Zenon DEF InitMounts, MountTasks
<1>14. CASE CheckRollback
  BY <1>14, Zenon DEF CheckRollback
<1>15. CASE UnsetLock
  BY <1>15, Zenon DEF UnsetLock
<1>16. CASE TasksSucceeded
  BY <1>16, Zenon DEF TasksSucceeded
<1>17. CASE Undo
  BY <1>17, Zenon DEF Undo
<1>18. CASE NextPass
  BY <1>18, Zenon DEF NextPass, Again
<1>19. CASE Exit
  BY <1>19, Zenon DEF Exit, Again
<1>20. CASE WhileRunning
  BY <1>20, Zenon DEF WhileRunning, ScheduleUpdate, ScheduleCommit,
      ScheduleInstall, CleanJobs, WriteFiles
<1>21. CASE WhileNotRunning
  BY <1>21, Zenon DEF WhileNotRunning, EditConfig
<1>22. CASE Shutdown
  BY <1>22, Zenon DEF Shutdown, ForgetProcess, RecordBoot
<1>23. CASE PowerLoss
  BY <1>23, Zenon DEF PowerLoss, ForgetProcess, RecordBoot
<1>24. CASE UNCHANGED vars
  BY <1>24, Zenon
<1> QED
  BY <1>1, <1>2, <1>3, <1>4, <1>5, <1>6, <1>7, <1>8, <1>9, <1>10, <1>11, <1>12,
      <1>13, <1>14, <1>15, <1>16, <1>17, <1>18, <1>19, <1>20, <1>21, <1>22,
      <1>23, <1>24 DEF Next, ObinitStep

\* Every step leaves the variables of the jobs in their types.
LEMMA JobsTypePreserved == IInv /\ [Next]_vars => JobsTypeOK'
<1> SUFFICES ASSUME IInv, [Next]_vars PROVE JobsTypeOK'
  OBVIOUS
<1> USE ConfigAssumption, BootAssumption, TaskNames DEF IInv, TypeOK,
    JobsTypeOK, BooleansOK, JobsOK, ControlOK, UpdateSteps
<1>0. BooleansOK'
  BY BooleansPreserved
<1> USE DEF At, Committable, InstallFrame, NextJob, GoBehind, Succeed, Fail,
    TaskFrame, LogError, MayLogError, IgnoredFault, GoTo, TaskFails, Content,
    LayerState, Part, PartState, CutOff
<1> USE DEF jobsVars, diskJobs, installVars, historyVars, upperVars,
    lockVars, bootVars,
    mainVars, vars
<1>1. CASE PowerOn
  BY <1>0, <1>1, SMT DEF PowerOn
<1>2. CASE LoadContext
  BY <1>0, <1>2, SMT DEF LoadContext, LoadFiles, LoadNothing
<1>3. CASE ScanAgain
  BY <1>0, <1>3, SMT DEF ScanAgain
<1>4. CASE InitPersistentDevice
  BY <1>0, <1>4, SMT DEF InitPersistentDevice
<1>5. CASE LockNotNeeded
  BY <1>0, <1>5, SMT DEF LockNotNeeded
<1>6. CASE LockBlocks
  BY <1>0, <1>6, SMT DEF LockBlocks, LockMatches
<1>7. CASE OpenLock
  BY <1>0, <1>7, SMT DEF OpenLock, LockMatches
<1>8. CASE WriteLock
  BY <1>0, <1>8, SMT DEF WriteLock
<1>9. CASE StartJobs
  BY <1>0, <1>9, SMT DEF StartJobs
<1>10. CASE ExecJobs
  <2>1. CASE NoPendingJobs
    BY <1>0, <1>10, <2>1, SMT DEF ExecJobs, NoPendingJobs
  <2>2. CASE RemountRootRw
    BY <1>0, <1>10, <2>2, SMT DEF ExecJobs, RemountRootRw
  <2>3. CASE SkipCommit
    BY <1>0, <1>10, <2>3, SMT DEF ExecJobs, SkipCommit
  <2>4. CASE CommitRefused
    BY <1>0, <1>10, <2>4, SMT DEF ExecJobs, CommitRefused
  <2>5. CASE CommitMakeLayerDir
    BY <1>0, <1>10, <2>5, SMT DEF ExecJobs, CommitMakeLayerDir
  <2>6. CASE CommitRename
    BY <1>0, <1>10, <2>6, SMT DEF ExecJobs, CommitRename
  <2>7. CASE CommitWriteInfo
    BY <1>0, <1>10, <2>7, SMT DEF ExecJobs, CommitWriteInfo, MakeUpper
  <2>8. CASE CommitRemoveJob
    BY <1>0, <1>10, <2>8, SMT DEF ExecJobs, CommitRemoveJob
  <2>9. CASE SkipUpdate
    BY <1>0, <1>10, <2>9, SMT DEF ExecJobs, SkipUpdate
  <2>10. CASE UpdateTruncate
    BY <1>0, <1>10, <2>10, SMT DEF ExecJobs, UpdateTruncate
  <2>11. CASE UpdateWrite
    BY <1>0, <1>10, <2>11, SMT DEF ExecJobs, UpdateWrite
  <2>12. CASE UpdateRemoveJob
    BY <1>0, <1>10, <2>12, SMT DEF ExecJobs, UpdateRemoveJob
  <2>13. CASE ScanFailed
    BY <1>0, <1>10, <2>13, SMT DEF ExecJobs, ScanFailed
  <2>14. CASE InstallOpen
    <3>1. PICK p \in Part :
            /\ NextJob(p)
            /\ \/ /\ \E state \in CutOff : parts' = [parts EXCEPT ![p] = state]
                  /\ unsynced' = unsynced \cup {p} /\ lost' = lost \ {p}
                  /\ place' = p /\ GoTo("installWrite") /\ UNCHANGED error
               \/ /\ Fault("config") /\ LogError /\ GoBehind(p)
                  /\ UNCHANGED <<parts, unsynced, lost>>
      BY <2>14 DEF InstallOpen
    <3>2. parts' \in [Part -> PartState]
      BY <3>1, SMT
    <3>3. unsynced' \subseteq Part /\ lost' \subseteq Part
      <4>1. /\ unsynced' = unsynced \cup {p} \/ unsynced' = unsynced
            /\ lost' = lost \ {p} \/ lost' = lost
        BY <3>1
      <4>2. p \in Part /\ unsynced \subseteq Part /\ lost \subseteq Part
        OBVIOUS
      <4> HIDE DEF Part
      <4> QED BY ONLY <4>1, <4>2, Zenon
    <3>4. place' \in 1..Parts + 1 /\ step' \in {"install", "installWrite"}
      BY <3>1, SMT
    <3> QED BY <1>0, <2>14, <3>2, <3>3, <3>4, SMT DEF InstallOpen
  <2>15. CASE InstallWrite
    <3>1. parts' \in [Part -> PartState] /\ place' \in 1..Parts + 1
      BY <2>15, SMT DEF InstallWrite
    <3>2. lost' \subseteq Part
      <4>1. lost' = lost \/ lost' = lost \cup {place}
        BY <2>15 DEF InstallWrite
      <4>2. lost \subseteq Part /\ place \in Part
        BY <2>15, SMT DEF InstallWrite, InstallSteps
      <4> HIDE DEF Part
      <4> QED BY ONLY <4>1, <4>2, Zenon
    <3>3. step' \in {"install", "installRemove"} /\ UNCHANGED <<installJobs, unsynced>>
      BY <2>15, SMT DEF InstallWrite
    <3> QED BY <1>0, <2>15, <3>1, <3>2, <3>3, SMT DEF InstallWrite
  <2>16. CASE InstallRemoveJob
    <3>1. place' \in 1..Parts + 1
      BY <2>16, SMT DEF InstallRemoveJob
    <3>2. installJobs' \subseteq Part
      <4>1. installJobs' = installJobs \ {place} \/ installJobs' = installJobs
        BY <2>16 DEF InstallRemoveJob
      <4>2. installJobs \subseteq Part
        OBVIOUS
      <4> HIDE DEF Part
      <4> QED BY ONLY <4>1, <4>2, Zenon
    <3>3. /\ config' \in Content /\ updateJob' \in Config \cup {None}
          /\ commitJob' \in Layer \cup {Nameless, None}
          /\ parts' \in [Part -> PartState] /\ unsynced' \subseteq Part /\ lost' \subseteq Part
          /\ layer' \in [Layer -> LayerState] /\ step' = "install" /\ cfg' \in Content
          /\ work' \in {"none", "upper", "layer", "lost"}
      BY <2>16, <1>10, SMT DEF InstallRemoveJob, ExecJobs
    <3> QED BY <1>0, <3>1, <3>2, <3>3
  <2>17. CASE InstallEnds
    BY <1>0, <1>10, <2>17, SMT DEF ExecJobs, InstallEnds
  <2>18. CASE CommitOpenInfo
    BY <1>0, <1>10, <2>18, SMT DEF ExecJobs, CommitOpenInfo
  <2>19. CASE ReadFails
    BY <1>0, <1>10, <2>19, SMT DEF ExecJobs, ReadFails, Reading
  <2>20. CASE ReadAgain
    BY <1>0, <1>10, <2>20, SMT DEF ExecJobs, ReadAgain
  <2> QED BY <1>10, <2>1, <2>2, <2>3, <2>4, <2>5, <2>6, <2>7, <2>8, <2>9,
      <2>10, <2>11, <2>12, <2>13, <2>14, <2>15, <2>16, <2>17, <2>18, <2>19, <2>20
      DEF ExecJobs, JobsStep
<1>11. CASE JobsReturn
  BY <1>0, <1>11, SMT DEF JobsReturn
<1>12. CASE InitOverbootDir
  BY <1>0, <1>12, SMT DEF InitOverbootDir, PrepareUpper, ClearedWork
<1>13. CASE InitMounts
  BY <1>0, <1>13, SMT DEF InitMounts, MountTasks
<1>14. CASE CheckRollback
  BY <1>0, <1>14, SMT DEF CheckRollback
<1>15. CASE UnsetLock
  BY <1>0, <1>15, SMT DEF UnsetLock
<1>16. CASE TasksSucceeded
  BY <1>0, <1>16, SMT DEF TasksSucceeded
<1>17. CASE Undo
  BY <1>0, <1>17, SMT DEF Undo
<1>18. CASE NextPass
  BY <1>0, <1>18, SMT DEF NextPass, Again
<1>19. CASE Exit
  BY <1>0, <1>19, SMT DEF Exit, Again
<1>20. CASE WhileRunning
  <2>1. CASE ScheduleInstall
    BY <1>0, <1>20, <2>1, SMT DEF WhileRunning, ScheduleInstall
  <2>2. CASE ScheduleUpdate
    BY <1>0, <1>20, <2>2, SMT DEF WhileRunning, ScheduleUpdate
  <2>3. CASE ScheduleCommit
    BY <1>0, <1>20, <2>3, SMT DEF WhileRunning, ScheduleCommit
  <2>4. CASE CleanJobs
    BY <1>0, <1>20, <2>4, SMT DEF WhileRunning, CleanJobs
  <2>5. CASE WriteFiles
    BY <1>0, <1>20, <2>5, SMT DEF WhileRunning, WriteFiles
  <2> QED BY <1>20, <2>1, <2>2, <2>3, <2>4, <2>5 DEF WhileRunning
<1>21. CASE WhileNotRunning
  BY <1>0, <1>21, SMT DEF WhileNotRunning, EditConfig
<1>22. CASE Shutdown
  BY <1>0, <1>22, SMT DEF Shutdown, ForgetProcess, RecordBoot
<1>23. CASE PowerLoss
  <2>1. parts' \in [Part -> PartState]
    BY <1>23, SMT DEF PowerLoss
  <2>2. lost' \subseteq Part
    <3>1. lost' = lost \cup {p \in unsynced \ installJobs : parts'[p] \in CutOff}
      BY <1>23 DEF PowerLoss
    <3> QED BY <3>1
  <2>3. config' \in Content
    BY <1>23, SMT DEF PowerLoss
  <2>4. updateJob' \in Config \cup {None} /\ commitJob' \in Layer \cup {Nameless, None}
    BY <1>23, SMT DEF PowerLoss, ForgetProcess
  <2>5. /\ installJobs' \subseteq Part /\ unsynced' = {} /\ place' \in 1..Parts + 1
        /\ layer' \in [Layer -> LayerState] /\ step' = "idle" /\ cfg' = Empty
        /\ work' \in {"none", "upper", "layer", "lost"}
    BY <1>23, SMT DEF PowerLoss, ForgetProcess
  <2> QED BY <1>0, <2>1, <2>2, <2>3, <2>4, <2>5
<1>24. CASE UNCHANGED vars
  BY <1>0, <1>24, SMT
<1> QED
  BY <1>1, <1>2, <1>3, <1>4, <1>5, <1>6, <1>7, <1>8, <1>9, <1>10, <1>11, <1>12,
      <1>13, <1>14, <1>15, <1>16, <1>17, <1>18, <1>19, <1>20, <1>21, <1>22,
      <1>23, <1>24 DEF Next, ObinitStep

\* Every step leaves all variables in their types.
LEMMA TypePreserved == IInv /\ [Next]_vars => TypeOK'
<1> SUFFICES ASSUME IInv, [Next]_vars PROVE TypeOK'
  OBVIOUS
<1> USE ConfigAssumption, BootAssumption, TaskNames DEF IInv, TypeOK,
    BooleansOK, ControlOK
<1>0. BooleansOK' /\ JobsTypeOK'
  BY BooleansPreserved, JobsTypePreserved
<1> USE DEF At, Committable, InstallFrame, NextJob, GoBehind, Succeed, Fail,
    TaskFrame, LogError, MayLogError, IgnoredFault, GoTo, TaskFails, Content
<1> USE DEF jobsVars, diskJobs, installVars, historyVars, upperVars,
    lockVars, bootVars,
    mainVars, vars
<1>1. CASE PowerOn
  BY <1>0, <1>1, SMT DEF PowerOn
<1>2. CASE LoadContext
  BY <1>0, <1>2, SMT DEF LoadContext, LoadFiles, LoadNothing
<1>3. CASE ScanAgain
  BY <1>0, <1>3, SMT DEF ScanAgain
<1>4. CASE InitPersistentDevice
  BY <1>0, <1>4, SMT DEF InitPersistentDevice
<1>5. CASE LockNotNeeded
  BY <1>0, <1>5, SMT DEF LockNotNeeded
<1>6. CASE LockBlocks
  BY <1>0, <1>6, SMT DEF LockBlocks, LockMatches
<1>7. CASE OpenLock
  BY <1>0, <1>7, SMT DEF OpenLock, LockMatches
<1>8. CASE WriteLock
  <2>1. lock' \in Content \cup {None, BadLock}
    BY <1>8, SMT DEF WriteLock, JobsTypeOK
  <2> QED BY <1>0, <2>1, <1>8, SMT DEF WriteLock
<1>9. CASE StartJobs
  BY <1>0, <1>9, SMT DEF StartJobs
<1>10. CASE ExecJobs
  <2>1. CASE NoPendingJobs
    BY <1>0, <1>10, <2>1, SMT DEF ExecJobs, NoPendingJobs
  <2>2. CASE RemountRootRw
    BY <1>0, <1>10, <2>2, SMT DEF ExecJobs, RemountRootRw
  <2>3. CASE SkipCommit
    BY <1>0, <1>10, <2>3, SMT DEF ExecJobs, SkipCommit
  <2>4. CASE CommitRefused
    BY <1>0, <1>10, <2>4, SMT DEF ExecJobs, CommitRefused
  <2>5. CASE CommitMakeLayerDir
    BY <1>0, <1>10, <2>5, SMT DEF ExecJobs, CommitMakeLayerDir
  <2>6. CASE CommitRename
    BY <1>0, <1>10, <2>6, SMT DEF ExecJobs, CommitRename
  <2>7. CASE CommitWriteInfo
    BY <1>0, <1>10, <2>7, SMT DEF ExecJobs, CommitWriteInfo, MakeUpper
  <2>8. CASE CommitRemoveJob
    BY <1>0, <1>10, <2>8, SMT DEF ExecJobs, CommitRemoveJob
  <2>9. CASE SkipUpdate
    BY <1>0, <1>10, <2>9, SMT DEF ExecJobs, SkipUpdate
  <2>10. CASE UpdateTruncate
    BY <1>0, <1>10, <2>10, SMT DEF ExecJobs, UpdateTruncate
  <2>11. CASE UpdateWrite
    BY <1>0, <1>10, <2>11, SMT DEF ExecJobs, UpdateWrite
  <2>12. CASE UpdateRemoveJob
    BY <1>0, <1>10, <2>12, SMT DEF ExecJobs, UpdateRemoveJob
  <2>13. CASE ScanFailed
    BY <1>0, <1>10, <2>13, SMT DEF ExecJobs, ScanFailed
  <2>14. CASE InstallOpen
    BY <1>0, <1>10, <2>14, SMT DEF ExecJobs, InstallOpen
  <2>15. CASE InstallWrite
    BY <1>0, <1>10, <2>15, SMT DEF ExecJobs, InstallWrite
  <2>16. CASE InstallRemoveJob
    BY <1>0, <1>10, <2>16, SMT DEF ExecJobs, InstallRemoveJob
  <2>17. CASE InstallEnds
    BY <1>0, <1>10, <2>17, SMT DEF ExecJobs, InstallEnds
  <2>18. CASE CommitOpenInfo
    BY <1>0, <1>10, <2>18, SMT DEF ExecJobs, CommitOpenInfo
  <2>19. CASE ReadFails
    BY <1>0, <1>10, <2>19, SMT DEF ExecJobs, ReadFails, Reading
  <2>20. CASE ReadAgain
    BY <1>0, <1>10, <2>20, SMT DEF ExecJobs, ReadAgain
  <2> QED BY <1>10, <2>1, <2>2, <2>3, <2>4, <2>5, <2>6, <2>7, <2>8, <2>9,
      <2>10, <2>11, <2>12, <2>13, <2>14, <2>15, <2>16, <2>17, <2>18, <2>19, <2>20
      DEF ExecJobs, JobsStep
<1>11. CASE JobsReturn
  BY <1>0, <1>11, SMT DEF JobsReturn
<1>12. CASE InitOverbootDir
  BY <1>0, <1>12, SMT DEF InitOverbootDir, PrepareUpper, ClearedWork
<1>13. CASE InitMounts
  BY <1>0, <1>13, SMT DEF InitMounts, MountTasks
<1>14. CASE CheckRollback
  BY <1>0, <1>14, SMT DEF CheckRollback
<1>15. CASE UnsetLock
  BY <1>0, <1>15, SMT DEF UnsetLock
<1>16. CASE TasksSucceeded
  BY <1>0, <1>16, SMT DEF TasksSucceeded
<1>17. CASE Undo
  BY <1>0, <1>17, SMT DEF Undo
<1>18. CASE NextPass
  BY <1>0, <1>18, SMT DEF NextPass, Again
<1>19. CASE Exit
  BY <1>0, <1>19, SMT DEF Exit, Again
<1>20. CASE WhileRunning
  BY <1>0, <1>20, SMT DEF WhileRunning, ScheduleUpdate, ScheduleCommit,
      ScheduleInstall, CleanJobs, WriteFiles
<1>21. CASE WhileNotRunning
  BY <1>0, <1>21, SMT DEF WhileNotRunning, EditConfig
<1>22. CASE Shutdown
  <2>1. failed' \in Content \cup {None}
    BY <1>22, SMT DEF Shutdown, RecordBoot, JobsTypeOK
  <2> QED BY <1>0, <2>1, <1>22, SMT DEF Shutdown, ForgetProcess
<1>23. CASE PowerLoss
  <2>1. failed' \in Content \cup {None}
    BY <1>23, SMT DEF PowerLoss, RecordBoot, JobsTypeOK
  <2>2. lock' \in Content \cup {None, BadLock} /\ lockOnDisk' = lock'
    BY <1>23, SMT DEF PowerLoss
  <2> QED BY <1>0, <2>1, <2>2, <1>23, SMT DEF PowerLoss, ForgetProcess
<1>24. CASE UNCHANGED vars
  BY <1>0, <1>24, SMT
<1> QED
  BY <1>1, <1>2, <1>3, <1>4, <1>5, <1>6, <1>7, <1>8, <1>9, <1>10, <1>11, <1>12,
      <1>13, <1>14, <1>15, <1>16, <1>17, <1>18, <1>19, <1>20, <1>21, <1>22,
      <1>23, <1>24 DEF Next, ObinitStep

\* Every step leaves the program at a place its variables agree with.
LEMMA ControlPreserved == IInv /\ [Next]_vars => ControlOK'
<1> SUFFICES ASSUME IInv, [Next]_vars PROVE ControlOK'
  OBVIOUS
<1> USE ConfigAssumption, BootAssumption, TaskNames DEF IInv, TypeOK,
    JobsTypeOK, ControlOK
<1> USE DEF At, Committable, InstallFrame, NextJob, GoBehind, Succeed, Fail,
    TaskFrame, LogError, MayLogError, IgnoredFault, GoTo, TaskFails
<1> USE DEF jobsVars, diskJobs, installVars, historyVars, upperVars,
    lockVars, bootVars,
    mainVars, vars
<1>1. CASE PowerOn
  BY <1>1, SMT DEF PowerOn
<1>2. CASE LoadContext
  BY <1>2, SMT DEF LoadContext, LoadFiles, LoadNothing
<1>3. CASE ScanAgain
  BY <1>3, SMT DEF ScanAgain
<1>4. CASE InitPersistentDevice
  BY <1>4, SMT DEF InitPersistentDevice
<1>5. CASE LockNotNeeded
  BY <1>5, SMT DEF LockNotNeeded
<1>6. CASE LockBlocks
  BY <1>6, SMT DEF LockBlocks, LockMatches
<1>7. CASE OpenLock
  BY <1>7, SMT DEF OpenLock, LockMatches
<1>8. CASE WriteLock
  BY <1>8, SMT DEF WriteLock
<1>9. CASE StartJobs
  BY <1>9, SMT DEF StartJobs
<1>10. CASE ExecJobs
  <2>1. CASE NoPendingJobs
    BY <1>10, <2>1, SMT DEF ExecJobs, NoPendingJobs
  <2>2. CASE RemountRootRw
    BY <1>10, <2>2, SMT DEF ExecJobs, RemountRootRw
  <2>3. CASE SkipCommit
    BY <1>10, <2>3, SMT DEF ExecJobs, SkipCommit
  <2>4. CASE CommitRefused
    BY <1>10, <2>4, SMT DEF ExecJobs, CommitRefused
  <2>5. CASE CommitMakeLayerDir
    BY <1>10, <2>5, SMT DEF ExecJobs, CommitMakeLayerDir
  <2>6. CASE CommitRename
    BY <1>10, <2>6, SMT DEF ExecJobs, CommitRename
  <2>7. CASE CommitWriteInfo
    BY <1>10, <2>7, SMT DEF ExecJobs, CommitWriteInfo, MakeUpper
  <2>8. CASE CommitRemoveJob
    BY <1>10, <2>8, SMT DEF ExecJobs, CommitRemoveJob
  <2>9. CASE SkipUpdate
    BY <1>10, <2>9, SMT DEF ExecJobs, SkipUpdate
  <2>10. CASE UpdateTruncate
    BY <1>10, <2>10, SMT DEF ExecJobs, UpdateTruncate
  <2>11. CASE UpdateWrite
    BY <1>10, <2>11, SMT DEF ExecJobs, UpdateWrite
  <2>12. CASE UpdateRemoveJob
    BY <1>10, <2>12, SMT DEF ExecJobs, UpdateRemoveJob
  <2>13. CASE ScanFailed
    BY <1>10, <2>13, SMT DEF ExecJobs, ScanFailed
  <2>14. CASE InstallOpen
    BY <1>10, <2>14, SMT DEF ExecJobs, InstallOpen
  <2>15. CASE InstallWrite
    BY <1>10, <2>15, SMT DEF ExecJobs, InstallWrite
  <2>16. CASE InstallRemoveJob
    BY <1>10, <2>16, SMT DEF ExecJobs, InstallRemoveJob
  <2>17. CASE InstallEnds
    BY <1>10, <2>17, SMT DEF ExecJobs, InstallEnds
  <2>18. CASE CommitOpenInfo
    BY <1>10, <2>18, SMT DEF ExecJobs, CommitOpenInfo
  <2>19. CASE ReadFails
    BY <1>10, <2>19, SMT DEF ExecJobs, ReadFails, Reading
  <2>20. CASE ReadAgain
    BY <1>10, <2>20, SMT DEF ExecJobs, ReadAgain
  <2> QED BY <1>10, <2>1, <2>2, <2>3, <2>4, <2>5, <2>6, <2>7, <2>8, <2>9,
      <2>10, <2>11, <2>12, <2>13, <2>14, <2>15, <2>16, <2>17, <2>18, <2>19, <2>20
      DEF ExecJobs, JobsStep
<1>11. CASE JobsReturn
  BY <1>11, SMT DEF JobsReturn
<1>12. CASE InitOverbootDir
  BY <1>12, SMT DEF InitOverbootDir, PrepareUpper, ClearedWork
<1>13. CASE InitMounts
  BY <1>13, SMT DEF InitMounts, MountTasks
<1>14. CASE CheckRollback
  BY <1>14, SMT DEF CheckRollback
<1>15. CASE UnsetLock
  BY <1>15, SMT DEF UnsetLock
<1>16. CASE TasksSucceeded
  BY <1>16, SMT DEF TasksSucceeded
<1>17. CASE Undo
  BY <1>17, SMT DEF Undo
<1>18. CASE NextPass
  BY <1>18, SMT DEF NextPass, Again
<1>19. CASE Exit
  BY <1>19, SMT DEF Exit, Again
<1>20. CASE WhileRunning
  BY <1>20, SMT DEF WhileRunning, ScheduleUpdate, ScheduleCommit,
      ScheduleInstall, CleanJobs, WriteFiles
<1>21. CASE WhileNotRunning
  BY <1>21, SMT DEF WhileNotRunning, EditConfig
<1>22. CASE Shutdown
  BY <1>22, SMT DEF Shutdown, ForgetProcess, RecordBoot
<1>23. CASE PowerLoss
  BY <1>23, SMT DEF PowerLoss, ForgetProcess, RecordBoot
<1>24. CASE UNCHANGED vars
  BY <1>24, SMT
<1> QED
  BY <1>1, <1>2, <1>3, <1>4, <1>5, <1>6, <1>7, <1>8, <1>9, <1>10, <1>11, <1>12,
      <1>13, <1>14, <1>15, <1>16, <1>17, <1>18, <1>19, <1>20, <1>21, <1>22,
      <1>23, <1>24 DEF Next, ObinitStep

\* No step of the jobs is taken before what it relies on was done.
LEMMA JobsPreserved == IInv /\ [Next]_vars => JobsOK'
<1> SUFFICES ASSUME IInv, [Next]_vars PROVE JobsOK'
  OBVIOUS
<1> USE ConfigAssumption, BootAssumption, TaskNames DEF IInv, TypeOK,
    JobsTypeOK, ControlOK, JobsOK, PassOK, UpdateSteps
<1> USE DEF At, Committable, InstallFrame, NextJob, GoBehind, Succeed, Fail,
    TaskFrame, LogError, MayLogError, IgnoredFault, GoTo, TaskFails,
    PendingJobs, InstallSteps
<1> USE DEF jobsVars, diskJobs, installVars, historyVars, upperVars,
    lockVars, bootVars,
    mainVars, vars
<1>1. CASE PowerOn
  BY <1>1, SMT DEF PowerOn
<1>2. CASE LoadContext
  BY <1>2, SMT DEF LoadContext, LoadFiles, LoadNothing
<1>3. CASE ScanAgain
  BY <1>3, SMT DEF ScanAgain
<1>4. CASE InitPersistentDevice
  BY <1>4, SMT DEF InitPersistentDevice
<1>5. CASE LockNotNeeded
  BY <1>5, SMT DEF LockNotNeeded
<1>6. CASE LockBlocks
  BY <1>6, SMT DEF LockBlocks, LockMatches
<1>7. CASE OpenLock
  BY <1>7, SMT DEF OpenLock, LockMatches
<1>8. CASE WriteLock
  BY <1>8, SMT DEF WriteLock
<1>9. CASE StartJobs
  BY <1>9, SMT DEF StartJobs
<1>10. CASE ExecJobs
  <2>1. CASE NoPendingJobs
    BY <1>10, <2>1, SMT DEF ExecJobs, NoPendingJobs
  <2>2. CASE RemountRootRw
    BY <1>10, <2>2, SMT DEF ExecJobs, RemountRootRw
  <2>3. CASE SkipCommit
    BY <1>10, <2>3, SMT DEF ExecJobs, SkipCommit
  <2>4. CASE CommitRefused
    BY <1>10, <2>4, SMT DEF ExecJobs, CommitRefused
  <2>5. CASE CommitMakeLayerDir
    BY <1>10, <2>5, SMT DEF ExecJobs, CommitMakeLayerDir
  <2>6. CASE CommitRename
    BY <1>10, <2>6, SMT DEF ExecJobs, CommitRename
  <2>7. CASE CommitWriteInfo
    BY <1>10, <2>7, SMT DEF ExecJobs, CommitWriteInfo, MakeUpper
  <2>8. CASE CommitRemoveJob
    BY <1>10, <2>8, SMT DEF ExecJobs, CommitRemoveJob
  <2>9. CASE SkipUpdate
    BY <1>10, <2>9, SMT DEF ExecJobs, SkipUpdate
  <2>10. CASE UpdateTruncate
    BY <1>10, <2>10, SMT DEF ExecJobs, UpdateTruncate
  <2>11. CASE UpdateWrite
    BY <1>10, <2>11, SMT DEF ExecJobs, UpdateWrite
  <2>12. CASE UpdateRemoveJob
    BY <1>10, <2>12, SMT DEF ExecJobs, UpdateRemoveJob
  <2>13. CASE ScanFailed
    BY <1>10, <2>13, SMT DEF ExecJobs, ScanFailed
  <2>14. CASE InstallOpen
    BY <1>10, <2>14, SMT DEF ExecJobs, InstallOpen
  <2>15. CASE InstallWrite
    BY <1>10, <2>15, SMT DEF ExecJobs, InstallWrite
  <2>16. CASE InstallRemoveJob
    BY <1>10, <2>16, SMT DEF ExecJobs, InstallRemoveJob
  <2>17. CASE InstallEnds
    BY <1>10, <2>17, SMT DEF ExecJobs, InstallEnds
  <2>18. CASE CommitOpenInfo
    BY <1>10, <2>18, SMT DEF ExecJobs, CommitOpenInfo
  <2>19. CASE ReadFails
    BY <1>10, <2>19, SMT DEF ExecJobs, ReadFails, Reading
  <2>20. CASE ReadAgain
    BY <1>10, <2>20, SMT DEF ExecJobs, ReadAgain
  <2> QED BY <1>10, <2>1, <2>2, <2>3, <2>4, <2>5, <2>6, <2>7, <2>8, <2>9,
      <2>10, <2>11, <2>12, <2>13, <2>14, <2>15, <2>16, <2>17, <2>18, <2>19, <2>20
      DEF ExecJobs, JobsStep
<1>11. CASE JobsReturn
  BY <1>11, SMT DEF JobsReturn
<1>12. CASE InitOverbootDir
  BY <1>12, SMT DEF InitOverbootDir, PrepareUpper, ClearedWork
<1>13. CASE InitMounts
  BY <1>13, SMT DEF InitMounts, MountTasks
<1>14. CASE CheckRollback
  BY <1>14, SMT DEF CheckRollback
<1>15. CASE UnsetLock
  BY <1>15, SMT DEF UnsetLock
<1>16. CASE TasksSucceeded
  BY <1>16, SMT DEF TasksSucceeded
<1>17. CASE Undo
  BY <1>17, SMT DEF Undo
<1>18. CASE NextPass
  BY <1>18, SMT DEF NextPass, Again
<1>19. CASE Exit
  BY <1>19, SMT DEF Exit, Again
<1>20. CASE WhileRunning
  BY <1>20, SMT DEF WhileRunning, ScheduleUpdate, ScheduleCommit,
      ScheduleInstall, CleanJobs, WriteFiles
<1>21. CASE WhileNotRunning
  BY <1>21, SMT DEF WhileNotRunning, EditConfig
<1>22. CASE Shutdown
  BY <1>22, SMT DEF Shutdown, ForgetProcess, RecordBoot
<1>23. CASE PowerLoss
  BY <1>23, SMT DEF PowerLoss, ForgetProcess, RecordBoot
<1>24. CASE UNCHANGED vars
  BY <1>24, SMT
<1> QED
  BY <1>1, <1>2, <1>3, <1>4, <1>5, <1>6, <1>7, <1>8, <1>9, <1>10, <1>11, <1>12,
      <1>13, <1>14, <1>15, <1>16, <1>17, <1>18, <1>19, <1>20, <1>21, <1>22,
      <1>23, <1>24 DEF Next, ObinitStep

\* A pass keeps the configuration it was started with and, behind the jobs, has
\* none left.
LEMMA PassPreserved == IInv /\ [Next]_vars => PassOK'
<1> SUFFICES ASSUME IInv, [Next]_vars PROVE PassOK'
  OBVIOUS
<1> USE ConfigAssumption, BootAssumption, TaskNames DEF IInv, TypeOK,
    JobsTypeOK, ControlOK, JobsOK, PassOK, UpdateSteps
<1> USE DEF At, Committable, InstallFrame, NextJob, GoBehind, Succeed, Fail,
    TaskFrame, LogError, MayLogError, IgnoredFault, GoTo, TaskFails,
    PendingJobs
<1> USE DEF jobsVars, diskJobs, installVars, historyVars, upperVars,
    lockVars, bootVars,
    mainVars, vars
<1>1. CASE PowerOn
  BY <1>1, SMT DEF PowerOn
<1>2. CASE LoadContext
  BY <1>2, SMT DEF LoadContext, LoadFiles, LoadNothing
<1>3. CASE ScanAgain
  BY <1>3, SMT DEF ScanAgain
<1>4. CASE InitPersistentDevice
  BY <1>4, SMT DEF InitPersistentDevice
<1>5. CASE LockNotNeeded
  BY <1>5, SMT DEF LockNotNeeded
<1>6. CASE LockBlocks
  BY <1>6, SMT DEF LockBlocks, LockMatches
<1>7. CASE OpenLock
  BY <1>7, SMT DEF OpenLock, LockMatches
<1>8. CASE WriteLock
  BY <1>8, SMT DEF WriteLock
<1>9. CASE StartJobs
  BY <1>9, SMT DEF StartJobs
<1>10. CASE ExecJobs
  <2>1. CASE NoPendingJobs
    BY <1>10, <2>1, SMT DEF ExecJobs, NoPendingJobs
  <2>2. CASE RemountRootRw
    BY <1>10, <2>2, SMT DEF ExecJobs, RemountRootRw
  <2>3. CASE SkipCommit
    BY <1>10, <2>3, SMT DEF ExecJobs, SkipCommit
  <2>4. CASE CommitRefused
    BY <1>10, <2>4, SMT DEF ExecJobs, CommitRefused
  <2>5. CASE CommitMakeLayerDir
    BY <1>10, <2>5, SMT DEF ExecJobs, CommitMakeLayerDir
  <2>6. CASE CommitRename
    BY <1>10, <2>6, SMT DEF ExecJobs, CommitRename
  <2>7. CASE CommitWriteInfo
    BY <1>10, <2>7, SMT DEF ExecJobs, CommitWriteInfo, MakeUpper
  <2>8. CASE CommitRemoveJob
    BY <1>10, <2>8, SMT DEF ExecJobs, CommitRemoveJob
  <2>9. CASE SkipUpdate
    BY <1>10, <2>9, SMT DEF ExecJobs, SkipUpdate
  <2>10. CASE UpdateTruncate
    BY <1>10, <2>10, SMT DEF ExecJobs, UpdateTruncate
  <2>11. CASE UpdateWrite
    BY <1>10, <2>11, SMT DEF ExecJobs, UpdateWrite
  <2>12. CASE UpdateRemoveJob
    BY <1>10, <2>12, SMT DEF ExecJobs, UpdateRemoveJob
  <2>13. CASE ScanFailed
    BY <1>10, <2>13, SMT DEF ExecJobs, ScanFailed
  <2>14. CASE InstallOpen
    BY <1>10, <2>14, SMT DEF ExecJobs, InstallOpen
  <2>15. CASE InstallWrite
    BY <1>10, <2>15, SMT DEF ExecJobs, InstallWrite
  <2>16. CASE InstallRemoveJob
    BY <1>10, <2>16, SMT DEF ExecJobs, InstallRemoveJob
  <2>17. CASE InstallEnds
    BY <1>10, <2>17, SMT DEF ExecJobs, InstallEnds
  <2>18. CASE CommitOpenInfo
    BY <1>10, <2>18, SMT DEF ExecJobs, CommitOpenInfo
  <2>19. CASE ReadFails
    BY <1>10, <2>19, SMT DEF ExecJobs, ReadFails, Reading
  <2>20. CASE ReadAgain
    BY <1>10, <2>20, SMT DEF ExecJobs, ReadAgain
  <2> QED BY <1>10, <2>1, <2>2, <2>3, <2>4, <2>5, <2>6, <2>7, <2>8, <2>9,
      <2>10, <2>11, <2>12, <2>13, <2>14, <2>15, <2>16, <2>17, <2>18, <2>19, <2>20
      DEF ExecJobs, JobsStep
<1>11. CASE JobsReturn
  BY <1>11, SMT DEF JobsReturn
<1>12. CASE InitOverbootDir
  BY <1>12, SMT DEF InitOverbootDir, PrepareUpper, ClearedWork
<1>13. CASE InitMounts
  BY <1>13, SMT DEF InitMounts, MountTasks
<1>14. CASE CheckRollback
  BY <1>14, SMT DEF CheckRollback
<1>15. CASE UnsetLock
  BY <1>15, SMT DEF UnsetLock
<1>16. CASE TasksSucceeded
  BY <1>16, SMT DEF TasksSucceeded
<1>17. CASE Undo
  BY <1>17, SMT DEF Undo
<1>18. CASE NextPass
  BY <1>18, SMT DEF NextPass, Again
<1>19. CASE Exit
  BY <1>19, SMT DEF Exit, Again
<1>20. CASE WhileRunning
  BY <1>20, SMT DEF WhileRunning, ScheduleUpdate, ScheduleCommit,
      ScheduleInstall, CleanJobs, WriteFiles
<1>21. CASE WhileNotRunning
  BY <1>21, SMT DEF WhileNotRunning, EditConfig
<1>22. CASE Shutdown
  BY <1>22, SMT DEF Shutdown, ForgetProcess, RecordBoot
<1>23. CASE PowerLoss
  BY <1>23, SMT DEF PowerLoss, ForgetProcess, RecordBoot
<1>24. CASE UNCHANGED vars
  BY <1>24, SMT
<1> QED
  BY <1>1, <1>2, <1>3, <1>4, <1>5, <1>6, <1>7, <1>8, <1>9, <1>10, <1>11, <1>12,
      <1>13, <1>14, <1>15, <1>16, <1>17, <1>18, <1>19, <1>20, <1>21, <1>22,
      <1>23, <1>24 DEF Next, ObinitStep

\* What obinit reports is what it did.
LEMMA OutcomePreserved == IInv /\ [Next]_vars => OutcomeOK'
<1> SUFFICES ASSUME IInv, [Next]_vars PROVE OutcomeOK'
  OBVIOUS
<1> USE ConfigAssumption, BootAssumption, TaskNames DEF IInv, TypeOK,
    JobsTypeOK, ControlOK, PassOK, OutcomeOK, PartsOK, UpdateSteps
<1> USE DEF At, Committable, InstallFrame, NextJob, GoBehind, Succeed, Fail,
    TaskFrame, LogError, MayLogError, IgnoredFault, GoTo, TaskFails,
    PendingJobs, ComposedIsClean, NoPartCutOff
<1> USE DEF jobsVars, diskJobs, installVars, historyVars, upperVars,
    lockVars, bootVars,
    mainVars, vars
<1>1. CASE PowerOn
  BY <1>1, SMT DEF PowerOn
<1>2. CASE LoadContext
  BY <1>2, SMT DEF LoadContext, LoadFiles, LoadNothing
<1>3. CASE ScanAgain
  BY <1>3, SMT DEF ScanAgain
<1>4. CASE InitPersistentDevice
  BY <1>4, SMT DEF InitPersistentDevice
<1>5. CASE LockNotNeeded
  BY <1>5, SMT DEF LockNotNeeded
<1>6. CASE LockBlocks
  BY <1>6, SMT DEF LockBlocks, LockMatches
<1>7. CASE OpenLock
  BY <1>7, SMT DEF OpenLock, LockMatches
<1>8. CASE WriteLock
  BY <1>8, SMT DEF WriteLock
<1>9. CASE StartJobs
  BY <1>9, SMT DEF StartJobs
<1>10. CASE ExecJobs
  <2>1. CASE NoPendingJobs
    BY <1>10, <2>1, SMT DEF ExecJobs, NoPendingJobs
  <2>2. CASE RemountRootRw
    BY <1>10, <2>2, SMT DEF ExecJobs, RemountRootRw
  <2>3. CASE SkipCommit
    BY <1>10, <2>3, SMT DEF ExecJobs, SkipCommit
  <2>4. CASE CommitRefused
    BY <1>10, <2>4, SMT DEF ExecJobs, CommitRefused
  <2>5. CASE CommitMakeLayerDir
    BY <1>10, <2>5, SMT DEF ExecJobs, CommitMakeLayerDir
  <2>6. CASE CommitRename
    BY <1>10, <2>6, SMT DEF ExecJobs, CommitRename
  <2>7. CASE CommitWriteInfo
    BY <1>10, <2>7, SMT DEF ExecJobs, CommitWriteInfo, MakeUpper
  <2>8. CASE CommitRemoveJob
    BY <1>10, <2>8, SMT DEF ExecJobs, CommitRemoveJob
  <2>9. CASE SkipUpdate
    BY <1>10, <2>9, SMT DEF ExecJobs, SkipUpdate
  <2>10. CASE UpdateTruncate
    BY <1>10, <2>10, SMT DEF ExecJobs, UpdateTruncate
  <2>11. CASE UpdateWrite
    BY <1>10, <2>11, SMT DEF ExecJobs, UpdateWrite
  <2>12. CASE UpdateRemoveJob
    BY <1>10, <2>12, SMT DEF ExecJobs, UpdateRemoveJob
  <2>13. CASE ScanFailed
    BY <1>10, <2>13, SMT DEF ExecJobs, ScanFailed
  <2>14. CASE InstallOpen
    BY <1>10, <2>14, SMT DEF ExecJobs, InstallOpen
  <2>15. CASE InstallWrite
    BY <1>10, <2>15, SMT DEF ExecJobs, InstallWrite
  <2>16. CASE InstallRemoveJob
    BY <1>10, <2>16, SMT DEF ExecJobs, InstallRemoveJob
  <2>17. CASE InstallEnds
    BY <1>10, <2>17, SMT DEF ExecJobs, InstallEnds
  <2>18. CASE CommitOpenInfo
    BY <1>10, <2>18, SMT DEF ExecJobs, CommitOpenInfo
  <2>19. CASE ReadFails
    BY <1>10, <2>19, SMT DEF ExecJobs, ReadFails, Reading
  <2>20. CASE ReadAgain
    BY <1>10, <2>20, SMT DEF ExecJobs, ReadAgain
  <2> QED BY <1>10, <2>1, <2>2, <2>3, <2>4, <2>5, <2>6, <2>7, <2>8, <2>9,
      <2>10, <2>11, <2>12, <2>13, <2>14, <2>15, <2>16, <2>17, <2>18, <2>19, <2>20
      DEF ExecJobs, JobsStep
<1>11. CASE JobsReturn
  BY <1>11, SMT DEF JobsReturn
<1>12. CASE InitOverbootDir
  BY <1>12, SMT DEF InitOverbootDir, PrepareUpper, ClearedWork
<1>13. CASE InitMounts
  BY <1>13, SMT DEF InitMounts, MountTasks
<1>14. CASE CheckRollback
  BY <1>14, SMT DEF CheckRollback
<1>15. CASE UnsetLock
  BY <1>15, SMT DEF UnsetLock
<1>16. CASE TasksSucceeded
  <2>1. CASE error
    BY <1>16, <2>1, SMT DEF TasksSucceeded
  <2>2. CASE ~error
    <3>1. composed'
      BY <1>16, <2>2, Zenon DEF TasksSucceeded
    <3>2. exitCode' = 0 /\ lock' = None /\ ~error' /\ cfg' = config' /\ ~PendingJobs'
      BY <1>16, <2>2, SMT DEF TasksSucceeded
    <3>3. NoPartCutOff'
      BY <1>16, <2>2, SMT DEF TasksSucceeded, PartsOK, NoPartCutOff
    <3> QED BY <3>1, <3>2, <3>3, Zenon
  <2> QED BY <2>1, <2>2
<1>17. CASE Undo
  BY <1>17, SMT DEF Undo
<1>18. CASE NextPass
  BY <1>18, SMT DEF NextPass, Again
<1>19. CASE Exit
  BY <1>19, SMT DEF Exit, Again
<1>20. CASE WhileRunning
  BY <1>20, SMT DEF WhileRunning, ScheduleUpdate, ScheduleCommit,
      ScheduleInstall, CleanJobs, WriteFiles
<1>21. CASE WhileNotRunning
  BY <1>21, SMT DEF WhileNotRunning, EditConfig
<1>22. CASE Shutdown
  BY <1>22, SMT DEF Shutdown, ForgetProcess, RecordBoot
<1>23. CASE PowerLoss
  BY <1>23, SMT DEF PowerLoss, ForgetProcess, RecordBoot
<1>24. CASE UNCHANGED vars
  BY <1>24, SMT
<1> QED
  BY <1>1, <1>2, <1>3, <1>4, <1>5, <1>6, <1>7, <1>8, <1>9, <1>10, <1>11, <1>12,
      <1>13, <1>14, <1>15, <1>16, <1>17, <1>18, <1>19, <1>20, <1>21, <1>22,
      <1>23, <1>24 DEF Next, ObinitStep

\* The lock of a failed boot stays until the file is changed.
LEMMA LockPreserved == IInv /\ [Next]_vars => LockOK'
<1> SUFFICES ASSUME IInv, [Next]_vars PROVE LockOK'
  OBVIOUS
<1> USE ConfigAssumption, BootAssumption, TaskNames DEF IInv, TypeOK,
    JobsTypeOK, ControlOK, PassOK, LockOK, UpdateSteps
<1> USE DEF At, Committable, InstallFrame, NextJob, GoBehind, Succeed, Fail,
    TaskFrame, LogError, MayLogError, IgnoredFault, GoTo, TaskFails
<1> USE DEF jobsVars, diskJobs, installVars, historyVars, upperVars,
    lockVars, bootVars,
    mainVars, vars
<1>1. CASE PowerOn
  BY <1>1, SMT DEF PowerOn
<1>2. CASE LoadContext
  BY <1>2, SMT DEF LoadContext, LoadFiles, LoadNothing
<1>3. CASE ScanAgain
  BY <1>3, SMT DEF ScanAgain
<1>4. CASE InitPersistentDevice
  BY <1>4, SMT DEF InitPersistentDevice
<1>5. CASE LockNotNeeded
  BY <1>5, SMT DEF LockNotNeeded
<1>6. CASE LockBlocks
  BY <1>6, SMT DEF LockBlocks, LockMatches
<1>7. CASE OpenLock
  BY <1>7, SMT DEF OpenLock, LockMatches
<1>8. CASE WriteLock
  BY <1>8, SMT DEF WriteLock
<1>9. CASE StartJobs
  BY <1>9, SMT DEF StartJobs
<1>10. CASE ExecJobs
  <2>1. CASE NoPendingJobs
    BY <1>10, <2>1, SMT DEF ExecJobs, NoPendingJobs
  <2>2. CASE RemountRootRw
    BY <1>10, <2>2, SMT DEF ExecJobs, RemountRootRw
  <2>3. CASE SkipCommit
    BY <1>10, <2>3, SMT DEF ExecJobs, SkipCommit
  <2>4. CASE CommitRefused
    BY <1>10, <2>4, SMT DEF ExecJobs, CommitRefused
  <2>5. CASE CommitMakeLayerDir
    BY <1>10, <2>5, SMT DEF ExecJobs, CommitMakeLayerDir
  <2>6. CASE CommitRename
    BY <1>10, <2>6, SMT DEF ExecJobs, CommitRename
  <2>7. CASE CommitWriteInfo
    BY <1>10, <2>7, SMT DEF ExecJobs, CommitWriteInfo, MakeUpper
  <2>8. CASE CommitRemoveJob
    BY <1>10, <2>8, SMT DEF ExecJobs, CommitRemoveJob
  <2>9. CASE SkipUpdate
    BY <1>10, <2>9, SMT DEF ExecJobs, SkipUpdate
  <2>10. CASE UpdateTruncate
    BY <1>10, <2>10, SMT DEF ExecJobs, UpdateTruncate
  <2>11. CASE UpdateWrite
    BY <1>10, <2>11, SMT DEF ExecJobs, UpdateWrite
  <2>12. CASE UpdateRemoveJob
    BY <1>10, <2>12, SMT DEF ExecJobs, UpdateRemoveJob
  <2>13. CASE ScanFailed
    BY <1>10, <2>13, SMT DEF ExecJobs, ScanFailed
  <2>14. CASE InstallOpen
    BY <1>10, <2>14, SMT DEF ExecJobs, InstallOpen
  <2>15. CASE InstallWrite
    BY <1>10, <2>15, SMT DEF ExecJobs, InstallWrite
  <2>16. CASE InstallRemoveJob
    BY <1>10, <2>16, SMT DEF ExecJobs, InstallRemoveJob
  <2>17. CASE InstallEnds
    BY <1>10, <2>17, SMT DEF ExecJobs, InstallEnds
  <2>18. CASE CommitOpenInfo
    BY <1>10, <2>18, SMT DEF ExecJobs, CommitOpenInfo
  <2>19. CASE ReadFails
    BY <1>10, <2>19, SMT DEF ExecJobs, ReadFails, Reading
  <2>20. CASE ReadAgain
    BY <1>10, <2>20, SMT DEF ExecJobs, ReadAgain
  <2> QED BY <1>10, <2>1, <2>2, <2>3, <2>4, <2>5, <2>6, <2>7, <2>8, <2>9,
      <2>10, <2>11, <2>12, <2>13, <2>14, <2>15, <2>16, <2>17, <2>18, <2>19, <2>20
      DEF ExecJobs, JobsStep
<1>11. CASE JobsReturn
  BY <1>11, SMT DEF JobsReturn
<1>12. CASE InitOverbootDir
  BY <1>12, SMT DEF InitOverbootDir, PrepareUpper, ClearedWork
<1>13. CASE InitMounts
  BY <1>13, SMT DEF InitMounts, MountTasks
<1>14. CASE CheckRollback
  BY <1>14, SMT DEF CheckRollback
<1>15. CASE UnsetLock
  BY <1>15, SMT DEF UnsetLock
<1>16. CASE TasksSucceeded
  BY <1>16, SMT DEF TasksSucceeded
<1>17. CASE Undo
  BY <1>17, SMT DEF Undo
<1>18. CASE NextPass
  BY <1>18, SMT DEF NextPass, Again
<1>19. CASE Exit
  BY <1>19, SMT DEF Exit, Again
<1>20. CASE WhileRunning
  BY <1>20, SMT DEF WhileRunning, ScheduleUpdate, ScheduleCommit,
      ScheduleInstall, CleanJobs, WriteFiles
<1>21. CASE WhileNotRunning
  BY <1>21, SMT DEF WhileNotRunning, EditConfig
<1>22. CASE Shutdown
  BY <1>22, SMT DEF Shutdown, ForgetProcess, RecordBoot
<1>23. CASE PowerLoss
  BY <1>23, SMT DEF PowerLoss, ForgetProcess, RecordBoot
<1>24. CASE UNCHANGED vars
  BY <1>24, SMT
<1> QED
  BY <1>1, <1>2, <1>3, <1>4, <1>5, <1>6, <1>7, <1>8, <1>9, <1>10, <1>11, <1>12,
      <1>13, <1>14, <1>15, <1>16, <1>17, <1>18, <1>19, <1>20, <1>21, <1>22,
      <1>23, <1>24 DEF Next, ObinitStep

\* A file that is cut off is a job, or nobody noticed it.
LEMMA PartsPreserved == IInv /\ [Next]_vars => PartsOK'
<1> SUFFICES ASSUME IInv, [Next]_vars PROVE PartsOK'
  OBVIOUS
<1> USE ConfigAssumption, BootAssumption, TaskNames DEF IInv, TypeOK,
    JobsTypeOK, ControlOK, JobsOK, OutcomeOK, PartsOK, UpdateSteps
<1> USE DEF At, Committable, InstallFrame, NextJob, GoBehind, Succeed, Fail,
    TaskFrame, LogError, MayLogError, IgnoredFault, GoTo, TaskFails,
    NoPartCutOff, CutOff, Part
<1> USE DEF jobsVars, diskJobs, installVars, historyVars, upperVars,
    lockVars, bootVars,
    mainVars, vars
<1>1. CASE PowerOn
  BY <1>1, SMT DEF PowerOn
<1>2. CASE LoadContext
  BY <1>2, SMT DEF LoadContext, LoadFiles, LoadNothing
<1>3. CASE ScanAgain
  BY <1>3, SMT DEF ScanAgain
<1>4. CASE InitPersistentDevice
  BY <1>4, SMT DEF InitPersistentDevice
<1>5. CASE LockNotNeeded
  BY <1>5, SMT DEF LockNotNeeded
<1>6. CASE LockBlocks
  BY <1>6, SMT DEF LockBlocks, LockMatches
<1>7. CASE OpenLock
  BY <1>7, SMT DEF OpenLock, LockMatches
<1>8. CASE WriteLock
  BY <1>8, SMT DEF WriteLock
<1>9. CASE StartJobs
  BY <1>9, SMT DEF StartJobs
<1>10. CASE ExecJobs
  <2>1. CASE NoPendingJobs
    BY <1>10, <2>1, SMT DEF ExecJobs, NoPendingJobs
  <2>2. CASE RemountRootRw
    BY <1>10, <2>2, SMT DEF ExecJobs, RemountRootRw
  <2>3. CASE SkipCommit
    BY <1>10, <2>3, SMT DEF ExecJobs, SkipCommit
  <2>4. CASE CommitRefused
    BY <1>10, <2>4, SMT DEF ExecJobs, CommitRefused
  <2>5. CASE CommitMakeLayerDir
    BY <1>10, <2>5, SMT DEF ExecJobs, CommitMakeLayerDir
  <2>6. CASE CommitRename
    BY <1>10, <2>6, SMT DEF ExecJobs, CommitRename
  <2>7. CASE CommitWriteInfo
    BY <1>10, <2>7, SMT DEF ExecJobs, CommitWriteInfo, MakeUpper
  <2>8. CASE CommitRemoveJob
    BY <1>10, <2>8, SMT DEF ExecJobs, CommitRemoveJob
  <2>9. CASE SkipUpdate
    BY <1>10, <2>9, SMT DEF ExecJobs, SkipUpdate
  <2>10. CASE UpdateTruncate
    BY <1>10, <2>10, SMT DEF ExecJobs, UpdateTruncate
  <2>11. CASE UpdateWrite
    BY <1>10, <2>11, SMT DEF ExecJobs, UpdateWrite
  <2>12. CASE UpdateRemoveJob
    BY <1>10, <2>12, SMT DEF ExecJobs, UpdateRemoveJob
  <2>13. CASE ScanFailed
    BY <1>10, <2>13, SMT DEF ExecJobs, ScanFailed
  <2>14. CASE InstallOpen
    BY <1>10, <2>14, SMT DEF ExecJobs, InstallOpen
  <2>15. CASE InstallWrite
    BY <1>10, <2>15, SMT DEF ExecJobs, InstallWrite
  <2>16. CASE InstallRemoveJob
    BY <1>10, <2>16, SMT DEF ExecJobs, InstallRemoveJob
  <2>17. CASE InstallEnds
    BY <1>10, <2>17, SMT DEF ExecJobs, InstallEnds
  <2>18. CASE CommitOpenInfo
    BY <1>10, <2>18, SMT DEF ExecJobs, CommitOpenInfo
  <2>19. CASE ReadFails
    BY <1>10, <2>19, SMT DEF ExecJobs, ReadFails, Reading
  <2>20. CASE ReadAgain
    BY <1>10, <2>20, SMT DEF ExecJobs, ReadAgain
  <2> QED BY <1>10, <2>1, <2>2, <2>3, <2>4, <2>5, <2>6, <2>7, <2>8, <2>9,
      <2>10, <2>11, <2>12, <2>13, <2>14, <2>15, <2>16, <2>17, <2>18, <2>19, <2>20
      DEF ExecJobs, JobsStep
<1>11. CASE JobsReturn
  BY <1>11, SMT DEF JobsReturn
<1>12. CASE InitOverbootDir
  BY <1>12, SMT DEF InitOverbootDir, PrepareUpper, ClearedWork
<1>13. CASE InitMounts
  BY <1>13, SMT DEF InitMounts, MountTasks
<1>14. CASE CheckRollback
  BY <1>14, SMT DEF CheckRollback
<1>15. CASE UnsetLock
  BY <1>15, SMT DEF UnsetLock
<1>16. CASE TasksSucceeded
  BY <1>16, SMT DEF TasksSucceeded
<1>17. CASE Undo
  BY <1>17, SMT DEF Undo
<1>18. CASE NextPass
  BY <1>18, SMT DEF NextPass, Again
<1>19. CASE Exit
  BY <1>19, SMT DEF Exit, Again
<1>20. CASE WhileRunning
  BY <1>20, SMT DEF WhileRunning, ScheduleUpdate, ScheduleCommit,
      ScheduleInstall, CleanJobs, WriteFiles
<1>21. CASE WhileNotRunning
  BY <1>21, SMT DEF WhileNotRunning, EditConfig
<1>22. CASE Shutdown
  BY <1>22, SMT DEF Shutdown, ForgetProcess, RecordBoot
<1>23. CASE PowerLoss
  BY <1>23, SMT DEF PowerLoss, ForgetProcess, RecordBoot
<1>24. CASE UNCHANGED vars
  BY <1>24, SMT
<1> QED
  BY <1>1, <1>2, <1>3, <1>4, <1>5, <1>6, <1>7, <1>8, <1>9, <1>10, <1>11, <1>12,
      <1>13, <1>14, <1>15, <1>16, <1>17, <1>18, <1>19, <1>20, <1>21, <1>22,
      <1>23, <1>24 DEF Next, ObinitStep

\* No boot that was switched off, has met an error, or is closed gets further.
LEMMA BootPreserved == IInv /\ [Next]_vars => BootOK'
<1> SUFFICES ASSUME IInv, [Next]_vars PROVE BootOK'
  OBVIOUS
<1> USE ConfigAssumption, BootAssumption, TaskNames DEF IInv, TypeOK,
    JobsTypeOK, ControlOK, PassOK, OutcomeOK, LockOK, BootOK, Closed, UpdateSteps
<1> USE DEF At, Committable, InstallFrame, NextJob, GoBehind, Succeed, Fail,
    TaskFrame, LogError, MayLogError, IgnoredFault, GoTo, TaskFails
<1> USE DEF jobsVars, diskJobs, installVars, historyVars, upperVars,
    lockVars, bootVars,
    mainVars, vars
<1>1. CASE PowerOn
  BY <1>1, SMT DEF PowerOn
<1>2. CASE LoadContext
  BY <1>2, SMT DEF LoadContext, LoadFiles, LoadNothing
<1>3. CASE ScanAgain
  BY <1>3, SMT DEF ScanAgain
<1>4. CASE InitPersistentDevice
  BY <1>4, SMT DEF InitPersistentDevice
<1>5. CASE LockNotNeeded
  BY <1>5, SMT DEF LockNotNeeded
<1>6. CASE LockBlocks
  BY <1>6, SMT DEF LockBlocks, LockMatches
<1>7. CASE OpenLock
  BY <1>7, SMT DEF OpenLock, LockMatches
<1>8. CASE WriteLock
  BY <1>8, SMT DEF WriteLock
<1>9. CASE StartJobs
  BY <1>9, SMT DEF StartJobs
<1>10. CASE ExecJobs
  <2>1. CASE NoPendingJobs
    BY <1>10, <2>1, SMT DEF ExecJobs, NoPendingJobs
  <2>2. CASE RemountRootRw
    BY <1>10, <2>2, SMT DEF ExecJobs, RemountRootRw
  <2>3. CASE SkipCommit
    BY <1>10, <2>3, SMT DEF ExecJobs, SkipCommit
  <2>4. CASE CommitRefused
    BY <1>10, <2>4, SMT DEF ExecJobs, CommitRefused
  <2>5. CASE CommitMakeLayerDir
    BY <1>10, <2>5, SMT DEF ExecJobs, CommitMakeLayerDir
  <2>6. CASE CommitRename
    BY <1>10, <2>6, SMT DEF ExecJobs, CommitRename
  <2>7. CASE CommitWriteInfo
    BY <1>10, <2>7, SMT DEF ExecJobs, CommitWriteInfo, MakeUpper
  <2>8. CASE CommitRemoveJob
    BY <1>10, <2>8, SMT DEF ExecJobs, CommitRemoveJob
  <2>9. CASE SkipUpdate
    BY <1>10, <2>9, SMT DEF ExecJobs, SkipUpdate
  <2>10. CASE UpdateTruncate
    BY <1>10, <2>10, SMT DEF ExecJobs, UpdateTruncate
  <2>11. CASE UpdateWrite
    BY <1>10, <2>11, SMT DEF ExecJobs, UpdateWrite
  <2>12. CASE UpdateRemoveJob
    BY <1>10, <2>12, SMT DEF ExecJobs, UpdateRemoveJob
  <2>13. CASE ScanFailed
    BY <1>10, <2>13, SMT DEF ExecJobs, ScanFailed
  <2>14. CASE InstallOpen
    BY <1>10, <2>14, SMT DEF ExecJobs, InstallOpen
  <2>15. CASE InstallWrite
    BY <1>10, <2>15, SMT DEF ExecJobs, InstallWrite
  <2>16. CASE InstallRemoveJob
    BY <1>10, <2>16, SMT DEF ExecJobs, InstallRemoveJob
  <2>17. CASE InstallEnds
    BY <1>10, <2>17, SMT DEF ExecJobs, InstallEnds
  <2>18. CASE CommitOpenInfo
    BY <1>10, <2>18, SMT DEF ExecJobs, CommitOpenInfo
  <2>19. CASE ReadFails
    BY <1>10, <2>19, SMT DEF ExecJobs, ReadFails, Reading
  <2>20. CASE ReadAgain
    BY <1>10, <2>20, SMT DEF ExecJobs, ReadAgain
  <2> QED BY <1>10, <2>1, <2>2, <2>3, <2>4, <2>5, <2>6, <2>7, <2>8, <2>9,
      <2>10, <2>11, <2>12, <2>13, <2>14, <2>15, <2>16, <2>17, <2>18, <2>19, <2>20
      DEF ExecJobs, JobsStep
<1>11. CASE JobsReturn
  BY <1>11, SMT DEF JobsReturn
<1>12. CASE InitOverbootDir
  BY <1>12, SMT DEF InitOverbootDir, PrepareUpper, ClearedWork
<1>13. CASE InitMounts
  BY <1>13, SMT DEF InitMounts, MountTasks
<1>14. CASE CheckRollback
  BY <1>14, SMT DEF CheckRollback
<1>15. CASE UnsetLock
  BY <1>15, SMT DEF UnsetLock
<1>16. CASE TasksSucceeded
  BY <1>16, SMT DEF TasksSucceeded
<1>17. CASE Undo
  BY <1>17, SMT DEF Undo
<1>18. CASE NextPass
  BY <1>18, SMT DEF NextPass, Again
<1>19. CASE Exit
  BY <1>19, SMT DEF Exit, Again
<1>20. CASE WhileRunning
  BY <1>20, SMT DEF WhileRunning, ScheduleUpdate, ScheduleCommit,
      ScheduleInstall, CleanJobs, WriteFiles
<1>21. CASE WhileNotRunning
  BY <1>21, SMT DEF WhileNotRunning, EditConfig
<1>22. CASE Shutdown
  BY <1>22, SMT DEF Shutdown, ForgetProcess, RecordBoot
<1>23. CASE PowerLoss
  BY <1>23, SMT DEF PowerLoss, ForgetProcess, RecordBoot
<1>24. CASE UNCHANGED vars
  BY <1>24, SMT
<1> QED
  BY <1>1, <1>2, <1>3, <1>4, <1>5, <1>6, <1>7, <1>8, <1>9, <1>10, <1>11, <1>12,
      <1>13, <1>14, <1>15, <1>16, <1>17, <1>18, <1>19, <1>20, <1>21, <1>22,
      <1>23, <1>24 DEF Next, ObinitStep

\* Every reachable state satisfies the invariant.
THEOREM Invariance == Spec => []IInv
<1>1. IInv /\ [Next]_vars => IInv'
  BY TypePreserved, ControlPreserved, JobsPreserved, PassPreserved,
     OutcomePreserved, LockPreserved, PartsPreserved, BootPreserved DEF IInv
<1> QED
  BY InitInv, <1>1, PTL DEF Spec

------------------------------------------------------------------------------

\* Type correctness.
THEOREM TypeCorrect == Spec => []TypeOK
<1>1. IInv => TypeOK
  BY DEF IInv
<1> QED BY Invariance, <1>1, PTL

\* obinit leaves the overlay in place only without any logged error, on the
\* configuration of the disk, and with no job left.
THEOREM CleanComposition == Spec => []ComposedIsClean
<1>1. IInv => ComposedIsClean
  BY DEF IInv, OutcomeOK
<1> QED BY Invariance, <1>1, PTL

\* A system that runs on the overlay has no lock in its repository.
THEOREM LockIsRemoved == Spec => []NoLockBehindSuccess
<1>1. IInv => NoLockBehindSuccess
  BY DEF IInv, OutcomeOK, NoLockBehindSuccess
<1> QED BY Invariance, <1>1, PTL

\* The same configuration is not tried again behind the lock of a failed boot.
THEOREM SafeModeWorks == Spec => []SafeModeBlocks
<1>1. IInv => SafeModeBlocks
  <2> SUFFICES ASSUME IInv, kept, failed # None, pc = "task"
               PROVE  Tasks[task] \in {"InitPersistentDevice", "InitLock"}
    BY DEF SafeModeBlocks
  <2>1. task \in 1..11 /\ task < 3
    BY TaskNames, SMT DEF IInv, TypeOK, ControlOK, LockOK
  <2> QED BY <2>1, TaskNames, SMT
<1> QED BY Invariance, <1>1, PTL

\* No system on the overlay has a partial configuration file that was cut off
\* and is to stay so, however many there are.
THEOREM PartsAreWhole == Spec => []NoPartCutOff
<1>1. IInv => NoPartCutOff
  BY DEF IInv, OutcomeOK
<1> QED BY Invariance, <1>1, PTL

\* Files that the user was promised to commit are never lost.
THEOREM WorkSurvives == Spec => []PromisedWorkSurvives
<1>1. IInv => PromisedWorkSurvives
  BY DEF IInv, JobsOK, PromisedWorkSurvives
<1> QED BY Invariance, <1>1, PTL

------------------------------------------------------------------------------

\* During a boot only CommitRemoveJob and UpdateRemoveJob remove a commit or an
\* update job.
LEMMA JobsAreKept ==
  ASSUME Next, pc = "task"
  PROVE  /\ commitJob' # commitJob => CommitRemoveJob
         /\ updateJob' # updateJob => UpdateRemoveJob
<1> USE DEF jobsVars, diskJobs, installVars, historyVars, upperVars, vars, TaskFrame
<1>1. CASE ExecJobs
  BY <1>1, SMT DEF ExecJobs, JobsStep, NoPendingJobs, RemountRootRw,
      SkipCommit,
     CommitRefused, CommitMakeLayerDir, CommitRename, CommitWriteInfo,
     CommitRemoveJob, SkipUpdate, UpdateTruncate, UpdateWrite, UpdateRemoveJob,
     ScanFailed, InstallOpen, InstallWrite, InstallRemoveJob, InstallEnds,
     InstallFrame, CommitOpenInfo, ReadFails, ReadAgain
<1>2. CASE \/ InitPersistentDevice \/ LockNotNeeded \/ LockBlocks \/ OpenLock
           \/ StartJobs \/ JobsReturn \/ InitOverbootDir \/ InitMounts
           \/ CheckRollback \/ UnsetLock
  BY <1>2, SMT DEF InitPersistentDevice, LockNotNeeded, LockBlocks, OpenLock,
     StartJobs, JobsReturn, InitOverbootDir, InitMounts, CheckRollback, UnsetLock
<1>3. CASE PowerLoss
  BY <1>3, SMT DEF PowerLoss, ForgetProcess
<1>4. ~(\/ PowerOn \/ LoadContext \/ ScanAgain \/ WriteLock \/ TasksSucceeded
        \/ Undo \/ NextPass \/ Exit \/ WhileRunning \/ WhileNotRunning \/ Shutdown)
  BY SMT DEF PowerOn, LoadContext, ScanAgain, WriteLock, TasksSucceeded, Undo,
     NextPass, Exit, WhileRunning, WhileNotRunning, Shutdown
<1> QED BY <1>1, <1>2, <1>3, <1>4 DEF Next, ObinitStep

\* A commit job only goes away with a complete layer, or with one whose
\* layer.yaml was cut off when it was closed.
THEOREM CommitCompletes == Spec => CommitJobIsDone
<1>1. ASSUME IInv, [Next]_vars
      PROVE  [pc = "task" /\ commitJob # None /\ commitJob' = None
                => layer[commitJob] = "complete" \/ slipped]_vars
  <2>1. CASE Next
    <3> SUFFICES ASSUME pc = "task", commitJob # None, commitJob' = None
                 PROVE  layer[commitJob] = "complete" \/ slipped
      OBVIOUS
    <3>1. CommitRemoveJob
      BY <2>1, JobsAreKept
    <3> QED BY <1>1, <3>1 DEF CommitRemoveJob, IInv, JobsOK
  <2>2. CASE UNCHANGED vars
    BY <2>2
  <2> QED BY <1>1, <2>1, <2>2
<1> QED BY Invariance, <1>1, PTL DEF Spec, CommitJobIsDone

\* An update job only goes away when it is the configuration, an error says
\* that it is not, or the copy was cut off when it was closed.
THEOREM UpdateCompletes == Spec => UpdateJobIsDone
<1>1. ASSUME IInv, [Next]_vars
      PROVE  [pc = "task" /\ updateJob # None /\ updateJob' = None
                => config = updateJob \/ error \/ slipped]_vars
  <2>1. CASE Next
    <3> SUFFICES ASSUME pc = "task", updateJob # None, updateJob' = None
                 PROVE  config = updateJob \/ error \/ slipped
      OBVIOUS
    <3>1. UpdateRemoveJob
      BY <2>1, JobsAreKept
    <3> QED BY <1>1, <3>1 DEF UpdateRemoveJob, IInv, JobsOK
  <2>2. CASE UNCHANGED vars
    BY <2>2
  <2> QED BY <1>1, <2>1, <2>2
<1> QED BY Invariance, <1>1, PTL DEF Spec, UpdateJobIsDone
------------------------------------------------------------------------------
(***************************************************************************)
(* Boots implement ObSystem.  A step of obinit that leaves alone what the  *)
(* disks keep is one that at most reports an error (Quiet); one that does  *)
(* not is taken in a boot that is not closed (Busy).                       *)
(***************************************************************************)

Running == pc \notin {"off", "os"}

OtherJobs == commitJob # None \/ installJobs # {}

\* The configuration could not be read, and the boot is about to end.
Unread == pc = "loop" /\ error /\ exitCode = 0

Quiet ==
  /\ Running /\ Running'
  /\ ~Unread /\ ~Unread'
  /\ error => error'
  /\ UNCHANGED <<config, updateJob, commitJob, installJobs, parts, layer, upper, work>>
  /\ UNCHANGED <<failed, kept>>

Busy ==
  /\ Running /\ Running'
  /\ ~Unread /\ ~Unread'
  /\ error => error'
  /\ ~Closed /\ ~Closed'
  /\ config' # config => updateJob # None
  /\ \/ updateJob' = updateJob
     \/ /\ updateJob' = None /\ config' = config
        /\ config = updateJob \/ config \in {Empty} \cup Torn \/ error
  /\ OtherJobs' => OtherJobs

\* A quiet step is one of the system at most when it reports the first error.
LEMMA QuietStep ==
  ASSUME BooleansOK, BooleansOK', Quiet
  PROVE  [System!Next]_(System!vars)
<1> USE DEF Quiet, Running, Unread, systemStatus, Closed, BooleansOK
<1>1. CASE error' = error
  BY <1>1 DEF System!vars, System!disks
<1>2. CASE ~error /\ error'
  <2>1. System!Stumble
    BY <1>2 DEF System!Stumble, System!disks
  <2> QED BY <2>1 DEF System!Next
<1> QED BY <1>1, <1>2

\* A busy step is the work of a boot that is not closed.
LEMMA BusyStep ==
  ASSUME BooleansOK, BooleansOK', Busy
  PROVE  [System!Next]_(System!vars)
<1> USE DEF Busy, BooleansOK
<1>1. /\ systemStatus = IF error THEN "failing" ELSE "booting"
      /\ systemStatus' = IF error' THEN "failing" ELSE "booting"
  BY DEF Running, Unread, systemStatus
<1>2. UNCHANGED Closed
  BY Zenon DEF Closed
<1>3. systemStatus' \in {systemStatus, "failing"}
  BY <1>1
<1>4. System!Work
  BY <1>1, <1>2, <1>3, Zenon DEF System!Work, System!Booting, OtherJobs
<1> QED BY <1>4 DEF System!Next

\* The steps of obinit that do not change what the disks keep.
LEMMA QuietActions ==
  ASSUME IInv, \/ InitPersistentDevice \/ LockNotNeeded \/ LockBlocks
         \/ OpenLock \/ WriteLock \/ StartJobs \/ JobsReturn
         \/ InitMounts \/ CheckRollback \/ UnsetLock \/ TasksSucceeded
         \/ Undo \/ NextPass
  PROVE  Quiet
<1> USE BootAssumption, TaskNames DEF IInv, TypeOK, ControlOK, OutcomeOK, BootOK,
    Quiet, Running, Unread,
    At, Succeed, Fail, TaskFrame, LogError, MayLogError, IgnoredFault,
    jobsVars, diskJobs, installVars, historyVars, upperVars, lockVars, bootVars, mainVars
<1>2. CASE InitPersistentDevice
  BY <1>2, SMT DEF InitPersistentDevice
<1>3. CASE LockNotNeeded
  BY <1>3, SMT DEF LockNotNeeded
<1>4. CASE LockBlocks
  BY <1>4, SMT DEF LockBlocks, LockMatches
<1>5. CASE OpenLock
  BY <1>5, Zenon DEF OpenLock, LockMatches
<1>6. CASE WriteLock
  BY <1>6, SMT DEF WriteLock
<1>7. CASE StartJobs
  BY <1>7, SMT DEF StartJobs
<1>8. CASE JobsReturn
  BY <1>8, SMT DEF JobsReturn
<1>9. CASE InitMounts
  BY <1>9, SMT DEF InitMounts, MountTasks
<1>10. CASE CheckRollback
  BY <1>10, SMT DEF CheckRollback
<1>11. CASE UnsetLock
  BY <1>11, SMT DEF UnsetLock
<1>12. CASE TasksSucceeded
  BY <1>12, SMT DEF TasksSucceeded
<1>13. CASE Undo
  BY <1>13, SMT DEF Undo
<1>14. CASE NextPass
  BY <1>14, SMT DEF NextPass, Again
<1> QED BY <1>2, <1>3, <1>4, <1>5, <1>6, <1>7, <1>8, <1>9, <1>10, <1>11, <1>12, <1>13, <1>14

\* Loading the configuration reports at most an error, unless it could not be
\* read.
LEMMA LoadStep ==
  ASSUME IInv, BooleansOK, BooleansOK', LoadContext
  PROVE  [System!Next]_(System!vars)
<1> USE DEF IInv, BootOK, LoadContext, LoadFiles, LoadNothing, LogError,
    jobsVars, diskJobs, installVars, historyVars, upperVars, lockVars, mainVars
<1>1. CASE Unread'
  <2>1. pc = "load" /\ exitCode = 0 /\ ~error
    BY <1>1, Zenon DEF Unread
  <2>2. systemStatus = "booting" /\ systemStatus' = "unread"
    BY <1>1, <2>1, SMT DEF systemStatus, Unread
  <2>3. System!Miss
    BY <2>2, Zenon DEF System!Miss, System!disks, Closed
  <2> QED BY <2>3 DEF System!Next
<1>2. CASE ~Unread'
  <2>1. Quiet
    BY <1>2, SMT DEF Quiet, Running, Unread
  <2> QED BY <2>1, QuietStep
<1> QED BY <1>1, <1>2

\* The steps of the jobs and the preparation of the upper layer are not taken in a
\* closed boot, change the configuration file only for an update job, and remove
\* that job only when the file has its content, was cut off, or an error was
\* reported.
LEMMA BusyActions ==
  ASSUME IInv, ExecJobs \/ InitOverbootDir
  PROVE  Busy
<1> USE TaskNames DEF IInv, TypeOK, JobsTypeOK, ControlOK, JobsOK, LockOK, Closed,
    UpdateSteps, Unread
<1> USE DEF At, Succeed, Fail, TaskFrame, LogError, GoTo, TaskFails, IgnoredFault,
    Committable, InstallFrame, GoBehind, InstallSteps, OtherJobs,
    diskJobs, installVars, historyVars, upperVars
<1>1. pc = "task" /\ task \in {3, 4} /\ ~Closed
  BY SMT DEF ExecJobs, InitOverbootDir
<1>2. CASE InitOverbootDir
  BY <1>1, <1>2, SMT DEF InitOverbootDir, Busy, Running
<1>3. CASE ExecJobs
  <2>1. Running /\ Running' /\ ~Unread /\ ~Unread' /\ ~Closed /\ ~Closed'
    BY <1>1, <1>3, SMT DEF ExecJobs, Running
  <2> DEFINE Kept == UNCHANGED <<config, updateJob>> /\ (OtherJobs' => OtherJobs)
                     /\ (error => error')
  <2>2. CASE NoPendingJobs
    <3>1. Kept
      BY <2>2, SMT DEF NoPendingJobs
    <3> QED BY <2>1, <3>1 DEF Busy
  <2>3. CASE RemountRootRw
    <3>1. Kept
      BY <2>3, SMT DEF RemountRootRw
    <3> QED BY <2>1, <3>1 DEF Busy
  <2>4. CASE SkipCommit
    <3>1. Kept
      BY <2>4, SMT DEF SkipCommit
    <3> QED BY <2>1, <3>1 DEF Busy
  <2>5. CASE CommitRefused
    <3>1. Kept
      BY <2>5, SMT DEF CommitRefused
    <3> QED BY <2>1, <3>1 DEF Busy
  <2>6. CASE CommitMakeLayerDir
    <3>1. Kept
      BY <2>6, SMT DEF CommitMakeLayerDir
    <3> QED BY <2>1, <3>1 DEF Busy
  <2>7. CASE CommitRename
    <3>1. Kept
      BY <2>7, SMT DEF CommitRename
    <3> QED BY <2>1, <3>1 DEF Busy
  <2>8. CASE CommitWriteInfo
    <3>1. Kept
      BY <2>8, SMT DEF CommitWriteInfo, MakeUpper
    <3> QED BY <2>1, <3>1 DEF Busy
  <2>9. CASE CommitRemoveJob
    <3>1. Kept
      BY <2>9, SMT DEF CommitRemoveJob
    <3> QED BY <2>1, <3>1 DEF Busy
  <2>10. CASE SkipUpdate
    <3>1. Kept
      BY <2>10, SMT DEF SkipUpdate
    <3> QED BY <2>1, <3>1 DEF Busy
  <2>11. CASE ScanFailed
    <3>1. Kept
      BY <2>11, SMT DEF ScanFailed
    <3> QED BY <2>1, <3>1 DEF Busy
  <2>12. CASE InstallOpen
    <3>1. Kept
      BY <2>12, SMT DEF InstallOpen
    <3> QED BY <2>1, <3>1 DEF Busy
  <2>13. CASE InstallWrite
    <3>1. Kept
      BY <2>13, SMT DEF InstallWrite
    <3> QED BY <2>1, <3>1 DEF Busy
  <2>14. CASE InstallRemoveJob
    <3>1. Kept
      BY <2>14, SMT DEF InstallRemoveJob
    <3> QED BY <2>1, <3>1 DEF Busy
  <2>15. CASE InstallEnds
    <3>1. Kept
      BY <2>15, SMT DEF InstallEnds
    <3> QED BY <2>1, <3>1 DEF Busy
  <2>19. CASE CommitOpenInfo
    <3>1. Kept
      BY <2>19, SMT DEF CommitOpenInfo
    <3> QED BY <2>1, <3>1 DEF Busy
  <2>20. CASE ReadFails \/ ReadAgain
    <3>1. Kept
      BY <2>20, Zenon DEF ReadFails, ReadAgain, jobsVars
    <3> QED BY <2>1, <3>1 DEF Busy
  <2>16. CASE UpdateRemoveJob
    BY <2>1, <2>16, SMT DEF UpdateRemoveJob, Busy
  <2>17. CASE UpdateTruncate
    BY <2>1, <2>17, SMT DEF UpdateTruncate, Busy
  <2>18. CASE UpdateWrite
    BY <2>1, <2>18, SMT DEF UpdateWrite, Busy
  <2> QED BY <1>3, <2>2, <2>3, <2>4, <2>5, <2>6, <2>7, <2>8, <2>9, <2>10, <2>11, <2>12,
       <2>13, <2>14, <2>15, <2>16, <2>17, <2>18, <2>19, <2>20 DEF ExecJobs, JobsStep
<1> QED BY <1>2, <1>3

\* The step of the system that each step of the boots is.
LEMMA StepImplements ==
  IInv /\ BooleansOK /\ BooleansOK' /\ [Next]_vars => [System!Next]_(System!vars)
<1> SUFFICES ASSUME IInv, BooleansOK, BooleansOK', [Next]_vars
             PROVE  [System!Next]_(System!vars)
  OBVIOUS
<1>1. CASE \/ InitPersistentDevice \/ LockNotNeeded \/ LockBlocks
           \/ OpenLock \/ WriteLock \/ StartJobs \/ JobsReturn
           \/ InitMounts \/ CheckRollback \/ UnsetLock \/ TasksSucceeded
           \/ Undo \/ NextPass
  BY <1>1, QuietActions, QuietStep
<1>11. CASE LoadContext
  BY <1>11, LoadStep
<1>2. CASE ExecJobs \/ InitOverbootDir
  BY <1>2, BusyActions, BusyStep
<1>3. CASE ScanAgain \/ UNCHANGED vars
  <2>1. UNCHANGED System!vars
    <3>1. UNCHANGED <<config, updateJob, commitJob, installJobs, parts, layer, upper,
                      work, error, pc, composed, exitCode, failed, kept>>
      BY <1>3, Zenon DEF ScanAgain, vars, jobsVars, diskJobs, installVars, mainVars
    <3> QED BY <3>1, SMT DEF System!vars, System!disks, systemStatus, Closed
  <2> QED BY <2>1
<1> USE DEF IInv, TypeOK, BootOK, OutcomeOK, systemStatus, Closed
<1> USE DEF jobsVars, diskJobs, installVars, historyVars, upperVars, lockVars, bootVars,
    mainVars
<1>4. CASE PowerOn
  <2>1. System!Start
    BY <1>4, SMT DEF PowerOn, System!Start, System!disks
  <2> QED BY <2>1 DEF System!Next
<1>5. CASE Exit
  <2>1. CASE composed
    <3>1. ~error /\ config \in Enabled /\ ~PendingJobs /\ exitCode = 0 /\ exitCode' = 0
      BY <1>5, <2>1, SMT DEF Exit, ComposedIsClean
    <3>2. ~Closed
      BY <2>1, SMT DEF LockOK
    <3>3. System!Compose
      BY <1>5, <2>1, <3>1, <3>2, SMT DEF Exit, PendingJobs, System!Compose, System!disks
    <3> QED BY <3>3 DEF System!Next
  <2>2. CASE ~composed /\ exitCode' = 1
    <3>1. System!Fail
      BY <1>5, <2>2, SMT DEF Exit, System!Fail, System!Booting, System!disks
    <3> QED BY <3>1 DEF System!Next
  <2>3. CASE ~composed /\ exitCode' = 0
    <3>1. \/ systemStatus = "booting" /\ config \notin Enabled
          \/ systemStatus = "unread"
      BY <1>5, <2>3, SMT DEF Exit
    <3>2. System!Disable
      BY <1>5, <2>3, <3>1, SMT DEF Exit, System!Disable, System!disks
    <3> QED BY <3>2 DEF System!Next
  <2>4. exitCode' \in {0, 1}
    BY <1>5, SMT DEF Exit
  <2> QED BY <2>1, <2>2, <2>3, <2>4
<1>6. CASE WhileRunning
  <2>1. pc = "os" /\ composed /\ exitCode = 0
    BY <1>6 DEF WhileRunning
  <2>2. UNCHANGED <<pc, composed, exitCode, config, failed, kept>>
    BY <1>6, SMT DEF WhileRunning, ScheduleUpdate, ScheduleCommit, ScheduleInstall,
       CleanJobs, WriteFiles
  <2>3. System!Use
    BY <2>1, <2>2, SMT DEF System!Use
  <2> QED BY <2>3 DEF System!Next
<1>7. CASE WhileNotRunning
  <2>1. systemStatus \in {"disabled", "failed"} /\ UNCHANGED systemStatus
    BY <1>7, SMT DEF WhileNotRunning, EditConfig
  <2>2. Closed' = (Closed /\ config' = config)
    BY <1>7, SMT DEF WhileNotRunning, LockOK
  <2>3. System!Edit
    BY <1>7, <2>1, <2>2, Zenon DEF WhileNotRunning, EditConfig, System!Edit
  <2> QED BY <2>3 DEF System!Next
<1>8. ASSUME NEW stays \in BOOLEAN, RecordBoot(stays), config' = config, pc # "off"
      PROVE  System!Closes
  <2>1. CASE attempted /\ ~composed /\ cfg = config
    <3>1. ~Closed
      BY <2>1
    <3>2. config \in Enabled /\ config \in SafeMode
      BY <2>1, SMT DEF LockOK
    <3>3. systemStatus \in {"booting", "failing", "failed"}
      BY <1>8, <2>1, <3>2, SMT
    <3> QED BY <1>8, <3>1, <3>2, <3>3, Zenon DEF System!Closes
  <2>2. CASE composed
    <3>1. ~Closed
      BY <2>2, SMT DEF LockOK
    <3>2. ~Closed'
      BY <1>8, <2>2, SMT DEF RecordBoot
    <3> QED BY <3>1, <3>2, Zenon DEF System!Closes
  <2>3. CASE ~(attempted /\ ~composed /\ cfg = config) /\ ~composed
    <3>1. UNCHANGED <<failed, kept>>
      BY <1>8, <2>3, Zenon DEF RecordBoot
    <3> QED BY <3>1, Zenon DEF System!Closes
  <2> QED BY <2>1, <2>2, <2>3, Zenon
<1>9. CASE Shutdown
  <2>1. System!Closes
    <3>1. RecordBoot(guarded) /\ config' = config /\ pc # "off" /\ guarded \in BOOLEAN
      BY <1>9, SMT DEF Shutdown
    <3> QED BY <1>8, <3>1
  <2>2. systemStatus \in {"composed", "disabled", "failed"} /\ systemStatus' = "off"
    BY <1>9, SMT DEF Shutdown, ForgetProcess
  <2>3. UNCHANGED <<config, updateJob, commitJob, installJobs, parts, layer, upper, work>>
    BY <1>9, SMT DEF Shutdown, ForgetProcess
  <2>4. System!Shutdown
    BY <2>1, <2>2, <2>3, Zenon DEF System!Shutdown, System!Up, System!disks
  <2> QED BY <2>4 DEF System!Next
<1>10. CASE PowerLoss
  <2>1. systemStatus # "off" /\ systemStatus' = "off"
    BY <1>10, SMT DEF PowerLoss, ForgetProcess
  <2>2. ASSUME config' # config
        PROVE  System!Booting /\ updateJob # None /\ ~Closed
    <3>1. step \in UpdateSteps
      BY <1>10, <2>2, SMT DEF PowerLoss, UpdateSteps
    <3>2. pc = "task" /\ task = 3 /\ updateJob # None
      BY <3>1, SMT DEF ControlOK, JobsOK, UpdateSteps
    <3>3. ~Closed
      BY <3>2, SMT DEF LockOK
    <3> QED BY <3>2, <3>3, SMT DEF System!Booting
  <2>3. System!Closes
    <3>1. CASE config' = config
      <4>1. RecordBoot(guarded /\ lock' = lock) /\ pc # "off"
        BY <1>10, <3>1, SMT DEF PowerLoss
      <4> QED BY <1>8, <3>1, <4>1
    <3>2. CASE config' # config
      <4>1. ~Closed
        BY <2>2, <3>2
      <4>2. ~Closed'
        BY <1>10, <3>2, SMT DEF PowerLoss
      <4> QED BY <4>1, <4>2, Zenon DEF System!Closes
    <3> QED BY <3>1, <3>2
  <2>4. UNCHANGED <<updateJob, installJobs, layer, upper, work>>
    BY <1>10, SMT DEF PowerLoss, ForgetProcess
  <2>5. commitJob' # commitJob => systemStatus = "composed" /\ ~Closed
    BY <1>10, SMT DEF PowerLoss, LockOK
  <2>6. Closed => parts' = parts
    <3> SUFFICES ASSUME Closed PROVE parts' = parts
      OBVIOUS
    <3>1. PICK left \in [unsynced -> PartState] :
            parts' = [p \in Part |-> IF p \in unsynced THEN left[p] ELSE parts[p]]
      BY <1>10, SMT DEF PowerLoss
    <3>2. unsynced = {} /\ parts \in [Part -> PartState]
      BY DEF JobsTypeOK
    <3> QED BY <3>1, <3>2
  <2>7. Closed => UNCHANGED System!disks
    BY <2>2, <2>4, <2>5, <2>6, Zenon DEF System!disks
  <2>8. OtherJobs' # OtherJobs => systemStatus = "composed"
    BY <2>4, <2>5, Zenon DEF OtherJobs
  <2>9. System!PowerLoss
    BY <2>1, <2>2, <2>3, <2>4, <2>7, <2>8, Zenon DEF System!PowerLoss, OtherJobs
  <2> QED BY <2>9 DEF System!Next
<1> QED BY <1>1, <1>2, <1>3, <1>4, <1>5, <1>6, <1>7, <1>9, <1>10, <1>11
    DEF Next, ObinitStep

\* The boots of Overboot, with all their passes, jobs, locks, faults and power
\* failures, keep the promises of ObSystem.
THEOREM Implementation == Spec => ImplementsSystem
<1>1. Init => System!Init
  BY DEF Init, JobsInit, systemStatus, Closed, System!Init
<1>2. IInv => BooleansOK
  BY DEF IInv, TypeOK, JobsTypeOK, BooleansOK
<1>3. IInv /\ IInv' /\ [Next]_vars => [System!Next]_(System!vars)
  BY <1>2, StepImplements, BooleansPreserved
<1> QED BY <1>1, <1>3, Invariance, PTL DEF Spec, ImplementsSystem, System!Spec

\* A closed system is inert: nothing but a change of the configuration file opens
\* it, and until then its jobs, its partial files, its layers and its upper layer
\* stay as they are, whatever boots and power failures there are.
THEOREM ClosedIsInert ==
  Spec => [][Closed /\ config' = config =>
               Closed' /\ UNCHANGED <<updateJob, commitJob, installJobs, parts,
                                     layer, upper, work>>]_vars
<1>1. ASSUME IInv, [System!Next]_(System!vars), Closed, config' = config
      PROVE  Closed' /\ UNCHANGED <<updateJob, commitJob, installJobs, parts,
                                   layer, upper, work>>
  <2>1. systemStatus # "composed"
    BY <1>1, SMT DEF systemStatus, IInv, OutcomeOK, LockOK, Closed
  <2> QED BY <1>1, <2>1 DEF System!Next, System!vars, System!disks, System!Start,
       System!Stumble, System!Work, System!Compose, System!Miss,
       System!Disable, System!Fail,
       System!Use, System!Edit, System!Shutdown, System!PowerLoss, System!Closes
<1>2. ASSUME IInv, [Next]_vars
      PROVE  [Closed /\ config' = config =>
                Closed' /\ UNCHANGED <<updateJob, commitJob, installJobs, parts,
                                      layer, upper, work>>]_vars
  <2>1. BooleansOK /\ BooleansOK'
    BY <1>2, BooleansPreserved DEF IInv, TypeOK, JobsTypeOK, BooleansOK
  <2> QED BY <1>1, <1>2, <2>1, StepImplements
<1> QED BY Invariance, <1>2, PTL DEF Spec
==============================================================================
