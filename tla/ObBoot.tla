-------------------------------- MODULE ObBoot --------------------------------
(***************************************************************************)
(* Overboot from one boot to the next: the main loop of obinit             *)
(* (apps/obinit/src/main.c), the tasks of a pass (lib/src/ObInitTasks.c),  *)
(* the lock file of the safe mode (lib/src/ObInit.c), the jobs (ObJobs),   *)
(* what the user does while the system is up, and power failures between   *)
(* any two steps.                                                          *)
(*                                                                         *)
(* The tasks that mount things are kept to what they do to the disks and   *)
(* to the error flag: what they mount is lost with the power, and what a   *)
(* rollback makes of it is the subject of module ObMounts.                 *)
(*                                                                         *)
(* The lock file holds the hash of a configuration file.  A hash is        *)
(* modelled by the content it is the hash of: collisions are left out.     *)
(***************************************************************************)
EXTENDS ObJobs, ObInitTasks

CONSTANTS
  MaxReloads,  \* OB_MAX_CONFIG_RELOADS
  BadLock      \* a lock file that does not hold a hash

ASSUME BootAssumption ==
  /\ MaxReloads \in Nat \ {0}
  /\ BadLock \notin Config \cup {Empty, None}

VARIABLES
  lock,        \* the lock file as it is read: None, BadLock or a content
  lockOnDisk,  \* the lock file as it is on the disk
  \* of the obinit process
  pc,          \* where main is, or "off", or "os" after obinit has exited
  task,        \* the task of the list that is executed
  composed,    \* the last pass put the overlay in place
  maxReloads,  \* the local variable of main
  exitCode,    \* the local variable of main
  \* history
  attempted,   \* this pass was let through by the safe mode
  guarded,     \* the lock this process wrote is still there
  blocked,     \* this pass was stopped by the safe mode
  failed,      \* the content with which the last boot failed after it had
               \* been let through, unless the file has changed since
  kept         \* that boot left its lock behind

lockVars == <<lock, lockOnDisk>>
bootVars == <<attempted, guarded, blocked>>
mainVars == <<composed, maxReloads, exitCode>>
vars == <<jobsVars, lockVars, pc, task, mainVars, bootVars, failed, kept>>

At(name) == pc = "task" /\ Tasks[task] = name

Init ==
  /\ JobsInit
  /\ lock = None
  /\ lockOnDisk = None
  /\ pc = "off"
  /\ task = 1
  /\ composed = FALSE
  /\ maxReloads = MaxReloads
  /\ exitCode = 0
  /\ attempted = FALSE
  /\ guarded = FALSE
  /\ blocked = FALSE
  /\ failed = None
  /\ kept = FALSE

------------------------------------------------------------------------------
(***************************************************************************)
(* The process starts.                                                     *)
(***************************************************************************)
PowerOn ==
  /\ pc = "off"
  /\ pc' = "load"
  /\ UNCHANGED <<jobsVars, lockVars, task, mainVars, bootVars, failed, kept>>

\* Mutant of LoadContext: a reload is not counted.
MutLoadContext ==
  /\ pc = "load"
  /\ reload' = FALSE
  /\ cfg' = config
  /\ task' = 1
  /\ pc' = IF config \in Enabled THEN "task" ELSE "loop"
  /\ attempted' = FALSE
  /\ blocked' = FALSE
  /\ UNCHANGED <<config, diskJobs, upperVars, step, error, historyVars, lockVars,
                 composed, maxReloads, exitCode, guarded, failed, kept>>

\* obLoadYamlConfig with the partial files that are readable.  One that is not,
\* or a directory that is not, is reported and otherwise ignored.  The scanner
\* loop of obParseYamlFile only ends at the end of the stream, which a scanner
\* that has met an error never reports.
LoadFiles(readable) ==
  /\ cfg' = config
  /\ pc' = IF ScanFails(readable) THEN "scan"
           ELSE IF config \in Enabled THEN "task" ELSE "loop"
  /\ IF readable = Part THEN UNCHANGED error ELSE LogError

\* The main file cannot be opened: the context keeps its defaults, with which
\* Overboot is switched off.
LoadNothing ==
  /\ cfg' = Empty
  /\ pc' = "loop"
  /\ LogError

\* The head of the loop of main, and loadContext, which does not look at what
\* obLoadYamlConfig returns.
LoadContext ==
  /\ pc = "load"
  /\ maxReloads' = IF reload THEN maxReloads - 1 ELSE maxReloads
  /\ \/ LoadFiles(Part)
     \/ Fault("load") /\ LoadNothing
     \/ Fault("load") /\ \E readable \in SUBSET Part : LoadFiles(readable)
  /\ reload' = FALSE
  /\ task' = 1
  /\ attempted' = FALSE
  /\ blocked' = FALSE
  /\ UNCHANGED <<config, diskJobs, upperVars, step, historyVars, lockVars,
                 composed, exitCode, guarded, failed, kept>>

\* The scanner returns the same empty token again.
ScanAgain ==
  /\ pc = "scan"
  /\ UNCHANGED vars

------------------------------------------------------------------------------
(***************************************************************************)
(* The tasks.  A task that succeeds is followed by the next one, one that  *)
(* fails by the undo chain.                                                *)
(***************************************************************************)
Succeed == /\ task' = task + 1
           /\ pc' = IF task = Len(Tasks) THEN "end" ELSE "task"
Fail == pc' = "undo" /\ UNCHANGED task

\* The variables a task that touches neither jobs nor lock leaves alone.
TaskFrame == UNCHANGED <<config, diskJobs, step, cfg, reload, historyVars, lockVars,
                         mainVars, failed, kept>>

\* obInitPersistentDevice: the device is found and mounted, or it is not.
InitPersistentDevice ==
  /\ At("InitPersistentDevice")
  /\ \/ Succeed /\ IgnoredFault("remount")
     \/ Fault("device") /\ Fail /\ LogError
  /\ TaskFrame /\ UNCHANGED <<upperVars, bootVars>>

\* obInitLock without the safe mode.
LockNotNeeded ==
  /\ At("InitLock")
  /\ cfg \notin SafeMode
  /\ Succeed
  /\ TaskFrame /\ UNCHANGED <<upperVars, error, bootVars>>

\* obInitLock: the lock is that of the current configuration file.
LockMatches == lock = config

LockBlocks ==
  /\ At("InitLock")
  /\ cfg \in SafeMode
  /\ LockMatches
  /\ blocked' = TRUE
  /\ Fail
  /\ TaskFrame /\ UNCHANGED <<upperVars, error, attempted, guarded>>

\* obInitLock opens the lock file for writing, which truncates it.  Reading an
\* old lock without a hash in it has logged an error.
OpenLock ==
  /\ At("InitLock")
  /\ cfg \in SafeMode
  /\ ~LockMatches
  /\ \/ /\ lock' = BadLock
        /\ pc' = "lockWrite" /\ UNCHANGED task
        /\ error' = (error \/ lock = BadLock)
     \/ Fault("lock") /\ Fail /\ LogError /\ UNCHANGED lock
  /\ guarded' = FALSE
  /\ UNCHANGED <<config, diskJobs, upperVars, step, cfg, reload, historyVars, lockOnDisk,
                 mainVars, attempted, blocked, failed, kept>>

\* obWriteAsHexStr does not look at what fprintf and fclose return.
WriteLock ==
  /\ pc = "lockWrite"
  /\ \/ lock' = config /\ guarded' = TRUE
     \/ Fault("lock") /\ UNCHANGED <<lock, guarded>>
  /\ attempted' = TRUE
  /\ Succeed
  /\ UNCHANGED <<config, diskJobs, upperVars, step, cfg, reload, error, historyVars,
                 lockOnDisk, mainVars, blocked, failed, kept>>

\* obExecPreInitJobs is called, takes its steps, and returns.
StartJobs ==
  /\ At("ExecPreInitJobs")
  /\ step = "idle"
  /\ step' = "begin"
  /\ UNCHANGED <<config, diskJobs, upperVars, cfg, reload, error, historyVars,
                 lockVars, pc, task, mainVars, bootVars, failed, kept>>

\* A job step; sync() after the update job puts the lock on the disk.
ExecJobs ==
  /\ At("ExecPreInitJobs")
  /\ JobsStep
  /\ lockOnDisk' = IF step = "updateRemove" THEN lock ELSE lockOnDisk
  /\ failed' = IF config' # config THEN None ELSE failed
  /\ UNCHANGED <<lock, pc, task, mainVars, bootVars, kept>>

JobsReturn ==
  /\ At("ExecPreInitJobs")
  /\ step \in {"done", "failed"}
  /\ step' = "idle"
  /\ IF step = "done" THEN Succeed ELSE Fail
  /\ UNCHANGED <<config, diskJobs, upperVars, cfg, reload, error, historyVars,
                 lockVars, mainVars, bootVars, failed, kept>>

\* With a persistent upper layer, the upper directory is created if it is
\* missing and cleared if the configuration says so.
ClearedWork == IF cfg \in ClearUpper /\ work = "upper" THEN "lost" ELSE work

PrepareUpper ==
  IF cfg \in Tmpfs THEN UNCHANGED <<upper, work>>
  ELSE upper' = TRUE /\ work' = ClearedWork

\* obInitOverbootDir.  It may fail before it touches the upper layer, or
\* between removing and creating it.
InitOverbootDir ==
  /\ At("InitOverbootDir")
  /\ \/ Succeed /\ PrepareUpper /\ UNCHANGED error
     \/ Fault("mount") /\ Fail /\ LogError /\ UNCHANGED <<upper, work>>
     \/ /\ Fault("repository") /\ cfg \in ClearUpper \ Tmpfs
        /\ Fail /\ LogError /\ upper' = FALSE /\ work' = ClearedWork
  /\ TaskFrame /\ UNCHANGED <<layer, bootVars>>

\* obInitLowerRoot, obInitOverlayfs, obInitManagementBindings, obInitFstab and
\* obInitDurables.  Some of what they do is only logged when it fails, and
\* obInitOverlayfs may fail without logging anything.
MountTasks == {"InitLowerRoot", "InitOverlayfs", "InitManagementBindings",
               "InitFstab", "InitDurables"}

InitMounts ==
  /\ pc = "task" /\ Tasks[task] \in MountTasks
  /\ \/ Succeed /\ IgnoredFault("remount")
     \/ Fault("mount") /\ Fail /\ MayLogError
  /\ TaskFrame /\ UNCHANGED <<upperVars, bootVars>>

CheckRollback ==
  /\ At("checkRollback")
  /\ IF cfg \in RollBack THEN Fail ELSE Succeed
  /\ TaskFrame /\ UNCHANGED <<upperVars, error, bootVars>>

\* Mutant of UnsetLock: only with the safe mode is the lock removed.
MutUnsetLock ==
  /\ At("UnsetLock")
  /\ lock' = (IF cfg \in SafeMode THEN None ELSE lock)
  /\ Succeed
  /\ UNCHANGED <<config, diskJobs, upperVars, step, cfg, reload, error, historyVars,
                 lockOnDisk, mainVars, bootVars, failed, kept>>

\* obUnsetLock: the lock is removed whatever the configuration says.
UnsetLock ==
  /\ At("UnsetLock")
  /\ \/ lock' = None /\ guarded' = FALSE /\ Succeed /\ UNCHANGED error
     \/ /\ Fault("lock") /\ lock # None
        /\ Fail /\ LogError /\ UNCHANGED <<lock, guarded>>
  /\ UNCHANGED <<config, diskJobs, upperVars, step, cfg, reload, historyVars, lockOnDisk,
                 mainVars, attempted, blocked, failed, kept>>

------------------------------------------------------------------------------
(***************************************************************************)
(* The end of a pass and of the process.                                   *)
(***************************************************************************)

\* Mutant of TasksSucceeded: the error flag is not looked at.
MutTasksSucceeded ==
  /\ pc = "end"
  /\ pc' = "loop"
  /\ composed' = TRUE
  /\ exitCode' = 0
  /\ UNCHANGED <<jobsVars, lockVars, task, maxReloads, bootVars, failed, kept>>

\* What obExecObInitTasks does when every task has succeeded.
TasksSucceeded ==
  /\ pc = "end"
  /\ pc' = IF error THEN "undo" ELSE "loop"
  /\ composed' = ~error
  /\ exitCode' = 0
  /\ UNCHANGED <<jobsVars, lockVars, task, maxReloads, bootVars, failed, kept>>

\* Mutant of Undo: obUnsetLock is the undo function of obInitLock.
MutUndo ==
  /\ pc = "undo"
  /\ pc' = "loop"
  /\ composed' = FALSE
  /\ exitCode' = 1
  /\ lock' = IF task >= 2 THEN None ELSE lock
  /\ UNCHANGED <<jobsVars, lockOnDisk, task, maxReloads, bootVars, failed, kept>>

\* The undo chain; it changes nothing on the disks but what its tasks made.
Undo ==
  /\ pc = "undo"
  /\ pc' = "loop"
  /\ composed' = FALSE
  /\ exitCode' = 1
  /\ IgnoredFault("unmount")
  /\ UNCHANGED <<config, diskJobs, upperVars, step, cfg, reload, historyVars, lockVars,
                 task, maxReloads, bootVars, failed, kept>>

\* Mutant of Again: reloads are not limited.
MutAgain == reload /\ cfg \in Enabled

\* The condition of the loop of main.
Again == maxReloads > 0 /\ reload /\ cfg \in Enabled

NextPass ==
  /\ pc = "loop"
  /\ Again
  /\ pc' = "load"
  /\ UNCHANGED <<jobsVars, lockVars, task, mainVars, bootVars, failed, kept>>

\* Mutant of Exit: any reload without an error counts as a success.
MutExit ==
  /\ pc = "loop"
  /\ ~Again
  /\ pc' = "os"
  /\ exitCode' = IF ~error /\ maxReloads # MaxReloads THEN 0 ELSE exitCode
  /\ UNCHANGED <<jobsVars, lockVars, task, composed, maxReloads, bootVars, failed, kept>>

\* obinit exits and the boot goes on.
Exit ==
  /\ pc = "loop"
  /\ ~Again
  /\ pc' = "os"
  /\ exitCode' = IF ~error /\ maxReloads # MaxReloads /\ cfg \notin Enabled
                   THEN 0 ELSE exitCode
  /\ UNCHANGED <<jobsVars, lockVars, task, composed, maxReloads, bootVars, failed, kept>>

------------------------------------------------------------------------------
(***************************************************************************)
(* While the system is up, and how it goes down.                           *)
(***************************************************************************)

\* obhelper finds Overboot running when the root file system is an overlay.
WhileRunning ==
  /\ pc = "os" /\ composed
  /\ \/ ScheduleUpdate /\ UNCHANGED work
     \/ ScheduleCommit
     \/ ScheduleInstall
     \/ CleanJobs
     \/ cfg \notin Tmpfs /\ WriteFiles
  /\ UNCHANGED <<lockVars, pc, task, mainVars, bootVars, failed, kept>>

WhileNotRunning ==
  /\ pc = "os" /\ ~composed
  /\ EditConfig
  /\ failed' = IF config' # config THEN None ELSE failed
  /\ UNCHANGED <<lockVars, pc, task, mainVars, bootVars, kept>>

\* What the process had in memory is gone.
ForgetProcess ==
  /\ pc' = "off"
  /\ step' = "idle" /\ cfg' = Empty /\ reload' = FALSE /\ error' = FALSE
  /\ task' = 1 /\ composed' = FALSE /\ maxReloads' = MaxReloads /\ exitCode' = 0
  /\ attempted' = FALSE /\ guarded' = FALSE /\ blocked' = FALSE /\ place' = 1
  /\ unsynced' = {} /\ slipped' = FALSE
  /\ UNCHANGED <<updateJob, installJobs, upperVars, promised>>

\* The boot that ends was let through with the configuration file as it is
\* and did not succeed.  `stays' says that its lock is on the disk.
RecordBoot(stays) ==
  IF attempted /\ ~composed /\ cfg = config THEN failed' = config /\ kept' = stays
  ELSE IF composed THEN failed' = None /\ kept' = FALSE
  ELSE UNCHANGED <<failed, kept>>

\* The system is shut down and started again.
Shutdown ==
  /\ pc = "os"
  /\ lockOnDisk' = lock
  /\ RecordBoot(guarded)
  /\ ForgetProcess
  /\ UNCHANGED <<config, lock, commitJob, parts, lost>>

\* The power fails.  The lock may not have reached the disk, nor the new
\* configuration file before sync(), nor the partial ones at all.  A commit job
\* that obhelper has just opened is left empty.  The layer.yaml of a new layer
\* may be cut off as well, which makes no difference: a layer that exists is
\* not committed again, whatever is in it.
PowerLoss ==
  /\ Fault("power")
  /\ pc # "off"
  /\ lock' \in {lock, lockOnDisk} \cup (IF lock # lockOnDisk THEN {BadLock} ELSE {})
  /\ lockOnDisk' = lock'
  /\ IF step \in {"updateWrite", "updateRead", "updateRemove"}
       THEN config' \in {config, cfg, Empty} \cup Torn
       ELSE UNCHANGED config
  /\ \E left \in [unsynced -> PartState] :
       parts' = [p \in Part |-> IF p \in unsynced THEN left[p] ELSE parts[p]]
  /\ lost' = lost \cup {p \in unsynced \ installJobs : parts'[p] \in CutOff}
  /\ \/ UNCHANGED commitJob
     \/ pc = "os" /\ composed /\ commitJob' = Nameless
  /\ IF config' = config
       THEN RecordBoot(guarded /\ lock' = lock)
       ELSE failed' = None /\ kept' = FALSE
  /\ ForgetProcess

------------------------------------------------------------------------------

ObinitStep ==
  \/ LoadContext
  \/ InitPersistentDevice
  \/ LockNotNeeded \/ LockBlocks \/ OpenLock \/ WriteLock
  \/ StartJobs \/ ExecJobs \/ JobsReturn
  \/ InitOverbootDir \/ InitMounts \/ CheckRollback \/ UnsetLock
  \/ TasksSucceeded \/ Undo \/ NextPass \/ Exit
  \/ ScanAgain

Next ==
  \/ ObinitStep
  \/ PowerOn \/ Shutdown \/ PowerLoss
  \/ WhileRunning \/ WhileNotRunning

Spec == Init /\ [][Next]_vars

(***************************************************************************)
(* obinit is a process that nothing else runs beside at this point of the  *)
(* boot: as long as the power is on, it takes its next step.               *)
(***************************************************************************)
FairSpec == Spec /\ WF_vars(ObinitStep)

(***************************************************************************)
(* And the user switches the system on again after it was shut down, and   *)
(* restarts it now and then.                                               *)
(***************************************************************************)
FairBoots == FairSpec /\ WF_vars(PowerOn) /\ WF_vars(Shutdown)

------------------------------------------------------------------------------

TypeOK ==
  /\ JobsTypeOK
  /\ lock \in Content \cup {None, BadLock}
  /\ lockOnDisk \in Content \cup {None, BadLock}
  /\ pc \in {"off", "load", "scan", "task", "lockWrite", "end", "undo", "loop", "os"}
  /\ task \in 1..Len(Tasks) + 1
  /\ composed \in BOOLEAN
  /\ maxReloads \in 0..MaxReloads
  /\ exitCode \in {0, 1}
  /\ attempted \in BOOLEAN
  /\ guarded \in BOOLEAN
  /\ blocked \in BOOLEAN
  /\ failed \in Content \cup {None}
  /\ kept \in BOOLEAN

\* obinit leaves the overlay in place only if no error was logged since it
\* started, in whichever pass, and it then runs on the configuration file that
\* is on the disk and has no job left (ObInitTasks.c:91, ObJobs.c:192-203).
ComposedIsClean ==
  pc = "loop" /\ composed =>
    ~error /\ cfg = config /\ ~PendingJobs

\* A system that runs on the overlay has left no lock behind that could stop
\* its next boot, whichever passes, power failures and configurations without
\* safe mode came before (ObInit.c:438).
NoLockBehindSuccess ==
  pc \in {"loop", "os"} /\ composed => lock = None

\* The safe mode: when a boot failed after it had been let through, and its
\* lock is on the disk, the same configuration file is never tried again
\* behind the lock, unless it was changed in between (ObInit.c:420-430).
SafeModeBlocks ==
  kept /\ failed # None /\ cfg = failed /\ pc = "task" =>
    Tasks[task] \in {"InitPersistentDevice", "InitLock"}

\* A system on the overlay has no partial configuration file that was cut off,
\* however often installing it has failed or was interrupted: the job of such a
\* file is still there, and is done again before (ObJobs.c:61-62).  Only one
\* whose copy failed when it was closed (ObOsUtils.c:292), or that the power
\* took for want of a sync() when it was no longer a job, is there cut off.
NoPartCutOff == composed => \A p \in Part \ lost : parts[p] \notin CutOff

\* Files in the persistent upper layer that the user was promised to commit
\* are in the upper layer or in a layer, whatever failed and however the upper
\* layer is to be cleared (ObJobs.c:151, ObInit.c:63).
PromisedWorkSurvives == promised => work \in {"upper", "layer"}

\* A commit job only goes away during a boot when its layer is complete
\* (ObJobs.c:160-165), but for a layer.yaml whose copy failed when it was
\* closed (ObOsUtils.c:292).
CommitJobIsDone ==
  [][pc = "task" /\ commitJob # None /\ commitJob' = None
       => layer[commitJob] = "complete" \/ slipped]_vars

\* An update job only goes away during a boot when its content is that of the
\* configuration file or an error was logged, which keeps the overlay away
\* (ObJobs.c:28-35), but for a copy that failed when it was closed
\* (ObOsUtils.c:292).
UpdateJobIsDone ==
  [][pc = "task" /\ updateJob # None /\ updateJob' = None
       => config = updateJob \/ error \/ slipped]_vars

\* Every boot comes to the point where the init script goes on, unless the
\* power fails first: reloading the configuration ends (main.c:59-61).  It is
\* supposed that every file that is read can be read to its end.
BootEnds == pc = "load" ~> pc \in {"os", "off"}

(***************************************************************************)
(* What the documentation says, and the code does not do.                  *)
(***************************************************************************)

\* README, Safe mode: obinit is closed at boot "if the previous boot failed
\* and the configuration file has not changed since then".
FailedBootIsBlocked ==
  failed # None /\ cfg = failed /\ pc = "task" =>
    Tasks[task] \in {"InitPersistentDevice", "InitLock"}

\* The same sentence, the other way round: a boot is only closed because of an
\* earlier boot, never because of a lock that this very process wrote.
BlockedByEarlierBoot == ~(blocked /\ guarded)

\* obhelper commit: once it is "scheduled for the next boot", the files in the
\* persistent upper layer become a layer, if there is no layer of that name.
CommitIsExecuted ==
  promised /\ commitJob \in Layer /\ layer[commitJob] = "absent" ~> ~promised

------------------------------------------------------------------------------
(***************************************************************************)
(* The boots implement what ObSystem promises.  While obinit runs, the     *)
(* error flag decides whether a boot can still succeed; when it has        *)
(* exited, its exit code says how the boot has ended: 0 is an overlay in   *)
(* place, or an Overboot that is switched off or could not read that it is *)
(* not.                                                                    *)
(***************************************************************************)
systemStatus ==
  CASE pc = "off" -> "off"
    [] pc = "os"  -> IF exitCode = 1 THEN "failed"
                     ELSE IF composed THEN "composed" ELSE "disabled"
    [] pc = "loop" /\ error /\ exitCode = 0 -> "unread"
    [] OTHER      -> IF error THEN "failing" ELSE "booting"

\* The lock of a boot that failed behind it is there, and is that of the file.
Closed == kept /\ failed # None

System == INSTANCE ObSystem WITH
  Short      <- {Empty} \cup Torn,
  system     <- systemStatus,
  file       <- config,
  update     <- updateJob,
  others     <- commitJob # None \/ installJobs # {},
  repository <- <<commitJob, installJobs, parts, layer, upper, work>>,
  closed     <- Closed

\* A boot composes only the configuration that is on the disk, with every job
\* done and no error on the way; its exit code is 0 only then, or when it was
\* switched off or has not read the configuration; it changes that file only
\* for a job, which it loses only to an error or to a copy that is cut off; and
\* after a boot that failed in the safe mode no boot touches anything until the
\* file is changed, however passes, faults, power failures and users interleave
\* (main.c:27-67, ObInit.c:412-436, ObJobs.c:22-40, ObOsUtils.c:281-292).
ImplementsSystem == System!Spec
==============================================================================
