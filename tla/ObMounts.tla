------------------------------- MODULE ObMounts -------------------------------
(***************************************************************************)
(* What obinit mounts (lib/src/ObInit.c) and what its undo functions       *)
(* (lib/src/ObDeinit.c) make of that when a task fails half-way, on the    *)
(* mount tree of module MountTree.                                         *)
(*                                                                         *)
(* A task is one step, with every way in which one of its calls can fail.  *)
(* Nothing runs beside obinit and mounts do not survive the power, so that *)
(* no other steps come between its calls.                                  *)
(***************************************************************************)
EXTENDS ObInitTasks, MountTree

CONSTANTS
  Contexts,       \* the configurations a pass may be made with: see ContextOK
  InitialMounts,  \* what the init scripts have mounted on and below /root
  Paths           \* paths below the root at which what is seen is compared

FileSystems == {"disk", "usr", "repository", "tmpfs", "overlay", "blocked"}

Root       == <<"root">>
OverbootDir == <<"overlay">>
LowerRoot  == OverbootDir \o <<"lower-root">>
Device     == <<"obmnt">>              \* devMountPoint
Repo       == Device \o <<"overboot">>
DeviceDir  == Root \o <<"obdev">>      \* foundDevicePath of a "DIR"
Binding    == Root \o <<"overboot">>   \* where the overboot dir is bound
Under(dir, name) == dir \o <<name>>

\* The names that the source spells out are strings.
ASSUME NamesAssumption ==
  {"root", "overlay", "lower-root", "obmnt", "overboot", "obdev", "jobs",
   "layers", "upper", "durables"} \subseteq STRING

\* A configuration, with the device type that obFindDevice finds for it.  The
\* durables are in the order of the list, the last one of the file first; each
\* is something below the root.
ContextOK(c) ==
  /\ c.type \in {"BLK", "IMG", "DIR"}
  /\ c.useTmpfs \in BOOLEAN
  /\ c.bindLayers \in BOOLEAN
  /\ c.durables \in Seq(Seq(STRING))
  /\ \A i \in 1..Len(c.durables) : c.durables[i] # <<>>

ASSUME ContextsAssumption == \A c \in Contexts : ContextOK(c)

\* The root file system is mounted on /root, with others below it; none of them
\* hides the root of another, and each is on a directory of its own: what is
\* mounted over another mount would be mounted on its root.
ASSUME InitialMountsAssumption ==
  /\ WellFormed(InitialMounts, FileSystems)
  /\ \A x, y \in InitialMounts : x.parent = y.parent /\ x.at = y.at => x = y
  /\ \E root \in InitialMounts :
       /\ root.parent = RamDisk /\ root.at = Root
       /\ \A m \in InitialMounts \ {root} : m.parent # RamDisk /\ m.at # <<>>

ASSUME PathsAssumption == Paths \subseteq Seq(STRING)

VARIABLES
  mounts,   \* the mount tree
  rootRw,   \* the root file system is mounted read-write
  context,  \* the configuration of this pass
  pc,       \* "exec", "end", "undo", "composed", "restored"
  task,     \* the task that is executed or undone
  error     \* obErrorOccurred()

vars == <<mounts, rootRw, context, pc, task, error>>

Init ==
  /\ mounts = InitialMounts
  /\ rootRw \in BOOLEAN
  /\ context \in Contexts
  /\ pc = "exec"
  /\ task = 1
  /\ error = FALSE

------------------------------------------------------------------------------
At(name) == pc = "exec" /\ Tasks[task] = name

\* The end of a task that returns true, or false, with the mounts it leaves.
Succeed(ms) ==
  /\ mounts' = ms
  /\ IF task = Len(Tasks) THEN pc' = "end" /\ UNCHANGED task
                          ELSE task' = task + 1 /\ UNCHANGED pc
  /\ UNCHANGED context

\* Mutant of Fail: the undo chain starts at the task before the failed one.
MutFail(ms) ==
  /\ mounts' = ms
  /\ pc' = "undo"
  /\ task' = IF task > 1 THEN task - 1 ELSE task
  /\ UNCHANGED context

Fail(ms) ==
  /\ mounts' = ms
  /\ pc' = "undo"
  /\ UNCHANGED <<task, context>>

Return(ok, ms) == IF ok THEN Succeed(ms) ELSE Fail(ms)

\* Calls that failed have logged an error.
Log(failed) == error' = (error \/ failed)

\* A disk of its own: it is found and mounted.
InitBlockDevice ==
  /\ At("InitPersistentDevice") /\ context.type = "BLK"
  /\ \E mounted \in BOOLEAN :
       /\ Return(mounted, IF mounted THEN Mount(mounts, "repository", Device) ELSE mounts)
       /\ Log(~mounted)
  /\ UNCHANGED rootRw

\* An image file on the root file system: that is made writable first.
InitImageFile ==
  /\ At("InitPersistentDevice") /\ context.type = "IMG"
  /\ \E remounted, mounted \in BOOLEAN :
       /\ Return(mounted, IF mounted THEN Mount(mounts, "repository", Device) ELSE mounts)
       /\ rootRw' = (rootRw \/ remounted)
       /\ Log(~remounted \/ ~mounted)

\* A directory of the root file system.  It cannot hold the upper layer.
InitEmbeddedRepository ==
  /\ At("InitPersistentDevice") /\ context.type = "DIR"
  /\ \E remounted, bound \in BOOLEAN :
       LET ok == context.useTmpfs /\ bound
       IN  /\ Return(ok, IF ok THEN Bind(mounts, DeviceDir, Device) ELSE mounts)
           /\ rootRw' = (rootRw \/ remounted)
           /\ Log(~remounted \/ ~ok)

\* Tasks that mount nothing: the lock, the rewriting of the fstab, the rollback
\* option.
TaskWithoutMounts ==
  /\ pc = "exec"
  /\ Tasks[task] \in {"InitLock", "InitFstab", "checkRollback", "UnsetLock"}
  /\ \E ok, logged \in BOOLEAN : Return(ok, mounts) /\ Log(logged)
  /\ UNCHANGED rootRw

\* With a job in the repository the root file system is made writable.  After
\* an update of the configuration the task fails, for the file to be reloaded.
ExecPreInitJobs ==
  /\ At("ExecPreInitJobs")
  /\ \/ Succeed(mounts) /\ UNCHANGED <<rootRw, error>>
     \/ \E ok, remounted, logged \in BOOLEAN :
          /\ Return(ok, mounts)
          /\ rootRw' = (rootRw \/ remounted)
          /\ Log(~remounted \/ logged)

\* A tmpfs for the overlay, with the directories that everything else is put
\* on; the persistent upper directory.
InitOverbootDir ==
  /\ At("InitOverbootDir")
  /\ \E mounted, prepared \in BOOLEAN :
       /\ Return(mounted /\ prepared,
                 IF mounted THEN Mount(mounts, "tmpfs", OverbootDir) ELSE mounts)
       /\ Log(~mounted \/ ~prepared)
  /\ UNCHANGED rootRw

\* The root file system makes way for the overlay.
InitLowerRoot ==
  /\ At("InitLowerRoot")
  /\ \E moved \in BOOLEAN :
       /\ Return(moved, IF moved THEN Move(mounts, Root, LowerRoot) ELSE mounts)
       /\ Log(~moved)
  /\ UNCHANGED rootRw

\* obInitOverlayfs without a chain of layers.  No error needs to be logged.
NoLayers ==
  /\ At("InitOverlayfs")
  /\ Fail(mounts)
  /\ \E logged \in BOOLEAN : Log(logged)
  /\ UNCHANGED rootRw

\* obInitOverlayfs: a failure to mount the overlay does not keep the rest from
\* being done.  What remounting the lower root read-only returns is ignored.
InitOverlayfs ==
  /\ At("InitOverlayfs")
  /\ \E mounted, protected, blocked, blockedRo \in BOOLEAN :
       LET isDir   == context.type = "DIR"
           isBlk   == context.type = "BLK"
           overlay == IF mounted THEN Mount(mounts, "overlay", Root) ELSE mounts
           block   == isDir /\ mounted /\ blocked
           ok      == mounted /\ (isDir => blocked /\ blockedRo)
       IN  /\ Return(ok, IF block THEN Mount(overlay, "blocked", DeviceDir) ELSE overlay)
           /\ rootRw' = (rootRw /\ ~(isBlk /\ protected))
           /\ Log(~ok \/ (isBlk /\ ~protected))

\* Mutant of InitManagementBindings: the overboot directory is bound last.
MutInitManagementBindings ==
  /\ At("InitManagementBindings")
  /\ LET ms == Bind(mounts, Under(Repo, "jobs"), Under(Binding, "jobs"))
     IN  Return(TRUE, Bind(ms, OverbootDir, Binding)) /\ Log(FALSE)
  /\ UNCHANGED rootRw

\* Each binding is only made if those before it were.
InitManagementBindings ==
  /\ At("InitManagementBindings")
  /\ \E overlay, layers, upper, jobs \in BOOLEAN :
       LET ok1 == overlay
           ok2 == ok1 /\ (context.bindLayers => layers)
           ok3 == ok2 /\ (~context.useTmpfs => upper)
           ok4 == ok3 /\ jobs
           ms1 == IF ok1 THEN Bind(mounts, OverbootDir, Binding) ELSE mounts
           ms2 == IF ok2 /\ context.bindLayers
                    THEN Bind(ms1, Under(Repo, "layers"), Under(Binding, "layers")) ELSE ms1
           ms3 == IF ok3 /\ ~context.useTmpfs
                    THEN Bind(ms2, Under(Repo, "upper"), Under(Binding, "upper")) ELSE ms2
           ms4 == IF ok4 THEN Bind(ms3, Under(Repo, "jobs"), Under(Binding, "jobs")) ELSE ms3
       IN  Return(ok4, ms4) /\ Log(~ok4)
  /\ UNCHANGED rootRw

\* Where a durable is kept, and binding the durables of a list in its order.
Persistent(d) == Under(Repo, "durables") \o d

BindDurables(ms, durables) ==
  LET bound[n \in 0..Len(durables)] ==
        IF n = 0 THEN ms
        ELSE Bind(bound[n - 1], Persistent(durables[n]), Root \o durables[n])
  IN  bound[Len(durables)]

\* Durables are bound up to the first one that cannot be; what goes wrong while
\* their persistent copies are made is only logged.
InitDurables ==
  /\ At("InitDurables")
  /\ \E n \in 0..Len(context.durables), logged \in BOOLEAN :
       LET ok == n = Len(context.durables)
       IN  /\ logged => context.durables # <<>>
           /\ Return(ok, BindDurables(mounts, SubSeq(context.durables, 1, n)))
           /\ Log(logged \/ ~ok)
  /\ UNCHANGED rootRw

\* Mutant of TasksSucceeded: what was only logged is not a failure.
MutTasksSucceeded ==
  /\ pc = "end"
  /\ pc' = "composed"
  /\ UNCHANGED <<mounts, rootRw, context, task, error>>

\* Every task has returned true: an error that was logged is a failure still.
TasksSucceeded ==
  /\ pc = "end"
  /\ pc' = IF error THEN "undo" ELSE "composed"
  /\ UNCHANGED <<mounts, rootRw, context, task, error>>

------------------------------------------------------------------------------
(***************************************************************************)
(* The undo chain, from the task that failed back to the first one.  What  *)
(* an undo function unmounts need not be mounted: that is logged.          *)
(***************************************************************************)
Undoing(name) == pc = "undo" /\ Tasks[task] = name

\* Mutant of Undone: the chain does not stop at the first task.
MutUndone(ms) ==
  /\ mounts' = ms
  /\ pc' = IF task = 0 THEN "restored" ELSE pc
  /\ task' = task - 1
  /\ UNCHANGED <<rootRw, context>>

\* The undo function leaves these mounts; the chain goes on with the task
\* before.
Undone(ms) ==
  /\ mounts' = ms
  /\ IF task = 1 THEN pc' = "restored" /\ UNCHANGED task
                 ELSE task' = task - 1 /\ UNCHANGED pc
  /\ UNCHANGED <<rootRw, context>>

NothingToUndo ==
  /\ pc = "undo"
  /\ Tasks[task] \in WithoutUndo \cup {"InitFstab"}
  /\ Undone(mounts)
  /\ UNCHANGED error

\* In the order of the list, whether or not they were bound.
UnmountDurables(ms, durables) ==
  LET left[n \in 0..Len(durables)] ==
        IF n = 0 THEN ms ELSE Unmount(left[n - 1], Root \o durables[n])
  IN  left[Len(durables)]

DeinitDurables ==
  /\ Undoing("InitDurables")
  /\ Undone(UnmountDurables(mounts, context.durables))
  /\ \E logged \in BOOLEAN : Log(logged)

DeinitManagementBindings ==
  /\ Undoing("InitManagementBindings")
  /\ LET ms1 == Unmount(mounts, Under(Binding, "jobs"))
         ms2 == Unmount(ms1, Under(Binding, "layers"))
     IN  Undone(Unmount(ms2, Binding))
  /\ Log(\E dir \in {Under(Binding, "jobs"), Under(Binding, "layers"), Binding} :
           ~IsMountPoint(mounts, dir))

DeinitOverlayfs ==
  /\ Undoing("InitOverlayfs")
  /\ LET ms == IF context.type = "DIR" THEN Unmount(mounts, DeviceDir) ELSE mounts
     IN  Undone(Unmount(ms, Root))
  /\ Log(\/ context.type = "DIR" /\ ~IsMountPoint(mounts, DeviceDir)
         \/ ~IsMountPoint(mounts, Root))

\* Mutant of DeinitLowerRoot: the root file system is not moved back.
MutDeinitLowerRoot ==
  /\ Undoing("InitLowerRoot")
  /\ Undone(mounts)
  /\ UNCHANGED error

DeinitLowerRoot ==
  /\ Undoing("InitLowerRoot")
  /\ Undone(IF IsMountPoint(mounts, LowerRoot) THEN Move(mounts, LowerRoot, Root) ELSE mounts)
  /\ Log(~IsMountPoint(mounts, LowerRoot))

DeinitOverbootDir ==
  /\ Undoing("InitOverbootDir")
  /\ Undone(Unmount(mounts, OverbootDir))
  /\ Log(~IsMountPoint(mounts, OverbootDir))

\* Without the directory of the mount point there is nothing to be done.
DeinitPersistentDevice ==
  /\ Undoing("InitPersistentDevice")
  /\ Undone(Unmount(mounts, Device))
  /\ \E missing \in BOOLEAN : Log(~IsMountPoint(mounts, Device) /\ ~missing)

\* main makes another pass, with what the configuration file says now.
NextPass ==
  /\ pc = "restored"
  /\ pc' = "exec"
  /\ task' = 1
  /\ context' \in Contexts
  /\ UNCHANGED <<mounts, rootRw, error>>

Next ==
  \/ InitBlockDevice \/ InitImageFile \/ InitEmbeddedRepository
  \/ TaskWithoutMounts \/ ExecPreInitJobs \/ InitOverbootDir \/ InitLowerRoot
  \/ NoLayers \/ InitOverlayfs \/ InitManagementBindings \/ InitDurables
  \/ TasksSucceeded
  \/ NothingToUndo
  \/ DeinitDurables \/ DeinitManagementBindings \/ DeinitOverlayfs
  \/ DeinitLowerRoot \/ DeinitOverbootDir \/ DeinitPersistentDevice
  \/ NextPass

Spec == Init /\ [][Next]_vars

------------------------------------------------------------------------------

TypeOK ==
  /\ mounts \subseteq MountRecords(FileSystems)
  /\ rootRw \in BOOLEAN
  /\ context \in Contexts
  /\ pc \in {"exec", "end", "undo", "composed", "restored"}
  /\ task \in 1..Len(Tasks)
  /\ error \in BOOLEAN

\* After a rollback from whatever task, half-done as it may be, the mount tree
\* is that which the init scripts left: the boot goes on as if there were no
\* Overboot (ObTaskList.c:68-77, ObDeinit.c).
RollbackRestores == pc = "restored" => mounts = InitialMounts

\* Below dir one sees what the init scripts have mounted below /root.
InitialSeenAt(dir) ==
  \A path \in Paths : Seen(mounts, dir \o path) = Seen(InitialMounts, Root \o path)

\* At every moment the root file system and what is mounted below it can be
\* reached, at /root or below the overlay; no unmounting takes it with it
\* (ObInit.c:199, ObDeinit.c:42, 53, 65).
RootNeverLost == InitialSeenAt(Root) \/ InitialSeenAt(LowerRoot)

\* A directory of the repository is seen below the overboot directory as well.
Shows(name) == Seen(mounts, Under(Binding, name)) = Seen(mounts, Under(Repo, name))

\* A configuration in which no durable is put over what obinit has put on the
\* overlay itself: durables are bound last.
HidesNothing(c) ==
  \A i \in DOMAIN c.durables :
    c.durables[i][1] # "overboot" /\ c.durables[i] # <<"obdev">>

\* A composed system: the overlay is the root, the root file system is below
\* it with its own mounts, the user finds the overboot directory with the jobs
\* and, if they are asked for, the layers and the persistent upper layer, and
\* a repository directory is covered (ObInit.c:208-330).
Layout ==
  pc = "composed" =>
    /\ Seen(mounts, Root) = [fs |-> "overlay", dir |-> <<>>]
    /\ InitialSeenAt(LowerRoot)
    /\ HidesNothing(context) =>
         /\ InitialSeenAt(Under(Binding, "lower-root"))
         /\ Shows("jobs")
         /\ context.bindLayers => Shows("layers")
         /\ ~context.useTmpfs => Shows("upper")
         /\ context.type = "DIR" => Seen(mounts, DeviceDir).fs = "blocked"

\* With a repository on a disk of its own, a composed system has its root file
\* system read-only, although the return value of that remount is ignored
\* (ObInit.c:261): the error it logs undoes the composition.
LowerRootProtected == pc = "composed" /\ context.type = "BLK" => ~rootRw

\* Every durable of a composed system shows its persistent copy, also those
\* that lie inside of each other, in whichever order they are bound
\* (ObInit.c:351-405).
DurablesVisible ==
  pc = "composed" =>
    \A i \in DOMAIN context.durables :
      LET d == context.durables[i]
      IN  Seen(mounts, Root \o d) = Seen(mounts, Persistent(d))
==============================================================================
