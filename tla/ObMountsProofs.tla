---------------------------- MODULE ObMountsProofs ----------------------------
(***************************************************************************)
(* What holds of the mounts of obinit, whatever the configurations, the    *)
(* durables and the mounts of the init scripts are.                        *)
(*                                                                         *)
(* First, the root file system below a composed system is read-only.  What *)
(* remounting it returns is not looked at (obInitOverlayfs), so that this  *)
(* hangs on the error flag, which lasts over all passes, and on the order  *)
(* of the tasks: none behind InitOverlayfs makes it writable again.        *)
(*                                                                         *)
(* Second, a rollback restores the mounts of the init scripts, and the     *)
(* root file system can be reached at every moment.  The mounts are built  *)
(* up in four steps (Built), each a tree of its own that the later ones    *)
(* leave alone: a task takes them one step up or leaves them where they    *)
(* are, and an undo function, which does not know how far its task has     *)
(* come, takes them to the step that the task found.                       *)
(*                                                                         *)
(* Third, a composed system looks as it should: every durable shows its    *)
(* persistent copy, the user finds the overboot directory.  What is put on *)
(* the overlay is seen in its place and nothing else looks different       *)
(* (Adds), so that what a task has made is still there after those behind  *)
(* it, unless they put something on that very place.                       *)
(***************************************************************************)
EXTENDS ObMounts, MountTreeProofs

BooleansOK == rootRw \in BOOLEAN /\ error \in BOOLEAN

PassOK ==
  /\ task \in 1..Len(Tasks)
  /\ pc \in {"exec", "end", "undo", "composed", "restored"}

\* A task has been executed in this pass, without a failure so far: the sixth one
\* is InitOverlayfs.
Past(n) == pc \in {"end", "composed"} \/ (pc = "exec" /\ task > n)

ProtectedOK == Past(6) /\ context.type = "BLK" /\ ~error => ~rootRw

CleanOK == pc = "composed" => ~error

IInv == BooleansOK /\ PassOK /\ ProtectedOK /\ CleanOK

------------------------------------------------------------------------------

\* The places of the tasks.
LEMMA TaskPlaces ==
  /\ Len(Tasks) = 11 /\ Tasks[1] = "InitPersistentDevice"
  /\ \A i \in 1..11 :
       /\ Tasks[i] \in {"InitLock", "InitFstab", "checkRollback", "UnsetLock"}
            => i \in {2, 8, 10, 11}
       /\ Tasks[i] \in WithoutUndo \cup {"InitFstab"} => i \in {2, 3, 8, 10, 11}
       /\ Tasks[i] = "InitPersistentDevice" => i = 1
       /\ Tasks[i] = "ExecPreInitJobs" => i = 3
       /\ Tasks[i] = "InitOverbootDir" => i = 4
       /\ Tasks[i] = "InitLowerRoot" => i = 5
       /\ Tasks[i] = "InitOverlayfs" => i = 6
       /\ Tasks[i] = "InitManagementBindings" => i = 7
       /\ Tasks[i] = "InitDurables" => i = 9
  BY DEF Tasks, WithoutUndo

\* Booleans stay Booleans.
LEMMA BooleansPreserved == IInv /\ [Next]_vars => BooleansOK'
<1> SUFFICES ASSUME IInv, [Next]_vars PROVE BooleansOK'
  OBVIOUS
<1> USE DEF IInv, BooleansOK, Log, Undone, vars
<1>1. CASE InitBlockDevice
  BY <1>1, Zenon DEF InitBlockDevice
<1>2. CASE InitImageFile
  BY <1>2, Zenon DEF InitImageFile
<1>3. CASE InitEmbeddedRepository
  BY <1>3, Zenon DEF InitEmbeddedRepository
<1>4. CASE TaskWithoutMounts
  BY <1>4, Zenon DEF TaskWithoutMounts
<1>5. CASE ExecPreInitJobs
  BY <1>5, Zenon DEF ExecPreInitJobs
<1>6. CASE InitOverbootDir
  BY <1>6, Zenon DEF InitOverbootDir
<1>7. CASE InitLowerRoot
  BY <1>7, Zenon DEF InitLowerRoot
<1>8. CASE NoLayers
  BY <1>8, Zenon DEF NoLayers
<1>9. CASE InitOverlayfs
  BY <1>9, Zenon DEF InitOverlayfs
<1>10. CASE InitManagementBindings
  BY <1>10, ZenonT(60) DEF InitManagementBindings
<1>11. CASE InitDurables
  BY <1>11, Zenon DEF InitDurables
<1>12. CASE TasksSucceeded
  BY <1>12, Zenon DEF TasksSucceeded
<1>13. CASE NothingToUndo
  BY <1>13, Zenon DEF NothingToUndo
<1>14. CASE DeinitDurables
  BY <1>14, Zenon DEF DeinitDurables
<1>15. CASE DeinitManagementBindings
  BY <1>15, Zenon DEF DeinitManagementBindings
<1>16. CASE DeinitOverlayfs
  BY <1>16, Zenon DEF DeinitOverlayfs
<1>17. CASE DeinitLowerRoot
  BY <1>17, Zenon DEF DeinitLowerRoot
<1>18. CASE DeinitOverbootDir
  BY <1>18, Zenon DEF DeinitOverbootDir
<1>19. CASE DeinitPersistentDevice
  BY <1>19, Zenon DEF DeinitPersistentDevice
<1>20. CASE NextPass
  BY <1>20, Zenon DEF NextPass
<1>21. CASE UNCHANGED vars
  BY <1>21, Zenon
<1> QED BY <1>1, <1>2, <1>3, <1>4, <1>5, <1>6, <1>7, <1>8, <1>9, <1>10, <1>11,
    <1>12, <1>13, <1>14, <1>15, <1>16, <1>17, <1>18, <1>19, <1>20, <1>21
    DEF Next

\* An error that has been logged stays logged.
LEMMA ErrorStays == IInv /\ [Next]_vars /\ ~error' => ~error
<1> SUFFICES ASSUME IInv, [Next]_vars, error PROVE error'
  OBVIOUS
<1> QED BY ZenonT(60) DEF Next, vars, Log, Undone, InitBlockDevice, InitImageFile,
    InitEmbeddedRepository, TaskWithoutMounts, ExecPreInitJobs, InitOverbootDir,
    InitLowerRoot, NoLayers, InitOverlayfs, InitManagementBindings,
    InitDurables, TasksSucceeded, NothingToUndo, DeinitDurables,
    DeinitManagementBindings, DeinitOverlayfs, DeinitLowerRoot,
    DeinitOverbootDir, DeinitPersistentDevice, NextPass

\* How a task ends.
LEMMA Ends ==
  ASSUME PassOK, NEW ok \in BOOLEAN, NEW ms, pc = "exec", Return(ok, ms)
  PROVE  /\ PassOK' /\ context' = context /\ pc' # "composed"
         /\ Past(6)' => task >= 6 /\ (task = 6 => ok)
<1>1. CASE ok
  BY <1>1, TaskPlaces DEF Return, Succeed, PassOK, Past
<1>2. CASE ~ok
  BY <1>2 DEF Return, Fail, PassOK, Past
<1> QED BY <1>1, <1>2

\* Every task ends by returning something.
LEMMA Returns ==
  ASSUME \/ InitBlockDevice \/ InitImageFile \/ InitEmbeddedRepository
         \/ TaskWithoutMounts \/ ExecPreInitJobs \/ InitOverbootDir
         \/ InitLowerRoot \/ NoLayers \/ InitOverlayfs
         \/ InitManagementBindings \/ InitDurables
  PROVE  pc = "exec" /\ \E ok \in BOOLEAN : \E ms : Return(ok, ms)
<1> USE DEF At
<1>1. CASE InitBlockDevice \/ InitImageFile \/ InitEmbeddedRepository
  BY <1>1, Zenon DEF InitBlockDevice, InitImageFile, InitEmbeddedRepository
<1>2. CASE TaskWithoutMounts \/ ExecPreInitJobs
  BY <1>2, Zenon DEF TaskWithoutMounts, ExecPreInitJobs, Return
<1>3. CASE InitOverbootDir \/ InitLowerRoot
  BY <1>3, Zenon DEF InitOverbootDir, InitLowerRoot
<1>4. CASE NoLayers
  BY <1>4, Zenon DEF NoLayers, Return
<1>5. CASE InitOverlayfs
  BY <1>5, Zenon DEF InitOverlayfs
<1>6. CASE InitManagementBindings
  <2>1. pc = "exec" /\ \E ok, ms : Return(ok, ms)
    BY <1>6, SMT DEF InitManagementBindings
  <2> QED BY <2>1, Zenon DEF Return
<1>7. CASE InitDurables
  <2>1. pc = "exec" /\ \E ok, ms : Return(ok, ms)
    BY <1>7, Zenon DEF InitDurables
  <2> QED BY <2>1, Zenon DEF Return
<1> QED BY <1>1, <1>2, <1>3, <1>4, <1>5, <1>6, <1>7

\* A step that executes no task leaves the pass before or behind the overlay,
\* and makes nothing writable.
LEMMA OtherSteps ==
  ASSUME PassOK,
         \/ NothingToUndo \/ DeinitDurables \/ DeinitManagementBindings
         \/ DeinitOverlayfs \/ DeinitLowerRoot \/ DeinitOverbootDir
         \/ DeinitPersistentDevice \/ NextPass
  PROVE  PassOK' /\ ~Past(6)'
<1>1. CASE NextPass
  BY <1>1, TaskPlaces DEF NextPass, PassOK, Past
<1>2. CASE ~NextPass
  <2>1. pc = "undo" /\ \E ms : Undone(ms)
    BY <1>2, Zenon DEF NothingToUndo, DeinitDurables, DeinitManagementBindings,
       DeinitOverlayfs, DeinitLowerRoot, DeinitOverbootDir,
       DeinitPersistentDevice, Undoing
  <2> QED BY <2>1 DEF Undone, PassOK, Past
<1> QED BY <1>1, <1>2

\* The places of the pass, and what it makes of the root file system.
LEMMA PassPreserved == IInv /\ [Next]_vars => PassOK' /\ ProtectedOK'
<1> SUFFICES ASSUME IInv, [Next]_vars PROVE PassOK' /\ ProtectedOK'
  OBVIOUS
<1>0. PassOK /\ (~error' => ~error)
  BY ErrorStays DEF IInv
<1> USE DEF At
<1>1. ASSUME NEW ok \in BOOLEAN, NEW ms, pc = "exec", Return(ok, ms), task < 6
      PROVE  PassOK' /\ ProtectedOK'
  <2>1. PassOK' /\ ~Past(6)'
    BY <1>0, <1>1, Ends DEF PassOK
  <2> QED BY <2>1 DEF ProtectedOK
<1>2. ASSUME NEW ok \in BOOLEAN, NEW ms, pc = "exec", Return(ok, ms),
             rootRw' = rootRw, task # 6
      PROVE  PassOK' /\ ProtectedOK'
  <2>1. /\ PassOK' /\ context' = context
        /\ Past(6)' => Past(6)
    BY <1>0, <1>2, Ends DEF PassOK, Past
  <2> QED BY <1>0, <1>2, <2>1, Zenon DEF ProtectedOK, IInv
<1>3. CASE InitBlockDevice \/ InitImageFile \/ InitEmbeddedRepository
  <2>1. pc = "exec" /\ task = 1
    BY <1>0, <1>3, TaskPlaces
       DEF InitBlockDevice, InitImageFile, InitEmbeddedRepository, PassOK
  <2>2. \E ok \in BOOLEAN : \E ms : Return(ok, ms)
    BY <1>3, Returns
  <2> QED BY <2>1, <2>2, <1>1
<1>4. CASE ExecPreInitJobs
  <2>1. pc = "exec" /\ task = 3
    BY <1>0, <1>4, TaskPlaces DEF ExecPreInitJobs, PassOK
  <2>2. \E ok \in BOOLEAN : \E ms : Return(ok, ms)
    BY <1>4, Returns
  <2> QED BY <2>1, <2>2, <1>1
<1>5. CASE \/ TaskWithoutMounts \/ InitOverbootDir \/ InitLowerRoot
           \/ InitManagementBindings \/ InitDurables
  <2>1. pc = "exec" /\ task # 6 /\ rootRw' = rootRw
    BY <1>0, <1>5, TaskPlaces
       DEF TaskWithoutMounts, InitOverbootDir, InitLowerRoot,
           InitManagementBindings, InitDurables, PassOK
  <2>2. \E ok \in BOOLEAN : \E ms : Return(ok, ms)
    BY <1>5, Returns
  <2> QED BY <2>1, <2>2, <1>2
<1>6. CASE NoLayers
  <2>1. PassOK' /\ ~Past(6)'
    BY <1>0, <1>6 DEF NoLayers, Fail, PassOK, Past
  <2> QED BY <2>1 DEF ProtectedOK
<1>7. CASE InitOverlayfs
  <2>1. pc = "exec" /\ task = 6
    BY <1>0, <1>7, TaskPlaces DEF InitOverlayfs, PassOK
  <2>2. \E ok \in BOOLEAN : \E ms : Return(ok, ms)
    BY <1>7, Zenon DEF InitOverlayfs
  <2>3. PassOK' /\ context' = context
    BY <1>0, <2>1, <2>2, Ends
  <2>4. context.type = "BLK" /\ ~error' => ~rootRw'
    BY <1>7, Zenon DEF InitOverlayfs, Log
  <2> QED BY <2>3, <2>4, Zenon DEF ProtectedOK
<1>8. CASE TasksSucceeded
  <2>1. PassOK' /\ context' = context /\ pc = "end"
    BY <1>0, <1>8 DEF TasksSucceeded, PassOK
  <2>2. rootRw' = rootRw /\ error' = error /\ Past(6)
    BY <1>8, <2>1 DEF TasksSucceeded, Past
  <2> QED BY <2>1, <2>2, Zenon DEF ProtectedOK, IInv
<1>9. CASE \/ NothingToUndo \/ DeinitDurables \/ DeinitManagementBindings
           \/ DeinitOverlayfs \/ DeinitLowerRoot \/ DeinitOverbootDir
           \/ DeinitPersistentDevice \/ NextPass
  <2>1. PassOK' /\ ~Past(6)'
    BY <1>0, <1>9, OtherSteps DEF IInv
  <2> QED BY <2>1 DEF ProtectedOK
<1>10. CASE UNCHANGED vars
  <2>1. /\ pc' = pc /\ task' = task /\ context' = context
        /\ rootRw' = rootRw /\ error' = error
    BY <1>10 DEF vars
  <2> QED BY <2>1, Zenon DEF IInv, PassOK, ProtectedOK, Past
<1> QED BY <1>3, <1>4, <1>5, <1>6, <1>7, <1>8, <1>9, <1>10 DEF Next

\* A system with a logged error is not composed.
LEMMA CleanPreserved == IInv /\ [Next]_vars => CleanOK'
<1> SUFFICES ASSUME IInv, [Next]_vars, pc' = "composed" PROVE ~error'
  BY DEF CleanOK
<1>1. CASE TasksSucceeded
  BY <1>1, Zenon DEF TasksSucceeded, IInv
<1>2. CASE UNCHANGED vars
  BY <1>2, Zenon DEF vars, IInv, CleanOK
<1>3. CASE Next /\ ~TasksSucceeded
  <2>1. ASSUME NEW ok \in BOOLEAN, NEW ms, pc = "exec", Return(ok, ms)
        PROVE  FALSE
    BY <2>1, Ends DEF IInv
  <2>2. ~(\/ NothingToUndo \/ DeinitDurables \/ DeinitManagementBindings
          \/ DeinitOverlayfs \/ DeinitLowerRoot \/ DeinitOverbootDir
          \/ DeinitPersistentDevice \/ NextPass)
    BY OtherSteps DEF IInv, Past
  <2> QED BY <1>3, <2>1, <2>2, Returns DEF Next
<1> QED BY <1>1, <1>2, <1>3

------------------------------------------------------------------------------

\* Every reachable state satisfies the invariant.
THEOREM Invariance == Spec => []IInv
<1>1. Init => IInv
  <2> SUFFICES ASSUME Init PROVE IInv
    OBVIOUS
  <2>1. BooleansOK
    BY Zenon DEF Init, BooleansOK
  <2>2. PassOK /\ ~Past(6) /\ CleanOK
    BY TaskPlaces DEF Init, PassOK, CleanOK, Past
  <2> QED BY <2>1, <2>2 DEF IInv, ProtectedOK
<1>2. IInv /\ [Next]_vars => IInv'
  BY BooleansPreserved, PassPreserved, CleanPreserved DEF IInv
<1> QED BY <1>1, <1>2, PTL DEF Spec

\* A composed system with a repository on a disk of its own has its root file
\* system read-only, although obInitOverlayfs does not look at what remounting
\* it returns.
THEOREM RootIsProtected == Spec => []LowerRootProtected
<1>1. IInv => LowerRootProtected
  BY Zenon
     DEF IInv, ProtectedOK, CleanOK, Past, LowerRootProtected
<1> QED BY Invariance, <1>1, PTL

------------------------------------------------------------------------------

\* The root file system as the init scripts left it, and the mounts below it.
TheRoot == CHOOSE m \in InitialMounts : m.parent = RamDisk
Rest == InitialMounts \ {TheRoot}

\* A tree on a directory of the RAM disk, with nothing on its own root.
Hangs(ms, R, top, dir) ==
  TreeOf(ms, R, top) /\ top.parent = RamDisk /\ top.at = dir /\ BareRoot(ms, top)

\* The mounts are those of the init scripts, with the root file system in its
\* place r, those of the repository D, the tmpfs T and those of the overlay O.
\* Those of the repository are each on a directory of its own.
Parts(ms, r, D, T, O) ==
  /\ WellFormed(ms, FileSystems)
  /\ ms = Rest \cup {r} \cup D \cup T \cup O
  /\ Closed(ms, Rest \cup {r}) /\ Plain(D)
  /\ (Rest \cup {r}) \cap D = {} /\ (Rest \cup {r}) \cap T = {}
  /\ (Rest \cup {r}) \cap O = {} /\ D \cap T = {} /\ D \cap O = {} /\ T \cap O = {}

\* The steps in which they are built up, and taken down again: the repository,
\* the tmpfs, the root file system on it, the overlay.
HasDevice(n)  == n >= 1
HasTmpfs(n)   == n >= 2
RootMoved(n)  == n >= 3
HasOverlay(n) == n >= 4

LowerDir == <<"lower-root">>

Level(ms, n, r, D, T, O) ==
  /\ IF HasDevice(n) THEN \E d : Hangs(ms, D, d, Device) ELSE D = {}
  /\ IF HasTmpfs(n)
       THEN \E t : /\ T = {t} /\ t.parent = RamDisk /\ t.at = OverbootDir
                  /\ Below(ms, T) \subseteq {r}
       ELSE T = {}
  /\ IF RootMoved(n) THEN \E t \in T : r = WithPlace(TheRoot, t.id, LowerDir)
                     ELSE r = TheRoot
  /\ IF HasOverlay(n) THEN \E o : Hangs(ms, O, o, Root) ELSE O = {}

Stands(ms, n, r, D, T, O) ==
  n \in 0..4 /\ Parts(ms, r, D, T, O) /\ Level(ms, n, r, D, T, O)

Built(ms, n) == \E r, D, T, O : Stands(ms, n, r, D, T, O)

\* How far the mounts are built up before a task is executed.
LevelBefore == <<0, 1, 1, 1, 2, 3, 4, 4, 4, 4, 4, 4>>

\* A task that is undone may have been done, or not.
BuiltOK ==
  CASE pc = "exec"     -> Built(mounts, LevelBefore[task])
    [] pc = "undo"     -> \E i \in {task, task + 1} : Built(mounts, LevelBefore[i])
    [] pc = "restored" -> Built(mounts, 0) /\ task = 1
    [] OTHER           -> Built(mounts, 4) /\ task = Len(Tasks)

------------------------------------------------------------------------------

\* No mounts are on no directory.
LEMMA NothingPlain == Plain({})
  BY DEF Plain

\* What the init scripts have mounted.
LEMMA RootFacts ==
  /\ TheRoot \in InitialMounts /\ TheRoot.parent = RamDisk /\ TheRoot.at = Root
  /\ TheRoot \in MountRecords(FileSystems) /\ TheRoot.id \in Nat \ {RamDisk}
  /\ InitialMounts = Rest \cup {TheRoot} /\ TheRoot \notin Rest
  /\ \A m \in Rest : /\ m.parent \in Ids(InitialMounts) /\ m.parent # RamDisk
                     /\ m.at # <<>> /\ m.id # TheRoot.id
  /\ \A m \in InitialMounts : m.id # RamDisk
<1>1. PICK root \in InitialMounts :
        /\ root.parent = RamDisk /\ root.at = Root
        /\ \A m \in InitialMounts \ {root} : m.parent # RamDisk /\ m.at # <<>>
  BY InitialMountsAssumption
<1>2. TheRoot = root
  BY <1>1 DEF TheRoot
<1>3. TheRoot \in MountRecords(FileSystems)
  BY <1>2, InitialMountsAssumption DEF WellFormed
<1>4. TheRoot.id \in Nat \ {RamDisk}
  BY <1>3 DEF MountRecords
<1>5. InitialMounts = Rest \cup {TheRoot} /\ TheRoot \notin Rest
  BY <1>1, <1>2 DEF Rest
<1>6. ASSUME NEW m \in Rest
      PROVE  /\ m.parent \in Ids(InitialMounts) /\ m.parent # RamDisk
             /\ m.at # <<>> /\ m.id # TheRoot.id
  <2>1. m \in InitialMounts /\ m # TheRoot
    BY DEF Rest
  <2>2. m.parent # RamDisk /\ m.at # <<>>
    BY <1>1, <1>2, <2>1
  <2>3. m.parent \in Ids(InitialMounts) \cup {RamDisk} /\ m.id # TheRoot.id
    BY <1>1, <1>2, <2>1, InitialMountsAssumption DEF WellFormed
  <2> QED BY <2>2, <2>3
<1>7. \A m \in InitialMounts : m.id # RamDisk
  BY InitialMountsAssumption DEF WellFormed, MountRecords
<1> QED BY <1>1, <1>2, <1>3, <1>4, <1>5, <1>6, <1>7

\* The root file system is where it was, or on the tmpfs, and always the same.
LEMMA RootInPlace ==
  ASSUME NEW ms, NEW n, NEW r, NEW D, NEW T, NEW O, Stands(ms, n, r, D, T, O),
         ~RootMoved(n)
  PROVE  r = TheRoot
  BY DEF Stands, Level

\* Once it has been moved, it is on the tmpfs, and is the same file system still.
LEMMA RootOnTmpfs ==
  ASSUME NEW ms, NEW n, NEW r, NEW D, NEW T, NEW O, Stands(ms, n, r, D, T, O),
         RootMoved(n)
  PROVE  \E t \in T \cap ms :
           /\ r = WithPlace(TheRoot, t.id, LowerDir) /\ t.id \in Nat
           /\ r.parent = t.id /\ r.at = LowerDir
           /\ r.id = TheRoot.id /\ r.fs = TheRoot.fs /\ r.dir = TheRoot.dir
<1>1. PICK t \in T : r = WithPlace(TheRoot, t.id, LowerDir)
  BY DEF Stands, Level
<1>2. t \in ms
  BY DEF Stands, Parts
<1>3. t.id \in Nat
  BY <1>2 DEF Stands, Parts, WellFormed, MountRecords
<1>4. LowerDir \in Seq(STRING)
  <2>1. "lower-root" \in STRING
    BY NamesAssumption
  <2> QED BY <2>1, OneName DEF LowerDir
<1>5. /\ r.id = TheRoot.id /\ r.fs = TheRoot.fs /\ r.dir = TheRoot.dir
      /\ r.parent = t.id /\ r.at = LowerDir
  BY <1>1, <1>3, <1>4, RootFacts, RecordWithPlace
<1> QED BY <1>1, <1>2, <1>3, <1>5

\* Wherever it is, it has the identity that it had.
LEMMA RootIdentity ==
  ASSUME NEW ms, NEW n, NEW r, NEW D, NEW T, NEW O, Stands(ms, n, r, D, T, O)
  PROVE  /\ r \in ms /\ r.id = TheRoot.id /\ r.fs = TheRoot.fs /\ r.dir = TheRoot.dir
         /\ Ids(Rest \cup {r}) = Ids(InitialMounts)
<1>1. r \in ms
  BY DEF Stands, Parts
<1>2. r.id = TheRoot.id /\ r.fs = TheRoot.fs /\ r.dir = TheRoot.dir
  BY RootInPlace, RootOnTmpfs
<1>3. Ids(Rest \cup {r}) = Ids(InitialMounts)
  BY <1>2, RootFacts DEF Ids
<1> QED BY <1>1, <1>2, <1>3

\* What there is on the RAM disk.
LEMMA Anatomy ==
  ASSUME NEW ms, NEW n, NEW r, NEW D, NEW T, NEW O, Stands(ms, n, r, D, T, O),
         NEW x \in ms, x.parent = RamDisk
  PROVE  \/ x = r /\ ~RootMoved(n) /\ x.at = Root
         \/ HasDevice(n) /\ x \in D /\ x.at = Device /\ \A d : Hangs(ms, D, d, Device) => x = d
         \/ HasTmpfs(n) /\ x \in T /\ x.at = OverbootDir
         \/ HasOverlay(n) /\ x \in O /\ x.at = Root /\ \A o : Hangs(ms, O, o, Root) => x = o
<1>1. n \in 0..4 /\ x \in Rest \cup {r} \cup D \cup T \cup O
  BY DEF Stands, Parts
<1>2. \A y \in ms : y.id # RamDisk
  BY DEF Stands, Parts, WellFormed, MountRecords
<1>3. \A R, top, dir : Hangs(ms, R, top, dir) /\ x \in R => x = top
  BY <1>2, TreeParents DEF Hangs, TreeOf, Ids
<1>4. CASE x \in Rest
  BY <1>4, RootFacts
<1>5. CASE x = r
  <2>1. ~(RootMoved(n))
    <3> SUFFICES ASSUME RootMoved(n) PROVE FALSE
      OBVIOUS
    <3>1. PICK t \in T \cap ms : r.parent = t.id
      BY RootOnTmpfs
    <3> QED BY <3>1, <1>2, <1>5
  <2>2. x = TheRoot
    BY <2>1, <1>5, RootInPlace
  <2> QED BY <2>1, <2>2, <1>5, RootFacts
<1>6. CASE x \in D
  <2>1. HasDevice(n)
    BY <1>1, <1>6 DEF Stands, Level
  <2>2. PICK d : Hangs(ms, D, d, Device)
    BY <2>1 DEF Stands, Level
  <2>3. x = d
    BY <1>3, <1>6, <2>2
  <2>4. x.at = Device
    BY <2>2, <2>3 DEF Hangs
  <2> QED BY <1>3, <1>6, <2>1, <2>4
<1>7. CASE x \in T
  BY <1>1, <1>7 DEF Stands, Level
<1>8. CASE x \in O
  <2>1. HasOverlay(n)
    BY <1>1, <1>8 DEF Stands, Level
  <2>2. PICK o : Hangs(ms, O, o, Root)
    BY <2>1 DEF Stands, Level
  <2>3. x = o
    BY <1>3, <1>8, <2>2
  <2>4. x.at = Root
    BY <2>2, <2>3 DEF Hangs
  <2> QED BY <1>3, <1>8, <2>1, <2>4
<1> QED BY <1>1, <1>4, <1>5, <1>6, <1>7, <1>8

\* What is built up later stands on what is built up before.
LEMMA Order ==
  ASSUME NEW n
  PROVE  /\ n \in 0..4 => (HasOverlay(n) => RootMoved(n))
         /\ n \in 0..4 => (RootMoved(n) => HasTmpfs(n))
         /\ n \in 0..4 => (HasTmpfs(n) => HasDevice(n))
  BY DEF HasOverlay, RootMoved, HasTmpfs, HasDevice

\* The directories of the RAM disk that are used are three.
LEMMA ThreePlaces ==
  /\ Root = <<"root">> /\ Device = <<"obmnt">> /\ OverbootDir = <<"overlay">>
  /\ Root # Device /\ Root # OverbootDir /\ Device # OverbootDir
  /\ "root" \in STRING /\ "obmnt" \in STRING /\ "overlay" \in STRING
  /\ Root \in Seq(STRING) /\ Device \in Seq(STRING) /\ OverbootDir \in Seq(STRING)
<1>1. "root" \in STRING /\ "obmnt" \in STRING /\ "overlay" \in STRING
  BY NamesAssumption
<1>2. Root \in Seq(STRING) /\ Device \in Seq(STRING) /\ OverbootDir \in Seq(STRING)
  BY <1>1, OneName DEF Root, Device, OverbootDir
<1> QED BY <1>1, <1>2 DEF Root, Device, OverbootDir

\* Mounts are on directories directly below the root of the RAM disk.
LEMMA RamUsed ==
  ASSUME NEW ms, NEW n, NEW r, NEW D, NEW T, NEW O, Stands(ms, n, r, D, T, O)
  PROVE  OnRam(ms)
<1>1. ASSUME NEW x \in ms, x.parent = RamDisk
      PROVE  \E name \in STRING : x.at = <<name>>
  <2>1. x.at \in {Root, Device, OverbootDir}
    BY <1>1, Anatomy
  <2> QED BY <2>1, ThreePlaces
<1> QED BY <1>1 DEF OnRam

\* A tree on a directory of the RAM disk that no other mount covers.
LEMMA HangingSeen ==
  ASSUME NEW ms, WellFormed(ms, FileSystems), OnRam(ms), NEW name \in STRING,
         NEW R, NEW top, Hangs(ms, R, top, <<name>>),
         OnlyAt(ms, name, top),
         NEW rest \in Seq(STRING)
  PROVE  /\ Lookup(ms, <<name>>) = Position(top.id, <<>>)
         /\ Lookup(ms, <<name>> \o rest) \in Inside(R)
         /\ rest # <<>> => Lookup(ms, <<name>> \o rest) # Position(top.id, <<>>)
<1>1. R \in SUBSET ms /\ Closed(ms, R) /\ top \in R /\ top \in ms
  BY DEF Hangs, TreeOf
<1>2. top.parent = RamDisk /\ top.at = <<name>> /\ BareRoot(ms, top)
  BY DEF Hangs
<1>4. Lookup(ms, <<name>>) = Position(top.id, <<>>)
  BY <1>1, <1>2, PathExact
<1>5. Lookup(ms, <<name>> \o rest) \in Inside(R)
  BY <1>1, PathEnters
<1>6. ASSUME rest # <<>> PROVE Lookup(ms, <<name>> \o rest) # Position(top.id, <<>>)
  BY <1>1, <1>2, <1>6, PathLeaves
<1> QED BY <1>4, <1>5, <1>6

\* A mount that is grafted alone has nothing mounted on it.
LEMMA AlonePlain ==
  ASSUME NEW ms, NEW N, NEW new, N = {new}, Grafted(ms, N, new, FileSystems),
         new.parent \in Ids(ms) \cup {RamDisk}
  PROVE  Plain(N)
  BY DEF Plain, Grafted, Ids

\* The repository is seen at its mount point as soon as it is mounted.
LEMMA DeviceSeen ==
  ASSUME NEW ms, NEW n, NEW r, NEW D, NEW T, NEW O, Stands(ms, n, r, D, T, O),
         HasDevice(n), NEW rest \in Seq(STRING)
  PROVE  /\ Lookup(ms, Device \o rest) \in Inside(D)
         /\ \E d : Hangs(ms, D, d, Device) /\ Lookup(ms, Device) = Position(d.id, <<>>)
<1>1. PICK d : Hangs(ms, D, d, Device)
  BY DEF Stands, Level
<1>2. ASSUME NEW x \in ms, x.parent = RamDisk, x.at = Device PROVE x = d
  BY <1>1, <1>2, Anatomy, ThreePlaces
<1>3. WellFormed(ms, FileSystems) /\ OnRam(ms)
  BY RamUsed DEF Stands, Parts
<1>4. Hangs(ms, D, d, <<"obmnt">>) /\ OnlyAt(ms, "obmnt", d)
  <2>1. d \in ms /\ d.parent = RamDisk /\ d.at = Device
    BY <1>1 DEF Hangs, TreeOf
  <2> QED BY <1>1, <1>2, <2>1, ThreePlaces DEF OnlyAt
<1>5. /\ Lookup(ms, <<"obmnt">>) = Position(d.id, <<>>)
      /\ Lookup(ms, <<"obmnt">> \o rest) \in Inside(D)
  BY <1>3, <1>4, HangingSeen, ThreePlaces
<1> QED BY <1>1, <1>5, ThreePlaces

\* Before that there is only the directory.
LEMMA NoDeviceSeen ==
  ASSUME NEW ms, NEW n, NEW r, NEW D, NEW T, NEW O, Stands(ms, n, r, D, T, O),
         ~HasDevice(n)
  PROVE  Lookup(ms, Device) = Position(RamDisk, Device)
<1>1. ASSUME NEW x \in ms, x.parent = RamDisk PROVE x.at # Device
  BY <1>1, Anatomy, ThreePlaces
<1>2. WellFormed(ms, FileSystems) /\ OnRam(ms)
  BY RamUsed DEF Stands, Parts
<1>3. <<>> \in Seq(STRING)
  OBVIOUS
<1> QED BY <1>1, <1>2, <1>3, PathOnRam, ThreePlaces

\* The tmpfs, and the root file system on it.
LEMMA TmpfsSeen ==
  ASSUME NEW ms, NEW n, NEW r, NEW D, NEW T, NEW O, Stands(ms, n, r, D, T, O),
         HasTmpfs(n)
  PROVE  \E t \in ms :
           /\ T = {t} /\ t.id \in Nat \ {RamDisk}
           /\ t.parent = RamDisk /\ t.at = OverbootDir
           /\ \A x \in ms : x.parent = t.id => x = r /\ RootMoved(n) /\ x.at = LowerDir
           /\ Lookup(ms, OverbootDir) = Position(t.id, <<>>)
<1>1. PICK t : /\ T = {t} /\ t.parent = RamDisk /\ t.at = OverbootDir
               /\ Below(ms, T) \subseteq {r}
  BY DEF Stands, Level
<1>2. t \in ms
  BY <1>1 DEF Stands, Parts
<1>3. t.id \in Nat \ {RamDisk}
  BY <1>2 DEF Stands, Parts, WellFormed, MountRecords
<1>4. ASSUME NEW x \in ms, x.parent = t.id
      PROVE  x = r /\ RootMoved(n) /\ x.at = LowerDir
  <2>1. x = r
    BY <1>1, <1>4 DEF Below
  <2>2. RootMoved(n)
    <3> SUFFICES ASSUME ~RootMoved(n) PROVE FALSE
      OBVIOUS
    <3>1. r = TheRoot
      BY RootInPlace
    <3> QED BY <3>1, <2>1, <1>3, <1>4, RootFacts
  <2>3. r.at = LowerDir
    BY <2>2, RootOnTmpfs
  <2> QED BY <2>1, <2>2, <2>3
<1>5. BareRoot(ms, t)
  <2>1. LowerDir # <<>>
    BY DEF LowerDir
  <2> QED BY <2>1, <1>4 DEF BareRoot
<1>6. ASSUME NEW x \in ms, x.parent = RamDisk, x.at = OverbootDir PROVE x = t
  BY <1>1, <1>6, Anatomy, ThreePlaces
<1>7. OnlyAt(ms, "overlay", t)
  BY <1>1, <1>6, ThreePlaces DEF OnlyAt
<1>8. WellFormed(ms, FileSystems) /\ OnRam(ms)
  BY RamUsed DEF Stands, Parts
<1>9. Lookup(ms, <<"overlay">>) = Position(t.id, <<>>)
  BY <1>2, <1>5, <1>7, <1>8, PathExact, ThreePlaces
<1> QED BY <1>1, <1>2, <1>3, <1>4, <1>9, ThreePlaces

\* Before it is mounted there is only the directory.
LEMMA NoTmpfsSeen ==
  ASSUME NEW ms, NEW n, NEW r, NEW D, NEW T, NEW O, Stands(ms, n, r, D, T, O),
         ~HasTmpfs(n)
  PROVE  Lookup(ms, OverbootDir) = Position(RamDisk, OverbootDir)
<1>1. ASSUME NEW x \in ms, x.parent = RamDisk PROVE x.at # OverbootDir
  BY <1>1, Anatomy, ThreePlaces
<1>2. WellFormed(ms, FileSystems) /\ OnRam(ms)
  BY RamUsed DEF Stands, Parts
<1>3. <<>> \in Seq(STRING)
  OBVIOUS
<1> QED BY <1>1, <1>2, <1>3, PathOnRam, ThreePlaces

\* What is mounted on the root file system does not hide its root.
LEMMA RootBare ==
  ASSUME NEW ms, NEW n, NEW r, NEW D, NEW T, NEW O, Stands(ms, n, r, D, T, O)
  PROVE  /\ BareRoot(ms, r) /\ r.parent \notin Ids(Rest \cup {r})
         /\ \A x \in ms : x.parent \in Ids(Rest \cup {r}) => x \in Rest
<1>1. r \in ms /\ r.id = TheRoot.id
  BY RootIdentity
<1>2. r.parent \notin Ids(Rest \cup {r})
  <2>1. CASE ~RootMoved(n)
    <3>1. r.parent = RamDisk
      BY <2>1, RootInPlace, RootFacts
    <3>2. \A x \in Rest \cup {r} : x.id # RamDisk
      BY <1>1, RootFacts
    <3> QED BY <3>1, <3>2 DEF Ids
  <2>2. CASE RootMoved(n)
    <3>1. PICK t \in T \cap ms : r.parent = t.id
      BY <2>2, RootOnTmpfs
    <3>2. t \notin Rest \cup {r} /\ Rest \cup {r} \subseteq ms
      BY DEF Stands, Parts
    <3>3. \A x \in Rest \cup {r} : x.id # t.id
      BY <3>2 DEF Stands, Parts, WellFormed
    <3> QED BY <3>1, <3>3 DEF Ids
  <2> QED BY <2>1, <2>2
<1>3. ASSUME NEW x \in ms, x.parent \in Ids(Rest \cup {r})
      PROVE  x \in Rest
  <2>1. x \in Rest \cup {r}
    BY <1>3 DEF Stands, Parts, Closed, Below, Ids
  <2> QED BY <2>1, <1>2, <1>3
<1>4. BareRoot(ms, r)
  BY <1>3, RootFacts DEF BareRoot, Ids
<1> QED BY <1>2, <1>3, <1>4

\* Wherever the root file system is, what is mounted below it is on directories
\* of its own.
LEMMA RootPlain ==
  ASSUME NEW ms, NEW n, NEW r, NEW D, NEW T, NEW O, Stands(ms, n, r, D, T, O)
  PROVE  Plain(Rest \cup {r})
<1>1. r.parent \notin Ids(Rest \cup {r}) /\ Rest \subseteq InitialMounts
  BY RootBare, RootFacts
<1>2. \A x \in Rest : x.at # <<>>
  BY RootFacts
<1>3. \A x, y \in Rest : x.parent = y.parent /\ x.at = y.at => x = y
  BY <1>1, InitialMountsAssumption
<1> QED BY <1>1, <1>2, <1>3 DEF Plain

\* Where the root file system is moved to.
LEMMA LowerPlace ==
  ASSUME NEW ms, NEW n, NEW r, NEW D, NEW T, NEW O, Stands(ms, n, r, D, T, O),
         HasTmpfs(n)
  PROVE  \E t \in ms :
           /\ T = {t} /\ t.id \in Nat \ {RamDisk}
           /\ \A x \in ms : x.parent = t.id => x = r /\ RootMoved(n) /\ x.at = LowerDir
           /\ Lookup(ms, LowerRoot) = Uppermost(ms, Position(t.id, LowerDir))
<1>1. PICK t \in ms :
        /\ T = {t} /\ t.id \in Nat \ {RamDisk}
        /\ \A x \in ms : x.parent = t.id => x = r /\ RootMoved(n) /\ x.at = LowerDir
        /\ Lookup(ms, OverbootDir) = Position(t.id, <<>>)
  BY TmpfsSeen
<1>2. WellFormed(ms, FileSystems)
  BY DEF Stands, Parts
<1>3. LowerRoot = Append(OverbootDir, "lower-root") /\ "lower-root" \in STRING
  BY NamesAssumption DEF LowerRoot, OverbootDir
<1>4. Lookup(ms, LowerRoot) = Into(ms, Position(t.id, <<>>), "lower-root")
  BY <1>1, <1>2, <1>3, LookupName, ThreePlaces
<1>5. Lookup(ms, LowerRoot) = Uppermost(ms, Position(t.id, LowerDir))
  <2>1. Append(<<>>, "lower-root") = LowerDir
    BY DEF LowerDir
  <2>2. Position(t.id, <<>>).mount = t.id /\ Position(t.id, <<>>).path = <<>>
    BY DEF Position
  <2> QED BY <1>4, <2>1, <2>2 DEF Into
<1> QED BY <1>1, <1>5

\* It is seen there once it has been moved.
LEMMA LowerSeen ==
  ASSUME NEW ms, NEW n, NEW r, NEW D, NEW T, NEW O, Stands(ms, n, r, D, T, O),
         RootMoved(n)
  PROVE  Lookup(ms, LowerRoot) = Position(r.id, <<>>)
<1>0. HasTmpfs(n)
  BY Order DEF Stands
<1>1. PICK t \in ms :
        /\ T = {t} /\ t.id \in Nat \ {RamDisk}
        /\ \A x \in ms : x.parent = t.id => x = r /\ RootMoved(n) /\ x.at = LowerDir
        /\ Lookup(ms, LowerRoot) = Uppermost(ms, Position(t.id, LowerDir))
  BY <1>0, LowerPlace
<1> DEFINE q == Position(t.id, LowerDir)
<1>2. r \in ms /\ r.parent = t.id /\ r.at = LowerDir
  <2>1. PICK u \in T \cap ms : r.parent = u.id /\ r.at = LowerDir
    BY RootOnTmpfs
  <2>2. r \in ms
    BY RootIdentity
  <2> QED BY <2>1, <2>2, <1>1
<1>3. Covering(ms, q) = {r}
  BY <1>2, <1>1 DEF Covering, Position
<1>4. Covering(ms, Position(r.id, <<>>)) = {}
  <2>1. BareRoot(ms, r)
    BY RootBare
  <2> QED BY <2>1 DEF BareRoot, Covering, Position
<1> HIDE DEF q
<1>5. IsFiniteSet(ms)
  BY DEF Stands, Parts, WellFormed
<1>6. Uppermost(ms, q) = Position(r.id, <<>>)
  BY <1>3, <1>4, <1>5, UppermostOfCovered
<1> QED BY <1>1, <1>6 DEF q

\* Before that there is only the directory.
LEMMA LowerEmpty ==
  ASSUME NEW ms, NEW n, NEW r, NEW D, NEW T, NEW O, Stands(ms, n, r, D, T, O),
         HasTmpfs(n), ~RootMoved(n)
  PROVE  \E t : T = {t} /\ Lookup(ms, LowerRoot) = Position(t.id, LowerDir)
<1>1. PICK t \in ms :
        /\ T = {t} /\ t.id \in Nat \ {RamDisk}
        /\ \A x \in ms : x.parent = t.id => x = r /\ RootMoved(n) /\ x.at = LowerDir
        /\ Lookup(ms, LowerRoot) = Uppermost(ms, Position(t.id, LowerDir))
  BY LowerPlace
<1> DEFINE q == Position(t.id, LowerDir)
<1>2. Covering(ms, q) = {}
  BY <1>1 DEF Covering, Position
<1> HIDE DEF q
<1>3. IsFiniteSet(ms)
  BY DEF Stands, Parts, WellFormed
<1>4. Uppermost(ms, q) = q
  BY <1>2, <1>3, UppermostOfUncovered
<1> QED BY <1>1, <1>4 DEF q

\* The root file system in its place.
LEMMA RootSeen ==
  ASSUME NEW ms, NEW n, NEW r, NEW D, NEW T, NEW O, Stands(ms, n, r, D, T, O),
         ~RootMoved(n), NEW rest \in Seq(STRING)
  PROVE  /\ Lookup(ms, Root) = Position(r.id, <<>>)
         /\ Lookup(ms, Root \o rest) \in Inside(Rest \cup {r})
<1>1. r = TheRoot /\ r \in ms
  BY RootInPlace, RootIdentity
<1>2. ~HasOverlay(n)
  BY Order DEF Stands
<1>3. ASSUME NEW x \in ms, x.parent = RamDisk, x.at = Root PROVE x = r
  BY <1>2, <1>3, Anatomy, ThreePlaces
<1>4. OnlyAt(ms, "root", r)
  BY <1>1, <1>3, RootFacts, ThreePlaces DEF OnlyAt
<1>5. WellFormed(ms, FileSystems) /\ OnRam(ms)
  BY RamUsed DEF Stands, Parts
<1>6. BareRoot(ms, r)
  BY RootBare
<1>7. Lookup(ms, <<"root">>) = Position(r.id, <<>>)
  BY <1>1, <1>4, <1>5, <1>6, PathExact, ThreePlaces
<1>8. Rest \cup {r} \in SUBSET ms /\ Closed(ms, Rest \cup {r}) /\ r \in Rest \cup {r}
  BY DEF Stands, Parts
<1>9. Lookup(ms, <<"root">> \o rest) \in Inside(Rest \cup {r})
  BY <1>4, <1>5, <1>8, PathEnters, ThreePlaces
<1> QED BY <1>7, <1>9, ThreePlaces

\* While the overlay is not yet mounted, or no longer, nothing is mounted at /root.
LEMMA NothingAtRoot ==
  ASSUME NEW ms, NEW n, NEW r, NEW D, NEW T, NEW O, Stands(ms, n, r, D, T, O),
         RootMoved(n), ~HasOverlay(n), NEW rest \in Seq(STRING)
  PROVE  /\ Lookup(ms, Root) = Position(RamDisk, Root)
         /\ Lookup(ms, Root \o rest).mount = RamDisk
<1>1. ASSUME NEW x \in ms, x.parent = RamDisk PROVE x.at # Root
  BY <1>1, Anatomy, ThreePlaces
<1>2. WellFormed(ms, FileSystems) /\ OnRam(ms)
  BY RamUsed DEF Stands, Parts
<1> QED BY <1>1, <1>2, PathOnRam, ThreePlaces

\* The overlay in its place.
LEMMA OverlaySeen ==
  ASSUME NEW ms, NEW n, NEW r, NEW D, NEW T, NEW O, Stands(ms, n, r, D, T, O),
         HasOverlay(n)
  PROVE  \E o : /\ Hangs(ms, O, o, Root) /\ Lookup(ms, Root) = Position(o.id, <<>>)
                /\ \A rest \in Seq(STRING) :
                     /\ Lookup(ms, Root \o rest) \in Inside(O)
                     /\ rest # <<>> => Lookup(ms, Root \o rest) # Position(o.id, <<>>)
<1>1. PICK o : Hangs(ms, O, o, Root)
  BY DEF Stands, Level
<1>2. RootMoved(n)
  BY Order DEF Stands
<1>3. ASSUME NEW x \in ms, x.parent = RamDisk, x.at = Root PROVE x = o
  BY <1>1, <1>2, <1>3, Anatomy, ThreePlaces
<1>4. WellFormed(ms, FileSystems) /\ OnRam(ms)
  BY RamUsed DEF Stands, Parts
<1>5. Hangs(ms, O, o, <<"root">>) /\ OnlyAt(ms, "root", o)
  <2>1. o \in ms /\ o.parent = RamDisk /\ o.at = Root
    BY <1>1 DEF Hangs, TreeOf
  <2> QED BY <1>1, <1>3, <2>1, ThreePlaces DEF OnlyAt
<1>6. ASSUME NEW rest \in Seq(STRING)
      PROVE  /\ Lookup(ms, <<"root">>) = Position(o.id, <<>>)
             /\ Lookup(ms, <<"root">> \o rest) \in Inside(O)
             /\ rest # <<>> => Lookup(ms, <<"root">> \o rest) # Position(o.id, <<>>)
  BY <1>4, <1>5, HangingSeen, ThreePlaces
<1>7. <<>> \in Seq(STRING)
  OBVIOUS
<1>8. Lookup(ms, <<"root">>) = Position(o.id, <<>>)
  BY <1>6, <1>7
<1> QED BY <1>1, <1>6, <1>8, ThreePlaces

------------------------------------------------------------------------------

\* A part of the tree is what it was when nothing is mounted on it.
Untouched(ms, ms2, R) == \A x \in ms2 : x.parent \in Ids(R) => x \in ms

\* Such a part stays closed, and a tree stays a tree.
LEMMA Undisturbed ==
  ASSUME NEW ms, NEW R, R \subseteq ms, NEW ms2, Untouched(ms, ms2, R)
  PROVE  /\ Closed(ms, R) => Closed(ms2, R)
         /\ Below(ms2, R) \subseteq Below(ms, R)
         /\ \A top, dir : Hangs(ms, R, top, dir) /\ R \subseteq ms2
                            => Hangs(ms2, R, top, dir)
<1>1. Below(ms2, R) \subseteq Below(ms, R)
  BY DEF Untouched, Below, Ids
<1>2. Closed(ms, R) => Closed(ms2, R)
  BY <1>1 DEF Closed
<1>3. ASSUME NEW top, NEW dir, Hangs(ms, R, top, dir), R \subseteq ms2
      PROVE  Hangs(ms2, R, top, dir)
  <2>1. TreeOf(ms, R, top) /\ BareRoot(ms, top) /\ top \in R
    BY <1>3 DEF Hangs, TreeOf
  <2>2. TreeOf(ms2, R, top)
    BY <1>3, <2>1, TreeKept DEF Untouched
  <2>3. BareRoot(ms2, top)
    BY <2>1 DEF Untouched, BareRoot, Ids
  <2> QED BY <1>3, <2>2, <2>3 DEF Hangs
<1> QED BY <1>1, <1>2, <1>3

\* What is grafted on other mounts, or on the RAM disk, is no part of R.
LEMMA GraftApart ==
  ASSUME NEW ms, WellFormed(ms, FileSystems), NEW N, NEW new,
         Grafted(ms, N, new, FileSystems),
         NEW R, R \subseteq ms, new.parent \notin Ids(R)
  PROVE  Untouched(ms, ms \cup N, R) /\ R \cap N = {}
<1>1. TreeOf(ms \cup N, N, new) /\ Ids(N) \cap Ids(ms) = {}
  BY DEF Grafted
<1>2. ASSUME NEW x \in N, x.parent \in Ids(R) PROVE FALSE
  <2>1. x # new
    BY <1>2
  <2>2. x.parent \in Ids(N)
    BY <1>1, <2>1, TreeParents
  <2> QED BY <1>1, <1>2, <2>2 DEF Ids
<1>3. R \cap N = {}
  BY <1>1 DEF Ids
<1> QED BY <1>2, <1>3 DEF Untouched

\* What is mounted on the RAM disk is a tree of its own.
OnRamDisk(ms, N, new, dir) ==
  /\ Grafted(ms, N, new, FileSystems)
  /\ new.parent = RamDisk /\ new.at = dir
  /\ \A x \in N : x.parent = new.id => x.at # <<>>

\* It hangs on its directory.
LEMMA GraftHangs ==
  ASSUME NEW ms, WellFormed(ms, FileSystems), NEW N, NEW new, NEW dir,
         OnRamDisk(ms, N, new, dir)
  PROVE  /\ Hangs(ms \cup N, N, new, dir)
         /\ ms \cap N = {}
<1>1. TreeOf(ms \cup N, N, new) /\ Ids(N) \cap (Ids(ms) \cup {RamDisk}) = {} /\ new \in N
  BY DEF OnRamDisk, Grafted, TreeOf
<1>2. \A x \in ms : x.parent \in Ids(ms) \cup {RamDisk} /\ x.id # RamDisk
  BY DEF WellFormed, MountRecords
<1>3. BareRoot(ms \cup N, new)
  BY <1>1, <1>2 DEF BareRoot, Ids, OnRamDisk
<1>5. ms \cap N = {}
  BY <1>1 DEF Ids
<1> QED BY <1>1, <1>3, <1>5 DEF Hangs, OnRamDisk

\* No other part of the tree is touched by it.
LEMMA GraftOnRam ==
  ASSUME NEW ms, WellFormed(ms, FileSystems), NEW N, NEW new, NEW dir,
         OnRamDisk(ms, N, new, dir), NEW R, R \subseteq ms
  PROVE  Untouched(ms, ms \cup N, R)
<1>1. Grafted(ms, N, new, FileSystems) /\ new.parent = RamDisk
  BY DEF OnRamDisk
<1>2. new.parent \notin Ids(R)
  BY <1>1 DEF WellFormed, MountRecords, Ids
<1> QED BY <1>1, <1>2, GraftApart

\* The levels one by one.
LEMMA Levels ==
  /\ ~HasDevice(0) /\ ~HasTmpfs(0) /\ ~RootMoved(0) /\ ~HasOverlay(0)
  /\ HasDevice(1) /\ ~HasTmpfs(1) /\ ~RootMoved(1) /\ ~HasOverlay(1)
  /\ HasDevice(2) /\ HasTmpfs(2) /\ ~RootMoved(2) /\ ~HasOverlay(2)
  /\ HasDevice(3) /\ HasTmpfs(3) /\ RootMoved(3) /\ ~HasOverlay(3)
  /\ HasDevice(4) /\ HasTmpfs(4) /\ RootMoved(4) /\ HasOverlay(4)
  BY DEF HasDevice, HasTmpfs, RootMoved, HasOverlay

\* The repository is mounted, or bound.
LEMMA DeviceBuilds ==
  ASSUME NEW ms, Built(ms, 0), NEW N, NEW new, OnRamDisk(ms, N, new, Device),
         Plain(N)
  PROVE  Built(ms \cup N, 1)
<1>1. PICK r, D, T, O : Stands(ms, 0, r, D, T, O)
  BY DEF Built
<1>2. D = {} /\ T = {} /\ O = {} /\ r = TheRoot
  BY <1>1, Levels DEF Stands, Level
<1>3. WellFormed(ms, FileSystems) /\ ms = Rest \cup {r} /\ Closed(ms, Rest \cup {r})
  BY <1>1, <1>2 DEF Stands, Parts
<1>4. Hangs(ms \cup N, N, new, Device) /\ ms \cap N = {}
  BY <1>3, GraftHangs
<1>5. Closed(ms \cup N, Rest \cup {r})
  BY <1>3, GraftOnRam, Undisturbed
<1>6. WellFormed(ms \cup N, FileSystems)
  BY DEF OnRamDisk, Grafted
<1>7. Parts(ms \cup N, r, N, {}, {})
  BY <1>3, <1>4, <1>5, <1>6 DEF Parts
<1>8. Level(ms \cup N, 1, r, N, {}, {})
  BY <1>2, <1>4, Levels DEF Level
<1> QED BY <1>7, <1>8 DEF Built, Stands

\* A tmpfs is mounted for the overlay.
LEMMA TmpfsBuilds ==
  ASSUME NEW ms, Built(ms, 1), NEW new, NEW N, N = {new},
         OnRamDisk(ms, N, new, OverbootDir)
  PROVE  Built(ms \cup N, 2)
<1>1. PICK r, D, T, O : Stands(ms, 1, r, D, T, O)
  BY DEF Built
<1>2. /\ T = {} /\ O = {} /\ r = TheRoot
      /\ \E d : Hangs(ms, D, d, Device)
  BY <1>1, Levels DEF Stands, Level
<1>3. /\ WellFormed(ms, FileSystems) /\ ms = Rest \cup {r} \cup D
      /\ Closed(ms, Rest \cup {r}) /\ (Rest \cup {r}) \cap D = {} /\ Plain(D)
  BY <1>1, <1>2 DEF Stands, Parts
<1>4. \A x \in N : x.parent # new.id
  BY DEF OnRamDisk, Grafted, Ids
<1>5. Hangs(ms \cup N, N, new, OverbootDir) /\ ms \cap N = {}
  BY <1>3, GraftHangs
<1>6. Closed(ms \cup N, Rest \cup {r})
  BY <1>3, GraftOnRam, Undisturbed
<1>7. \E d : Hangs(ms \cup N, D, d, Device)
  <2>1. Untouched(ms, ms \cup N, D)
    BY <1>3, GraftOnRam
  <2> QED BY <2>1, <1>2, <1>3, Undisturbed
<1>8. Below(ms \cup N, N) \subseteq {r}
  <2>1. Below(ms \cup N, N) \subseteq N
    BY <1>5 DEF Hangs, TreeOf, Closed
  <2> QED BY <1>4, <2>1 DEF Below
<1>9. WellFormed(ms \cup N, FileSystems)
  BY DEF OnRamDisk, Grafted
<1>10. Parts(ms \cup N, r, D, N, {})
  BY <1>3, <1>5, <1>6, <1>9 DEF Parts
<1>11. Level(ms \cup N, 2, r, D, N, {})
  BY <1>2, <1>7, <1>8, Levels DEF Level, OnRamDisk
<1> QED BY <1>10, <1>11 DEF Built, Stands

\* The overlay is mounted where the root file system was.
LEMMA OverlayBuilds ==
  ASSUME NEW ms, Built(ms, 3), NEW new, NEW N, N = {new},
         OnRamDisk(ms, N, new, Root)
  PROVE  \E r, D, T : Stands(ms \cup N, 4, r, D, T, N)
<1>1. PICK r, D, T, O : Stands(ms, 3, r, D, T, O)
  BY DEF Built
<1>2. /\ O = {}
      /\ \E d : Hangs(ms, D, d, Device)
      /\ \E t \in T : r = WithPlace(TheRoot, t.id, LowerDir)
  BY <1>1, Levels DEF Stands, Level
<1>3. PICK t : /\ T = {t} /\ t.parent = RamDisk /\ t.at = OverbootDir
               /\ Below(ms, T) \subseteq {r}
  BY <1>1, Levels DEF Stands, Level
<1>4. Parts(ms, r, D, T, {})
  BY <1>1, <1>2 DEF Stands
<1>5. WellFormed(ms, FileSystems) /\ Closed(ms, Rest \cup {r})
      /\ Rest \cup {r} \subseteq ms /\ D \subseteq ms /\ T \subseteq ms
  BY <1>4 DEF Parts
<1>6. \A x \in N : x.parent # new.id
  BY DEF OnRamDisk, Grafted, Ids
<1>7. Hangs(ms \cup N, N, new, Root) /\ ms \cap N = {}
  BY <1>5, GraftHangs
<1>8. Closed(ms \cup N, Rest \cup {r})
  BY <1>5, GraftOnRam, Undisturbed
<1>9. \E d : Hangs(ms \cup N, D, d, Device)
  <2>1. Untouched(ms, ms \cup N, D)
    BY <1>5, GraftOnRam
  <2> QED BY <2>1, <1>2, <1>5, Undisturbed
<1>10. Below(ms \cup N, T) \subseteq {r}
  <2>1. Untouched(ms, ms \cup N, T)
    BY <1>5, GraftOnRam
  <2> QED BY <2>1, <1>3, <1>5, Undisturbed
<1>11. WellFormed(ms \cup N, FileSystems)
  BY DEF OnRamDisk, Grafted
<1>12. Parts(ms \cup N, r, D, T, N)
  BY <1>4, <1>7, <1>8, <1>11 DEF Parts
<1>13. Level(ms \cup N, 4, r, D, T, N)
  BY <1>2, <1>3, <1>7, <1>9, <1>10, Levels DEF Level
<1> QED BY <1>12, <1>13 DEF Stands

\* What is grafted on the overlay becomes a part of it.
LEMMA OverlayGrows ==
  ASSUME NEW ms, NEW r, NEW D, NEW T, NEW O, Stands(ms, 4, r, D, T, O),
         NEW o, Hangs(ms, O, o, Root),
         NEW N, NEW new, Grafted(ms, N, new, FileSystems),
         new.parent \in Ids(O), new.parent = o.id => new.at # <<>>
  PROVE  /\ Stands(ms \cup N, 4, r, D, T, O \cup N)
         /\ Hangs(ms \cup N, O \cup N, o, Root)
<1>1. /\ \E d : Hangs(ms, D, d, Device)
      /\ \E t \in T : r = WithPlace(TheRoot, t.id, LowerDir)
  BY Levels DEF Stands, Level
<1>2. PICK t : /\ T = {t} /\ t.parent = RamDisk /\ t.at = OverbootDir
               /\ Below(ms, T) \subseteq {r}
  BY Levels DEF Stands, Level
<1> DEFINE A == Rest \cup {r}
<1>3. Parts(ms, r, D, T, O)
  BY DEF Stands
<1>4. /\ WellFormed(ms, FileSystems) /\ Closed(ms, A)
      /\ A \subseteq ms /\ D \subseteq ms /\ T \subseteq ms /\ O \subseteq ms
      /\ A \cap O = {} /\ D \cap O = {} /\ T \cap O = {}
  BY <1>3 DEF Parts
<1>5. \A R : R \subseteq ms /\ R \cap O = {} => new.parent \notin Ids(R)
  BY <1>4 DEF WellFormed, Ids
<1>6. new.parent \notin Ids(A) /\ new.parent \notin Ids(D) /\ new.parent \notin Ids(T)
  <2> HIDE DEF A
  <2> QED BY <1>4, <1>5
<1> HIDE DEF A
<1>7. Untouched(ms, ms \cup N, A) /\ A \cap N = {}
  BY <1>4, <1>6, GraftApart
<1>8. Untouched(ms, ms \cup N, D) /\ D \cap N = {}
  BY <1>4, <1>6, GraftApart
<1>9. Untouched(ms, ms \cup N, T) /\ T \cap N = {}
  BY <1>4, <1>6, GraftApart
<1>10. Closed(ms \cup N, A)
  BY <1>4, <1>7, Undisturbed
<1>11. \E d : Hangs(ms \cup N, D, d, Device)
  BY <1>1, <1>4, <1>8, Undisturbed
<1>12. Below(ms \cup N, T) \subseteq {r}
  BY <1>2, <1>4, <1>9, Undisturbed
<1>13. /\ WellFormed(ms \cup N, FileSystems) /\ TreeOf(ms \cup N, N, new)
       /\ Ids(N) \cap (Ids(ms) \cup {RamDisk}) = {}
  BY DEF Grafted
<1>14. TreeOf(ms, O, o) /\ o.parent = RamDisk /\ o.at = Root /\ BareRoot(ms, o) /\ o \in ms
  BY DEF Hangs, TreeOf
<1>15. \A x \in ms : x.parent \notin Ids(N)
  BY <1>4, <1>13 DEF WellFormed
<1>16. TreeOf(ms \cup N, O \cup N, o)
  BY <1>13, <1>14, <1>15, TreeGrows
<1>17. BareRoot(ms \cup N, o)
  <2>1. ASSUME NEW x \in N, x.parent = o.id PROVE x.at # <<>>
    <3>1. o.id \notin Ids(N)
      BY <1>13, <1>14 DEF Ids
    <3>2. x = new
      BY <1>13, <2>1, <3>1, TreeParents
    <3> QED BY <2>1, <3>2
  <2> QED BY <1>14, <2>1 DEF BareRoot
<1>18. Hangs(ms \cup N, O \cup N, o, Root)
  BY <1>14, <1>16, <1>17 DEF Hangs
<1>19. Parts(ms \cup N, r, D, T, O \cup N)
  BY <1>3, <1>7, <1>8, <1>9, <1>10, <1>13 DEF Parts, A
<1>20. Level(ms \cup N, 4, r, D, T, O \cup N)
  BY <1>1, <1>2, <1>11, <1>12, <1>18, Levels DEF Level
<1> QED BY <1>18, <1>19, <1>20 DEF Stands

\* A position of the overlay other than its root.
LEMMA OverlayPlace ==
  ASSUME NEW ms, NEW r, NEW D, NEW T, NEW O, Stands(ms, 4, r, D, T, O),
         NEW rest \in Seq(STRING), rest # <<>>
  PROVE  \E o : /\ Hangs(ms, O, o, Root) /\ Lookup(ms, Root \o rest) \in Positions
                /\ Lookup(ms, Root \o rest).mount \in Ids(O)
                /\ Lookup(ms, Root \o rest).mount = o.id
                     => Lookup(ms, Root \o rest).path # <<>>
<1>1. PICK o : /\ Hangs(ms, O, o, Root)
               /\ \A end \in Seq(STRING) :
                    /\ Lookup(ms, Root \o end) \in Inside(O)
                    /\ end # <<>> => Lookup(ms, Root \o end) # Position(o.id, <<>>)
  BY OverlaySeen, Levels
<1> DEFINE pos == Lookup(ms, Root \o rest)
<1>2. pos \in Inside(O) /\ pos # Position(o.id, <<>>)
  BY <1>1
<1> HIDE DEF pos
<1>3. pos \in Positions /\ pos.mount \in Ids(O)
  BY <1>2 DEF Inside
<1>4. pos = Position(pos.mount, pos.path)
  BY <1>3 DEF Positions, Position
<1>5. pos.mount = o.id => pos.path # <<>>
  BY <1>2, <1>4
<1> QED BY <1>1, <1>3, <1>5 DEF pos

\* A tree has one top.
LEMMA HangsOnce ==
  ASSUME NEW ms, WellFormed(ms, FileSystems), NEW R, NEW top, NEW dir,
         Hangs(ms, R, top, dir), NEW top2, NEW dir2, Hangs(ms, R, top2, dir2)
  PROVE  top2 = top
<1>1. TreeOf(ms, R, top) /\ top2 \in R /\ top2.parent = RamDisk /\ R \subseteq ms
  BY DEF Hangs, TreeOf
<1>2. RamDisk \notin Ids(R)
  BY <1>1 DEF WellFormed, MountRecords, Ids
<1> QED BY <1>1, <1>2, TreeParents

\* The overlay has grown at its place e, by the mounts N.
Grown(ms, ms2, N, new, e) ==
  \E r, D, T, O, o :
    /\ Stands(ms, 4, r, D, T, O) /\ Stands(ms2, 4, r, D, T, O \cup N)
    /\ GraftedOn(ms, ms2, O, o, N, new, Root, e, FileSystems)

\* So it does when something is mounted there.
LEMMA OverlayGrafted ==
  ASSUME NEW ms, Built(ms, 4), NEW e, IsPath(e), e # <<>>, NEW N, NEW new,
         GraftedAt(ms, N, new, Lookup(ms, Root \o e), FileSystems),
         \A x \in N : x.parent = new.id => x.at # <<>>
  PROVE  Grown(ms, ms \cup N, N, new, e)
<1>1. PICK r, D, T, O : Stands(ms, 4, r, D, T, O)
  BY DEF Built
<1> DEFINE pos == Lookup(ms, Root \o e)
<1>2. PICK o : /\ Hangs(ms, O, o, Root) /\ pos \in Positions
               /\ pos.mount \in Ids(O)
               /\ pos.mount = o.id => pos.path # <<>>
  BY <1>1, OverlayPlace DEF IsPath
<1>3. /\ Grafted(ms, N, new, FileSystems)
      /\ new.parent \in Ids(O) /\ (new.parent = o.id => new.at # <<>>)
  BY <1>2 DEF GraftedAt
<1> HIDE DEF pos
<1>4. Stands(ms \cup N, 4, r, D, T, O \cup N) /\ Hangs(ms \cup N, O \cup N, o, Root)
  BY <1>1, <1>2, <1>3, OverlayGrows
<1>5. WellFormed(ms, FileSystems) /\ WellFormed(ms \cup N, FileSystems)
  BY <1>1, <1>4 DEF Stands, Parts
<1>6. Lookup(ms, Root) = Position(o.id, <<>>)
  <2>1. PICK a : Hangs(ms, O, a, Root) /\ Lookup(ms, Root) = Position(a.id, <<>>)
    BY <1>1, OverlaySeen, Levels
  <2> QED BY <1>2, <1>5, <2>1, HangsOnce
<1>7. Lookup(ms \cup N, Root) = Position(o.id, <<>>)
  <2>1. PICK a : /\ Hangs(ms \cup N, O \cup N, a, Root)
                 /\ Lookup(ms \cup N, Root) = Position(a.id, <<>>)
    BY <1>4, OverlaySeen, Levels
  <2> QED BY <1>4, <1>5, <2>1, HangsOnce
<1>8. o.parent \notin Ids(O \cup N)
  BY <1>4, <1>5 DEF Hangs, TreeOf, WellFormed, MountRecords, Ids
<1>9. TreeOf(ms, O, o) /\ TreeOf(ms \cup N, O \cup N, o)
  BY <1>2, <1>4 DEF Hangs
<1>10. IsPath(Root)
  BY ThreePlaces DEF IsPath
<1>11. GraftedOn(ms, ms \cup N, O, o, N, new, Root, e, FileSystems)
  BY <1>5, <1>6, <1>7, <1>8, <1>9, <1>10 DEF GraftedOn
<1> QED BY <1>1, <1>4, <1>11 DEF Grown

\* What is seen of the repository is what was seen of it, and so is what is
\* seen at other places of the overlay than those of E.
Adds(ms, ms2, E) ==
  /\ Built(ms2, 4)
  /\ \A s : IsPath(s) => Seen(ms2, Device \o s) = Seen(ms, Device \o s)
  /\ \A d : IsPath(d) /\ (\A e \in E : ~Extends(d, e)) => Seen(ms2, Root \o d) = Seen(ms, Root \o d)

\* What is bound shows, at its place, what its source has shown.
BoundTo(ms, ms2, src, dst) ==
  \A s : IsPath(s) => Seen(ms2, dst \o s) = Seen(ms, src \o s)

\* The repository.
LEMMA DeviceStays ==
  ASSUME NEW ms, NEW r, NEW D, NEW T, NEW O, Stands(ms, 4, r, D, T, O),
         NEW ms2, NEW O2, Stands(ms2, 4, r, D, T, O2), ms \subseteq ms2,
         NEW s, IsPath(s)
  PROVE  Seen(ms2, Device \o s) = Seen(ms, Device \o s)
<1>1. s \in Seq(STRING) /\ Device \in Seq(STRING)
  BY ThreePlaces DEF IsPath
<1>2. /\ WellFormed(ms, FileSystems) /\ WellFormed(ms2, FileSystems) /\ Plain(D)
      /\ D \in SUBSET ms /\ D \in SUBSET ms2
  BY DEF Stands, Parts
<1>3. PICK d : Hangs(ms, D, d, Device) /\ Lookup(ms, Device) = Position(d.id, <<>>)
  BY <1>1, DeviceSeen, Levels
<1>4. PICK d2 : Hangs(ms2, D, d2, Device) /\ Lookup(ms2, Device) = Position(d2.id, <<>>)
  BY <1>1, DeviceSeen, Levels
<1>5. TreeOf(ms, D, d) /\ TreeOf(ms2, D, d2) /\ d2.parent = RamDisk /\ d2 \in D
  BY <1>3, <1>4 DEF Hangs, TreeOf
<1>6. d2 = d
  <2>1. RamDisk \notin Ids(D)
    BY <1>2 DEF WellFormed, MountRecords, Ids
  <2> QED BY <1>5, <2>1, TreeParents
<1>7. Closed(ms, D) /\ Closed(ms2, D)
  BY <1>5 DEF TreeOf
<1>8. Below(ms, D) = Below(ms2, D) /\ \A x \in Below(ms, D) : x.at # <<>>
  BY <1>2, <1>7 DEF Closed, Below, Plain, Ids
<1>9. Lookup(ms, Device) = Lookup(ms2, Device) /\ Lookup(ms, Device) \in Inside(D)
  <2>1. <<>> \in Seq(STRING) /\ Device \o <<>> = Device
    BY <1>1, ConcatEmpty
  <2> QED BY <1>3, <1>4, <1>6, <2>1, DeviceSeen, Levels
<1>10. Lookup(ms2, Device \o s) = Lookup(ms, Device \o s) /\ Lookup(ms, Device \o s) \in Inside(D)
  BY <1>1, <1>2, <1>7, <1>8, <1>9, LookupAgrees
<1>11. Lookup(ms, Device \o s) \in Inside(ms)
  BY <1>2, <1>10 DEF Inside, Ids
<1> QED BY <1>2, <1>10, <1>11, SameSeen

\* Growing adds to the overlay, and leads to what has been mounted.
LEMMA GrownAdds ==
  ASSUME NEW ms, NEW ms2, NEW N, NEW new, NEW e, Grown(ms, ms2, N, new, e), e # <<>>
  PROVE  Adds(ms, ms2, {e}) /\ Lookup(ms2, Root \o e) = Position(new.id, <<>>)
<1>1. PICK r, D, T, O, o :
        /\ Stands(ms, 4, r, D, T, O) /\ Stands(ms2, 4, r, D, T, O \cup N)
        /\ GraftedOn(ms, ms2, O, o, N, new, Root, e, FileSystems)
  BY DEF Grown
<1>2. Lookup(ms2, Root \o e) = Position(new.id, <<>>)
  BY <1>1, GraftReached
<1>3. ms \subseteq ms2 /\ O \subseteq ms /\ WellFormed(ms, FileSystems)
      /\ WellFormed(ms2, FileSystems)
  BY <1>1 DEF GraftedOn, Stands, Parts
<1>4. ASSUME NEW s, IsPath(s) PROVE Seen(ms2, Device \o s) = Seen(ms, Device \o s)
  BY <1>1, <1>3, <1>4, DeviceStays
<1>5. ASSUME NEW d, IsPath(d), ~Extends(d, e) PROVE Seen(ms2, Root \o d) = Seen(ms, Root \o d)
  <2>1. Lookup(ms2, Root \o d) = Lookup(ms, Root \o d)
    BY <1>1, <1>5, GraftElsewhere
  <2>2. Lookup(ms, Root \o d) \in Inside(O)
    BY <1>1, <1>5, OverlaySeen, Levels DEF IsPath
  <2>3. Lookup(ms, Root \o d) \in Inside(ms)
    BY <1>3, <2>2 DEF Inside, Ids
  <2> QED BY <1>3, <2>1, <2>3, SameSeen
<1>6. Built(ms2, 4)
  BY <1>1 DEF Built
<1> QED BY <1>2, <1>4, <1>5, <1>6 DEF Adds

\* A position of the overlay other than its root, again.
LEMMA OverlayOnTree ==
  ASSUME NEW ms, Built(ms, 4), NEW e, IsPath(e), e # <<>>
  PROVE  WellFormed(ms, FileSystems) /\ OnTree(ms, Lookup(ms, Root \o e))
<1>1. PICK r, D, T, O : Stands(ms, 4, r, D, T, O)
  BY DEF Built
<1> DEFINE pos == Lookup(ms, Root \o e)
<1>2. pos \in Positions /\ pos.mount \in Ids(O)
  BY <1>1, OverlayPlace DEF IsPath
<1> HIDE DEF pos
<1>3. WellFormed(ms, FileSystems) /\ O \subseteq ms
  BY <1>1 DEF Stands, Parts
<1> QED BY <1>2, <1>3 DEF OnTree, Ids, pos

\* A file system that is mounted somewhere on the overlay is seen there.
LEMMA OverlayMounts ==
  ASSUME NEW ms, Built(ms, 4), NEW fs \in FileSystems, NEW e, IsPath(e), e # <<>>
  PROVE  /\ Adds(ms, Mount(ms, fs, Root \o e), {e})
         /\ Seen(Mount(ms, fs, Root \o e), Root \o e).fs = fs
<1> DEFINE path == Root \o e
<1>1. WellFormed(ms, FileSystems) /\ OnTree(ms, Lookup(ms, path))
  BY OverlayOnTree
<1>2. PICK N, new : /\ N = {new} /\ Mount(ms, fs, path) = ms \cup N
                    /\ GraftedAt(ms, N, new, Lookup(ms, path), FileSystems)
                    /\ new.fs = fs
  BY <1>1, MountGrafts
<1>3. \A x \in N : x.parent # new.id
  BY <1>1, <1>2 DEF GraftedAt, Grafted, OnTree, Ids
<1>4. Grown(ms, ms \cup N, N, new, e)
  BY <1>2, <1>3, OverlayGrafted
<1>5. Adds(ms, ms \cup N, {e}) /\ Lookup(ms \cup N, path) = Position(new.id, <<>>)
  BY <1>4, GrownAdds
<1>6. new \in ms \cup N /\ WellFormed(ms \cup N, FileSystems)
  BY <1>2 DEF GraftedAt, Grafted
<1>7. Seen(ms \cup N, path) = ShownBy(new, <<>>)
  <2>1. Lookup(ms \cup N, path).mount = new.id /\ Lookup(ms \cup N, path).path = <<>>
    BY <1>5 DEF Position
  <2> QED BY <1>6, <2>1, SeenAt
<1>8. Seen(ms \cup N, path).fs = fs
  BY <1>2, <1>7 DEF ShownBy
<1> QED BY <1>2, <1>5, <1>8

\* A tree of mounts that is bound there is seen there.
LEMMA OverlayBinds ==
  ASSUME NEW ms, Built(ms, 4), NEW src, IsPath(src), NEW R, Source(ms, R, Lookup(ms, src)),
         NEW e, IsPath(e), e # <<>>
  PROVE  /\ Adds(ms, Bind(ms, src, Root \o e), {e})
         /\ BoundTo(ms, Bind(ms, src, Root \o e), src, Root \o e)
<1> DEFINE path == Root \o e
<1>1. WellFormed(ms, FileSystems) /\ OnTree(ms, Lookup(ms, path))
  BY OverlayOnTree
<1>2. Lookup(ms, src) \in Inside(ms) /\ Covering(ms, Lookup(ms, src)) = {}
  BY DEF Source, Inside, Ids
<1>3. PICK N, new : /\ Bind(ms, src, path) = ms \cup N
                    /\ GraftedAt(ms, N, new, Lookup(ms, path), FileSystems)
                    /\ CopyOf(ms, N, new, src) /\ Mirrors(ms, N, new, Lookup(ms, src))
  BY <1>1, <1>2, BindGrafts
<1>4. \A x \in N : x.parent = new.id => x.at # <<>>
  BY <1>2, <1>3 DEF CopyOf
<1>5. Grown(ms, ms \cup N, N, new, e)
  BY <1>3, <1>4, OverlayGrafted
<1>6. Adds(ms, ms \cup N, {e}) /\ Lookup(ms \cup N, path) = Position(new.id, <<>>)
  BY <1>5, GrownAdds
<1>7. Grafted(ms, N, new, FileSystems) /\ new.parent \notin Ids(N)
  BY <1>1, <1>3 DEF GraftedAt, Grafted, OnTree
<1>8. IsPath(path)
  BY ThreePlaces, ConcatProperties DEF IsPath
<1> HIDE DEF path
<1>9. \A s : IsPath(s) => Seen(ms \cup N, path \o s) = Seen(ms, src \o s)
  BY <1>1, <1>3, <1>6, <1>7, <1>8, SourceMirrored
<1> QED BY <1>3, <1>6, <1>9 DEF BoundTo, path

\* A directory of the repository can be bound.
LEMMA RepositorySource ==
  ASSUME NEW ms, NEW r, NEW D, NEW T, NEW O, Stands(ms, 4, r, D, T, O),
         NEW src, IsPath(src)
  PROVE  Source(ms, D, Lookup(ms, Device \o src))
<1>1. WellFormed(ms, FileSystems) /\ Plain(D)
  BY DEF Stands, Parts
<1>2. PICK d : Hangs(ms, D, d, Device) /\ Lookup(ms, Device) = Position(d.id, <<>>)
  <2>1. <<>> \in Seq(STRING)
    OBVIOUS
  <2> QED BY <2>1, DeviceSeen, Levels
<1>3. TreeOf(ms, D, d) /\ d.parent = RamDisk
  BY <1>2 DEF Hangs
<1>4. d.parent \notin Ids(D)
  BY <1>1, <1>3 DEF TreeOf, WellFormed, MountRecords, Ids
<1>5. IsPath(Device)
  BY ThreePlaces DEF IsPath
<1> DEFINE from == Lookup(ms, Device \o src)
<1>6. Covering(ms, from) = {} /\ from \in Inside(D)
  BY <1>1, <1>2, <1>3, <1>4, <1>5, PathUncovered
<1> HIDE DEF from
<1>7. Source(ms, D, from)
  BY <1>1, <1>3, <1>4, <1>6, TreeSource
<1> QED BY <1>7 DEF from

\* So can the directory of the overlay, with the root file system on it.
LEMMA OverbootDirSource ==
  ASSUME NEW ms, NEW r, NEW D, NEW T, NEW O, Stands(ms, 4, r, D, T, O)
  PROVE  \E R : Source(ms, R, Lookup(ms, OverbootDir))
<1>1. PICK t \in ms :
        /\ T = {t} /\ t.id \in Nat \ {RamDisk} /\ t.parent = RamDisk
        /\ \A x \in ms : x.parent = t.id => x = r /\ RootMoved(4) /\ x.at = LowerDir
        /\ Lookup(ms, OverbootDir) = Position(t.id, <<>>)
  BY TmpfsSeen, Levels
<1> DEFINE A == Rest \cup {r}
           R == A \cup T
           from == Position(t.id, <<>>)
<1>2. WellFormed(ms, FileSystems) /\ A \in SUBSET ms /\ Closed(ms, A) /\ A \cap T = {}
  BY DEF Stands, Parts
<1>3. Plain(A)
  BY RootPlain
<1>4. \A x \in ms : x.parent = t.id => x = r /\ x.at # <<>>
  <2>1. LowerDir # <<>>
    BY DEF LowerDir
  <2> QED BY <1>1, <2>1
<1>5. r \in A
  OBVIOUS
<1> HIDE DEF A
<1>6. t.id \notin Ids(A)
  BY <1>1, <1>2 DEF WellFormed, Ids
<1>7. R \in SUBSET ms /\ Closed(ms, R)
  BY <1>1, <1>2, <1>4, <1>5 DEF Closed, Below
<1>8. Plain(R)
  <2>1. Ids(R) = Ids(A) \cup {t.id}
    BY <1>1 DEF Ids
  <2>2. RamDisk \notin Ids(R)
    BY <1>2, <1>7 DEF WellFormed, MountRecords, Ids
  <2>3. ASSUME NEW x \in R, x.parent \in Ids(R) PROVE x.parent = t.id \/ (x.parent \in Ids(A) /\ x \in A)
    BY <1>1, <2>1, <2>2, <2>3
  <2>4. ASSUME NEW x \in R, x.parent = t.id
        PROVE  x.at # <<>> /\ \A y \in R : y.parent = x.parent /\ y.at = x.at => y = x
    BY <1>4, <1>7, <2>4
  <2>5. ASSUME NEW x \in A, x.parent \in Ids(A)
        PROVE  x.at # <<>> /\ \A y \in R : y.parent = x.parent /\ y.at = x.at => y = x
    <3>1. ASSUME NEW y \in R, y.parent = x.parent, y.at = x.at PROVE y = x
      <4>1. y \in A
        BY <1>2, <1>7, <2>5, <3>1 DEF Closed, Below, Ids
      <4> QED BY <1>3, <2>5, <3>1, <4>1 DEF Plain
    <3> QED BY <1>3, <2>5, <3>1 DEF Plain
  <2> QED BY <2>3, <2>4, <2>5 DEF Plain
<1>9. from \in Inside(R) /\ from.mount = t.id /\ from.path = <<>>
  <2>1. <<>> \in Seq(STRING)
    OBVIOUS
  <2> QED BY <1>1, <2>1 DEF Inside, Ids, Position, Positions
<1> HIDE DEF R, from
<1>10. Covering(ms, from) = {}
  BY <1>4, <1>9 DEF Covering
<1>11. Kids(ms, from) \subseteq A
  BY <1>4, <1>5, <1>9 DEF Kids
<1>12. Source(ms, R, from)
  BY <1>2, <1>6, <1>7, <1>8, <1>9, <1>10, <1>11 DEF Source
<1> QED BY <1>1, <1>12 DEF from

\* Without a mount there is nothing to detach.
LEMMA UnmountNothing ==
  ASSUME NEW ms, NEW path, Lookup(ms, path).mount = RamDisk
  PROVE  Unmount(ms, path) = ms /\ ~IsMountPoint(ms, path)
  BY DEF Unmount, IsMountPoint

\* Detaching a part of the overlay other than its root.
LEMMA OverlayUnmounts ==
  ASSUME NEW ms, Built(ms, 4), NEW rest \in Seq(STRING), rest # <<>>
  PROVE  Built(Unmount(ms, Root \o rest), 4)
<1> DEFINE path == Root \o rest
           pos == Lookup(ms, path)
<1>1. CASE ~IsMountPoint(ms, path)
  BY <1>1 DEF Unmount
<1>2. CASE IsMountPoint(ms, path)
  <2>1. PICK r, D, T, O : Stands(ms, 4, r, D, T, O)
    BY DEF Built
  <2>2. PICK o : /\ Hangs(ms, O, o, Root) /\ pos \in Positions
                 /\ pos.mount \in Ids(O)
                 /\ pos.mount = o.id => pos.path # <<>>
    BY <2>1, OverlayPlace
  <2> HIDE DEF path
  <2>3. pos.path = <<>>
    BY <1>2 DEF IsMountPoint
  <2>4. PICK g \in O : g.id = pos.mount
    BY <2>2 DEF Ids
  <2>5. pos = Position(g.id, <<>>) /\ g # o
    BY <2>2, <2>3, <2>4 DEF Positions, Position
  <2>6. Parts(ms, r, D, T, O)
    BY <2>1 DEF Stands
  <2>7. /\ WellFormed(ms, FileSystems) /\ O \subseteq ms /\ D \subseteq ms /\ T \subseteq ms
        /\ Rest \cup {r} \subseteq ms /\ g \in ms
    BY <2>4, <2>6 DEF Parts
  <2>8. PICK G : TreeOf(ms, G, g) /\ Unmount(ms, path) = ms \ G
    BY <2>5, <2>7, UnmountCuts
  <2>9. /\ TreeOf(ms, O, o) /\ Closed(ms, O) /\ o \in O /\ o.parent = RamDisk
        /\ o.at = Root /\ BareRoot(ms, o)
    BY <2>2 DEF Hangs, TreeOf
  <2>10. G \subseteq O /\ Closed(ms, G) /\ g \in G
    BY <2>4, <2>8, <2>9, TreeWithin DEF TreeOf
  <2>11. o \notin G
    <3> SUFFICES ASSUME o \in G PROVE FALSE
      OBVIOUS
    <3>1. o.parent \in Ids(G)
      BY <2>5, <2>8, TreeParents
    <3>2. \A x \in G : x.id # RamDisk
      BY <2>7, <2>10 DEF WellFormed, MountRecords
    <3> QED BY <2>9, <3>1, <3>2 DEF Ids
  <2>12. TreeOf(ms \ G, O \ G, o)
    BY <2>4, <2>8, <2>9, <2>11, TreeCut
  <2>13. \E top : Hangs(ms \ G, O \ G, top, Root)
    BY <2>9, <2>12 DEF Hangs, BareRoot
  <2>14. WellFormed(ms \ G, FileSystems)
    BY <2>7, <2>10, CutWellFormed
  <2>15. \A R : Untouched(ms, ms \ G, R)
    BY DEF Untouched
  <2>16. Closed(ms \ G, Rest \cup {r})
    BY <2>6, <2>7, <2>15, Undisturbed DEF Parts
  <2>17. Parts(ms \ G, r, D, T, O \ G)
    BY <2>6, <2>10, <2>14, <2>16 DEF Parts
  <2>18. \E d : Hangs(ms \ G, D, d, Device)
    <3>1. PICK d : Hangs(ms, D, d, Device)
      BY <2>1, Levels DEF Stands, Level
    <3>2. D \subseteq ms \ G
      BY <2>6, <2>10 DEF Parts
    <3> QED BY <3>1, <3>2, <2>7, <2>15, Undisturbed
  <2>19. \E t : /\ T = {t} /\ t.parent = RamDisk /\ t.at = OverbootDir
                /\ Below(ms \ G, T) \subseteq {r}
    <3>1. PICK t : /\ T = {t} /\ t.parent = RamDisk /\ t.at = OverbootDir
                   /\ Below(ms, T) \subseteq {r}
      BY <2>1, Levels DEF Stands, Level
    <3>2. Below(ms \ G, T) \subseteq Below(ms, T)
      BY DEF Below
    <3> QED BY <3>1, <3>2
  <2>20. \E t \in T : r = WithPlace(TheRoot, t.id, LowerDir)
    BY <2>1, Levels DEF Stands, Level
  <2>21. Level(ms \ G, 4, r, D, T, O \ G)
    BY <2>13, <2>18, <2>19, <2>20, Levels DEF Level
  <2> QED BY <2>8, <2>17, <2>21 DEF Built, Stands, path
<1> QED BY <1>1, <1>2 DEF path

\* Detaching a tree at its root.
LEMMA TreeUnmounts ==
  ASSUME NEW ms, WellFormed(ms, FileSystems), NEW R, NEW top, TreeOf(ms, R, top),
         NEW path, Lookup(ms, path) = Position(top.id, <<>>)
  PROVE  Unmount(ms, path) = ms \ R /\ WellFormed(ms \ R, FileSystems)
<1>1. top \in ms /\ top \in R /\ Closed(ms, R)
  BY DEF TreeOf
<1>2. PICK G : TreeOf(ms, G, top) /\ Unmount(ms, path) = ms \ G
  BY <1>1, UnmountCuts
<1>3. top \in G /\ Closed(ms, G)
  BY <1>2 DEF TreeOf
<1>4. G \subseteq R
  BY <1>1, <1>2, TreeWithin
<1>5. R \subseteq G
  BY <1>3, TreeWithin
<1>6. G = R
  BY <1>4, <1>5
<1> QED BY <1>1, <1>2, <1>6, CutWellFormed

\* The overlay is detached with all that is mounted on it.
LEMMA OverlayGoes ==
  ASSUME NEW ms, Built(ms, 4)
  PROVE  Built(Unmount(ms, Root), 3)
<1>1. PICK r, D, T, O : Stands(ms, 4, r, D, T, O)
  BY DEF Built
<1>2. PICK o : Hangs(ms, O, o, Root) /\ Lookup(ms, Root) = Position(o.id, <<>>)
  BY <1>1, OverlaySeen, Levels
<1>3. Parts(ms, r, D, T, O) /\ WellFormed(ms, FileSystems)
      /\ D \subseteq ms /\ T \subseteq ms /\ Rest \cup {r} \subseteq ms
  BY <1>1 DEF Stands, Parts
<1>4. Unmount(ms, Root) = ms \ O /\ WellFormed(ms \ O, FileSystems)
  BY <1>2, <1>3, TreeUnmounts DEF Hangs
<1>5. \A R : Untouched(ms, ms \ O, R)
  BY DEF Untouched
<1>6. Closed(ms \ O, Rest \cup {r})
  BY <1>3, <1>5, Undisturbed DEF Parts
<1>7. Parts(ms \ O, r, D, T, {})
  BY <1>3, <1>4, <1>6 DEF Parts
<1>8. \E d : Hangs(ms \ O, D, d, Device)
  <2>1. PICK d : Hangs(ms, D, d, Device)
    BY <1>1, Levels DEF Stands, Level
  <2>2. D \subseteq ms \ O
    BY <1>3 DEF Parts
  <2> QED BY <1>3, <1>5, <2>1, <2>2, Undisturbed
<1>9. \E t : /\ T = {t} /\ t.parent = RamDisk /\ t.at = OverbootDir
             /\ Below(ms \ O, T) \subseteq {r}
  <2>1. PICK t : /\ T = {t} /\ t.parent = RamDisk /\ t.at = OverbootDir
                 /\ Below(ms, T) \subseteq {r}
    BY <1>1, Levels DEF Stands, Level
  <2>2. Below(ms \ O, T) \subseteq Below(ms, T)
    BY DEF Below
  <2> QED BY <2>1, <2>2
<1>10. \E t \in T : r = WithPlace(TheRoot, t.id, LowerDir)
  BY <1>1, Levels DEF Stands, Level
<1>11. Level(ms \ O, 3, r, D, T, {})
  BY <1>8, <1>9, <1>10, Levels DEF Level
<1> QED BY <1>4, <1>7, <1>11 DEF Built, Stands

\* The tmpfs is detached when the root file system is no longer on it.
LEMMA TmpfsGoes ==
  ASSUME NEW ms, Built(ms, 2)
  PROVE  Built(Unmount(ms, OverbootDir), 1)
<1>1. PICK r, D, T, O : Stands(ms, 2, r, D, T, O)
  BY DEF Built
<1>2. PICK t \in ms :
        /\ T = {t} /\ t.parent = RamDisk
        /\ \A x \in ms : x.parent = t.id => x = r /\ RootMoved(2) /\ x.at = LowerDir
        /\ Lookup(ms, OverbootDir) = Position(t.id, <<>>)
  BY <1>1, TmpfsSeen, Levels
<1>3. \A x \in ms : x.parent # t.id
  BY <1>2, Levels
<1>4. TreeOf(ms, T, t)
  BY <1>2, <1>3 DEF TreeOf, Closed, Below
<1>5. Parts(ms, r, D, T, O) /\ WellFormed(ms, FileSystems)
      /\ D \subseteq ms /\ Rest \cup {r} \subseteq ms
  BY <1>1 DEF Stands, Parts
<1>6. Unmount(ms, OverbootDir) = ms \ T /\ WellFormed(ms \ T, FileSystems)
  BY <1>2, <1>4, <1>5, TreeUnmounts
<1>7. \A R : Untouched(ms, ms \ T, R)
  BY DEF Untouched
<1>8. Closed(ms \ T, Rest \cup {r})
  BY <1>5, <1>7, Undisturbed DEF Parts
<1>9. r = TheRoot /\ O = {}
  BY <1>1, Levels DEF Stands, Level
<1>10. Parts(ms \ T, r, D, {}, {})
  BY <1>5, <1>6, <1>8, <1>9 DEF Parts
<1>11. \E d : Hangs(ms \ T, D, d, Device)
  <2>1. PICK d : Hangs(ms, D, d, Device)
    BY <1>1, Levels DEF Stands, Level
  <2>2. D \subseteq ms \ T
    BY <1>5 DEF Parts
  <2> QED BY <1>5, <1>7, <2>1, <2>2, Undisturbed
<1>12. Level(ms \ T, 1, r, D, {}, {})
  BY <1>9, <1>11, Levels DEF Level
<1> QED BY <1>6, <1>10, <1>12 DEF Built, Stands

\* The repository is detached last, and what the init scripts mounted is left.
LEMMA DeviceGoes ==
  ASSUME NEW ms, Built(ms, 1)
  PROVE  Built(Unmount(ms, Device), 0)
<1>1. PICK r, D, T, O : Stands(ms, 1, r, D, T, O)
  BY DEF Built
<1>2. PICK d : Hangs(ms, D, d, Device) /\ Lookup(ms, Device) = Position(d.id, <<>>)
  <2>1. <<>> \in Seq(STRING)
    OBVIOUS
  <2> QED BY <1>1, <2>1, DeviceSeen, Levels
<1>3. Parts(ms, r, D, T, O) /\ WellFormed(ms, FileSystems)
      /\ D \subseteq ms /\ Rest \cup {r} \subseteq ms
  BY <1>1 DEF Stands, Parts
<1>4. Unmount(ms, Device) = ms \ D /\ WellFormed(ms \ D, FileSystems)
  BY <1>2, <1>3, TreeUnmounts DEF Hangs
<1>5. \A R : Untouched(ms, ms \ D, R)
  BY DEF Untouched
<1>6. Closed(ms \ D, Rest \cup {r})
  BY <1>3, <1>5, Undisturbed DEF Parts
<1>7. r = TheRoot /\ T = {} /\ O = {}
  BY <1>1, Levels DEF Stands, Level
<1>8. Parts(ms \ D, r, {}, {}, {})
  BY <1>3, <1>4, <1>6, <1>7, NothingPlain DEF Parts
<1>9. Level(ms \ D, 0, r, {}, {}, {})
  BY <1>7, Levels DEF Level
<1> QED BY <1>4, <1>8, <1>9 DEF Built, Stands

\* The root of a mount is moved with it.
LEMMA MoveReplaces ==
  ASSUME NEW ms, WellFormed(ms, FileSystems), NEW src, NEW dst, NEW r \in ms,
         Lookup(ms, src) = Position(r.id, <<>>), OnTree(ms, Lookup(ms, dst))
  PROVE  \E r2 : /\ r2 = WithPlace(r, Lookup(ms, dst).mount, Lookup(ms, dst).path)
                 /\ Move(ms, src, dst) = (ms \ {r}) \cup {r2}
                 /\ WellFormed(Move(ms, src, dst), FileSystems) /\ r2.id = r.id
<1> DEFINE to == Lookup(ms, dst)
           r2 == WithPlace(r, to.mount, to.path)
<1>1. \A x \in ms : x.id = r.id <=> x = r
  BY DEF WellFormed
<1>2. Position(r.id, <<>>).mount = r.id
  BY DEF Position
<1>3. Move(ms, src, dst) = (ms \ {r}) \cup {r2}
  <2>1. Move(ms, src, dst) =
          {IF x.id = Lookup(ms, src).mount THEN WithPlace(x, to.mount, to.path)
           ELSE x : x \in ms}
    BY Zenon DEF Move, WithPlace
  <2>2. Lookup(ms, src).mount = r.id
    BY <1>2
  <2> HIDE DEF to
  <2> QED BY <2>1, <2>2, <1>1
<1>4. to.mount \in Nat /\ to.path \in Seq(STRING) /\ to.mount \in Ids(ms) \cup {RamDisk}
  BY DEF OnTree, Positions
<1> HIDE DEF to
<1>5. r \in MountRecords(FileSystems)
  BY DEF WellFormed
<1>6. r2 \in MountRecords(FileSystems) /\ r2.id = r.id /\ r2.parent = to.mount
  BY <1>4, <1>5, RecordWithPlace
<1> HIDE DEF r2
<1>7. WellFormed((ms \ {r}) \cup {r2}, FileSystems)
  <2> DEFINE new == (ms \ {r}) \cup {r2}
  <2>1. IsFiniteSet(new)
    <3>1. IsFiniteSet(ms) /\ IsFiniteSet({r2})
      BY FS_Singleton DEF WellFormed
    <3>2. IsFiniteSet(ms \ {r})
      BY <3>1, FS_Subset
    <3> QED BY <3>1, <3>2, FS_Union
  <2>2. new \subseteq MountRecords(FileSystems)
    BY <1>6 DEF WellFormed
  <2>3. Ids(new) = Ids(ms)
    BY <1>6 DEF Ids
  <2>4. \A x, y \in new : x.id = y.id => x = y
    BY <1>1, <1>6 DEF WellFormed
  <2>5. \A x \in new : x.parent \in Ids(ms) \cup {RamDisk}
    BY <1>4, <1>6 DEF WellFormed
  <2> HIDE DEF new
  <2>6. WellFormed(new, FileSystems)
    BY <2>1, <2>2, <2>3, <2>4, <2>5 DEF WellFormed
  <2> QED BY <2>6 DEF new
<1> QED BY <1>3, <1>6, <1>7 DEF r2, to

\* The root file system takes another place.
RootPutElsewhere(ms, r, D, ms2, r2) ==
  /\ ms2 = (ms \ {r}) \cup {r2} /\ WellFormed(ms2, FileSystems) /\ r2.id = r.id
  /\ r2.parent \notin Ids(Rest \cup {r}) /\ r2.parent \notin Ids(D)

\* The other parts are what they were.
LEMMA RootReplaced ==
  ASSUME NEW ms, NEW n, NEW r, NEW D, NEW T, NEW O, Stands(ms, n, r, D, T, O),
         ~HasOverlay(n), NEW ms2, NEW r2, RootPutElsewhere(ms, r, D, ms2, r2)
  PROVE  Parts(ms2, r2, D, T, {}) /\ Untouched(ms, ms2, D) /\ D \subseteq ms2 /\ D \subseteq ms
<1> USE DEF RootPutElsewhere
<1>1. r \in ms /\ r.id = TheRoot.id
  BY RootIdentity
<1>2. /\ ms = Rest \cup {r} \cup D \cup T
      /\ (Rest \cup {r}) \cap D = {} /\ (Rest \cup {r}) \cap T = {} /\ D \cap T = {}
      /\ WellFormed(ms, FileSystems) /\ Plain(D)
  BY DEF Stands, Parts, Level
<1>3. r \notin Rest
  BY <1>1, RootFacts
<1>4. \A x \in ms : x # r => x.id # r2.id
  BY <1>1, <1>2 DEF WellFormed
<1>5. r2 \notin Rest /\ r2 \notin D /\ r2 \notin T
  BY <1>2, <1>3, <1>4
<1>6. ms2 = Rest \cup {r2} \cup D \cup T
  BY <1>2, <1>3
<1>7. Ids(Rest \cup {r2}) = Ids(Rest \cup {r})
  BY DEF Ids
<1>8. Closed(ms2, Rest \cup {r2})
  <2> SUFFICES ASSUME NEW x \in ms2, x.parent \in Ids(Rest \cup {r2})
               PROVE  x \in Rest \cup {r2}
    BY DEF Closed, Below, Ids
  <2>1. CASE x = r2
    BY <2>1
  <2>2. CASE x \in ms
    BY <2>2, <1>7, RootBare
  <2> QED BY <2>1, <2>2
<1>9. Untouched(ms, ms2, D)
  BY DEF Untouched
<1>10. Parts(ms2, r2, D, T, {})
  BY <1>2, <1>5, <1>6, <1>8 DEF Parts
<1> QED BY <1>2, <1>6, <1>9, <1>10

\* The root file system makes way for the overlay.
LEMMA MoveDown ==
  ASSUME NEW ms, Built(ms, 2)
  PROVE  Built(Move(ms, Root, LowerRoot), 3)
<1>1. PICK r, D, T, O : Stands(ms, 2, r, D, T, O)
  BY DEF Built
<1>2. Lookup(ms, Root) = Position(r.id, <<>>) /\ r = TheRoot /\ r \in ms
  <2>1. <<>> \in Seq(STRING)
    OBVIOUS
  <2> QED BY <1>1, <2>1, RootSeen, RootIdentity, RootInPlace, Levels
<1>3. PICK t \in ms :
        /\ T = {t} /\ t.id \in Nat \ {RamDisk} /\ t.parent = RamDisk /\ t.at = OverbootDir
        /\ \A x \in ms : x.parent = t.id => x = r /\ RootMoved(2) /\ x.at = LowerDir
  BY <1>1, TmpfsSeen, Levels
<1>4. Lookup(ms, LowerRoot) = Position(t.id, LowerDir)
  <2>1. PICK u : T = {u} /\ Lookup(ms, LowerRoot) = Position(u.id, LowerDir)
    BY <1>1, LowerEmpty, Levels
  <2> QED BY <1>3, <2>1
<1>5. /\ OnTree(ms, Lookup(ms, LowerRoot))
      /\ Lookup(ms, LowerRoot).mount = t.id /\ Lookup(ms, LowerRoot).path = LowerDir
  <2>1. LowerDir \in Seq(STRING)
    <3>1. "lower-root" \in STRING
      BY NamesAssumption
    <3> QED BY <3>1, OneName DEF LowerDir
  <2> QED BY <1>3, <1>4, <2>1 DEF OnTree, Position, Positions, Ids
<1>6. WellFormed(ms, FileSystems)
  BY <1>1 DEF Stands, Parts
<1> DEFINE ms2 == Move(ms, Root, LowerRoot)
<1>7. PICK r2 : /\ r2 = WithPlace(r, t.id, LowerDir) /\ ms2 = (ms \ {r}) \cup {r2}
                /\ WellFormed(ms2, FileSystems) /\ r2.id = r.id
  BY <1>2, <1>5, <1>6, MoveReplaces
<1> HIDE DEF ms2
<1>8. r2.parent = t.id
  <2>1. LowerDir \in Seq(STRING)
    <3>1. "lower-root" \in STRING
      BY NamesAssumption
    <3> QED BY <3>1, OneName DEF LowerDir
  <2> QED BY <1>2, <1>3, <1>7, <2>1, RootFacts, RecordWithPlace
<1>9. t \notin Rest \cup {r} /\ t \notin D /\ Rest \cup {r} \subseteq ms /\ D \subseteq ms /\ O = {}
  BY <1>1, <1>3, Levels DEF Stands, Parts, Level
<1>10. r2.parent \notin Ids(Rest \cup {r}) /\ r2.parent \notin Ids(D)
  BY <1>3, <1>6, <1>8, <1>9 DEF WellFormed, Ids
<1>11. Parts(ms2, r2, D, T, {}) /\ Untouched(ms, ms2, D) /\ D \subseteq ms2 /\ D \subseteq ms
  <2>1. RootPutElsewhere(ms, r, D, ms2, r2)
    BY <1>7, <1>10 DEF RootPutElsewhere
  <2> QED BY <1>1, <2>1, RootReplaced, Levels
<1>12. \E d : Hangs(ms2, D, d, Device)
  <2>1. PICK d : Hangs(ms, D, d, Device)
    BY <1>1, Levels DEF Stands, Level
  <2> QED BY <2>1, <1>11, Undisturbed
<1>13. Below(ms2, T) \subseteq {r2}
  BY <1>3, <1>7, Levels DEF Below
<1>14. Level(ms2, 3, r2, D, T, {})
  BY <1>2, <1>3, <1>7, <1>12, <1>13, Levels DEF Level
<1>15. Built(ms2, 3)
  BY <1>11, <1>14 DEF Built, Stands
<1> QED BY <1>15 DEF ms2

\* And back: it is as if it had never been moved.
LEMMA MoveBack ==
  ASSUME NEW ms, Built(ms, 3)
  PROVE  Built(Move(ms, LowerRoot, Root), 2) /\ IsMountPoint(ms, LowerRoot)
<1>1. PICK r, D, T, O : Stands(ms, 3, r, D, T, O)
  BY DEF Built
<1>2. Lookup(ms, LowerRoot) = Position(r.id, <<>>) /\ r \in ms
  BY <1>1, LowerSeen, RootIdentity, Levels
<1>3. PICK t \in ms :
        /\ T = {t} /\ t.id \in Nat \ {RamDisk} /\ t.parent = RamDisk /\ t.at = OverbootDir
        /\ \A x \in ms : x.parent = t.id => x = r /\ RootMoved(3) /\ x.at = LowerDir
  BY <1>1, TmpfsSeen, Levels
<1>4. r = WithPlace(TheRoot, t.id, LowerDir)
  BY <1>1, <1>3, Levels DEF Stands, Level
<1>5. Lookup(ms, Root) = Position(RamDisk, Root)
  <2>1. <<>> \in Seq(STRING)
    OBVIOUS
  <2> QED BY <1>1, <2>1, NothingAtRoot, Levels
<1>6. /\ OnTree(ms, Lookup(ms, Root))
      /\ Lookup(ms, Root).mount = RamDisk /\ Lookup(ms, Root).path = Root
  BY <1>5, ThreePlaces DEF OnTree, Position, Positions, RamDisk
<1>7. WellFormed(ms, FileSystems)
  BY <1>1 DEF Stands, Parts
<1> DEFINE ms2 == Move(ms, LowerRoot, Root)
<1>8. PICK r2 : /\ r2 = WithPlace(r, RamDisk, Root) /\ ms2 = (ms \ {r}) \cup {r2}
                /\ WellFormed(ms2, FileSystems) /\ r2.id = r.id
  BY <1>2, <1>6, <1>7, MoveReplaces
<1> HIDE DEF ms2
<1>9. r2 = TheRoot
  <2>1. TheRoot \in [id: Nat \ {RamDisk}, fs: FileSystems, dir: Seq(STRING),
                     parent: Nat, at: Seq(STRING)]
    BY RootFacts DEF MountRecords
  <2>2. TheRoot.parent = RamDisk /\ TheRoot.at = Root
    BY RootFacts
  <2> QED BY <1>4, <1>8, <2>1, <2>2 DEF WithPlace
<1>10. r2.parent = RamDisk
  BY <1>9, RootFacts
<1>11. Rest \cup {r} \subseteq ms /\ D \subseteq ms /\ O = {}
  BY <1>1, Levels DEF Stands, Parts, Level
<1>12. r2.parent \notin Ids(Rest \cup {r}) /\ r2.parent \notin Ids(D)
  <2>1. \A x \in ms : x.id # RamDisk
    BY <1>7 DEF WellFormed, MountRecords
  <2> QED BY <2>1, <1>10, <1>11 DEF Ids
<1>13. Parts(ms2, r2, D, T, {}) /\ Untouched(ms, ms2, D) /\ D \subseteq ms2 /\ D \subseteq ms
  <2>1. RootPutElsewhere(ms, r, D, ms2, r2)
    BY <1>8, <1>12 DEF RootPutElsewhere
  <2> QED BY <1>1, <2>1, RootReplaced, Levels
<1>14. \E d : Hangs(ms2, D, d, Device)
  <2>1. PICK d : Hangs(ms, D, d, Device)
    BY <1>1, Levels DEF Stands, Level
  <2> QED BY <2>1, <1>13, Undisturbed
<1>15. Below(ms2, T) \subseteq {r2}
  BY <1>3, <1>8 DEF Below
<1>16. Level(ms2, 2, r2, D, T, {})
  BY <1>3, <1>9, <1>14, <1>15, Levels DEF Level
<1>17. Built(ms2, 2)
  BY <1>13, <1>16 DEF Built, Stands
<1>18. IsMountPoint(ms, LowerRoot)
  <2>1. r.id # RamDisk
    BY <1>2, <1>7 DEF WellFormed, MountRecords
  <2> QED BY <1>2, <2>1 DEF IsMountPoint, Position
<1> QED BY <1>17, <1>18 DEF ms2

\* Before it is moved nothing is mounted where it is moved to.
LEMMA NotMoved ==
  ASSUME NEW ms, Built(ms, 2)
  PROVE  ~IsMountPoint(ms, LowerRoot)
<1>1. PICK r, D, T, O : Stands(ms, 2, r, D, T, O)
  BY DEF Built
<1>2. PICK t : Lookup(ms, LowerRoot) = Position(t.id, LowerDir)
  BY <1>1, LowerEmpty, Levels
<1> QED BY <1>2 DEF IsMountPoint, Position, LowerDir

\* Nothing but what the init scripts have mounted.
LEMMA InitialStands == Built(InitialMounts, 0)
<1>1. InitialMounts = Rest \cup {TheRoot}
  BY RootFacts
<1>2. WellFormed(InitialMounts, FileSystems)
  BY InitialMountsAssumption
<1>3. Closed(InitialMounts, Rest \cup {TheRoot})
  BY <1>1 DEF Closed, Below
<1>4. Parts(InitialMounts, TheRoot, {}, {}, {})
  BY <1>1, <1>2, <1>3, NothingPlain DEF Parts
<1>5. Level(InitialMounts, 0, TheRoot, {}, {}, {})
  BY Levels DEF Level
<1> QED BY <1>4, <1>5 DEF Built, Stands

\* And nothing else is meant by it.
LEMMA OnlyInitial ==
  ASSUME NEW ms, Built(ms, 0)
  PROVE  ms = InitialMounts
<1>1. PICK r, D, T, O : Stands(ms, 0, r, D, T, O)
  BY DEF Built
<1>2. D = {} /\ T = {} /\ O = {} /\ r = TheRoot
  BY <1>1, Levels DEF Stands, Level
<1> QED BY <1>1, <1>2, RootFacts DEF Stands, Parts

\* The root file system, from wherever it can be reached, is as it was.
LEMMA InitialSeen ==
  ASSUME NEW ms, NEW n, NEW r, NEW D, NEW T, NEW O, Stands(ms, n, r, D, T, O),
         NEW dir \in Seq(STRING), Lookup(ms, dir) = Position(r.id, <<>>),
         NEW path \in Seq(STRING)
  PROVE  Seen(ms, dir \o path) = Seen(InitialMounts, Root \o path)
<1> DEFINE R1 == Rest \cup {r}
           p == Lookup(ms, dir \o path)
           q == Lookup(InitialMounts, Root \o path)
<1>1. /\ r \in ms /\ r.id = TheRoot.id /\ r.fs = TheRoot.fs /\ r.dir = TheRoot.dir
      /\ Ids(R1) = Ids(InitialMounts)
  BY RootIdentity
<1>2. WellFormed(ms, FileSystems) /\ R1 \in SUBSET ms /\ Closed(ms, R1)
  BY DEF Stands, Parts
<1>3. WellFormed(InitialMounts, FileSystems) /\ Closed(InitialMounts, InitialMounts)
  BY InitialMountsAssumption DEF Closed, Below
<1>4. Below(ms, R1) = Rest
  <2>1. Below(ms, R1) \subseteq Rest
    BY RootBare DEF Below, Ids
  <2>2. Rest \subseteq Below(ms, R1)
    BY <1>1, <1>2, RootFacts DEF Below, Ids
  <2> QED BY <2>1, <2>2
<1>5. Below(InitialMounts, InitialMounts) = Rest
  <2>1. \A x \in Rest : x \in InitialMounts /\ \E y \in InitialMounts : x.parent = y.id
    BY RootFacts DEF Ids
  <2>2. \A y \in InitialMounts : TheRoot.parent # y.id
    BY RootFacts
  <2> QED BY <2>1, <2>2, RootFacts DEF Below
<1>6. \A x \in Rest : x.at # <<>>
  BY RootFacts
<1>7. Lookup(InitialMounts, Root) = Position(TheRoot.id, <<>>)
  <2>1. PICK r0, D0, T0, O0 : Stands(InitialMounts, 0, r0, D0, T0, O0)
    BY InitialStands DEF Built
  <2>2. <<>> \in Seq(STRING)
    OBVIOUS
  <2>3. Lookup(InitialMounts, Root) = Position(r0.id, <<>>)
    BY <2>1, <2>2, RootSeen, Levels
  <2> QED BY <2>1, <2>3, RootInPlace, Levels
<1>8. Position(r.id, <<>>) \in Inside(R1)
  <2>1. r.id \in Nat /\ <<>> \in Seq(STRING) /\ r \in R1
    BY <1>1, <1>2 DEF WellFormed, MountRecords
  <2> QED BY <2>1 DEF Inside, Ids, Position, Positions
<1> HIDE DEF R1
<1>9. p = q /\ p \in Inside(R1)
  <2>1. InitialMounts \in SUBSET InitialMounts /\ Root \in Seq(STRING)
    BY ThreePlaces
  <2>2. Lookup(ms, dir) = Lookup(InitialMounts, Root) /\ Lookup(ms, dir) \in Inside(R1)
    BY <1>1, <1>7, <1>8
  <2>3. Below(ms, R1) = Below(InitialMounts, InitialMounts)
        /\ \A x \in Below(ms, R1) : x.at # <<>>
    BY <1>4, <1>5, <1>6
  <2> QED BY <1>1, <1>2, <1>3, <2>1, <2>2, <2>3, LookupAgrees
<1>10. PICK x \in R1 : x.id = p.mount
  BY <1>9 DEF Inside, Ids
<1>11. PICK y \in InitialMounts : y.id = p.mount
  BY <1>1, <1>9 DEF Inside, Ids
<1> DEFINE a == CHOOSE z \in ms : z.id = p.mount
           b == CHOOSE z \in InitialMounts : z.id = p.mount
<1>12. a = x
  BY <1>2, <1>10 DEF WellFormed
<1>13. b = y
  BY <1>3, <1>11 DEF WellFormed
<1>14. x.fs = y.fs /\ x.dir = y.dir
  <2>1. CASE x \in Rest
    <3>1. x \in InitialMounts
      BY <2>1, RootFacts
    <3> QED BY <3>1, <1>3, <1>10, <1>11 DEF WellFormed
  <2>2. CASE x = r
    <3>1. y = TheRoot
      BY <2>2, <1>1, <1>3, <1>10, <1>11, RootFacts DEF WellFormed
    <3> QED BY <2>2, <3>1, <1>1
  <2> QED BY <1>10, <2>1, <2>2 DEF R1
<1>15. p.mount # RamDisk
  BY <1>2, <1>10 DEF WellFormed, MountRecords
<1>16. Seen(ms, dir \o path) = [fs |-> a.fs, dir |-> a.dir \o p.path]
  BY <1>15, Zenon DEF Seen
<1>17. Seen(InitialMounts, Root \o path) = [fs |-> b.fs, dir |-> b.dir \o q.path]
  <2>1. q.mount # RamDisk /\ b = CHOOSE z \in InitialMounts : z.id = q.mount
    BY <1>9, <1>15
  <2> QED BY <2>1, Zenon DEF Seen
<1> HIDE DEF a, b, p, q
<1> QED BY <1>9, <1>12, <1>13, <1>14, <1>16, <1>17

\* At each step one of the two places shows the root file system.
LEMMA RootReached ==
  ASSUME NEW ms, NEW n, Built(ms, n)
  PROVE  \/ \A path \in Seq(STRING) :
              Seen(ms, Root \o path) = Seen(InitialMounts, Root \o path)
         \/ \A path \in Seq(STRING) :
              Seen(ms, LowerRoot \o path) = Seen(InitialMounts, Root \o path)
<1>1. PICK r, D, T, O : Stands(ms, n, r, D, T, O)
  BY DEF Built
<1>2. Root \in Seq(STRING) /\ LowerRoot \in Seq(STRING) /\ <<>> \in Seq(STRING)
  <2>1. "lower-root" \in STRING
    BY NamesAssumption
  <2>2. <<"lower-root">> \in Seq(STRING)
    BY <2>1, OneName
  <2> QED BY <2>2, ThreePlaces, ConcatProperties DEF LowerRoot
<1>3. CASE RootMoved(n)
  <2>1. Lookup(ms, LowerRoot) = Position(r.id, <<>>)
    BY <1>1, <1>3, LowerSeen
  <2> QED BY <1>1, <1>2, <2>1, InitialSeen
<1>4. CASE ~RootMoved(n)
  <2>1. Lookup(ms, Root) = Position(r.id, <<>>)
    BY <1>1, <1>2, <1>4, RootSeen
  <2> QED BY <1>1, <1>2, <2>1, InitialSeen
<1> QED BY <1>3, <1>4

------------------------------------------------------------------------------

\* A file system that is mounted on a directory of the RAM disk.
LEMMA RamMount ==
  ASSUME NEW ms, WellFormed(ms, FileSystems), NEW fs \in FileSystems, NEW path,
         NEW dir \in Seq(STRING), Lookup(ms, path) = Position(RamDisk, dir)
  PROVE  \E N, new : /\ N = {new} /\ Mount(ms, fs, path) = ms \cup N
                     /\ OnRamDisk(ms, N, new, dir) /\ new.fs = fs /\ new.dir = <<>>
<1>1. OnTree(ms, Lookup(ms, path))
  BY DEF OnTree, Position, Positions, RamDisk
<1>2. PICK N, new : /\ N = {new} /\ Mount(ms, fs, path) = ms \cup N
                    /\ GraftedAt(ms, N, new, Lookup(ms, path), FileSystems)
                    /\ new.fs = fs /\ new.dir = <<>>
  BY <1>1, MountGrafts
<1>3. new.parent = RamDisk /\ new.at = dir
  BY <1>2 DEF GraftedAt, Position
<1>4. new.id # RamDisk
  BY <1>2 DEF GraftedAt, Grafted, Ids
<1>5. \A x \in N : x.parent = new.id => x.at # <<>>
  BY <1>2, <1>3, <1>4
<1> QED BY <1>2, <1>3, <1>5 DEF OnRamDisk, GraftedAt

\* obInitPersistentDevice mounts the repository.
LEMMA DeviceMounted ==
  ASSUME NEW ms, Built(ms, 0)
  PROVE  Built(Mount(ms, "repository", Device), 1)
<1>1. PICK r, D, T, O : Stands(ms, 0, r, D, T, O)
  BY DEF Built
<1>2. Lookup(ms, Device) = Position(RamDisk, Device)
  BY <1>1, NoDeviceSeen, Levels
<1>3. WellFormed(ms, FileSystems) /\ "repository" \in FileSystems
  BY <1>1 DEF Stands, Parts, FileSystems
<1>4. PICK N, new : /\ N = {new} /\ Mount(ms, "repository", Device) = ms \cup N
                    /\ OnRamDisk(ms, N, new, Device)
  BY <1>2, <1>3, RamMount, ThreePlaces, ZenonT(60)
<1>5. Plain(N)
  BY <1>4, AlonePlain DEF OnRamDisk
<1> QED BY <1>4, <1>5, DeviceBuilds

\* The directory of an embedded repository is bound with what is below it.
LEMMA DeviceBound ==
  ASSUME NEW ms, Built(ms, 0)
  PROVE  Built(Bind(ms, DeviceDir, Device), 1)
<1>1. PICK r, D, T, O : Stands(ms, 0, r, D, T, O)
  BY DEF Built
<1>2. Lookup(ms, Device) = Position(RamDisk, Device)
  BY <1>1, NoDeviceSeen, Levels
<1> DEFINE R == Rest \cup {r}
           q == Position(r.id, <<"obdev">>)
<1>3. WellFormed(ms, FileSystems) /\ R \in SUBSET ms /\ Closed(ms, R)
  BY <1>1 DEF Stands, Parts
<1>4. \A x \in ms : x.parent \in Ids(R) => x.at # <<>>
  BY <1>1, RootBare, RootFacts
<1>5. "obdev" \in STRING /\ <<"obdev">> \in Seq(STRING) /\ <<>> \in Seq(STRING)
  BY NamesAssumption, OneName
<1>6. Lookup(ms, Root) = Position(r.id, <<>>)
  BY <1>1, <1>5, RootSeen, Levels
<1>7. Lookup(ms, Append(Root, "obdev")) = Into(ms, Position(r.id, <<>>), "obdev")
  <2>1. Lookup(ms, Append(Root, "obdev")) = Into(ms, Lookup(ms, Root), "obdev")
    <3>1. WellFormed(ms, FileSystems) /\ "obdev" \in STRING /\ Root \in Seq(STRING)
      BY <1>3, <1>5, ThreePlaces
    <3> QED BY <3>1, LookupName
  <2> QED BY <2>1, <1>6
<1>8. Lookup(ms, DeviceDir) = Uppermost(ms, q)
  <2>1. Append(Root, "obdev") = DeviceDir /\ Append(<<>>, "obdev") = <<"obdev">>
    BY DEF Root, DeviceDir
  <2>2. Position(r.id, <<>>).mount = r.id /\ Position(r.id, <<>>).path = <<>>
    BY DEF Position
  <2> QED BY <1>7, <2>1, <2>2 DEF Into
<1>9. q \in Inside(R)
  <2>1. r \in ms /\ r \in R /\ r.id \in Nat
    BY <1>1, <1>3, RootIdentity DEF WellFormed, MountRecords
  <2> QED BY <1>5, <2>1 DEF Inside, Position, Positions, Ids
<1> HIDE DEF R, q
<1>10. Covering(ms, Lookup(ms, DeviceDir)) = {}
  BY <1>3, <1>4, <1>8, <1>9, UppermostOnce
<1>11. Lookup(ms, DeviceDir) \in Inside(ms)
  <2>1. Lookup(ms, Root \o <<"obdev">>) \in Inside(R)
    BY <1>1, <1>5, RootSeen, Levels DEF R
  <2> QED BY <2>1, <1>3 DEF DeviceDir, Inside, Ids
<1>12. OnTree(ms, Lookup(ms, Device))
  BY <1>2, ThreePlaces DEF OnTree, Position, Positions, RamDisk
<1>13. PICK N, new : /\ Bind(ms, DeviceDir, Device) = ms \cup N
                     /\ GraftedAt(ms, N, new, Lookup(ms, Device), FileSystems)
                     /\ CopyOf(ms, N, new, DeviceDir)
                     /\ Mirrors(ms, N, new, Lookup(ms, DeviceDir))
  BY <1>3, <1>11, <1>12, BindGrafts
<1>14. OnRamDisk(ms, N, new, Device)
  BY <1>2, <1>10, <1>13 DEF OnRamDisk, GraftedAt, CopyOf, Position
<1>15. Plain(R) /\ Lookup(ms, DeviceDir) \in Inside(R)
  <2>1. Lookup(ms, Root \o <<"obdev">>) \in Inside(R)
    BY <1>1, <1>5, RootSeen, Levels DEF R
  <2>2. Plain(R)
    BY <1>1, RootPlain DEF R
  <2> QED BY <2>1, <2>2 DEF DeviceDir
<1>16. new.parent \notin Ids(N)
  BY <1>14 DEF OnRamDisk, Grafted
<1>17. Plain(N)
  BY <1>3, <1>10, <1>13, <1>15, <1>16, CopyPlain
<1> QED BY <1>13, <1>14, <1>17, DeviceBuilds

\* obInitOverbootDir mounts a tmpfs.
LEMMA TmpfsMounted ==
  ASSUME NEW ms, Built(ms, 1)
  PROVE  Built(Mount(ms, "tmpfs", OverbootDir), 2)
<1>1. PICK r, D, T, O : Stands(ms, 1, r, D, T, O)
  BY DEF Built
<1>2. Lookup(ms, OverbootDir) = Position(RamDisk, OverbootDir)
  BY <1>1, NoTmpfsSeen, Levels
<1>3. WellFormed(ms, FileSystems) /\ "tmpfs" \in FileSystems
  BY <1>1 DEF Stands, Parts, FileSystems
<1>4. PICK N, new : /\ N = {new} /\ Mount(ms, "tmpfs", OverbootDir) = ms \cup N
                    /\ OnRamDisk(ms, N, new, OverbootDir)
  BY <1>2, <1>3, RamMount, ThreePlaces, ZenonT(60)
<1> QED BY <1>4, TmpfsBuilds

\* The overlay is the root.
IsOverlay(ms) == Seen(ms, Root) = [fs |-> "overlay", dir |-> <<>>]

\* obInitOverlayfs mounts the overlay, and covers an embedded repository.
LEMMA OverlayMounted ==
  ASSUME NEW ms, Built(ms, 3)
  PROVE  Built(Mount(ms, "overlay", Root), 4) /\ IsOverlay(Mount(ms, "overlay", Root))
<1>1. PICK r, D, T, O : Stands(ms, 3, r, D, T, O)
  BY DEF Built
<1>2. Lookup(ms, Root) = Position(RamDisk, Root)
  <2>1. <<>> \in Seq(STRING)
    OBVIOUS
  <2> QED BY <1>1, <2>1, NothingAtRoot, Levels
<1>3. WellFormed(ms, FileSystems) /\ "overlay" \in FileSystems
  BY <1>1 DEF Stands, Parts, FileSystems
<1>4. PICK N, new : /\ N = {new} /\ Mount(ms, "overlay", Root) = ms \cup N
                    /\ OnRamDisk(ms, N, new, Root) /\ new.fs = "overlay" /\ new.dir = <<>>
  <2> DEFINE fs == "overlay"
             dir == Root
  <2>1. fs \in FileSystems /\ dir \in Seq(STRING) /\ Lookup(ms, Root) = Position(RamDisk, dir)
    BY <1>2, <1>3, ThreePlaces
  <2> HIDE DEF fs, dir
  <2>2. \E N, new : /\ N = {new} /\ Mount(ms, fs, Root) = ms \cup N
                    /\ OnRamDisk(ms, N, new, dir) /\ new.fs = fs /\ new.dir = <<>>
    <3>1. WellFormed(ms, FileSystems)
      BY <1>3
    <3> QED BY <2>1, <3>1, RamMount
  <2> QED BY <2>2 DEF fs, dir
<1> DEFINE ms2 == ms \cup N
<1>5. PICK r2, D2, T2 : Stands(ms2, 4, r2, D2, T2, N)
  BY <1>4, OverlayBuilds
<1>6. PICK o : Hangs(ms2, N, o, Root) /\ Lookup(ms2, Root) = Position(o.id, <<>>)
  BY <1>5, OverlaySeen, Levels
<1>7. WellFormed(ms2, FileSystems) /\ new \in ms2 /\ o = new
  BY <1>4, <1>5, <1>6 DEF Stands, Parts, Hangs, TreeOf
<1> HIDE DEF ms2
<1>8. Seen(ms2, Root) = ShownBy(new, <<>>)
  <2>1. Lookup(ms2, Root).mount = new.id /\ Lookup(ms2, Root).path = <<>>
    BY <1>6, <1>7 DEF Position
  <2> QED BY <1>7, <2>1, SeenAt
<1>9. ShownBy(new, <<>>) = [fs |-> "overlay", dir |-> <<>>]
  <2>1. <<>> \o <<>> = <<>>
    OBVIOUS
  <2> QED BY <1>4, <2>1 DEF ShownBy
<1>10. Built(ms2, 4)
  BY <1>5 DEF Built
<1> QED BY <1>4, <1>8, <1>9, <1>10 DEF IsOverlay, ms2

\* A repository directory is covered on the overlay.
LEMMA RepositoryCovered ==
  ASSUME NEW ms, Built(ms, 4)
  PROVE  /\ Adds(ms, Mount(ms, "blocked", DeviceDir), {<<"obdev">>})
         /\ Seen(Mount(ms, "blocked", DeviceDir), DeviceDir).fs = "blocked"
<1>1. IsPath(<<"obdev">>) /\ <<"obdev">> # <<>> /\ "blocked" \in FileSystems
  BY NamesAssumption, OneName DEF FileSystems, IsPath
<1> QED BY <1>1, OverlayMounts DEF DeviceDir

\* The paths of the management bindings lead into the overlay.
LEMMA BindingPaths ==
  ASSUME NEW name \in STRING
  PROVE  /\ <<"overboot">> \in Seq(STRING) /\ <<"overboot">> # <<>>
         /\ Binding = Root \o <<"overboot">>
         /\ <<"overboot", name>> \in Seq(STRING) /\ <<"overboot", name>> # <<>>
         /\ Under(Binding, name) = Root \o <<"overboot", name>>
         /\ Under(Repo, name) = Device \o <<"overboot", name>>
<1>1. "overboot" \in STRING
  BY NamesAssumption
<1>2. <<"overboot">> \in Seq(STRING) /\ <<name>> \in Seq(STRING)
  BY <1>1, OneName
<1>3. <<"overboot", name>> = <<"overboot">> \o <<name>>
  OBVIOUS
<1>4. <<"overboot", name>> \in Seq(STRING)
  BY <1>2, <1>3
<1>5. /\ Under(Binding, name) = Root \o <<"overboot", name>>
      /\ Under(Repo, name) = Device \o <<"overboot", name>>
  BY DEF Under, Binding, Repo, Root, Device
<1> QED BY <1>2, <1>4, <1>5 DEF Binding

\* A binding is detached, with the overlay left in its place.
LEMMA BindingUnmounted ==
  ASSUME NEW ms, Built(ms, 4), NEW name \in STRING
  PROVE  /\ Built(Unmount(ms, Under(Binding, name)), 4)
         /\ Built(Unmount(ms, Binding), 4)
  BY BindingPaths, OverlayUnmounts

\* So is what covers a repository directory.
LEMMA RepositoryUncovered ==
  ASSUME NEW ms, Built(ms, 4)
  PROVE  Built(Unmount(ms, DeviceDir), 4)
<1>1. <<"obdev">> \in Seq(STRING) /\ <<"obdev">> # <<>>
  BY NamesAssumption, OneName
<1> QED BY <1>1, OverlayUnmounts DEF DeviceDir

\* What is not there is not detached.
LEMMA NoOverlayGoes ==
  ASSUME NEW ms, Built(ms, 3)
  PROVE  Unmount(ms, DeviceDir) = ms /\ Unmount(ms, Root) = ms
<1>1. PICK r, D, T, O : Stands(ms, 3, r, D, T, O)
  BY DEF Built
<1>2. <<"obdev">> \in Seq(STRING)
  BY NamesAssumption, OneName
<1>3. /\ Lookup(ms, Root) = Position(RamDisk, Root)
      /\ Lookup(ms, Root \o <<"obdev">>).mount = RamDisk
  BY <1>1, <1>2, NothingAtRoot, Levels
<1>4. Lookup(ms, Root).mount = RamDisk
  BY <1>3 DEF Position
<1> QED BY <1>3, <1>4, UnmountNothing DEF DeviceDir

\* A tmpfs that could not be mounted.
LEMMA NoTmpfsGoes ==
  ASSUME NEW ms, Built(ms, 1)
  PROVE  Unmount(ms, OverbootDir) = ms
<1>1. PICK r, D, T, O : Stands(ms, 1, r, D, T, O)
  BY DEF Built
<1>2. Lookup(ms, OverbootDir) = Position(RamDisk, OverbootDir)
  BY <1>1, NoTmpfsSeen, Levels
<1> QED BY <1>2, UnmountNothing DEF Position

\* A repository that could not be mounted.
LEMMA NoDeviceGoes ==
  ASSUME NEW ms, Built(ms, 0)
  PROVE  Unmount(ms, Device) = ms
<1>1. PICK r, D, T, O : Stands(ms, 0, r, D, T, O)
  BY DEF Built
<1>2. Lookup(ms, Device) = Position(RamDisk, Device)
  BY <1>1, NoDeviceSeen, Levels
<1> QED BY <1>2, UnmountNothing DEF Position

------------------------------------------------------------------------------

(***************************************************************************)
(* Mounts on the overlay, one after the other: which of its places each of *)
(* them leaves as it was.                                                  *)
(***************************************************************************)

\* Nothing is added.
LEMMA AddsNothing == ASSUME NEW ms, Built(ms, 4) PROVE Adds(ms, ms, {})
  BY DEF Adds

\* What is seen at other places than those of a larger set.
LEMMA AddsMore ==
  ASSUME NEW ms, NEW ms2, NEW E, NEW F, E \subseteq F, Adds(ms, ms2, E)
  PROVE  Adds(ms, ms2, F)
  BY DEF Adds

\* What is added one after the other.
LEMMA AddsOn ==
  ASSUME NEW ms, NEW ms2, NEW ms3, NEW E, Adds(ms, ms2, E), Adds(ms2, ms3, E)
  PROVE  Adds(ms, ms3, E)
<1>1. Built(ms3, 4)
  BY DEF Adds
<1>2. ASSUME NEW s, IsPath(s) PROVE Seen(ms3, Device \o s) = Seen(ms, Device \o s)
  BY <1>2, Zenon DEF Adds
<1>3. ASSUME NEW d, IsPath(d), \A e \in E : ~Extends(d, e)
      PROVE  Seen(ms3, Root \o d) = Seen(ms, Root \o d)
  BY <1>3, Zenon DEF Adds
<1> QED BY <1>1, <1>2, <1>3, Zenon DEF Adds

\* A path that goes on behind another one begins with its names.
LEMMA ExtendsNames ==
  ASSUME NEW d, IsPath(d), NEW p, IsPath(p), NEW e, IsPath(e), Extends(d \o p, e)
  PROVE  \A i \in 1..Len(e) : i <= Len(d) => d[i] = e[i]
<1>1. PICK s \in Seq(STRING) : d \o p = e \o s
  BY DEF Extends
<1>2. \A i \in 1..(Len(d) + Len(p)) : i <= Len(d) => (d \o p)[i] = d[i]
  BY ConcatProperties DEF IsPath
<1>3. \A i \in 1..(Len(e) + Len(s)) : i <= Len(e) => (e \o s)[i] = e[i]
  BY ConcatProperties DEF IsPath
<1>4. Len(d) \in Nat /\ Len(p) \in Nat /\ Len(e) \in Nat /\ Len(s) \in Nat
  BY DEF IsPath
<1> QED BY <1>1, <1>2, <1>3, <1>4

\* It is not shorter.
LEMMA ExtendsLength ==
  ASSUME NEW d, IsPath(d), NEW e, IsPath(e), Extends(d, e)
  PROVE  Len(e) <= Len(d)
<1>1. PICK s \in Seq(STRING) : d = e \o s
  BY DEF Extends
<1>2. Len(d) = Len(e) + Len(s) /\ Len(s) \in Nat /\ Len(e) \in Nat
  BY <1>1, ConcatProperties DEF IsPath
<1> QED BY <1>2

\* No path below a directory of the overboot directory goes on behind one of E.
Apart(E, name) ==
  \A e \in E : \A p : IsPath(p) => ~Extends(<<"overboot", name>> \o p, e)

\* The paths of the overlay that are mounted on or bound to.
LEMMA OverbootPath ==
  ASSUME NEW name \in STRING
  PROVE  IsPath(<<"overboot", name>>) /\ <<"overboot", name>> # <<>>
<1>1. <<"overboot">> \in Seq(STRING) /\ <<name>> \in Seq(STRING)
  BY NamesAssumption, OneName
<1>2. <<"overboot", name>> = <<"overboot">> \o <<name>>
  OBVIOUS
<1>3. <<"overboot", name>> \in Seq(STRING)
  BY <1>1, <1>2, ConcatProperties
<1> QED BY <1>3 DEF IsPath

\* Two of its directories are apart.
LEMMA NamesApart ==
  ASSUME NEW a \in STRING, NEW b \in STRING, a # b
  PROVE  Apart({<<"overboot", b>>}, a)
<1> DEFINE d == <<"overboot", a>>
           e == <<"overboot", b>>
<1>1. IsPath(d) /\ IsPath(e) /\ Len(d) = 2 /\ Len(e) = 2 /\ d[2] # e[2]
  BY OverbootPath
<1> HIDE DEF d, e
<1>2. ASSUME NEW p, IsPath(p), Extends(d \o p, e) PROVE FALSE
  <2>1. \A i \in 1..Len(e) : i <= Len(d) => d[i] = e[i]
    BY <1>1, <1>2, ExtendsNames
  <2> QED BY <1>1, <2>1
<1> QED BY <1>2 DEF Apart, d, e

\* Everything is apart that begins with another name.
LEMMA OtherApart ==
  ASSUME NEW e, IsPath(e), e # <<>>, e[1] # "overboot", NEW name \in STRING,
         NEW p, IsPath(p)
  PROVE  ~Extends(<<"overboot", name>> \o p, e)
<1> DEFINE d == <<"overboot", name>>
<1>1. IsPath(d) /\ Len(d) = 2 /\ d[1] = "overboot"
  BY OverbootPath
<1> HIDE DEF d
<1>2. ASSUME Extends(d \o p, e) PROVE FALSE
  <2>1. \A i \in 1..Len(e) : i <= Len(d) => d[i] = e[i]
    BY <1>1, <1>2, ExtendsNames
  <2>2. Len(e) >= 1 /\ Len(e) \in Nat
    BY DEF IsPath
  <2>3. d[1] = e[1]
    BY <1>1, <2>1, <2>2
  <2> QED BY <1>1, <2>3
<1> QED BY <1>2 DEF d

\* So are durables of such names.
LEMMA OthersApart ==
  ASSUME NEW E, \A e \in E : IsPath(e) /\ e # <<>> /\ e[1] # "overboot",
         NEW name \in STRING
  PROVE  Apart(E, name)
  BY OtherApart, Zenon DEF Apart

\* The root of the overlay, and what covers a repository directory.
LEMMA RootApart ==
  ASSUME NEW e, IsPath(e), e # <<>>
  PROVE  ~Extends(<<>>, e) /\ (e # <<"obdev">> => ~Extends(<<"obdev">>, e))
<1>1. Len(e) >= 1 /\ Len(e) \in Nat
  BY DEF IsPath
<1>2. IsPath(<<>>) /\ Len(<<>>) = 0
  BY DEF IsPath
<1>3. ~Extends(<<>>, e)
  BY <1>1, <1>2, ExtendsLength
<1> DEFINE d == <<"obdev">>
           p == <<>>
<1>4. IsPath(d) /\ Len(d) = 1 /\ d \o p = d /\ IsPath(p)
  BY <1>2, NamesAssumption, OneName, ConcatEmpty DEF IsPath
<1> HIDE DEF d, p
<1>5. ASSUME Extends(d, e) PROVE e = d
  <2>1. Len(e) = 1
    BY <1>1, <1>4, <1>5, ExtendsLength
  <2>2. \A i \in 1..Len(e) : i <= Len(d) => d[i] = e[i]
    <3>1. Extends(d \o p, e)
      BY <1>4, <1>5
    <3>2. IsPath(d) /\ IsPath(p)
      BY <1>4
    <3> QED BY <3>1, <3>2, ExtendsNames
  <2>3. d[1] = e[1]
    BY <1>4, <2>1, <2>2
  <2> QED BY <1>4, <2>1, <2>3 DEF IsPath
<1> QED BY <1>3, <1>5 DEF d

\* A directory of the repository is seen below the overboot directory, and the
\* root file system below that of the overlay.
ShownIn(ms, name) == Seen(ms, Under(Binding, name)) = Seen(ms, Under(Repo, name))
LowerShown(ms) ==
  \A path : IsPath(path) =>
    Seen(ms, Under(Binding, "lower-root") \o path) = Seen(InitialMounts, Root \o path)

\* Of three paths behind one another any two can be taken together.
Joins(a, b, c) ==
  /\ IsPath(a \o b) /\ IsPath(b \o c)
  /\ (a \o b) \o c = a \o (b \o c)

\* So it is.
LEMMA PathsJoin ==
  ASSUME NEW a, IsPath(a), NEW b, IsPath(b), NEW c, IsPath(c)
  PROVE  Joins(a, b, c)
  BY ConcatAssociative, ConcatProperties DEF IsPath, Joins

\* The paths of the bindings.
LEMMA BindingNames ==
  ASSUME NEW name \in STRING
  PROVE  /\ IsPath(<<"overboot", name>>) /\ <<"overboot", name>> # <<>>
         /\ Under(Binding, name) = Root \o <<"overboot", name>>
         /\ Under(Repo, name) = Device \o <<"overboot", name>>
         /\ IsPath(Root) /\ IsPath(Device) /\ IsPath(OverbootDir)
  BY BindingPaths, OverbootPath, ThreePlaces DEF IsPath

\* What is added elsewhere leaves them as they are.
LEMMA ShownStays ==
  ASSUME NEW ms, NEW ms2, NEW E, Adds(ms, ms2, E), NEW name \in STRING, Apart(E, name),
         ShownIn(ms, name)
  PROVE  ShownIn(ms2, name)
<1> DEFINE d == <<"overboot", name>>
<1>1. /\ IsPath(d) /\ Under(Binding, name) = Root \o d /\ Under(Repo, name) = Device \o d
      /\ d \o <<>> = d /\ IsPath(<<>>)
  BY BindingNames, ConcatEmpty DEF IsPath
<1> HIDE DEF d
<1>2. \A e \in E : ~Extends(d, e)
  <2>1. \A e \in E : \A p : IsPath(p) => ~Extends(d \o p, e)
    BY DEF Apart, d
  <2> QED BY <1>1, <2>1, Zenon
<1>3. Seen(ms2, Root \o d) = Seen(ms, Root \o d) /\ Seen(ms2, Device \o d) = Seen(ms, Device \o d)
  BY <1>1, <1>2, Zenon DEF Adds
<1> QED BY <1>1, <1>3 DEF ShownIn

\* So it leaves the root file system.
LEMMA LowerStays ==
  ASSUME NEW ms, NEW ms2, NEW E, Adds(ms, ms2, E), Apart(E, "lower-root"), LowerShown(ms)
  PROVE  LowerShown(ms2)
<1> DEFINE d == <<"overboot", "lower-root">>
<1>1. IsPath(d) /\ Under(Binding, "lower-root") = Root \o d /\ IsPath(Root)
  BY BindingNames, NamesAssumption
<1>2. \A e \in E : \A p : IsPath(p) => ~Extends(d \o p, e)
  BY DEF Apart
<1> HIDE DEF d
<1>3. ASSUME NEW path, IsPath(path)
      PROVE  Seen(ms2, (Root \o d) \o path) = Seen(ms, (Root \o d) \o path)
  <2>1. (Root \o d) \o path = Root \o (d \o path) /\ IsPath(d \o path)
    <3>1. Joins(Root, d, path)
      BY <1>1, <1>3, PathsJoin
    <3> QED BY <3>1 DEF Joins
  <2>2. \A e \in E : ~Extends(d \o path, e)
    BY <1>2, <1>3
  <2>3. Seen(ms2, Root \o (d \o path)) = Seen(ms, Root \o (d \o path))
    BY <2>1, <2>2, Zenon DEF Adds
  <2> QED BY <2>1, <2>3
<1> QED BY <1>1, <1>3 DEF LowerShown

\* obInitManagementBindings binds the overboot directory, with the root file
\* system below it.
LEMMA OverbootDirShown ==
  ASSUME NEW ms, Built(ms, 4)
  PROVE  /\ Adds(ms, Bind(ms, OverbootDir, Binding), {<<"overboot">>})
         /\ LowerShown(Bind(ms, OverbootDir, Binding))
<1>1. PICK r, D, T, O : Stands(ms, 4, r, D, T, O)
  BY DEF Built
<1>2. PICK R : Source(ms, R, Lookup(ms, OverbootDir))
  BY <1>1, OverbootDirSource
<1> DEFINE e == <<"overboot">>
           l == <<"lower-root">>
           ms2 == Bind(ms, OverbootDir, Binding)
<1>3. IsPath(e) /\ e # <<>> /\ Binding = Root \o e /\ IsPath(l)
  BY NamesAssumption, OneName DEF IsPath, Binding
<1>4. IsPath(OverbootDir) /\ IsPath(Root) /\ IsPath(Binding) /\ IsPath(<<>>)
  BY <1>3, ThreePlaces, ConcatProperties DEF IsPath
<1>5. LowerRoot = OverbootDir \o l /\ Under(Binding, "lower-root") = Binding \o l
  BY DEF LowerRoot, Under
<1> HIDE DEF e, l
<1>6. Adds(ms, ms2, {e}) /\ BoundTo(ms, ms2, OverbootDir, Binding)
  BY <1>2, <1>3, <1>4, OverlayBinds
<1> HIDE DEF ms2
<1>7. Lookup(ms, LowerRoot) = Position(r.id, <<>>)
  BY <1>1, LowerSeen, Levels
<1>8. ASSUME NEW path, IsPath(path)
      PROVE  Seen(ms2, (Binding \o l) \o path) = Seen(InitialMounts, Root \o path)
  <2>1. /\ (Binding \o l) \o path = Binding \o (l \o path)
        /\ (OverbootDir \o l) \o path = OverbootDir \o (l \o path)
        /\ IsPath(l \o path) /\ IsPath(OverbootDir \o l)
    <3>1. Joins(Binding, l, path) /\ Joins(OverbootDir, l, path)
      BY <1>3, <1>4, <1>8, PathsJoin
    <3> QED BY <3>1 DEF Joins
  <2>2. Seen(ms2, Binding \o (l \o path)) = Seen(ms, OverbootDir \o (l \o path))
    BY <1>6, <2>1 DEF BoundTo
  <2>3. Seen(ms, LowerRoot \o path) = Seen(InitialMounts, Root \o path)
    <3>1. LowerRoot \in Seq(STRING) /\ path \in Seq(STRING)
      BY <1>5, <1>8, <2>1 DEF IsPath
    <3> QED BY <1>1, <1>7, <3>1, InitialSeen
  <2> QED BY <1>5, <2>1, <2>2, <2>3
<1> QED BY <1>5, <1>6, <1>8 DEF LowerShown, ms2, e

\* A directory of the repository is bound on the overlay.
LEMMA RepositoryShown ==
  ASSUME NEW ms, Built(ms, 4), NEW src, IsPath(src), NEW e, IsPath(e), e # <<>>
  PROVE  /\ Adds(ms, Bind(ms, Device \o src, Root \o e), {e})
         /\ BoundTo(ms, Bind(ms, Device \o src, Root \o e), Device \o src, Root \o e)
<1>1. PICK r, D, T, O : Stands(ms, 4, r, D, T, O)
  BY DEF Built
<1>2. Source(ms, D, Lookup(ms, Device \o src))
  BY <1>1, RepositorySource
<1>3. IsPath(Device \o src)
  BY ThreePlaces, ConcatProperties DEF IsPath
<1> DEFINE from == Device \o src
<1> HIDE DEF from
<1>4. /\ Adds(ms, Bind(ms, from, Root \o e), {e})
      /\ BoundTo(ms, Bind(ms, from, Root \o e), from, Root \o e)
  BY <1>2, <1>3, OverlayBinds DEF from
<1> QED BY <1>4 DEF from

\* One of the directories that the user finds below the overboot directory.
LEMMA BindingShown ==
  ASSUME NEW ms, Built(ms, 4), NEW name \in STRING
  PROVE  /\ Adds(ms, Bind(ms, Under(Repo, name), Under(Binding, name)),
                 {<<"overboot", name>>})
         /\ ShownIn(Bind(ms, Under(Repo, name), Under(Binding, name)), name)
<1> DEFINE d == <<"overboot", name>>
           src == Under(Repo, name)
           dst == Under(Binding, name)
           ms2 == Bind(ms, src, dst)
<1>1. /\ IsPath(d) /\ d # <<>> /\ dst = Root \o d /\ src = Device \o d
      /\ IsPath(Root) /\ IsPath(Device) /\ IsPath(<<>>)
  <2>1. IsPath(<<>>)
    BY DEF IsPath
  <2> QED BY <2>1, BindingNames
<1>2. src \o <<>> = src /\ dst \o <<>> = dst
  BY <1>1, ConcatEmpty, ConcatProperties DEF IsPath
<1> HIDE DEF d, src, dst
<1>3. Adds(ms, ms2, {d}) /\ BoundTo(ms, ms2, src, dst)
  BY <1>1, RepositoryShown
<1> HIDE DEF ms2
<1>4. Seen(ms2, dst) = Seen(ms, src)
  BY <1>1, <1>2, <1>3, Zenon DEF BoundTo
<1>5. Seen(ms2, src) = Seen(ms, src)
  BY <1>1, <1>3, Zenon DEF Adds
<1> QED BY <1>3, <1>4, <1>5 DEF ShownIn, d, src, dst, ms2

\* A durable shows its persistent copy.
DurableShown(ms, d) == Seen(ms, Root \o d) = Seen(ms, Persistent(d))

\* Where a durable is kept.
LEMMA PersistentPath ==
  /\ IsPath(<<"overboot", "durables">>)
  /\ \A d : IsPath(d) => /\ IsPath(<<"overboot", "durables">> \o d)
                        /\ Persistent(d) = Device \o (<<"overboot", "durables">> \o d)
<1> DEFINE repo == <<"overboot", "durables">>
<1>1. IsPath(repo) /\ Under(Repo, "durables") = Device \o repo /\ IsPath(Device)
  BY NamesAssumption, BindingNames
<1> HIDE DEF repo
<1>2. ASSUME NEW d, IsPath(d)
      PROVE  IsPath(repo \o d) /\ (Device \o repo) \o d = Device \o (repo \o d)
  <2>1. Joins(Device, repo, d)
    BY <1>1, <1>2, PathsJoin
  <2> QED BY <2>1 DEF Joins
<1> QED BY <1>1, <1>2 DEF Persistent, repo

\* When one more is bound it is shown, and so are those that have been, be they
\* inside of it or not.
LEMMA DurableAdds ==
  ASSUME NEW ms, Built(ms, 4), NEW e, IsPath(e), e # <<>>
  PROVE  /\ Adds(ms, Bind(ms, Persistent(e), Root \o e), {e})
         /\ DurableShown(Bind(ms, Persistent(e), Root \o e), e)
         /\ \A d : IsPath(d) /\ DurableShown(ms, d)
                     => DurableShown(Bind(ms, Persistent(e), Root \o e), d)
<1> DEFINE ms2 == Bind(ms, Persistent(e), Root \o e)
           repo == <<"overboot", "durables">>
<1>1. /\ IsPath(repo) /\ IsPath(Root) /\ IsPath(Device) /\ IsPath(<<>>)
      /\ \A d : IsPath(d) => IsPath(repo \o d) /\ Persistent(d) = Device \o (repo \o d)
  BY PersistentPath, ThreePlaces DEF IsPath
<1> HIDE DEF repo
<1>2. Adds(ms, ms2, {e}) /\ BoundTo(ms, ms2, Persistent(e), Root \o e)
  <2>1. IsPath(repo \o e) /\ Persistent(e) = Device \o (repo \o e)
    BY <1>1
  <2> QED BY <2>1, RepositoryShown
<1> HIDE DEF ms2
<1>3. ASSUME NEW d, IsPath(d) PROVE Seen(ms2, Persistent(d)) = Seen(ms, Persistent(d))
  BY <1>1, <1>2, <1>3, Zenon DEF Adds
<1>4. ASSUME NEW d, IsPath(d), Extends(d, e) PROVE DurableShown(ms2, d)
  <2>1. PICK s : IsPath(s) /\ d = e \o s
    BY <1>4 DEF Extends, IsPath
  <2>2. Root \o d = (Root \o e) \o s
    <3>1. Joins(Root, e, s)
      BY <1>1, <2>1, PathsJoin
    <3> QED BY <2>1, <3>1 DEF Joins
  <2>3. Persistent(d) = Persistent(e) \o s
    <3>1. Joins(repo, e, s) /\ IsPath(repo \o e)
      BY <1>1, <2>1, PathsJoin
    <3>2. Joins(Device, repo \o e, s)
      BY <1>1, <2>1, <3>1, PathsJoin
    <3>3. Device \o (repo \o d) = (Device \o (repo \o e)) \o s
      BY <2>1, <3>1, <3>2 DEF Joins
    <3> QED BY <1>1, <1>4, <3>3
  <2>4. Seen(ms2, Root \o d) = Seen(ms, Persistent(d))
    BY <1>2, <2>1, <2>2, <2>3 DEF BoundTo
  <2> QED BY <1>3, <1>4, <2>4 DEF DurableShown
<1>5. ASSUME NEW d, IsPath(d), ~Extends(d, e), DurableShown(ms, d) PROVE DurableShown(ms2, d)
  <2>1. Seen(ms2, Root \o d) = Seen(ms, Root \o d)
    BY <1>2, <1>5, Zenon DEF Adds
  <2> QED BY <1>3, <1>5, <2>1 DEF DurableShown
<1>6. Extends(e, e)
  BY ExtendsItself DEF IsPath
<1> QED BY <1>2, <1>4, <1>5, <1>6 DEF ms2

\* The mounts with the overlay.
Overlaid == {ms \in SUBSET MountRecords(FileSystems) : Built(ms, 4)}

\* It is the set of all of them.
LEMMA OverlaidAll ==
  ASSUME NEW ms
  PROVE  ms \in Overlaid <=> Built(ms, 4)
<1>1. ASSUME Built(ms, 4) PROVE ms \subseteq MountRecords(FileSystems)
  <2>1. PICK r, D, T, O : Stands(ms, 4, r, D, T, O)
    BY <1>1 DEF Built
  <2> QED BY <2>1 DEF Stands, Parts, WellFormed
<1> QED BY <1>1 DEF Overlaid

\* One step of BindDurables.
BindDurable(ms, d) == Bind(ms, Persistent(d), Root \o d)

\* Durables, each of them something below the root.
AreDurables(durables) ==
  durables \in Seq(Seq(STRING)) /\ \A i \in 1..Len(durables) : durables[i] # <<>>

\* So each is a path.
LEMMA EachDurable ==
  ASSUME NEW durables, AreDurables(durables)
  PROVE  /\ Len(durables) \in Nat /\ DOMAIN durables = 1..Len(durables)
         /\ \A i \in 1..Len(durables) : IsPath(durables[i]) /\ durables[i] # <<>>
  BY ElementOfSeq DEF AreDurables, IsPath

\* A durable is bound, or detached.
LEMMA DurableStep ==
  ASSUME NEW ms \in Overlaid, NEW d, IsPath(d), d # <<>>
  PROVE  BindDurable(ms, d) \in Overlaid /\ Unmount(ms, Root \o d) \in Overlaid
<1>1. Built(ms, 4)
  BY OverlaidAll
<1>2. Built(BindDurable(ms, d), 4)
  BY <1>1, DurableAdds DEF Adds, BindDurable
<1>3. Built(Unmount(ms, Root \o d), 4)
  BY <1>1, OverlayUnmounts DEF IsPath
<1> QED BY <1>2, <1>3, OverlaidAll

\* Binding durables one after the other.
Bindings(b, ms, durables) ==
  /\ b[0] = ms
  /\ \A i \in 1..Len(durables) : b[i] = BindDurable(b[i - 1], durables[i])
  /\ \A i \in 0..Len(durables) : Built(b[i], 4)

\* So they are bound, however many there are.
LEMMA DurablesIterated ==
  ASSUME NEW ms, Built(ms, 4), NEW durables, AreDurables(durables)
  PROVE  \E b : Bindings(b, ms, durables) /\ BindDurables(ms, durables) = b[Len(durables)]
<1> DEFINE N == Len(durables)
           Step(i, s) == BindDurable(s, durables[i])
           F == [a \in (1..N) \X Overlaid |-> Step(a[1], a[2])]
           Is(f) == f = [n \in 0..N |-> IF n = 0 THEN ms
                                        ELSE Step(n, f[n - 1])]
           bound == CHOOSE f : Is(f)
<1>1. N \in Nat /\ \A i \in 1..N : IsPath(durables[i]) /\ durables[i] # <<>>
  BY EachDurable
<1>2. BindDurables(ms, durables) = bound[N]
  BY Zenon DEF BindDurables, BindDurable
<1>3. \A i \in 1..N : \A s \in Overlaid : Step(i, s) \in Overlaid
  BY <1>1, DurableStep
<1>15. \A i, s : Step(i, s) = BindDurable(s, durables[i])
  OBVIOUS
<1> HIDE DEF N, Step
<1>4. \A i \in 1..N : \A s \in Overlaid : F[<<i, s>>] = Step(i, s)
  OBVIOUS
<1> HIDE DEF F, Is, bound
<1>5. StepsIn(F, N, Overlaid)
  BY <1>3, <1>4 DEF StepsIn
<1>6. ms \in Overlaid
  BY OverlaidAll
<1>7. PICK f \in [0..N -> Overlaid] : Iterates(f, F, ms, N)
  BY <1>1, <1>5, <1>6, IterationExists, Zenon
<1> USE DEF Is
<1>8. Is(f)
  <2>1. ASSUME NEW i \in 1..N PROVE f[i] = Step(i, f[i - 1])
    <3>1. f[i - 1] \in Overlaid
      BY <1>1, <1>7
    <3> QED BY <3>1, <1>4, <1>7 DEF Iterates
  <2>2. \A n \in 0..N : f[n] = IF n = 0 THEN ms ELSE Step(n, f[n - 1])
    BY <1>1, <1>7, <2>1 DEF Iterates
  <2> QED BY <2>2
<1>9. Is(bound)
  BY <1>8, Zenon DEF bound
<1>10. bound[0] = ms /\ \A i \in 1..N : bound[i] = Step(i, bound[i - 1])
  <2>1. \A n \in 0..N : bound[n] = IF n = 0 THEN ms ELSE Step(n, bound[n - 1])
    BY <1>9, Zenon
  <2>2. N \in Nat
    BY <1>1
  <2> QED BY <2>1, <2>2
<1>11. \A i \in 1..N : bound[i - 1] \in Overlaid => bound[i] \in Overlaid
  BY <1>3, <1>10
<1>12. \A i \in 0..N : bound[i] \in Overlaid
  BY <1>1, <1>6, <1>10, <1>11, IterationStays
<1>13. \A i \in 0..N : Built(bound[i], 4)
  BY <1>12, OverlaidAll
<1>14. Bindings(bound, ms, durables)
  BY <1>10, <1>13, <1>15, Zenon DEF Bindings, N
<1> QED BY <1>2, <1>14 DEF N

\* The durables of a list.
DurablePlaces(durables) == {durables[i] : i \in 1..Len(durables)}

\* All of them are shown, and nothing else is different.
LEMMA DurablesShown ==
  ASSUME NEW ms, Built(ms, 4), NEW durables, AreDurables(durables)
  PROVE  /\ Adds(ms, BindDurables(ms, durables), DurablePlaces(durables))
         /\ \A i \in DOMAIN durables : DurableShown(BindDurables(ms, durables), durables[i])
<1> DEFINE N == Len(durables)
           E == DurablePlaces(durables)
<1>1. PICK b : Bindings(b, ms, durables) /\ BindDurables(ms, durables) = b[N]
  BY DurablesIterated
<1>2. /\ N \in Nat /\ DOMAIN durables = 1..N
      /\ \A i \in 1..N : IsPath(durables[i]) /\ durables[i] # <<>> /\ durables[i] \in E
  BY EachDurable DEF DurablePlaces
<1>3. /\ b[0] = ms /\ \A i \in 1..N : b[i] = BindDurable(b[i - 1], durables[i])
      /\ \A i \in 0..N : Built(b[i], 4)
  BY <1>1 DEF Bindings
<1> HIDE DEF N, E
<1> DEFINE S == {i \in 0..N : /\ Adds(ms, b[i], E)
                             /\ \A j \in 1..i : DurableShown(b[i], durables[j])}
<1>4. 0 \in S
  <2>1. Adds(ms, ms, {})
    BY AddsNothing
  <2>2. Adds(ms, ms, E)
    BY <2>1, AddsMore
  <2> QED BY <1>2, <1>3, <2>2
<1>5. ASSUME NEW i \in 1..N, i - 1 \in S PROVE i \in S
  <2> DEFINE m == b[i - 1]
             m2 == b[i]
             e == durables[i]
  <2>1. /\ IsPath(e) /\ e # <<>> /\ e \in E /\ Built(m, 4) /\ m2 = BindDurable(m, e)
        /\ Adds(ms, m, E) /\ \A j \in 1..(i - 1) : DurableShown(m, durables[j])
    BY <1>2, <1>3, <1>5
  <2> HIDE DEF m, m2, e
  <2>2. /\ Adds(m, m2, {e}) /\ DurableShown(m2, e)
        /\ \A d : IsPath(d) /\ DurableShown(m, d) => DurableShown(m2, d)
    BY <2>1, DurableAdds DEF BindDurable
  <2>3. Adds(ms, m2, E)
    <3>1. Adds(m, m2, E)
      BY <2>1, <2>2, AddsMore
    <3> QED BY <2>1, <3>1, AddsOn
  <2>4. ASSUME NEW j \in 1..i PROVE DurableShown(m2, durables[j])
    <3>1. CASE j = i
      BY <2>2, <3>1 DEF e
    <3>2. CASE j # i
      <4>1. j \in 1..(i - 1) /\ j \in 1..N
        BY <1>2, <3>2
      <4> QED BY <1>2, <2>1, <2>2, <4>1
    <3> QED BY <3>1, <3>2
  <2>5. i \in 0..N
    BY <1>2
  <2> QED BY <2>3, <2>4, <2>5 DEF m2
<1>6. N \in S
  <2> HIDE DEF S
  <2>1. 0..N \subseteq S
    BY <1>2, <1>4, <1>5, BoundedInduction
  <2> QED BY <1>2, <2>1
<1> QED BY <1>1, <1>2, <1>6 DEF E

\* Detaching them changes the overlay only, too.
LEMMA DurablesUnmounted ==
  ASSUME NEW ms, Built(ms, 4), NEW durables, AreDurables(durables)
  PROVE  Built(UnmountDurables(ms, durables), 4)
<1> DEFINE N == Len(durables)
           Step(i, s) == Unmount(s, Root \o durables[i])
           F == [a \in (1..N) \X Overlaid |-> Step(a[1], a[2])]
           Is(f) == f = [n \in 0..N |-> IF n = 0 THEN ms
                                        ELSE Step(n, f[n - 1])]
           left == CHOOSE f : Is(f)
<1>1. N \in Nat /\ \A i \in 1..N : IsPath(durables[i]) /\ durables[i] # <<>>
  BY EachDurable
<1>2. UnmountDurables(ms, durables) = left[N]
  BY Zenon DEF UnmountDurables
<1>3. \A i \in 1..N : \A s \in Overlaid : Step(i, s) \in Overlaid
  BY <1>1, DurableStep
<1> HIDE DEF N, Step
<1>4. \A i \in 1..N : \A s \in Overlaid : F[<<i, s>>] = Step(i, s)
  OBVIOUS
<1> HIDE DEF F, Is, left
<1>5. StepsIn(F, N, Overlaid)
  BY <1>3, <1>4 DEF StepsIn
<1>6. ms \in Overlaid
  BY OverlaidAll
<1>7. PICK f \in [0..N -> Overlaid] : Iterates(f, F, ms, N)
  BY <1>1, <1>5, <1>6, IterationExists, Zenon
<1> USE DEF Is
<1>8. Is(f)
  <2>1. ASSUME NEW i \in 1..N PROVE f[i] = Step(i, f[i - 1])
    <3>1. f[i - 1] \in Overlaid
      BY <1>1, <1>7
    <3> QED BY <3>1, <1>4, <1>7 DEF Iterates
  <2>2. \A n \in 0..N : f[n] = IF n = 0 THEN ms ELSE Step(n, f[n - 1])
    BY <1>1, <1>7, <2>1 DEF Iterates
  <2> QED BY <2>2
<1>9. Is(left)
  BY <1>8, Zenon DEF left
<1>10. left[0] = ms /\ \A i \in 1..N : left[i] = Step(i, left[i - 1])
  <2>1. \A n \in 0..N : left[n] = IF n = 0 THEN ms ELSE Step(n, left[n - 1])
    BY <1>9, Zenon
  <2>2. N \in Nat
    BY <1>1
  <2> QED BY <2>1, <2>2
<1>11. \A i \in 1..N : left[i - 1] \in Overlaid => left[i] \in Overlaid
  BY <1>3, <1>10
<1>12. \A i \in 0..N : left[i] \in Overlaid
  BY <1>1, <1>6, <1>10, <1>11, IterationStays
<1>13. left[N] \in Overlaid
  BY <1>1, <1>12
<1> QED BY <1>2, <1>13, OverlaidAll

------------------------------------------------------------------------------

(***************************************************************************)
(* What a task that has succeeded has made: the overlay, the management    *)
(* bindings and the durables.                                              *)
(***************************************************************************)

\* A repository directory is covered.
Covered(ms) == Seen(ms, DeviceDir).fs = "blocked"

\* The management bindings that a configuration asks for.
Managed(ms, c) ==
  /\ LowerShown(ms)
  /\ ShownIn(ms, "jobs")
  /\ c.bindLayers => ShownIn(ms, "layers")
  /\ ~c.useTmpfs => ShownIn(ms, "upper")

\* The durables of a configuration.
Durable(ms, c) == \A i \in DOMAIN c.durables : DurableShown(ms, c.durables[i])

\* Places of the overlay that are not its root, and those that cover nothing.
Proper(E) == \A e \in E : IsPath(e) /\ e # <<>>
Elsewhere(E) == \A e \in E : e[1] # "overboot" /\ e # <<"obdev">>

\* The overlay stays the root whatever is mounted on it, and the cover stays
\* where it is.
LEMMA RootStays ==
  ASSUME NEW ms, NEW ms2, NEW E, Adds(ms, ms2, E), Proper(E)
  PROVE  /\ IsOverlay(ms) => IsOverlay(ms2)
         /\ Covered(ms) /\ (\A e \in E : e # <<"obdev">>) => Covered(ms2)
<1> DEFINE d == <<"obdev">>
           p == <<>>
<1>1. IsPath(d) /\ DeviceDir = Root \o d
  BY NamesAssumption, OneName DEF IsPath, DeviceDir
<1>2. IsPath(p) /\ Root \o p = Root
  BY ThreePlaces, ConcatEmpty DEF IsPath
<1>3. \A e \in E : ~Extends(p, e) /\ (e # d => ~Extends(d, e))
  BY RootApart DEF Proper
<1> HIDE DEF d, p
<1>4. Seen(ms2, Root \o p) = Seen(ms, Root \o p)
  BY <1>2, <1>3, Zenon DEF Adds
<1>5. ASSUME \A e \in E : e # d PROVE Seen(ms2, Root \o d) = Seen(ms, Root \o d)
  <2>1. \A e \in E : ~Extends(d, e)
    BY <1>3, <1>5
  <2> QED BY <1>1, <2>1, Zenon DEF Adds
<1>6. IsOverlay(ms) => IsOverlay(ms2)
  BY <1>2, <1>4 DEF IsOverlay
<1>7. Covered(ms) /\ (\A e \in E : e # d) => Covered(ms2)
  BY <1>1, <1>5 DEF Covered
<1> QED BY <1>6, <1>7 DEF d

\* obInitOverlayfs.
LEMMA OverlayMade ==
  ASSUME Built(mounts, 3), InitOverlayfs
  PROVE  \E ok \in BOOLEAN : \E ms :
           /\ Return(ok, ms)
           /\ Built(ms, 4) \/ (~ok /\ Built(ms, 3))
           /\ ok => IsOverlay(ms) /\ (context.type = "DIR" => Covered(ms))
<1> DEFINE over == Mount(mounts, "overlay", Root)
           covered == Mount(over, "blocked", DeviceDir)
           place == {<<"obdev">>}
<1>1. Built(over, 4) /\ IsOverlay(over)
  BY OverlayMounted
<1>2. PICK mounted, blocked, blockedRo \in BOOLEAN :
        Return(mounted /\ (context.type = "DIR" => blocked /\ blockedRo),
               IF context.type = "DIR" /\ mounted /\ blocked
                 THEN Mount(IF mounted THEN over ELSE mounts, "blocked", DeviceDir)
                 ELSE IF mounted THEN over ELSE mounts)
  BY Zenon DEF InitOverlayfs
<1> HIDE DEF over
<1>3. Adds(over, covered, place) /\ Covered(covered)
  BY <1>1, RepositoryCovered DEF Covered
<1>4. Proper(place)
  BY NamesAssumption, OneName DEF Proper, IsPath
<1>5. Built(covered, 4) /\ IsOverlay(covered)
  <2> HIDE DEF place, covered
  <2> QED BY <1>1, <1>3, <1>4, RootStays DEF Adds
<1>6. CASE ~mounted
  <2>1. Return(FALSE, mounts)
    BY <1>2, <1>6
  <2> QED BY <2>1
<1>7. CASE mounted /\ context.type = "DIR" /\ blocked
  <2>1. Return(blockedRo, covered)
    BY <1>2, <1>7
  <2> HIDE DEF covered
  <2> QED BY <1>3, <1>5, <2>1
<1>8. CASE mounted /\ context.type = "DIR" /\ ~blocked
  <2>1. Return(FALSE, over)
    BY <1>2, <1>8
  <2> QED BY <1>1, <2>1
<1>9. CASE mounted /\ context.type # "DIR"
  <2>1. Return(TRUE, over)
    BY <1>2, <1>9
  <2> QED BY <1>1, <1>9, <2>1
<1> QED BY <1>6, <1>7, <1>8, <1>9

\* The places of the management bindings, and the names of the last three.
BindingPlaces ==
  {<<"overboot">>, <<"overboot", "layers">>, <<"overboot", "upper">>, <<"overboot", "jobs">>}
BoundNames == {"layers", "upper", "jobs"}

\* A directory of the repository is bound, or nothing is done.
Extended(ms, ms2, bound, name) ==
  /\ Adds(ms, ms2, BindingPlaces)
  /\ bound => ShownIn(ms2, name)
  /\ \A other \in BoundNames : other # name /\ ShownIn(ms, other) => ShownIn(ms2, other)
  /\ LowerShown(ms) => LowerShown(ms2)

\* One binding after the other.
BindingOf(ms, bound, name) ==
  IF bound THEN Bind(ms, Under(Repo, name), Under(Binding, name)) ELSE ms

\* None of them hides another one.
LEMMA BindingExtends ==
  ASSUME NEW ms, Built(ms, 4), NEW bound \in BOOLEAN, NEW name \in BoundNames
  PROVE  Extended(ms, BindingOf(ms, bound, name), bound, name)
<1>1. CASE ~bound
  <2>1. Adds(ms, ms, {}) /\ {} \subseteq BindingPlaces
    BY AddsNothing
  <2>2. Adds(ms, ms, BindingPlaces)
    BY <2>1, AddsMore
  <2> QED BY <1>1, <2>2 DEF Extended, BindingOf
<1>2. CASE bound
  <2> DEFINE ms2 == Bind(ms, Under(Repo, name), Under(Binding, name))
             place == {<<"overboot", name>>}
  <2>1. BoundNames \subseteq STRING /\ "lower-root" \in STRING /\ "lower-root" \notin BoundNames
    BY NamesAssumption DEF BoundNames
  <2>2. Adds(ms, ms2, place) /\ ShownIn(ms2, name)
    BY <2>1, BindingShown
  <2>3. place \subseteq BindingPlaces
    BY DEF BoundNames, BindingPlaces
  <2>4. \A other \in BoundNames \cup {"lower-root"} : other # name => Apart(place, other)
    BY <2>1, NamesApart
  <2> HIDE DEF ms2, place
  <2>5. Adds(ms, ms2, BindingPlaces)
    BY <2>2, <2>3, AddsMore
  <2>6. ASSUME NEW other \in BoundNames, other # name, ShownIn(ms, other)
        PROVE  ShownIn(ms2, other)
    <3>1. Apart(place, other) /\ other \in STRING
      BY <2>1, <2>4, <2>6
    <3> QED BY <2>2, <2>6, <3>1, ShownStays
  <2>7. LowerShown(ms) => LowerShown(ms2)
    BY <2>1, <2>2, <2>4, LowerStays
  <2>8. Extended(ms, ms2, TRUE, name)
    BY <2>2, <2>5, <2>6, <2>7 DEF Extended
  <2> QED BY <1>2, <2>8 DEF BindingOf, ms2
<1> QED BY <1>1, <1>2

\* obInitManagementBindings.
LEMMA BindingsMade ==
  ASSUME Built(mounts, 4), InitManagementBindings
  PROVE  \E ok \in BOOLEAN : \E ms :
           /\ Return(ok, ms)
           /\ Adds(mounts, ms, BindingPlaces)
           /\ ok => Managed(ms, context)
<1>1. PICK overlay, layers, upper, jobs \in BOOLEAN :
        LET ok1 == overlay
            ok2 == ok1 /\ (context.bindLayers => layers)
            ok3 == ok2 /\ (~context.useTmpfs => upper)
            ok4 == ok3 /\ jobs
            ms1 == IF ok1 THEN Bind(mounts, OverbootDir, Binding) ELSE mounts
            ms2 == IF ok2 /\ context.bindLayers
                     THEN Bind(ms1, Under(Repo, "layers"), Under(Binding, "layers"))
                     ELSE ms1
            ms3 == IF ok3 /\ ~context.useTmpfs
                     THEN Bind(ms2, Under(Repo, "upper"), Under(Binding, "upper"))
                     ELSE ms2
            ms4 == IF ok4
                     THEN Bind(ms3, Under(Repo, "jobs"), Under(Binding, "jobs"))
                     ELSE ms3
        IN  Return(ok4, ms4)
  BY SMT DEF InitManagementBindings
<1> DEFINE ok2 == overlay /\ (context.bindLayers => layers)
           ok3 == ok2 /\ (~context.useTmpfs => upper)
           ok4 == ok3 /\ jobs
           go2 == ok2 /\ context.bindLayers
           go3 == ok3 /\ ~context.useTmpfs
           ms1 == IF overlay THEN Bind(mounts, OverbootDir, Binding) ELSE mounts
           ms2 == BindingOf(ms1, go2, "layers")
           ms3 == BindingOf(ms2, go3, "upper")
           ms4 == BindingOf(ms3, ok4, "jobs")
<1>2. Return(ok4, ms4)
  BY <1>1, Zenon DEF BindingOf
<1>3. go2 \in BOOLEAN /\ go3 \in BOOLEAN /\ ok4 \in BOOLEAN
  OBVIOUS
<1>4. /\ ok4 => overlay /\ ok3
      /\ ok4 /\ context.bindLayers => go2
      /\ ok4 /\ ~context.useTmpfs => go3
  OBVIOUS
<1>5. "layers" \in BoundNames /\ "upper" \in BoundNames /\ "jobs" \in BoundNames
  BY DEF BoundNames
<1> HIDE DEF ok2, ok3, ok4, go2, go3
<1>6. Adds(mounts, ms1, BindingPlaces) /\ (overlay => LowerShown(ms1))
  <2>1. CASE overlay
    <3>1. {<<"overboot">>} \subseteq BindingPlaces
      BY DEF BindingPlaces
    <3> QED BY <2>1, <3>1, OverbootDirShown, AddsMore
  <2>2. CASE ~overlay
    <3>1. Adds(mounts, mounts, {}) /\ {} \subseteq BindingPlaces
      BY AddsNothing
    <3>2. Adds(mounts, mounts, BindingPlaces)
      BY <3>1, AddsMore
    <3> QED BY <2>2, <3>2
  <2> QED BY <2>1, <2>2
<1> HIDE DEF ms1
<1>7. Extended(ms1, ms2, go2, "layers")
  <2>1. Built(ms1, 4)
    BY <1>6 DEF Adds
  <2> QED BY <1>3, <1>5, <2>1, BindingExtends
<1> HIDE DEF ms2
<1>8. Extended(ms2, ms3, go3, "upper")
  <2>1. Built(ms2, 4)
    BY <1>7, Zenon DEF Adds, Extended
  <2> QED BY <1>3, <1>5, <2>1, BindingExtends
<1> HIDE DEF ms3
<1>9. Extended(ms3, ms4, ok4, "jobs")
  <2>1. Built(ms3, 4)
    BY <1>8, Zenon DEF Adds, Extended
  <2> QED BY <1>3, <1>5, <2>1, BindingExtends
<1> HIDE DEF ms4
<1>10. Adds(mounts, ms4, BindingPlaces)
  <2>1. Adds(mounts, ms2, BindingPlaces)
    BY <1>6, <1>7, AddsOn DEF Extended
  <2>2. Adds(mounts, ms3, BindingPlaces)
    BY <1>8, <2>1, AddsOn DEF Extended
  <2> QED BY <1>9, <2>2, AddsOn DEF Extended
<1>11. ok4 => Managed(ms4, context)
  <2> SUFFICES ASSUME ok4 PROVE Managed(ms4, context)
    OBVIOUS
  <2>1. LowerShown(ms4) /\ ShownIn(ms4, "jobs")
    BY <1>4, <1>6, <1>7, <1>8, <1>9 DEF Extended
  <2>2. context.bindLayers => ShownIn(ms4, "layers")
    <3> SUFFICES ASSUME context.bindLayers PROVE ShownIn(ms4, "layers")
      OBVIOUS
    <3>1. ShownIn(ms2, "layers")
      BY <1>4, <1>7 DEF Extended
    <3> QED BY <1>5, <1>8, <1>9, <3>1 DEF Extended
  <2>3. ~context.useTmpfs => ShownIn(ms4, "upper")
    <3> SUFFICES ASSUME ~context.useTmpfs PROVE ShownIn(ms4, "upper")
      OBVIOUS
    <3>1. ShownIn(ms3, "upper")
      BY <1>4, <1>8 DEF Extended
    <3> QED BY <1>5, <1>9, <3>1 DEF Extended
  <2> QED BY <2>1, <2>2, <2>3 DEF Managed
<1> QED BY <1>2, <1>3, <1>10, <1>11

\* obInitDurables: when it fails, some of the durables are bound.
LEMMA DurablesMade ==
  ASSUME Built(mounts, 4), context \in Contexts, InitDurables
  PROVE  \E ok \in BOOLEAN : \E ms, E :
           /\ Return(ok, ms)
           /\ Adds(mounts, ms, E) /\ Proper(E) /\ (HidesNothing(context) => Elsewhere(E))
           /\ ok => Durable(ms, context)
<1> DEFINE all == context.durables
           N == Len(all)
<1>1. AreDurables(all)
  BY ContextsAssumption DEF ContextOK, AreDurables
<1>2. PICK n \in 0..N : Return(n = N, BindDurables(mounts, SubSeq(all, 1, n)))
  BY Zenon DEF InitDurables
<1> DEFINE some == SubSeq(all, 1, n)
           ms == BindDurables(mounts, some)
           E == DurablePlaces(some)
<1>3. /\ some \in Seq(Seq(STRING)) /\ Len(some) = n /\ N \in Nat
      /\ \A i \in 1..n : some[i] = all[i] /\ i \in 1..N
  BY <1>1, SubSeqProperties DEF AreDurables
<1>4. AreDurables(some)
  BY <1>1, <1>3 DEF AreDurables
<1>5. n = N => some = all
  BY <1>1, <1>3 DEF AreDurables
<1>6. HidesNothing(context) <=> \A i \in 1..N : all[i][1] # "overboot" /\ all[i] # <<"obdev">>
  BY <1>1, EachDurable DEF HidesNothing
<1> HIDE DEF all, N, some
<1>7. Adds(mounts, ms, E) /\ \A i \in DOMAIN some : DurableShown(ms, some[i])
  BY <1>4, DurablesShown
<1>8. Proper(E)
  BY <1>4, EachDurable DEF Proper, DurablePlaces
<1>9. HidesNothing(context) => Elsewhere(E)
  BY <1>3, <1>6, SMTT(60) DEF Elsewhere, DurablePlaces
<1>10. n = N => Durable(ms, context)
  BY <1>5, <1>7 DEF Durable, all
<1>11. Return(n = N, ms) /\ (n = N) \in BOOLEAN
  BY <1>2 DEF some
<1> HIDE DEF ms, E
<1> QED BY <1>7, <1>8, <1>9, <1>10, <1>11

------------------------------------------------------------------------------

\* The inductive invariant.
MountsIInv == PassOK /\ context \in Contexts /\ BuiltOK

\* The steps one by one.
LEMMA LevelsBefore ==
  /\ LevelBefore[1] = 0 /\ LevelBefore[2] = 1 /\ LevelBefore[3] = 1
  /\ LevelBefore[4] = 1 /\ LevelBefore[5] = 2 /\ LevelBefore[6] = 3
  /\ LevelBefore[7] = 4 /\ LevelBefore[8] = 4 /\ LevelBefore[9] = 4
  /\ LevelBefore[10] = 4 /\ LevelBefore[11] = 4 /\ LevelBefore[12] = 4
  BY DEF LevelBefore

\* A task leaves the mounts of the step that it is done with, or, when it fails,
\* those that it found.
LEMMA TaskReturns ==
  ASSUME PassOK, pc = "exec", NEW ok \in BOOLEAN, NEW ms, Return(ok, ms),
         \/ Built(ms, LevelBefore[task + 1])
         \/ ~ok /\ Built(ms, LevelBefore[task])
  PROVE  BuiltOK'
<1>1. task \in 1..11
  BY TaskPlaces DEF PassOK
<1>2. CASE ok
  <2>1. Built(ms, LevelBefore[task + 1]) /\ mounts' = ms
    BY <1>2 DEF Return, Succeed
  <2>2. CASE task = 11
    <3>1. pc' = "end" /\ task' = task /\ Built(ms, 4)
      BY <1>2, <2>1, <2>2, TaskPlaces, LevelsBefore DEF Return, Succeed
    <3> QED BY <2>1, <2>2, <3>1, TaskPlaces DEF BuiltOK
  <2>3. CASE task # 11
    <3>1. pc' = "exec" /\ task' = task + 1
      BY <1>2, <2>3, TaskPlaces DEF Return, Succeed
    <3> QED BY <2>1, <3>1 DEF BuiltOK
  <2> QED BY <2>2, <2>3
<1>3. CASE ~ok
  <2>1. mounts' = ms /\ pc' = "undo" /\ task' = task
    BY <1>3 DEF Return, Fail
  <2>2. \E i \in {task, task + 1} : Built(ms, LevelBefore[i])
    OBVIOUS
  <2> QED BY <2>1, <2>2 DEF BuiltOK
<1> QED BY <1>2, <1>3

\* An undo function leaves those that the task found.
LEMMA TaskUndone ==
  ASSUME PassOK, pc = "undo", NEW ms, Undone(ms), Built(ms, LevelBefore[task])
  PROVE  BuiltOK'
<1>1. task \in 1..11 /\ mounts' = ms
  BY TaskPlaces DEF PassOK, Undone
<1>2. CASE task = 1
  <2>1. pc' = "restored" /\ task' = 1 /\ Built(ms, 0)
    BY <1>2, LevelsBefore DEF Undone
  <2> QED BY <1>1, <2>1 DEF BuiltOK
<1>3. CASE task # 1
  <2>1. pc' = "undo" /\ task' = task - 1 /\ task' + 1 = task
    BY <1>1, <1>3 DEF Undone
  <2>2. \E i \in {task', task' + 1} : Built(ms, LevelBefore[i])
    BY <2>1
  <2> QED BY <1>1, <2>1, <2>2 DEF BuiltOK
<1> QED BY <1>2, <1>3

\* Before a task is executed, and before it is undone.
LEMMA ExecAt ==
  ASSUME PassOK, BuiltOK, pc = "exec"
  PROVE  Built(mounts, LevelBefore[task]) /\ task \in 1..11
  BY TaskPlaces DEF BuiltOK, PassOK

\* A task that is undone has been done, or failed before it mounted anything.
LEMMA UndoAt ==
  ASSUME PassOK, BuiltOK, pc = "undo"
  PROVE  /\ Built(mounts, LevelBefore[task]) \/ Built(mounts, LevelBefore[task + 1])
         /\ task \in 1..11
  BY TaskPlaces DEF BuiltOK, PassOK

\* The repository.
LEMMA DeviceTask ==
  ASSUME PassOK, BuiltOK,
         InitBlockDevice \/ InitImageFile \/ InitEmbeddedRepository
  PROVE  BuiltOK'
<1>1. pc = "exec" /\ task = 1 /\ Built(mounts, 0)
  BY ExecAt, TaskPlaces, LevelsBefore
     DEF InitBlockDevice, InitImageFile, InitEmbeddedRepository, At, PassOK
<1>2. LevelBefore[task] = 0 /\ LevelBefore[task + 1] = 1
  BY <1>1, LevelsBefore
<1>3. ASSUME NEW ok \in BOOLEAN, NEW ms, Built(ms, 1),
             Return(ok, IF ok THEN ms ELSE mounts)
      PROVE  BuiltOK'
  BY <1>1, <1>2, <1>3, TaskReturns
<1>4. CASE InitBlockDevice \/ InitImageFile
  <2>1. \E ok \in BOOLEAN :
          Return(ok, IF ok THEN Mount(mounts, "repository", Device) ELSE mounts)
    BY <1>4, Zenon DEF InitBlockDevice, InitImageFile
  <2>2. Built(Mount(mounts, "repository", Device), 1)
    BY <1>1, DeviceMounted
  <2> QED BY <1>3, <2>1, <2>2
<1>5. CASE InitEmbeddedRepository
  <2>1. \E ok : Return(ok, IF ok THEN Bind(mounts, DeviceDir, Device) ELSE mounts)
    BY <1>5, Zenon DEF InitEmbeddedRepository
  <2>2. \E ok \in BOOLEAN :
          Return(ok, IF ok THEN Bind(mounts, DeviceDir, Device) ELSE mounts)
    BY <2>1, Zenon DEF Return
  <2>3. Built(Bind(mounts, DeviceDir, Device), 1)
    BY <1>1, DeviceBound
  <2> QED BY <1>3, <2>2, <2>3
<1> QED BY <1>4, <1>5

\* Tasks that leave the mounts alone.
LEMMA IdleTask ==
  ASSUME PassOK, BuiltOK, TaskWithoutMounts \/ ExecPreInitJobs \/ NoLayers
  PROVE  BuiltOK'
<1>1. CASE TaskWithoutMounts \/ ExecPreInitJobs
  <2>1. pc = "exec" /\ \E ok \in BOOLEAN : Return(ok, mounts)
    BY <1>1, Zenon DEF TaskWithoutMounts, ExecPreInitJobs, Return, At
  <2>2. task \in {2, 3, 8, 10, 11}
    BY <1>1, TaskPlaces DEF TaskWithoutMounts, ExecPreInitJobs, At, PassOK
  <2>3. LevelBefore[task] = LevelBefore[task + 1]
    BY <2>2, LevelsBefore
  <2>4. Built(mounts, LevelBefore[task + 1])
    BY <2>1, <2>3, ExecAt
  <2> QED BY <2>1, <2>4, TaskReturns
<1>2. CASE NoLayers
  <2>1. pc = "exec" /\ Return(FALSE, mounts)
    BY <1>2 DEF NoLayers, Return, At
  <2>2. Built(mounts, LevelBefore[task])
    BY <2>1, ExecAt
  <2> QED BY <2>1, <2>2, TaskReturns
<1> QED BY <1>1, <1>2

\* The tmpfs, and the root file system on it.
LEMMA OverbootDirTask ==
  ASSUME PassOK, BuiltOK, InitOverbootDir
  PROVE  BuiltOK'
<1>1. pc = "exec" /\ task = 4 /\ Built(mounts, 1)
  BY ExecAt, TaskPlaces, LevelsBefore DEF InitOverbootDir, At, PassOK
<1>2. LevelBefore[task] = 1 /\ LevelBefore[task + 1] = 2
  BY <1>1, LevelsBefore
<1>3. Built(Mount(mounts, "tmpfs", OverbootDir), 2)
  BY <1>1, TmpfsMounted
<1>4. PICK mounted, prepared \in BOOLEAN :
        Return(mounted /\ prepared,
               IF mounted THEN Mount(mounts, "tmpfs", OverbootDir) ELSE mounts)
  BY Zenon DEF InitOverbootDir
<1>5. CASE mounted
  <2>1. Return(mounted /\ prepared, Mount(mounts, "tmpfs", OverbootDir))
    BY <1>4, <1>5
  <2>2. (mounted /\ prepared) \in BOOLEAN
    OBVIOUS
  <2> QED BY <1>1, <1>2, <1>3, <2>1, <2>2, TaskReturns
<1>6. CASE ~mounted
  <2>1. Return(FALSE, mounts)
    BY <1>4, <1>6
  <2> QED BY <1>1, <1>2, <2>1, TaskReturns
<1> QED BY <1>5, <1>6

\* The root file system is moved, or the task fails.
LEMMA LowerRootTask ==
  ASSUME PassOK, BuiltOK, InitLowerRoot
  PROVE  BuiltOK'
<1>1. pc = "exec" /\ task = 5 /\ Built(mounts, 2)
  BY ExecAt, TaskPlaces, LevelsBefore DEF InitLowerRoot, At, PassOK
<1>2. LevelBefore[task] = 2 /\ LevelBefore[task + 1] = 3
  BY <1>1, LevelsBefore
<1>3. Built(Move(mounts, Root, LowerRoot), 3)
  BY <1>1, MoveDown
<1>4. PICK moved \in BOOLEAN :
        Return(moved, IF moved THEN Move(mounts, Root, LowerRoot) ELSE mounts)
  BY Zenon DEF InitLowerRoot
<1> QED BY <1>1, <1>2, <1>3, <1>4, TaskReturns

\* The overlay.
LEMMA OverlayTask ==
  ASSUME PassOK, BuiltOK, InitOverlayfs
  PROVE  BuiltOK'
<1>1. pc = "exec" /\ task = 6 /\ Built(mounts, 3)
  BY ExecAt, TaskPlaces, LevelsBefore DEF InitOverlayfs, At, PassOK
<1>2. LevelBefore[task] = 3 /\ LevelBefore[task + 1] = 4
  BY <1>1, LevelsBefore
<1> QED BY <1>1, <1>2, OverlayMade, TaskReturns

\* The management bindings.
LEMMA BindingsTask ==
  ASSUME PassOK, BuiltOK, InitManagementBindings
  PROVE  BuiltOK'
<1>1. pc = "exec" /\ task = 7 /\ Built(mounts, 4)
  BY ExecAt, TaskPlaces, LevelsBefore DEF InitManagementBindings, At, PassOK
<1>2. LevelBefore[task + 1] = 4
  BY <1>1, LevelsBefore
<1>3. \E ok \in BOOLEAN : \E ms : Return(ok, ms) /\ Built(ms, 4)
  BY <1>1, BindingsMade DEF Adds
<1> QED BY <1>1, <1>2, <1>3, TaskReturns

\* The durables.
LEMMA DurablesTask ==
  ASSUME PassOK, BuiltOK, context \in Contexts, InitDurables
  PROVE  BuiltOK'
<1>1. pc = "exec" /\ task = 9 /\ Built(mounts, 4)
  BY ExecAt, TaskPlaces, LevelsBefore DEF InitDurables, At, PassOK
<1>2. LevelBefore[task + 1] = 4
  BY <1>1, LevelsBefore
<1>3. \E ok \in BOOLEAN : \E ms : Return(ok, ms) /\ Built(ms, 4)
  BY <1>1, DurablesMade DEF Adds
<1> QED BY <1>1, <1>2, <1>3, TaskReturns

\* Tasks without anything to undo.
LEMMA IdleUndo ==
  ASSUME PassOK, BuiltOK, NothingToUndo
  PROVE  BuiltOK'
<1>1. pc = "undo" /\ Undone(mounts) /\ task \in {2, 3, 8, 10, 11}
  BY TaskPlaces DEF NothingToUndo, PassOK
<1>2. LevelBefore[task] = LevelBefore[task + 1]
  BY <1>1, LevelsBefore
<1>3. Built(mounts, LevelBefore[task])
  BY <1>1, <1>2, UndoAt
<1> QED BY <1>1, <1>3, TaskUndone

\* The durables and the management bindings are parts of the overlay.
LEMMA DurablesUndo ==
  ASSUME PassOK, BuiltOK, context \in Contexts, DeinitDurables
  PROVE  BuiltOK'
<1>1. pc = "undo" /\ task = 9 /\ Undone(UnmountDurables(mounts, context.durables))
  BY TaskPlaces DEF DeinitDurables, Undoing, PassOK
<1>2. LevelBefore[task] = 4 /\ LevelBefore[task + 1] = 4
  BY <1>1, LevelsBefore
<1>3. Built(mounts, 4)
  BY <1>1, <1>2, UndoAt
<1>4. AreDurables(context.durables)
  BY ContextsAssumption DEF ContextOK, AreDurables
<1>5. Built(UnmountDurables(mounts, context.durables), 4)
  BY <1>3, <1>4, DurablesUnmounted
<1> QED BY <1>1, <1>2, <1>5, TaskUndone

\* The jobs and the layers are detached, then the directory that they are on.
LEMMA BindingsUndo ==
  ASSUME PassOK, BuiltOK, DeinitManagementBindings
  PROVE  BuiltOK'
<1> DEFINE ms1 == Unmount(mounts, Under(Binding, "jobs"))
           ms2 == Unmount(ms1, Under(Binding, "layers"))
           ms3 == Unmount(ms2, Binding)
<1>1. pc = "undo" /\ task = 7 /\ Undone(ms3)
  BY TaskPlaces DEF DeinitManagementBindings, Undoing, PassOK
<1>2. LevelBefore[task] = 4 /\ LevelBefore[task + 1] = 4
  BY <1>1, LevelsBefore
<1>3. Built(mounts, 4)
  BY <1>1, <1>2, UndoAt
<1>4. "jobs" \in STRING /\ "layers" \in STRING
  BY NamesAssumption
<1>5. Built(ms1, 4)
  BY <1>3, <1>4, BindingUnmounted
<1> HIDE DEF ms1
<1>6. Built(ms2, 4)
  BY <1>4, <1>5, BindingUnmounted
<1> HIDE DEF ms2
<1>7. Built(ms3, 4)
  BY <1>4, <1>6, BindingUnmounted
<1> HIDE DEF ms3
<1> QED BY <1>1, <1>2, <1>7, TaskUndone

\* The overlay is detached if it was mounted.
LEMMA OverlayUndo ==
  ASSUME PassOK, BuiltOK, DeinitOverlayfs
  PROVE  BuiltOK'
<1> DEFINE ms == IF context.type = "DIR" THEN Unmount(mounts, DeviceDir) ELSE mounts
<1>1. pc = "undo" /\ task = 6 /\ Undone(Unmount(ms, Root))
  BY TaskPlaces DEF DeinitOverlayfs, Undoing, PassOK
<1>2. LevelBefore[task] = 3 /\ LevelBefore[task + 1] = 4
  BY <1>1, LevelsBefore
<1>3. Built(Unmount(ms, Root), 3)
  <2>1. CASE Built(mounts, 4)
    <3>1. Built(ms, 4)
      BY <2>1, RepositoryUncovered
    <3> HIDE DEF ms
    <3> QED BY <3>1, OverlayGoes
  <2>2. CASE Built(mounts, 3)
    <3>1. Unmount(mounts, DeviceDir) = mounts /\ Unmount(mounts, Root) = mounts
      BY <2>2, NoOverlayGoes
    <3> QED BY <2>2, <3>1
  <2> QED BY <1>1, <1>2, <2>1, <2>2, UndoAt
<1> HIDE DEF ms
<1> QED BY <1>1, <1>2, <1>3, TaskUndone

\* The root file system is moved back if it was moved.
LEMMA LowerRootUndo ==
  ASSUME PassOK, BuiltOK, DeinitLowerRoot
  PROVE  BuiltOK'
<1> DEFINE ms == IF IsMountPoint(mounts, LowerRoot) THEN Move(mounts, LowerRoot, Root)
                 ELSE mounts
<1>1. pc = "undo" /\ task = 5 /\ Undone(ms)
  BY TaskPlaces DEF DeinitLowerRoot, Undoing, PassOK
<1>2. LevelBefore[task] = 2 /\ LevelBefore[task + 1] = 3
  BY <1>1, LevelsBefore
<1>3. Built(ms, 2)
  <2>1. CASE Built(mounts, 3)
    BY <2>1, MoveBack
  <2>2. CASE Built(mounts, 2)
    BY <2>2, NotMoved
  <2> QED BY <1>1, <1>2, <2>1, <2>2, UndoAt
<1> HIDE DEF ms
<1> QED BY <1>1, <1>2, <1>3, TaskUndone

\* The tmpfs and the repository are detached if they were mounted.
LEMMA OverbootDirUndo ==
  ASSUME PassOK, BuiltOK, DeinitOverbootDir
  PROVE  BuiltOK'
<1>1. pc = "undo" /\ task = 4 /\ Undone(Unmount(mounts, OverbootDir))
  BY TaskPlaces DEF DeinitOverbootDir, Undoing, PassOK
<1>2. LevelBefore[task] = 1 /\ LevelBefore[task + 1] = 2
  BY <1>1, LevelsBefore
<1>3. Built(Unmount(mounts, OverbootDir), 1)
  <2>1. CASE Built(mounts, 2)
    BY <2>1, TmpfsGoes
  <2>2. CASE Built(mounts, 1)
    BY <2>2, NoTmpfsGoes
  <2> QED BY <1>1, <1>2, <2>1, <2>2, UndoAt
<1> QED BY <1>1, <1>2, <1>3, TaskUndone

\* The repository is the last to go.
LEMMA DeviceUndo ==
  ASSUME PassOK, BuiltOK, DeinitPersistentDevice
  PROVE  BuiltOK'
<1>1. pc = "undo" /\ task = 1 /\ Undone(Unmount(mounts, Device))
  BY TaskPlaces DEF DeinitPersistentDevice, Undoing, PassOK
<1>2. LevelBefore[task] = 0 /\ LevelBefore[task + 1] = 1
  BY <1>1, LevelsBefore
<1>3. Built(Unmount(mounts, Device), 0)
  <2>1. CASE Built(mounts, 1)
    BY <2>1, DeviceGoes
  <2>2. CASE Built(mounts, 0)
    BY <2>2, NoDeviceGoes
  <2> QED BY <1>1, <1>2, <2>1, <2>2, UndoAt
<1> QED BY <1>1, <1>2, <1>3, TaskUndone

\* The end of the list, and the next pass.
LEMMA EndOfPass ==
  ASSUME PassOK, BuiltOK, TasksSucceeded
  PROVE  BuiltOK'
<1>1. /\ pc = "end" /\ pc' \in {"undo", "composed"}
      /\ mounts' = mounts /\ task' = task
  BY DEF TasksSucceeded
<1>2. task = 11 /\ Built(mounts, 4)
  BY <1>1, TaskPlaces DEF BuiltOK
<1>3. Built(mounts, LevelBefore[11])
  BY <1>2, LevelsBefore
<1>4. CASE pc' = "undo"
  BY <1>1, <1>2, <1>3, <1>4 DEF BuiltOK
<1>5. CASE pc' = "composed"
  BY <1>1, <1>2, <1>5, TaskPlaces DEF BuiltOK
<1> QED BY <1>1, <1>4, <1>5

\* Another pass begins with the mounts of the init scripts.
LEMMA PassAgain ==
  ASSUME PassOK, BuiltOK, NextPass
  PROVE  BuiltOK'
<1>1. pc = "restored" /\ pc' = "exec" /\ task' = 1 /\ mounts' = mounts
  BY DEF NextPass
<1>2. Built(mounts, LevelBefore[1])
  BY <1>1, LevelsBefore DEF BuiltOK
<1> QED BY <1>1, <1>2 DEF BuiltOK

\* Every step takes what is built up to where it belongs.
LEMMA BuiltPreserved == MountsIInv /\ [Next]_vars => BuiltOK'
<1> SUFFICES ASSUME PassOK, BuiltOK, context \in Contexts, [Next]_vars PROVE BuiltOK'
  BY DEF MountsIInv
<1>1. CASE InitBlockDevice \/ InitImageFile \/ InitEmbeddedRepository
  BY <1>1, DeviceTask
<1>2. CASE TaskWithoutMounts \/ ExecPreInitJobs \/ NoLayers
  BY <1>2, IdleTask
<1>3. CASE InitOverbootDir
  BY <1>3, OverbootDirTask
<1>4. CASE InitLowerRoot
  BY <1>4, LowerRootTask
<1>5. CASE InitOverlayfs
  BY <1>5, OverlayTask
<1>6. CASE InitManagementBindings
  BY <1>6, BindingsTask
<1>7. CASE InitDurables
  BY <1>7, DurablesTask
<1>8. CASE TasksSucceeded
  BY <1>8, EndOfPass
<1>9. CASE NothingToUndo
  BY <1>9, IdleUndo
<1>10. CASE DeinitDurables
  BY <1>10, DurablesUndo
<1>11. CASE DeinitManagementBindings
  BY <1>11, BindingsUndo
<1>12. CASE DeinitOverlayfs
  BY <1>12, OverlayUndo
<1>13. CASE DeinitLowerRoot
  BY <1>13, LowerRootUndo
<1>14. CASE DeinitOverbootDir
  BY <1>14, OverbootDirUndo
<1>15. CASE DeinitPersistentDevice
  BY <1>15, DeviceUndo
<1>16. CASE NextPass
  BY <1>16, PassAgain
<1>17. CASE UNCHANGED vars
  <2>1. mounts' = mounts /\ pc' = pc /\ task' = task
    BY <1>17 DEF vars
  <2> QED BY <2>1 DEF BuiltOK
<1> QED BY <1>1, <1>2, <1>3, <1>4, <1>5, <1>6, <1>7, <1>8, <1>9, <1>10, <1>11,
    <1>12, <1>13, <1>14, <1>15, <1>16, <1>17 DEF Next

\* The configuration of a pass does not change, and the next one is one of them.
LEMMA ContextPreserved == context \in Contexts /\ PassOK /\ [Next]_vars => context' \in Contexts
<1> SUFFICES ASSUME context \in Contexts, PassOK, [Next]_vars PROVE context' \in Contexts
  OBVIOUS
<1>1. CASE NextPass
  BY <1>1 DEF NextPass
<1>2. CASE UNCHANGED vars
  BY <1>2 DEF vars
<1>3. CASE TasksSucceeded
  BY <1>3 DEF TasksSucceeded
<1>4. CASE \/ NothingToUndo \/ DeinitDurables \/ DeinitManagementBindings
           \/ DeinitOverlayfs \/ DeinitLowerRoot \/ DeinitOverbootDir
           \/ DeinitPersistentDevice
  <2>1. \E ms : Undone(ms)
    BY <1>4, Zenon DEF NothingToUndo, DeinitDurables, DeinitManagementBindings,
       DeinitOverlayfs, DeinitLowerRoot, DeinitOverbootDir,
       DeinitPersistentDevice
  <2> QED BY <2>1 DEF Undone
<1>5. CASE \/ InitBlockDevice \/ InitImageFile \/ InitEmbeddedRepository
           \/ TaskWithoutMounts \/ ExecPreInitJobs \/ InitOverbootDir
           \/ InitLowerRoot \/ NoLayers \/ InitOverlayfs
           \/ InitManagementBindings \/ InitDurables
  <2>1. pc = "exec" /\ \E ok \in BOOLEAN : \E ms : Return(ok, ms)
    BY <1>5, Returns
  <2> QED BY <2>1, Ends
<1> QED BY <1>1, <1>2, <1>3, <1>4, <1>5 DEF Next

\* Every reachable state has its mounts built up to where its task is.
THEOREM MountsInvariance == Spec => []MountsIInv
<1>1. Init => context \in Contexts /\ BuiltOK
  <2> SUFFICES ASSUME Init PROVE context \in Contexts /\ BuiltOK
    OBVIOUS
  <2>1. Built(mounts, LevelBefore[1])
    BY InitialStands, LevelsBefore DEF Init
  <2> QED BY <2>1 DEF Init, BuiltOK
<1>2. IInv /\ MountsIInv /\ [Next]_vars /\ IInv' => MountsIInv'
  BY BuiltPreserved, ContextPreserved DEF MountsIInv, IInv
<1>3. Init /\ IInv => MountsIInv
  BY <1>1 DEF MountsIInv, IInv
<1> QED BY <1>2, <1>3, Invariance, PTL DEF Spec

\* The types of the variables: above all, the mounts are always those of known
\* file systems, with identities and places of their kind.
THEOREM TypeCorrect == Spec => []TypeOK
<1>1. IInv /\ MountsIInv => TypeOK
  <2> SUFFICES ASSUME IInv, MountsIInv PROVE TypeOK
    OBVIOUS
  <2>1. PICK n : Built(mounts, n)
    BY DEF MountsIInv, BuiltOK
  <2>2. mounts \subseteq MountRecords(FileSystems)
    BY <2>1 DEF Built, Stands, Parts, WellFormed
  <2>3. rootRw \in BOOLEAN /\ error \in BOOLEAN
    BY DEF IInv, BooleansOK
  <2> QED BY <2>2, <2>3 DEF TypeOK, MountsIInv, PassOK
<1> QED BY <1>1, Invariance, MountsInvariance, PTL

\* When the chain of undo functions has come to its end, from whichever task and
\* with whatever calls of it done, the mounts are exactly those that the init
\* scripts left (ObTaskList.c:68-77, ObDeinit.c).
THEOREM RollbackIsComplete == Spec => []RollbackRestores
<1>1. MountsIInv => RollbackRestores
  BY OnlyInitial DEF MountsIInv, BuiltOK, RollbackRestores
<1> QED BY <1>1, MountsInvariance, PTL

\* At every moment the root file system of the init scripts is seen whole, at
\* /root or below the overlay, in each pass, composed or undone (ObInit.c:199,
\* ObDeinit.c:42, 53, 65).
THEOREM RootIsReached == Spec => []RootNeverLost
<1>1. MountsIInv => RootNeverLost
  <2> SUFFICES ASSUME MountsIInv PROVE RootNeverLost
    OBVIOUS
  <2>1. PICK n : Built(mounts, n)
    BY DEF MountsIInv, BuiltOK
  <2> QED BY <2>1, RootReached, PathsAssumption DEF RootNeverLost, InitialSeenAt
<1> QED BY <1>1, MountsInvariance, PTL

------------------------------------------------------------------------------

\* What has been made so far in this pass is there.
ShownOK ==
  /\ Past(6) => IsOverlay(mounts)
  /\ Past(6) /\ HidesNothing(context) /\ context.type = "DIR" => Covered(mounts)
  /\ Past(7) /\ HidesNothing(context) => Managed(mounts, context)
  /\ Past(9) => Durable(mounts, context)

\* Who is past a task is past those before it.
LEMMA PastOrder ==
  PassOK => (Past(7) => Past(6)) /\ (Past(9) => Past(7))
  BY TaskPlaces DEF PassOK, Past

\* A pass gets past a task by executing it, with success.
LEMMA PastReturn ==
  ASSUME PassOK, pc = "exec", NEW ok \in BOOLEAN, NEW ms, Return(ok, ms),
         NEW n \in {6, 7, 9}, Past(n)'
  PROVE  /\ ok /\ mounts' = ms /\ context' = context
         /\ task >= n /\ (task # n => Past(n))
<1>1. ok /\ mounts' = ms /\ context' = context
  BY DEF Return, Succeed, Fail, Past
<1>2. task >= n
  BY <1>1, TaskPlaces DEF Return, Succeed, Past, PassOK
<1>3. task # n => Past(n)
  BY <1>2, TaskPlaces DEF Past, PassOK
<1> QED BY <1>1, <1>2, <1>3

\* Whoever is not past the overlay has nothing to show.
LEMMA NothingShown ==
  ASSUME PassOK', ~Past(6)'
  PROVE  ShownOK'
<1>1. ~Past(7)' /\ ~Past(9)'
  BY TaskPlaces DEF PassOK, Past
<1> QED BY <1>1 DEF ShownOK

\* The tasks before the overlay, and all that is no task.
LEMMA EarlyShown ==
  ASSUME PassOK,
         \/ InitBlockDevice \/ InitImageFile \/ InitEmbeddedRepository
         \/ InitOverbootDir \/ InitLowerRoot
         \/ NothingToUndo \/ DeinitDurables \/ DeinitManagementBindings
         \/ DeinitOverlayfs \/ DeinitLowerRoot \/ DeinitOverbootDir
         \/ DeinitPersistentDevice \/ NextPass
  PROVE  ShownOK'
<1>1. CASE \/ InitBlockDevice \/ InitImageFile \/ InitEmbeddedRepository
           \/ InitOverbootDir \/ InitLowerRoot
  <2>1. pc = "exec" /\ \E ok \in BOOLEAN : \E ms : Return(ok, ms)
    BY <1>1, Returns
  <2>2. task \in {1, 4, 5}
    BY <1>1, TaskPlaces DEF InitBlockDevice, InitImageFile, InitEmbeddedRepository,
       InitOverbootDir, InitLowerRoot, At, PassOK
  <2>3. PassOK' /\ ~Past(6)'
    BY <2>1, <2>2, Ends
  <2> QED BY <2>3, NothingShown
<1>2. CASE ~(\/ InitBlockDevice \/ InitImageFile \/ InitEmbeddedRepository
             \/ InitOverbootDir \/ InitLowerRoot)
  BY <1>2, OtherSteps, NothingShown
<1> QED BY <1>1, <1>2

\* The tasks that leave the mounts alone, and the end of the list.
LEMMA IdleShown ==
  ASSUME PassOK, ShownOK,
         \/ TaskWithoutMounts \/ ExecPreInitJobs \/ NoLayers \/ TasksSucceeded
         \/ UNCHANGED vars
  PROVE  ShownOK'
<1>1. ASSUME mounts' = mounts, context' = context,
             \A n \in {6, 7, 9} : Past(n)' => Past(n)
      PROVE  ShownOK'
  BY <1>1 DEF ShownOK
<1>2. ASSUME NEW ok \in BOOLEAN, Return(ok, mounts), pc = "exec",
             ~ok \/ task \in {2, 3, 8, 10, 11}
      PROVE  ShownOK'
  <2>1. mounts' = mounts /\ context' = context
    BY <1>2 DEF Return, Succeed, Fail
  <2>2. \A n \in {6, 7, 9} : Past(n)' => Past(n)
    BY <1>2, PastReturn
  <2> QED BY <1>1, <2>1, <2>2
<1>3. CASE TaskWithoutMounts \/ ExecPreInitJobs
  <2>1. pc = "exec" /\ \E ok \in BOOLEAN : Return(ok, mounts)
    BY <1>3, Zenon DEF TaskWithoutMounts, ExecPreInitJobs, Return, At
  <2>2. task \in {2, 3, 8, 10, 11}
    BY <1>3, TaskPlaces DEF TaskWithoutMounts, ExecPreInitJobs, At, PassOK
  <2> QED BY <1>2, <2>1, <2>2
<1>4. CASE NoLayers
  <2>1. pc = "exec" /\ Return(FALSE, mounts)
    BY <1>4 DEF NoLayers, Return, At
  <2> QED BY <1>2, <2>1
<1>5. CASE TasksSucceeded
  <2>1. mounts' = mounts /\ context' = context /\ \A n \in {6, 7, 9} : Past(n)
    BY <1>5 DEF TasksSucceeded, Past
  <2> QED BY <1>1, <2>1
<1>6. CASE UNCHANGED vars
  <2>1. /\ mounts' = mounts /\ context' = context
        /\ \A n \in {6, 7, 9} : Past(n)' => Past(n)
    BY <1>6 DEF vars, Past
  <2> QED BY <1>1, <2>1
<1> QED BY <1>3, <1>4, <1>5, <1>6

\* The overlay.
LEMMA OverlayShown ==
  ASSUME PassOK, BuiltOK, InitOverlayfs
  PROVE  ShownOK'
<1>1. pc = "exec" /\ task = 6 /\ Built(mounts, 3)
  BY ExecAt, TaskPlaces, LevelsBefore DEF InitOverlayfs, At, PassOK
<1>2. PICK ok \in BOOLEAN :
        \E ms : /\ Return(ok, ms)
                /\ ok => IsOverlay(ms) /\ (context.type = "DIR" => Covered(ms))
  BY <1>1, OverlayMade
<1>3. PICK ms : /\ Return(ok, ms)
                /\ ok => IsOverlay(ms) /\ (context.type = "DIR" => Covered(ms))
  BY <1>2
<1>4. ~Past(7)' /\ ~Past(9)'
  BY <1>1, <1>3, PastReturn
<1>5. Past(6)' => ok /\ mounts' = ms /\ context' = context
  BY <1>1, <1>3, PastReturn
<1> QED BY <1>3, <1>4, <1>5 DEF ShownOK

\* What the bindings and the durables cover.
LEMMA BindingPlacesProper == Proper(BindingPlaces) /\ \A e \in BindingPlaces : e # <<"obdev">>
<1>1. IsPath(<<"overboot">>) /\ <<"overboot">> # <<>>
  BY NamesAssumption, OneName DEF IsPath
<1>2. \A name \in BoundNames : IsPath(<<"overboot", name>>)
  BY OverbootPath, NamesAssumption DEF BoundNames
<1>3. \A e \in BindingPlaces : IsPath(e)
  BY <1>1, <1>2 DEF BindingPlaces, BoundNames
<1>4. \A e \in BindingPlaces : e # <<>> /\ e # <<"obdev">>
  <2>1. \A e \in BindingPlaces : e[1] = "overboot" /\ Len(e) >= 1
    BY DEF BindingPlaces
  <2> QED BY <2>1
<1> QED BY <1>3, <1>4 DEF Proper

\* The management bindings.
LEMMA BindingsShown ==
  ASSUME PassOK, BuiltOK, ShownOK, InitManagementBindings
  PROVE  ShownOK'
<1>1. pc = "exec" /\ task = 7 /\ Built(mounts, 4) /\ Past(6)
  BY ExecAt, TaskPlaces, LevelsBefore DEF InitManagementBindings, At, PassOK, Past
<1>2. PICK ok \in BOOLEAN :
        \E ms : Return(ok, ms) /\ Adds(mounts, ms, BindingPlaces) /\ (ok => Managed(ms, context))
  BY <1>1, BindingsMade
<1>3. PICK ms :
        Return(ok, ms) /\ Adds(mounts, ms, BindingPlaces) /\ (ok => Managed(ms, context))
  BY <1>2
<1>4. ~Past(9)'
  BY <1>1, <1>3, PastReturn
<1>5. \A n \in {6, 7} : Past(n)' => ok /\ mounts' = ms /\ context' = context
  BY <1>1, <1>3, PastReturn
<1>6. IsOverlay(ms) /\ (HidesNothing(context) /\ context.type = "DIR" => Covered(ms))
  BY <1>1, <1>3, BindingPlacesProper, RootStays DEF ShownOK
<1> QED BY <1>3, <1>4, <1>5, <1>6 DEF ShownOK

\* Durables that are elsewhere leave the management bindings as they are.
LEMMA ManagedStays ==
  ASSUME NEW ms, NEW ms2, NEW E, Adds(ms, ms2, E), Proper(E), Elsewhere(E), NEW c,
         Managed(ms, c)
  PROVE  Managed(ms2, c)
<1>1. \A name \in {"lower-root", "jobs", "layers", "upper"} : Apart(E, name)
  <2>1. \A e \in E : IsPath(e) /\ e # <<>> /\ e[1] # "overboot"
    BY DEF Proper, Elsewhere
  <2> QED BY <2>1, OthersApart, NamesAssumption
<1>2. LowerShown(ms2)
  BY <1>1, LowerStays DEF Managed
<1>3. ASSUME NEW name \in {"jobs", "layers", "upper"}, ShownIn(ms, name)
      PROVE  ShownIn(ms2, name)
  <2>1. name \in STRING /\ Apart(E, name)
    BY <1>1, NamesAssumption
  <2> QED BY <1>3, <2>1, ShownStays
<1> QED BY <1>2, <1>3 DEF Managed

\* The durables.
LEMMA DurablesTaskShown ==
  ASSUME PassOK, BuiltOK, ShownOK, context \in Contexts, InitDurables
  PROVE  ShownOK'
<1>1. pc = "exec" /\ task = 9 /\ Built(mounts, 4) /\ Past(6) /\ Past(7)
  BY ExecAt, TaskPlaces, LevelsBefore DEF InitDurables, At, PassOK, Past
<1>2. PICK ok \in BOOLEAN :
        \E ms, E :
          /\ Return(ok, ms)
          /\ Adds(mounts, ms, E) /\ Proper(E) /\ (HidesNothing(context) => Elsewhere(E))
          /\ ok => Durable(ms, context)
  BY <1>1, DurablesMade
<1>3. PICK ms, E :
        /\ Return(ok, ms)
        /\ Adds(mounts, ms, E) /\ Proper(E) /\ (HidesNothing(context) => Elsewhere(E))
        /\ ok => Durable(ms, context)
  BY <1>2
<1>4. \A n \in {6, 7, 9} : Past(n)' => ok /\ mounts' = ms /\ context' = context
  BY <1>1, <1>3, PastReturn
<1>5. IsOverlay(ms)
  BY <1>1, <1>3, RootStays DEF ShownOK
<1>6. HidesNothing(context) /\ context.type = "DIR" => Covered(ms)
  <2>1. HidesNothing(context) => \A e \in E : e # <<"obdev">>
    BY <1>3 DEF Elsewhere
  <2> QED BY <1>1, <1>3, <2>1, RootStays DEF ShownOK
<1>7. HidesNothing(context) => Managed(ms, context)
  BY <1>1, <1>3, ManagedStays DEF ShownOK
<1> QED BY <1>3, <1>4, <1>5, <1>6, <1>7 DEF ShownOK

\* It stays there.
LEMMA ShownPreserved == MountsIInv /\ ShownOK /\ [Next]_vars => ShownOK'
<1> SUFFICES ASSUME PassOK, BuiltOK, context \in Contexts, ShownOK, [Next]_vars
             PROVE  ShownOK'
  BY DEF MountsIInv
<1>1. CASE InitOverlayfs
  BY <1>1, OverlayShown
<1>2. CASE InitManagementBindings
  BY <1>2, BindingsShown
<1>3. CASE InitDurables
  BY <1>3, DurablesTaskShown
<1>4. CASE \/ TaskWithoutMounts \/ ExecPreInitJobs \/ NoLayers \/ TasksSucceeded
           \/ UNCHANGED vars
  BY <1>4, IdleShown
<1>5. CASE \/ InitBlockDevice \/ InitImageFile \/ InitEmbeddedRepository
           \/ InitOverbootDir \/ InitLowerRoot
           \/ NothingToUndo \/ DeinitDurables \/ DeinitManagementBindings
           \/ DeinitOverlayfs \/ DeinitLowerRoot \/ DeinitOverbootDir
           \/ DeinitPersistentDevice \/ NextPass
  BY <1>5, EarlyShown
<1> QED BY <1>1, <1>2, <1>3, <1>4, <1>5 DEF Next

\* In every reachable state what the pass has made so far is there: the overlay,
\* the management bindings and the durables, each from the task that makes it on.
THEOREM ShownInvariance == Spec => []ShownOK
<1>1. Init => ShownOK
  <2> SUFFICES ASSUME Init PROVE ShownOK
    OBVIOUS
  <2>1. ~Past(6) /\ ~Past(7) /\ ~Past(9)
    BY DEF Init, Past
  <2> QED BY <2>1 DEF ShownOK
<1>2. MountsIInv /\ ShownOK /\ [Next]_vars => ShownOK'
  BY ShownPreserved
<1> QED BY <1>1, <1>2, MountsInvariance, PTL DEF Spec

\* A composed system has every durable of its configuration in its place: what is
\* seen there is the persistent copy, also of those that lie inside of each
\* other, in whichever order they are bound (ObInit.c:351-405).
THEOREM DurablesAreVisible == Spec => []DurablesVisible
<1>1. ShownOK => DurablesVisible
  <2> SUFFICES ASSUME ShownOK, pc = "composed" PROVE DurablesVisible
    BY DEF DurablesVisible
  <2>1. Durable(mounts, context)
    BY DEF ShownOK, Past
  <2> QED BY <2>1 DEF Durable, DurableShown, DurablesVisible
<1> QED BY <1>1, ShownInvariance, PTL

\* A composed system is laid out as it should be: the overlay is the root and the
\* root file system can be reached below it, with every mount of the init
\* scripts; the user finds the overboot directory with what the configuration
\* asks for, and a repository directory is covered, as long as the configuration
\* puts no durable over them (ObInit.c:208-330).
THEOREM LayoutIsRight == Spec => []Layout
<1>1. MountsIInv /\ ShownOK => Layout
  <2> SUFFICES ASSUME MountsIInv, ShownOK, pc = "composed" PROVE Layout
    BY DEF Layout
  <2>1. Past(6) /\ Past(7) /\ Built(mounts, 4)
    BY DEF Past, MountsIInv, BuiltOK
  <2>2. Seen(mounts, Root) = [fs |-> "overlay", dir |-> <<>>]
    BY <2>1 DEF ShownOK, IsOverlay
  <2>3. \A path \in Paths : IsPath(path)
    BY PathsAssumption DEF IsPath
  <2>4. InitialSeenAt(LowerRoot)
    <3>1. PICK r, D, T, O : Stands(mounts, 4, r, D, T, O)
      BY <2>1 DEF Built
    <3>2. Lookup(mounts, LowerRoot) = Position(r.id, <<>>)
      BY <3>1, LowerSeen, Levels
    <3>3. LowerRoot \in Seq(STRING)
      BY NamesAssumption, OneName, ThreePlaces, ConcatProperties DEF LowerRoot
    <3> QED BY <2>3, <3>1, <3>2, <3>3, InitialSeen DEF InitialSeenAt, IsPath
  <2>5. ASSUME HidesNothing(context)
        PROVE  /\ InitialSeenAt(Under(Binding, "lower-root")) /\ Shows("jobs")
               /\ context.bindLayers => Shows("layers")
               /\ ~context.useTmpfs => Shows("upper")
               /\ context.type = "DIR" => Seen(mounts, DeviceDir).fs = "blocked"
    <3>1. Managed(mounts, context) /\ (context.type = "DIR" => Covered(mounts))
      BY <2>1, <2>5 DEF ShownOK
    <3>2. InitialSeenAt(Under(Binding, "lower-root"))
      BY <2>3, <3>1 DEF Managed, LowerShown, InitialSeenAt
    <3> QED BY <3>1, <3>2 DEF Managed, ShownIn, Shows, Covered
  <2> QED BY <2>2, <2>4, <2>5 DEF Layout
<1> QED BY <1>1, MountsInvariance, ShownInvariance, PTL
==============================================================================
