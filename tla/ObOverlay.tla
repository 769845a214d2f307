------------------------------ MODULE ObOverlay ------------------------------
(***************************************************************************)
(* Which layers the system runs on, boot after boot: the configuration,    *)
(* the jobs that change it and the repository (lib/src/ObJobs.c), the      *)
(* upper layer (obInitOverbootDir), the layers below it (ObLayers) and the *)
(* fstab in them (ObFstab), with the user who runs obhelper in between.    *)
(*                                                                         *)
(* ObJobs has the steps of the jobs and the power failures between them,   *)
(* ObMounts the mounts of the tasks; a job or a task is one action here,   *)
(* with all the ways in which it may end.                                  *)
(***************************************************************************)
EXTENDS ObFstab

CONSTANTS
  Config,      \* the configurations: what obinit reads in the files, see MCObOverlay
  MaxReloads   \* OB_MAX_CONFIG_RELOADS: 8

Settings == [head: Name, useTmpfs: BOOLEAN, upperAsLower: BOOLEAN, clearUpper: BOOLEAN]
\* What obinit has if it could not read a file, or read an empty one: it is not
\* enabled.
NoConfig == [head |-> Done, useTmpfs |-> TRUE, upperAsLower |-> FALSE, clearUpper |-> FALSE]
ASSUME OverlayAssumption == Config \subseteq Settings /\ MaxReloads \in Nat

VARIABLES
  config,      \* what the configuration file says, or NoConfig
  reloads,     \* how many reloads of it are left
  commitJob,   \* the commit job
  updateJob,   \* the update-config job, or NoConfig
  hasUpper,    \* the directory of the persistent upper layer is there
  over         \* the layer it was last mounted on, or Done (history)

jobVars == <<config, commitJob, updateJob>>
upperVars == <<hasUpper, over>>
passVars == <<cfg, cursor, chain, lower, error, reloads>>
vars == <<layer, pc, passVars, fstabVars, jobVars, upperVars>>

\* A commit job: the name of the layer and its underlayer.  `inRam' says that
\* the upper layer was not the persistent one when the job was made (history).
Job(name, under, inRam) == [name |-> name, under |-> under, inRam |-> inRam]
NoJob == Job(Done, Done, FALSE)

Init ==
  /\ layer \in [Layer -> Name \cup {Absent, Bare}]
  /\ pc = "off"
  /\ cfg = NoConfig
  /\ cursor = Done
  /\ chain = <<>>
  /\ lower = <<>>
  /\ error = FALSE
  /\ files = [p \in Place |-> IF p = Root THEN RootFiles ELSE NoFiles]
  /\ dirty = FALSE
  /\ before = Nothing
  /\ edited = NoText
  /\ config \in Config
  /\ reloads = MaxReloads
  /\ commitJob = NoJob
  /\ updateJob = NoConfig
  /\ hasUpper = FALSE
  /\ over = Done

------------------------------------------------------------------------------
\* Mutant of Load: a reload is not counted.
MutLoad ==
  /\ pc \in {"off", "reload"}
  /\ cfg' = config
  /\ GoTo(IF cfg' = NoConfig THEN "restored" ELSE "commit")
  /\ UNCHANGED <<layer, cursor, chain, lower, error, reloads,
                 fstabVars, jobVars, upperVars>>

\* The main loop loads the configuration, at power on and for a reload.  If the
\* file cannot be opened, or one of those that are read with it, that is reported,
\* and the boot goes on with what could be read.
Load ==
  /\ pc \in {"off", "reload"}
  /\ reloads' = IF pc = "reload" THEN reloads - 1 ELSE reloads
  /\ \/ cfg' = config /\ UNCHANGED error
     \/ /\ Fault("load")
        /\ cfg' \in {NoConfig} \cup (IF config = NoConfig THEN {} ELSE Config)
        /\ error' = TRUE
  /\ GoTo(IF cfg' = NoConfig THEN "restored" ELSE "commit")
  /\ UNCHANGED <<layer, cursor, chain, lower, fstabVars, jobVars, upperVars>>

Fails == GoTo("restored") /\ error' = TRUE

NoCommit ==
  /\ At("commit")
  /\ commitJob = NoJob
  /\ GoTo("update")
  /\ UNCHANGED <<layer, passVars, fstabVars, jobVars, upperVars>>

CommitFrame == UNCHANGED <<cfg, cursor, chain, lower, reloads, dirty, before, config, updateJob>>

CanCommit == layer[commitJob.name] = Absent /\ ~cfg.useTmpfs /\ hasUpper

CommitRefused ==
  /\ At("commit")
  /\ commitJob # NoJob
  /\ ~CanCommit
  /\ Fails
  /\ CommitFrame /\ UNCHANGED <<layer, files, edited, commitJob, upperVars>>

\* The upper layer becomes the root directory of a layer that stands on `under'.
MoveUpper(under) ==
  /\ layer' = [layer EXCEPT ![commitJob.name] = under]
  /\ files' = [files EXCEPT ![commitJob.name] = files[Upper], ![Upper] = NoFiles]
  /\ edited' = NoText
  /\ over' = Done

\* The layer.yaml is taken for written: there will be a new upper layer, and no
\* job any more.  What making the one returns is ignored, that of removing the
\* other is not.
FinishCommit ==
  \/ /\ hasUpper' = TRUE /\ commitJob' = NoJob
     /\ GoTo("update") /\ UNCHANGED error
  \/ /\ Fault("repository") /\ hasUpper' = FALSE /\ commitJob' = NoJob
     /\ GoTo("update") /\ error' = TRUE
  \/ /\ Fault("repository") /\ hasUpper' \in BOOLEAN /\ UNCHANGED commitJob
     /\ Fails

\* The upper layer becomes a layer on the underlayer that the job names.
Commit ==
  /\ At("commit")
  /\ commitJob # NoJob
  /\ CanCommit
  /\ MoveUpper(commitJob.under)
  /\ FinishCommit
  /\ CommitFrame

\* The layer.yaml is cut off, which is noticed before it is closed and not when
\* it is: it does not name the underlayer.
CommitShort ==
  /\ At("commit")
  /\ commitJob # NoJob
  /\ CanCommit
  /\ Fault("write")
  /\ MoveUpper(NoName)
  /\ FinishCommit \/ (Fails /\ hasUpper' = FALSE /\ UNCHANGED commitJob)
  /\ CommitFrame

\* The directory of the layer cannot be made, the upper layer not be moved into
\* it, or the layer.yaml not be opened.
CommitFails ==
  /\ At("commit")
  /\ commitJob # NoJob
  /\ CanCommit
  /\ Fault("repository")
  /\ \/ UNCHANGED <<layer, files, edited, upperVars>>
     \/ /\ layer' = [layer EXCEPT ![commitJob.name] = Bare]
        /\ UNCHANGED <<files, edited, upperVars>>
     \/ MoveUpper(Bare) /\ hasUpper' = FALSE
  /\ Fails
  /\ CommitFrame /\ UNCHANGED commitJob

\* No configuration job.  The directory of the jobs may be missing and not be
\* made, or not be read when obinit looks for partial files to install.
NoUpdateJob ==
  /\ At("update")
  /\ updateJob = NoConfig
  /\ \/ GoTo("prepare") /\ UNCHANGED error
     \/ Fault("repository") /\ Fails
  /\ UNCHANGED <<layer, cfg, cursor, chain, lower, reloads, fstabVars, jobVars, upperVars>>

\* The job becomes the configuration file, and the boot starts over with it as
\* long as there are reloads left, also if the file could not be written, or was
\* cut off when it was closed, or if the job could not be removed.
UpdateConfig ==
  /\ At("update")
  /\ updateJob # NoConfig
  /\ \E copied, removed \in BOOLEAN :
       /\ \/ copied /\ config' = updateJob
          \/ copied /\ Fault("write") /\ config' = NoConfig
          \/ ~copied /\ Fault("write") /\ config' \in {config, NoConfig}
       /\ \/ removed /\ updateJob' = NoConfig
          \/ ~removed /\ Fault("repository") /\ UNCHANGED updateJob
       /\ IF copied /\ removed THEN UNCHANGED error ELSE error' = TRUE
  /\ GoTo(IF reloads > 0 THEN "reload" ELSE "restored")
  /\ UNCHANGED <<layer, cfg, cursor, chain, lower, reloads, fstabVars, commitJob, upperVars>>

\* obInitOverbootDir: the upper layer is mounted, made or cleared.  A failure
\* comes before that (obPrepareOverlay) or with it.
Blank == cfg.useTmpfs \/ cfg.clearUpper \/ ~hasUpper
BlankUpper ==
  /\ files' = IF Blank THEN [files EXCEPT ![Top] = NoFiles] ELSE files
  /\ edited' = IF Blank /\ Top = Upper THEN NoText ELSE edited

Prepare ==
  /\ At("prepare")
  /\ \/ /\ BlankUpper
        /\ hasUpper' = (hasUpper \/ ~cfg.useTmpfs)
        /\ cursor' = cfg.head
        /\ GoTo("collect")
        /\ UNCHANGED error
     \/ /\ Fault("prepare")
        /\ \/ BlankUpper /\ hasUpper' = (hasUpper /\ ~(Blank /\ Top = Upper))
           \/ UNCHANGED <<files, edited, hasUpper>>
        /\ Fails
        /\ UNCHANGED cursor
  /\ UNCHANGED <<layer, cfg, chain, lower, reloads, dirty, before, jobVars, over>>

CollectStep == Collect /\ UNCHANGED <<reloads, fstabVars, jobVars, upperVars>>

Collection == At("collect") /\ cursor = Done
Include == cfg.useTmpfs /\ cfg.upperAsLower

\* obInitOverlayfs without a list of layers: it fails and logs nothing.
NoLayers ==
  /\ Collection
  /\ chain = <<>>
  /\ GoTo("restored")
  /\ UNCHANGED <<layer, passVars, fstabVars, jobVars, upperVars>>

\* The order in which overlayfs gets the layers: they are put into the array
\* from its end and taken out of it from there.
Mounted(list) == list

\* The array of layers, its mounting and the bindings behind it.  Beyond the
\* end of the array the stack is overwritten.
MountOverlay ==
  /\ Collection
  /\ chain # <<>>
  /\ \/ /\ ~(Include /\ ~hasUpper)
        /\ LowerCount(Include) > 0
        /\ lower' = Mounted(SubSeq(Lowers(Include), 1, LowerCount(Include)))
        /\ over' = IF Top = Upper THEN lower'[1] ELSE over
        /\ GoTo("fstab")
        /\ UNCHANGED error
     \/ /\ Fault("mount") \/ (Include /\ ~hasUpper) \/ LowerCount(Include) = 0
        /\ Fails
        /\ UNCHANGED <<lower, over>>
     \/ /\ Overrun(Include)
        /\ GoTo("crashed")
        /\ UNCHANGED <<lower, over, error>>
  /\ UNCHANGED <<layer, cfg, cursor, chain, reloads, fstabVars, jobVars, hasUpper>>

FstabTask == FstabStep /\ UNCHANGED <<reloads, jobVars, upperVars>>

\* The durables and the other tasks behind the fstab, and the check at the end
\* of obExecObInitTasks.
LaterTasks ==
  /\ At("durables")
  /\ \/ GoTo(IF error THEN "undo" ELSE "composed") /\ UNCHANGED error
     \/ Fault("late") /\ GoTo("undo") /\ MayLogError
  /\ UNCHANGED <<layer, cfg, cursor, chain, lower, reloads, fstabVars, jobVars, upperVars>>

Boot ==
  \/ NoCommit \/ CommitRefused \/ Commit \/ CommitShort \/ CommitFails
  \/ NoUpdateJob \/ UpdateConfig
  \/ (pc = "reload" /\ Load)
  \/ Prepare \/ CollectStep \/ NoLayers \/ MountOverlay \/ FstabTask \/ LaterTasks

------------------------------------------------------------------------------
Halt(lost) ==
  /\ GoTo("off")
  /\ cfg' = NoConfig
  /\ cursor' = Done
  /\ chain' = <<>>
  /\ lower' = <<>>
  /\ error' = FALSE
  /\ reloads' = MaxReloads
  /\ files' = [files EXCEPT ![Ram] = NoFiles,
                            ![Upper].fstab = IF lost THEN Empty ELSE @]
  /\ edited' = IF files'[Upper].fstab \in {Empty, Nothing} THEN NoText ELSE edited
  /\ dirty' = FALSE
  /\ before' = Nothing
  /\ UNCHANGED <<layer, jobVars, upperVars>>

Ended == pc \in {"composed", "restored", "crashed"}

Shutdown == Ended /\ Halt(FALSE)

\* What obinit wrote into the fstab after truncating it may be lost.
PowerLoss ==
  /\ Fault("power")
  /\ pc # "off"
  /\ \/ Halt(FALSE)
     \/ dirty /\ Halt(TRUE)

\* Mutant of Active: the directory of the upper layer is taken for a layer.
MutActive == lower[1]

\* Mutant of Active: the lowest layer.
MutLowestActive == lower[Len(lower)]

\* obhelper takes the layer below the upper one for the root file system if its
\* directory is not the root directory of a layer.
Active == IF lower[1] = Upper THEN Root ELSE lower[1]

\* obhelper commit.
ScheduleCommit ==
  /\ At("composed")
  /\ commitJob' \in {Job(n, Active, cfg.useTmpfs) : n \in Layer}
  /\ UNCHANGED <<layer, pc, passVars, fstabVars, config, updateJob, upperVars>>

\* obhelper switch or config.
ScheduleUpdate ==
  /\ At("composed")
  /\ updateJob' \in Config
  /\ UNCHANGED <<layer, pc, passVars, fstabVars, config, commitJob, upperVars>>

\* obhelper clean.
CleanJobs ==
  /\ At("composed")
  /\ commitJob' = NoJob
  /\ updateJob' = NoConfig
  /\ UNCHANGED <<layer, pc, passVars, fstabVars, config, upperVars>>

EditConfig ==
  /\ pc = "restored"
  /\ config' \in Config
  /\ UNCHANGED <<layer, pc, passVars, fstabVars, commitJob, updateJob, upperVars>>

\* A new text, with the root entry as it is.
EditFstab ==
  /\ At("composed")
  /\ \E text \in Text \ {Original} :
       /\ files' = [files EXCEPT ![Top].fstab = [text |-> text, root |-> "overlay"]]
       /\ edited' = IF Top = Upper THEN text ELSE edited
  /\ dirty' = FALSE
  /\ UNCHANGED <<layer, pc, passVars, before, jobVars, upperVars>>

Next ==
  \/ (pc = "off" /\ Load)
  \/ Boot
  \/ Shutdown \/ PowerLoss
  \/ ScheduleCommit \/ ScheduleUpdate \/ CleanJobs \/ EditConfig \/ EditFstab

Spec == Init /\ [][Next]_vars

------------------------------------------------------------------------------
PcOK == pc \in {"off", "reload", "commit", "update", "prepare", "collect", "fstab",
                "truncate", "rewrite", "durables", "undo",
                "composed", "restored", "crashed"}

\* Types of all variables.
TypeOK ==
  /\ layer \in [Layer -> Name \cup {NoName, Absent, Bare}]
  /\ PcOK
  /\ cfg \in Settings \cup {NoConfig}
  /\ cursor \in Name \cup {NoName, Done}
  /\ chain \in Seq(Layer \cup {Root})
  /\ lower \in Seq(Layer \cup {Root, Upper})
  /\ error \in BOOLEAN
  /\ files \in [Place -> [fstab: Content \cup {Nothing, Whiteout},
                          orig: Content \cup {Nothing, Whiteout}]]
  /\ dirty \in BOOLEAN
  /\ before \in Content \cup {Nothing}
  /\ edited \in Text \cup {NoText}
  /\ config \in Settings \cup {NoConfig}
  /\ reloads \in 0..MaxReloads
  /\ commitJob \in [name: Layer, under: Layer \cup {Root}, inRam: BOOLEAN] \cup {NoJob}
  /\ updateJob \in Settings \cup {NoConfig}
  /\ hasUpper \in BOOLEAN
  /\ over \in Layer \cup {Root, Done}

\* The number of layers holds the length of their list.
Counted == Len(chain) + (IF Include THEN 1 ELSE 0) < CountMod

\* A system that runs on the overlay runs on the whole chain of its head, each
\* layer on the one it was made for, with the persistent upper layer on top of
\* them where it is included.  The exception is a chain of 256 layers, which
\* the number of layers cannot hold (ObLayerCollector.c:44, ObInit.c:224-258).
ChainMounted ==
  At("composed") /\ Counted =>
    LET layers == IF Include THEN Tail(lower) ELSE lower
    IN  (Include => lower[1] = Upper) /\ IsChain(layers, cfg.head)

\* Nothing kills obinit but layers that stand on themselves, or too many of
\* them (ObLayerCollector.c:43).
CrashOnlyOnCycle ==
  At("crashed") =>
    \/ \E i, j \in 1..Len(chain) : i # j /\ chain[i] = chain[j]
    \/ ~Counted

\* A layer is committed on the very layer its files were written over, or it is
\* left without a layer.yaml, or with one that names no layer at all, over all
\* boots and failures between the making of the job and the moving of the files:
\* never on another one.  The exception is a job made while the upper layer was in
\* the RAM (obhelper:261-280, ObJobs.c:133-136, ObOsUtils.c:292).
CommitPointsToHead ==
  [][layer' # layer /\ ~commitJob.inRam
       => layer'[commitJob.name] \in {over, Bare, NoName}]_vars

\* The system that runs on the overlay has an fstab, and its root entry is not
\* that of the disk any more; it may be empty (ObFstab.c:85).
FstabFits == At("composed") => View("fstab") # Nothing /\ View("fstab").root # "disk"

\* The mount point of a line of the fstab is its second column, and a line that
\* has none, the blank ones among them, is not taken for another one because of
\* what is in the memory behind it (ObFstab.c:22-50).
ColumnsFound == At("rewrite") => FindsColumns

\* A line with four columns becomes the mtab entry of the overlay, on the root, if
\* it is that of the root, however short it is; all lines that are not stay.  The
\* entry is searched with the length of the line, which must not be less than that
\* of the word "overlay" (ObFstab.c:93-104).
RootEntryRewritten == At("rewrite") => RewritesRoot

\* A rollback behind the renaming of the fstab leaves the fstab that the boot
\* found, whichever layer it was in and wherever the task failed (ObDeinit.c:94).
FstabRolledBack == At("restored") /\ before # Nothing => View("fstab") = before

\* What the user has written into the fstab of the persistent upper layer is in
\* one of the two files there, over all boots, failures and rollbacks, until it
\* is committed or cleared.  Three things take it away: a power failure behind
\* the renaming, while the new fstab is not there or empty (ObFstab.c:134), a new
\* fstab that could not be written, which goes unnoticed (ObFstab.c:144), when
\* the next boot renames it over the old one, and the undo function of a task
\* that renamed nothing, which takes the file that an earlier boot left
\* (ObDeinit.c:94).
FstabEditKept ==
  edited = NoText \/ \E f \in {"fstab", "orig"} : files[Upper][f].text = edited

Running == pc \notin {"off", "composed", "restored", "crashed"}

\* How far a boot has got: the reloads it may still ask for, the stage of the
\* pass, and the calls that the recursion over the layers has room for.
Unloaded == IF pc = "reload" THEN reloads - 1 ELSE reloads
Stage == [off |-> 0, reload |-> 1, commit |-> 2, update |-> 3, prepare |-> 4,
          collect |-> 5, fstab |-> 6, truncate |-> 7, rewrite |-> 8,
          durables |-> 9, undo |-> 10, composed |-> 11, restored |-> 11, crashed |-> 11]
Room == IF cursor = Done THEN 0 ELSE StackDepth + 1 - Len(chain)

Advances ==
  \/ 0 <= Unloaded' /\ Unloaded' < Unloaded
  \/ Unloaded' = Unloaded /\ Stage[pc] < Stage[pc']
  \/ Unloaded' = Unloaded /\ pc' = pc /\ 0 <= Room' /\ Room' < Room

\* No step of a boot takes it back to where it was, whatever the layers look
\* like, whatever the jobs ask for, and also if a job cannot be removed: only a
\* reload starts a pass over, and there is a limited number of them
\* (main.c:48-61).
BootAdvances == [][Boot => Advances]_vars

\* Every boot ends: obinit has always a step to take, and cannot take them for
\* ever.
BootEnds == [](Running => ENABLED Boot) /\ BootAdvances
==============================================================================
