-------------------------------- MODULE ObJobs --------------------------------
(***************************************************************************)
(* The jobs of a repository: what obhelper leaves in the jobs directory    *)
(* for the next boot, and obExecPreInitJobs (lib/src/ObJobs.c), the task   *)
(* of obinit that executes them.  The task runs in steps, one per change   *)
(* it makes to a disk, because the power may fail between any two of them; *)
(* module ObBoot takes the steps and adds the rest of the boot.            *)
(*                                                                         *)
(* A configuration file is its content; what the content says is given by  *)
(* the sets of contents below.  A commit job is the name of the layer to   *)
(* be created.  The jobs directory holds at most one commit and one update *)
(* job, and any number of partial configuration files to be installed,     *)
(* which go by the places where scandir sorts them.                        *)
(***************************************************************************)
EXTENDS Integers

CONSTANTS
  Config,      \* contents of the configuration file that a user writes
  Enabled,     \* those that say enabled: true
  SafeMode,    \* those that say safe_mode: true
  Tmpfs,       \* those whose upper layer is of type tmpfs
  ClearUpper,  \* those that say that the persistent upper layer is cleared
  RollBack,    \* those that say rollback: true
  Malformed,   \* those on which the YAML scanner reports an error
  Torn,        \* those that a file may have while it is being written
  Empty,       \* the content of a file that was truncated
  Layer,       \* names of layers that can be committed
  Nameless,    \* a commit job that does not name a layer
  Parts,       \* the number of names that partial configuration files have
  None,        \* no job, no file, no content
  Faults       \* what may go wrong: see the uses of Fault

ASSUME ConfigAssumption ==
  /\ Enabled \subseteq Config /\ SafeMode \subseteq Config
  /\ Tmpfs \subseteq Config /\ ClearUpper \subseteq Config
  /\ RollBack \subseteq Config
  /\ Malformed \subseteq Config /\ Torn \subseteq Config
  /\ Malformed \cap Enabled = {}
  /\ Empty \notin Config
  /\ None \notin Config \cup {Empty} \cup Layer
  /\ Nameless \notin Layer \cup {None}
  /\ Parts \in Nat

VARIABLES
  \* on the disks
  config,      \* the configuration file on the root file system
  updateJob,   \* jobs/update-config: the new configuration file, or None
  commitJob,   \* jobs/commit: the name of the new layer, Nameless or None
  installJobs, \* the jobs/install-config-* files
  parts,       \* the files in the configuration directory
  unsynced,    \* those written since the last boot, in the cache or on the disk
  layer,       \* what the directory of each layer is
  upper,       \* whether the persistent upper layer exists
  \* of the obinit process
  step,        \* where obExecPreInitJobs is
  place,       \* where its walk over installJobs is
  cfg,         \* context->config: the content that was loaded
  reload,      \* context->reloadConfig
  error,       \* obErrorOccurred()
  \* history
  work,        \* where the files the user wrote to the upper layer are
  promised,    \* whether the pending commit job is to preserve them
  slipped,     \* the copy of the commit or update job at hand was cut off
               \* when it was closed, and nobody noticed
  lost         \* partial files that were cut off without anybody noticing

historyVars == <<promised, slipped>>
installVars == <<installJobs, parts, unsynced, place, lost>>
diskJobs == <<updateJob, commitJob, installVars>>
jobsVars == <<config, diskJobs, layer, upper,
              step, cfg, reload, error, work, historyVars>>
upperVars == <<layer, upper, work>>

Content == Config \cup {Empty}

\* What is in the place of a partial configuration file.
Part == 1..Parts
CutOff == {"empty"} \cup (IF Torn = {} THEN {} ELSE {"torn"})
PartState == {"absent", "whole"} \cup CutOff

\* The main file, or one of the readable files in the configuration directory,
\* which are read with it, is one that the scanner does not accept.
ScanFails(readable) ==
  \/ config \in Malformed
  \/ Torn \cap Malformed # {} /\ \E p \in readable : parts[p] = "torn"

\* What the directory NAME.obld is: missing, without a root directory in it,
\* without a layer.yaml, with one that is cut off, or a layer.
LayerState == {"absent", "hollow", "bare", "short", "complete"}

\* The operations that may fail for reasons of their own: the repository is
\* full, a device is read-only, a file cannot be opened.
Fault(kind) == kind \in Faults

LogError == error' = TRUE
MayLogError == UNCHANGED error \/ LogError

\* An operation whose failure is logged and otherwise ignored.
IgnoredFault(kind) == UNCHANGED error \/ (Fault(kind) /\ LogError)

PendingJobs == updateJob # None \/ commitJob # None \/ installJobs # {}

JobsInit ==
  /\ config \in Config \ Torn
  /\ updateJob = None
  /\ commitJob = None
  /\ installJobs = {}
  /\ parts = [p \in Part |-> "absent"]
  /\ unsynced = {} /\ lost = {}
  /\ place = 1
  /\ layer = [n \in Layer |-> "absent"]
  /\ upper = FALSE
  /\ step = "idle"
  /\ cfg = Empty
  /\ reload = FALSE
  /\ error = FALSE
  /\ work = "none"
  /\ promised = FALSE
  /\ slipped = FALSE

------------------------------------------------------------------------------
(***************************************************************************)
(* obExecPreInitJobs.  Each action ends by saying where the task goes:     *)
(* "done" is a task that returns true, "failed" one that returns false.    *)
(*                                                                         *)
(* obCopyFile opens the target, which truncates it, and then writes.  What *)
(* fwrite returns is looked at, but a small file is really written when it *)
(* is closed, and what fclose returns is not: a copy that fails there is   *)
(* as short as one whose failure is logged, and is taken for whole.        *)
(***************************************************************************)
GoTo(s) == step' = s
TaskFails == step' = "failed"

\* The jobs directory is missing and created, or there is nothing in it.
NoPendingJobs ==
  /\ step = "begin"
  /\ ~PendingJobs
  /\ \/ GoTo("done") /\ UNCHANGED error
     \/ Fault("repository") /\ TaskFails /\ LogError
  /\ UNCHANGED <<config, diskJobs, upperVars, cfg, reload, historyVars>>

\* The root file system is remounted read-write; what that returns is ignored.
RemountRootRw ==
  /\ step = "begin"
  /\ PendingJobs
  /\ GoTo("commit")
  /\ IgnoredFault("remount")
  /\ UNCHANGED <<config, diskJobs, upperVars, cfg, reload, historyVars>>

\* obExecCommitJob without a job.
SkipCommit ==
  /\ step = "commit"
  /\ commitJob = None
  /\ GoTo("update")
  /\ UNCHANGED <<config, diskJobs, upperVars, cfg, reload, error, historyVars>>

\* The job names a layer that does not exist yet.
Committable(name) == name \in Layer /\ layer[name] = "absent"

\* Mutant of CommitRefused: a refused commit does not stop the task.
MutCommitRefused ==
  /\ step = "commit"
  /\ commitJob # None
  /\ Committable(commitJob) => cfg \in Tmpfs \/ ~upper
  /\ LogError
  /\ GoTo("update")
  /\ UNCHANGED <<config, diskJobs, upperVars, cfg, reload, historyVars>>

\* commitUpperLayer gives up: the job names no layer, the layer exists, or there
\* is no upper layer to rename.  With a tmpfs upper layer the path it looks for
\* is the one in the RAM, which the tasks behind this one would create.
CommitRefused ==
  /\ step = "commit"
  /\ commitJob # None
  /\ Committable(commitJob) => cfg \in Tmpfs \/ ~upper
  /\ LogError
  /\ TaskFails
  /\ UNCHANGED <<config, diskJobs, upperVars, cfg, reload, historyVars>>

\* obRename creates the directory of the layer first.
CommitMakeLayerDir ==
  /\ step = "commit"
  /\ Committable(commitJob) /\ cfg \notin Tmpfs /\ upper
  /\ \/ /\ layer' = [layer EXCEPT ![commitJob] = "hollow"]
        /\ GoTo("commitRename")
        /\ UNCHANGED error
     \/ Fault("repository") /\ TaskFails /\ LogError /\ UNCHANGED layer
  /\ UNCHANGED <<config, diskJobs, upper, cfg, reload, work, historyVars>>

\* The upper layer becomes the root directory of the new layer.
CommitRename ==
  /\ step = "commitRename"
  /\ \/ /\ layer' = [layer EXCEPT ![commitJob] = "bare"]
        /\ upper' = FALSE
        /\ work' = IF work = "upper" THEN "layer" ELSE work
        /\ GoTo("commitInfo")
        /\ UNCHANGED error
     \/ Fault("repository") /\ TaskFails /\ LogError /\ UNCHANGED upperVars
  /\ UNCHANGED <<config, diskJobs, cfg, reload, historyVars>>

\* obCopyFile opens the layer.yaml of the layer, which is to be the job file.
CommitOpenInfo ==
  /\ step = "commitInfo"
  /\ \/ /\ layer' = [layer EXCEPT ![commitJob] = "short"]
        /\ GoTo("commitWrite")
        /\ UNCHANGED error
     \/ Fault("repository") /\ TaskFails /\ LogError /\ UNCHANGED layer
  /\ UNCHANGED <<config, diskJobs, upper, cfg, reload, work, historyVars>>

\* A new upper layer is made; what that returns is ignored.
MakeUpper ==
  \/ upper' = TRUE /\ UNCHANGED error
  \/ Fault("repository") /\ LogError /\ UNCHANGED upper

\* Mutant of CommitWriteInfo: what the copying returns is ignored.
MutCommitWriteInfo ==
  /\ step = "commitWrite"
  /\ \/ /\ \/ /\ layer' = [layer EXCEPT ![commitJob] = "complete"]
              /\ UNCHANGED slipped
           \/ Fault("repository") /\ slipped' = TRUE /\ UNCHANGED layer
        /\ MakeUpper
     \/ /\ Fault("repository") /\ LogError
        /\ upper' = TRUE /\ UNCHANGED <<layer, slipped>>
  /\ GoTo("commitRemove")
  /\ UNCHANGED <<config, diskJobs, cfg, reload, work, promised>>

\* It is written, or cut off with or without a report.
CommitWriteInfo ==
  /\ step = "commitWrite"
  /\ \/ /\ \/ /\ layer' = [layer EXCEPT ![commitJob] = "complete"]
              /\ UNCHANGED slipped
           \/ Fault("repository") /\ slipped' = TRUE /\ UNCHANGED layer
        /\ MakeUpper
        /\ GoTo("commitRemove")
     \/ /\ Fault("repository") /\ LogError
        /\ TaskFails
        /\ UNCHANGED <<layer, upper, slipped>>
  /\ UNCHANGED <<config, diskJobs, cfg, reload, work, promised>>

CommitRemoveJob ==
  /\ step = "commitRemove"
  /\ \/ /\ commitJob' = None
        /\ promised' = FALSE
        /\ GoTo("update")
        /\ UNCHANGED error
     \/ Fault("repository") /\ TaskFails /\ LogError /\ UNCHANGED <<commitJob, promised>>
  /\ slipped' = FALSE
  /\ UNCHANGED <<config, updateJob, installVars, upperVars, cfg, reload>>

\* obExecUpdateConfigJob without a job.
SkipUpdate ==
  /\ step = "update"
  /\ updateJob = None
  /\ GoTo("install")
  /\ UNCHANGED <<config, diskJobs, upperVars, cfg, reload, error, historyVars>>

\* obCopyFile opens the configuration file for writing, which truncates it.
\* Some part of the new content may get into the file before the rest does.
UpdateTruncate ==
  /\ step = "update"
  /\ updateJob # None
  /\ \/ config' \in ({Empty} \cup Torn) /\ GoTo("updateWrite") /\ UNCHANGED error
     \/ Fault("config") /\ LogError /\ GoTo("updateRemove") /\ UNCHANGED config
  /\ UNCHANGED <<diskJobs, upperVars, cfg, reload, historyVars>>

\* Mutant of UpdateWrite: what fwrite returns is not looked at.
MutUpdateWrite ==
  /\ step = "updateWrite"
  /\ \/ config' = updateJob /\ UNCHANGED slipped
     \/ Fault("config") /\ UNCHANGED <<config, slipped>>
     \/ Fault("config") /\ slipped' = TRUE /\ UNCHANGED config
  /\ GoTo("updateRemove")
  /\ UNCHANGED <<diskJobs, upperVars, cfg, reload, error, promised>>

\* obCopyFile writes the rest, or leaves the file as it is, with or without a
\* report.
UpdateWrite ==
  /\ step = "updateWrite"
  /\ \/ config' = updateJob /\ UNCHANGED <<error, slipped>>
     \/ Fault("config") /\ LogError /\ UNCHANGED <<config, slipped>>
     \/ Fault("config") /\ slipped' = TRUE /\ UNCHANGED <<config, error>>
  /\ GoTo("updateRemove")
  /\ UNCHANGED <<diskJobs, upperVars, cfg, reload, promised>>

\* After sync() the job is removed and a reload asked for, whether or not the
\* file was copied.  obExecPreInitJobs then returns false.
UpdateRemoveJob ==
  /\ step = "updateRemove"
  /\ \/ updateJob' = None /\ UNCHANGED error
     \/ Fault("repository") /\ LogError /\ UNCHANGED updateJob
  /\ reload' = TRUE
  /\ slipped' = FALSE
  /\ TaskFails
  /\ UNCHANGED <<config, commitJob, installVars, upperVars, cfg, promised>>

\* obExecInstallConfigJob walks over the jobs that scandir has found, in their
\* order.  One that fails is left, and the walk goes on behind it.
InstallFrame == UNCHANGED <<config, updateJob, commitJob, upperVars, cfg, reload, historyVars>>

NextJob(p) == p \in installJobs /\ p >= place /\ \A q \in installJobs : q >= place => p <= q

GoBehind(p) == place' = p + 1 /\ GoTo("install")

\* scandir cannot read the jobs directory.
ScanFailed ==
  /\ step = "install" /\ place = 1
  /\ Fault("repository") /\ LogError /\ TaskFails
  /\ UNCHANGED installVars /\ InstallFrame

\* obCopyFile opens the file in the configuration directory, which truncates it.
InstallOpen ==
  /\ step = "install"
  /\ \E p \in Part :
       /\ NextJob(p)
       /\ \/ /\ \E state \in CutOff : parts' = [parts EXCEPT ![p] = state]
             /\ unsynced' = unsynced \cup {p} /\ lost' = lost \ {p}
             /\ place' = p /\ GoTo("installWrite") /\ UNCHANGED error
          \/ /\ Fault("config") /\ LogError /\ GoBehind(p)
             /\ UNCHANGED <<parts, unsynced, lost>>
  /\ UNCHANGED installJobs /\ InstallFrame

\* Mutant of InstallWrite: what the copying returns is ignored.
MutInstallWrite ==
  /\ step = "installWrite"
  /\ \/ /\ parts' = [parts EXCEPT ![place] = "whole"]
        /\ UNCHANGED <<lost, error>>
     \/ Fault("config") /\ lost' = lost \cup {place} /\ UNCHANGED <<parts, error>>
     \/ Fault("config") /\ LogError /\ UNCHANGED <<parts, lost>>
  /\ GoTo("installRemove")
  /\ UNCHANGED <<installJobs, unsynced, place>> /\ InstallFrame

\* It writes the rest, or leaves the file as it is: the job is removed all the
\* same if that is not reported, and is not removed otherwise.
InstallWrite ==
  /\ step = "installWrite"
  /\ \/ /\ \/ parts' = [parts EXCEPT ![place] = "whole"] /\ UNCHANGED lost
           \/ Fault("config") /\ lost' = lost \cup {place} /\ UNCHANGED parts
        /\ GoTo("installRemove") /\ UNCHANGED <<place, error>>
     \/ /\ Fault("config") /\ LogError
        /\ GoBehind(place) /\ UNCHANGED <<parts, lost>>
  /\ UNCHANGED <<installJobs, unsynced>> /\ InstallFrame

\* Unlike the configuration file, the partial ones are not synced before.
InstallRemoveJob ==
  /\ step = "installRemove"
  /\ \/ installJobs' = installJobs \ {place} /\ UNCHANGED error
     \/ Fault("repository") /\ LogError /\ UNCHANGED installJobs
  /\ GoBehind(place)
  /\ UNCHANGED <<parts, unsynced, lost>> /\ InstallFrame

\* Only jobs that failed are left.  No reload is asked for: the new files are
\* read at the next boot.
InstallEnds ==
  /\ step = "install" /\ \A p \in installJobs : p < place
  /\ IF installJobs = {} THEN GoTo("done") ELSE TaskFails
  /\ place' = 1
  /\ UNCHANGED <<installJobs, parts, unsynced, lost, error>> /\ InstallFrame

\* The loop of obCopyFile asks for the end of the file only: when a job file
\* cannot be read to its end, it never ends.
Reading == [commitWrite  |-> "commitRead",
            updateWrite  |-> "updateRead",
            installWrite |-> "installRead"]

ReadFails ==
  /\ step \in DOMAIN Reading
  /\ Fault("read")
  /\ GoTo(Reading[step])
  /\ UNCHANGED <<config, diskJobs, upperVars, cfg, reload, error, historyVars>>

ReadAgain ==
  /\ step \in {"commitRead", "updateRead", "installRead"}
  /\ UNCHANGED jobsVars

JobsStep ==
  \/ NoPendingJobs \/ RemountRootRw
  \/ SkipCommit \/ CommitRefused \/ CommitMakeLayerDir \/ CommitRename
  \/ CommitOpenInfo \/ CommitWriteInfo \/ CommitRemoveJob
  \/ SkipUpdate \/ UpdateTruncate \/ UpdateWrite \/ UpdateRemoveJob
  \/ ScanFailed \/ InstallOpen \/ InstallWrite \/ InstallRemoveJob \/ InstallEnds
  \/ ReadFails \/ ReadAgain

------------------------------------------------------------------------------
(***************************************************************************)
(* What the user does between two boots, mostly through obhelper.          *)
(***************************************************************************)

\* obhelper config, head or device while Overboot is running: a copy of the
\* configuration file is edited.  The head and device commands keep the job
\* even if its content is that of the file; the config command does not.
ScheduleUpdate ==
  /\ updateJob' \in (Config \ Torn) \cup {None}
  /\ UNCHANGED <<config, commitJob, installVars, upperVars, step, cfg, reload, error, historyVars>>

\* obhelper commit.
ScheduleCommit ==
  /\ commitJob' \in Layer
  /\ promised' = (work = "upper")
  /\ UNCHANGED <<config, updateJob, installVars, upperVars, step, cfg, reload, error, slipped>>

\* An install-config-* file is put into the jobs directory.
ScheduleInstall ==
  /\ \E p \in Part : installJobs' = installJobs \cup {p}
  /\ UNCHANGED <<config, updateJob, commitJob, parts, unsynced, place, lost, upperVars, step, cfg, reload, error, historyVars>>

\* obhelper clean.
CleanJobs ==
  /\ PendingJobs
  /\ updateJob' = None
  /\ commitJob' = None
  /\ installJobs' = {}
  /\ promised' = FALSE
  /\ UNCHANGED <<config, parts, unsynced, place, lost, upperVars, step, cfg, reload, error, slipped>>

\* obhelper config, head or device, or an editor, while Overboot is not running.
EditConfig ==
  /\ config' \in Config \ Torn
  /\ UNCHANGED <<diskJobs, upperVars, step, cfg, reload, error, historyVars>>

\* Files are written while the upper layer is the persistent one.  A pending
\* commit job then covers them too.
WriteFiles ==
  /\ upper
  /\ work' = "upper"
  /\ promised' = (commitJob # None)
  /\ UNCHANGED <<config, diskJobs, layer, upper, step, cfg, reload, error, slipped>>

------------------------------------------------------------------------------

\* The types of the variables of this module.
JobsTypeOK ==
  /\ config \in Content
  /\ updateJob \in Config \cup {None}
  /\ commitJob \in Layer \cup {Nameless, None}
  /\ installJobs \subseteq Part
  /\ parts \in [Part -> PartState]
  /\ unsynced \subseteq Part /\ lost \subseteq Part
  /\ place \in 1..Parts + 1
  /\ layer \in [Layer -> LayerState]
  /\ upper \in BOOLEAN
  /\ step \in {"idle", "begin", "commit", "commitRename", "commitInfo",
               "commitWrite", "commitRead", "commitRemove",
               "update", "updateWrite", "updateRead", "updateRemove",
               "install", "installWrite", "installRead", "installRemove",
               "done", "failed"}
  /\ cfg \in Content
  /\ reload \in BOOLEAN
  /\ error \in BOOLEAN
  /\ work \in {"none", "upper", "layer", "lost"}
  /\ promised \in BOOLEAN
  /\ slipped \in BOOLEAN
==============================================================================
