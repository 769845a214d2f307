# Overboot, specified

Overboot composes the root file system of a machine at boot: a program of the
initial RAM disk, `obinit`, mounts a repository of layers, glues the layers and
an upper layer together with overlayfs and puts the result where the root file
system was. Files here: TLA+ modules that model `obinit` and what users and the
power do around it, configurations that check them with TLC, and proofs that
TLAPS checks.

## 1. The system

| Part | Source | State it keeps | Operations |
|---|---|---|---|
| Task engine | `obinit/lib/src/ObTaskList.c` | a doubly linked list of tasks, an `exec` and an `undo` function each | create, append, execute, undo chain, free |
| Task list of obinit | `ObInitTasks.c` | eleven tasks in a fixed order | `obExecObInitTasks`, `checkRollback` |
| Main loop | `apps/obinit/src/main.c` | the context, the number of reloads left, the exit code | load, pass, reload, exit |
| Safe-mode lock | `ObInit.c`, `ObXxHash.c` | `obinit.lock` in the repository: a hash of the configuration file | `obInitLock`, `obUnsetLock` |
| Pre-init jobs | `ObJobs.c` | files `commit`, `update-config`, `install-config-*` in the jobs directory | `obExecPreInitJobs` and one function per job |
| Mounting tasks | `ObInit.c`, `ObDeinit.c`, `ObMount.c` | the mount tree of the kernel; the mode of the root file system | device, overboot directory, lower root, overlay, bindings, and their undo functions |
| Durables | `ObInit.c`, `ObConfig.c` | a list of paths; a persistent copy of each in the repository | bind, copy the original, unbind |
| Persistent upper layer | `ObInit.c`, `ObJobs.c` | the directory `upper` | create, clear, rename into a layer |
| Layers | `ObLayerCollector.c`, `ObYamlLayerReader.c` | `NAME.obld/root` with an `/etc/layer.yaml` that names the underlayer | collect the chain below the head |
| fstab | `ObFstab.c` | `/etc/fstab`, `/etc/fstab.orig` | rewrite, undo |
| Configuration | `ObYamlParser.c`, `ObYamlConfigReader.c`, `ObConfig.c` | `overboot.yaml` and the partial files of its directory | scan, read |
| Context, device | `ObContext.c`, `ObBlkid.c` | type and path of the device | find |
| Logging | `ObLogging.c` | one flag: an error was logged | log, ask |
| obhelper | `apps/obinit/system/usr/bin/obhelper` | none of its own; writes job files and the configuration | config, head, device, commit, clean |
| Init script | `.../local-bottom/obinit` | none | runs `obinit`, ignores its exit code |

How they interact.  The init script runs `obinit` once per boot.  `main` loads
the configuration, and has the task list executed: every task gets the context,
returns a Boolean, and may log errors.  A task that returns false makes the task
engine walk back through the undo functions; so does, after the last task, the
error flag.  One task executes the jobs that `obhelper` left in the repository
during the last boot; the update job changes the configuration file, fails the
pass on purpose and asks `main` for another pass.  The lock file ties one boot to
the next.

There are no threads.  What makes the program hard is failure: every call of a task may
fail, some failures are only logged and some not even that, the power may go between any
two changes of a disk, half of the state survives a pass (mounts that a rollback missed,
the error flag, the lock), another half survives a boot (jobs, lock, layers,
configuration), and nothing of it is seen in a test that succeeds.

What makes each part correct:

- task engine: everything that was started, and nothing else, is undone, latest
  first and once; no success with an error; the walks end; no freed task is used.
- main loop and jobs: a composed system runs on the configuration that is on the
  disk, with no job pending; jobs go away when they are done; reloading ends; the
  files of a user survive a commit that fails.
- lock: a boot that failed behind the lock is not tried again unchanged; a boot
  that succeeded leaves no lock.
- mounts: a rollback leaves what the init scripts mounted, as they mounted it;
  the root file system can be reached at every moment; a composed system has
  everything at its place.
- durables: what the user wrote through a durable is there at the next boot; an
  original is copied whole or known to be cut off; whatever an interrupted copy
  left can still be bound.
- layers: the overlay has exactly the layers of the chain below its head, in that
  order; a committed layer stands on the layer its files were written over.
- fstab: a system on the overlay has an fstab without the disk's root entry; a
  rollback brings back the one that the boot found; a user's text is not lost.
- configuration: what obinit goes by is what the files say, read in their order.

`PROJECT.json` lists every hazard at its line.

## 2. The modules

| Module | Models | Proved about in |
|---|---|---|
| `ObTransaction` | the abstract promise of a task list: run in order, or compensate in the opposite order | |
| `ObTaskList` | the task engine, pointer by pointer, as `obExecObInitTasks` drives it | `ObTaskListProofs` |
| `ObInitTasks` | the order of the tasks of obinit | |
| `ObSystem` | the abstract promise of Overboot to whoever uses the machine: how boots end, what they may change, and what a closed system leaves alone | |
| `ObJobs` | the job steps, one per change of a disk, and what obhelper schedules | `ObBootProofs` |
| `ObBoot` | `ObJobs` composed with the main loop, the lock, the other tasks, the user and the power | `ObBootProofs` |
| `MountTree` | the mount tree of the kernel under the system calls of `ObMount.c` | `MountTreeProofs` |
| `ObMounts` | the mounting tasks and their undo functions on that tree | `ObMountsProofs` |
| `ObDurables` | the persistent copies of durables over boots, one step per change of a disk | `ObDurablesProofs` |
| `ObLayers` | the recursion of the layer collector, one call per step, and the array of layers | `ObOverlayProofs` |
| `ObFstab` | `ObLayers` and `ObFstabLines` with the steps of the fstab task and of its undo function in the overlay | `ObOverlayProofs` |
| `ObOverlay` | `ObFstab` composed with the jobs, the configuration, the upper layer, obhelper, the user and the power, over boots | `ObOverlayProofs` |
| `ObFstabLines` | the columns and lines of the fstab, character by character where a character decides | `ObOverlayProofs` |
| `ObYaml` | the switch of the YAML parser and its path of keys | `ObYamlConfigProofs` |
| `ObYamlConfig` | the reader of configuration files and directories, token by token and file by file | `ObYamlConfigProofs` |
| `InductionFacts` | nothing of the code: induction over numbers and finite sets, as lemmas about sets | itself |
| `MCObBoot`, `MCObMounts`, `MCObDurables`, `MCObOverlay` | small instances for TLC | |

**ObTaskList.**  `first`, `last`, `next`, `previous` are the fields of the C
structures; tasks are numbered as they are allocated and 0 is `NULL`.  `task` is
the cursor of `obExecTaskList` and then of `obCallUndoChain`, and `phase` tells
which of them runs.  `executed` and `undone` are history variables: the code keeps
no such sets, and the properties are about them.  What a task does is open, and
`error` starts with either value, because the flag survives a pass.
`ImplementsTransaction` maps the list to `ObTransaction`: the pointer walks do
what an abstract transaction does.

**ObJobs and ObBoot.**  A configuration file is its content, and what a content
says is given by the sets `Enabled`, `SafeMode`, `Tmpfs`, `ClearUpper`,
`RollBack`, `Malformed` and `Torn`.  A hash is the content it is the hash of.
`pc` is where `main` is; the tasks are actions; `obExecPreInitJobs` takes its own
steps (`step`), because a crash between two of them matters.  A fault is a member
of the constant `Faults`, so that a run can show what happens without any.  A main
or partial file that cannot be opened (`load`) is reported and ignored by
`LoadContext`: the boot goes on with what could be read, or with the defaults, which
are switched off (`LoadNothing`).  `obCopyFile` can fail in four ways: when it
opens its files, when it writes, when it closes the target, where a small file is
really written and what `fclose` returns is ignored, and when it reads, where it
never ends (`read`; `ReadFails`, `ReadAgain`).  The third is a copy that is taken for
whole: `slipped` remembers it while its job is at hand, and `lost` for a partial file.  The
lock is known twice, as a program reads it (`lock`) and as the disk has it
(`lockOnDisk`), because nothing syncs it but the `sync()` of the update job.
`work` is where the files that a user wrote to the upper layer are, and
`promised` says that a pending commit job covers them.  Partial configuration
files are installed one by one (`installJobs`, `place`); `parts` says which are
whole and which were cut off, `unsynced` which the power may still take, and
`lost` which it took after their job was removed or whose copy was cut off when it was
closed.  What a partial file says is
the subject of `ObYamlConfig`; here it only matters whether the scanner accepts
it.  `failed` and `kept`
remember with which content the last boot failed behind the safe mode and
whether it left its lock.  The mounting tasks are kept to what they do to disks
and to the error flag.

**ObSystem.**  The same boots with no passes, tasks, locks or error flags in them. A
boot composes the system, finds it switched off, or fails; an error on the way leaves it
only the last of these, unless it could not read the configuration (`Miss`), when it may
also end as if it was switched off.  `ImplementsSystem` is `ObBoot` under a refinement
mapping: the configuration file, the update job and the pending jobs are themselves;
`repository` is the tuple of everything else that a boot may change; `systemStatus` is
`pc` with the error flag while obinit runs (`unread` behind a load that failed and
enabled nothing), and the exit code with `composed` afterwards; `Closed` is the lock of
a boot that failed behind it.  A step of the jobs or of `obInitOverbootDir` is work, the
exit of obinit is the end of a boot, and all other steps of a pass stutter or report the
first error.

**MountTree and ObMounts.**  A mount is a record: which directory of which file
system it shows and which directory of which mount it covers.  `Mount`, `Bind`,
`Move`, `Unmount` do what `mount(2)` and `umount2(2)` do with the flags of
`ObMount.c`, `MS_REC` and `MNT_DETACH` included; `Lookup` resolves a path through
mounts stacked on mounts.  A task is one step with one Boolean for every call in
it that may fail.  `rootRw` is the mode of the root file system.  Nothing runs
beside obinit, and mounts do not survive the power, so that finer steps would
show nothing more.

**ObDurables.**  Three trees map paths to what is there: `repo`, the persistent copies;
`upper`, what obinit made in the upper layer; `Original`, the layers and the root file
system below.  `Seen` puts them on top of each other, with the persistent tree wherever
a durable is bound.  `next` is the cursor of `obInitDurables` and `step` what it does
with that durable: `look` at what is there, make it `blank`, `copy` the original,
`bind`.  `todo` is what `nftw` has not visited yet.  A file that is being copied is
`part`; an interrupted copy leaves it so, and so does a copy that fails when it is
closed, which nobody notices (`FillCopyShort`).  `user` and `cut` are history: what the
user last did to each file, and which copies were cut off.  The lists of durables are in
the order of the linked list, which is opposite to that of the file (`ObConfig.c:31`).
`ObMounts` has the mounts of the same task, with their failures and their undo function;
here only what is bound matters.

**ObLayers.**  `layer` is the repository: the underlayer that each layer names, or
`NoName` (a `layer.yaml` that names none, which stands for the root file system), or
`Absent`, or `Bare` (a directory without `layer.yaml`).  It may be any graph, since the
documentation tells users to delete and to copy layers by hand.  A `layer.yaml` that
cannot be opened is reported and taken for an empty one (`CollectUnreadable`).  One
action is one call of `obCollectLayers`: `cursor` is the layer it is made for, `chain`
the list so far.  `CountMod` is what the `uint8_t` of `count` wraps at (256 in the code)
and `StackDepth` the number of calls that the stack has room for. `Lowers`, `LowerCount`
and `Overrun` are the array that `obInitOverlayfs` makes of list and number, with the
persistent upper layer on top if it is included.

**ObFstab.**  `files` has the two files `fstab` and `orig` of the root file system, of
each layer and of both upper layers; `View` is what overlayfs shows of them and `Rename`
what `rename(2)` does there, whiteouts included.  An fstab is its text and the device of
its root entry.  Renaming, truncating and rewriting are steps of their own, since the
power may go between them; `dirty` says that what obinit wrote may not be on the disk.
What `fputs` and `fclose` return is ignored, so that `RewriteFstab` may leave the new
fstab cut off and succeed.  `before` and `edited` are history: the fstab that this pass
found, and the user's text that the persistent upper layer has to keep.

**ObOverlay.**  What `ObBoot` leaves abstract is here concrete and the other way
round: a job or a task is one step, but a commit makes a layer with an underlayer
and files, an update job changes the head and the type of the upper layer, and the
next boot collects and mounts what it finds.  A commit may fail before the upper layer
is moved, behind that (`CommitFails`), or with a `layer.yaml` that is cut off, noticed
or not (`CommitShort`); what it leaves is the repository of the next boots.  An update
may fail to copy or to remove its job, and asks for a reload all the same
(`UpdateConfig`), `reloads` times at most.  `over` remembers on which layer the
persistent upper layer was mounted.  `Active` is what obhelper takes for the layer
that is below the upper one (`obhelper:261`).

**ObFstabLines.**  Pure algorithms, each beside a definition of what it is meant to
compute: `SecondColumn` (words between white space) and `EntryOn` (an entry of the
mtab, by its parts).  A line is followed in memory by what `getline()` left there of
earlier lines, and ends before the `int16_t` of a position and the `OB_PATH_MAX` of a
column do (`ObFstab.c:23`, `91`).  The lines, what is behind them and the entries are
constants, so that what TLC checks for those of `MCObOverlay` is proved for all.

**ObYaml and ObYamlConfig.**  `parser` has the locals of `obParseYamlFile` and `Step` is
its switch; `Scan` puts one token through it, and through the callback that it calls,
onto `config`.  Which token comes next is up to the document.  Documents are not given
in advance: `open` is the stack of blocks that the scanner is in, `at` what comes next
there, and any action that fits may go on, so that the behaviours of `Spec` are all
documents in block style with nothing left out behind a key or a dash, indented
sequences, and no dot in a key and no empty key.  `within` is the stack of the calls of
`loadYamlConfigDir`, each with its directory and with the `config_dir` that
`obLoadPartialYamlConfig` puts by and back (`ReadPartial`, `Return`).  The order in
which `scandir` sorts the files does not matter, because each of them may be any
document.  `said`, `named` and `items` are history: what the files have said, the
directory that each of the files on the way here named, and what each item of a list of
durables said.  `AsWritten` makes of them the configuration that is meant: for each
setting the last value that was given, for each item a durable. `ObOverlay` has three of
the configurations that can come of it.

## 3. The runs

Passing:

| Run | Checks | Bounds |
|---|---|---|
| `task_list` | the task engine, its liveness and its refinement of `ObTransaction` | lists of 0 to 5 tasks, every choice of undo functions, outcomes and errors |
| `safe_mode` | locks, reloads, exit codes, termination, and the refinement of `ObSystem` | four contents (two with safe mode of which one asks for a rollback, one without, one switched off), 2 reloads, every fault but reading without an end, files that cannot be opened included, any number of boots (0.3 million states) |
| `commit` | jobs and the upper layer | five contents (kept, cleared and RAM upper layer, switched off, cut off), one layer name and a job without a name, two partial files, every fault of the jobs, reading without an end included, any number of boots (7.8 million states) |
| `mounts` | rollback, layout, durables | three types of device, both types of upper layer, a root file system with another one mounted below it, up to two durables, one inside the other, in either order; any number of passes |
| `durables` | the persistent copies | five paths (a directory, one inside of it with a file, a file, a file that no layer has), every list of at most three durables, both types of upper layer, every fault, any number of boots (0.2 million states) |
| `overlay` | layers, fstab and jobs over boots; the columns of the fstab on all small inputs | two layers in each of the 36 graphs on them, missing and bare ones and ends included, a number of layers that wraps at 3, a stack of 4 calls, three configurations (persistent, tmpfs with the persistent upper layer included, volatile on the root), two texts, one reload, every fault, any number of boots (4.5 million states) |
| `config` | the parser and the reader of configuration files | every document of at most three blocks inside each other, in which no block and no entry begins after three calls of the callbacks; the main file and one more, in its directory or in one below; three keys and two values (4.4 million states) |

Why the bounds are enough.  The task engine relates a task to its two neighbours
and to both ends of the list; five tasks have all of these, an inner task that is
none of them, and the theorems below hold for any number.  Two contents with safe
mode are what it takes for a lock of one to be met by the other; a third without
safe mode meets the locks of both.  Two reloads are the fewest with which a
reload follows a reload and the bound is still met (the code has 8); `overlay` makes
do with one, since there a reload leaves nothing behind but the configuration and the
error flag, and the theorems hold for any number.  One layer
name is enough for a commit to meet what an earlier commit of that name left.
Two partial files are what it takes for one to fail before and one behind another
that is installed; the theorem holds for any number.
Five paths have a durable inside of another and a file two directories down; with
three durables each can be prepared before, between and after those it is nested
with.  Two layers make every shape that matters: a chain of two, a layer without
its underlayer, a layer on itself, two on each other; with the root file system
and the upper layer they exceed a number that wraps at 3, so the wrapped number,
the list that goes on and the overrun array all happen, and a stack of four calls
is one more than a list without a repeated layer needs.  `CountMod` and
`StackDepth` are parameters of the proofs.  The boots are not bounded.

The inputs of the pure algorithms: lines of up to five characters of three kinds, before
four kinds of leftovers; lines of four words for the rewriting.  The keys of `config`
are those of a durable (`durables`, `path`), the deepest path that a callback knows,
and `config_dir`, the only setting that a call puts back; three calls are what it
takes to name a directory and to begin and fill a durable, in one file or in two,
and every other key is treated like one of these.  On documents other than those of
`ObYamlConfig` the path of keys goes wrong (see the list below).

What the passing runs show, property by property:

- `RollbackIsComplete`, `UndoLatestFirst`, `SuccessIsClean`, `NoDanglingPointer`,
  `Terminates`: the promises of the task engine.
- `ComposedIsClean`: no overlay is left in place after a logged error of any pass
  or with a stale configuration or a pending job.
- `NoPartCutOff`: `obExecInstallConfigJob` goes on behind a file that could not be
  copied, and its job is what keeps the cut-off file from being used.  The exceptions
  are the members of `lost`.
- `NoLockBehindSuccess`: a success removes the lock, also one that belongs to an
  earlier boot with another configuration.
- `SafeModeBlocks`: if the boot before failed behind the lock and its lock
  reached the disk, nothing behind `InitLock` runs with the same content.
- `ImplementsSystem`: the boots keep the promises of `ObSystem`.  A boot composes only
  what the file says as it is, with no job left and no error; the exit code is 0 only
  then, when the file says that Overboot is switched off, or when the file or one that
  is read with it could not be opened, after reloads too; the file changes for an update
  job only, which is not forgotten before the file has its content, or has been cut off
  without a report, or the boot is bound to fail; and once a boot has failed and left
  its lock, no boot and no power failure changes a job, a layer, the upper layer or a
  partial file until somebody changes the configuration (`ObInitTasks.c:29` checks the
  lock before the jobs run, so that pending ones have to wait as well).
- `BootEnds`: the main loop ends even if a job cannot be removed, if every file that
  is read can be read to its end.
- `PromisedWorkSurvives`, `CommitJobIsDone`, `UpdateJobIsDone`: a commit that was
  cut short by faults or by the power loses no files, although the code may clear
  the upper layer in the same pass; jobs go away only when they are done, or an error
  says otherwise, or the copy was cut off when it was closed (`slipped`).  That
  exception is narrow: it is one copy of one job, and the mutants, which ignore what
  `fwrite` returns, are refuted beside it.
- `RollbackRestores`, `RootNeverLost`: after a failure anywhere the mount tree is
  the initial one, and on the way the root file system is always reachable.
- `Layout`, `LowerRootProtected`, `DurablesVisible`: what a composed system looks
  like; that the lower root is read-only although the result of that remount is
  ignored rests on the error flag.  Durables are bound last: one whose path is
  `/obdev` or begins with `/overboot` is put over what obinit has mounted itself, and
  nothing in the code refuses it.  `Layout` makes an exception for such
  configurations (`HidesNothing`); the overlay, the root file system below it and
  the durables are in their places all the same, as the run with these two shows.
- `UserIsObeyed`: a copy that is made, cut off or made again by a later boot, or
  rolled back, never overwrites what the user wrote nor brings back what the user
  removed.
- `NoCopyOntoItself`: the source of a copy is read through the durables that are
  bound so far and is yet never the copy itself.
- `AlwaysBindable`: no sequence of failures leaves a copy of the wrong kind, with
  which every boot to come would fail.
- `CopiedWhole`: the original is copied whole, with the three exceptions that the code
  has: a copy that was cut off, noticed or not, is never completed, an inner durable
  that is prepared first keeps the outer one from being copied, and an outer one that is
  prepared first without `copy_origin` hides the original of the inner one.
- `ChainMounted`: whatever users did to the repository, a system on the overlay
  has the whole chain of its head.  A chain that a missing layer cuts short is
  mounted first and rolled back at the end, on the error flag alone.
- `CrashOnlyOnCycle`: the stack and the array are only overrun by a layer that
  stands on itself, directly or not, or by 256 layers.
- `CommitPointsToHead`: between the job and the boot that does it the user may switch
  the head and the upper layer, and the commit may fail at any call; the new layer still
  stands on the layer its files were written over, or it has no `layer.yaml`, or one
  that names no layer.  The property leaves out jobs made while the upper layer was in
  the RAM: with a persistent upper layer included below the tmpfs, obhelper takes the
  root file system for the layer below (`obhelper:261`).
- `FstabFits`, `FstabRolledBack`, `FstabEditKept`: the protocol of renaming,
  truncating and writing, with a failure, a write that fails unnoticed or a power
  failure at every step, over layers that have an fstab of their own and whiteouts that
  an earlier boot left.  `FstabEditKept` has three exceptions, the ways in which the
  code loses a text; they are in its comment.
- `BootEnds` of `ObOverlay`: obinit has a step to take until a boot has ended
  (`ENABLED Boot`), and every step takes it forward (`BootAdvances`): to a later stage
  of the pass, to a deeper call of the collection, or to one of the reloads that are
  left.  This is termination without any fairness, on every graph and with jobs that
  come back, because they cannot be removed.
- `ColumnsFound`, `RootEntryRewritten`: the algorithms compute what their
  definitions say, on every input of the bounds.
- `ParserReadsTree`: the path is pushed at keys and dashes and popped at values and
  ends of blocks, and is yet always that of the place in the document.
- `ConfigAsWritten`: one configuration is filled by files that are read inside of
  each other; the last one that gives a setting decides, durables add up, and a
  directory that a file names does not replace the one that is being read.

Disagreements between the documentation and the code, each with a run that
TLC refutes:

- `logged_error`: a boot that fails on an error that was only logged has removed
  the lock before it is rolled back; the safe mode does not block the next boot
  (`README.md:207`, `ObInitTasks.c:91`).
- `own_lock`: a reload that does not change the content meets the lock of its own
  process and is blocked, though no boot has failed (`ObInit.c:426`, `ObJobs.c:34`).
- `torn_config`: a power failure during the update leaves a file on which the
  YAML scanner reports an error, for ever; obinit never ends (`ObYamlParser.c:53`).
- `commit_ram`: a commit that is scheduled while the upper layer is in the RAM is
  refused at every boot and keeps Overboot from starting (`ObJobs.c:121`).
- `durable_lost`: a durable file that no layer has is created blank at every boot
  on a tmpfs upper layer, and its persistent copy is truncated with it
  (`README.md:198`, `ObInit.c:363`).

Further observations made while modelling, which the models follow and no run
is about:

- The head `none` makes `obCollectLayers` return no list, and `obInitOverlayfs`
  fails without logging anything (`ObInit.c:219`; action `NoLayers`), while
  `README.md:144` offers it "to skip mounting lower layers".
- A repository directory is covered in the overlay (`ObInit.c:272`), and visible
  through the binding of the lower root (`ObInit.c:292`), as the theorem about
  `Layout` says of both places, while `README.md:81` has access to it obstructed.
- The undo function of an fstab task that renamed nothing renames the `fstab.orig`
  of an earlier boot over the fstab of the user (`ObDeinit.c:94`; `UndoFstab`
  resets `edited` there), while `README.md:207` says that a rollback restores.
- A line whose second word is `/` is taken for the root entry also if it is a
  comment (`ObFstab.c:94`; a Debian installer writes "# / was on ...").
- A key without a value, a sequence that is not indented or a key with a dot puts
  the values that follow it under a wrong path, and they are ignored
  (`ObYamlParser.c:79`; no behaviour of `ObYamlConfig` has them).
- A directory of configuration files in which a file names the directory it is in
  is read without an end (`ObYamlConfigReader.c:128`).
- Partial files that a job installs are read at the next boot only, because no
  reload is asked for, and are not synced before their job is removed: the power
  may leave one cut off for good (`ObJobs.c:61`; the set `lost`), and one the
  scanner does not accept hangs every boot like the main file.
- An empty commit job, which a power failure can leave where obhelper has just
  opened it, names no layer and keeps Overboot from starting (`ObJobs.c:115`).
- A copy that fails when it is closed is short, no error is logged, and its job is
  removed (`ObOsUtils.c:292`; `slipped`, `lost`, `FillCopyShort`, `CommitShort`).  A
  configuration file or a partial one is cut off then, a `layer.yaml` names nothing, so
  that the layer stands on the root file system, and a durable is bound to a short copy.
- A new fstab that could not be written is left as it is, the task succeeds, and the
  next boot renames it over the user's one (`ObFstab.c:100-106`, `144-147`).
- A configuration that cannot be opened is reported and taken for one that is
  switched off, with the exit code 0 (`main.c:33`, `ObYamlParser.c:41`; `LoadNothing`).
- A file with a read error is copied without an end (`ObOsUtils.c:281`; `ReadAgain`).
- `obGetPathByUuid` frees an element before the list if `/dev` has no block device
  (`ObBlkid.c:116`).

Mutants.  Every property of a passing run has a definition `Mut...` before the
definition it mutates: a plausible bug (a dropped test of the error flag, an undo
chain that starts one task too late, a lock removed only with the safe mode, a
refused commit that does not stop the task, bindings in the wrong order) under
which TLC refutes the property.

### Fairness

`ObTaskList!FairSpec` has weak fairness of its next-state relation: sequential
code in one thread, provided that every task returns.  `ObBoot!FairSpec` has weak
fairness of the steps of `obinit`, which nothing else runs beside at that point of
the boot; not of faults, users or the power.  A call that never returns (a device
that hangs) is not modelled, and a copy that never ends is not a fault of `safe_mode`:
`BootEnds` supposes that files can be read to their end.  `ObOverlay` needs no
fairness: its `BootEnds` counts what is left to do.  `FairBoots`, used by `commit_ram`
only, adds that the machine is switched on after it was shut down, and shut down now
and then.

## 4. The proofs

`ObTaskListProofs` proves, for every number of tasks, `TypeOK`,
`RollbackIsComplete`, `SuccessIsClean`, `NoDanglingPointer`, `UndoLatestFirst` and
that `ObTaskList` implements `ObTransaction`.  The only assumption is
`MaxTasks \in Nat`.  None of the properties is inductive: they speak of sets that
the code does not have.  The invariant `IInv` adds what the pointers are
(`ListShape`: the list is the tasks `1..appended` in order, shrinking from its
end while it is freed), that the tasks which ran are a prefix of it
(`ExecutedInOrder`), and where the walks stand (`WalkState`: the tasks that ran
are those before the cursor, the undone ones those behind it).  `NextInv` proves
it action by action; the properties follow from it, and `StepImplements` maps
every step to a step of the transaction or a stutter.

`ObBootProofs` proves, for every set of contents of a configuration file, every
fault and every `MaxReloads`, the safety properties of the runs `safe_mode` and
`commit`: `TypeOK`, `ComposedIsClean`, `NoLockBehindSuccess`,
`SafeModeBlocks`, `NoPartCutOff`, `PromisedWorkSurvives`, and the action
properties `CommitJobIsDone` and `UpdateJobIsDone`; and that `ObBoot` implements
`ObSystem` (`ImplementsSystem`).  It assumes `ConfigAssumption`
(the sets that say what a content means are sets of contents, a malformed file
does not enable anything, and no content is taken for a missing file) and
`BootAssumption` (there is at least one reload, and a lock file may hold something
that is the hash of nothing).  The properties look at the end of a
pass or of a boot, or compare two boots, so none of them is inductive.  `IInv` has
one part for each thing that they rest on:

- `ControlOK`: which places of the program the other variables belong to; the job
  steps run inside of task 3, the lock is written inside of task 2, a pass that
  composed asks for no reload.
- `JobsOK`: what each step of the jobs has achieved.  It carries "the layer is
  complete, or its `layer.yaml` slipped" to the removal of the commit job, "the file
  has the content of the job, an error was logged, or the copy slipped" to that of the
  update job, and "the files of the user are in
  the upper layer or in the layer" over every fault and power failure.
- `PassOK`: a pass keeps the configuration it was loaded with, except behind an
  update job (which asks for a reload or fails), and has no job behind task 3.
- `PartsOK`: a partial file that is cut off is still a job, or is `lost`; with no
  job left behind task 3 that is `NoPartCutOff`.
- `OutcomeOK`: what a pass that ended reports to the loop.
- `LockOK`: the lock from one boot to the next.  `attempted /\ guarded` ties the
  lock to the loaded configuration while a pass runs; once such a boot failed, the
  lock of the failed content stays on the disk and no pass gets behind task 2 until
  the file is changed.  It needs `~guarded` where the lock file is open and empty:
  a power failure there leaves a lock that matches nothing.
- `BootOK`: which boots may still compose.  A pass that runs tasks was switched on,
  one that was loaded as switched off is what the file says or an error was logged, a
  pass begins with an exit code of 0 only if none was logged before, and a closed
  boot has neither written a lock nor left a partial file unsynced, so that no power
  failure in it can open the system or damage a file.

One lemma per part shows that each action preserves it; `Invariance` combines them.
`StepImplements` gives every action its step of `ObSystem`: the actions of a pass either
leave alone what the disks keep (`QuietActions`) and stutter or report the first error,
or are the work of a boot that is not closed (`BusyActions`); `LockOK` puts the jobs out
of the reach of a closed one.  The exit, the user, the shutdown and the power failure
are mapped one by one; so is the loading of a configuration (`LoadStep`), which is
`Miss` if it reports an error and enables nothing.  `ClosedIsInert` follows from the
refinement: from a boot that failed and left its lock to the next change of the
configuration file, nothing changes the jobs, the layers or the upper layer.
`JobsAreKept` says that only two of the steps remove a job during a boot, and the two
action properties follow from it and `JobsOK`.  Booleans are kept apart (`BooleansOK`)
because the SMT encoding does not know that a formula that is assigned to a variable is
a Boolean.

`ObDurablesProofs` proves for all paths, originals and lists of durables, under
`DurablesAssumption` (paths form trees, the original is one of them, and
`default_type` fits): `TypeOK`, `UserIsObeyed`, `NoCopyOntoItself` and
`AlwaysBindable`.  `IInv` adds the shape of the trees (`TreesOK`: what is there is
in a directory that is there, so that a missing copy has nothing below it), what
is bound when (`BootOK`), what remains of the deeds of the user (`UserOK`), and
what each step was started for (`StepOK`).  `ObeyedByPut` is the heart of
`UserIsObeyed`: a step of obinit changes one path, on which the user has no claim,
and makes directories above it.  That nothing is copied onto itself needs that two
directories above the same path are one above the other.

On top of that invariant, and under the same assumption, the second part of the
module proves `CopiedWhole`.  `CInv` adds four facts:

- `WholeOK`: a copy that is there holds what is not still to be copied, unless it is
  in `cut`; this is `CopiedWhole` for the moments between two calls.  A copy that is
  short without a report is in `cut` from the step that leaves it so.
- `TodoOK`: as long as the copy does not exist, all of the original is still to be
  copied.  A boot that finds a copy does not copy again, so that only this makes an
  existing copy a copy of everything.
- `UpperOK`: nothing that obinit makes in the upper layer hides a file of the layers,
  so that what `obCopyFile` reads is the original.
- `EmptyOK`: a durable that is made blank has no original.

`OthersStayWhole` is the heart: what is put at a path while one durable is prepared
hurts no other.  A durable that has the path too is nested with the one that is
prepared; the earlier of the two is bound, and nothing bound is copied onto.

`ObOverlayProofs` proves, for every repository, every set of configurations, every
set of failures and every number of layers: `TypeOK`, `ChainMounted`,
`CrashOnlyOnCycle`, `FstabFits`, `FstabRolledBack`, `FstabEditKept` and the action
property `CommitPointsToHead`, and `BootAdvances`, the safety part of `BootEnds`
(theorem `BootForward`).  It assumes `LayersAssumption` (the names of layers
are not those that obinit reserves, and the counter wraps at 2 or more),
`FstabAssumption` and `OverlayAssumption`; `CrashOnlyOnCycle` needs in addition
that there are fewer layers than calls that fit on the stack.  `IInv` adds to the types:

- `BootOK`: what a pass has not come to yet is empty, and no error is composed.
- `ChainOK`: the layers that were collected lead from the head to the cursor
  (`Linked`), what was mounted is that chain or an error was logged (`Stacked`),
  and a crash has used up the stack or the counter.
- `JobOK`: no job is left behind the task that does it, and a commit job names the
  layer the persistent upper layer was last mounted on.  This is what
  `CommitPointsToHead` rests on, since the job is made in one boot and done in another.
  `CommitSteps` says that of the three actions that move the upper layer each leaves
  that name, no name or no `layer.yaml`.
- `FstabOK`: between renaming and undoing, the file beside the fstab is what the
  pass found; the rewriting reads it, and so does the undo function.
- `EditOK`: where the user's text is at each step of the task.  Behind a power
  failure it is the fstab, or beside a whiteout: then the next boot does not find
  an fstab to rename over it.  Beside an fstab that could not be written (`Unwritten`)
  it is only safe until the next boot renames that; `Halt` gives it up.

`StageIs` gives the stages of a pass as numbers, and `BootForward` follows
action by action.

Apart from the lines and the stages, arithmetic appears in two places of that module
only.  `WholeArray` shows that a number that fits its counter makes the array the whole
chain, and `NoCrash` uses the pigeonhole theorem on the calls that are on the stack.

`ColumnsFound` and `RootEntryRewritten` rest on the first part of the module, which
proves for lines of any length, whatever `getline()` has left behind them and for every
entry of the mtab what the search and the rewriting compute.  `LinesAssumption` says
that a line has no NUL, that there is white space behind it somewhere (the loop at
`ObFstab.c:44` has no other end), and that the source of an entry is a word not longer
than "overlay". The search is a recursive function; `ThreeRounds` shows with
`IterationExists` that it has come to rest after three rounds, and `Search` where.
`SecondIsFound` compares that with the second column in each of the places where the
line may end: in the white space before the first word, in it, behind it, or later.  If
the search runs past the NUL, it stops on the NUL or on white space, where
`StringAtNothing` finds an empty string: what is behind the line cannot be taken for its
mount point. `CompleteIsLong` is why the wrong length at `ObFstab.c:96` does no harm: a
line with four columns and its newline is longer than the word "overlay".
`EntryReplaced` then shows part by part (`Parted`) that the entry is written on `/`.
The bound is sharp: the last line of a file, with four one-letter columns and no
newline, has seven characters, and would be replaced by a broken entry.

`MountTreeProofs` holds what is known of `MountTree` for every well-formed mount tree:
that a path leads to a position (`LookupType`), that paths which go on with the same
names keep whatever relation single names keep (`LookupRelated`), that no path leaves a
part of the tree that is closed under "mounted below" (`PathInside`), what mounting
and binding add (`MountGrafts`, `BindGrafts`: one tree, fresh, on the position that
the path led to) and what unmounting takes away (`UnmountCuts`: that tree).  `Lookup`,
`Uppermost` and `Subtree` are recursive functions, and the library's induction
theorems, which take an operator, cannot be used.  `InductionFacts` states the induction
with a set in the place of the predicate instead: `NatSetInduction`,
`BoundedInduction`, `FiniteSetInduction`, and `IterationExists`, which is what makes a
recursive function over `0..n` the function that its equation describes.

Two further facts are about what is seen.  `GraftElsewhere` says that a mount changes
where a path leads only if the path goes through the place of the mount.
`SourceMirrored` says that a recursive bind mount shows, behind every path, what its
source showed: the paths below both places are followed name by name, through the copies
of the mounts that were below the source (`Mirrors`).  They need that no two mounts
of the source are on the same directory (`Plain`), which `CopyPlain` carries over
to the copy.

`ObMountsProofs` proves every property of the run `mounts`: `LowerRootProtected`,
`TypeOK`, `RollbackRestores`, `RootNeverLost`, `Layout` and `DurablesVisible`, for all
configurations, all mounts of the init scripts and all paths.
It assumes `ContextsAssumption` (a durable is not the root itself),
`InitialMountsAssumption` (of the mounts below `/root` none is on the RAM disk or hides
the root of another, and each is on a directory of its own), `PathsAssumption`
and `NamesAssumption` (the names that the source spells out are strings, which the
SMT encoding does not know).

For `LowerRootProtected` the invariant `IInv` says what is known behind `InitOverlayfs`:
the root file system is read-only or an error is logged.  `ErrorStays` and the order of
the tasks (`TaskPlaces`) carry it to the end of the pass, where `CleanOK` closes the
case of an error.

For the next three the invariant `BuiltOK` says what the mount tree is made of.  It is
built up in four steps: the repository, the tmpfs, the root file system moved onto it,
the overlay.  `Level` says what stands after each; `Stands` that the parts are apart
from each other and that what the init scripts had mounted is unchanged but for the
place of its top.  Bind mounts, also those of durables inside of durables, are only ever
added to the overlay's tree: `OverlayBinds`.  A task takes the tree one step up or
leaves it (`TaskReturns`).  An undo function does not know how far its task came; it is
shown to take the tree to the step that its task found (`LevelBefore`), whether that
means unmounting something or nothing: unmounting the durables, the bindings, or a
directory of the device that is seen at the same path below the overlay must not reach
into another part.  At the first task that is the step 0, which only the mounts of the
init scripts satisfy (`OnlyInitial`).  `RootReached` compares every path below the root
file system with the same path in the initial mounts. TLC had found `BuiltOK` to hold on
the instance of `MCObMounts`, and on a variant of it with other initial mounts, before
it was proved.

For `Layout` and `DurablesVisible` the invariant `ShownOK` says, from the task that
makes it on, what the pass has made so far: the overlay and the cover of a repository
directory, the management bindings (`Managed`), the durables (`Durable`).
`Adds(ms, ms2, E)` is what every call of these tasks does: the mounts are still built
up to the overlay, the repository looks as it did, and so does every path of the
overlay that does not go on behind a place of `E`.  It is transitive (`AddsOn`), so
that a task has to be followed call by call only for the places it mounts on.  The
management bindings do not hide each other, because no two of their names are the same
(`NamesApart`); the overboot directory, in which they lie, is bound first.  Durables may
lie inside of each other.  That each shows its persistent copy still is `DurableAdds`:
what is bound at a durable shows the copy, and the copy of what lies inside of the
durable lies inside of its copy, so that a path which now leads into the new
mount leads to what it has to.  `DurablesShown` iterates that over the list, with
`DurablesIterated` for the recursive function of the model.

`ObYamlConfigProofs` proves `TypeOK`, `ParserReadsTree` and `ConfigAsWritten` for
documents of every depth and length, any keys and values and any number of files and
directories.  The assumption is that no key is empty (`ReaderAssumption`; the code
pushes an empty key for a dash, so that an empty key would be taken for one).  The
bounds are parameters.  Neither property is inductive.  `Invariant` adds:

- `PathIsHere`: the path of the parser is that of the current place where a value or
  the mark behind a key may come next, and without its last key where an entry may;
  `isKey` is set behind the token of a key and nowhere else.  The pop at a scalar and
  the one at the end of a block take away the same key, that of the entry which the
  value or the block stands in.
- `BlocksOK`: the keys of lists are empty and those of mappings are not, so that the
  path `durables..path` can only be that of an entry of a list; and such a list has an
  item, so that the test for a missing durable (`ObYamlConfigReader.c:48`) never fails.
- `CallsOK`: there is one `config_dir` put by for each call that is not finished, and
  it is what the file of that call had named.

`SettingAfter` says what one more call does to the last value of a setting, and
`ValueWritten` that the callback does the same to the configuration.  `ItemSays` is
the case of a durable, where the head of the list, to which the code writes, has to be
the item that is being read.  `Returned` is the way back from a file.

Only model-checked: `BootEnds` of `ObBoot`, `Terminates` and `CommitIsExecuted`
(liveness under fairness is out of the prover's reach), and that obinit always has a
step to take, the other part of `BootEnds` of `ObOverlay` (`ENABLED`).  Every other
property of the passing runs is a theorem.

## 5. What is not modelled

- The scanner of libyaml itself: the order of the tokens is what its documentation says
  it makes of block styles; flow styles, anchors and several documents in a file are
  left out, and so is what happens to a path of more than 127 characters
  (`ObYamlParser.c:50`) or a value that is longer than its field.
- Of the entries of `layer.yaml` all but the underlayer; the menus and lists of
  obhelper that show them; `obhelper` on another device (relocation).
- What the size of the tmpfs does, which is handed to `mount(2)`; only its reading is
  modelled.
- Attributes and symbolic links in copies; a durable whose `default_type` does not
  fit what is there; `obCreateBlankFile` closing a file that it could not open
  (`ObOsUtils.c:248`), which ends the process.
- Finding devices (libblkid, waiting), directories that are
  created and removed around mounts, loop devices, `chmod`: pure I/O whose only
  effect on the models is that a call may fail.
- Hash collisions; several processes of obhelper at once; editing files of the
  running system other than through obhelper.
- The order in which the disk takes what obinit writes.  Only the update job is
  synced (`ObJobs.c:31`); the models let a power failure fall between any two calls,
  but what a finished call wrote stays, except for the lock and the partial
  configuration files.  A file system without ordered metadata
  could lose more.
- The command line, the wording of logs, `obctl` (a placeholder) and the vendored
  libraries.

## 6. The plan

Done: `ObTransaction`, `ObTaskList`, `ObJobs`, `ObBoot` and `ObSystem`, `ObDurables`,
`ObLayers`, `ObFstab` and `ObOverlay`, each with its proofs; `MountTree` and `ObMounts`;
the pure algorithms of `ObFstabLines`, and `ObYaml` and `ObYamlConfig` with their
proofs.

Next, in this order:

1. Job files that a power failure left cut off while obhelper wrote them, other
   than the empty commit job.
