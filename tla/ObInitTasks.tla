----------------------------- MODULE ObInitTasks -----------------------------
(***************************************************************************)
(* The task list of a pass of obinit (lib/src/ObInitTasks.c): the names of *)
(* its tasks in the order in which createObInitTaskList appends them.      *)
(***************************************************************************)
EXTENDS Integers, Sequences

\* Mutant of Tasks: the durables are bound before the overlay is mounted.
MutTasks == <<"InitPersistentDevice", "InitLock", "ExecPreInitJobs",
              "InitOverbootDir", "InitLowerRoot", "InitDurables",
              "InitOverlayfs", "InitManagementBindings", "InitFstab",
              "checkRollback", "UnsetLock">>

\* The order of the calls to obAddTask.
Tasks == <<"InitPersistentDevice", "InitLock", "ExecPreInitJobs",
           "InitOverbootDir", "InitLowerRoot", "InitOverlayfs",
           "InitManagementBindings", "InitFstab", "InitDurables",
           "checkRollback", "UnsetLock">>

\* The tasks that are created with NULL as their undo function.
WithoutUndo == {"InitLock", "ExecPreInitJobs", "checkRollback", "UnsetLock"}
==============================================================================
