------------------------------ MODULE ObTaskList ------------------------------
(***************************************************************************)
(* The task engine of obinit (lib/src/ObTaskList.c) as obExecObInitTasks   *)
(* (lib/src/ObInitTasks.c) drives it: a doubly linked list of tasks is     *)
(* built by appending, walked forwards along `next' by obExecTaskList,     *)
(* walked backwards along `previous' by obCallUndoChain when a task fails  *)
(* or when an error was logged though every task succeeded, and freed from *)
(* its last task backwards.                                                *)
(*                                                                         *)
(* What a task does is left open: it may succeed or fail, and it may log   *)
(* an error whatever it returns.  The error flag is the process-wide one   *)
(* of lib/src/ObLogging.c: it is set by any error, never cleared, and may  *)
(* already be set when the list is built (by an earlier pass of main).     *)
(*                                                                         *)
(* Tasks are numbered in the order in which they are allocated; 0 is C's   *)
(* NULL.                                                                   *)
(***************************************************************************)
EXTENDS Integers

CONSTANT MaxTasks      \* the most tasks the caller appends

ASSUME MaxTasksAssumption == MaxTasks \in Nat

NULL == 0
Task == 1..MaxTasks

VARIABLES
  phase,        \* where obExecObInitTasks is
  appended,     \* history: how many tasks were created and appended
  allocated,    \* the tasks that are malloc'ed and not yet freed
  hasUndo,      \* the tasks whose `undo' is not NULL
  next,         \* the `next' field of each task
  previous,     \* the `previous' field of each task
  first, last,  \* the fields of the list
  task,         \* the cursor of obExecTaskList or of obCallUndoChain
  result,       \* what obExecObInitTasks is going to return
  error,        \* obErrorOccurred()
  executed,     \* history: the tasks whose exec was called
  undone        \* history: the tasks whose undo was called

list == <<appended, allocated, hasUndo, next, previous, first, last>>
vars == <<phase, list, task, result, error, executed, undone>>

Init ==
  /\ phase = "build"
  /\ appended = 0
  /\ allocated = {}
  /\ hasUndo = {}
  /\ next = [t \in Task |-> NULL]
  /\ previous = [t \in Task |-> NULL]
  /\ first = NULL
  /\ last = NULL
  /\ task = NULL
  /\ result = TRUE
  /\ error \in BOOLEAN
  /\ executed = {}
  /\ undone = {}

\* Mutant of LinkBehindLast: the new task points back to the first one.
MutLinkBehindLast(t) ==
  /\ previous' = [previous EXCEPT ![t] = last]
  /\ next' = IF last # NULL THEN [next EXCEPT ![last] = t, ![t] = first] ELSE next
  /\ last' = t
  /\ first' = IF first = NULL THEN t ELSE first

\* The fields obAppendTask writes when it links the new task t behind `last'.
LinkBehindLast(t) ==
  /\ previous' = [previous EXCEPT ![t] = last]
  /\ next' = IF last # NULL THEN [next EXCEPT ![last] = t] ELSE next
  /\ last' = t
  /\ first' = IF first = NULL THEN t ELSE first

\* obCreateTask and obAppendTask.
AppendTask ==
  /\ phase = "build"
  /\ appended < MaxTasks
  /\ appended' = appended + 1
  /\ allocated' = allocated \cup {appended'}
  /\ \/ hasUndo' = hasUndo \cup {appended'}
     \/ UNCHANGED hasUndo
  /\ LinkBehindLast(appended')
  /\ UNCHANGED <<phase, task, result, error, executed, undone>>

\* obExecTaskList is called.
StartExec ==
  /\ phase = "build"
  /\ phase' = "exec"
  /\ task' = first
  /\ UNCHANGED <<list, result, error, executed, undone>>

\* What a task may do to the error flag.
MayLogError == UNCHANGED error \/ error' = TRUE

\* task->exec returns true.
ExecSucceeds ==
  /\ phase = "exec"
  /\ task # NULL
  /\ executed' = executed \cup {task}
  /\ MayLogError
  /\ task' = next[task]
  /\ UNCHANGED <<phase, list, result, undone>>

\* Mutant of ExecFails: the failed task is not undone itself.
MutExecFails ==
  /\ phase = "exec"
  /\ task # NULL
  /\ executed' = executed \cup {task}
  /\ MayLogError
  /\ result' = FALSE
  /\ phase' = "undo"
  /\ task' = previous[task]
  /\ UNCHANGED <<list, undone>>

\* task->exec returns false: the undo chain starts at this very task.
ExecFails ==
  /\ phase = "exec"
  /\ task # NULL
  /\ executed' = executed \cup {task}
  /\ MayLogError
  /\ result' = FALSE
  /\ phase' = "undo"
  /\ UNCHANGED <<list, task, undone>>

\* Mutant of AllSucceeded: the error flag is not looked at.
MutAllSucceeded ==
  /\ phase = "exec"
  /\ task = NULL
  /\ phase' = "free"
  /\ UNCHANGED <<list, task, result, error, executed, undone>>

\* obExecTaskList has returned true and no error was logged.
AllSucceeded ==
  /\ phase = "exec"
  /\ task = NULL
  /\ ~error
  /\ phase' = "free"
  /\ UNCHANGED <<list, task, result, error, executed, undone>>

\* Mutant of ErrorOccurred: the chain starts behind the last task.
MutErrorOccurred ==
  /\ phase = "exec"
  /\ task = NULL
  /\ error
  /\ result' = FALSE
  /\ task' = last + 1
  /\ phase' = "undo"
  /\ UNCHANGED <<list, error, executed, undone>>

\* obExecTaskList has returned true but an error was logged: everything is
\* undone, from the last task of the list.
ErrorOccurred ==
  /\ phase = "exec"
  /\ task = NULL
  /\ error
  /\ result' = FALSE
  /\ task' = last
  /\ phase' = "undo"
  /\ UNCHANGED <<list, error, executed, undone>>

\* Mutant of UndoTask: the chain follows `next'.
MutUndoTask ==
  /\ phase = "undo"
  /\ task # NULL
  /\ IF task \in hasUndo
       THEN undone' = undone \cup {task} /\ MayLogError
       ELSE UNCHANGED <<undone, error>>
  /\ task' = next[task]
  /\ UNCHANGED <<phase, list, result, executed>>

\* One turn of the loop of obCallUndoChain; what undo returns is ignored.
UndoTask ==
  /\ phase = "undo"
  /\ task # NULL
  /\ IF task \in hasUndo
       THEN undone' = undone \cup {task} /\ MayLogError
       ELSE UNCHANGED <<undone, error>>
  /\ task' = previous[task]
  /\ UNCHANGED <<phase, list, result, executed>>

UndoEnds ==
  /\ phase = "undo"
  /\ task = NULL
  /\ phase' = "free"
  /\ UNCHANGED <<list, task, result, error, executed, undone>>

\* Mutant of FreeTask: it is always the first task that is freed.
MutFreeTask ==
  /\ phase = "free"
  /\ last # NULL
  /\ last' = previous[last]
  /\ allocated' = allocated \ {first}
  /\ UNCHANGED <<phase, appended, hasUndo, next, previous, first, task, result,
                 error, executed, undone>>

\* One turn of the loop of obFreeTaskList: the field `previous' is read
\* before the task is freed.
FreeTask ==
  /\ phase = "free"
  /\ last # NULL
  /\ last' = previous[last]
  /\ allocated' = allocated \ {last}
  /\ UNCHANGED <<phase, appended, hasUndo, next, previous, first, task, result,
                 error, executed, undone>>

FreeList ==
  /\ phase = "free"
  /\ last = NULL
  /\ first' = NULL
  /\ phase' = "done"
  /\ UNCHANGED <<appended, allocated, hasUndo, next, previous, last, task, result,
                 error, executed, undone>>

Next ==
  \/ AppendTask \/ StartExec
  \/ ExecSucceeds \/ ExecFails \/ AllSucceeded \/ ErrorOccurred
  \/ UndoTask \/ UndoEnds
  \/ FreeTask \/ FreeList

Spec == Init /\ [][Next]_vars

(***************************************************************************)
(* The engine is sequential code in one thread, and the number of tasks is *)
(* finite: once obExecObInitTasks has been entered it runs to its end,     *)
(* provided that every task function returns.                              *)
(***************************************************************************)
Fairness == WF_vars(Next)
FairSpec == Spec /\ Fairness

------------------------------------------------------------------------------

TypeOK ==
  /\ phase \in {"build", "exec", "undo", "free", "done"}
  /\ appended \in 0..MaxTasks
  /\ allocated \subseteq Task
  /\ hasUndo \subseteq Task
  /\ next \in [Task -> Task \cup {NULL}]
  /\ previous \in [Task -> Task \cup {NULL}]
  /\ first \in Task \cup {NULL}
  /\ last \in Task \cup {NULL}
  /\ task \in Task \cup {NULL}
  /\ result \in BOOLEAN
  /\ error \in BOOLEAN
  /\ executed \subseteq Task
  /\ undone \subseteq Task

\* The walk is over: obExecObInitTasks is about to free the list and return.
Finished == phase \in {"free", "done"}

\* When obExecObInitTasks returns false, exactly the tasks that were started
\* and have an undo were undone, the failed one included
\* (ObTaskList.c:86-88, ObInitTasks.c:91-95).
RollbackIsComplete ==
  Finished /\ ~result => undone = executed \cap hasUndo

\* When it returns true, every appended task ran, none was undone and no error
\* was logged, neither by a task of this list nor before it.
SuccessIsClean ==
  Finished /\ result => /\ ~error
                        /\ undone = {}
                        /\ executed = 1..appended

\* Memory: the cursor and the ends of the list point to live tasks whenever
\* they are dereferenced, and obFreeTaskList frees every task.
NoDanglingPointer ==
  /\ phase \in {"exec", "undo"} => task \in allocated \cup {NULL}
  /\ last \in allocated \cup {NULL}
  /\ phase = "done" => allocated = {}

\* Undo functions are called latest task first, and no task is undone twice:
\* when one is undone, every task behind it that ran has been undone.
UndoLatestFirst ==
  [][\A t \in undone' \ undone :
        /\ t \in executed
        /\ \A u \in executed \cap hasUndo : u > t <=> u \in undone]_vars

\* The engine always comes to its end and frees the list.
Terminates == <>(phase = "done")

------------------------------------------------------------------------------
(***************************************************************************)
(* The list implements a transaction.                                      *)
(***************************************************************************)
transactionStatus ==
  CASE phase = "build" -> "open"
    [] phase = "exec"  -> "running"
    [] phase = "undo"  -> "compensating"
    [] Finished        -> IF result THEN "committed" ELSE "aborted"

Transaction == INSTANCE ObTransaction WITH
  status      <- transactionStatus,
  size        <- appended,
  compensable <- hasUndo,
  started     <- executed,
  compensated <- undone

\* The pointer walks of the C code do what the abstract transaction does.
ImplementsTransaction == Transaction!Spec
==============================================================================
