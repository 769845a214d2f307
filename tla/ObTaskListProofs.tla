--------------------------- MODULE ObTaskListProofs ---------------------------
(***************************************************************************)
(* What holds of the task engine for every number of tasks.                *)
(*                                                                         *)
(* The properties of ObTaskList speak of the tasks that ran and of those   *)
(* that were undone; the code only has pointers.  The inductive invariant  *)
(* therefore says what the pointers are (ListShape: the list is the tasks  *)
(* 1..appended in order, shrinking from its end while it is freed) and     *)
(* where the two walks stand (WalkState: the tasks that ran are those      *)
(* before the cursor, the tasks undone are those behind it).               *)
(***************************************************************************)
EXTENDS ObTaskList, TLAPS

\* The pointers, for as long as the tasks they are fields of are live.
ListShape ==
  /\ \A t \in Task : t <= appended => previous[t] = t - 1
  /\ \A t \in Task : next[t] = IF t < appended THEN t + 1 ELSE NULL
  /\ \A t \in hasUndo : t <= appended
  /\ ~Finished => last = appended
  /\ last <= appended
  /\ \A t \in Task : t \in allocated <=> t <= last
  /\ phase # "done" => first = IF appended = 0 THEN NULL ELSE 1
  /\ phase = "done" => last = NULL

\* The tasks that ran are a prefix of the list.
ExecutedInOrder ==
  /\ \A t \in executed : t <= appended
  /\ \A t \in executed : \A u \in Task : u <= t => u \in executed

\* Where the walk along `next', or the walk along `previous', stands.
WalkState ==
  /\ phase = "build" => task = NULL /\ result /\ executed = {} /\ undone = {}
  /\ phase = "exec" =>
       /\ result /\ undone = {} /\ task <= appended
       /\ \A t \in Task : t \in executed <=>
            t <= appended /\ (task = NULL \/ t < task)
  /\ phase = "undo" =>
       /\ ~result
       /\ task = NULL \/ task \in executed
       /\ \A t \in Task : t \in undone <=> t \in executed /\ t \in hasUndo /\ t > task
  /\ Finished /\ result =>
       /\ ~error /\ undone = {}
       /\ \A t \in Task : t \in executed <=> t <= appended
  /\ Finished /\ ~result =>
       \A t \in Task : t \in undone <=> t \in executed /\ t \in hasUndo

IInv == TypeOK /\ ListShape /\ ExecutedInOrder /\ WalkState

------------------------------------------------------------------------------

\* The initial state, whatever the error flag is, satisfies the invariant.
LEMMA InitInv == Init => IInv
  BY MaxTasksAssumption, SMT
  DEF Init, IInv, TypeOK, ListShape, ExecutedInOrder, WalkState, Finished, Task, NULL

\* Every step of the engine preserves the invariant.
LEMMA NextInv == IInv /\ [Next]_vars => IInv'
<1> SUFFICES ASSUME IInv, [Next]_vars PROVE IInv'
  OBVIOUS
<1> USE MaxTasksAssumption DEF Task, NULL
<1> USE DEF IInv, TypeOK
<1>1. CASE AppendTask
  <2> DEFINE t == appended + 1
  <2>0. t \in Task /\ appended' = t
    BY <1>1, SMT DEF AppendTask
  <2>1. TypeOK'
    <3>1. next' \in [Task -> Task \cup {NULL}]
      BY <1>1, <2>0 DEF AppendTask, LinkBehindLast
    <3>2. previous' \in [Task -> Task \cup {NULL}]
      BY <1>1, <2>0 DEF AppendTask, LinkBehindLast
    <3>3. allocated' \subseteq Task /\ hasUndo' \subseteq Task
      BY <1>1, <2>0 DEF AppendTask
    <3>4. first' \in Task \cup {NULL} /\ last' \in Task \cup {NULL}
      BY <1>1, <2>0 DEF AppendTask, LinkBehindLast
    <3> QED BY <1>1, <2>0, <3>1, <3>2, <3>3, <3>4 DEF AppendTask
  <2>2. ListShape'
    <3>1. phase' = "build" /\ last = appended /\ last' = t
      BY <1>1, <2>0 DEF AppendTask, LinkBehindLast, ListShape, Finished
    <3>2. \A u \in Task : u <= appended' => previous'[u] = u - 1
      BY <1>1, <2>0, <3>1, SMT DEF AppendTask, LinkBehindLast, ListShape
    <3>3. \A u \in Task : next'[u] = IF u < appended' THEN u + 1 ELSE NULL
      BY <1>1, <2>0, <3>1, SMT DEF AppendTask, LinkBehindLast, ListShape
    <3>4. \A u \in hasUndo' : u <= appended'
      <4>1. hasUndo' \subseteq hasUndo \cup {t}
        BY <1>1, <2>0 DEF AppendTask
      <4>2. \A u \in hasUndo : u \in Task /\ u <= appended
        BY DEF ListShape
      <4> QED BY <2>0, <4>1, <4>2, SMT
    <3>5. \A u \in Task : u \in allocated' <=> u <= last'
      BY <1>1, <2>0, <3>1, SMT DEF AppendTask, ListShape
    <3>6. first' = IF appended' = 0 THEN NULL ELSE 1
      BY <1>1, <2>0, <3>1, SMT DEF AppendTask, LinkBehindLast, ListShape
    <3> QED BY <2>0, <3>1, <3>2, <3>3, <3>4, <3>5, <3>6 DEF ListShape, Finished
  <2>3. ExecutedInOrder' /\ WalkState'
    BY <1>1, SMT DEF AppendTask, ExecutedInOrder, WalkState, Finished
  <2> QED BY <2>1, <2>2, <2>3
<1>2. CASE StartExec
  <2>1. TypeOK' /\ ListShape' /\ ExecutedInOrder'
    BY <1>2, SMT DEF StartExec, list, ListShape, ExecutedInOrder, Finished
  <2>2. WalkState'
    BY <1>2, SMT DEF StartExec, list, ListShape, WalkState, Finished
  <2> QED BY <2>1, <2>2
<1>3. CASE ExecSucceeds
  <2>1. TypeOK'
    BY <1>3 DEF ExecSucceeds, MayLogError, list
  <2>3. ListShape'
    BY <1>3, SMT DEF ExecSucceeds, list, ListShape, Finished
  <2>2. ExecutedInOrder' /\ WalkState'
    BY <1>3, SMTT(60) DEF ExecSucceeds, MayLogError, list, ListShape, ExecutedInOrder, WalkState, Finished
  <2> QED BY <2>1, <2>2, <2>3
<1>4. CASE ExecFails
  <2>1. TypeOK'
    BY <1>4 DEF ExecFails, MayLogError, list
  <2>3. ListShape'
    BY <1>4, SMT DEF ExecFails, list, ListShape, Finished
  <2>2. ExecutedInOrder' /\ WalkState'
    BY <1>4, SMT DEF ExecFails, MayLogError, list, ExecutedInOrder, WalkState, Finished
  <2> QED BY <2>1, <2>2, <2>3
<1>5. CASE AllSucceeded
  BY <1>5, SMT DEF AllSucceeded, list, ListShape, ExecutedInOrder, WalkState, Finished
<1>6. CASE ErrorOccurred
  <2>1. TypeOK' 
    <3>1. last \in Task \cup {NULL}
      OBVIOUS
    <3> QED BY <1>6, <3>1 DEF ErrorOccurred, list
  <2>2. ListShape' /\ ExecutedInOrder'
    BY <1>6, SMT DEF ErrorOccurred, list, ListShape, ExecutedInOrder, Finished
  <2>3. WalkState'
    BY <1>6, SMT DEF ErrorOccurred, list, ListShape, WalkState, Finished
  <2> QED BY <2>1, <2>2, <2>3
<1>7. CASE UndoTask
  <2>1. TypeOK'
    BY <1>7 DEF UndoTask, MayLogError, list
  <2>3. ListShape' /\ ExecutedInOrder'
    BY <1>7, SMT DEF UndoTask, list, ListShape, ExecutedInOrder, Finished
  <2>2. WalkState'
    BY <1>7, SMT DEF UndoTask, list, ListShape, ExecutedInOrder, WalkState, Finished
  <2> QED BY <2>1, <2>2, <2>3
<1>8. CASE UndoEnds
  BY <1>8, SMT DEF UndoEnds, list, ListShape, ExecutedInOrder, WalkState, Finished
<1>9. CASE FreeTask
  BY <1>9, SMT DEF FreeTask, ListShape, ExecutedInOrder, WalkState, Finished
<1>10. CASE FreeList
  BY <1>10, SMT DEF FreeList, ListShape, ExecutedInOrder, WalkState, Finished
<1>11. CASE UNCHANGED vars
  BY <1>11, SMT DEF vars, list, ListShape, ExecutedInOrder, WalkState, Finished
<1> QED
  BY <1>1, <1>2, <1>3, <1>4, <1>5, <1>6, <1>7, <1>8, <1>9, <1>10, <1>11 DEF Next

\* The pointers always form the list of the appended tasks and the walks are
\* where WalkState says: the invariant the theorems below rest on.
THEOREM Invariance == Spec => []IInv
  BY InitInv, NextInv, PTL DEF Spec

\* Every variable keeps its type, whatever number of tasks is appended.
THEOREM TypeCorrect == Spec => []TypeOK
<1>1. IInv => TypeOK
  BY DEF IInv
<1> QED BY <1>1, Invariance, PTL

------------------------------------------------------------------------------

\* A rollback undoes exactly the tasks that were started and can be undone,
\* the failed one included.
THEOREM RollbackCompleteness == Spec => []RollbackIsComplete
<1>1. IInv => RollbackIsComplete
  <2> SUFFICES ASSUME IInv, Finished, ~result
               PROVE  undone = executed \cap hasUndo
    BY DEF RollbackIsComplete
  <2>1. undone \subseteq Task /\ executed \subseteq Task
    BY DEF IInv, TypeOK
  <2>2. \A t \in Task : t \in undone <=> t \in executed /\ t \in hasUndo
    BY DEF IInv, WalkState
  <2> QED BY <2>1, <2>2
<1> QED BY <1>1, Invariance, PTL

\* Success means that every task ran, that none was undone and that no error
\* was ever logged.
THEOREM SuccessCleanness == Spec => []SuccessIsClean
<1>1. IInv => SuccessIsClean
  <2> SUFFICES ASSUME IInv, Finished, result
               PROVE  ~error /\ undone = {} /\ executed = 1..appended
    BY DEF SuccessIsClean
  <2>1. ~error /\ undone = {} /\ \A t \in Task : t \in executed <=> t <= appended
    BY DEF IInv, WalkState
  <2>2. executed \subseteq 1..MaxTasks /\ appended \in 0..MaxTasks
    BY DEF IInv, TypeOK, Task
  <2>3. \A t : t \in executed <=> t \in 1..appended
    <3>1. \A t \in 1..appended : t \in Task
      BY <2>2, MaxTasksAssumption, SMT DEF Task
    <3>2. \A t \in executed : t \in Task /\ t \in 1..appended
      BY <2>1, <2>2, MaxTasksAssumption, SMT DEF Task
    <3>3. \A t \in 1..appended : t \in executed
      BY <2>1, <2>2, <3>1, MaxTasksAssumption, SMT
    <3> QED BY <3>2, <3>3
  <2> QED BY <2>1, <2>3
<1> QED BY <1>1, Invariance, PTL

\* No freed task is reached through the cursor or through the ends of the
\* list, and nothing is leaked.
THEOREM PointerSafety == Spec => []NoDanglingPointer
<1>1. IInv => NoDanglingPointer
  BY MaxTasksAssumption, SMT
  DEF IInv, TypeOK, ListShape, ExecutedInOrder, WalkState, NoDanglingPointer, Finished, Task, NULL
<1> QED BY <1>1, Invariance, PTL

------------------------------------------------------------------------------

\* Undo functions are called latest task first, and none is called twice.
THEOREM UndoOrder == Spec => UndoLatestFirst
<1> DEFINE InOrder == \A t \in undone' \ undone :
                         /\ t \in executed
                         /\ \A u \in executed \cap hasUndo : u > t <=> u \in undone
<1>1. IInv /\ [Next]_vars => [InOrder]_vars
  <2> SUFFICES ASSUME IInv, Next PROVE InOrder
    BY DEF vars
  <2>1. CASE UndoTask
    <3>1. \A t \in undone' \ undone : t = task /\ task \in executed
      BY <2>1, SMT DEF UndoTask, IInv, WalkState, NULL
    <3>2. \A u \in executed \cap hasUndo : u > task <=> u \in undone
      BY <2>1, SMT DEF UndoTask, IInv, TypeOK, WalkState
    <3> QED BY <3>1, <3>2
  <2>2. CASE ~UndoTask
    <3>1. UNCHANGED undone
      BY <2>2 DEF Next, AppendTask, StartExec, ExecSucceeds, ExecFails, AllSucceeded,
                  ErrorOccurred, UndoEnds, FreeTask, FreeList, list
    <3> QED BY <3>1
  <2> QED BY <2>1, <2>2
<1> QED BY <1>1, Invariance, PTL DEF Spec, UndoLatestFirst

------------------------------------------------------------------------------

\* The step of the transaction that each step of the engine is.
LEMMA StepImplements == IInv /\ IInv' /\ [Next]_vars => [Transaction!Next]_(Transaction!vars)
<1> SUFFICES ASSUME IInv, IInv', [Next]_vars
             PROVE  [Transaction!Next]_(Transaction!vars)
  OBVIOUS
<1> USE MaxTasksAssumption DEF Task, NULL, IInv, TypeOK
<1> USE DEF transactionStatus, Finished, Transaction!vars
<1>1. CASE AppendTask
  <2>1. Transaction!Add
    BY <1>1 DEF AppendTask, Transaction!Add
  <2> QED BY <2>1 DEF Transaction!Next
<1>2. CASE StartExec
  <2>1. Transaction!Begin
    BY <1>2 DEF StartExec, list, Transaction!Begin
  <2> QED BY <2>1 DEF Transaction!Next
<1>3. ASSUME phase = "exec", task # NULL PROVE Transaction!IsNext(task)
  BY <1>3, SMT DEF WalkState, Transaction!IsNext
<1>4. ASSUME phase = "exec", task = NULL PROVE Transaction!AllStarted
  <2>1. \A t \in Task : t \in executed <=> t <= appended
    BY <1>4, SMT DEF WalkState
  <2>2. \A t \in 1..appended : t \in executed
    BY <2>1, SMT
  <2>3. \A t \in executed : t \in 1..appended
    BY <2>1, SMT
  <2> QED BY <2>2, <2>3 DEF Transaction!AllStarted
<1>5. CASE ExecSucceeds
  <2>1. task \in 1..appended
    BY <1>5, SMT DEF ExecSucceeds, WalkState
  <2>2. Transaction!Advance
    BY <1>3, <1>5, <2>1 DEF ExecSucceeds, list, Transaction!Advance
  <2> QED BY <2>2 DEF Transaction!Next
<1>6. CASE ExecFails
  <2>1. task \in 1..appended
    BY <1>6, SMT DEF ExecFails, WalkState
  <2>2. Transaction!FailStep
    BY <1>3, <1>6, <2>1 DEF ExecFails, list, Transaction!FailStep
  <2> QED BY <2>2 DEF Transaction!Next
<1>7. CASE AllSucceeded
  <2>1. Transaction!Commit
    BY <1>4, <1>7 DEF AllSucceeded, list, WalkState, Transaction!Commit
  <2> QED BY <2>1 DEF Transaction!Next
<1>8. CASE ErrorOccurred
  <2>1. Transaction!Abandon
    BY <1>4, <1>8 DEF ErrorOccurred, list, Transaction!Abandon
  <2> QED BY <2>1 DEF Transaction!Next
<1>9. CASE UndoTask /\ task \in hasUndo
  <2>1. task \in Transaction!Owed
    BY <1>9, SMT DEF UndoTask, WalkState, Transaction!Owed
  <2>2. \A j \in Transaction!Owed : j <= task
    BY <1>9, SMT DEF UndoTask, WalkState, Transaction!Owed
  <2>3. Transaction!Compensate
    BY <1>9, <2>1, <2>2 DEF UndoTask, list, Transaction!Compensate
  <2> QED BY <2>3 DEF Transaction!Next
<1>10. CASE UndoTask /\ task \notin hasUndo
  BY <1>10 DEF UndoTask, list
<1>11. CASE UndoEnds
  <2>1. Transaction!Owed = {}
    <3>1. \A t \in executed \cap hasUndo : t > task
      BY <1>11, SMT DEF UndoEnds
    <3> QED BY <1>11, <3>1 DEF UndoEnds, WalkState, Transaction!Owed
  <2>2. Transaction!Abort
    BY <1>11, <2>1 DEF UndoEnds, list, WalkState, Transaction!Abort
  <2> QED BY <2>2 DEF Transaction!Next
<1>12. CASE FreeTask
  BY <1>12 DEF FreeTask
<1>13. CASE FreeList
  BY <1>13 DEF FreeList
<1>14. CASE UNCHANGED vars
  BY <1>14 DEF vars, list
<1> QED
  BY <1>1, <1>2, <1>5, <1>6, <1>7, <1>8, <1>9, <1>10, <1>11, <1>12, <1>13, <1>14 DEF Next

\* The doubly linked list and its two walks implement the transaction: what a
\* caller of the engine may rely on.
THEOREM Implementation == Spec => ImplementsTransaction
<1>1. Init => Transaction!Init
  BY DEF Init, Transaction!Init, transactionStatus, Finished
<1>2. IInv /\ IInv' /\ [Next]_vars => [Transaction!Next]_(Transaction!vars)
  BY StepImplements
<1> QED BY <1>1, <1>2, Invariance, PTL DEF Spec, ImplementsTransaction, Transaction!Spec
==============================================================================
