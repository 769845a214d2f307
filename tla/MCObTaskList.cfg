SPECIFICATION FairSpec
CONSTANT MaxTasks = 5
INVARIANTS
  TypeOK
  RollbackIsComplete
  SuccessIsClean
  NoDanglingPointer
PROPERTIES
  UndoLatestFirst
  Terminates
  ImplementsTransaction
CHECK_DEADLOCK FALSE
