\* Every type of repository, both types of upper layer, nested durables in
\* either order, and every failure. A composed system is the end.
SPECIFICATION Spec
CONSTANTS
  Contexts <- MCContexts
  InitialMounts <- MCInitialMounts
  Paths <- MCPaths
INVARIANTS
  TypeOK
  RollbackRestores
  RootNeverLost
  Layout
  LowerRootProtected
  DurablesVisible
CHECK_DEADLOCK FALSE
