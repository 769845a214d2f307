\* Two layers in every graph, all jobs, all failures, no limit on the boots.
SPECIFICATION Spec
CONSTANTS
  Layer <- MCLayer
  CountMod = 3
  StackDepth = 4
  Text <- MCText
  Original = "original"
  Faults = {"load", "write", "repository", "prepare", "mount", "mtab", "open", "late", "power"}
  MaxReloads = 1
  Config <- MCConfig
  Lines <- MCLines
  Leftovers <- MCLeftovers
  MtabEntries <- MCMtabEntries
INVARIANTS
  TypeOK
  ColumnsFound
  RootEntryRewritten
  ChainMounted
  CrashOnlyOnCycle
  FstabFits
  FstabRolledBack
  FstabEditKept
PROPERTIES
  CommitPointsToHead
  BootEnds
