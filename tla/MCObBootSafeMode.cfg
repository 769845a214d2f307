\* The safe mode: locks, reloads, every fault and power failures. No layers
\* are committed, and the scanner accepts every file.
SPECIFICATION FairSpec
CONSTANTS
  safeA = safeA
  safeB = safeB
  plain = plain
  clear = clear
  off = off
  torn = torn
  base = base
  Empty = Empty
  None = None
  BadLock = BadLock
  Nameless = Nameless
  Parts = 1
  Config = {safeA, safeB, plain, off}
  Enabled = {safeA, safeB, plain}
  SafeMode = {safeA, safeB}
  Tmpfs = {safeA, safeB, plain}
  ClearUpper = {}
  RollBack = {safeB}
  Malformed = {}
  Torn = {}
  Layer = {}
  Faults = {"repository", "remount", "config", "load", "device", "lock",
            "mount", "unmount", "power"}
  MaxReloads = 2
INVARIANTS
  TypeOK
  ComposedIsClean
  NoLockBehindSuccess
  SafeModeBlocks
PROPERTIES
  ImplementsSystem
  BootEnds
