\* An error that is only logged: everything is rolled back, but the lock is
\* gone.
SPECIFICATION Spec
CONSTANTS
  safeA = safeA
  safeB = safeB
  plain = plain
  clear = clear
  off = off
  torn = torn
  base = base
  Empty = Empty
  None = None
  BadLock = BadLock
  Nameless = Nameless
  Parts = 0
  Config = {safeA, off}
  Enabled = {safeA}
  SafeMode = {safeA}
  Tmpfs = {safeA}
  ClearUpper = {}
  RollBack = {}
  Malformed = {}
  Torn = {}
  Layer = {}
  Faults = {"remount"}
  MaxReloads = 2
INVARIANTS
  FailedBootIsBlocked
