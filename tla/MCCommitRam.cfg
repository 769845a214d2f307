\* Files written to the persistent upper layer are to be committed while the
\* upper layer is in the RAM (safeA). Nothing fails.
SPECIFICATION FairBoots
CONSTANTS
  safeA = safeA
  safeB = safeB
  plain = plain
  clear = clear
  off = off
  torn = torn
  base = base
  Empty = Empty
  None = None
  BadLock = BadLock
  Nameless = Nameless
  Parts = 0
  Config = {plain, safeA}
  Enabled = {plain, safeA}
  SafeMode = {}
  Tmpfs = {safeA}
  ClearUpper = {}
  RollBack = {}
  Malformed = {}
  Torn = {}
  Layer = {base}
  Faults = {}
  MaxReloads = 2
PROPERTIES
  CommitIsExecuted
