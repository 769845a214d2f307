\* An update job with the content that the configuration file has already.
\* Nothing fails.
SPECIFICATION Spec
CONSTANTS
  safeA = safeA
  safeB = safeB
  plain = plain
  clear = clear
  off = off
  torn = torn
  base = base
  Empty = Empty
  None = None
  BadLock = BadLock
  Nameless = Nameless
  Parts = 0
  Config = {safeA, off}
  Enabled = {safeA}
  SafeMode = {safeA}
  Tmpfs = {safeA}
  ClearUpper = {}
  RollBack = {}
  Malformed = {}
  Torn = {}
  Layer = {}
  Faults = {}
  MaxReloads = 2
INVARIANTS
  BlockedByEarlierBoot
