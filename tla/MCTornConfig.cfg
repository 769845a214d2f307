\* The power fails while the update job is executed.
SPECIFICATION FairSpec
CONSTANTS
  safeA = safeA
  safeB = safeB
  plain = plain
  clear = clear
  off = off
  torn = torn
  base = base
  Empty = Empty
  None = None
  BadLock = BadLock
  Nameless = Nameless
  Parts = 0
  Config = {plain, off, torn}
  Enabled = {plain}
  SafeMode = {}
  Tmpfs = {plain}
  ClearUpper = {}
  RollBack = {}
  Malformed = {torn}
  Torn = {torn}
  Layer = {}
  Faults = {"power"}
  MaxReloads = 2
PROPERTIES
  BootEnds
