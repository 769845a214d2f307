\* Commit jobs beside update jobs, with an upper layer that is kept, cleared
\* or in the RAM, and files that are cut off. The safe mode is off.
SPECIFICATION Spec
CONSTANTS
  safeA = safeA
  safeB = safeB
  plain = plain
  clear = clear
  off = off
  torn = torn
  base = base
  Empty = Empty
  None = None
  BadLock = BadLock
  Nameless = Nameless
  Parts = 2
  Config = {plain, clear, safeA, off, torn}
  Enabled = {plain, clear, safeA}
  SafeMode = {}
  Tmpfs = {safeA}
  ClearUpper = {clear}
  RollBack = {}
  Malformed = {torn}
  Torn = {torn}
  Layer = {base}
  Faults = {"repository", "remount", "config", "read",
            "mount", "unmount", "power"}
  MaxReloads = 2
INVARIANTS
  PromisedWorkSurvives
  NoPartCutOff
PROPERTIES
  CommitJobIsDone
  UpdateJobIsDone
