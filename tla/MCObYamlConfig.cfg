\* The configuration reader on every document of at most three blocks within each
\* other, in the main file and one file of a directory.  No block and no entry
\* begins after three calls of the callbacks.  The keys are those of a setting
\* that a call puts back and of a setting of a durable, whose path is three keys
\* long.
SPECIFICATION Spec
CONSTANTS
  Key = {"durables", "path", "config_dir"}
  Value = {"true", "false"}
  MaxDepth = 3
  MaxSaid = 3
  MaxFiles = 2
INVARIANTS
  ParserReadsTree
  ConfigAsWritten
