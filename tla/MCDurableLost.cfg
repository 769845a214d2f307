\* A durable file that is in no layer, on both types of upper layer.
SPECIFICATION Spec
CONSTANTS
  Path <- MCPath
  Above <- MCAbove
  File <- MCFile
  Original <- MCOriginal
  Lists <- NewFile
INVARIANTS
  DurablesPersist
