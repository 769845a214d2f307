\* Lists of at most three durables, nested or not, on both types of upper layer,
\* with every failure and with power failures between any two steps.
SPECIFICATION Spec
CONSTANTS
  Path <- MCPath
  Above <- MCAbove
  File <- MCFile
  Original <- MCOriginal
  Lists <- MCLists
INVARIANTS
  TypeOK
  UserIsObeyed
  NoCopyOntoItself
  AlwaysBindable
  CopiedWhole
