SPECIFICATION Spec
CONSTANTS
  DISK_BLOCKS = 11
  MAX_KEYS_LEAF = 3
  MAX_KEYS_INTERNAL = 2
  Recs <- MCRecs
  ValOf <- MCDistinct
  InitialRows <- MCRows
  NewRecs <- MCNewRecs
  InternalOrders <- MCNumeric
  Taken = {0, 2, 3, 5, 6}
INVARIANTS
  TypeOK
  SearchComplete
  NoOrphans
  ParentLinks
  Balanced
  LeavesLinked
  KeysAscend
PROPERTIES
  InsertEnds
