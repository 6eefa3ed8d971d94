SPECIFICATION Spec
CONSTANTS
  DISK_BLOCKS = 11
  MAX_KEYS_LEAF = 3
  MAX_KEYS_INTERNAL = 2
  Recs <- MCRecs
  ValOf <- MCDistinct
  InitialRows <- MCRows
  NewRecs <- MCNewRecs
  InternalOrders <- MCStrings
  Taken = {0}
INVARIANTS
  KeysAscend
