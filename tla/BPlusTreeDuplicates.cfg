SPECIFICATION Spec
CONSTANTS
  DISK_BLOCKS = 11
  MAX_KEYS_LEAF = 3
  MAX_KEYS_INTERNAL = 2
  Recs <- MCFewRecs
  ValOf <- MCDuplicate
  InitialRows <- MCNone
  NewRecs <- MCFewRecs
  InternalOrders <- MCFiveSeven
  Taken = {0}
INVARIANTS
  SearchComplete
