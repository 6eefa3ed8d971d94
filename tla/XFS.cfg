SPECIFICATION MCSpec
CONSTANTS
  Rel = {"R", "S", "T"}
  Temp = "temp"
  Attr = {"a", "b", "c", "d"}
  Val = {1, 2, 3}
  Free = Free
  Bad = Bad
  Lost = Lost
  Absent = Absent
  LastBlock = 16
  RelSlots = 5
  AttrSlots = 3
  CatAttrs = 1
  RecSlots <- MCRecSlots
  MAX_KEYS_LEAF = 3
  MAX_KEYS_INTERNAL = 2
  MAX_OPEN = 5
  MaxRecs = 8
  MaxCommands = 5
  Lists <- MCLists
  Rows <- MCRows
  Files <- MCFiles
  Conds <- MCConds
  Joins <- MCJoins
  Created <- MCCreated
  Targets <- MCTargets
  Indexed <- MCIndexed
  Renamed <- MCRenamed
INVARIANTS
  TypeOK
  CatalogsAgree
  BlocksAccounted
  SearchesAgree
  OpenExist
PROPERTIES
  ImplementsStore
