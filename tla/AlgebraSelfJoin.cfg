SPECIFICATION Spec
CONSTANTS
  Schemas <- MCSelfSchemas
  Type <- MCType
  RowsOf <- MCSelfRowsOf
  Indexes = {}
  Renames = {}
  Queries <- MCSelfQueries
  SLOTS = 2
  BLOCKS = 6
  Garbage = {9}
  Handed <- MCHanded
  MAX_OPEN = 4
  MAX_RELATIONS = 4
INVARIANTS
  OneByOne
