SPECIFICATION Spec
CONSTANTS
  Schemas <- MCSchemas
  Type <- MCType
  RowsOf <- MCRowsOf
  Indexes <- MCIndexes
  Renames <- MCRenames
  Queries <- MCQueries
  SLOTS = 1
  BLOCKS = 5
  Garbage = {9}
  Handed <- MCHanded
  MAX_OPEN = 4
  MAX_RELATIONS = 5
INVARIANTS
  UnknownRefused
