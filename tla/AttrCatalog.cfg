SPECIFICATION Spec
CONSTANTS
  DISK_BLOCKS = 4
  SLOTS = 2
  OwnSlots = 2
  Rel <- MCRel
  NumAttrs <- MCNumAttrs
  Filled <- MCFilled
  Indexed <- MCIndexed
  Handed <- MCHanded
  Evicted <- MCEvicted
  Leaves = 1
  Databases <- MCDatabases
INVARIANTS
  TypeOK
  CatalogExact
  ListLinked
  NoLeak
  SearchBlockPresent
