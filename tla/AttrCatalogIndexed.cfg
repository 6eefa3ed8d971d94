SPECIFICATION Spec
CONSTANTS
  DISK_BLOCKS = 8
  SLOTS = 2
  OwnSlots = 2
  Rel <- MCFourRel
  NumAttrs <- MCFourNumAttrs
  Filled <- MCFourFilled
  Indexed <- MCFourIndexed
  Handed <- MCHanded
  Evicted <- MCEvicted
  Leaves = 2
  Databases <- MCEarlier
INVARIANTS
  CatalogExact
