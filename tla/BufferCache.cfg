\* Two frames, a map block and three client blocks.
SPECIFICATION Spec
CONSTANTS
  DISK_BLOCKS = 4
  BLOCK_ALLOCATION_MAP_SIZE = 1
  BUFFER_CAPACITY = 2
  v1 = v1
  v2 = v2
  NoContent = NoContent
  Values <- MCValues
  NewTypes <- MCLeafOnly
  EntryIndex <- MCEntryIndex
  Garbage <- MCGarbageOutside
  MaxStamp = 4
  ReleasedAway = FALSE
SYMMETRY MCSymmetry
INVARIANTS
  TypeOK
  OneLiveFrame
  StaleBehindLive
  CleanMatchesDisk
  FillingDirty
  FlushComplete
PROPERTIES
  ImplementsBlockStore
  WritesBackContent
