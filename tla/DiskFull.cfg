\* Two client blocks, both soon taken.
SPECIFICATION Spec
CONSTANTS
  DISK_BLOCKS = 3
  BLOCK_ALLOCATION_MAP_SIZE = 1
  BUFFER_CAPACITY = 2
  v1 = v1
  v2 = v2
  NoContent = NoContent
  Values <- MCValues
  NewTypes <- MCRecOnly
  EntryIndex = {}
  Garbage <- MCGarbageAny
  MaxStamp = 4
  ReleasedAway = FALSE
PROPERTY DiskFullReported
