SPECIFICATION FairSpec
CONSTANTS
  PAGE_SIZE = 2
  MAX_ORDER = 2
  BlockSize <- MCBlockSize
  MAX_POOL_SIZE = 32
  Kernel <- MCKernel
  Maps <- AnyMaps
INVARIANTS
  NoOverlap
  BuddyAligned
  NoLeak
  BitmapInBounds
  ServesFreeMemory
  BitmapSound
PROPERTIES
  KeepsPromise
  OperationsEnd
CHECK_DEADLOCK FALSE
