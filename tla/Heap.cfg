SPECIFICATION Spec
CONSTANTS
  PAGE_SIZE = 16
  MAX_ORDER = 2
  BlockSize <- MCBlockSize
  PoolBase = 64
  PoolPages = 4
  SLAB_CLASSES <- MCClasses
  SIZE_MOD = 65536
  Sizes <- MCSizes
  Aligns <- MCAligns
  Foreign <- NoForeign
  MaxLive = 3
INVARIANTS
  Fits
  NoOverlap
  SlotsConserved
  NoPanic
  OwnedExactly
PROPERTY
  FailsOnlyWhenExhausted
