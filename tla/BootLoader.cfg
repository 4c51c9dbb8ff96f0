SPECIFICATION Spec
CONSTANTS
  HEADER = 3
  ALIGN = 2
  Archives <- MCArchives
  GUEST_IPA_BASE = 4
  GUEST_RAM_SIZE = 16
  KERNEL_LOAD_IPA = 8
  ALIGN_2MB = 4
  ALIGN_64K = 2
  U64 = 32
  Sizes <- MCSizes
  NodeNames <- MCNodeNames
  MaxDepth = 4
INVARIANTS
  LayoutSound
  RejectsOnlyMisfits
  PatchesOnlyPlaceholders
  GuestReady
  AcceptsWellFormed
PROPERTIES
  ReadsExactly
