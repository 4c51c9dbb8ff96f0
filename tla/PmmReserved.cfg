SPECIFICATION Spec
CONSTANTS
  PAGE_SIZE = 2
  MAX_ORDER = 2
  BlockSize <- MCBlockSize
  MAX_POOL_SIZE = 32
  Kernel <- InnerKernel
  Maps <- InnerKernelMap
INVARIANT
  ReservedNeverHandedOut
