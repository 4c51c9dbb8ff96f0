SPECIFICATION Spec
CONSTANTS
  NodeNames <- MCNodeNames
  MAX_DEPTH = 4
  Addresses = {0, 1}
  FindNesting = 3
  CELL = 4
  AddressCells = {0}
  SizeCells = {0, 2}
  Regs <- MCRegs
  Ranges <- MCRanges
  DT_MAX_REGIONS = 2
INVARIANTS
  FlagsMatchPath
PROPERTY
  FoundIsDevice
