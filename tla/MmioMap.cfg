SPECIFICATION HostSpec
CONSTANTS
  PageSize = 2
  BlockSize = 4
  MMIO_MAX_WINDOWS = 3
  Devices <- MCDevices
  Expected <- MCExpected
  BringUpIpa = 10
  BspUart = 0
  HV_VA_SIZE = 8
  TableSpan = 2
  LastBlock = 5
  ClientRanges <- MCClientRanges
  ClientPas = {4}
INVARIANTS
  MapExact
  NoStaleTranslation
PROPERTY
  SelfMapSound
