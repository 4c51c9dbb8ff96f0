SPECIFICATION Spec
CONSTANTS
  L1 = 4
  L2 = 2
  L3 = 2
  HostPages <- MCHostPages
  Ram <- MCRam
  WindowLists <- MCWindowLists
  LiveOps <- MCLiveOps
  WalkedPages = {0, 2, 3, 5, 10, 11, 12, 13}
  MaxTables = 6
INVARIANTS
  Confined
  GuestSeesTables
  NoTlbConflict
PROPERTY
  KeepsPromise
CHECK_DEADLOCK FALSE
