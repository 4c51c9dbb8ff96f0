SPECIFICATION FairSpec
CONSTANTS
  Events <- MCEvents
  X0Values <- MCX0Values
  X1Values <- MCX1Values
  MaxGen = 1
  MaxPc = 2
  Vmid = 1
PROPERTIES
  GuestFpRestored
CHECK_DEADLOCK FALSE
