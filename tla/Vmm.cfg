SPECIFICATION FairSpec
CONSTANTS
  Events <- MCEvents
  X0Values <- MCX0Values
  X1Values <- MCX1Values
  MaxGen = 2
  MaxPc = 3
  Vmid = 1
INVARIANTS
  ExitDescribes
  StopsForAReason
PROPERTIES
  GuestRestored
  HostRestored
  CallsAnswered
  PowerOffHonoured
CHECK_DEADLOCK FALSE
