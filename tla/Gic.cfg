SPECIFICATION TimerSpec
CONSTANTS
  Irqs <- MCIrqs
  VirtOf <- MCVirtOf
  m_numLr = 2
  IRQ = IRQ
  spi1 = spi1
  spi2 = spi2
  Frequency = 1
  Intervals = {3}
  TvalRange = 4
  Clients = {client1, client2}
  MaxElapsed = 1
INVARIANTS
  NoDuplicate
  LiveIsActive
  ActiveAccounted
  CallbackGetsItsContext
SYMMETRY Alike
