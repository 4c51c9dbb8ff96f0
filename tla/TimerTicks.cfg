SPECIFICATION TimerFairSpec
CONSTANTS
  Irqs <- TimerIrqs
  VirtOf <- TimerVirtOf
  m_numLr = 2
  IRQ = IRQ
  spi1 = spi1
  spi2 = spi2
  Frequency = 1
  Intervals = {1}
  TvalRange = 4
  Clients = {client}
  MaxElapsed = 2
PROPERTY
  EachExpiryHandled
