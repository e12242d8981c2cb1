SPECIFICATION DriverSpec
CONSTANTS
  NumCpus = 1
  SgiCount = 0
  SpiBase = 0
  NumIrq = 1
  LowestPriority = 2
  DefaultPriority = 1
  PriorityWrites = {}
  RouteWrites = {}
  Written = {}
  Forced = {}
  UartIrq = 0
  Depth = 2
  Byte = {a, b}
  MaxPut = 4
INVARIANTS Pl011TypeOK FifoIntact AssertedIsDelivered ByteInterrupts
PROPERTY BytesAreRead
