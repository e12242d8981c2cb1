SPECIFICATION GuestSpec
CONSTANTS
  NumCpus = 2
  SgiCount = 1
  SpiBase = 2
  NumIrq = 4
  LowestPriority = 2
  DefaultPriority = 1
  PriorityWrites <- MCPriorityWrites
  RouteWrites <- MCRouteWrites
  Written <- MCWritten
  Forced <- MCWritten
  None = None
  MaxRaise = 6
INVARIANTS GicTypeOK EligibleAnnounced
PROPERTIES SpiPendingKept EventuallyTaken
