SPECIFICATION Spec
CONSTANTS
  NumCpus = 1
  SgiCount = 0
  SpiBase = 0
  NumIrq = 1
  LowestPriority = 2
  DefaultPriority = 1
  PriorityWrites = {}
  RouteWrites = {}
  Written = {}
  Forced = {}
  NumQueues = 1
  MaxSize = 2
  IndexLimit = 4
  VirtioIrq = 0
  Value = {0, 1}
  ReadOnly = FALSE
  Sizes = {1, 2}
  Requests <- MCRequests
CHECK_DEADLOCK FALSE
INVARIANTS CompletionSignalled ReadsAreCurrent 
PROPERTIES ImplementsFifo RequestsReturn
