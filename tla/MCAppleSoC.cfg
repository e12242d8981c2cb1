SPECIFICATION SoCSpec
CONSTANTS
  NumCpus = 2
  NumIrq = 3
  IrqBase = 0
  NumIpi = 1
  GroupIrqs = 3
  None = None
  CtrlValues <- MCCtrlValues
  IpiMasks <- MCIpiMasks
  MaskWrites <- MCMaskWrites
  UartIrq = 1
  RxFifoSize = 2
  Byte = {b}
  SepIrq = 2
  NoReply = NoReply
  Millisecond = 3
  Microsecond = 2
  CountLimit = 3
  LoadValues = {1, 2}
  Deadlines = {1, 3}
  Never = Never
  FirstInstant = 1
  LastInstant = 13
  Requests = {"boot"}
  Workloads = {"polling", "signalled", "watchdog", "timer", "any"}
  MaxIpis = 1
  MaxSettings = 2
  MaxBytes = 3
  MaxRequests = 1
INVARIANTS
  ActiveIsHeld
  TypeOK
  PendingIsLatched
  LatchIsDeliverable
  LatchWasSignalled
  ClocksDrift
PROPERTIES
  PendingOnlyTaken
  EventuallyTaken
  DevicesServed
CHECK_DEADLOCK FALSE
