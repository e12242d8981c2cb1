SPECIFICATION Spec
CONSTANTS
  Exits <- MCExits
  MaxCalls = 5
CHECK_DEADLOCK FALSE
INVARIANTS TypeOK LoopOnLiveMachine SettledIsClean OneRunAtATime
PROPERTY StopEnds
