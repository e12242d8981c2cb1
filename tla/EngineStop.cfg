SPECIFICATION Spec
CONSTANTS
  Exits <- MCNoHalt
  MaxCalls = 2
CHECK_DEADLOCK FALSE
PROPERTY StopLeavesLoop
