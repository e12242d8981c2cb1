SPECIFICATION Spec
CONSTANTS
  IoQueues = {1}
  SqSize = 2
  CqSize = 3
  Cid = {c1, c2}
  None = None
  AdminOps = {"identify"}
  IoOps = {"rw"}
SYMMETRY MCSymmetry
CHECK_DEADLOCK FALSE
INVARIANTS AnsweredOnce CompletionsKept CompletionSignalled
