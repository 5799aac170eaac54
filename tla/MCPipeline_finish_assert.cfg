SPECIFICATION Spec
CONSTANTS
  Task = {0}
  Worker = {w1}
  None = None
  LoadLimit = 1
  Client = {c1}
  RaftSize = 2
  Leader = 2
  RpcLoss = FALSE
  MaxAssign = 1
  MaxFault = 0
INVARIANTS
  FinishFindsRunning
CHECK_DEADLOCK FALSE
