SPECIFICATION Spec
CONSTANTS
  Task = {0}
  Worker = {w1, w2}
  None = None
  LoadLimit = 1
  Client = {c1}
  RaftSize = 2
  Leader = 2
  RpcLoss = FALSE
  MaxAssign = 2
  MaxFault = 1
SYMMETRY Symmetry
INVARIANTS
  PipelineTypeOK
  OutcomeAgreed
  OneWorkerPerTask
  OutcomeEarned
  TaskNotLost
  TasksConserved
PROPERTIES
  StatusForward
CHECK_DEADLOCK FALSE
