SPECIFICATION FairSpec
CONSTANTS
  Task = {0}
  Worker = {w1}
  None = None
  LoadLimit = 1
  Client = {c1}
  RaftSize = 2
  Leader = 2
  RpcLoss = TRUE
  MaxAssign = 1
  MaxFault = 1
PROPERTIES
  ReportEnds
  SubmitEnds
  JobKnown
  TaskCompletes
  LogImplemented
CHECK_DEADLOCK FALSE
