SPECIFICATION FairSpec
CONSTANTS
  Server = {s1, s2}
  SubmitCmd = {c1}
  FinishCmd = {}
  AssignCmd = {}
  Beat = {b1}
  Nil = Nil
  RpcLoss = TRUE
  MaxTerm = 2
  MaxLog = 1
  MaxDue = 0
  MaxCrash = 1
INVARIANTS
  NodeNeverStuck
PROPERTIES
  RequestAnswered
  LeaderBeats
CHECK_DEADLOCK FALSE
