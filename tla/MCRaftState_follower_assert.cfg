SPECIFICATION Spec
CONSTANTS
  Server = {s1, s2}
  SubmitCmd = {c1}
  FinishCmd = {}
  AssignCmd = {}
  Beat = {}
  Nil = Nil
  RpcLoss = FALSE
  MaxTerm = 1
  MaxLog = 1
  MaxDue = 1
  MaxCrash = 0
SYMMETRY Symmetry
INVARIANTS
  FollowerTimerFindsFollower
CHECK_DEADLOCK FALSE
