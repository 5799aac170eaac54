SPECIFICATION Spec
CONSTANTS
  Server = {s1, s2, s3}
  SubmitCmd = {c1}
  FinishCmd = {f1}
  AssignCmd = {}
  Beat = {}
  Nil = Nil
  RpcLoss = TRUE
  MaxTerm = 1
  MaxLog = 2
  MaxDue = 0
  MaxCrash = 0
SYMMETRY Symmetry
INVARIANTS
  FailedNotApplied
CHECK_DEADLOCK FALSE
