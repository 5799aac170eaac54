SPECIFICATION Spec
CONSTANTS
  Server = {s1, s2}
  SubmitCmd = {c1}
  FinishCmd = {f1}
  AssignCmd = {}
  Beat = {b1}
  Nil = Nil
  RpcLoss = FALSE
  MaxTerm = 1
  MaxLog = 2
  MaxDue = 0
  MaxCrash = 0
SYMMETRY Symmetry
INVARIANTS
  CommitIndexNeverBehind
CHECK_DEADLOCK FALSE
