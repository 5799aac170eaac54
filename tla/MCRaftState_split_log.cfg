SPECIFICATION Spec
CONSTANTS
  Server = {s1, s2, s3}
  SubmitCmd = {c1}
  FinishCmd = {}
  AssignCmd = {a1}
  Beat = {}
  Nil = Nil
  RpcLoss = TRUE
  MaxTerm = 3
  MaxLog = 1
  MaxDue = 0
  MaxCrash = 0
SYMMETRY Symmetry
CONSTRAINT BackAndForth
INVARIANTS
  StateMachineSafety
CHECK_DEADLOCK FALSE
