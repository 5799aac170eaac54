SPECIFICATION Spec
CONSTANTS
  Server = {s1, s2, s3}
  SubmitCmd = {c1}
  FinishCmd = {f1}
  AssignCmd = {}
  Beat = {b1}
  Nil = Nil
  RpcLoss = FALSE
  MaxTerm = 1
  MaxLog = 2
  MaxDue = 0
  MaxCrash = 1
SYMMETRY Symmetry
INVARIANTS
  StateMachineSafety
  AnsweredDurable
  IndicesInLog
  RoundIntact
PROPERTIES
  LogImplemented
CHECK_DEADLOCK FALSE
