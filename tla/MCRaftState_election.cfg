SPECIFICATION Spec
CONSTANTS
  Server = {s1, s2, s3}
  SubmitCmd = {}
  FinishCmd = {}
  AssignCmd = {}
  Beat = {}
  Nil = Nil
  RpcLoss = TRUE
  MaxTerm = 2
  MaxLog = 0
  MaxDue = 1
  MaxCrash = 0
SYMMETRY Symmetry
INVARIANTS
  ElectionSafety
PROPERTIES
  TermAndVoteStable
CHECK_DEADLOCK FALSE
