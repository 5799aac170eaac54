SPECIFICATION Spec
CONSTANTS
  Server = {s1, s2}
  SubmitCmd = {}
  FinishCmd = {f1}
  AssignCmd = {a1}
  Beat = {}
  Nil = Nil
  RpcLoss = FALSE
  MaxTerm = 3
  MaxLog = 3
  MaxDue = 1
  MaxCrash = 1
CONSTRAINT LateFollowerInTermOne
SYMMETRY Symmetry
INVARIANTS
  TypeOK
  RequestHeld
  RoundIntact
  IndicesInLog
  NodeNeverStuck
PROPERTIES
  TermAndVoteStable
CHECK_DEADLOCK FALSE
