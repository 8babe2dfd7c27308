\* what the documentation says and the code does not keep
CONSTANTS
  req = req
  app = app
  del = del
  adm = adm
  r1 = r1
  r2 = r2
  r3 = r3
  r4 = r4
  NoUser = NoUser
  NoCopy = NoCopy
  NoEntry = NoEntry
  NoCall = NoCall
  Request = {r1, r2, r3}
  User <- TwoMembers
  Level <- LevelOfTwo
  Ops <- WithdrawOps
  Requester = req
  Approver = app
  Delegates = {}
  RequiresSignature = FALSE
  ReasonRequired = FALSE
  Failures = FALSE
SPECIFICATION Spec
PROPERTY WithdrawalIsIrreversible
SYMMETRY Interchangeable
\* every request is one-shot: the system stops when all are answered
CHECK_DEADLOCK FALSE
