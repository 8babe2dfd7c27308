\* what the documentation says and the code does not keep
CONSTANTS
  req = req
  app = app
  del = del
  adm = adm
  r1 = r1
  r2 = r2
  r3 = r3
  r4 = r4
  NoUser = NoUser
  NoCopy = NoCopy
  NoEntry = NoEntry
  NoCall = NoCall
  Request = {r1, r2, r3}
  User <- TwoMembers
  Level <- LevelOfTwo
  Ops <- SignOps
  Requester = req
  Approver = app
  Delegates = {}
  RequiresSignature = TRUE
  ReasonRequired = FALSE
  Failures = FALSE
SPECIFICATION Spec
INVARIANT SignatureCompletes
SYMMETRY Interchangeable
\* every request is one-shot: the system stops when all are answered
CHECK_DEADLOCK FALSE
