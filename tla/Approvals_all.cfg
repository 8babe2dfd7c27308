\* every operation, failures and restarts
CONSTANTS
  req = req
  app = app
  del = del
  adm = adm
  r1 = r1
  r2 = r2
  r3 = r3
  r4 = r4
  NoUser = NoUser
  NoCopy = NoCopy
  NoEntry = NoEntry
  NoCall = NoCall
  Request = {r1, r2, r3}
  User <- AllUsers
  Level <- EveryLevel
  Ops <- EveryOp
  Requester = req
  Approver = app
  Delegates = {del}
  RequiresSignature = TRUE
  ReasonRequired = TRUE
  Failures = TRUE
SPECIFICATION Spec
INVARIANT TypeOK
INVARIANT AnnouncedIsRecorded
PROPERTY DecisionIsFinal
PROPERTY RecordDecides
SYMMETRY Interchangeable
\* every request is one-shot: the system stops when all are answered
CHECK_DEADLOCK FALSE
