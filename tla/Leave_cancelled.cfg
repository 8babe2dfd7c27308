\* what a comment says of a cancelled leave and the code does not keep
CONSTANTS
  l1 = l1
  l2 = l2
  a1 = a1
  a2 = a2
  a3 = a3
  r1 = r1
  r2 = r2
  r3 = r3
  r4 = r4
  d1 = d1
  d2 = d2
  NoLeave = NoLeave
  NoCall = NoCall
  Leaves = {l1}
  Approval = {a1, a2}
  Request = {r1, r2, r3}
  Dates <- OneDay
  Ops <- CancelOps
  Carried = {"taken"}
SPECIFICATION Spec
INVARIANT CancelledIsRevoked
\* every request is one-shot: the system stops when all are answered
CHECK_DEADLOCK FALSE
