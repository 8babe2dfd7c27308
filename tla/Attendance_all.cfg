\* two devices of a user, two days
CONSTANTS
  phone = phone
  desk = desk
  NoCall = NoCall
  Device = {phone, desk}
  Day = {1, 2}
  Carried = {"present", "absent"}
  MaxCalls = 6
SPECIFICATION Spec
INVARIANT TypeOK
INVARIANT OneOpenShift
INVARIANT BreaksAgree
INVARIANT DeductsBreaks
PROPERTY ClosedIsUntouched
SYMMETRY Interchangeable
\* the calls are bounded: the system stops when all are answered
CHECK_DEADLOCK FALSE
