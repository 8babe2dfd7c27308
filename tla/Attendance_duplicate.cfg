\* what the API documentation says of a second check-in
CONSTANTS
  phone = phone
  desk = desk
  NoCall = NoCall
  Device = {phone, desk}
  Day = {1, 2}
  Carried = {"present", "absent"}
  MaxCalls = 5
SPECIFICATION Spec
INVARIANT DuplicateRejected
SYMMETRY Interchangeable
\* the calls are bounded: the system stops when all are answered
CHECK_DEADLOCK FALSE
