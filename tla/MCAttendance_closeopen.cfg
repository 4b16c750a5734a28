SPECIFICATION Spec
CONSTANTS
  Members = {m1}
  Staff = {}
  LateShift = {}
  Accountants = {}
  Jobs = {j1}
  RoleOf <- MCRoleOf
  ShiftEnd <- MCShiftEnd
  FormTimes <- MCFormTimes
  LastTick = 2
  MaxDay = 0
  MaxRecords = 1
PROPERTY
  AutoCloseOnlyOpen
\* The system stops when the explored days are over.
CHECK_DEADLOCK FALSE
