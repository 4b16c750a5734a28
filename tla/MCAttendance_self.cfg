SPECIFICATION FairSpec
CONSTANTS
  Members = {m1, m2}
  Staff = {}
  LateShift = {m2}
  Accountants = {}
  Jobs = {j1}
  RoleOf <- MCRoleOf
  ShiftEnd <- MCShiftEnd
  FormTimes <- MCFormTimes
  LastTick = 2
  MaxDay = 2
  MaxRecords = 3
INVARIANTS
  TypeOK
  OneOpenRecord
  OneRecordPerDay
  SpanCoherent
  OpenIsNewest
PROPERTIES
  StaleRecordClosed
\* The system stops when the explored days are over.
CHECK_DEADLOCK FALSE
