SPECIFICATION PartsSpec
CONSTANTS
  Members = {m1}
  Staff = {s1, s2}
  LateShift = {}
  Accountants = {s2}
  Jobs = {j1}
  RoleOf <- MCRoleOf
  ShiftEnd <- MCShiftEnd
  FormTimes <- MCFormTimes
  LastTick = 2
  MaxDay = 1
  MaxRecords = 1
  Handlers = {h1, h2}
  Users = {u1, u2, u3}
  Founder = u1
  Platform = {u3}
  MemberRoles = {"ORG_ADMIN", "EMPLOYEE"}
  Cap = 1
  MaxCalls = 3
  Inputs <- MCInputs
  Attempts = {a1, a2, a3}
  MaxAttempts = 2
  Duration = 1
  IdleTTL = 1
  Scans = {c1}
  StaticDays = {0, 2}
  MaxCodes = 2
  MaxScans = 1
  LastDay = 2
  Docs = {d1, d2}
  DocTypes = {x1}
  Sizes = {1, 2}
  MaxTotal = 2
  Year = 2081
  Published <- MCPublished
  Fallback <- MCFallback
  Entered <- MCEntered
  HolidayTypes = {"PUBLIC_HOLIDAY", "WORKING_DAY_OVERRIDE"}
  WorkingDays = {0, 1, 2, 3, 4, 5}
  MaxRows = 2
  East = TRUE
  Prices = {1}
  Caps = {1}
  LastPriceDay = 1
  MaxOverrides = 2
  Orgs = {o1}
  Plans = {p1, p2}
  Terms = {t1}
  Writers = {w1, w2}
  Lookups = {l1, l2}
  Offset = 345
  Shift <- MCShift
  MonthDays = 32
  TaxTable <- MCTaxTable
  ReportedStaff = {"e1", "e2"}
  WorkStart = 600
SYMMETRY Symmetry
INVARIANTS
  PartsTypeOK
  RowCoherent
  MembersKept
  FreshPinOnReturn
  LockoutHolds
  CodesKept
  DocumentsKept
  HolidaysKept
  PricesKept
  PlanCacheFresh
  PayslipSound
  ReportsSound
PROPERTIES
  OriginalCheckInStable
\* The parts that count days or calls stop when these are over.
CHECK_DEADLOCK FALSE
