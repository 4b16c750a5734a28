SPECIFICATION Spec
CONSTANTS
  Members = {m1}
  LeaveIds = {l1, l2}
  Tasks = {t1}
  Forms <- MCApart
  LastDay = 3
  NewYear = 3
  Tracked = {"CASUAL"}
  Untracked = {"UNPAID"}
  Entitlement <- MCEntitlement
  Cap <- MCCap
  Adjustments = {}
PROPERTY
  RefundOnlyGranted
