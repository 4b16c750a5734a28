SPECIFICATION Spec
CONSTANTS
  Members = {m1}
  LeaveIds = {l1, l2}
  Tasks = {t1, t2}
  Forms <- MCForms
  LastDay = 3
  NewYear = 3
  Tracked = {"CASUAL"}
  Untracked = {"UNPAID"}
  Entitlement <- MCEntitlement
  Cap <- MCCap
  Adjustments <- MCAdjustments
SYMMETRY Symmetry
INVARIANTS
  NoOverlap
  DeductionsKept
  BalanceSane
PROPERTY
  DecisionFinal
