SPECIFICATION FlowSpec
CONSTANTS
  Members = {m1, m2}
  Others = {m2}
  Second = {q2, c2}
  Months = {b1}
  Requests = {q1, q2}
  Accountants = {q2}
  Calls = {c1, c2}
  MaxVersion = 2
  RoleOf <- MCRoleOf
  Net <- MCNet
INVARIANTS
  PaidAsApproved
  FlagNotLost
