SPECIFICATION Spec
CONSTANTS
  Others = {}
  Second = {}
  Members = {m1}
  Months = {b1}
  Requests = {q2}
  Accountants = {q2}
  Calls = {c1}
  MaxVersion = 1
  RoleOf <- MCRoleOf
  Net <- MCNet
PROPERTIES
  OncePaidNotByAccountant
