SPECIFICATION EndsSpec
CONSTANTS
  Requests = {r1, r2}
  Links = {k1}
  MaxSessions = 3
  MaxPassword = 1
  Accounts = {"ORG_ADMIN", "ORG_ACCOUNTANT"}
  Pages = {"/admin", "/accountant", "/employee", "/payroll"}
  Newcomers = {"ORG_ACCOUNTANT"}
  MaxRequests = 2
SYMMETRY Symmetry
INVARIANTS
  TypeOK
  RevokedStaysRevoked
  OneValidPerLogin
  ResetEndsSessions
  LandsWhereAllowed
