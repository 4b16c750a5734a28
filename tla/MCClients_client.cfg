SPECIFICATION ClientsSpec
CONSTANTS
  Requests = {r1, r2, r3}
  MaxSessions = 3
  RateLimit = 5
  Pages <- AllPages
  MaxPending = 2
  MaxClockings = 2
  MaxTimers = 2
INVARIANTS
  SignedInHasTokens
  NoReuse
  ShowsWhatIsChosen
  OneRequestAtATime
PROPERTIES
  RequestsEnd
\* A page that has loaded and has nothing to press stops there.
CHECK_DEADLOCK FALSE
