SPECIFICATION FairSpec
CONSTANTS
  Requests = {r1, r2, r3}
  MaxSessions = 2
  RateLimit = 4
PROPERTY
  QueuedUntilCompletes
