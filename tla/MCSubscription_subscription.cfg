SPECIFICATION FairSpec
CONSTANTS
  Orgs = {o1}
  Admins = {a1, a2}
  Tiers = {"STARTER", "OPERATIONS"}
  Starter = "STARTER"
  TrialDays <- MCTrialDays
  GraceDays = 1
  StarterMax = 1
  AbandonDays = 2
  Extensions <- MCExtensions
  Counts = {0, 2}
  MaxCalls = 3
  NoDate = NoDate
INVARIANTS
  NoLimbo
  DeadlinesServed
  TrialOnce
PROPERTIES
  FollowsLifecycle
  Settles
