\* Three commits of two transfers, every call but one may fail, and one crash.
SPECIFICATION FairSpec
CONSTANTS
  h1 = h1
  h2 = h2
  h3 = h3
  t1 = t1
  t2 = t2
  Handlers <- Commits
  Transfers <- Offers
  PartOf <- Receives
  MaxName = 7
  Faults <- MostFaults
  UserActs <- MostActs
  MaxOwn = 2
  MaxActs = 1
  MaxRuns = 2
  MaxCrashes = 1
CHECK_DEADLOCK FALSE
INVARIANT NeverLost
 
PROPERTY NothingOverwritten
PROPERTY ExposedAtOnce
 
