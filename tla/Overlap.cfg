SPECIFICATION FairSpec
CONSTANTS
  N = 1
  Size <- OneFileOfTwo
  MaxRetries = 1
  Overlap = TRUE
  SourceChanges = TRUE
  MaxFaults = 1
  MaxCrashes = 1
INVARIANT AckedIsComplete
PROPERTY WritesNeedApproval
PROPERTY KeepsPromise
PROPERTY BothEndsFinish
PROPERTY StreamCompletes
