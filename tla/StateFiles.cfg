SPECIFICATION Spec
CONSTANTS
  Absent = Absent  Damaged = Damaged
  d1 = d1  d2 = d2  r1 = r1  r2 = r2  r3 = r3
  Devices <- TwoDevices
  Runs <- ThreeRuns
  MaxUp = 1
  Unreadable = {"store"}
  MaxActs = 2
  MaxFaults = 1
  MaxLoss = 1
  MaxHarm = 1
CHECK_DEADLOCK FALSE
INVARIANT MetaFits
PROPERTY IdentityKept
PROPERTY SavedAtStart
