SPECIFICATION FairClientSpec
CONSTANTS
  b1 = b1  b2 = b2  b3 = b3  Sends <- Batches
  Slots = 2
  Retries = 1
  MaxFails = 1
CHECK_DEADLOCK FALSE
INVARIANT WorkersAreTold
PROPERTY WorkersFinish
