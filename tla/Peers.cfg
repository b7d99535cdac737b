SPECIFICATION Spec
CONSTANTS
  d1 = d1  d2 = d2  e1 = e1  e2 = e2  ip = ip  w1 = w1  x1 = x1
  Devices <- TwoDevices
  Endpoints <- TwoEndpoints
  IpOf <- OneIp
  Workers <- OneWorker
  Transfers <- OneTransfer
  MaxPairings = 1
  MaxOps = 5
  MaxMoves = 1
  MaxRetries = 1
SYMMETRY Symmetry
CHECK_DEADLOCK FALSE
 
 
INVARIANT ListedWhenTrusted
