SPECIFICATION FairSpec
CONSTANTS
  c1 = c1  c2 = c2  c3 = c3
  Conns <- ThreeConns
  MaxSessions = 2
  MaxFaults = 1
INVARIANT SlotsConserved
INVARIANT PendingIsAttended
INVARIANT AtMostOneEscapes
PROPERTY ShutdownCompletes
