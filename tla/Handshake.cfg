\* Four connecting and three accepting ends of three devices.
SPECIFICATION MCSpec
CONSTANTS
  d1 = d1
  d2 = d2
  d3 = d3
  c1 = c1
  c2 = c2
  c3 = c3
  c4 = c4
  s1 = s1
  s2 = s2
  s3 = s3
  Devices = {d1, d2, d3}
  Clients = {c1, c2, c3, c4}
  Servers = {s1, s2, s3}
  Pairs = {c3, c4}
  Owner <- MCOwner
  Wants <- MCWants
  MaxTrust = 1
CHECK_DEADLOCK FALSE
INVARIANT EndsAgree
INVARIANT PairIsAnswered
