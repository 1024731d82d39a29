SPECIFICATION Spec
CONSTANTS
  s1 = s1
  s2 = s2
  s3 = s3
  r1 = r1
  r2 = r2
  r3 = r3
  Shares = {s1, s2, s3}
  Requests = {r1, r2}
  MaxCrashes = 2
INVARIANTS
  Durable
SYMMETRY Symmetry
CHECK_DEADLOCK FALSE
