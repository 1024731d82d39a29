SPECIFICATION MembersSpec
CONSTANTS
  m1 = m1
  m2 = m2
  o1 = o1
  o2 = o2
  o3 = o3
  Orders = {o1, o2, o3}
  YesOrders = {o1, o2}
  Members = {m1, m2}
  Asked = {m1, m2}
  MinBatchOrders = 2
  LockTs = 1
  BatchDeadline = 2
  Skew = 1
  MaxTime = 3
  MaxCrashes = 1
  MaxStrays = 1
  MaxLeaves = 1
  StoreShares = {s1, s2}
  StoreRequests = {r1, r2}
  StoreCrashes = 2
INVARIANTS
  DeliveredKept
  BatchComplete
  DurableAlone
SYMMETRY Symmetry
CHECK_DEADLOCK FALSE
CONSTRAINT Bounded
