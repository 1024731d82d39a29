SPECIFICATION Spec
CONSTANTS
  m1 = m1
  m2 = m2
  o1 = o1
  o2 = o2
  o3 = o3
  Orders = {o1}
  YesOrders = {o1}
  Members = {m1, m2}
  Asked = {m1, m2}
  MinBatchOrders = 2
  LockTs = 1
  BatchDeadline = 2
  Skew = 1
  MaxTime = 1
  MaxCrashes = 0
  MaxStrays = 0
  MaxLeaves = 1
INVARIANTS
  DeliveryRecoverable
CHECK_DEADLOCK FALSE
