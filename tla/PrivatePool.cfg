CONSTANTS
  Orders <- MCOrders
  Side <- MCSide
  Amount <- MCAmount
  Nullifier <- MCNullifier
  Programs = {v1, v2}
  Committee = {m1, m2, m3}
  Stake = 4
  MinWager = 1
  MinBatchOrders = 4
  Threshold = 2
  Denominator = 5
  FeeBps = 1
  KeeperBps = 3
  LockTs = 1
  BatchDeadline = 2
  ResolutionDeadline = 3
  MaxTime = 4
  MaxDonation = 2
SPECIFICATION FairSpec
INVARIANTS
  EscrowIntact
  HonestBatchAccepted
  PaidAsProved
PROPERTY
  ImplementsEscrow
  EveryOrderSettled
