SPECIFICATION ServicesSpec
CONSTANTS
  PoolMarkets = {pool}
  HybridMarkets = {hybrid}
  Resolvers = {"optimistic", "txline-stat", "pyth-price", "uma-wormhole"}
  Modes <- MCModes
  LockTs = 1
  BatchDeadlineTs = 1
  ResolveNotBeforeTs = 2
  ResolutionDeadlineTs = 4
  ChallengePeriod = 1
  MaxTime = 5
  Skew <- MCSkew
  MaxSent = 2
  r1 = r1
  r2 = r2
  r3 = r3
  Requests = {r1, r2, r3}
  Nullifier <- MCNullifier
  MaxPending = 1
  Indexed = {m1, m2}
  Runs = {i1, i2}
  Inodes = {n1, n2, n3}
  MaxChanges = 3
INVARIANTS
  PlansAccepted
  ClaimedMeansPaid
  WitnessErased
  FileWhole
PROPERTIES
  StaleHarmless
  MarketsSettle
  RelayRecovers
  FileCatchesUp
CHECK_DEADLOCK FALSE
