CONSTANTS
  FIXED_SCALE = 10000
  LN_2_FIXED = 6931
  Liquidity = 3
  RoundingReserve = 1
  TradeFeeBps = 1000
  FeeDenominator = 10000
  MIN_TRADE_SHARES = 1
  MaxTradeShares = 3
  MAX_OUTCOME_QUANTITY = 3
  MAX_IMBALANCE_MULTIPLIER = 1
  Traders = {t1, t2}
  TreasuryShareBps = 7000
  SecurityCap = 5
  LockTs = 1
  ResolveNotBefore = 1
  ResolutionDeadline = 2
  MaxTime = 3
  MaxTrades = 4
  MaxDonation = 0
SPECIFICATION Spec
CHECK_DEADLOCK FALSE
INVARIANT
  InvalidPaysHalf
