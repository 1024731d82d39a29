CONSTANTS
  FIXED_SCALE = 10000
  LN_2_FIXED = 6931
  Liquidity = 5
  RoundingReserve = 1
  TradeFeeBps = 1000
  FeeDenominator = 10000
  MIN_TRADE_SHARES = 2
  MaxTradeShares = 5
  MAX_OUTCOME_QUANTITY = 8
  MAX_IMBALANCE_MULTIPLIER = 2
  Traders = {t1, t2}
  TreasuryShareBps = 7000
  SecurityCap = 9
  LockTs = 1
  ResolveNotBefore = 1
  ResolutionDeadline = 2
  MaxTime = 3
  MaxTrades = 4
  MaxDonation = 1
SPECIFICATION PagesSpec
SYMMETRY TraderSymmetry
CHECK_DEADLOCK FALSE
INVARIANTS
  MarketSolvent
  SettlementCovered
  ClosedPaidOut
  PortfolioMatches
  WithdrawableNeverOverstated
PROPERTY
  DecisionsFinal
