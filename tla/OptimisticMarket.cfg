CONSTANTS
  FIXED_SCALE = 10000
  LN_2_FIXED = 6931
  Liquidity = 3
  RoundingReserve = 1
  TradeFeeBps = 1000
  FeeDenominator = 10000
  MIN_TRADE_SHARES = 2
  MaxTradeShares = 4
  MAX_OUTCOME_QUANTITY = 6
  MAX_IMBALANCE_MULTIPLIER = 3
  Traders = {t1}
  TreasuryShareBps = 7000
  SecurityCap = 5
  LockTs = 1
  ResolveNotBefore = 1
  ResolutionDeadline = 4
  MaxTime = 5
  MaxTrades = 2
  MaxDonation = 0
  Wallets = {w1, w2, tr}
  TreasuryOwner = tr
  NoKey = NoKey
  Committee = {m1, m2, m3}
  Threshold = 2
  DisputeFeeBps = 5000
  ObservationTs = 1
  ObservationWindow = 2
  ChallengePeriod = 1
SPECIFICATION OptFairSpec
CHECK_DEADLOCK FALSE
INVARIANTS BondsCovered OutcomeJustified OffersMatch
PROPERTIES ImplementsHybridMarket BondsReturned PositionsSettled
