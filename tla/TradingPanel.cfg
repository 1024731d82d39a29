CONSTANTS
  FIXED_SCALE = 10000
  LN_2_FIXED = 6931
  Liquidity = 5
  RoundingReserve = 2
  TradeFeeBps = 1000
  FeeDenominator = 10000
  MIN_TRADE_SHARES = 1
  MaxTradeShares = 4
  MAX_OUTCOME_QUANTITY = 30
  MAX_IMBALANCE_MULTIPLIER = 4
  MaxShares = 4
  SlippageBps = {50}
  SecurityCaps = {9, 1000}
SPECIFICATION PanelSpec
CHECK_DEADLOCK FALSE
INVARIANTS
  CostBounds
  NoRoundTripGain
  QuoteHonoured
