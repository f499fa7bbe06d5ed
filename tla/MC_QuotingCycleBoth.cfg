CONSTANTS
  m1 = m1
  m2 = m2
  y1 = y1
  n1 = n1
  y2 = y2
  n2 = n2
  Markets = {m1, m2}
  Outcomes <- TwoMarkets
  Keys <- TwoMarketKeys
  TradeSize = 2
  ArbFactor = 1
  MaxSize = 3
  HardCap = 4
  SkewFactor = 1
  MinOrder = 2
  MinMerge = 2
  MaxActive = 2
  MaxMarketsHolding = 0
  NotionalCapped = FALSE
  PartialFills = {1}
SPECIFICATION Spec
INVARIANTS
  PlanIsOnOffer
