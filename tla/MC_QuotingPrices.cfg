CONSTANTS
  m1 = m1
  m2 = m2
  y1 = y1
  n1 = n1
  y2 = y2
  n2 = n2
  Markets = {m1}
  Outcomes <- OneMarket
  Keys <- OneMarketKeys
  TradeSize = 10
  ArbFactor = 2
  MaxSize = 20
  HardCap = 25
  SkewFactor = 1
  MinOrder = 3
  MinMerge = 5
  MaxActive = 1
  MaxMarketsHolding = 0
  NotionalCapped = FALSE
  PartialFills = {4}
  Top = 6
  Low = 1
  High = 6
  LevelSizes = {1, 3, 7}
  MinSize = 4
  FallbackSize = 2
  MaxSkew = 1
  MaxImbalance = 1
  MaxComplement = 1
  Regimes <- MCRegimes
  Adverse <- MCAdverse
  Costs = {0, 5}
  Snapshots <- MCSnapshots
  MaxLevels = 2
SPECIFICATION MCSpec
INVARIANTS OneOrderPerQuote PlanIsOnOffer SellsNearlyCovered HoldingsBounded PlanOrdered CostCovered
