CONSTANTS
  yes = yes
  no = no
  Tokens <- MCTokens
  Reverse <- MCReverse
  Prices = {1, 2}
  Requests <- MCRequests
  Updates <- MCUpdates
  QueueShare = 2
  MinMerge = 1
  MaxOrders = 3
  Folders = {f1, f2}
  SessionOrders = {o1, o2}
  MaxTraded = 2
  MaxSessions = 3
  Interval = 1
  HoldMax = 1
  MaxAge = 6
  MaxBookAge = 4
  Ends = 4
  Tops <- MCTops
  MaxSpread = 2
  Fee = 0
  EdgeMin = 3
  EdgeExit = 1
  EdgeStop = 2
  Values = {1, 2}
  Hard = 9
  AllowPartial = TRUE
  Lags = {2}
  Skews <- MCSkews
  Traded = {"down"}
  Steps = {0, 2}
  Extra = 1
  MaxTime = 4
  MaxQuotes = 3
  MaxReads = 3
SPECIFICATION MCSpec
SYMMETRY MCSymmetry
INVARIANTS FifoMatchesPosition TapeTellsTables MarkoutsAgree EntriesKnown PositionsEnd
PROPERTY ImplementsLedger
CHECK_DEADLOCK FALSE
