CONSTANTS
  Yes = yes
  No = no
  Keys <- AllKeys
  RowForms = {"paper", "posted"}
  Sizes = {2}
  PositionCap = 2
  MinMerge = 9
  MaxRetries = 2
  Faults = {"timeout", "refusal", "cancel", "snapshot", "cancel_all", "redelivery", "crash"}
  MaxFaults = 3
  MaxOrders = 2
  MaxSessions = 2
SPECIFICATION FairSpec
INVARIANTS
  HoldingsKnown
PROPERTIES
  QuotesGo
\* The last session ends.
CHECK_DEADLOCK FALSE
