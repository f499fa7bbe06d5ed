CONSTANTS
  Yes = yes
  No = no
  Keys <- AllKeys
  RowForms = {"paper", "posted"}
  Sizes = {1}
  PositionCap = 1
  MinMerge = 1
  MaxRetries = 2
  Faults = {"redelivery", "disconnect", "refusal", "crash", "cancel_all"}
  MaxFaults = 2
  MaxOrders = 3
  MaxSessions = 2
SPECIFICATION Spec
INVARIANTS
  OneOrderPerQuote
  PositionNearlyCapped
\* The last session ends.
CHECK_DEADLOCK FALSE
