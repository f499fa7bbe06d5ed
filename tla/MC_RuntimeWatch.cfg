SPECIFICATION MCSpec
CONSTANTS
  a = a
  b = b
  Order <- MCOrder
  Starve = 1
  MaxAge = 1
  Down = 2
  Grace = 1
  Sustain = 1
  Clear = 1
  Slots = {buy, sell}
  Ids = {i1, i2, i3}
  FreezeCycles = 2
  CleanCycles = 2
  LosesAnswers = TRUE
  Own = own
  NoQuote = none
  Gone = gone
  Elsewhere = elsewhere
  Orders = {order}
  Due = 1
  Bucket = 2
  DayLength = 1
  MaxTime = 1
  MaxFills = 2
  MaxSessions = 2
  Logs = {l1, l2}
  Lookback = 2
  LruSize = 1
  Recreate = 1
  MaxHeight = 2
  MaxForks = 1
CHECK_DEADLOCK FALSE
INVARIANTS SilentUnquoted RecordedOnce FillsCountOnce
PROPERTIES DeadLoopFreezes StrangersUntouched StrayFreezes
