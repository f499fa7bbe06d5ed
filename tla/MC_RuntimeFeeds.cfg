SPECIFICATION MCSpec
CONSTANTS
  Markets = {m1, m2, m3}
  Threshold = 2
  None = none
  Window = 4
  Ttl = 2
  Back = 1
  Forward = 1
  LastTime = 9
  MaxAge = 2
  Behind = 1
  Ahead = 1
CHECK_DEADLOCK FALSE
INVARIANTS IdleListens AnswersAreRecent TroubleIsForgotten PriceIsRecent PriceReturns
PROPERTIES Follows
