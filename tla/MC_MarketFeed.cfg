CONSTANTS
  Markets = {a, b, c}
  MaxActive = 2
  DwellMs = 1
  MaxFailures = 1
SPECIFICATION FairSpec
INVARIANT NoLostChange
PROPERTIES
  SelectionFollowed
  LeaderGetsIn
\* The feed ends once it is stopped.
CHECK_DEADLOCK FALSE
