CONSTANTS
  Tokens <- MCTokens
  Full = 4
  Band = 1
  Span = 3
  Swing = 2
  Regime = 2
  QuietCycles = 2
  SleepTime = 2
  HardCap = 2
SPECIFICATION FairSpec
INVARIANT QuietAfterReversal
PROPERTY QuotingResumes
