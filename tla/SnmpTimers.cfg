CONSTANTS
  p1 = p1
  p2 = p2
  Order <- MCOrder
  TIMEOUT = 3
  Initial = 1
  NoReport = NoReport

SPECIFICATION FairSpec

INVARIANTS
  TimersInv
  CountsExactly
  EndIsReported

PROPERTY
  SilenceReported
