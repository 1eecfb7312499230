CONSTANTS
  Warnings <- MCWarnings
  Swapped <- MCSwapped
  Alive <- MCAlive
  MaxSends = 2
  MaxLost = 1
  MaxStatus = 1
  Unknown = unknown
  NoMessage = nothing

SPECIFICATION FairSpec

INVARIANT AlarmInv

PROPERTY AlarmArrives
