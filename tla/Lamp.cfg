CONSTANTS
  Requests <- MCRequests
  Flashes = 2
  MaxRequests = 3
  MaxInbox = 1

SPECIFICATION FairSpec

INVARIANTS
  UnseenIsFlagged
  FlashBudget
  CycleEnds
  LampInv

PROPERTIES
  Answered
  FlashingEnds
