CONSTANTS
  MaxPushed = 3
  MaxErrors = 2
  MaxLost = 1
  NoThread = none
  NoMessage = nothing

SPECIFICATION FairSpec

INVARIANTS
  FInv
  PopMatchesSend
  InOrder
  BoundedBypass

PROPERTIES
  ImplementsOutbox
  DrainsLikeOutbox

\* ConsumerTask waits for ever for the reply to a lost request.
CHECK_DEADLOCK FALSE
