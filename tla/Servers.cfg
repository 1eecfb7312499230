CONSTANTS
  Servers = {"major", "min"}
  MaxFd = 2
  MaxInterrupts = 1

SPECIFICATION LiveSpec

\* Both servers may return, and the model stops at a harm.
CHECK_DEADLOCK FALSE

INVARIANTS
  ServersInv
  OwnDescriptors
  OnlyInterruptsHarm

PROPERTY
  Served
