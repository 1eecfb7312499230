CONSTANTS
  Values <- MCValues
  MaxLines = 3

SPECIFICATION ConfSpec

INVARIANT ConfInv

\* init_conf ends.
CHECK_DEADLOCK FALSE
