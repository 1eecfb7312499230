CONSTANTS
  Hosts = {"main", "RecvUdp", "ConsumerTask"}
  Nothing = nothing

SPECIFICATION Spec

INVARIANTS
  LInv
  OnlyAlarmsDeadlock
