CONSTANTS
  Hosts = {"main"}
  Nothing = nothing

SPECIFICATION Spec

INVARIANT NoDeadlock
