CONSTANTS
  Subsystems = 1
  Stations = 2
  NB = 4

SPECIFICATION Spec

INVARIANTS
  Mirrored
  RegistersInv
  InPlace
