SPECIFICATION Spec
CONSTANTS
  a = a
  b = b
  Channels = {a, b}
  Loads <- MCLoads
  Window = 1
  Room = 1
INVARIANTS
  NoLostWake
  DataExact
PROPERTIES
  Teardown
CHECK_DEADLOCK FALSE
