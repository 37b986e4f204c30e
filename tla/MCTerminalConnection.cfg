SPECIFICATION MCSpec
CONSTANTS
  a = a
  b = b
  Callers = {a}
  Kinds = {"transfer"}
  Capacity = 3
  Chunk = 2
  Input = 3
  Typed = 0
  Header = {2, 3}
  Partial = {}
  Exchanges = 1
  Losses = 0
  Events = {"delivery", "cancel"}
INVARIANTS
  WireSound
PROPERTIES
  Accounts
  TextInOrder
SYMMETRY Alike
