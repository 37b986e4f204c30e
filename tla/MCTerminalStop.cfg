SPECIFICATION MCSpec
CONSTANTS
  a = a
  Callers = {a}
  Kinds = {"transfer"}
  Capacity = 1
  Chunk = 1
  Input = 1
  Typed = 0
  Header = {}
  Partial = {}
  Exchanges = 0
  Losses = 0
  Events = {"stop", "delivery", "cancel"}
PROPERTIES
  StopCloses
