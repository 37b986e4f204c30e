SPECIFICATION Spec
CHECK_DEADLOCK FALSE
CONSTANTS
  Connections = {"a", "b"}
  Backups = {}
  NewNames = {"b"}
  Texts = {"t1", "t2"}
  Broken = "broken"
  None = None
  MaxChanges = 2
  MaxActs = 3
PROPERTIES
  RemovedKept
