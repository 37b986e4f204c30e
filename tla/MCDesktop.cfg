SPECIFICATION MCSpec
CONSTANTS
  Lists <- MCLists
  Desktops <- MCDesktops
  Leftovers = {FALSE}
  MaxGenerations = 3
  MaxPresses = 1
  MaxFailures = 1
  None = None
  Limit = 1
  Launchers = {"l1", "l2"}
  Clients = {"id", "setup", "open"}
  Setups = {"setup"}
  Starters = {"id", "setup"}
  MaxStarts = 3
INVARIANTS
  HotkeySound
PROPERTIES
  SocketSound
  DesktopEnds
CHECK_DEADLOCK FALSE
