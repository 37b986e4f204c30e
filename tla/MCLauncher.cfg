SPECIFICATION MCSpec
CONSTANTS
  Modes = {"tray"}
  Displays = {"none", "tray"}
  MaxWatchers = 2
  MaxChanges = 1
  MaxFailures = 1
  None = None
  MaxActs = 3
  Key <- MCKey
  Strict = {"port"}
  Bindings = {"zoom_in", "zoom_out"}
  Value = {"a", "b", "c"}
  Malformed = {"malformed"}
  Rejected = {"rejected"}
  No = "no"
  Default <- MCDefault
  GlobalFiles <- MCGlobalFiles
  ProfileFiles <- MCProfileFiles
  MaxEdits = 2
INVARIANTS
  TraySound
  ShownTrue
PROPERTIES
  LaunchSound
  WorkKept
CHECK_DEADLOCK FALSE
