SPECIFICATION MCSpec
CONSTANTS
  Batch <- MCBatch
  Names <- MCNames
  Capacity = 2
  Chunks <- MCChunks
  MaxSessions = 3
  Size = 4
  SourceSize = 2
  SendCapacity = 3
  FrameSize = 2
  Timeout = 2
  MaxBudget = 3
  MaxRepeats = 2
  x = x
  y = y
  CR = CR
  LF = LF
  None = None
  Unset = Unset
  Encodings <- MCEncodings
  Devices <- MCDevices
  Requests <- MCRequests
  MaxStarts = 2
  MaxLosses = 1
  Roles <- MCRoles
  Callers = {"1", "2"}
  Length = 2
  Chunk = 2
  MaxTroubles = 1
  Rows = 2
  History = 2
INVARIANTS
  PartialIsPrefix
  SendExact
  InstancesSound
  RuntimeSound
  SelectionSound
  SmbSound
PROPERTIES
  NothingLost
  Ends
