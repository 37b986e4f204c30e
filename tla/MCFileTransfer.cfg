SPECIFICATION FairSpec
CONSTANTS
  Nodes <- Paths
  Kind <- WithLink
  Size = 1
  MaxFaults = 2
  MaxForeign = 1
INVARIANTS
  ProgressExact
  NothingLost
  OutcomeTrue
PROPERTIES
  CancelEnds
