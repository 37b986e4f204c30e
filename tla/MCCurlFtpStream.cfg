SPECIFICATION FairSpec
CONSTANTS
  Capacity = 2
  Length = 3
  CurlSizes <- MCCurlSizes
  CallSizes <- MCCallSizes
INVARIANTS
  InOrder
  NoneSleeps
  SessionSound
PROPERTIES
  IsChannel
  GivenUpEnds
