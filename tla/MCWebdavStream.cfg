SPECIFICATION FairSpec
CONSTANTS
  Capacity = 2
  Length = 3
  CallSizes <- MCCallSizes
  CurlSizes <- MCCurlSizes
  MaxRedirects = 1
  MaxConfirmations = 1
INVARIANTS
  StreamSound
PROPERTIES
  IsChannel
  RequestsEnd
