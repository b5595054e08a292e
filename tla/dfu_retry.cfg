SPECIFICATION RetrySpec
CONSTANTS
  Files = {f, g}
  FwSize = 3
  IpSize = 2
  PageSize = 2
  ChunkSize = 1
  None = None
  Junk = Junk
  Slow = FALSE
  Nested = FALSE
  MaxFaults = 3
  MaxCrashes = 1
INVARIANT UndisturbedSucceeds
PROPERTIES  AttemptEnds
CHECK_DEADLOCK FALSE
