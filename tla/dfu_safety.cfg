SPECIFICATION Spec
CONSTANTS
  Files = {f, g}
  FwSize = 3
  IpSize = 2
  PageSize = 2
  ChunkSize = 1
  None = None
  Junk = Junk
  Slow = TRUE
  Nested = TRUE
  MaxFaults = 2
  MaxCrashes = 1
INVARIANTS TypeOK SuccessIsInstalled ExecutedIsChecked NoStaleAnswer
CHECK_DEADLOCK FALSE
