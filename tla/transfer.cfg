SPECIFICATION FairSpec
CONSTANTS
  Blank = Blank
  Mixed = Mixed
  None = None
  PktLen = 2
  SendCount = 3
  FileLen = 17
  Page = 6
  Pages = 4
  LoseReqOf = {"info", "erase", "done"}
  LoseRspOf = {"info", "erase", "write", "done"}
  SlowOps = {"info", "erase", "done"}
  FailOps = {"info", "erase"}
  MaxFaults = 3
  MaxStarts = 8
  MayDrop = FALSE
  Patient = TRUE
INVARIANTS TypeOK WritesErased BufferFits
PROPERTIES DoneIsWhole Transferred
CHECK_DEADLOCK FALSE
