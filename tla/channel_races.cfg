SPECIFICATION Spec
CONSTANTS
  Ops = {a}
  Registered = {a}
  Sizes = {2}
  HdrSize = 1
  Capacity = 2
  Blank = Blank
  ThreadOps = {a}
  IsrOps = {a}
  MayFail = TRUE
  MayReinit = TRUE
INVARIANTS TypeOK ReceivedIsProcessed IdleIsFree ParserAtRest
CHECK_DEADLOCK FALSE
