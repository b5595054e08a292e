SPECIFICATION FairSpec
CONSTANTS
  Ops = {a, b}
  Registered = {a}
  Sizes = {2}
  HdrSize = 1
  Capacity = 3
  Blank = Blank
  ThreadOps = {}
  IsrOps = {a}
  MayFail = FALSE
  MayReinit = FALSE
INVARIANTS SendingIsDriven WaitIsTimed
PROPERTY Exchange
CHECK_DEADLOCK FALSE
