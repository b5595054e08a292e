SPECIFICATION LinkSpec
CONSTANTS
  Ops = {a, b}
  Registered = {a, b}
  Sizes = {2}
  HdrSize = 1
  Capacity = 4
  Blank = Blank
  ThreadOps = {}
  IsrOps = {a}
  MayFail = FALSE
  MayReinit = FALSE
  MaxPresses = 1
  MaxLost = 0
  Links = {"prompt"}
PROPERTY AlwaysServedAgain
CHECK_DEADLOCK FALSE
