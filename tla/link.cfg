SPECIFICATION LinkSpec
CONSTANTS
  Ops = {a, b}
  Registered = {a, b}
  Sizes = {3}
  HdrSize = 1
  Capacity = 4
  Blank = Blank
  ThreadOps = {b}
  IsrOps = {a}
  MayFail = FALSE
  MayReinit = FALSE
  MaxPresses = 1
  MaxLost = 1
  Links = {"polite", "lossy"}
INVARIANTS PeerServed NoFalseTimeout
PROPERTIES RequestConcludes PoliteServedAgain HostConcludes
CHECK_DEADLOCK FALSE
