SPECIFICATION Spec
CONSTANTS
  Contexts = {"thread", "isr", "nested"}
  StartIds = {190, 217}
  DataBytes = {192, 219, 220}
  DataLen = 2
  PoolSize = 40
  MaxLost = 1
  MaxLate = 1
INVARIANTS TypeOK AcceptedIsGiven RequestIntact FaultsSurvived
CHECK_DEADLOCK FALSE
