SPECIFICATION Spec
CONSTANTS
  Contexts = {"isr"}
  StartIds = {190, 217}
  DataBytes = {192, 219, 220}
  DataLen = 2
  PoolSize = 40
  MaxLost = 0
  MaxLate = 0
INVARIANT BootloaderFound
CHECK_DEADLOCK FALSE
