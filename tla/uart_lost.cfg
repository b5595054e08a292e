SPECIFICATION FairSpec
CONSTANTS
  None = None
  Blank = Blank
  Mixed = Mixed
  HttpFiles = {"nrf52", "nrf91"}
  UartFiles = {"nrf52", "nrf91", "modem"}
  Blocks = 2
  Heap = 2
  MaxPress = 4
  MaxSends = 0
  MaxFaults = 0
PROPERTIES GivenBack
CHECK_DEADLOCK FALSE
