SPECIFICATION FairSpec
CONSTANTS
  None = None
  Blank = Blank
  Mixed = Mixed
  HttpFiles = {"nrf52", "nrf91"}
  UartFiles = {"nrf52", "nrf91", "modem"}
  Blocks = 2
  Heap = 1
  MaxPress = 3
  MaxSends = 2
  MaxFaults = 1
INVARIANTS CrossTypeOK OneDownload FlagFollowsFile LedMeansFile UartReturned
PROPERTIES DownloadEnds
CHECK_DEADLOCK FALSE
