SPECIFICATION FairSpec
CONSTANTS
  Buffers = {b1, b2, b3}
  None = None
  Size = 2
  TxSize = 1
  HwSize = 2
  MaxBytes = 3
  MaxPieces = 2
  MaxDrops = 2
  Kinds = {"always", "power"}
INVARIANTS TypeOK OneOwner ForwardsInOrder TransmitterDriven OffWithoutPeer
PROPERTY LineForwarded
CHECK_DEADLOCK FALSE
