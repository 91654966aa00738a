CONSTANTS
  DownlinkLimit = 2
  TableSize = 2
  ByteRange = 8
  IdRange = 4
  Weights = {1, 2}
  MaxMessages = 2
  MaxResets = 0
SPECIFICATION Spec
INVARIANTS CapacityComesBack
CHECK_DEADLOCK FALSE
