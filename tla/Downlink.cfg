CONSTANTS
  DownlinkLimit = 2
  TableSize = 2
  ByteRange = 8
  IdRange = 2
  Weights = {0, 1, 2}
  MaxMessages = 3
  MaxResets = 1
SPECIFICATION Spec
INVARIANTS TypeOK LimitKept CountedExactly EntryFound
CHECK_DEADLOCK FALSE
