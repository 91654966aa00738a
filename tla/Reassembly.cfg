CONSTANTS
  Sources = {s1}
  PacketIdRange = 2
  Mtu = 2
  Lengths = {3}
  MaxDuration = 1
  GcPeriod = 1
  TicksPerSecond = 2
  MaxMessages = 2
  MaxReboots = 1
  MaxDuplicates = 2
  MaxFailures = 1
  MaxTime = 5
SPECIFICATION Spec
INVARIANTS TypeOK DeliveredWhole DeliveredAsOftenAsArrived ArrivedIsCompleted OldIsForgotten
CHECK_DEADLOCK FALSE
