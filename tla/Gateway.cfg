CONSTANTS
  Sinks = {s1, s2}
  None = None
  Offline = Offline
  Attempts = 1
  MaxEvents = 2
SPECIFICATION Spec
SYMMETRY MCSymmetry
INVARIANTS TypeOK CountExact OnlineIsAnnounced RetainedIsRight CostFollowsHole
  HoleLeavesNoTrace NoSinkLeftHigh
CHECK_DEADLOCK FALSE
