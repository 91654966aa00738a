CONSTANTS
  Clients = {c1, c2}
  Glib = glib
  Requests <- MCRequests
  Blocks = 2
  PastTable = "past"
  MaxOps = 2
  MaxTroubles = 1
SPECIFICATION Spec
SYMMETRY MCSymmetry
INVARIANTS
  TypeOK
  StackLeftAsWanted
  OkMeansDone
  ServiceCachesFollowNode
  DefaultTargetIsStored
  AddressCacheFollows
  ChangeIsSignalled
  ErrorsHaveCauses
CHECK_DEADLOCK FALSE
