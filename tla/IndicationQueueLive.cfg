CONSTANTS
  MaxNumberIndication = 2
  UIntRange <- MCUIntRange
  StartIndices = {3}
  MaxIndications = 4
  MaxCloses = 0
SPECIFICATION FairSpec
PROPERTIES StoredIsHandled
CHECK_DEADLOCK FALSE
