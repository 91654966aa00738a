CONSTANTS
  MaxNumberIndication <- MCMaxNumberIndication
  UIntRange <- MCUIntRange
  StartIndices <- MCStartIndices
  MaxIndications = 2
  MaxCloses = 1
SPECIFICATION FairSpec
PROPERTIES CloseReturns
CHECK_DEADLOCK FALSE
