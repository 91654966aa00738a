CONSTANTS
  MaxNumberIndication <- MCMaxNumberIndication
  UIntRange <- MCUIntRange
  StartIndices <- MCStartIndices
  MaxIndications = 8
  MaxCloses = 0
SPECIFICATION Spec
INVARIANTS RoomMustNeverRunOut
CHECK_DEADLOCK FALSE
