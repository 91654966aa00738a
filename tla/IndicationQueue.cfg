CONSTANTS
  MaxNumberIndication <- MCMaxNumberIndication
  UIntRange <- MCUIntRange
  StartIndices <- MCStartIndices
  MaxIndications = 8
  MaxCloses = 3
SPECIFICATION Spec
INVARIANTS TypeOK RingInv QuotaFits QuietAfterClose
PROPERTIES LossOnlyWhenTorn SlotInUseUntouched ImplementsFifo
CHECK_DEADLOCK FALSE
