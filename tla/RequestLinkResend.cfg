CONSTANTS
  FrameIdRange = 2
  MaxConfirmAttempt = 3
  MaxCrcRetries = 1
  MaxQuota = 2
  MaxCalls = 3
  MaxInds = 2
  MaxLineErrors = 2
  MaxUnplugs = 0
SPECIFICATION Spec
INVARIANTS ExecutedAtMostOnce
CHECK_DEADLOCK FALSE
