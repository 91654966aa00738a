CONSTANTS
  FrameIdRange = 2
  MaxConfirmAttempt = 3
  MaxCrcRetries = 1
  MaxQuota = 2
  MaxCalls = 2
  MaxInds = 2
  MaxLineErrors = 0
  MaxUnplugs = 1
SPECIFICATION FairSpec
PROPERTIES CallEnds
CHECK_DEADLOCK FALSE
