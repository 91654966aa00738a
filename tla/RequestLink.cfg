CONSTANTS
  FrameIdRange = 2
  MaxConfirmAttempt = 3
  MaxCrcRetries = 1
  MaxQuota = 2
  MaxCalls = 3
  MaxInds = 2
  MaxLineErrors = 2
  MaxUnplugs = 1
SPECIFICATION FairSpec
INVARIANTS TypeOK ConfirmIsOwn TwiceOnlyWhenMisled ForgottenIsKept DeliveredInOrder ExitOnlyAfterSilence
PROPERTIES CallEndsWhileOpen
CHECK_DEADLOCK FALSE
