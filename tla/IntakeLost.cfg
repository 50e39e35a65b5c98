SPECIFICATION FairSpec
CONSTANTS
  Msg = {m1}
  Known = Known
  None = None
  MaxRetries = 3
  MaxFailures = 1
  MaxOutside = 1

PROPERTY AcceptedIsProcessed
CHECK_DEADLOCK FALSE
