SPECIFICATION FairSpec
CONSTANTS
  Msg = {m1, m2}
  Known = Known
  None = None
  MaxRetries = 1
  MaxFailures = 2
  MaxOutside = 1
INVARIANTS TypeOK AppliedOnce ProcessedIsAnswered ClosersBookOnce
PROPERTY QueuedIsSettled
CHECK_DEADLOCK FALSE
