SPECIFICATION FairSpec
CONSTANTS
  Step = {s1, s2}
  Message = {m1, m2}
  Worker = {w1, w2}
  Unhandled = {}
  NoStep = NoStep
  NoMessage = NoMessage
  MaxAttempts = 2
  BatchSize = 2
  MaxCrashes = 1
  MaxOverlaps = 0
INVARIANTS TypeOK ExclusiveClaim RepeatsAreLosses DeadMeansParked
PROPERTIES RetriesAreCounted ImplementsLedger
CHECK_DEADLOCK FALSE
