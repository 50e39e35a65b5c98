SPECIFICATION FairSpec
CONSTANTS
  Step = {s1, s2}
  Message = {m1, m2}
  Worker = {w1, w2}
  Unhandled = {s2}
  NoStep = NoStep
  NoMessage = NoMessage
  MaxAttempts = 2
  BatchSize = 2
  MaxCrashes = 1
  MaxOverlaps = 1
INVARIANT DoneMeansSent
PROPERTY EveryEffectSettles
CHECK_DEADLOCK FALSE
