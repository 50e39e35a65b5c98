SPECIFICATION Spec
CONSTANTS
  Caller = {c1}
  AdSet = {a1, a2}
  MaxCalls = 3
  MaxFailures = 0
INVARIANT OwnersPauseStands
CHECK_DEADLOCK FALSE
