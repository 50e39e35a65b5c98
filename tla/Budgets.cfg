SPECIFICATION Spec
CONSTANTS
  Run = {r1}
  Daily = {30, 50}
  Typed = {0, 20}
  Minimum = 7
  MaxRuns = 2
  MaxByHand = 2
  MaxFailures = 1
INVARIANTS TypeOK WithinBudget OneRefreshADay
CHECK_DEADLOCK FALSE
