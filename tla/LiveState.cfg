SPECIFICATION Spec
CONSTANTS
  Caller = {c1, c2}
  AdSet = {a1, a2}
  MaxCalls = 3
  MaxFailures = 1
SYMMETRY Symmetry
INVARIANTS TypeOK StopIsObeyed RowsMatchMeta PaidRuns
CHECK_DEADLOCK FALSE
