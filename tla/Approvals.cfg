SPECIFICATION FairSpec
CONSTANTS
  Job = {j1, j2}
  Position = {p1}
  Regenerations = 2
  StartPhase = "RESEARCHED"
  StartLevel = "ASSISTED"
  MaxBatches = 2
  MaxByHand = 1
  MaxFailures = 1
INVARIANTS TypeOK VetoHolds LaunchedWasCleared OwnersCallStands
PROPERTY AutopilotMovesOn
CHECK_DEADLOCK FALSE
