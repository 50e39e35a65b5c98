SPECIFICATION Spec
CONSTANTS
  Tier = {t1, t2}
  Request = {r1, r2}
  NoRow = NoRow
  MaxMandates = 2
  MaxEvents = 3
  MaxMonths = 2
  MaxFailures = 1
INVARIANTS TypeOK PaidIsInvoiced StatusFollowsMandate
SYMMETRY Symmetry
CHECK_DEADLOCK FALSE
