SPECIFICATION Spec
CONSTANTS
  Phone = {p1, p2}
  Code = {c1}
  Login = {l1, l2}
  Number = {n1}
  Client = {k1}
  None = None
  MaxAdmins = 1
  MaxFailures = 1
INVARIANTS TypeOK AccountMatchesUser
PROPERTY NumbersStay
SYMMETRY Symmetry
CHECK_DEADLOCK FALSE
