SPECIFICATION FormSpec
CONSTANTS
  Form = {f1, f2}
  MaxMishaps = 2
INVARIANTS
  FormTypeOK
  OneLeadPerForm
PROPERTIES
  FormsBecomeLeads
CHECK_DEADLOCK FALSE
