CONSTANTS
  Users = {u1, u2}
  Emails = {e1, e2}
  Statuses = {active, banned}
  Requests = {r1, r2}
  None = None
SPECIFICATION Spec
SYMMETRY Symmetry
CHECK_DEADLOCK FALSE
PROPERTIES TakenEmailIsConflict
