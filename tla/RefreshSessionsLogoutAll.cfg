CONSTANTS
  Users = {u1}
  Tokens = {t1, t2, t3}
  Requests = {r1, r2}
  RefreshTtl = 0
  MaxTime = 1
  None = None
SPECIFICATION Spec
SYMMETRY Symmetry
CHECK_DEADLOCK FALSE
INVARIANTS LoggedOutFromAllDevices
