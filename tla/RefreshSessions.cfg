CONSTANTS
  Users = {u1}
  Tokens = {t1, t2, t3}
  Requests = {r1, r2, r3}
  RefreshTtl = 0
  MaxTime = 1
  None = None
SPECIFICATION Spec
SYMMETRY Symmetry
CHECK_DEADLOCK FALSE
INVARIANTS TypeOK TokensBoundedByMisses LogoutAllExplained
PROPERTIES DisabledGainOnlyOvertaken LifecycleRefined
