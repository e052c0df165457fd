CONSTANTS
  Users = {u1}
  Emails = {e1}
  Statuses = {ACTIVE, BANNED}
  Active = ACTIVE
  AccountRequests = {a1, a2}
  Requests = {r1}
  Tokens = {t1, t2}
  RefreshTtl = 0
  MaxTime = 1
  None = None
SPECIFICATION Spec
SYMMETRY Symmetry
CHECK_DEADLOCK FALSE
INVARIANTS TypeOK
PROPERTIES SessionsRefined RevokedAccessExplained
