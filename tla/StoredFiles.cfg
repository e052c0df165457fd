CONSTANTS
  Files = {f1, f2}
  Requests = {r1, r2, r3}
  None = None
SPECIFICATION Spec
SYMMETRY Symmetry
CHECK_DEADLOCK FALSE
INVARIANTS TypeOK OrphanExplained DanglingExplained MountedStoresAgree
PROPERTIES DeadStaysDead FilesRefined
