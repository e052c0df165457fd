CONSTANTS
  Requests = {r1, r2}
  Users = {u1}
  Roles = {user, admin}
  AdminRoles = {admin}
  Ids = {i1, i2, i3}
  MaxHooks = 1
  None = None
SPECIFICATION Spec
SYMMETRY Symmetry
INVARIANTS ErrorResponsesIncludeHeaders
