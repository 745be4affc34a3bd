SPECIFICATION Spec
CONSTANTS
  User = {u1, u2}
  Request = {r1, r2}
  Growth = TRUE
  None = None
INVARIANT AnOwnerRemains
