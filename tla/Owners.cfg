SPECIFICATION Spec
CONSTANTS
  User = {u1, u2, u3}
  Request = {r1, r2}
  Growth = FALSE
  None = None
INVARIANT AnOwnerRemains
SYMMETRY Symmetry
