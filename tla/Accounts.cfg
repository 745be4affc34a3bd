SPECIFICATION Spec
CONSTANTS
  User = {u1}
  Password = {p1, p2}
  Token = {t1, t2}
  Request = {r1, r2}
  InviteTtl = 2
  ResendCooldown = 1
  MaxVersion = 2
  LastHour = 3
  None = None
INVARIANTS TypeOK OldPasswordsAreLockedOut
PROPERTIES LinkWorksOnce ResetKeepsSuspension
SYMMETRY Symmetry
CHECK_DEADLOCK FALSE
