SPECIFICATION FairSpec
CONSTANTS
  Env = {e1, e2, e3}
  Field = {f1, f2, f3, f4, f5}
  KeyId = {k1}
  Request = {r1, r2}
  Lifetime <- MCLifetime
  MaxEnvironments = 1
  MaxFields = 2
  Mixes <- MCMixes
  LastDay = 1
  None = None
INVARIANTS TypeOK OvershootIsBounded NoOrphanKeys RevokedIsEvicted
PROPERTIES PatchUndoesOnlyOverlapping EventuallyRefused
