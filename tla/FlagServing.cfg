SPECIFICATION Spec
CONSTANTS
  Env = {e1}
  Key = {e1}
  Writer = {w1, w2}
  FieldType = {string, number}
  MaxWaiting = 2
  Writes <- AllWrites
  None = None
SYMMETRY Symmetry
INVARIANTS TypeOK UndisturbedIsFresh UndisturbedLoads
