SPECIFICATION FairSpecH
CONSTANTS
  Env = {e1}
  Key = {e1}
  Writer = {w1}
  FieldType = {"string"}
  MaxWaiting = 1
  Writes <- AllWrites
  None = None
PROPERTIES ImplementsContract EventuallyFresh
