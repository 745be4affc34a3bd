SPECIFICATION FairSpec
CONSTANTS
  Actor = {a1, a2}
  Admin = {a1}
  Call = {c1, c2}
  SettingsChange = TRUE
  None = None
PROPERTY EveryCallIsAnswered
