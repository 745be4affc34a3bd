SPECIFICATION StrictSpec
CONSTANTS
  Actor = {a1, a2, a3, ed}
  Admin = {a1, a2, a3}
  Call = {c1, c2, c3}
  SettingsChange = FALSE
  None = None
PROPERTIES TwoPersonRule ImplementsRule
SYMMETRY Symmetry
