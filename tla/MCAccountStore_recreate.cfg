SPECIFICATION Spec
CONSTANTS
  c1 = c1
  c2 = c2
  c3 = c3
  None = None
  Callers <- TwoCallers
  Sections <- TwoSections
  Recreate = TRUE
  MaxLocks = 2
PROPERTY
  ImplementsRegister
