SPECIFICATION FairSpec
CONSTANTS
  c1 = c1
  c2 = c2
  c3 = c3
  None = None
  Callers <- TwoCallers
  Sections <- TwoSections
  Recreate = FALSE
  MaxLocks = 2
PROPERTIES
  ImplementsRegister
  CallsReturn
