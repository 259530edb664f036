SPECIFICATION Spec
CONSTANTS
  c1 = c1
  c2 = c2
  Callers <- TwoCallers
  May <- TheirCommands
  MaxGen = 2
INVARIANT
  NoLateWriter
