SPECIFICATION FairSpec
CONSTANTS
  c1 = c1
  c2 = c2
  Callers <- TwoCallers
  May <- TheirCommands
  MaxGen = 2
INVARIANTS
  HandleUntilExit
PROPERTIES
  EndedStaysEnded
  KillAllKills
  ExitNoticed
