SPECIFICATION Spec
CONSTANTS
  c1 = c1
  c2 = c2
  Changers <- TwoChangers
  Configs <- ProxyOrStatic
  Updates <- FewUpdates
  MaxTokens = 0
  Reloads = FALSE
SYMMETRY ChangerSymmetry
INVARIANTS
  RouteMatchesFile
