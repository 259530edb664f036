SPECIFICATION Spec
CONSTANTS
  c1 = c1
  c2 = c2
  Changers <- OneChanger
  Configs <- ProxyOrStatic
  Updates <- RouteUpdates
  MaxTokens = 1
  Reloads = FALSE
INVARIANTS
  LiveIsServed
