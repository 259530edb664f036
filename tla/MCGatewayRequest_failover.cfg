SPECIFICATION FairSpec
CONSTANTS
  r1 = r1
  r2 = r2
  a1 = a1
  a2 = a2
  s1 = s1
  NoAccount = NoAccount
  NoSession = NoSession
  Requests <- OneRequest
  Accounts <- TwoAccounts
  Sessions <- OneSession
  RouteOf <- StaticAndVercel
  Transports <- AllTransports
  MaxRetries = 1
  MaxProxyRetries = 1
  Reloads = TRUE
  Changes = TRUE
  Supported = 2
  Inbound <- Requested
PROPERTIES
  Answered
INVARIANTS SendsBounded NoAccountTwiceARound OneIdentity BetaMerged GateSettles
