SPECIFICATION Spec
CONSTANTS
  r1 = r1
  r2 = r2
  a1 = a1
  a2 = a2
  s1 = s1
  NoAccount = NoAccount
  NoSession = NoSession
  Requests <- TwoRequests
  Accounts <- TwoAccounts
  Sessions <- OneSession
  RouteOf <- StaticAndProxy
  Transports <- AllTransports
  MaxRetries = 2
  MaxProxyRetries = 1
  Reloads = FALSE
  Changes = FALSE
  Supported = 2
  Inbound <- Requested
INVARIANTS
  SessionOnOneAccount
