SPECIFICATION FairAffinitySpec
CONSTANTS
  s1 = s1
  a1 = a1
  a2 = a2
  p1 = p1
  f1 = f1
  f2 = f2
  Sessions <- OneSession
  Accounts <- TwoAccounts
  Pickers <- OnePicker
  Router = Router
  Loader = Loader
  Flushers <- OneTask
  Nobody = Nobody
  Brief = TRUE
INVARIANTS
  UnsavedIsPending
PROPERTIES
  FileCatchesUp
