SPECIFICATION Spec
CONSTANTS
  r1 = r1
  r2 = r2
  us = us
  jp = jp
  Maintain = Maintain
  NoOne = NoOne
  Requests <- TwoRequests
  Countries <- OneCountry
  AsksFor <- AnyCountry
  MaxConns = 1
  MaxStandby = 1
  ChanCap = 1
  MaxSessions = 2
  GeoReports = TRUE
  Drift = TRUE
  Disconnects = TRUE
  Cycles = TRUE
  Rewrites = TRUE
SYMMETRY RequestSymmetry
INVARIANTS
  TypeOK
  SlotAccounting
  DisableSticks
